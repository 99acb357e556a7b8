--------------------------- MODULE MCRpcCommands ---------------------------
(***************************************************************************)
(* Small instances of RpcCommands: one parameter for the flags, two for    *)
(* their values.                                                           *)
(***************************************************************************)
EXTENDS RpcCommands

OneParam  == {"P1"}
OneOrder  == <<"P1">>
TwoParams == {"P1", "P2"}
TwoOrder  == <<"P1", "P2">>

Say(k, v) == [key |-> k, value |-> v]
Number(n) == <<Say("params", n)>>

\* The numbers an RPC of Thingsboard may carry, pump commands of Sedem, a
\* parameter behind an object, and a download of the default length before
\* LogSize makes the next one longer.
Every == {Number(n) : n \in {1, 2, 4, 5}} \cup
         {<<Say("cmd", 1), Say("DO1", 1)>>, <<Say("cmd", 0), Say("DO1", 0)>>,
          <<Say("params", Object), Say("P1", 7)>>,
          <<Say("DLOAD", 1), Say("LogSize", 3)>>}

\* Two parameters that are set in one message.
SetTwo == {<<Say("P1", 7), Say("P2", 8)>>}
=============================================================================
