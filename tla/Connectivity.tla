---------------------------- MODULE Connectivity ----------------------------
(***************************************************************************)
(* What the rest of the RMU may rely on about the two MQTT sessions: the   *)
(* flags mqtt_connected and mqtt_connected_sdm, and the part of            *)
(* mqtt_app_thread that runs.  A flag rises only while the thread          *)
(* connects; it may fall at any time.  The thread tries the publish loops  *)
(* in a fixed order and starts again when it is left with no server.       *)
(*                                                                         *)
(* ConnManager implements this interface; StoreForward builds on it.       *)
(***************************************************************************)

VARIABLES
  conn,    \* mqtt_connected, mqtt_connected_sdm
  loop     \* the part of mqtt_app_thread that runs

vars == <<conn, loop>>
-----------------------------------------------------------------------------
Server == {"TB", "SDM"}

\* The loops that publish to at least one server.
PublishLoop == {"both", "tb", "sdm"}

LoopCondition(l) == CASE l = "both" -> conn["TB"] /\ conn["SDM"]
                      [] l = "tb"   -> conn["TB"] /\ ~conn["SDM"]
                      [] l = "sdm"  -> ~conn["TB"] /\ conn["SDM"]
                      [] OTHER      -> ~conn["TB"] /\ ~conn["SDM"]

\* The loop that follows in the code.  The variant has no loop for
\* Thingsboard alone.
NextLoop_Skipping(l) == IF l = "both" THEN "sdm" ELSE "none"
NextLoop(l) == IF l = "both" THEN "tb" ELSE IF l = "tb" THEN "sdm" ELSE "none"

Init ==
  /\ conn = [s \in Server |-> FALSE]
  /\ loop = "startAgain"

StartAgain ==
  /\ loop = "startAgain"
  /\ loop' = "connect"
  /\ UNCHANGED conn

\* The result callback of a connect request.
ConnectServer(s) ==
  /\ loop = "connect"
  /\ conn' = [conn EXCEPT ![s] = TRUE]
  /\ UNCHANGED loop

\* The round of connecting is over, whatever came of it.
Proceed ==
  /\ loop = "connect"
  /\ loop' = "both"
  /\ UNCHANGED conn

\* The condition of a publish loop is found false.
LeaveLoop ==
  /\ loop \in PublishLoop
  /\ ~LoopCondition(loop)
  /\ loop' = NextLoop(loop)
  /\ UNCHANGED conn

\* A single-server loop refreshes the modem to regain the other server.
Refresh ==
  /\ loop \in {"tb", "sdm"}
  /\ loop' = "startAgain"
  /\ UNCHANGED conn

\* With no server the thread refreshes the modem; if a server were seen
\* connected here it would fall through to another round of connecting.
NoServer ==
  /\ loop = "none"
  /\ loop' = IF LoopCondition("none") THEN "startAgain" ELSE "connect"
  /\ UNCHANGED conn

\* The exception callback of a session.
Disconnect(s) ==
  /\ conn' = [conn EXCEPT ![s] = FALSE]
  /\ UNCHANGED loop

PowerCycle ==
  /\ conn' = [s \in Server |-> FALSE]
  /\ loop' = "startAgain"

Next ==
  \/ StartAgain \/ Proceed \/ LeaveLoop \/ Refresh \/ NoServer \/ PowerCycle
  \/ \E s \in Server : ConnectServer(s) \/ Disconnect(s)

Spec == Init /\ [][Next]_vars
-----------------------------------------------------------------------------
TypeOK ==
  /\ conn \in [Server -> BOOLEAN]
  /\ loop \in {"startAgain", "connect", "none"} \cup PublishLoop

\* The thread gives the sessions up and refreshes the modem only when both
\* are down: although it tests the flags of each loop at another moment, no
\* connected server is stepped over on the way.
NoServerSkipped == loop = "none" => ~conn["TB"] /\ ~conn["SDM"]

\* The same, loop by loop: what the tests passed so far exclude.
SkippedInv ==
  /\ loop = "tb"  => ~(conn["TB"] /\ conn["SDM"])
  /\ loop = "sdm" => ~conn["TB"]
  /\ NoServerSkipped
=============================================================================
