-------------------------- MODULE CommandDelivery --------------------------
(***************************************************************************)
(* What a server may rely on about its remote commands: a command that it  *)
(* asks for waits until the pump controller is sent it, or the RMU         *)
(* restarts; nothing is sent that does not wait.  Wishes for a command     *)
(* that waits already may merge, but one made while the command is being   *)
(* sent is not lost.                                                       *)
(*                                                                         *)
(* RpcCommands implements this interface with one flag for each command.   *)
(***************************************************************************)
EXTENDS Integers

CONSTANTS
  Command, \* the commands
  Param    \* those that set a parameter

VARIABLES
  raised,  \* how often each command was asked for
  waiting, \* the times it is still to be sent: at most one, and one under way
  sent     \* how often it was sent

vars == <<raised, waiting, sent>>
-----------------------------------------------------------------------------
None == [c \in Command |-> 0]

\* One wish more for a command that waits n times: it merges with another or not.
Wished(n) == {n, n + 1} \cap 1..2

Init == raised = None /\ waiting = None /\ sent = None

\* jsonextract has found the command in a message.
Ask(c) ==
  /\ raised' = [raised EXCEPT ![c] = @ + 1]
  /\ \E n \in Wished(waiting[c]) : waiting' = [waiting EXCEPT ![c] = n]
  /\ UNCHANGED sent

\* send_rpc_to_criBrd sends it, ...
Deliver(c) ==
  /\ c \notin Param /\ waiting[c] > 0
  /\ sent' = [sent EXCEPT ![c] = @ + 1]
  /\ waiting' = [waiting EXCEPT ![c] = @ - 1]
  /\ UNCHANGED raised

\* ... and asks for all parameters after it has set one.
DeliverParam(p) ==
  /\ waiting[p] > 0
  /\ sent' = [sent EXCEPT ![p] = @ + 1]
  /\ raised' = [raised EXCEPT !["GET_cfg"] = @ + 1]
  /\ \E n \in Wished(waiting["GET_cfg"]) :
       waiting' = [waiting EXCEPT ![p] = @ - 1, !["GET_cfg"] = n]

\* A restart forgets what waits.
Restart ==
  /\ waiting' = None
  /\ UNCHANGED <<raised, sent>>

Next ==
  \/ \E c \in Command : Ask(c) \/ Deliver(c)
  \/ \E p \in Param : DeliverParam(p)
  \/ Restart

Spec == Init /\ [][Next]_vars
=============================================================================
