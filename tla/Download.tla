------------------------------ MODULE Download ------------------------------
(***************************************************************************)
(* Old logs on request: the RPCs DLOAD, LOAD and LogSize.                  *)
(*                                                                         *)
(* The client task of the MQTT library reads lines of a log and offers     *)
(* them to the queue sdData, without waiting for room.  The MQTT thread    *)
(* takes one line in each turn of a publish loop and publishes it to the   *)
(* servers whose flags are up.  After each publish it waits for an answer, *)
(* which only the client task can bring.                                   *)
(*                                                                         *)
(* RpcCommands calls these operations.                                     *)
(***************************************************************************)
EXTENDS Integers, Sequences

CONSTANTS
  Fewest,       \* a number of lines this small is not taken (5 in the code)
  Default,      \* ... but this one (450)
  SdDataCapacity \* depth of the queue sdData (650)

VARIABLES
  numberOFLInes, \* the lines to offer, as LogSize set them
  left,          \* the lines a download has still to offer, 0 outside of one
  sdData,        \* the queue: TRUE for a line of at least 500 characters
  conn,          \* the servers whose flags are up
  mq,            \* what the MQTT thread does with a line
  test,          \* the test of publish_lost_data it is at
  to,            \* the servers it has still to publish to after that test
  began,         \* history: the servers that were up when the call began
  got            \* history: how often each server was sent the line in it

clientVars  == <<numberOFLInes, left>>
publishVars == <<mq, test, to, began, got>>
vars == <<clientVars, sdData, conn, publishVars>>
-----------------------------------------------------------------------------
Server == {"TB", "SDM"}

\* The servers that must be up, and no other, for each test of
\* publish_lost_data to succeed.  The variant asks for both of them last.
Tested_BothLast == <<{"TB"}, {"SDM"}, {"TB", "SDM"}>>
Tested          == <<{"TB", "SDM"}, {"TB"}, {"SDM"}>>

\* ql_rtos_queue_release does not wait for room.  The variant does.
MayRelease_Waiting == Len(sdData) < SdDataCapacity
MayRelease         == TRUE

Lines == IF numberOFLInes <= Fewest THEN Default ELSE numberOFLInes

Nobody == [s \in Server |-> 0]
-----------------------------------------------------------------------------
Init ==
  /\ numberOFLInes = 0 /\ left = 0 /\ sdData = <<>>
  /\ conn = {}
  /\ mq = "loop" /\ test = 1 /\ to = {}
  /\ began = {} /\ got = Nobody

\* LogSize.
SetSize(n) ==
  /\ numberOFLInes' = n
  /\ UNCHANGED <<left, sdData, conn, publishVars>>

\* DLOAD, or LOAD for the log of the day; there may be no such log.
Begin ==
  /\ \/ left' = Lines /\ numberOFLInes' = Lines
     \/ UNCHANGED clientVars
  /\ UNCHANGED <<sdData, conn, publishVars>>

\* ql_fgets reads a line, or leaves something or nothing in sd_buffer at the
\* end of the file.
Offer ==
  /\ left > 0 /\ MayRelease
  /\ left' = left - 1
  /\ sdData' \in IF Len(sdData) < SdDataCapacity
                   THEN {Append(sdData, long) : long \in BOOLEAN} ELSE {sdData}
  /\ UNCHANGED <<numberOFLInes, conn, publishVars>>
-----------------------------------------------------------------------------
\* The body of a publish loop begins.
EnterLoop ==
  /\ mq = "loop" /\ conn # {}
  /\ mq' = "take"
  /\ UNCHANGED <<clientVars, sdData, conn, test, to, began, got>>

\* A line is taken.  Nothing, or a short one, goes no further.
Take ==
  /\ mq = "take"
  /\ sdData' = IF sdData = <<>> THEN <<>> ELSE Tail(sdData)
  /\ got' = Nobody /\ test' = 1
  /\ LET long == sdData # <<>> /\ Head(sdData)
     IN \/ long  /\ mq' = "test"     /\ began' = conn
        \/ ~long /\ mq' = "commands" /\ began' = {}
  /\ UNCHANGED <<clientVars, conn, to>>

\* On to the next test, or out of publish_lost_data.
NextTest ==
  /\ mq' = IF test = Len(Tested) THEN "commands" ELSE "test"
  /\ test' = IF test = Len(Tested) THEN 1 ELSE test + 1

Test ==
  /\ mq = "test"
  /\ \/ conn = Tested[test] /\ mq' = "publish" /\ to' = conn /\ UNCHANGED test
     \/ conn # Tested[test] /\ NextTest /\ UNCHANGED to
  /\ UNCHANGED <<clientVars, sdData, conn, began, got>>

\* ql_mqtt_publish, first to Thingsboard; an answer is due unless it fails.
Publish(s) ==
  /\ mq = "publish" /\ s \in to /\ (s = "SDM" => "TB" \notin to)
  /\ got' = [got EXCEPT ![s] = @ + 1]
  /\ to' = to \ {s}
  /\ \/ mq' = "await" /\ UNCHANGED test
     \/ IF to' = {} THEN NextTest ELSE UNCHANGED <<mq, test>>
  /\ UNCHANGED <<clientVars, sdData, conn, began>>

\* mqtt_requst_result_cb.
Answer ==
  /\ mq = "await"
  /\ IF to = {} THEN NextTest ELSE mq' = "publish" /\ UNCHANGED test
  /\ UNCHANGED <<clientVars, sdData, conn, to, began, got>>

\* The body of the loop ends.
Leave ==
  /\ mq = "commands"
  /\ mq' = "loop"
  /\ UNCHANGED <<clientVars, sdData, conn, test, to, began, got>>

\* An exception callback lowers a flag.  Flags are raised while connecting,
\* which is outside of the publish loops.
Lose(s) ==
  /\ conn' = conn \ {s}
  /\ UNCHANGED <<clientVars, sdData, publishVars>>

Gain(s) ==
  /\ mq = "loop"
  /\ conn' = conn \cup {s}
  /\ UNCHANGED <<clientVars, sdData, publishVars>>

Restart ==
  /\ numberOFLInes' = 0 /\ left' = 0 /\ sdData' = <<>>
  /\ conn' = {}
  /\ mq' = "loop" /\ test' = 1 /\ to' = {}
  /\ began' = {} /\ got' = Nobody

Next ==
  \/ \E n \in Int : SetSize(n)
  \/ Begin \/ Offer
  \/ EnterLoop \/ Take \/ Test \/ Answer \/ Leave
  \/ \E s \in Server : Publish(s) \/ Lose(s) \/ Gain(s)
  \/ Restart

Spec == Init /\ [][Next]_vars
-----------------------------------------------------------------------------
TypeOK ==
  /\ numberOFLInes \in Int /\ left \in Nat
  /\ sdData \in Seq(BOOLEAN) /\ Len(sdData) <= SdDataCapacity
  /\ conn \subseteq Server
  /\ mq \in {"loop", "take", "test", "publish", "await", "commands"}
  /\ test \in 1..Len(Tested) /\ to \subseteq Server
  /\ began \subseteq Server /\ got \in [Server -> Nat]

\* A line taken off the queue is sent to every server that stays up, although
\* the flags are tested three times and fall in between, and twice only if the
\* other server went down meanwhile.
LineSent ==
  mq = "commands" =>
    \A s \in began \cap conn : got[s] >= 1 /\ (got[s] = 2 => conn # began)
=============================================================================
