---------------------------- MODULE ConnManager ----------------------------
(***************************************************************************)
(* How mqtt_app_thread makes, uses, loses and regains its two sessions.    *)
(*                                                                         *)
(* Every request to the MQTT library (connect, subscribe, publish) is      *)
(* answered by a callback that releases the one semaphore mqtt_semp; the   *)
(* thread waits for it without a time-out.  A connect callback also raises *)
(* the server's flag.  The library reports a lost session by an exception  *)
(* callback, which lowers the flag and releases nothing.                   *)
(*                                                                         *)
(* Actors: the thread, the library (Answer, SessionLost, Exception), the   *)
(* network (NetworkChange) and the UART thread's minutes (RaiseRetry).     *)
(***************************************************************************)
EXTENDS Integers

CONSTANT MaxRuns    \* rounds of connecting before a reboot (50 in the code)

ASSUME MaxRunsAssumption == MaxRuns \in Nat

VARIABLES
  conn,      \* mqtt_connected, mqtt_connected_sdm
  loop,      \* the part of mqtt_app_thread that runs
  step,      \* where inside that part it is
  topics,    \* topics of Sedem still to subscribe to
  run_num,   \* the next round of connecting
  sem,       \* the count of mqtt_semp
  retry,     \* per server, the flag that asks for its reconnection
  pending,   \* library: requests not answered yet
  session,   \* library: the sessions that are up
  lost,      \* library: exception callbacks still to be made
  up         \* the servers the network reaches

libVars == <<pending, session, lost>>
vars    == <<conn, loop, step, topics, run_num, sem, retry, libVars, up>>
-----------------------------------------------------------------------------
Link == INSTANCE Connectivity WITH conn <- conn, loop <- loop

Server == {"TB", "SDM"}

Request == {"connect", "sub", "pub"} \X Server

\* The steps in which the thread waits for mqtt_semp.
WaitSteps == {"tbConnect", "tbSub", "sdmConnect", "sdmSub", "bodyPub", "restPub"}

\* The request a wait belongs to.
RequestsOf(st) ==
  {r \in Request : \/ st = "tbConnect"  /\ r = <<"connect", "TB">>
                   \/ st = "tbSub"      /\ r = <<"sub", "TB">>
                   \/ st = "sdmConnect" /\ r = <<"connect", "SDM">>
                   \/ st = "sdmSub"     /\ r = <<"sub", "SDM">>
                   \/ st \in {"bodyPub", "restPub"} /\ r[1] = "pub"}

\* A round is left.  The variant allows one too many.
RoundLeft_Late == run_num <= MaxRuns + 1
RoundLeft      == run_num <= MaxRuns

\* The library takes the request (MQTTCLIENT_WOUNDBLOCK) and the thread goes
\* to wait for the answer.  The variant connects to Sedem without waiting for
\* the answer of Thingsboard.
Ask_NoWait(r, waitStep) == /\ pending' = pending \cup {r}
                           /\ step' = IF waitStep = "tbConnect" THEN "sdmInit" ELSE waitStep
Ask(r, waitStep) == /\ pending' = pending \cup {r}
                    /\ step' = waitStep

\* The wait for an answer ends.
Woken(st) == step = st /\ sem > 0 /\ sem' = sem - 1

\* A connect callback raises the flag only on status 0.  The variant raises
\* it on every answer.
RaiseFlag_Always(s, ok) == conn' = [conn EXCEPT ![s] = TRUE]
RaiseFlag(s, ok)        == conn' = [conn EXCEPT ![s] = @ \/ ok]

\* The server whose retry flag a single-server loop looks at.
DownServer == IF loop = "tb" THEN "SDM" ELSE "TB"

\* What follows a part of a loop body: only the single-server loops look at a
\* retry flag.  The variant never does.
AfterPart_NoRetry(part) == IF part = "rest" THEN "test" ELSE "rest"
AfterPart(part)         == IF part = "rest" THEN "test"
                           ELSE IF loop = "both" THEN "rest" ELSE "retry"

\* airplane_mode: every session dies, its exception callback follows.
AirplaneMode ==
  /\ session' = {}
  /\ lost' = lost \cup session
  /\ UNCHANGED pending
-----------------------------------------------------------------------------
Init ==
  /\ conn = [s \in Server |-> FALSE]
  /\ loop = "startAgain" /\ step = "test"
  /\ topics = 0 /\ run_num = 1
  /\ sem = 0
  /\ retry = [s \in Server |-> FALSE]
  /\ pending = {} /\ session = {} /\ lost = {}
  /\ up \in SUBSET Server
-----------------------------------------------------------------------------
\* startAgain: a new semaphore with count 0; only Sedem's flag is cleared.
StartAgain ==
  /\ Link!StartAgain
  /\ sem' = 0
  /\ retry' = [retry EXCEPT !["SDM"] = FALSE]
  /\ UNCHANGED <<topics, step, run_num, libVars, up>>

\* The condition of while(run_num <= 50); the round counts whatever follows.
Round ==
  /\ loop = "connect" /\ step = "test" /\ RoundLeft
  /\ run_num' = run_num + 1
  /\ \/ Ask(<<"connect", "TB">>, "tbConnect") /\ UNCHANGED <<conn, loop>>
     \* ql_mqtt_client_init fails: goto sedem_Publish_only
     \/ step' = "sdmInit" /\ UNCHANGED <<conn, loop, pending>>
     \* the data call cannot be bound, or connect fails at once: break
     \/ Link!Proceed /\ UNCHANGED <<step, pending>>
  /\ UNCHANGED <<topics, sem, retry, session, lost, up>>

RoundsUsedUp ==
  /\ loop = "connect" /\ step = "test" /\ ~RoundLeft
  /\ Link!Proceed
  /\ UNCHANGED <<topics, step, run_num, sem, retry, libVars, up>>

\* The Thingsboard flag is up after the wait: subscribe.
TBConnected ==
  /\ Woken("tbConnect") /\ conn["TB"]
  /\ \/ Ask(<<"sub", "TB">>, "tbSub")
     \/ step' = "sdmInit" /\ UNCHANGED pending
  /\ UNCHANGED <<topics, conn, loop, run_num, retry, session, lost, up>>

TBNotConnected ==
  /\ Woken("tbConnect") /\ ~conn["TB"]
  /\ step' = "sdmInit"
  /\ session' = session \ {"TB"}
  /\ UNCHANGED <<topics, conn, loop, run_num, retry, pending, lost, up>>

TBSubscribed ==
  /\ Woken("tbSub")
  /\ step' = "sdmInit"
  /\ UNCHANGED <<topics, conn, loop, run_num, retry, libVars, up>>

\* sedem_Publish_only
SDMInit ==
  /\ step = "sdmInit"
  /\ \/ Ask(<<"connect", "SDM">>, "sdmConnect") /\ UNCHANGED <<conn, loop>>
     \* ql_mqtt_client_init or connect fails at once: break
     \/ step' = "test" /\ Link!Proceed /\ UNCHANGED pending
  /\ UNCHANGED <<topics, run_num, sem, retry, session, lost, up>>

\* The Sedem flag is up after the wait: its four topics are subscribed to one
\* after the other.
SDMConnected ==
  /\ Woken("sdmConnect") /\ conn["SDM"]
  /\ step' = "topics" /\ topics' = 4
  /\ UNCHANGED <<conn, loop, run_num, retry, libVars, up>>

SubscribeTopic ==
  /\ step = "topics" /\ topics > 0
  /\ topics' = topics - 1
  /\ \/ Ask(<<"sub", "SDM">>, "sdmSub")
     \/ UNCHANGED <<step, pending>>
  /\ UNCHANGED <<conn, loop, run_num, sem, retry, session, lost, up>>

TopicSubscribed ==
  /\ Woken("sdmSub")
  /\ step' = "topics"
  /\ UNCHANGED <<conn, loop, topics, run_num, retry, libVars, up>>

AllSubscribed ==
  /\ step = "topics" /\ topics = 0
  /\ step' = "test" /\ Link!Proceed
  /\ UNCHANGED <<topics, run_num, sem, retry, libVars, up>>

SDMNotConnected ==
  /\ Woken("sdmConnect") /\ ~conn["SDM"]
  /\ step' = "test" /\ Link!Proceed
  /\ session' = session \ {"SDM"}
  /\ UNCHANGED <<topics, run_num, retry, pending, lost, up>>
-----------------------------------------------------------------------------
\* The publish loops.  A body publishes, the single-server loops then look at
\* a retry flag, and the replays publish again.
EnterLoop ==
  /\ loop \in Link!PublishLoop /\ step = "test" /\ Link!LoopCondition(loop)
  /\ step' = "body"
  /\ UNCHANGED <<topics, conn, loop, run_num, sem, retry, libVars, up>>

LeaveLoop ==
  /\ step = "test" /\ Link!LeaveLoop
  /\ UNCHANGED <<topics, step, run_num, sem, retry, libVars, up>>

\* A part of the body publishes to a server, connected or not, or nothing; a
\* request the library refuses is not waited for.
Publish(part, waitStep) ==
  /\ step = part
  /\ \/ \E s \in Server : Ask(<<"pub", s>>, waitStep)
     \/ step' = AfterPart(part) /\ UNCHANGED pending
  /\ UNCHANGED <<topics, conn, loop, run_num, sem, retry, session, lost, up>>

Published(part, waitStep) ==
  /\ Woken(waitStep)
  /\ step' = AfterPart(part)
  /\ UNCHANGED <<topics, conn, loop, run_num, retry, libVars, up>>

RetryServer ==
  /\ step = "retry"
  /\ \/ /\ retry[DownServer]
        /\ retry' = [retry EXCEPT ![DownServer] = FALSE]
        /\ step' = "test"
        /\ AirplaneMode /\ Link!Refresh
     \/ /\ ~retry[DownServer]
        /\ step' = "rest"
        /\ UNCHANGED <<conn, loop, retry, libVars>>
  /\ UNCHANGED <<topics, run_num, sem, up>>

\* No server: refresh the modem and start again.
NoServer ==
  /\ Link!NoServer
  /\ IF Link!LoopCondition("none") THEN AirplaneMode ELSE UNCHANGED libVars
  /\ UNCHANGED <<topics, step, run_num, sem, retry, up>>

Thread ==
  \/ StartAgain \/ Round \/ RoundsUsedUp
  \/ TBConnected \/ TBNotConnected \/ TBSubscribed
  \/ SDMInit \/ SDMConnected \/ SDMNotConnected
  \/ SubscribeTopic \/ TopicSubscribed \/ AllSubscribed
  \/ EnterLoop \/ LeaveLoop \/ RetryServer \/ NoServer
  \/ Publish("body", "bodyPub") \/ Published("body", "bodyPub")
  \/ Publish("rest", "restPub") \/ Published("rest", "restPub")
-----------------------------------------------------------------------------
\* The library answers a request: a connect succeeds when the server is in
\* reach; the other callbacks do not look at the result.
Answer(r) ==
  /\ r \in pending
  /\ pending' = pending \ {r}
  /\ sem' = sem + 1
  /\ IF r[1] = "connect"
       THEN /\ RaiseFlag(r[2], r[2] \in up)
            /\ session' = IF r[2] \in up THEN session \cup {r[2]} ELSE session
       ELSE UNCHANGED <<conn, session>>
  /\ UNCHANGED <<topics, loop, step, run_num, retry, lost, up>>

\* The keep-alive of a session fails.
SessionLost(s) ==
  /\ s \in session \ up
  /\ session' = session \ {s}
  /\ lost' = lost \cup {s}
  /\ UNCHANGED <<topics, conn, loop, step, run_num, sem, retry, pending, up>>

\* mqtt_state_exception_cb, mqtt_state_exception_cb_sdm.
Exception(s) ==
  /\ s \in lost
  /\ Link!Disconnect(s)
  /\ lost' = lost \ {s}
  /\ UNCHANGED <<topics, step, run_num, sem, retry, pending, session, up>>

NetworkChange ==
  /\ up' \in SUBSET Server
  /\ UNCHANGED <<topics, conn, loop, step, run_num, sem, retry, libVars>>

\* A minute that is a multiple of 11 (Sedem) or of 57 (Thingsboard).
RaiseRetry(s) ==
  /\ retry' = [retry EXCEPT ![s] = TRUE]
  /\ UNCHANGED <<topics, conn, loop, step, run_num, sem, libVars, up>>

Next ==
  \/ Thread
  \/ \E r \in Request : Answer(r)
  \/ \E s \in Server : SessionLost(s) \/ Exception(s) \/ RaiseRetry(s)
  \/ NetworkChange

Spec == Init /\ [][Next]_vars

\* The thread is scheduled, the library answers and reports, the timer runs;
\* the network promises nothing.
Fairness ==
  /\ WF_vars(Thread)
  /\ \A r \in Request : WF_vars(Answer(r))
  /\ \A s \in Server : WF_vars(SessionLost(s)) /\ WF_vars(Exception(s))
                       /\ WF_vars(RaiseRetry(s))

FairSpec == Spec /\ Fairness
-----------------------------------------------------------------------------
TypeOK ==
  /\ conn \in [Server -> BOOLEAN]
  /\ loop \in {"startAgain", "connect", "none"} \cup Link!PublishLoop
  /\ step \in {"test", "sdmInit", "topics", "body", "retry", "rest"} \cup WaitSteps
  /\ topics \in 0..4
  /\ run_num \in 1..(MaxRuns + 1)
  /\ sem \in {0, 1}
  /\ retry \in [Server -> BOOLEAN]
  /\ pending \subseteq Request
  /\ session \subseteq Server /\ lost \subseteq Server /\ up \subseteq Server

\* One semaphore serves every request of both servers.  The thread never takes
\* the answer of one request for that of another: outside a wait nothing is
\* outstanding and nothing is left in the semaphore; in a wait it is either
\* the very request that is outstanding or its answer that is in.
OwnAnswer ==
  IF step \in WaitSteps
    THEN \/ sem = 1 /\ pending = {}
         \/ sem = 0 /\ \E r \in RequestsOf(step) : pending = {r}
    ELSE sem = 0 /\ pending = {}

\* A flag that is up belongs to a session that is up or to one whose loss the
\* library still has to report: no flag stays up for a dead session.
FlagHonest == \A s \in Server : conn[s] => s \in session \cup lost

\* ConnManager keeps what Connectivity promises.
ImplementsConnectivity == Link!Spec

\* A server that stays in reach is connected for good in the end, or the
\* rounds of connecting are used up.
ReconnectsWithinRounds ==
  \A s \in Server : <>[](s \in up) => <>[](conn[s] \/ ~RoundLeft)

\* "now it takes 2 mins to reconnect": a server that stays in reach is
\* connected in the end.
Reconnects == \A s \in Server : <>[](s \in up) => []<>conn[s]
=============================================================================
