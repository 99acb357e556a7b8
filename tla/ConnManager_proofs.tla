------------------------- MODULE ConnManager_proofs -------------------------
(***************************************************************************)
(* Proofs about ConnManager: its types, the pairing of requests and        *)
(* answers, the honesty of the flags, and that it implements Connectivity. *)
(***************************************************************************)
EXTENDS ConnManager, TLAPS

\* Where the thread can be inside each of its parts.
ConnectSteps == {"test", "tbConnect", "tbSub", "sdmInit", "sdmConnect", "topics", "sdmSub"}
LoopSteps    == {"test", "body", "bodyPub", "retry", "rest", "restPub"}
PlaceInv ==
  /\ loop \in {"startAgain", "none"} => step = "test"
  /\ loop = "connect" => step \in ConnectSteps
  /\ loop \in Link!PublishLoop => step \in LoopSteps

IInv == TypeOK /\ PlaceInv /\ OwnAnswer /\ FlagHonest

LEMMA InitIInv == Init => IInv
BY MaxRunsAssumption
   DEF Init, IInv, TypeOK, PlaceInv, OwnAnswer, FlagHonest, Server, WaitSteps,
       Link!PublishLoop

\* A thread that is woken takes the one answer there is.
LEMMA WokenTakes ==
  ASSUME TypeOK, NEW st, Woken(st)
  PROVE  step = st /\ sem = 1 /\ sem' = 0
BY DEF TypeOK, Woken

\* Requests are well formed.
LEMMA RequestType ==
  /\ \A s \in Server : <<"connect", s>> \in Request /\ <<"sub", s>> \in Request
                       /\ <<"pub", s>> \in Request
  /\ \A r \in Request : r[2] \in Server
BY DEF Request

LEMMA TypeStep == TypeOK /\ PlaceInv /\ OwnAnswer /\ [Next]_vars => TypeOK'
<1> SUFFICES ASSUME TypeOK, PlaceInv, OwnAnswer, [Next]_vars PROVE TypeOK'
  OBVIOUS
<1> USE MaxRunsAssumption DEF TypeOK, WaitSteps, Link!PublishLoop, Server, libVars
<1>1. CASE StartAgain
  BY <1>1 DEF StartAgain, Link!StartAgain
<1>2. CASE Round
  BY <1>2 DEF Round, RoundLeft, Ask, Request, Link!Proceed
<1>3. CASE RoundsUsedUp
  BY <1>3 DEF RoundsUsedUp, Link!Proceed
<1>4. CASE TBConnected \/ TBNotConnected \/ TBSubscribed
  BY <1>4, WokenTakes, RequestType DEF TBConnected, TBNotConnected, TBSubscribed, Ask
<1>5. CASE SDMInit
  BY <1>5 DEF SDMInit, Ask, Request, Link!Proceed
<1>6. CASE SDMConnected \/ SDMNotConnected
  <2>1. CASE SDMConnected
    BY <2>1, WokenTakes DEF SDMConnected
  <2>2. CASE SDMNotConnected
    BY <2>2, WokenTakes DEF SDMNotConnected, Link!Proceed
  <2>3. QED
    BY <1>6, <2>1, <2>2
<1>7. CASE SubscribeTopic
  BY <1>7 DEF SubscribeTopic, Ask, Request
<1>8. CASE TopicSubscribed \/ AllSubscribed
  BY <1>8, WokenTakes DEF TopicSubscribed, AllSubscribed, Link!Proceed
<1>9. CASE EnterLoop \/ LeaveLoop \/ NoServer
  BY <1>9 DEF EnterLoop, LeaveLoop, NoServer, AirplaneMode, Link!LeaveLoop,
              Link!NextLoop, Link!NoServer
<1>10. CASE RetryServer
  BY <1>10 DEF RetryServer, AirplaneMode, DownServer, Link!Refresh
<1>11. CASE Publish("body", "bodyPub") \/ Publish("rest", "restPub")
  BY <1>11, RequestType DEF Publish, Ask, AfterPart
<1>12. CASE Published("body", "bodyPub") \/ Published("rest", "restPub")
  BY <1>12, WokenTakes DEF Published, AfterPart
<1>13. ASSUME NEW r \in Request, Answer(r) PROVE TypeOK'
  <2>1. r[2] \in Server
    BY RequestType
  <2>2. sem' = 1
    BY <1>13 DEF Answer, OwnAnswer
  <2>3. QED
    BY <1>13, <2>1, <2>2 DEF Answer, RaiseFlag
<1>14. ASSUME NEW s \in Server, SessionLost(s) \/ Exception(s) \/ RaiseRetry(s)
       PROVE TypeOK'
  BY <1>14 DEF SessionLost, Exception, RaiseRetry, Link!Disconnect
<1>15. CASE NetworkChange \/ UNCHANGED vars
  BY <1>15 DEF NetworkChange, vars
<1> QED
  BY <1>1, <1>2, <1>3, <1>4, <1>5, <1>6, <1>7, <1>8, <1>9, <1>10, <1>11, <1>12,
     <1>13, <1>14, <1>15 DEF Next, Thread

\* Who may move the thread, and to where.
LEMMA PlaceStep == TypeOK /\ PlaceInv /\ [Next]_vars => PlaceInv'
<1> SUFFICES ASSUME TypeOK, PlaceInv, [Next]_vars PROVE PlaceInv'
  OBVIOUS
<1> USE DEF TypeOK, PlaceInv, ConnectSteps, LoopSteps, WaitSteps, Link!PublishLoop, libVars
<1>1. CASE StartAgain \/ Round \/ RoundsUsedUp
  BY <1>1 DEF StartAgain, Round, RoundsUsedUp, Ask, Link!StartAgain, Link!Proceed
<1>2. CASE TBConnected \/ TBNotConnected \/ TBSubscribed \/ SDMInit
  BY <1>2 DEF TBConnected, TBNotConnected, TBSubscribed, SDMInit, Woken, Ask, Link!Proceed
<1>3. CASE \/ SDMConnected \/ SDMNotConnected \/ SubscribeTopic \/ TopicSubscribed
           \/ AllSubscribed
  BY <1>3 DEF SDMConnected, SDMNotConnected, SubscribeTopic, TopicSubscribed,
              AllSubscribed, Woken, Ask, Link!Proceed
<1>4. CASE EnterLoop \/ LeaveLoop \/ NoServer \/ RetryServer
  BY <1>4 DEF EnterLoop, LeaveLoop, NoServer, RetryServer, Link!LeaveLoop,
              Link!NextLoop, Link!NoServer, Link!Refresh
<1>5. CASE \/ Publish("body", "bodyPub") \/ Publish("rest", "restPub")
           \/ Published("body", "bodyPub") \/ Published("rest", "restPub")
  BY <1>5 DEF Publish, Published, Woken, Ask, AfterPart
<1>6. ASSUME NEW r \in Request, Answer(r) PROVE PlaceInv'
  BY <1>6 DEF Answer
<1>7. ASSUME NEW s \in Server, SessionLost(s) \/ Exception(s) \/ RaiseRetry(s)
      PROVE PlaceInv'
  BY <1>7 DEF SessionLost, Exception, RaiseRetry, Link!Disconnect
<1>8. CASE NetworkChange \/ UNCHANGED vars
  BY <1>8 DEF NetworkChange, vars
<1> QED
  BY <1>1, <1>2, <1>3, <1>4, <1>5, <1>6, <1>7, <1>8 DEF Next, Thread

\* A step that asks finds nothing outstanding, a step that is woken consumes
\* the one answer, an answer finds its own request.
LEMMA AnswerStep == TypeOK /\ PlaceInv /\ OwnAnswer /\ [Next]_vars => OwnAnswer'
<1> SUFFICES ASSUME TypeOK, PlaceInv, OwnAnswer, [Next]_vars PROVE OwnAnswer'
  OBVIOUS
<1> USE DEF OwnAnswer, WaitSteps, libVars
<1>1. CASE StartAgain
  BY <1>1 DEF StartAgain, Link!StartAgain, PlaceInv
<1>2. CASE Round
  BY <1>2 DEF Round, Ask, RequestsOf, Request, Server
<1>3. CASE RoundsUsedUp
  BY <1>3 DEF RoundsUsedUp
<1>4. CASE TBConnected
  <2>1. pending = {} /\ sem' = 0
    BY <1>4, WokenTakes DEF TBConnected, Woken
  <2>2. CASE Ask(<<"sub", "TB">>, "tbSub")
    <3>1. <<"sub", "TB">> \in RequestsOf("tbSub")
      BY DEF RequestsOf, Request, Server
    <3>2. QED
      BY <2>1, <2>2, <3>1 DEF Ask
  <2>3. CASE step' = "sdmInit" /\ UNCHANGED pending
    BY <2>1, <2>3
  <2>4. QED
    BY <1>4, <2>2, <2>3 DEF TBConnected
<1>5. CASE TBNotConnected \/ TBSubscribed
  BY <1>5 DEF TBNotConnected, TBSubscribed, Woken
<1>6. CASE SDMInit
  BY <1>6 DEF SDMInit, Ask, RequestsOf, Request, Server
<1>7. CASE SDMConnected \/ SDMNotConnected
  BY <1>7 DEF SDMConnected, SDMNotConnected, Woken
<1>8. CASE SubscribeTopic
  BY <1>8 DEF SubscribeTopic, Ask, RequestsOf, Request, Server
<1>9. CASE TopicSubscribed \/ AllSubscribed
  BY <1>9 DEF TopicSubscribed, AllSubscribed, Woken
<1>10. CASE EnterLoop \/ LeaveLoop
  BY <1>10 DEF EnterLoop, LeaveLoop
<1>11. CASE NoServer
  BY <1>11 DEF NoServer, AirplaneMode, Link!NoServer, PlaceInv
<1>12. CASE RetryServer
  BY <1>12 DEF RetryServer, AirplaneMode
<1>13. CASE Publish("body", "bodyPub") \/ Publish("rest", "restPub")
  BY <1>13 DEF Publish, Ask, AfterPart, RequestsOf, Request
<1>14. CASE Published("body", "bodyPub") \/ Published("rest", "restPub")
  BY <1>14 DEF Published, Woken, AfterPart
<1>15. ASSUME NEW r \in Request, Answer(r) PROVE OwnAnswer'
  BY <1>15 DEF Answer
<1>16. ASSUME NEW s \in Server, SessionLost(s) \/ Exception(s) \/ RaiseRetry(s)
       PROVE OwnAnswer'
  BY <1>16 DEF SessionLost, Exception, RaiseRetry, RequestsOf
<1>17. CASE NetworkChange \/ UNCHANGED vars
  BY <1>17 DEF NetworkChange, vars, RequestsOf
<1> QED
  BY <1>1, <1>2, <1>3, <1>4, <1>5, <1>6, <1>7, <1>8, <1>9, <1>10, <1>11, <1>12,
     <1>13, <1>14, <1>15, <1>16, <1>17 DEF Next, Thread

\* A flag rises with its session, and a session that ends leaves its report.
LEMMA FlagStep == TypeOK /\ FlagHonest /\ [Next]_vars => FlagHonest'
<1> SUFFICES ASSUME TypeOK, FlagHonest, [Next]_vars PROVE FlagHonest'
  OBVIOUS
<1> USE DEF FlagHonest, libVars, Server
<1>1. CASE UNCHANGED <<conn, session, lost>>
  BY <1>1
<1>2. CASE TBNotConnected \/ SDMNotConnected
  BY <1>2 DEF TBNotConnected, SDMNotConnected, Link!Proceed
<1>3. CASE RetryServer
  BY <1>3 DEF RetryServer, AirplaneMode, Link!Refresh
<1>4. CASE NoServer
  BY <1>4 DEF NoServer, AirplaneMode, Link!NoServer
<1>5. ASSUME NEW r \in Request, Answer(r) PROVE FlagHonest'
  <2>1. r[2] \in Server
    BY RequestType
  <2>2. QED
    BY <1>5, <2>1 DEF Answer, RaiseFlag, TypeOK
<1>6. ASSUME NEW s \in Server, SessionLost(s) PROVE FlagHonest'
  BY <1>6 DEF SessionLost
<1>7. ASSUME NEW s \in Server, Exception(s) PROVE FlagHonest'
  BY <1>7 DEF Exception, Link!Disconnect, TypeOK
<1>8. ASSUME NEW s \in Server, RaiseRetry(s) PROVE FlagHonest'
  BY <1>1, <1>8 DEF RaiseRetry
<1>9. CASE StartAgain \/ Round \/ RoundsUsedUp \/ TBConnected \/ TBSubscribed
  BY <1>1, <1>9 DEF StartAgain, Round, RoundsUsedUp, TBConnected, TBSubscribed,
                    Link!StartAgain, Link!Proceed
<1>10. CASE \/ SDMInit \/ SDMConnected \/ SubscribeTopic \/ TopicSubscribed
            \/ AllSubscribed
  BY <1>1, <1>10 DEF SDMInit, SDMConnected, SubscribeTopic, TopicSubscribed,
                     AllSubscribed, Link!Proceed
<1>11. CASE EnterLoop \/ LeaveLoop
  BY <1>1, <1>11 DEF EnterLoop, LeaveLoop, Link!LeaveLoop
<1>12. CASE \/ Publish("body", "bodyPub") \/ Publish("rest", "restPub")
            \/ Published("body", "bodyPub") \/ Published("rest", "restPub")
  BY <1>1, <1>12 DEF Publish, Published
<1>13. CASE NetworkChange \/ UNCHANGED vars
  BY <1>1, <1>13 DEF NetworkChange, vars
<1> QED
  BY <1>2, <1>3, <1>4, <1>5, <1>6, <1>7, <1>8, <1>9, <1>10, <1>11, <1>12, <1>13
     DEF Next, Thread

LEMMA IInvStep == IInv /\ [Next]_vars => IInv'
BY TypeStep, PlaceStep, AnswerStep, FlagStep DEF IInv

\* In every reachable state the variables have their types; sem never exceeds 1.
THEOREM TypeCorrect == Spec => []TypeOK
<1>1. IInv => TypeOK
  BY DEF IInv
<1> QED
  BY <1>1, InitIInv, IInvStep, PTL DEF Spec

\* The thread never takes the answer of one request for that of another.
THEOREM AnswersMatch == Spec => []OwnAnswer
<1>1. IInv => OwnAnswer
  BY DEF IInv
<1> QED
  BY <1>1, InitIInv, IInvStep, PTL DEF Spec

\* No flag stays up for a session whose loss has been reported.
THEOREM FlagsHonest == Spec => []FlagHonest
<1>1. IInv => FlagHonest
  BY DEF IInv
<1> QED
  BY <1>1, InitIInv, IInvStep, PTL DEF Spec
-----------------------------------------------------------------------------
(* ConnManager implements Connectivity.                                    *)

\* A connect is answered while the thread connects: it waits for it there.
LEMMA ConnectAnswered ==
  ASSUME IInv, NEW r \in Request, Answer(r), r[1] = "connect"
  PROVE  loop = "connect"
<1>1. step \in WaitSteps /\ r \in RequestsOf(step)
  BY DEF IInv, OwnAnswer, Answer
<1>2. step \in {"tbConnect", "sdmConnect"}
  BY <1>1 DEF RequestsOf, WaitSteps
<1>3. QED
  BY <1>2 DEF IInv, TypeOK, PlaceInv, LoopSteps, Link!PublishLoop

LEMMA LinkStep == IInv /\ [Next]_vars => [Link!Next]_Link!vars
<1> SUFFICES ASSUME IInv, [Next]_vars PROVE [Link!Next]_Link!vars
  OBVIOUS
<1> USE DEF Link!vars
<1>1. CASE UNCHANGED <<conn, loop>>
  BY <1>1
<1>2. CASE Link!Proceed
  BY <1>2 DEF Link!Next
<1>3. CASE StartAgain \/ LeaveLoop \/ NoServer
  BY <1>3 DEF StartAgain, LeaveLoop, NoServer, Link!Next
<1>4. CASE RetryServer
  BY <1>1, <1>4 DEF RetryServer, Link!Next
<1>5. CASE \/ Round \/ RoundsUsedUp \/ SDMInit \/ SDMNotConnected \/ AllSubscribed
  BY <1>1, <1>2, <1>5 DEF Round, RoundsUsedUp, SDMInit, SDMNotConnected, AllSubscribed
<1>6. CASE \/ TBConnected \/ TBNotConnected \/ TBSubscribed \/ SDMConnected
           \/ SubscribeTopic \/ TopicSubscribed \/ EnterLoop
  BY <1>1, <1>6 DEF TBConnected, TBNotConnected, TBSubscribed, SDMConnected,
                    SubscribeTopic, TopicSubscribed, EnterLoop
<1>7. CASE \/ Publish("body", "bodyPub") \/ Publish("rest", "restPub")
           \/ Published("body", "bodyPub") \/ Published("rest", "restPub")
  BY <1>1, <1>7 DEF Publish, Published
<1>8. ASSUME NEW r \in Request, Answer(r) PROVE [Link!Next]_Link!vars
  <2>1. CASE r[1] # "connect"
    BY <1>1, <1>8, <2>1 DEF Answer
  <2>2. CASE r[1] = "connect"
    <3>1. loop = "connect" /\ r[2] \in Server /\ UNCHANGED loop
      BY <1>8, <2>2, ConnectAnswered, RequestType DEF Answer
    <3>2. CASE r[2] \in up
      <4>1. conn' = [conn EXCEPT ![r[2]] = TRUE]
        BY <1>8, <2>2, <3>1, <3>2 DEF Answer, RaiseFlag, IInv, TypeOK
      <4>2. Link!ConnectServer(r[2])
        BY <3>1, <4>1 DEF Link!ConnectServer
      <4>3. QED
        BY <3>1, <4>2 DEF Link!Next, Server, Link!Server
    <3>3. CASE r[2] \notin up
      <4>1. conn' = conn
        BY <1>8, <2>2, <3>1, <3>3 DEF Answer, RaiseFlag, IInv, TypeOK
      <4>2. QED
        BY <1>1, <3>1, <4>1
    <3>4. QED
      BY <3>2, <3>3
  <2>3. QED
    BY <2>1, <2>2
<1>9. ASSUME NEW s \in Server, Exception(s) PROVE [Link!Next]_Link!vars
  BY <1>9 DEF Exception, Link!Next, Server, Link!Server
<1>10. ASSUME NEW s \in Server, SessionLost(s) \/ RaiseRetry(s)
       PROVE  [Link!Next]_Link!vars
  BY <1>1, <1>10 DEF SessionLost, RaiseRetry
<1>11. CASE NetworkChange \/ UNCHANGED vars
  BY <1>1, <1>11 DEF NetworkChange, vars
<1> QED
  BY <1>3, <1>4, <1>5, <1>6, <1>7, <1>8, <1>9, <1>10, <1>11 DEF Next, Thread

\* Every behaviour of the connection code is one that Connectivity allows.
THEOREM Implements == Spec => ImplementsConnectivity
<1>1. Init => Link!Init
  BY DEF Init, Link!Init, Server, Link!Server
<1> QED
  BY <1>1, LinkStep, InitIInv, IInvStep, PTL DEF Spec, ImplementsConnectivity, Link!Spec
-----------------------------------------------------------------------------
(* Rounds of connecting: each one ends, and after the last one nothing rises. *)

\* No round is left, and none is under way.
Exhausted == ~RoundLeft /\ (loop = "connect" => step = "test")

LEMMA ExhaustedStep ==
  ASSUME IInv, Exhausted, [Next]_vars
  PROVE  Exhausted' /\ \A s \in Server : conn'[s] => conn[s]
<1> USE DEF Exhausted, RoundLeft
<1>1. ASSUME conn' = conn, run_num' = run_num, loop' = "connect" => step' = "test"
      PROVE  Exhausted' /\ \A s \in Server : conn'[s] => conn[s]
  BY <1>1
<1>2. CASE StartAgain \/ RoundsUsedUp
  BY <1>1, <1>2 DEF StartAgain, RoundsUsedUp, Link!StartAgain, Link!Proceed, IInv, PlaceInv
<1>3. CASE Round
  BY <1>3 DEF Round
<1>4. CASE NoServer \/ LeaveLoop \/ RetryServer
  BY <1>1, <1>4 DEF NoServer, LeaveLoop, RetryServer, Link!NoServer, Link!LeaveLoop,
                    Link!NextLoop, Link!Refresh, IInv, PlaceInv
<1>5. CASE EnterLoop
  BY <1>1, <1>5 DEF EnterLoop, Link!PublishLoop
<1>6. CASE \/ TBConnected \/ TBNotConnected \/ TBSubscribed \/ SDMInit
           \/ SDMConnected \/ SDMNotConnected \/ SubscribeTopic \/ TopicSubscribed
           \/ AllSubscribed
  <2>1. step \in {"tbConnect", "tbSub", "sdmInit", "sdmConnect", "topics", "sdmSub"}
    BY <1>6 DEF TBConnected, TBNotConnected, TBSubscribed, SDMInit, SDMConnected,
                SDMNotConnected, SubscribeTopic, TopicSubscribed, AllSubscribed, Woken
  <2>2. loop = "connect"
    BY <2>1 DEF IInv, TypeOK, PlaceInv, LoopSteps, Link!PublishLoop
  <2> QED
    BY <2>1, <2>2
<1>7. CASE \/ Publish("body", "bodyPub") \/ Publish("rest", "restPub")
           \/ Published("body", "bodyPub") \/ Published("rest", "restPub")
  <2>1. step \in {"body", "bodyPub", "rest", "restPub"} /\ UNCHANGED <<conn, loop, run_num>>
    BY <1>7 DEF Publish, Published, Woken
  <2>2. loop # "connect"
    BY <2>1 DEF IInv, PlaceInv, ConnectSteps
  <2> QED
    BY <1>1, <2>1, <2>2
<1>8. ASSUME NEW r \in Request, Answer(r)
      PROVE  Exhausted' /\ \A s \in Server : conn'[s] => conn[s]
  <2>1. step \in WaitSteps /\ UNCHANGED <<loop, step, run_num>>
    BY <1>8 DEF IInv, OwnAnswer, Answer
  <2>2. loop # "connect"
    BY <2>1 DEF WaitSteps
  <2>3. conn' = conn
    BY <1>8, <2>2, ConnectAnswered DEF Answer
  <2> QED
    BY <1>1, <2>1, <2>2, <2>3
<1>9. ASSUME NEW s \in Server, Exception(s)
      PROVE  Exhausted' /\ \A t \in Server : conn'[t] => conn[t]
  BY <1>9 DEF Exception, Link!Disconnect, IInv, TypeOK
<1>10. ASSUME NEW s \in Server, SessionLost(s) \/ RaiseRetry(s)
       PROVE  Exhausted' /\ \A t \in Server : conn'[t] => conn[t]
  BY <1>1, <1>10 DEF SessionLost, RaiseRetry
<1>11. CASE NetworkChange \/ UNCHANGED vars
  BY <1>1, <1>11 DEF NetworkChange, vars
<1> QED
  BY <1>2, <1>3, <1>4, <1>5, <1>6, <1>7, <1>8, <1>9, <1>10, <1>11 DEF Next, Thread

\* Reconnects fails (run conn_exhausted) for any number of rounds: once they are
\* used up no flag rises again, whatever the network does and however often the
\* modem is refreshed.
THEOREM NothingAfterTheRounds ==
  Spec => [][Exhausted => Exhausted' /\ \A s \in Server : conn'[s] => conn[s]]_vars
<1>1. IInv /\ [Next]_vars =>
        [Exhausted => Exhausted' /\ \A s \in Server : conn'[s] => conn[s]]_vars
  BY ExhaustedStep
<1> QED
  BY <1>1, InitIInv, IInvStep, PTL DEF Spec

\* The steps of the thread and the answers that a round still takes, at most: each
\* request takes two steps and its answer, a topic of Sedem no more.
Due == 1 - sem
RoundSteps ==
  CASE loop # "connect"   -> 0
    [] loop = "connect" /\ step = "test"       -> 21
    [] loop = "connect" /\ step = "tbConnect"  -> 19 + Due
    [] loop = "connect" /\ step = "tbSub"      -> 17 + Due
    [] loop = "connect" /\ step = "sdmInit"    -> 16
    [] loop = "connect" /\ step = "sdmConnect" -> 14 + Due
    [] loop = "connect" /\ step = "sdmSub"     -> 3 * topics + 2 + Due
    [] loop = "connect" /\ step = "topics"     -> 3 * topics + 1

InRound(st, n) == loop = "connect" /\ step = st => RoundSteps = n
ByStep ==
  /\ loop # "connect" => RoundSteps = 0
  /\ InRound("test", 21)
  /\ InRound("tbConnect", 19 + Due) /\ InRound("tbSub", 17 + Due)
  /\ InRound("sdmInit", 16) /\ InRound("sdmConnect", 14 + Due)
  /\ InRound("sdmSub", 3 * topics + 2 + Due)
  /\ InRound("topics", 3 * topics + 1)

LEMMA StepsAt == ByStep
<1>1. loop # "connect" => RoundSteps = 0
  BY DEF RoundSteps
<1>2. InRound("test", 21) /\ InRound("sdmInit", 16)
  BY DEF RoundSteps, InRound
<1>3. InRound("tbConnect", 19 + Due) /\ InRound("tbSub", 17 + Due)
  BY DEF RoundSteps, InRound
<1>4. InRound("sdmConnect", 14 + Due)
  BY DEF RoundSteps, InRound
<1>5. InRound("sdmSub", 3 * topics + 2 + Due)
  BY DEF RoundSteps, InRound
<1>6. InRound("topics", 3 * topics + 1)
  BY DEF RoundSteps, InRound
<1> QED
  BY <1>1, <1>2, <1>3, <1>4, <1>5, <1>6 DEF ByStep

LEMMA StepsNext == ByStep'
BY StepsAt, PTL

LEMMA RoundStepsType == IInv => RoundSteps \in 0..21
<1> SUFFICES ASSUME IInv PROVE RoundSteps \in 0..21
  OBVIOUS
<1>1. topics \in 0..4 /\ Due \in 0..1
  BY DEF IInv, TypeOK, Due
<1>2. step \in WaitSteps /\ loop = "connect" => step \in ConnectSteps
  BY DEF IInv, PlaceInv
<1> QED
  BY <1>1, StepsAt DEF IInv, PlaceInv, ConnectSteps, ByStep, InRound

LEMMA RoundStep ==
  ASSUME IInv, IInv', [Next]_vars
  PROVE  /\ loop = "connect" /\ (Thread \/ \E r \in Request : Answer(r))
               => RoundSteps' < RoundSteps
         /\ RoundSteps' <= RoundSteps \/ loop # "connect"
<1> DEFINE fewer == RoundSteps' < RoundSteps
<1>0. /\ topics \in 0..4 /\ topics' \in 0..4 /\ sem \in {0, 1} /\ sem' \in {0, 1}
      /\ step \notin WaitSteps => sem = 0
      /\ loop' # "connect" => RoundSteps' = 0
  BY StepsNext DEF IInv, TypeOK, OwnAnswer, ByStep
<1>1. ASSUME loop = "connect", Round PROVE fewer
  <2>1. step = "test" /\ sem' = sem /\ sem = 0
    BY <1>0, <1>1 DEF Round, WaitSteps
  <2>2. \/ loop' # "connect"
        \/ loop' = "connect" /\ step' \in {"tbConnect", "sdmInit"}
    BY <1>1 DEF Round, Ask, Link!Proceed
  <2> QED
    BY <1>0, <1>1, <2>1, <2>2, StepsAt, StepsNext DEF ByStep, InRound, Due
<1>2. ASSUME loop = "connect", RoundsUsedUp PROVE fewer
  BY <1>0, <1>2, StepsAt DEF RoundsUsedUp, Link!Proceed, ByStep, InRound
<1>3. ASSUME loop = "connect", TBConnected \/ TBNotConnected PROVE fewer
  <2>1. step = "tbConnect" /\ sem = 1 /\ sem' = 0 /\ loop' = loop
        /\ step' \in {"tbSub", "sdmInit"}
    BY <1>0, <1>3 DEF TBConnected, TBNotConnected, Woken, Ask
  <2> QED
    BY <1>3, <2>1, StepsAt, StepsNext DEF ByStep, InRound, Due
<1>4. ASSUME loop = "connect", TBSubscribed PROVE fewer
  <2>1. step = "tbSub" /\ sem = 1 /\ step' = "sdmInit" /\ loop' = loop
    BY <1>0, <1>4 DEF TBSubscribed, Woken
  <2> QED
    BY <1>4, <2>1, StepsAt, StepsNext DEF ByStep, InRound, Due
<1>5. ASSUME loop = "connect", SDMInit PROVE fewer
  <2>1. step = "sdmInit" /\ sem' = 0
        /\ (loop' # "connect" \/ (loop' = "connect" /\ step' = "sdmConnect"))
    BY <1>0, <1>5 DEF SDMInit, Ask, Link!Proceed, WaitSteps
  <2> QED
    BY <1>0, <1>5, <2>1, StepsAt, StepsNext DEF ByStep, InRound, Due
<1>6. ASSUME loop = "connect", SDMConnected PROVE fewer
  <2>1. step = "sdmConnect" /\ sem = 1 /\ step' = "topics" /\ topics' = 4 /\ loop' = loop
    BY <1>0, <1>6 DEF SDMConnected, Woken
  <2> QED
    BY <1>6, <2>1, StepsAt, StepsNext DEF ByStep, InRound, Due
<1>7. ASSUME loop = "connect", SDMNotConnected PROVE fewer
  <2>1. step = "sdmConnect" /\ sem = 1 /\ loop' # "connect"
    BY <1>0, <1>7 DEF SDMNotConnected, Woken, Link!Proceed
  <2> QED
    BY <1>0, <1>7, <2>1, StepsAt DEF ByStep, InRound, Due
<1>8. ASSUME loop = "connect", SubscribeTopic PROVE fewer
  <2>1. step = "topics" /\ topics > 0 /\ topics' = topics - 1 /\ sem' = 0 /\ loop' = loop
        /\ step' \in {"sdmSub", "topics"}
    BY <1>0, <1>8 DEF SubscribeTopic, Ask, WaitSteps
  <2> QED
    BY <1>0, <1>8, <2>1, StepsAt, StepsNext DEF ByStep, InRound, Due
<1>9. ASSUME loop = "connect", TopicSubscribed PROVE fewer
  <2>1. step = "sdmSub" /\ sem = 1 /\ step' = "topics" /\ topics' = topics /\ loop' = loop
    BY <1>0, <1>9 DEF TopicSubscribed, Woken
  <2> QED
    BY <1>0, <1>9, <2>1, StepsAt, StepsNext DEF ByStep, InRound, Due
<1>10. ASSUME loop = "connect", AllSubscribed PROVE fewer
  <2>1. step = "topics" /\ topics = 0 /\ loop' # "connect"
    BY <1>10 DEF AllSubscribed, Link!Proceed
  <2> QED
    BY <1>0, <1>10, <2>1, StepsAt DEF ByStep, InRound
<1>11. ASSUME loop = "connect", NEW r \in Request, Answer(r) PROVE fewer
  <2>1. step \in WaitSteps /\ sem = 0 /\ sem' = 1 /\ UNCHANGED <<loop, step, topics>>
    BY <1>0, <1>11 DEF IInv, OwnAnswer, Answer
  <2>2. step \in {"tbConnect", "tbSub", "sdmConnect", "sdmSub"}
    BY <1>11, <2>1 DEF IInv, PlaceInv, ConnectSteps, WaitSteps
  <2> QED
    BY <1>0, <1>11, <2>1, <2>2, StepsAt, StepsNext DEF ByStep, InRound, Due
<1>12. ASSUME loop = "connect", Thread PROVE fewer
  <2>1. ~(StartAgain \/ EnterLoop \/ LeaveLoop \/ RetryServer \/ NoServer)
    BY <1>12 DEF StartAgain, EnterLoop, LeaveLoop, RetryServer, NoServer, IInv, PlaceInv,
         ConnectSteps, Link!StartAgain, Link!LeaveLoop, Link!NoServer, Link!PublishLoop
  <2>2. ~(\/ Publish("body", "bodyPub") \/ Publish("rest", "restPub")
          \/ Published("body", "bodyPub") \/ Published("rest", "restPub"))
    BY <1>12 DEF Publish, Published, Woken, IInv, PlaceInv, ConnectSteps
  <2> QED
    BY <1>1, <1>2, <1>3, <1>4, <1>5, <1>6, <1>7, <1>8, <1>9, <1>10, <1>12, <2>1, <2>2
       DEF Thread
<1>13. ASSUME NEW s \in Server,
              SessionLost(s) \/ Exception(s) \/ RaiseRetry(s)
       PROVE  RoundSteps' = RoundSteps
  <2>1. UNCHANGED <<loop, step, topics, sem>>
    BY <1>13 DEF SessionLost, Exception, RaiseRetry, Link!Disconnect
  <2> QED
    BY <2>1 DEF RoundSteps, Due
<1>14. ASSUME NetworkChange \/ UNCHANGED vars PROVE RoundSteps' = RoundSteps
  <2>1. UNCHANGED <<loop, step, topics, sem>>
    BY <1>14 DEF NetworkChange, vars
  <2> QED
    BY <2>1 DEF RoundSteps, Due
<1>15. RoundSteps \in Nat /\ RoundSteps' \in Nat
  <2>1. IInv' => (RoundSteps \in 0..21)'
    BY RoundStepsType, PTL
  <2> QED
    BY <2>1, RoundStepsType
<1>16. RoundSteps' <= RoundSteps \/ loop # "connect"
  BY <1>11, <1>12, <1>13, <1>14, <1>15 DEF Next
<1> QED
  BY <1>11, <1>12, <1>16

\* A round of connecting ends, although each of its seven waits is without a
\* time-out: what is waited for is on its way or in, and every step of the thread
\* and every answer leave fewer, of at most 21.
THEOREM RoundEnds ==
  Spec => /\ [](step \in WaitSteps => sem = 1 \/ pending # {})
          /\ [](RoundSteps \in 0..21)
          /\ [][/\ loop = "connect" /\ (Thread \/ \E r \in Request : Answer(r))
                     => RoundSteps' < RoundSteps
                /\ RoundSteps' <= RoundSteps \/ loop # "connect"]_vars
<1>1. IInv => (step \in WaitSteps => sem = 1 \/ pending # {})
  BY DEF IInv, OwnAnswer
<1>2. IInv /\ IInv' /\ [Next]_vars =>
        [/\ loop = "connect" /\ (Thread \/ \E r \in Request : Answer(r))
              => RoundSteps' < RoundSteps
         /\ RoundSteps' <= RoundSteps \/ loop # "connect"]_vars
  BY RoundStep
<1> QED
  BY <1>1, <1>2, RoundStepsType, InitIInv, IInvStep, PTL DEF Spec
=============================================================================
