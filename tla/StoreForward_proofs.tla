------------------------ MODULE StoreForward_proofs ------------------------
(***************************************************************************)
(* Proofs about StoreForward: its counters account for every line, no      *)
(* packet is thrown away silently, a log is deleted only when the replay   *)
(* queue holds no packet.                                                  *)
(***************************************************************************)
EXTENDS StoreForward, FiniteSetTheorems, TLAPS

-----------------------------------------------------------------------------
(* Lemmas about the queue: how Append and Tail change its packet count.    *)

\* The packets of a queue are finitely many.
LEMMA LongFinite ==
  ASSUME NEW q \in Seq(Line)
  PROVE  /\ LongPositions(q) \subseteq 1..Len(q)
         /\ IsFiniteSet(LongPositions(q))
         /\ LongCount(q) \in Nat
<1>1. Len(q) \in Nat
  OBVIOUS
<1>2. LongPositions(q) \subseteq 1..Len(q)
  BY DEF LongPositions
<1>3. IsFiniteSet(LongPositions(q))
  <2>1. IsFiniteSet(1..Len(q))
    BY <1>1, FS_Interval
  <2>2. QED
    BY <1>2, <2>1, FS_Subset
<1>4. QED
  BY <1>2, <1>3, FS_CardinalityType DEF LongCount

\* An empty queue has no packets.
LEMMA LongEmpty == LongCount(<<>>) = 0
<1>1. LongPositions(<<>>) = {}
  BY DEF LongPositions
<1>2. QED
  BY <1>1, FS_EmptySet DEF LongCount

\* Appending a line adds a packet exactly when the line is long.
LEMMA LongAppend ==
  ASSUME NEW q \in Seq(Line), NEW l \in Line
  PROVE  LongCount(Append(q, l)) = LongCount(q) + IF Long(l) THEN 1 ELSE 0
<1>1. /\ IsFiniteSet(LongPositions(q))
      /\ LongCount(q) \in Nat
      /\ Len(q) + 1 \notin LongPositions(q)
  BY LongFinite
<1>2. CASE Long(l)
  <2>1. LongPositions(Append(q, l)) = LongPositions(q) \cup {Len(q) + 1}
    BY <1>2 DEF LongPositions
  <2>2. QED
    BY <1>1, <1>2, <2>1, FS_AddElement DEF LongCount
<1>3. CASE ~Long(l)
  <2>1. LongPositions(Append(q, l)) = LongPositions(q)
    BY <1>3 DEF LongPositions
  <2>2. QED
    BY <1>1, <1>3, <2>1 DEF LongCount
<1>4. QED
  BY <1>2, <1>3

\* Taking the head of a queue takes a packet exactly when the head is long.
LEMMA LongTail ==
  ASSUME NEW q \in Seq(Line), q # <<>>
  PROVE  LongCount(q) = LongCount(Tail(q)) + IF Long(Head(q)) THEN 1 ELSE 0
<1> DEFINE T == LongPositions(Tail(q))
           U == LongPositions(q) \ {1}
           f == [i \in T |-> i + 1]
<1>1. /\ Tail(q) \in Seq(Line)
      /\ Len(q) \in Nat \ {0}
      /\ Len(Tail(q)) = Len(q) - 1
      /\ \A i \in 1..Len(Tail(q)) : Tail(q)[i] = q[i + 1]
  OBVIOUS
<1>2. \A i \in T : i \in Nat /\ i + 1 \in U
  BY <1>1 DEF LongPositions
<1>3. \A j \in U : j - 1 \in T /\ f[j - 1] = j
  BY <1>1 DEF LongPositions
<1>4. f \in Bijection(T, U)
  <2>1. f \in [T -> U]
    BY <1>2
  <2>2. f \in Injection(T, U)
    BY <1>2, <2>1 DEF Injection, IsInjective
  <2>3. f \in Surjection(T, U)
    <3>1. \A j \in U : \E i \in T : f[i] = j
      BY <1>3
    <3>2. QED
      BY <2>1, <3>1 DEF Surjection
  <2>4. QED
    BY <2>2, <2>3 DEF Bijection
<1>5. Cardinality(U) = Cardinality(T)
  BY <1>1, <1>4, LongFinite, FS_Bijection DEF ExistsBijection
<1>6. 1 \in LongPositions(q) <=> Long(Head(q))
  BY <1>1 DEF LongPositions
<1>7. IsFiniteSet(LongPositions(q)) /\ Cardinality(LongPositions(q)) \in Nat
  BY LongFinite DEF LongCount
<1>8. Cardinality(U) = LongCount(q) - IF Long(Head(q)) THEN 1 ELSE 0
  <2>1. Cardinality(U) = IF 1 \in LongPositions(q) THEN Cardinality(LongPositions(q)) - 1
                                                  ELSE Cardinality(LongPositions(q))
    BY <1>7, FS_RemoveElement
  <2>2. QED
    BY <1>6, <1>7, <2>1 DEF LongCount
<1>9. QED
  BY <1>5, <1>7, <1>8 DEF LongCount
-----------------------------------------------------------------------------
(* Type correctness. *)

\* A check keeps the logs well typed and goes on to another one or ends.
LEMMA CheckType ==
  ASSUME TypeOK, NEW i \in 1..3, NEW line \in Line,
         NEW owed \in SUBSET Server, NEW joined \in SUBSET Server,
         Check(i, line, owed, joined)
  PROVE  /\ file' \in [Log -> [Days -> Seq(Line)]]
         /\ rx' \in [check : {0, 2, 3}, line : Line, owed : SUBSET Server,
                    joined : SUBSET Server]
<1> DEFINE k == Asked[i]
<1>1. file \in [Log -> [Days -> Seq(Line)]] /\ today \in Days
  BY DEF TypeOK
<1>2. k \in Log
  BY DEF Asked, Log, TBNNW, SDNNW, NNW
<1>3. file[k][today] \in Seq(Line)
  BY <1>1, <1>2
<1>4. Append(file[k][today], line) \in Seq(Line)
  BY <1>3
<1>5. [file EXCEPT ![k][today] = Append(@, line)] \in [Log -> [Days -> Seq(Line)]]
  BY <1>1, <1>2, <1>4
<1>6. rx' \in [check : {0, 2, 3}, line : Line, owed : SUBSET Server,
               joined : SUBSET Server]
  <2>1. Short \in Line
    BY FramesAssumption DEF Line, Short
  <2>2. i # 3 => i + 1 \in {2, 3}
    OBVIOUS
  <2>3. \/ rx' = Idle
        \/ \E o \in {owed, owed \ Targets(k)} :
             rx' = [check |-> IF i = 3 THEN 0 ELSE i + 1,
                    line |-> IF i = 3 THEN Short ELSE line, owed |-> o,
                    joined |-> joined \ (Server \ Targets(k))]
    BY DEF Check
  <2>4. QED
    BY <2>1, <2>2, <2>3 DEF Idle
<1>7. QED
  BY <1>1, <1>5, <1>6 DEF Check

LEMMA InitTypeOK == Init => TypeOK
<1> SUFFICES ASSUME Init PROVE TypeOK
  OBVIOUS
<1> USE DEF Server, Log, NNW, TBNNW, SDNNW, Line, Short, Days, Idle
<1>1. <<>> \in Seq(Line)
  OBVIOUS
<1>2. QED
  BY <1>1, DayAssumption, FramesAssumption, TicksAssumption, MinutesAssumption
     DEF Init, TypeOK

\* The replay flag looked at next is one of the three.
LEMMA NextSlotType ==
  ASSUME slot \in Log, NextSlot
  PROVE  slot' \in Log /\ step' \in {"repub", "drain"}
BY DEF NextSlot, Handles, Log, NNW, TBNNW, SDNNW

LEMMA TypeStep == TypeOK /\ [Next]_vars => TypeOK'
<1> SUFFICES ASSUME TypeOK, [Next]_vars PROVE TypeOK'
  OBVIOUS
<1> USE DEF diskVars, mqttVars, replayVars
<1>1. CASE StartAgain
  BY <1>1 DEF StartAgain, Link!StartAgain, TypeOK, Server
<1>2. CASE Connect
  <2>1. rx' \in [check : {0, 2, 3}, line : Line, owed : SUBSET Server,
                 joined : SUBSET Server]
    <3>1. rx \in [check : {0, 2, 3}, line : Line, owed : SUBSET Server,
                  joined : SUBSET Server]
      BY DEF TypeOK
    <3>2. \A s \in Server :
            [rx EXCEPT !.owed = @ \ {s}, !.joined = @ \cup {s}]
              \in [check : {0, 2, 3}, line : Line, owed : SUBSET Server,
                  joined : SUBSET Server]
      BY <3>1
    <3>3. QED
      BY <1>2, <3>1, <3>2 DEF Connect
  <2>2. QED
    BY <1>2, <2>1 DEF Connect, Link!ConnectServer, Link!Proceed, TypeOK
<1>3. CASE EnterLoop
  BY <1>3 DEF EnterLoop, TypeOK, Log
<1>4. CASE LeaveLoop
  BY <1>4 DEF LeaveLoop, Link!LeaveLoop, Link!NextLoop, TypeOK
<1>5. CASE NoServer
  BY <1>5 DEF NoServer, Link!NoServer, TypeOK
<1>6. CASE RetryServer
  BY <1>6 DEF RetryServer, Link!Refresh, TypeOK, Server
<1>7. CASE SkipReplay
  BY <1>7, NextSlotType DEF SkipReplay, TypeOK
<1>8. CASE ReplayNothing
  BY <1>8, NextSlotType DEF ReplayNothing, LabelQueue, TypeOK
<1>9. CASE ReplayOpen
  BY <1>9 DEF ReplayOpen, Exists, TypeOK
<1>10. CASE ReplayLine
  <2> USE <1>10
  <2>a. /\ replay \in [day : Days, pos : Nat, calls : Nat]
        /\ NumberOFLinesinFile \in Nat /\ dropped \in Nat
        /\ sd_buffer_rcvr \in Line /\ recvr_Sd_Data \in Seq(Line)
        /\ file[slot][replay.day] \in Seq(Line)
        /\ Short \in Line
    BY FramesAssumption DEF TypeOK, Line, Short
  <2>1. sd_buffer_rcvr' \in Line
    BY <2>a DEF ReplayLine
  <2>2. recvr_Sd_Data' \in Seq(Line)
    BY <2>1, <2>a DEF ReplayLine
  <2>3. replay' \in [day : Days, pos : Nat, calls : Nat]
    <3>1. \/ replay' = [replay EXCEPT !.pos = @ + 1, !.calls = @ + 1]
          \/ replay' = [replay EXCEPT !.calls = @ + 1]
      BY <2>a DEF ReplayLine
    <3>2. /\ DOMAIN replay = {"day", "pos", "calls"}
          /\ replay.day \in Days /\ replay.pos + 1 \in Nat /\ replay.calls + 1 \in Nat
      BY <2>a
    <3>3. CASE replay' = [replay EXCEPT !.calls = @ + 1]
      BY <3>2, <3>3, <2>a
    <3>4. CASE replay' = [replay EXCEPT !.pos = @ + 1, !.calls = @ + 1]
      <4>1. replay' = [day |-> replay.day, pos |-> replay.pos + 1, calls |-> replay.calls + 1]
        BY <3>4, <2>a
      <4>2. QED
        BY <4>1, <3>2
    <3>5. QED
      BY <3>1, <3>3, <3>4
  <2>4. NumberOFLinesinFile' \in Nat /\ dropped' \in Nat
    BY <2>a DEF ReplayLine, Counted, Long
  <2>5. QED
    BY <1>10, <2>1, <2>2, <2>3, <2>4 DEF ReplayLine, TypeOK
<1>11. CASE ReplayDone
  <2>1. Short \in Line
    BY FramesAssumption DEF Line, Short
  <2>2. repub' \in [Log -> BOOLEAN] /\ NOntwrk_data_flag' \in {0} \cup Log
    BY <1>11 DEF ReplayDone, LabelQueue, TypeOK
  <2>3. slot' \in Log /\ step' \in {"repub", "drain"}
    BY <1>11, NextSlotType DEF ReplayDone, LabelQueue, TypeOK
  <2>4. QED
    BY <1>11, <2>1, <2>2, <2>3 DEF ReplayDone, LabelQueue, TypeOK
<1>12. CASE DrainPacket
  <2>1. recvr_Sd_Data' \in Seq(Line) /\ Head(recvr_Sd_Data) \in Line
    BY <1>12 DEF DrainPacket, TypeOK
  <2>2. published' \subseteq Server \X Line
    BY <1>12, <2>1 DEF DrainPacket, TypeOK, Targets, Server
  <2>3. QED
    BY <1>12, <2>1, <2>2 DEF DrainPacket, TypeOK
<1>22. CASE Compare
  <2>1. ASSUME NEW k, RemoveLog(k)
        PROVE  file' \in [Log -> [Days -> Seq(Line)]]
    <3>1. file \in [Log -> [Days -> Seq(Line)]] /\ <<>> \in Seq(Line)
      BY DEF TypeOK
    <3>2. k \in Handles(loop) => k \in Log
      BY DEF Handles, Log, NNW, TBNNW, SDNNW
    <3>3. CASE k \in Handles(loop) /\ Exists(k) /\ file' = [file EXCEPT ![k][cmpr[k]] = <<>>]
      <4>1. k \in Log /\ cmpr[k] \in Days
        BY <3>2, <3>3 DEF Exists
      <4>2. QED
        BY <3>1, <3>3, <4>1
    <3>4. QED
      BY <2>1, <3>1, <3>3 DEF RemoveLog
  <2>2. file' \in [Log -> [Days -> Seq(Line)]]
    BY <1>22, <2>1 DEF Compare, TypeOK
  <2>3. /\ NOntwrk_data_flag' \in {0} \cup Log
        /\ NumberOFLinesinFile' \in Nat /\ NumberofPacketsInQueue' \in Nat
    BY <1>22 DEF Compare, TypeOK
  <2>4. QED
    BY <1>22, <2>2, <2>3 DEF Compare, TypeOK
<1>13. CASE DrainNothing
  <2>1. recvr_Sd_Data' \in Seq(Line)
    <3>1. recvr_Sd_Data \in Seq(Line)
      BY DEF TypeOK
    <3>2. \/ recvr_Sd_Data' = recvr_Sd_Data
          \/ recvr_Sd_Data # <<>> /\ recvr_Sd_Data' = Tail(recvr_Sd_Data)
      BY <1>13 DEF DrainNothing
    <3>3. recvr_Sd_Data # <<>> => Tail(recvr_Sd_Data) \in Seq(Line)
      BY <3>1
    <3>4. QED
      BY <3>1, <3>2, <3>3
  <2>2. QED
    BY <1>13, <2>1 DEF DrainNothing, TypeOK
<1>14. CASE Minute
  BY <1>14, MinutesAssumption, TicksAssumption DEF Minute, NextMinute, TypeOK
<1>15. CASE RxFrame
  <2>1. PICK line \in {Short, frames + 1} : Check(1, line, {s \in Server : ~conn[s]}, {})
    BY <1>15 DEF RxFrame
  <2>2. frames + 1 \in 0..MaxFrames /\ line \in Line
    BY <1>15, <2>1, FramesAssumption DEF RxFrame, TypeOK, Line, Short
  <2>3. /\ file' \in [Log -> [Days -> Seq(Line)]]
        /\ rx' \in [check : {0, 2, 3}, line : Line, owed : SUBSET Server,
                   joined : SUBSET Server]
    <3>1. {s \in Server : ~conn[s]} \in SUBSET Server /\ 1 \in 1..3
      OBVIOUS
    <3>2. QED
      BY <2>1, <2>2, <3>1, CheckType
  <2>4. frames' \in 0..MaxFrames
    BY <1>15, <2>2 DEF RxFrame
  <2>5. /\ UNCHANGED <<conn, loop, step, slot, repub, retry, NOntwrk_data_flag,
                        recvr_Sd_Data, sd_buffer_rcvr, replay, NumberOFLinesinFile>>
        /\ UNCHANGED <<NumberofPacketsInQueue, dropped, cmpr, minute, today, ticks,
                        published>>
    BY <1>15 DEF RxFrame, mqttVars, replayVars
  <2>6. QED
    BY <2>3, <2>4, <2>5 DEF TypeOK
<1>16. CASE RxCheck
  <2>1. /\ rx.check \in 1..3 /\ rx.line \in Line
        /\ rx.owed \in SUBSET Server /\ rx.joined \in SUBSET Server
        /\ Check(rx.check, rx.line, rx.owed, rx.joined)
    BY <1>16 DEF RxCheck, TypeOK
  <2>2. QED
    BY <1>16, <2>1, CheckType DEF RxCheck, TypeOK
<1>17. CASE \E s \in Server : Disconnect(s)
  BY <1>17 DEF Disconnect, Link!Disconnect, TypeOK
<1>18. CASE Midnight
  BY <1>18, DayAssumption DEF Midnight, TypeOK, Days, ramVars
<1>19. CASE PowerCycle
  <2>1. Short \in Line /\ NNW \in Log /\ 1 \in Days /\ 1 \in 1..Len(Minutes)
    BY FramesAssumption, DayAssumption, MinutesAssumption DEF Line, Short, Log, NNW, Days
  <2>2. <<>> \in Seq(Line)
    OBVIOUS
  <2>3. QED
    BY <1>19, <2>1, <2>2 DEF PowerCycle, TypeOK, Idle
<1>20. CASE UNCHANGED vars
  BY <1>20 DEF vars, ramVars, TypeOK
<1>21. QED
  BY <1>1, <1>2, <1>3, <1>4, <1>5, <1>6, <1>7, <1>8, <1>9, <1>10, <1>11, <1>12,
     <1>13, <1>14, <1>15, <1>16, <1>17, <1>18, <1>19, <1>20, <1>22 DEF Next, MqttThread

\* In every reachable state the variables have their types.
THEOREM TypeCorrect == Spec => []TypeOK
BY InitTypeOK, TypeStep, PTL DEF Spec
-----------------------------------------------------------------------------
(* The inductive invariant: the counters account for every line, and packets *)
(* wait in the queue only under the name of a log or while one is read.      *)

IInv == TypeOK /\ CounterInv /\ NoSilentDiscard

\* Steps that touch neither queue nor counters, nor leave or clear the label.
LEMMA FrameStep ==
  ASSUME IInv, UNCHANGED replayVars, step' # "read" => step # "read"
  PROVE  CounterInv' /\ NoSilentDiscard'
BY DEF IInv, replayVars, CounterInv, NoSilentDiscard, LongCount, LongPositions

LEMMA InitIInv == Init => IInv
BY InitTypeOK, LongEmpty DEF Init, IInv, CounterInv, NoSilentDiscard

\* Taking a packet moves it from one side of the account to the other.
LEMMA DrainStep ==
  ASSUME IInv, DrainPacket
  PROVE  CounterInv' /\ NoSilentDiscard'
<1> USE DEF IInv
<1>1. /\ recvr_Sd_Data \in Seq(Line) /\ recvr_Sd_Data # <<>>
      /\ recvr_Sd_Data' = Tail(recvr_Sd_Data) /\ recvr_Sd_Data' \in Seq(Line)
      /\ Long(Head(recvr_Sd_Data))
  BY DEF DrainPacket, TypeOK
<1>2. /\ LongCount(recvr_Sd_Data) = LongCount(recvr_Sd_Data') + 1
      /\ LongCount(recvr_Sd_Data') \in Nat
      /\ LongCount(recvr_Sd_Data)' = LongCount(recvr_Sd_Data')
  BY <1>1, LongTail, LongFinite DEF LongCount, LongPositions
<1>3. CounterInv'
  BY <1>2 DEF DrainPacket, TypeOK, CounterInv
<1>4. NoSilentDiscard'
  BY <1>2 DEF DrainPacket, NoSilentDiscard
<1>5. QED
  BY <1>3, <1>4

\* When the counters agree no packet is left and none was refused.
LEMMA CompareStep ==
  ASSUME IInv, Compare
  PROVE  /\ CounterInv' /\ NoSilentDiscard'
         /\ LogRemoved => LongCount(recvr_Sd_Data') = 0 /\ dropped = 0
<1> USE DEF IInv
<1>1. /\ NumberOFLinesinFile \in Nat /\ NumberofPacketsInQueue \in Nat /\ dropped \in Nat
      /\ LongCount(recvr_Sd_Data) \in Nat
      /\ NumberOFLinesinFile = NumberofPacketsInQueue + LongCount(recvr_Sd_Data) + dropped
  BY LongFinite DEF TypeOK, CounterInv
<1>2. /\ recvr_Sd_Data' = recvr_Sd_Data /\ dropped' = dropped
      /\ LongCount(recvr_Sd_Data') = LongCount(recvr_Sd_Data)
      /\ LongCount(recvr_Sd_Data)' = LongCount(recvr_Sd_Data)
  BY DEF Compare, LongCount, LongPositions
<1>3. CASE AllTaken
  <2>1. LongCount(recvr_Sd_Data) = 0 /\ dropped = 0
    BY <1>1, <1>3 DEF AllTaken
  <2>2. QED
    BY <1>2, <1>3, <2>1 DEF Compare, CounterInv, NoSilentDiscard
<1>4. CASE ~AllTaken
  BY <1>2, <1>4 DEF Compare, CounterInv, NoSilentDiscard, LogRemoved
<1>5. QED
  BY <1>3, <1>4

\* A counted line that is queued or refused keeps the balance.
LEMMA CountedLine ==
  ASSUME NEW lines \in Nat, NEW taken \in Nat, NEW n \in Nat,
         NEW queued \in Nat, NEW refused \in Nat,
         NEW queuedNow \in Nat, NEW refusedNow \in Nat,
         lines = taken + queued + refused,
         queuedNow + refusedNow = queued + refused + n
  PROVE  lines + n = taken + queuedNow + refusedNow
OBVIOUS

\* Every step keeps the account balanced and the queued packets labelled.
LEMMA IInvStep == IInv /\ [Next]_vars => IInv'
<1> SUFFICES ASSUME IInv, [Next]_vars PROVE CounterInv' /\ NoSilentDiscard'
  BY TypeStep DEF IInv
<1>1. CASE StartAgain
  BY <1>1, FrameStep DEF StartAgain
<1>2. CASE Connect
  BY <1>2, FrameStep DEF Connect
<1>3. CASE EnterLoop
  BY <1>3, FrameStep DEF EnterLoop
<1>4. CASE LeaveLoop
  BY <1>4, FrameStep DEF LeaveLoop
<1>5. CASE NoServer
  BY <1>5, FrameStep DEF NoServer
<1>6. CASE RetryServer
  BY <1>6, FrameStep DEF RetryServer
<1>7. CASE SkipReplay
  BY <1>7, FrameStep DEF SkipReplay
<1>8. CASE ReplayNothing
  <2>1. NOntwrk_data_flag' # 0
    BY <1>8 DEF ReplayNothing, LabelQueue, IInv, TypeOK, Log, NNW, TBNNW, SDNNW
  <2>2. QED
    BY <1>8, <2>1 DEF ReplayNothing, LabelQueue, IInv, CounterInv, NoSilentDiscard, LongCount, LongPositions
<1>9. CASE ReplayOpen
  BY <1>9 DEF ReplayOpen, IInv, CounterInv, NoSilentDiscard, LongCount, LongPositions
<1>10. CASE ReplayLine
  <2> DEFINE n == IF Long(sd_buffer_rcvr') THEN 1 ELSE 0
             full == Len(recvr_Sd_Data) >= QueueCapacity
  <2>1. /\ recvr_Sd_Data \in Seq(Line)
        /\ NumberOFLinesinFile \in Nat /\ NumberofPacketsInQueue \in Nat /\ dropped \in Nat
        /\ sd_buffer_rcvr' \in Line
    BY TypeStep DEF IInv, TypeOK
  <2>2. /\ NumberOFLinesinFile' = NumberOFLinesinFile + n
        /\ NumberofPacketsInQueue' = NumberofPacketsInQueue
    BY <1>10 DEF ReplayLine, Counted
  <2>3. /\ recvr_Sd_Data' = IF full THEN recvr_Sd_Data ELSE Append(recvr_Sd_Data, sd_buffer_rcvr')
        /\ dropped' = dropped + IF Long(sd_buffer_rcvr') /\ full THEN 1 ELSE 0
    BY <1>10 DEF ReplayLine
  <2>4. /\ LongCount(recvr_Sd_Data)' = LongCount(recvr_Sd_Data')
        /\ LongCount(recvr_Sd_Data) \in Nat
    BY <2>1, LongFinite DEF LongCount, LongPositions
  <2>5. LongCount(recvr_Sd_Data') + dropped' = LongCount(recvr_Sd_Data) + dropped + n
    <3>1. CASE full
      BY <2>1, <2>3, <2>4, <3>1
    <3>2. CASE ~full
      <4>1. LongCount(recvr_Sd_Data') = LongCount(recvr_Sd_Data) + n
        BY <2>1, <2>3, <3>2, LongAppend
      <4>2. dropped' = dropped
        BY <2>1, <2>3, <3>2
      <4>3. QED
        BY <2>1, <2>4, <4>1, <4>2
    <3>3. QED
      BY <3>1, <3>2
  <2>6. dropped' \in Nat /\ LongCount(recvr_Sd_Data') \in Nat
    BY <2>1, TypeStep, LongFinite DEF IInv, TypeOK
  <2>7. CounterInv'
    <3>1. NumberOFLinesinFile = NumberofPacketsInQueue + LongCount(recvr_Sd_Data) + dropped
      BY DEF IInv, CounterInv
    <3>2. n \in Nat
      OBVIOUS
    <3> HIDE DEF n
    <3>3. NumberOFLinesinFile + n = NumberofPacketsInQueue + LongCount(recvr_Sd_Data') + dropped'
      <4>1. /\ NumberOFLinesinFile \in Nat /\ NumberofPacketsInQueue \in Nat
            /\ LongCount(recvr_Sd_Data) \in Nat /\ dropped \in Nat
            /\ LongCount(recvr_Sd_Data') \in Nat /\ dropped' \in Nat
        BY <2>1, <2>4, <2>6
      <4>2. QED
        BY <2>5, <3>1, <3>2, <4>1, CountedLine
    <3>4. QED
      BY <2>2, <2>4, <3>3 DEF CounterInv
  <2>8. NoSilentDiscard'
    BY <1>10 DEF ReplayLine, NoSilentDiscard
  <2>9. QED
    BY <2>7, <2>8
<1>11. CASE ReplayDone
  <2>1. NOntwrk_data_flag' # 0
    BY <1>11 DEF ReplayDone, LabelQueue, IInv, TypeOK, Log, NNW, TBNNW, SDNNW
  <2>2. QED
    BY <1>11, <2>1 DEF ReplayDone, LabelQueue, IInv, CounterInv, NoSilentDiscard, LongCount, LongPositions
<1>12. CASE DrainPacket
  BY <1>12, DrainStep
<1>22. CASE Compare
  BY <1>22, CompareStep
<1>13. CASE DrainNothing
  <2>1. LongCount(recvr_Sd_Data') = LongCount(recvr_Sd_Data)
    <3>1. CASE recvr_Sd_Data = <<>>
      BY <1>13, <3>1 DEF DrainNothing
    <3>2. CASE recvr_Sd_Data # <<>>
      <4>1. /\ recvr_Sd_Data \in Seq(Line) /\ ~Long(Head(recvr_Sd_Data))
            /\ recvr_Sd_Data' = Tail(recvr_Sd_Data) /\ Tail(recvr_Sd_Data) \in Seq(Line)
        BY <1>13, <3>2 DEF DrainNothing, IInv, TypeOK
      <4>2. LongCount(recvr_Sd_Data) = LongCount(Tail(recvr_Sd_Data)) + 0
        BY <3>2, <4>1, LongTail
      <4>3. LongCount(Tail(recvr_Sd_Data)) \in Nat
        BY <4>1, LongFinite
      <4>4. QED
        BY <4>1, <4>2, <4>3
    <3>3. QED
      BY <3>1, <3>2
  <2>2. LongCount(recvr_Sd_Data)' = LongCount(recvr_Sd_Data)
    BY <2>1 DEF LongCount, LongPositions
  <2>3. QED
    BY <1>13, <2>2 DEF DrainNothing, IInv, CounterInv, NoSilentDiscard
<1>14. CASE Minute
  BY <1>14, FrameStep DEF Minute, mqttVars
<1>15. CASE RxFrame
  BY <1>15, FrameStep DEF RxFrame, mqttVars
<1>16. CASE RxCheck
  BY <1>16, FrameStep DEF RxCheck, mqttVars
<1>17. CASE \E s \in Server : Disconnect(s)
  BY <1>17, FrameStep DEF Disconnect, mqttVars
<1>18. CASE Midnight
  BY <1>18, FrameStep DEF Midnight, ramVars, replayVars
<1>19. CASE PowerCycle
  <2>1. /\ recvr_Sd_Data' = <<>> /\ NumberOFLinesinFile' = 0
        /\ NumberofPacketsInQueue' = 0 /\ dropped' = 0
    BY <1>19 DEF PowerCycle
  <2>2. LongCount(recvr_Sd_Data)' = 0
    BY <2>1, LongEmpty DEF LongCount, LongPositions
  <2>3. QED
    BY <2>1, <2>2 DEF CounterInv, NoSilentDiscard
<1>20. CASE UNCHANGED vars
  BY <1>20, FrameStep DEF vars, ramVars, replayVars
<1>21. QED
  BY <1>1, <1>2, <1>3, <1>4, <1>5, <1>6, <1>7, <1>8, <1>9, <1>10, <1>11, <1>12,
     <1>13, <1>14, <1>15, <1>16, <1>17, <1>18, <1>19, <1>20, <1>22 DEF Next, MqttThread

\* Only the comparison of the counters can remove a log.
LEMMA OnlyCompareRemoves ==
  ASSUME IInv, [Next]_vars, LogRemoved
  PROVE  Compare
<1>1. file \in [Log -> [Days -> Seq(Line)]] /\ today \in Days
  BY DEF IInv, TypeOK
<1>2. PICK k \in Log, d \in Days : file[k][d] # <<>> /\ file'[k][d] = <<>>
  BY DEF LogRemoved
<1>3. ASSUME NEW i, NEW line \in Line, NEW owed, NEW joined, Check(i, line, owed, joined)
      PROVE  FALSE
  <2> DEFINE j == Asked[i]
  <2>1. CASE file' = file
    BY <1>2, <2>1
  <2>2. CASE file' = [file EXCEPT ![j][today] = Append(@, line)]
    <3>1. CASE j = k /\ today = d
      <4>1. file'[k][d] = Append(file[k][d], line)
        BY <1>1, <1>2, <2>2, <3>1
      <4>2. file[k][d] \in Seq(Line)
        BY <1>1, <1>2
      <4>3. Len(Append(file[k][d], line)) > 0
        BY <4>2
      <4>4. QED
        BY <1>2, <4>1, <4>3
    <3>2. CASE ~(j = k /\ today = d)
      BY <1>1, <1>2, <2>2, <3>2
    <3>3. QED
      BY <3>1, <3>2
  <2>3. QED
    BY <1>3, <2>1, <2>2 DEF Check
<1>4. file' # file
  BY <1>2
<1>5. ~RxFrame /\ ~RxCheck
  <2>1. rx.line \in Line /\ Short \in Line
    BY FramesAssumption DEF IInv, TypeOK, Line, Short
  <2>2. frames < MaxFrames => frames + 1 \in Line
    BY FramesAssumption DEF IInv, TypeOK, Line
  <2>3. QED
    BY <1>3, <2>1, <2>2 DEF RxFrame, RxCheck
<1>6. QED
  BY <1>4, <1>5
     DEF Next, MqttThread, vars, ramVars, diskVars, StartAgain, Connect, EnterLoop, LeaveLoop, NoServer,
         RetryServer, SkipReplay, ReplayNothing, ReplayOpen, ReplayLine, ReplayDone,
         DrainPacket, DrainNothing, Minute, Disconnect, Midnight, PowerCycle

\* The counters account for every line the replays counted, and no packet is
\* thrown away because no log is named.
THEOREM CountersBalance == Spec => []CounterInv
<1>1. IInv => CounterInv
  BY DEF IInv
<1>2. QED
  BY <1>1, InitIInv, IInvStep, PTL DEF Spec

\* No packet is taken off the queue while NOntwrk_data_flag names no log.
THEOREM PacketsLabelled == Spec => []NoSilentDiscard
<1>1. IInv => NoSilentDiscard
  BY DEF IInv
<1>2. QED
  BY <1>1, InitIInv, IInvStep, PTL DEF Spec

\* A log is deleted only when no packet waits in the queue and none was refused.
THEOREM RemovalIsSafe == Spec => RemoveOnlyDrained
<1>1. IInv /\ [Next]_vars => [LogRemoved => LongCount(recvr_Sd_Data') = 0 /\ dropped = 0]_vars
  BY OnlyCompareRemoves, CompareStep
<1>2. QED
  BY <1>1, InitIInv, IInvStep, PTL DEF Spec, RemoveOnlyDrained

\* A packet that the full queue refuses counts as read and never as taken, and
\* nothing but a reset clears the counters while they differ: after the first
\* such packet no log is deleted again, however often the logs are replayed.
THEOREM OverflowStops ==
  Spec => [][dropped > 0 => PowerCycle \/ (dropped' >= dropped /\ ~LogRemoved)]_vars
<1>1. IInv /\ [Next]_vars
        => [dropped > 0 => PowerCycle \/ (dropped' >= dropped /\ ~LogRemoved)]_vars
  <2> SUFFICES ASSUME IInv, [Next]_vars, dropped > 0, ~PowerCycle
               PROVE  dropped' >= dropped /\ ~LogRemoved
    OBVIOUS
  <2>1. dropped \in Nat
    BY DEF IInv, TypeOK
  <2>2. ~LogRemoved
    BY <2>1, OnlyCompareRemoves, CompareStep
  <2>3. ASSUME ReplayLine PROVE dropped' >= dropped
    <3>1. dropped' = dropped + 1 \/ dropped' = dropped + 0
      BY <2>3 DEF ReplayLine
    <3>2. QED
      BY <2>1, <3>1
  <2>4. ASSUME ~ReplayLine PROVE dropped' = dropped
    BY <2>4
       DEF Next, MqttThread, vars, replayVars, ramVars, StartAgain, Connect, EnterLoop,
           LeaveLoop, NoServer, RetryServer, SkipReplay, ReplayNothing, ReplayOpen,
           ReplayDone, DrainPacket, DrainNothing, Compare, Minute, RxFrame, RxCheck,
           Check, Disconnect, Midnight
  <2>5. QED
    BY <2>1, <2>2, <2>3, <2>4
<1>2. QED
  BY <1>1, InitIInv, IInvStep, PTL DEF Spec
-----------------------------------------------------------------------------
(* No line is missed by all three questions: after each of them, a server   *)
(* that is still owed the line is down, and the other one can be up only if *)
(* it connected since the question for the server's own log.                *)

Missed(s) ==
  s \in rx.owed => ~conn[s] /\ \A t \in Server \ {s} : conn[t] => t \in rx.joined

LineInv ==
  /\ LostOnlyOnConnect
  /\ rx.check = 2 => Missed("TB") /\ ("SDM" \in rx.owed => ~conn["SDM"])
  /\ rx.check = 3 => Missed("TB") /\ Missed("SDM")

\* What a question leaves owed, when it was asked as it should be.
LEMMA CheckKeeps ==
  ASSUME TypeOK, NEW i \in 1..3, NEW line, NEW owed \in SUBSET Server,
         NEW joined \in SUBSET Server, Check(i, line, owed, joined), UNCHANGED conn,
         i = 1 => owed = {s \in Server : ~conn[s]},
         i = 2 => /\ "TB" \in owed => ~conn["TB"] /\ (conn["SDM"] => "SDM" \in joined)
                  /\ "SDM" \in owed => ~conn["SDM"],
         i = 3 => /\ "TB" \in owed => ~conn["TB"] /\ (conn["SDM"] => "SDM" \in joined)
                  /\ "SDM" \in owed => ~conn["SDM"] /\ (conn["TB"] => "TB" \in joined)
  PROVE  LineInv'
<1> DEFINE k == Asked[i]
           owing == IF LogOf(conn) = k THEN owed \ Targets(k) ELSE owed
           left  == joined \ (Server \ Targets(k))
           next == [check  |-> IF i = 3 THEN 0 ELSE i + 1,
                    line   |-> IF i = 3 THEN Short ELSE line, owed |-> owing,
                    joined |-> left]
<1> USE DEF LogOf, Targets, NNW, TBNNW, SDNNW, Server
<1>1. rx' = Idle \/ rx' = next
  BY DEF Check
<1>2. CASE rx' = Idle
  BY <1>2 DEF Idle, LineInv, LostOnlyOnConnect
<1>3. /\ i = 1 => k = TBNNW
      /\ i = 2 => k = SDNNW
      /\ i = 3 => k = NNW
  BY DEF Asked
<1>4. CASE rx' = next
  <2>1. /\ rx'.owed = owing /\ rx'.check = IF i = 3 THEN 0 ELSE i + 1
        /\ rx'.joined = left
    BY <1>4
  <2> HIDE DEF next, k
  <2>2. CASE i = 1
    BY <1>3, <2>1, <2>2 DEF LineInv, LostOnlyOnConnect, Missed
  <2>3. CASE i = 2
    BY <1>3, <2>1, <2>3 DEF LineInv, LostOnlyOnConnect, Missed
  <2>4. CASE i = 3
    BY <1>3, <2>1, <2>4 DEF LineInv, LostOnlyOnConnect, Missed
  <2>5. QED
    BY <2>2, <2>3, <2>4
<1>5. QED
  BY <1>1, <1>2, <1>4

\* A step that only takes servers down, or ends the call, breaks nothing.
LEMMA LineFrame ==
  ASSUME LineInv, \/ UNCHANGED rx /\ \A s \in Server : conn'[s] => conn[s]
                  \/ rx' = Idle
  PROVE  LineInv'
BY DEF LineInv, LostOnlyOnConnect, Missed, Server, Idle

\* A server that connects is owed the line no more, and accounts for the other.
LEMMA LineConnect ==
  ASSUME TypeOK, LineInv, NEW s \in Server, conn' = [conn EXCEPT ![s] = TRUE],
         rx' = IF rx.check = 0 THEN rx
               ELSE [rx EXCEPT !.owed = @ \ {s}, !.joined = @ \cup {s}]
  PROVE  LineInv'
<1>1. /\ conn \in [Server -> BOOLEAN]
      /\ rx \in [check : {0, 2, 3}, line : Line, owed : SUBSET Server, joined : SUBSET Server]
  BY DEF TypeOK
<1>2. CASE rx.check = 0
  BY <1>2 DEF LineInv, LostOnlyOnConnect
<1>3. CASE rx.check # 0
  <2>1. /\ rx'.check = rx.check /\ rx'.owed = rx.owed \ {s}
        /\ rx'.joined = rx.joined \cup {s}
    BY <1>1, <1>3
  <2>2. \A t \in Server : conn'[t] <=> (conn[t] \/ t = s)
    BY <1>1
  <2>3. ASSUME NEW t \in Server, Missed(t) PROVE Missed(t)'
    BY <2>1, <2>2, <2>3 DEF Missed
  <2>4. "TB" \in Server /\ "SDM" \in Server
    BY DEF Server
  <2>5. QED
    BY <1>3, <2>1, <2>2, <2>3, <2>4 DEF LineInv, LostOnlyOnConnect
<1>4. QED
  BY <1>2, <1>3

LEMMA LineStep == TypeOK /\ LineInv /\ [Next]_vars => LineInv'
<1> SUFFICES ASSUME TypeOK, LineInv, [Next]_vars PROVE LineInv'
  OBVIOUS
<1>1. CASE UNCHANGED <<conn, rx>>
  BY <1>1, LineFrame
<1>2. CASE Connect
  <2>1. CASE UNCHANGED <<conn, rx>>
    BY <2>1, LineFrame
  <2>2. ASSUME NEW s \in Server, Link!ConnectServer(s),
               rx' = IF rx.check = 0 THEN rx
                     ELSE [rx EXCEPT !.owed = @ \ {s}, !.joined = @ \cup {s}]
        PROVE  LineInv'
    BY <2>2, LineConnect DEF Link!ConnectServer
  <2>3. QED
    BY <1>2, <2>1, <2>2 DEF Connect, Link!Proceed
<1>3. CASE RxFrame
  <2>1. PICK line \in {Short, frames + 1} : Check(1, line, {s \in Server : ~conn[s]}, {})
    BY <1>3 DEF RxFrame
  <2>2. {s \in Server : ~conn[s]} \in SUBSET Server /\ {} \in SUBSET Server
    OBVIOUS
  <2>3. QED
    BY <1>3, <2>1, <2>2, CheckKeeps DEF RxFrame
<1>4. CASE RxCheck
  <2>1. rx.check \in {2, 3} /\ rx.owed \in SUBSET Server /\ rx.joined \in SUBSET Server
        /\ UNCHANGED conn /\ Check(rx.check, rx.line, rx.owed, rx.joined)
    BY <1>4 DEF RxCheck, TypeOK
  <2>2. /\ rx.check = 2 =>
             /\ "TB" \in rx.owed => ~conn["TB"] /\ (conn["SDM"] => "SDM" \in rx.joined)
             /\ "SDM" \in rx.owed => ~conn["SDM"]
        /\ rx.check = 3 =>
             /\ "TB" \in rx.owed => ~conn["TB"] /\ (conn["SDM"] => "SDM" \in rx.joined)
             /\ "SDM" \in rx.owed => ~conn["SDM"] /\ (conn["TB"] => "TB" \in rx.joined)
    BY DEF LineInv, Missed, Server
  <2>3. QED
    BY <2>1, <2>2, CheckKeeps
<1>5. ASSUME NEW s \in Server, Disconnect(s) PROVE LineInv'
  <2>1. UNCHANGED rx /\ conn' = [conn EXCEPT ![s] = FALSE]
    BY <1>5 DEF Disconnect, Link!Disconnect
  <2>2. \A t \in Server : conn'[t] => conn[t]
    BY <2>1 DEF TypeOK
  <2>3. QED
    BY <2>1, <2>2, LineFrame
<1>6. CASE PowerCycle
  BY <1>6, LineFrame DEF PowerCycle
<1>7. QED
  BY <1>1, <1>2, <1>3, <1>4, <1>5, <1>6
     DEF Next, MqttThread, vars, ramVars, StartAgain, EnterLoop, LeaveLoop, NoServer,
         RetryServer, SkipReplay, ReplayNothing, ReplayOpen, ReplayLine, ReplayDone,
         DrainPacket, Compare, DrainNothing, Minute, Midnight,
         Link!StartAgain, Link!LeaveLoop, Link!NoServer, Link!Refresh

\* The line of a server that is down all along is missing from its logs only if
\* the other server connected after the question for the server's own log, or
\* the SD card refused the line.
THEOREM OnlyAConnectLoses == Spec => []LostOnlyOnConnect
<1>1. Init => LineInv
  BY DEF Init, Idle, LineInv, LostOnlyOnConnect
<1>2. LineInv => LostOnlyOnConnect
  BY DEF LineInv
<1>3. QED
  BY <1>1, <1>2, InitTypeOK, TypeStep, LineStep, PTL DEF Spec
-----------------------------------------------------------------------------
(* StoreForward uses the sessions as Connectivity offers them.             *)

LinkProofs == INSTANCE Connectivity_proofs

\* Every step of StoreForward is a step of Connectivity or leaves it alone.
LEMMA LinkStep == [Next]_vars => [Link!Next]_Link!vars
<1> SUFFICES ASSUME [Next]_vars PROVE [Link!Next]_Link!vars
  OBVIOUS
<1> USE DEF Link!vars
<1>1. CASE StartAgain
  BY <1>1 DEF StartAgain, Link!Next
<1>2. CASE Connect
  BY <1>2 DEF Connect, Link!Next, Server, Link!Server
<1>3. CASE LeaveLoop
  BY <1>3 DEF LeaveLoop, Link!Next
<1>4. CASE NoServer
  BY <1>4 DEF NoServer, Link!Next
<1>5. CASE RetryServer
  BY <1>5 DEF RetryServer, Link!Next
<1>6. CASE \E s \in Server : Disconnect(s)
  BY <1>6 DEF Disconnect, Link!Next, Server, Link!Server
<1>7. CASE PowerCycle
  BY <1>7 DEF PowerCycle, Link!PowerCycle, Link!Next, Server, Link!Server
<1>8. CASE \/ EnterLoop \/ SkipReplay \/ ReplayNothing \/ ReplayOpen \/ ReplayLine
           \/ ReplayDone \/ DrainPacket \/ Compare \/ DrainNothing
  BY <1>8 DEF EnterLoop, SkipReplay, ReplayNothing, ReplayOpen, ReplayLine,
              ReplayDone, DrainPacket, Compare, DrainNothing
<1>9. CASE Minute \/ RxFrame \/ RxCheck \/ Midnight \/ UNCHANGED vars
  BY <1>9 DEF Minute, RxFrame, RxCheck, Midnight, mqttVars, vars, ramVars
<1>10. QED
  BY <1>1, <1>2, <1>3, <1>4, <1>5, <1>6, <1>7, <1>8, <1>9 DEF Next, MqttThread

\* StoreForward uses the sessions as Connectivity describes them.
THEOREM UsesConnectivity == Spec => Link!Spec
<1>1. Init => Link!Init
  BY DEF Init, Link!Init, Server, Link!Server
<1>2. QED
  BY <1>1, LinkStep, PTL DEF Spec, Link!Spec

\* The modem is refreshed for want of a server only when no server is left.
THEOREM NoneSkipped == Spec => []NoServerSkipped
<1>1. Link!Init => LinkProofs!Init
  BY DEF Link!Init, LinkProofs!Init, Link!Server, LinkProofs!Server
<1>2. [Link!Next]_Link!vars => [LinkProofs!Next]_LinkProofs!vars
  BY DEF Link!Next, Link!vars, Link!StartAgain, Link!Proceed, Link!LeaveLoop, Link!Refresh,
         Link!NoServer, Link!PowerCycle, Link!ConnectServer, Link!Disconnect,
         Link!PublishLoop, Link!LoopCondition, Link!NextLoop, Link!Server,
         LinkProofs!Next, LinkProofs!vars, LinkProofs!StartAgain, LinkProofs!Proceed,
         LinkProofs!LeaveLoop, LinkProofs!Refresh, LinkProofs!NoServer,
         LinkProofs!PowerCycle, LinkProofs!ConnectServer, LinkProofs!Disconnect,
         LinkProofs!PublishLoop, LinkProofs!LoopCondition, LinkProofs!NextLoop,
         LinkProofs!Server
<1>3. LinkProofs!NoServerSkipped => NoServerSkipped
  BY DEF LinkProofs!NoServerSkipped, NoServerSkipped, Link!NoServerSkipped
<1>4. QED
  BY <1>1, <1>2, <1>3, UsesConnectivity, LinkProofs!NeverSkipped, PTL
     DEF Link!Spec, LinkProofs!Spec
-----------------------------------------------------------------------------
(* DeletedAfterPublish fails (run store_deleted).  What follows says exactly   *)
(* what the code would have to rule out: five steps, of four actors.           *)

\* Packets of a replay are on their way, under the name of this log.
Busy     == step \in {"read", "compare"} \/ LongCount(recvr_Sd_Data) > 0
Replayed == IF step = "read" THEN slot ELSE NOntwrk_data_flag

\* Every publish of a packet succeeds, at each server the packet is for; ...
PublishedToAll ==
  DrainPacket => Targets(NOntwrk_data_flag) \X {Head(recvr_Sd_Data)} \subseteq published'

\* ... a replay begins when the packets of the one before are through, ...
OneReplay == ReplayOpen \/ ReplayNothing => LongCount(recvr_Sd_Data) = 0

\* ... and reads all lines of its log, ...
WholeLog == ReplayDone => replay.pos >= Len(file[slot][replay.day])

\* ... to which the callback appends nothing meanwhile, ...
LogStays ==
  (RxFrame \/ RxCheck) /\ Busy =>
    \A k \in Log, d \in Days : k = Replayed /\ d = cmpr[k] => file'[k][d] = file[k][d]

\* ... and whose name the UART thread does not change to another date's.
NameStays == Minute /\ Busy => cmpr' = cmpr

CarefulReplay == PublishedToAll /\ OneReplay /\ WholeLog /\ LogStays /\ NameStays

-----------------------------------------------------------------------------
(* Under them every line of the log that is replayed is in the queue or was    *)
(* published, unless the queue refused one: then the log is not deleted.       *)

In(q, l)   == \E i \in 1..Len(q) : q[i] = l
Sent(k, l) == \A s \in Targets(k) : <<s, l>> \in published

\* While the log is read, the lines behind the file position are in the queue.
ReadInv ==
  step = "read" =>
    /\ replay.day = cmpr[slot]
    /\ dropped = 0 =>
         \A i \in LongPositions(file[slot][replay.day]) :
           i <= replay.pos => In(recvr_Sd_Data, file[slot][replay.day][i])

\* After that each line is in the queue or was published.
Covered ==
  \A k \in Log, d \in Days :
    k = NOntwrk_data_flag /\ d = cmpr[k] =>
      \A i \in LongPositions(file[k][d]) :
        In(recvr_Sd_Data, file[k][d][i]) \/ Sent(k, file[k][d][i])

CoverInv == /\ ReadInv
            /\ step # "read" /\ Busy /\ dropped = 0 => Covered

LEMMA InAppend ==
  ASSUME NEW q \in Seq(Line), NEW l \in Line
  PROVE  /\ In(Append(q, l), l)
         /\ \A m : In(q, m) => In(Append(q, l), m)
<1>1. /\ Len(Append(q, l)) = Len(q) + 1 /\ Append(q, l)[Len(q) + 1] = l
      /\ \A i \in 1..Len(q) : Append(q, l)[i] = q[i] /\ i \in 1..(Len(q) + 1)
      /\ Len(q) + 1 \in 1..(Len(q) + 1)
  OBVIOUS
<1>2. QED
  BY <1>1 DEF In

LEMMA InTail ==
  ASSUME NEW q \in Seq(Line), q # <<>>, NEW m, In(q, m), m # Head(q)
  PROVE  In(Tail(q), m)
<1>1. PICK i \in 1..Len(q) : q[i] = m
  BY DEF In
<1>2. Len(q) \in Nat /\ Len(Tail(q)) = Len(q) - 1 /\ Head(q) = q[1]
      /\ \A j \in 1..Len(Tail(q)) : Tail(q)[j] = q[j + 1]
  OBVIOUS
<1>3. i # 1
  BY <1>1, <1>2
<1>4. i - 1 \in 1..Len(Tail(q)) /\ (i - 1) + 1 = i
  BY <1>2, <1>3
<1>5. Tail(q)[i - 1] = m
  BY <1>1, <1>2, <1>4
<1>6. QED
  BY <1>4, <1>5 DEF In

\* A queue without packets holds no long line.
LEMMA NoneIn ==
  ASSUME NEW q \in Seq(Line), LongCount(q) = 0, NEW l, Long(l)
  PROVE  ~In(q, l)
<1>1. LongPositions(q) = {}
  BY LongFinite, FS_EmptySet DEF LongCount
<1>2. QED
  BY <1>1 DEF LongPositions, In

\* The queue loses its head, and what was queued is queued or was the head.
LEMMA QueueTail ==
  ASSUME IInv, recvr_Sd_Data # <<>>, recvr_Sd_Data' = Tail(recvr_Sd_Data)
  PROVE  /\ Long(Head(recvr_Sd_Data)) => LongCount(recvr_Sd_Data) > 0
         /\ LongCount(recvr_Sd_Data') > 0 => LongCount(recvr_Sd_Data) > 0
         /\ \A m : In(recvr_Sd_Data, m) => In(recvr_Sd_Data', m) \/ m = Head(recvr_Sd_Data)
<1>1. recvr_Sd_Data \in Seq(Line) /\ Tail(recvr_Sd_Data) \in Seq(Line)
  BY DEF IInv, TypeOK
<1>2. /\ LongCount(Tail(recvr_Sd_Data)) \in Nat /\ LongCount(recvr_Sd_Data) \in Nat
      /\ LongCount(recvr_Sd_Data) =
           LongCount(Tail(recvr_Sd_Data)) + IF Long(Head(recvr_Sd_Data)) THEN 1 ELSE 0
  BY <1>1, LongTail, LongFinite
<1>3. \A m : In(recvr_Sd_Data, m) => In(recvr_Sd_Data', m) \/ m = Head(recvr_Sd_Data)
  BY <1>1, InTail
<1>4. QED
  BY <1>2, <1>3

\* Steps that concern no replay.
LEMMA CoverFrame ==
  ASSUME CoverInv,
         UNCHANGED <<NOntwrk_data_flag, recvr_Sd_Data, replay, cmpr, file, dropped, published>>,
         \/ step' = step /\ slot' = slot
         \/ step # "read" /\ step' \notin {"read", "compare"}
  PROVE  CoverInv'
<1>1. Covered => Covered'
  BY DEF Covered, Sent
<1>2. LongCount(recvr_Sd_Data)' = LongCount(recvr_Sd_Data)
  BY DEF LongCount, LongPositions
<1>3. Busy' /\ step' # "read" => Busy
  BY <1>2 DEF Busy
<1>4. CASE step' = step /\ slot' = slot
  <2>1. ReadInv'
    BY <1>4 DEF CoverInv, ReadInv
  <2>2. QED
    BY <1>1, <1>3, <1>4, <2>1 DEF CoverInv
<1>5. CASE step # "read" /\ step' \notin {"read", "compare"}
  BY <1>1, <1>3, <1>5 DEF CoverInv, ReadInv
<1>6. QED
  BY <1>4, <1>5

\* A replay begins: nothing is read yet.
LEMMA CoverOpen == ASSUME CoverInv, ReplayOpen PROVE CoverInv'
<1>1. step' = "read" /\ slot' = slot /\ replay'.day = cmpr[slot] /\ replay'.pos = 0
      /\ UNCHANGED <<cmpr, file, recvr_Sd_Data, dropped>>
  BY DEF ReplayOpen, diskVars
<1>2. \A i \in LongPositions(file[slot][cmpr[slot]]) : ~(i <= 0)
  BY DEF LongPositions
<1>3. replay'.day = cmpr'[slot'] /\ file'[slot'][replay'.day] = file[slot][cmpr[slot]]
  BY <1>1
<1>4. LongPositions(file[slot][replay.day])' = LongPositions(file[slot][cmpr[slot]])
  BY <1>3 DEF LongPositions
<1>5. ReadInv'
  BY <1>1, <1>2, <1>3, <1>4 DEF ReadInv
<1>6. QED
  BY <1>1, <1>5 DEF CoverInv

\* A line is read: if it is long it is queued or refused.
LEMMA CoverLine == ASSUME IInv, CoverInv, ReplayLine PROVE CoverInv'
<1> DEFINE log  == file[slot][replay.day]
           eof  == replay.pos >= Len(log)
           full == Len(recvr_Sd_Data) >= QueueCapacity
           buf  == sd_buffer_rcvr'
<1>1. /\ step = "read" /\ UNCHANGED <<step, slot, file, cmpr>>
      /\ replay' = [replay EXCEPT !.pos = IF eof THEN @ ELSE @ + 1, !.calls = @ + 1]
      /\ recvr_Sd_Data' = IF full THEN recvr_Sd_Data ELSE Append(recvr_Sd_Data, buf)
      /\ dropped' = dropped + IF Long(buf) /\ full THEN 1 ELSE 0
      /\ ~eof => buf = log[replay.pos + 1]
  BY DEF ReplayLine, diskVars
<1>2. /\ recvr_Sd_Data \in Seq(Line) /\ buf \in Line /\ dropped \in Nat
      /\ replay \in [day : Days, pos : Nat, calls : Nat]
      /\ file \in [Log -> [Days -> Seq(Line)]] /\ slot \in Log
  BY TypeStep DEF IInv, TypeOK, Next, MqttThread
<1>3. replay'.day = replay.day /\ replay'.pos = IF eof THEN replay.pos ELSE replay.pos + 1
  BY <1>1, <1>2
<1>4. \A m : In(recvr_Sd_Data, m) => In(recvr_Sd_Data', m)
  BY <1>1, <1>2, InAppend
<1>5. ASSUME dropped' = 0, NEW i \in LongPositions(log), i <= replay'.pos
      PROVE  In(recvr_Sd_Data', log[i])
  <2>1. dropped = 0 /\ (Long(buf) => ~full)
    BY <1>1, <1>2, <1>5
  <2>2. log \in Seq(Line) /\ i \in 1..Len(log) /\ Long(log[i]) /\ replay.pos \in Nat
    BY <1>2, <1>5 DEF LongPositions
  <2>3. CASE i <= replay.pos
    BY <1>1, <1>4, <2>1, <2>3 DEF CoverInv, ReadInv
  <2>4. CASE ~(i <= replay.pos)
    <3>1. ~eof /\ i = replay.pos + 1
      BY <1>3, <1>5, <2>2, <2>4
    <3>2. log[i] = buf
      BY <1>1, <3>1
    <3>3. In(Append(recvr_Sd_Data, buf), buf)
      BY <1>2, InAppend
    <3>4. QED
      BY <1>1, <2>1, <2>2, <3>2, <3>3
  <2>5. QED
    BY <2>3, <2>4
<1>6. replay'.day = cmpr'[slot']
  BY <1>1, <1>3 DEF CoverInv, ReadInv
<1>7. file'[slot'][replay'.day] = log
  BY <1>1, <1>3
<1> HIDE DEF log, eof, full, buf
<1>8. ReadInv'
  BY <1>5, <1>6, <1>7 DEF ReadInv
<1>9. QED
  BY <1>1, <1>8 DEF CoverInv

\* A log that is read to its end is covered.
LEMMA CoverDone == ASSUME IInv, CoverInv, ReplayDone, WholeLog PROVE CoverInv'
<1>1. /\ step = "read" /\ step' \in {"drain", "repub"} /\ NOntwrk_data_flag' = slot
      /\ UNCHANGED <<recvr_Sd_Data, replay, dropped, cmpr, file, published>>
  BY DEF ReplayDone, NextSlot, LabelQueue, diskVars
<1>2. replay.pos >= Len(file[slot][replay.day]) /\ replay.day = cmpr[slot]
  BY <1>1 DEF WholeLog, CoverInv, ReadInv
<1>3. ASSUME dropped = 0, cmpr[slot] \in Days, NEW i \in LongPositions(file[slot][cmpr[slot]])
      PROVE  In(recvr_Sd_Data, file[slot][cmpr[slot]][i])
  <2>1. file[slot][cmpr[slot]] \in Seq(Line) /\ replay.pos \in Nat
    BY <1>3 DEF IInv, TypeOK
  <2>2. i \in 1..Len(file[slot][cmpr[slot]])
    BY DEF LongPositions
  <2>3. i <= replay.pos
    BY <1>2, <2>1, <2>2
  <2>4. QED
    BY <1>1, <1>2, <1>3, <2>3 DEF CoverInv, ReadInv
<1>4. dropped' = 0 => Covered'
  BY <1>1, <1>3 DEF Covered
<1>5. QED
  BY <1>1, <1>4 DEF CoverInv, ReadInv

\* A replay of nothing finds no packets on their way.
LEMMA CoverNothing == ASSUME ReplayNothing, OneReplay PROVE CoverInv'
<1>1. /\ LongCount(recvr_Sd_Data) = 0 /\ recvr_Sd_Data' = recvr_Sd_Data
      /\ step' \in {"drain", "repub"}
  BY DEF ReplayNothing, OneReplay, NextSlot
<1>2. ~Busy'
  BY <1>1 DEF Busy, LongCount, LongPositions
<1>3. QED
  BY <1>1, <1>2 DEF CoverInv, ReadInv

\* A packet that is taken off the queue is published.
LEMMA CoverDrain == ASSUME IInv, CoverInv, DrainPacket, PublishedToAll PROVE CoverInv'
<1> DEFINE h == Head(recvr_Sd_Data)
<1>1. /\ step = "drain" /\ step' = "compare" /\ recvr_Sd_Data # <<>> /\ Long(h)
      /\ recvr_Sd_Data' = Tail(recvr_Sd_Data) /\ published \subseteq published'
      /\ UNCHANGED <<NOntwrk_data_flag, cmpr, file, dropped>>
  BY DEF DrainPacket
<1>2. \A s \in Targets(NOntwrk_data_flag) : <<s, h>> \in published'
  BY DEF PublishedToAll
<1>3. LongCount(recvr_Sd_Data) > 0
      /\ \A m : In(recvr_Sd_Data, m) => In(recvr_Sd_Data', m) \/ m = h
  BY <1>1, QueueTail
<1>4. dropped = 0 => Covered
  BY <1>1, <1>3 DEF CoverInv, Busy
<1> HIDE DEF h
<1>5. Covered => Covered'
  <2> SUFFICES ASSUME Covered, NEW k \in Log, NEW d \in Days,
                      k = NOntwrk_data_flag, d = cmpr[k], NEW i \in LongPositions(file[k][d])
               PROVE  \/ In(recvr_Sd_Data', file[k][d][i])
                      \/ \A s \in Targets(k) : <<s, file[k][d][i]>> \in published'
    BY <1>1 DEF Covered, Sent
  <2>1. In(recvr_Sd_Data, file[k][d][i]) \/ Sent(k, file[k][d][i])
    BY DEF Covered
  <2>2. QED
    BY <1>1, <1>2, <1>3, <2>1 DEF Sent
<1>6. QED
  BY <1>1, <1>4, <1>5 DEF CoverInv, ReadInv

\* A short line is thrown away.
LEMMA CoverNoPacket == ASSUME IInv, CoverInv, DrainNothing PROVE CoverInv'
<1>1. /\ step = "drain" /\ step' = "test" /\ UNCHANGED <<NOntwrk_data_flag, cmpr, file, dropped, published>>
  BY DEF DrainNothing, diskVars
<1>2. CASE recvr_Sd_Data = <<>>
  BY <1>2, CoverFrame DEF DrainNothing, diskVars
<1>3. CASE recvr_Sd_Data # <<>>
  <2> DEFINE h == Head(recvr_Sd_Data)
  <2>1. ~Long(h) /\ recvr_Sd_Data' = Tail(recvr_Sd_Data)
    BY <1>3 DEF DrainNothing
  <2>2. /\ LongCount(recvr_Sd_Data') > 0 => LongCount(recvr_Sd_Data) > 0
        /\ \A m : In(recvr_Sd_Data, m) => In(recvr_Sd_Data', m) \/ m = h
    BY <1>3, <2>1, QueueTail
  <2> HIDE DEF h
  <2>3. Busy' => Busy
    BY <1>1, <2>2 DEF Busy, LongCount, LongPositions
  <2>4. Covered => Covered'
    <3> SUFFICES ASSUME Covered, NEW k \in Log, NEW d \in Days,
                        k = NOntwrk_data_flag, d = cmpr[k], NEW i \in LongPositions(file[k][d])
                 PROVE  In(recvr_Sd_Data', file[k][d][i]) \/ Sent(k, file[k][d][i])
      BY <1>1 DEF Covered, Sent
    <3>1. In(recvr_Sd_Data, file[k][d][i]) \/ Sent(k, file[k][d][i])
      BY DEF Covered
    <3>2. Long(file[k][d][i])
      BY DEF LongPositions
    <3>3. QED
      BY <2>1, <2>2, <3>1, <3>2
  <2>5. QED
    BY <1>1, <2>3, <2>4 DEF CoverInv, ReadInv
<1>4. QED
  BY <1>2, <1>3

\* When the counters agree, no packet is on its way any more.
LEMMA CoverCompare == ASSUME IInv, CoverInv, Compare PROVE CoverInv'
<1>1. step = "compare" /\ step' = "test" /\ UNCHANGED <<recvr_Sd_Data, cmpr, dropped, published, slot, replay>>
  BY DEF Compare
<1>2. CASE AllTaken
  <2>1. LongCount(recvr_Sd_Data) = 0
    <3>1. /\ NumberOFLinesinFile \in Nat /\ NumberofPacketsInQueue \in Nat /\ dropped \in Nat
          /\ LongCount(recvr_Sd_Data) \in Nat
          /\ NumberOFLinesinFile = NumberofPacketsInQueue + LongCount(recvr_Sd_Data) + dropped
      BY LongFinite DEF IInv, TypeOK, CounterInv
    <3>2. QED
      BY <1>2, <3>1 DEF AllTaken
  <2>2. ~Busy'
    BY <1>1, <2>1 DEF Busy, LongCount, LongPositions
  <2>3. QED
    BY <1>1, <2>2 DEF CoverInv, ReadInv
<1>3. CASE ~AllTaken
  BY <1>1, <1>3, CoverFrame DEF Compare
<1>4. QED
  BY <1>2, <1>3

\* What the other actors may do to a log that is replayed.
LEMMA CoverOthers ==
  ASSUME IInv, CoverInv, Minute \/ RxFrame \/ RxCheck, LogStays, NameStays
  PROVE  CoverInv'
<1>1. UNCHANGED <<NOntwrk_data_flag, recvr_Sd_Data, replay, dropped, published, step, slot>>
  BY DEF Minute, RxFrame, RxCheck, mqttVars, replayVars
<1>2. Busy' <=> Busy
  BY <1>1 DEF Busy, LongCount, LongPositions
<1>3. CASE ~Busy
  BY <1>1, <1>2, <1>3 DEF CoverInv, ReadInv, Busy
<1>4. CASE Busy
  <2>1. cmpr' = cmpr
    BY <1>4 DEF NameStays, RxFrame, RxCheck
  <2>2. \A k \in Log, d \in Days : k = Replayed /\ d = cmpr[k] => file'[k][d] = file[k][d]
    BY <1>4 DEF LogStays, Minute
  <2>3. ReadInv'
    <3>1. slot \in Log /\ replay.day \in Days
      BY DEF IInv, TypeOK
    <3>2. step = "read" => file'[slot][replay.day] = file[slot][replay.day]
      BY <2>2, <3>1 DEF CoverInv, ReadInv, Replayed
    <3>3. QED
      BY <1>1, <2>1, <3>2 DEF CoverInv, ReadInv
  <2>4. step # "read" /\ Covered => Covered'
    BY <1>1, <2>1, <2>2 DEF Covered, Sent, Replayed
  <2>5. QED
    BY <1>1, <1>2, <2>3, <2>4 DEF CoverInv
<1>5. QED
  BY <1>3, <1>4

LEMMA CoverStep ==
  ASSUME IInv, CoverInv, [Next]_vars, [CarefulReplay]_vars
  PROVE  CoverInv'
<1>1. CASE UNCHANGED vars
  BY <1>1, CoverFrame DEF vars, ramVars, diskVars
<1> SUFFICES ASSUME Next, CarefulReplay PROVE CoverInv'
  BY <1>1
<1> USE DEF replayVars, diskVars
<1>2. CASE StartAgain \/ Connect \/ LeaveLoop \/ NoServer
  BY <1>2, CoverFrame DEF StartAgain, Connect, LeaveLoop, NoServer
<1>3. CASE EnterLoop \/ RetryServer
  BY <1>3, CoverFrame DEF EnterLoop, RetryServer
<1>4. CASE SkipReplay
  BY <1>4, CoverFrame DEF SkipReplay, NextSlot
<1>5. CASE ReplayNothing \/ ReplayOpen \/ ReplayLine \/ ReplayDone
  BY <1>5, CoverNothing, CoverOpen, CoverLine, CoverDone DEF CarefulReplay
<1>6. CASE DrainPacket \/ Compare \/ DrainNothing
  BY <1>6, CoverDrain, CoverCompare, CoverNoPacket DEF CarefulReplay
<1>7. CASE Minute \/ RxFrame \/ RxCheck
  BY <1>7, CoverOthers DEF CarefulReplay
<1>8. CASE \E s \in Server : Disconnect(s)
  BY <1>8, CoverFrame DEF Disconnect
<1>9. CASE Midnight
  BY <1>9, CoverFrame DEF Midnight, ramVars
<1>10. CASE PowerCycle
  <2>1. step' = "test" /\ recvr_Sd_Data' = <<>>
    BY <1>10 DEF PowerCycle
  <2>2. ~Busy'
    BY <2>1, LongEmpty DEF Busy, LongCount, LongPositions
  <2>3. QED
    BY <2>1, <2>2 DEF CoverInv, ReadInv
<1>11. QED
  BY <1>2, <1>3, <1>4, <1>5, <1>6, <1>7, <1>8, <1>9, <1>10 DEF Next, MqttThread

\* A log that is deleted was published line by line.
LEMMA DeletedCovered ==
  ASSUME IInv, CoverInv, [Next]_vars,
         NEW k \in Log, NEW d \in Days, file[k][d] # <<>>, file'[k][d] = <<>>,
         NEW s \in Targets(k), NEW i \in LongPositions(file[k][d])
  PROVE  <<s, file[k][d][i]>> \in published
<1>1. LogRemoved
  BY DEF LogRemoved
<1>2. Compare
  BY <1>1, OnlyCompareRemoves
<1>3. LongCount(recvr_Sd_Data) = 0 /\ dropped = 0
  BY <1>1, <1>2, CompareStep DEF Compare
<1>4. k = NOntwrk_data_flag /\ d = cmpr[k]
  <2>1. file' # file /\ file \in [Log -> [Days -> Seq(Line)]]
    BY DEF IInv, TypeOK
  <2>2. RemoveLog(NOntwrk_data_flag)
    BY <1>2, <2>1 DEF Compare
  <2>3. file' = [file EXCEPT ![NOntwrk_data_flag][cmpr[NOntwrk_data_flag]] = <<>>]
    BY <2>1, <2>2 DEF RemoveLog
  <2>4. QED
    BY <2>1, <2>3
<1>5. Covered
  BY <1>2, <1>3 DEF CoverInv, Busy, Compare
<1>6. In(recvr_Sd_Data, file[k][d][i]) \/ Sent(k, file[k][d][i])
  BY <1>4, <1>5 DEF Covered
<1>7. ~In(recvr_Sd_Data, file[k][d][i])
  <2>1. Long(file[k][d][i]) /\ recvr_Sd_Data \in Seq(Line)
    BY DEF LongPositions, IInv, TypeOK
  <2>2. QED
    BY <1>3, <2>1, NoneIn
<1>8. QED
  BY <1>6, <1>7 DEF Sent

\* Nothing else makes the MQTT thread delete lines it has not published: not the
\* loss of servers in any loop, overlapping flags, an overflow of the queue, a
\* date that changes, failing deletions or power cuts at any moment.
THEOREM DeletedIfPublished == Spec /\ [][CarefulReplay]_vars => DeletedAfterPublish
<1>1. Init => CoverInv
  BY LongEmpty DEF Init, CoverInv, ReadInv, Busy
<1>2. IInv /\ CoverInv /\ [Next]_vars =>
        [\A k \in Log, d \in Days :
           file[k][d] # <<>> /\ file'[k][d] = <<>> =>
             \A s \in Targets(k), i \in LongPositions(file[k][d]) :
               <<s, file[k][d][i]>> \in published]_vars
  BY DeletedCovered
<1>3. QED
  BY InitIInv, IInvStep, CoverStep, <1>1, <1>2, PTL DEF Spec, DeletedAfterPublish
=============================================================================
