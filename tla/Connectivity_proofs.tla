------------------------ MODULE Connectivity_proofs ------------------------
(***************************************************************************)
(* Proofs about Connectivity.                                              *)
(***************************************************************************)
EXTENDS Connectivity, TLAPS

\* The flags stay Boolean and the thread stays in one of its parts.
THEOREM TypeCorrect == Spec => []TypeOK
<1>1. Init => TypeOK
  BY DEF Init, TypeOK
<1>2. TypeOK /\ [Next]_vars => TypeOK'
  BY DEF TypeOK, Next, vars, StartAgain, Proceed, LeaveLoop, NextLoop, Refresh,
         NoServer, PowerCycle, ConnectServer, Disconnect, PublishLoop, Server
<1> QED
  BY <1>1, <1>2, PTL DEF Spec

\* The invariant of the loops is inductive: once the test of a loop has
\* failed, no flag it looked at can rise before the thread connects again.
LEMMA SkippedInvStep == TypeOK /\ SkippedInv /\ [Next]_vars => SkippedInv'
<1> SUFFICES ASSUME TypeOK, SkippedInv, [Next]_vars
             PROVE  SkippedInv'
  OBVIOUS
<1> USE DEF TypeOK, SkippedInv, NoServerSkipped, Server, PublishLoop
<1>1. CASE LeaveLoop
  BY <1>1 DEF LeaveLoop, NextLoop, LoopCondition
<1>2. ASSUME NEW s \in Server, ConnectServer(s)
      PROVE  SkippedInv'
  BY <1>2 DEF ConnectServer
<1>3. ASSUME NEW s \in Server, Disconnect(s)
      PROVE  SkippedInv'
  BY <1>3 DEF Disconnect
<1>4. CASE StartAgain \/ Proceed \/ Refresh \/ NoServer \/ PowerCycle
  BY <1>4 DEF StartAgain, Proceed, Refresh, NoServer, PowerCycle
<1>5. CASE UNCHANGED vars
  BY <1>5 DEF vars
<1> QED
  BY <1>1, <1>2, <1>3, <1>4, <1>5 DEF Next

\* No connected server is stepped over on the way to the modem refresh.
THEOREM NeverSkipped == Spec => []NoServerSkipped
<1>1. Init => SkippedInv
  BY DEF Init, SkippedInv, NoServerSkipped
<1>2. SkippedInv => NoServerSkipped
  BY DEF SkippedInv
<1> QED
  BY <1>1, <1>2, SkippedInvStep, TypeCorrect, PTL DEF Spec
=============================================================================
