------------------------ MODULE RpcCommands_proofs ------------------------
(***************************************************************************)
(* What RpcCommands keeps for any parameters, messages and bounds.         *)
(***************************************************************************)
EXTENDS RpcCommands, SequenceTheorems, TLAPS

LEMMA OrderType == Order \in Seq(Command) /\ Len(Order) \in Nat \ {0}
<1>1. Simple \subseteq Command /\ Param \subseteq Command
  BY DEF Command
<1>2. <<"PUMP_ON", "PUMP_OFF", "GET_cfg", "GET_live", "OTA">> \in Seq(Command)
  BY <1>1 DEF Simple
<1>3. ParamOrder \in Seq(Command)
  BY <1>1, OrderAssumption
<1>4. QED
  BY <1>2, <1>3 DEF Order

LEMMA CurrentType ==
  ASSUME TypeOK
  PROVE  /\ pos # 0 => Current \in Command
         /\ NextPos \in 0..Len(Order)
BY OrderType DEF TypeOK, Current, NextPos

LEMMA FollowUpType == \A c : FollowUp(c) \subseteq Command
BY DEF FollowUp, Command, Simple

-----------------------------------------------------------------------------
(* Downloads: the steps of Download that the two tasks take.               *)

LoadStep == [Load!Next]_loadVars

LEMMA TestedAt ==
  /\ Load!Tested[1] = {"TB", "SDM"} /\ Load!Tested[2] = {"TB"} /\ Load!Tested[3] = {"SDM"}
  /\ Len(Load!Tested) = 3
BY DEF Load!Tested

LEMMA LinesType == SdDataCapacity \in Nat /\ (numberOFLInes \in Int => Load!Lines \in Nat)
<1>1. SdDataCapacity \in Nat /\ Fewest \in Nat /\ Default \in Nat
  BY LinesAssumption
<1>2. QED
  BY <1>1 DEF Load!Lines

\* A download keeps its types.
LEMMA LoadType == Load!TypeOK /\ LoadStep => Load!TypeOK'
<1> SUFFICES ASSUME Load!TypeOK, LoadStep PROVE Load!TypeOK'
  OBVIOUS
<1> USE TestedAt DEF Load!TypeOK, Load!clientVars, Load!publishVars, Load!Server
<1>1. CASE \E n \in Int : Load!SetSize(n)
  BY <1>1 DEF Load!SetSize
<1>2. CASE Load!Begin
  BY <1>2, LinesType DEF Load!Begin
<1>3. CASE Load!Offer
  <2>1. sdData' \in Seq(BOOLEAN) /\ Len(sdData') <= SdDataCapacity
    <3>1. CASE sdData' = sdData
      BY <3>1
    <3>2. ASSUME NEW long \in BOOLEAN, sdData' = Append(sdData, long), Len(sdData) < SdDataCapacity
          PROVE  sdData' \in Seq(BOOLEAN) /\ Len(sdData') <= SdDataCapacity
      BY <3>2, LinesType
    <3>3. QED
      BY <1>3, <3>1, <3>2 DEF Load!Offer
  <2>2. left' \in Nat
    BY <1>3 DEF Load!Offer
  <2>3. UNCHANGED <<numberOFLInes, conn, mq, test, to, began, lines>>
    BY <1>3 DEF Load!Offer
  <2>4. QED
    BY <2>1, <2>2, <2>3
<1>4. CASE Load!EnterLoop
  BY <1>4 DEF Load!EnterLoop
<1>5. CASE Load!Take
  <2>1. sdData' \in Seq(BOOLEAN) /\ Len(sdData') <= SdDataCapacity
    <3>1. CASE sdData = <<>>
      BY <1>5, <3>1 DEF Load!Take
    <3>2. CASE sdData # <<>>
      <4>1. sdData' = Tail(sdData)
        BY <1>5, <3>2 DEF Load!Take
      <4>2. Tail(sdData) \in Seq(BOOLEAN) /\ Len(Tail(sdData)) = Len(sdData) - 1
        BY <3>2, HeadTailProperties
      <4>3. Len(sdData) \in Nat
        OBVIOUS
      <4>4. QED
        BY <4>1, <4>2, <4>3, LinesType
    <3>3. QED
      BY <3>1, <3>2
  <2>2. mq' \in {"test", "commands"} /\ test' = 1 /\ began' \subseteq Load!Server
        /\ lines' \in [Load!Server -> Nat]
    BY <1>5 DEF Load!Take, Load!Nobody
  <2>3. UNCHANGED <<numberOFLInes, left, conn, to>>
    BY <1>5 DEF Load!Take
  <2>4. QED
    BY <2>1, <2>2, <2>3
<1>6. CASE Load!Test
  <2>1. mq' \in {"test", "publish", "commands"} /\ test' \in 1..3
    BY <1>6 DEF Load!Test, Load!NextTest
  <2>2. to' \subseteq Load!Server
    BY <1>6 DEF Load!Test
  <2>3. UNCHANGED <<numberOFLInes, left, sdData, conn, began, lines>>
    BY <1>6 DEF Load!Test
  <2>4. QED
    BY <2>1, <2>2, <2>3
<1>7. ASSUME NEW s \in Load!Server, Load!Publish(s) PROVE Load!TypeOK'
  <2>1. lines' \in [Load!Server -> Nat]
    BY <1>7 DEF Load!Publish
  <2>2. mq' \in {"await", "publish", "test", "commands"} /\ test' \in 1..3
    BY <1>7 DEF Load!Publish, Load!NextTest
  <2>3. UNCHANGED <<numberOFLInes, left, sdData, conn, began>> /\ to' = to \ {s}
    BY <1>7 DEF Load!Publish
  <2>4. QED
    BY <2>1, <2>2, <2>3
<1>8. CASE Load!Answer
  BY <1>8 DEF Load!Answer, Load!NextTest
<1>9. CASE Load!Leave
  BY <1>9 DEF Load!Leave
<1>10. ASSUME NEW s \in Load!Server, Load!Lose(s) \/ Load!Gain(s) PROVE Load!TypeOK'
  BY <1>10 DEF Load!Lose, Load!Gain
<1>11. CASE Load!Restart
  <2>1. sdData' \in Seq(BOOLEAN) /\ Len(sdData') <= SdDataCapacity
    BY <1>11, LinesType DEF Load!Restart
  <2>2. lines' \in [Load!Server -> Nat]
    BY <1>11 DEF Load!Restart, Load!Nobody
  <2>3. QED
    BY <1>11, <2>1, <2>2 DEF Load!Restart
<1>12. CASE UNCHANGED loadVars
  BY <1>12 DEF loadVars
<1>13. QED
  BY <1>1, <1>2, <1>3, <1>4, <1>5, <1>6, <1>7, <1>8, <1>9, <1>10, <1>11, <1>12
     DEF LoadStep, Load!Next

\* A step of the two tasks is a step of a download.
LEMMA NextLoad == TypeOK /\ [Next]_vars => LoadStep
<1> SUFFICES ASSUME TypeOK, [Next]_vars PROVE LoadStep
  OBVIOUS
<1>1. CASE \E m \in Messages : Receive(m)
  BY <1>1 DEF Receive, LoadStep, Load!Next
<1>2. CASE Extract
  <2>1. Head(todo) \in Item
    BY <1>2 DEF Extract, TypeOK
  <2>2. Head(todo).value \in Int
    BY <2>1 DEF Item
  <2> DEFINE v == Head(todo).value
  <2>3. Load!Begin \/ Load!SetSize(v) \/ UNCHANGED loadVars
    BY <1>2 DEF Extract
  <2> HIDE DEF v
  <2>4. QED
    BY <2>2, <2>3 DEF LoadStep, Load!Next, v
<1>3. CASE Offer
  BY <1>3 DEF Offer, LoadStep, Load!Next
<1>4. CASE Callback
  BY <1>4 DEF Callback, LoadStep, Load!Next
<1>5. CASE PublishLine
  BY <1>5 DEF PublishLine, LoadStep, Load!Next
<1>6. CASE Walk
  BY <1>6 DEF Walk, LoadStep, Load!Next
<1>7. CASE Test \/ Clear \/ Send \/ Point
  BY <1>7 DEF Test, Clear, Send, Point, LoadStep, Load!Next
<1>8. CASE Reconnect
  BY <1>8 DEF Reconnect, LoadStep, Load!Next
<1>9. CASE PowerCycle
  BY <1>9 DEF PowerCycle, LoadStep, Load!Next
<1>10. CASE UNCHANGED vars
  BY <1>10 DEF vars, LoadStep, Load!Next
<1>11. QED
  BY <1>1, <1>2, <1>3, <1>4, <1>5, <1>6, <1>7, <1>8, <1>9, <1>10 DEF Next, Client, Thread
-----------------------------------------------------------------------------
LEMMA TypeInit == Init => TypeOK
<1> SUFFICES ASSUME Init PROVE TypeOK
  OBVIOUS
<1>1. /\ flag \in [Command -> BOOLEAN] /\ write_cmd \in BOOLEAN
      /\ raised \in [Command -> Nat] /\ sent \in [Command -> Nat]
  BY DEF Init
<1>2. got \in [Param -> Int] /\ set \in [Param -> Int] /\ owed \subseteq Command
  BY DEF Init
<1>3. /\ todo \in Seq(Item) /\ vv \in Int
      /\ phase \in {"test", "clear", "send"}
  BY DEF Init
<1>4. pos \in 0..Len(Order) /\ rpcs \in 0..MaxRpcs
  BY OrderType, BoundAssumption DEF Init
<1>5. Load!TypeOK
  <2>1. sdData \in Seq(BOOLEAN) /\ Len(sdData) <= SdDataCapacity
    BY LinesType DEF Init, Load!Init
  <2>2. lines \in [Load!Server -> Nat]
    BY DEF Init, Load!Init, Load!Nobody
  <2>3. QED
    BY <2>1, <2>2, TestedAt DEF Init, Load!Init, Load!TypeOK
<1>6. asleep \in BOOLEAN /\ pointer \in [Param -> {"null", "old", "vv"}]
  BY DEF Init
<1>7. QED
  BY <1>1, <1>2, <1>3, <1>4, <1>5, <1>6 DEF TypeOK

LEMMA TypeStep == TypeOK /\ [Next]_vars => TypeOK'
<1> SUFFICES ASSUME TypeOK, [Next]_vars PROVE TypeOK'
  OBVIOUS
<1>0. Load!TypeOK'
  BY LoadType, NextLoad DEF TypeOK
<1> USE <1>0 DEF TypeOK
<1>1. ASSUME NEW m \in Messages, Receive(m) PROVE TypeOK'
  <2>1. m \in Seq(Item) /\ rpcs' \in 0..MaxRpcs
    BY <1>1, MessageAssumption, BoundAssumption DEF Receive
  <2>2. pointer' \in [Param -> {"null", "old", "vv"}]
    BY <1>1 DEF Receive
  <2>3. QED
    BY <1>1, <2>1, <2>2 DEF Receive, walkVars, boardVars
<1>2. CASE Extract
  <2> DEFINE item == Head(todo)
  <2>1. item \in Item /\ item.value \in Int /\ Tail(todo) \in Seq(Item)
    <3>1. todo \in Seq(Item) /\ todo # <<>>
      BY <1>2 DEF Extract
    <3>2. item \in Item /\ Tail(todo) \in Seq(Item)
      BY <3>1
    <3>3. QED
      BY <3>2 DEF Item
  <2>3. set' = [p \in Param |-> IF p = Raises(item) THEN item.value ELSE set[p]]
    BY <1>2 DEF Extract
  <2>4. set' \in [Param -> Int]
    BY <2>1, <2>3
  <2>5. raised' = [d \in Command |-> IF d = Raises(item) THEN raised[d] + 1 ELSE raised[d]]
    BY <1>2 DEF Extract
  <2>6. raised' \in [Command -> Nat]
    BY <2>5
  <2>7. write_cmd' \in BOOLEAN
    BY <1>2 DEF Extract
  <2>8. flag' \in [Command -> BOOLEAN] /\ owed' \subseteq Command
    BY <1>2 DEF Extract
  <2>9. vv' \in Int /\ todo' \in Seq(Item) /\ asleep' \in BOOLEAN
    BY <1>2, <2>1 DEF Extract
  <2> HIDE DEF item
  <2>10. UNCHANGED <<pointer, walkVars, boardVars, rpcs>>
    BY <1>2 DEF Extract
  <2>11. QED
    BY <2>4, <2>6, <2>7, <2>8, <2>9, <2>10 DEF walkVars, boardVars
<1>3. CASE Walk
  BY <1>3, OrderType DEF Walk, boardVars, pointVars
<1>4. CASE Test
  BY <1>4, CurrentType DEF Test, AfterPhase, boardVars, pointVars
<1>5. CASE Clear
  BY <1>5, CurrentType DEF Clear, Cleared, Advance, AfterPhase, boardVars, pointVars
<1>6. CASE Send
  <2>1. Current \in Command /\ NextPos \in 0..Len(Order)
    BY <1>6, CurrentType DEF Send
  <2>2. got' \in [Param -> Int]
    BY <1>6 DEF Send, Garbage, Read
  <2>3. sent' \in [Command -> Nat]
    BY <1>6, <2>1 DEF Send
  <2>4. raised' \in [Command -> Nat]
    BY <1>6 DEF Send
  <2>5. flag' \in [Command -> BOOLEAN] /\ owed' \subseteq Command
    BY <1>6 DEF Send
  <2>7. phase' \in {"test", "clear", "send"} /\ pos' \in 0..Len(Order)
    BY <1>6, <2>1 DEF Send, Advance, AfterPhase
  <2>8. UNCHANGED <<write_cmd, todo, vv, pointVars, set, rpcs>>
    BY <1>6 DEF Send
  <2>9. QED
    BY <2>2, <2>3, <2>4, <2>5, <2>7, <2>8 DEF pointVars
<1>7. CASE PowerCycle
  <2>1. flag' \in [Command -> BOOLEAN] /\ todo' \in Seq(Item) /\ owed' \subseteq Command
    BY <1>7 DEF PowerCycle
  <2>2. pos' \in 0..Len(Order) /\ set' \in [Param -> Int]
    BY <1>7, OrderType DEF PowerCycle
  <2>3. vv' \in Int /\ phase' \in {"test", "clear", "send"}
    BY <1>7 DEF PowerCycle
  <2>4. UNCHANGED <<boardVars, raised, rpcs>>
    BY <1>7 DEF PowerCycle
  <2>5. /\ write_cmd' \in BOOLEAN /\ asleep' \in BOOLEAN
        /\ pointer' \in [Param -> {"null", "old", "vv"}]
    BY <1>7 DEF PowerCycle
  <2>6. QED
    BY <2>1, <2>2, <2>3, <2>4, <2>5 DEF boardVars
<1>8. CASE UNCHANGED commandVars
  BY <1>8 DEF commandVars, pointVars, walkVars, boardVars
<1>9. CASE Point
  <2>1. Tail(todo) \in Seq(Item)
    BY <1>9 DEF Point
  <2>2. pointer' \in [Param -> {"null", "old", "vv"}]
    BY <1>9 DEF Point
  <2>3. QED
    BY <1>9, <2>1, <2>2 DEF Point, walkVars, boardVars
<1>10. QED
  BY <1>1, <1>2, <1>3, <1>4, <1>5, <1>6, <1>7, <1>8, <1>9
     DEF Next, Client, Thread, Offer, Callback, PublishLine, Reconnect, vars

\* Type correctness of the command path.
THEOREM TypeCorrect == Spec => []TypeOK
BY TypeInit, TypeStep, PTL DEF Spec

\* The client task and the MQTT thread, which also walk over keys and flags, hand
\* over the lines of a log as Download says: what holds of it holds here.
THEOREM UsesDownload == Spec => Load!Spec
<1>1. Init => Load!Init
  BY DEF Init
<1>2. TypeOK /\ [Next]_vars => [Load!Next]_Load!vars
  BY NextLoad DEF LoadStep, loadVars, Load!vars, Load!clientVars, Load!publishVars
<1>3. QED
  BY TypeCorrect, <1>1, <1>2, PTL DEF Spec, Load!Spec
-----------------------------------------------------------------------------
\* A command that is owed stays pending until it is sent: the flag goes down
\* before the command is sent, so a new wish in between raises it again.
LEMMA PendingStep ==
  ASSUME TypeOK, OwedIsPending, [Next]_vars
  PROVE  OwedIsPending'
<1> USE DEF OwedIsPending, OnItsWay
<1>1. CASE \E m \in Messages : Receive(m)
  BY <1>1 DEF Receive, walkVars, Current
<1>2. CASE Extract
  BY <1>2 DEF Extract, walkVars, Current, TypeOK
<1>3. CASE Walk
  BY <1>3 DEF Walk
<1>4. CASE Test
  BY <1>4 DEF Test
<1>5. CASE Clear
  <2>1. /\ phase' = "send" /\ pos' = pos /\ pos # 0 /\ owed' = owed
        /\ flag' = [flag EXCEPT ![Current] = FALSE] /\ Current' = Current
    BY <1>5 DEF Clear, Advance, AfterPhase, Cleared, Current
  <2>2. phase # "send"
    BY <1>5 DEF Clear
  <2>3. QED
    BY <2>1, <2>2 DEF TypeOK
<1>6. CASE Send
  BY <1>6 DEF Send, TypeOK
<1>7. CASE PowerCycle
  BY <1>7 DEF PowerCycle
<1>8. CASE UNCHANGED commandVars \/ Point
  BY <1>8 DEF commandVars, Point, walkVars, Current
<1>9. QED
  BY <1>1, <1>2, <1>3, <1>4, <1>5, <1>6, <1>7, <1>8
     DEF Next, Client, Thread, Offer, Callback, PublishLine, Reconnect, vars

\* No interleaving of the two walks loses a command.
THEOREM NoneLost == Spec => []OwedIsPending
<1>1. Init => OwedIsPending
  BY DEF Init, OwedIsPending
<1>2. QED
  BY TypeCorrect, PendingStep, <1>1, PTL DEF Spec
-----------------------------------------------------------------------------
\* Every raising of a flag pays for one sending: a raised flag and a command on
\* its way are still to be spent.
Paid(c)  == sent[c] + One(flag[c]) + One(OnItsWay(c)) <= raised[c]
PaidInv  == /\ \A c \in Command : Paid(c)
            /\ pos # 0 /\ phase = "clear" => flag[Current]
            /\ pos = 0 => phase = "test"

LEMMA Spend ==
  ASSUME NEW s \in Nat, NEW s1 \in Nat, NEW r \in Nat, NEW r1 \in Nat,
         NEW f \in Nat, NEW f1 \in Nat, NEW o \in Nat,
         s1 + 0 <= s + o, r + f1 <= r1 + f, s + f + o <= r
  PROVE  s1 + f1 + 0 <= r1
OBVIOUS

LEMMA PaidStep ==
  ASSUME TypeOK, PaidInv, [Next]_vars
  PROVE  PaidInv'
<1>0. /\ sent \in [Command -> Nat] /\ raised \in [Command -> Nat]
      /\ flag \in [Command -> BOOLEAN]
  BY DEF TypeOK
<1>1. ASSUME sent' = sent, raised' = raised, flag' = flag, pos' = pos, phase' = phase
      PROVE  PaidInv'
  BY <1>1 DEF PaidInv, Paid, OnItsWay, Current
<1>2. CASE \E m \in Messages : Receive(m)
  BY <1>1, <1>2 DEF Receive, walkVars, boardVars
<1>3. CASE Extract
  <2> DEFINE a == Raises(Head(todo))
  <2>1. /\ sent' = sent /\ pos' = pos /\ phase' = phase
        /\ flag' = [d \in Command |-> flag[d] \/ d = a]
        /\ raised' = [d \in Command |-> IF d = a THEN raised[d] + 1 ELSE raised[d]]
    BY <1>3 DEF Extract, walkVars, boardVars
  <2> HIDE DEF a
  <2>2. ASSUME NEW c \in Command PROVE Paid(c)'
    <3>1. Paid(c) /\ OnItsWay(c)' = OnItsWay(c) /\ sent'[c] = sent[c]
      BY <2>1 DEF PaidInv, OnItsWay, Current
    <3>2. CASE c = a
      <4>1. raised'[c] = raised[c] + 1 /\ flag'[c]
        BY <2>1, <3>2
      <4>2. QED
        BY <1>0, <3>1, <4>1 DEF Paid, One
    <3>3. CASE c # a
      <4>1. raised'[c] = raised[c] /\ flag'[c] = flag[c]
        BY <1>0, <2>1, <3>3
      <4>2. QED
        BY <3>1, <4>1 DEF Paid
    <3>4. QED
      BY <3>2, <3>3
  <2>3. pos' # 0 /\ phase' = "clear" => flag'[Current']
    BY <2>1, CurrentType DEF PaidInv, Current
  <2>4. pos' = 0 => phase' = "test"
    BY <2>1 DEF PaidInv
  <2>5. QED
    BY <2>2, <2>3, <2>4 DEF PaidInv
<1>4. ASSUME sent' = sent, raised' = raised, flag' = flag, phase # "send",
             phase' # "send", pos' # 0 /\ phase' = "clear" => flag[Current]',
             pos' = 0 => phase' = "test"
      PROVE  PaidInv'
  BY <1>4 DEF PaidInv, Paid, OnItsWay
<1>5. CASE Walk
  <2>1. /\ sent' = sent /\ raised' = raised /\ flag' = flag /\ phase' = phase
        /\ phase = "test" /\ pos' = 1
    BY <1>5 DEF Walk, boardVars, PaidInv
  <2>2. QED
    BY <1>4, <2>1
<1>6. CASE Test
  <2>1. /\ sent' = sent /\ raised' = raised /\ flag' = flag /\ phase = "test"
        /\ phase' \in {"test", "clear"}
        /\ phase' = "clear" => flag[Current] /\ Current' = Current
        /\ phase' = "clear" => pos' # 0
    BY <1>6 DEF Test, boardVars, AfterPhase, Current
  <2>2. QED
    BY <1>4, <2>1
<1>7. CASE Clear
  <2>1. /\ sent' = sent /\ raised' = raised /\ flag' = [flag EXCEPT ![Current] = FALSE]
        /\ phase = "clear" /\ phase' = "send" /\ pos' = pos /\ Current' = Current
        /\ pos # 0 /\ flag[Current] /\ Current \in Command
    BY <1>7, CurrentType DEF Clear, boardVars, AfterPhase, Advance, Cleared, Current, PaidInv
  <2>2. ASSUME NEW c \in Command PROVE Paid(c)'
    <3>1. Paid(c) /\ ~OnItsWay(c) /\ sent'[c] = sent[c] /\ raised'[c] = raised[c]
      BY <2>1 DEF PaidInv, OnItsWay
    <3>2. CASE c = Current
      <4>1. ~flag'[c] /\ flag[c]
        BY <1>0, <2>1, <3>2
      <4>2. QED
        BY <1>0, <3>1, <4>1 DEF Paid, One
    <3>3. CASE c # Current
      <4>1. flag'[c] = flag[c] /\ ~OnItsWay(c)'
        BY <1>0, <2>1, <3>3 DEF OnItsWay
      <4>2. QED
        BY <3>1, <4>1 DEF Paid, One
    <3>4. QED
      BY <3>2, <3>3
  <2>3. QED
    BY <2>1, <2>2 DEF PaidInv
<1>8. CASE Send
  <2> DEFINE F == FollowUp(Current)
  <2>1. /\ sent' = [sent EXCEPT ![Current] = @ + 1]
        /\ flag' = [c \in Command |-> flag[c] \/ c \in F]
        /\ raised' = [c \in Command |-> IF c \in F THEN raised[c] + 1 ELSE raised[c]]
        /\ phase = "send" /\ phase' = "test" /\ pos # 0 /\ Current \in Command
    BY <1>8, CurrentType DEF Send, Advance, AfterPhase
  <2> HIDE DEF F
  <2>2. ASSUME NEW c \in Command PROVE Paid(c)'
    <3>1. Paid(c) /\ ~OnItsWay(c)'
      BY <2>1 DEF PaidInv, OnItsWay
    <3>2. sent'[c] + One(FALSE) <= sent[c] + One(OnItsWay(c))
      BY <1>0, <2>1 DEF OnItsWay, One
    <3>3. raised[c] + One(flag'[c]) <= raised'[c] + One(flag[c])
      BY <1>0, <2>1 DEF One
    <3>4. /\ sent'[c] \in Nat /\ sent[c] \in Nat /\ raised'[c] \in Nat /\ raised[c] \in Nat
      BY <1>0, <2>1
    <3>5. One(OnItsWay(c)') = One(FALSE)
      BY <3>1 DEF One
    <3>6. One(flag[c]) \in Nat /\ One(flag'[c]) \in Nat /\ One(OnItsWay(c)) \in Nat
          /\ One(FALSE) = 0
      BY DEF One
    <3>7. sent[c] + One(flag[c]) + One(OnItsWay(c)) <= raised[c]
      BY <3>1 DEF Paid
    <3>8. sent'[c] + One(flag'[c]) + One(OnItsWay(c)') <= raised'[c]
      BY <3>2, <3>3, <3>4, <3>5, <3>6, <3>7, Spend
    <3>9. QED
      BY <3>8 DEF Paid, One
  <2>3. QED
    BY <2>1, <2>2 DEF PaidInv
<1>9. CASE PowerCycle
  <2>1. /\ sent' = sent /\ raised' = raised /\ pos' = 0 /\ phase' = "test"
        /\ flag' = [c \in Command |-> FALSE]
    BY <1>9 DEF PowerCycle, boardVars
  <2>2. ASSUME NEW c \in Command PROVE Paid(c)'
    <3>1. Paid(c) /\ ~OnItsWay(c)' /\ ~flag'[c]
      BY <2>1 DEF PaidInv, OnItsWay
    <3>2. QED
      BY <1>0, <2>1, <3>1 DEF Paid, One
  <2>3. QED
    BY <2>1, <2>2 DEF PaidInv
<1>10. CASE UNCHANGED commandVars \/ Point
  BY <1>1, <1>10 DEF commandVars, Point, walkVars, boardVars
<1>11. QED
  BY <1>2, <1>3, <1>5, <1>6, <1>7, <1>8, <1>9, <1>10
     DEF Next, Client, Thread, Offer, Callback, PublishLine, Reconnect, vars

\* No command reaches the board more often than its flag was raised.
THEOREM NoneRepeated == Spec => []SentAsRaised
<1>1. Init => PaidInv
  BY DEF Init, PaidInv, Paid, One, OnItsWay
<1>2. TypeOK /\ PaidInv => SentAsRaised
  <2> SUFFICES ASSUME TypeOK, PaidInv, NEW c \in Command PROVE sent[c] <= raised[c]
    BY DEF SentAsRaised
  <2>1. sent[c] \in Nat /\ raised[c] \in Nat
    BY DEF TypeOK
  <2>2. sent[c] + One(flag[c]) + One(OnItsWay(c)) <= raised[c]
    BY DEF PaidInv, Paid
  <2>3. One(flag[c]) \in Nat /\ One(OnItsWay(c)) \in Nat
    BY DEF One
  <2>4. QED
    BY <2>1, <2>2, <2>3
<1>3. QED
  BY TypeCorrect, PaidStep, <1>1, <1>2, PTL DEF Spec
-----------------------------------------------------------------------------
(* A line on its way: what publish_lost_data has sent, and what the tests    *)
(* made so far say about the flags, which only fall meanwhile.               *)

Times(tb, sdm) == lines["TB"] = tb /\ lines["SDM"] = sdm
Twice(tb, sdm) == Times(tb, sdm) /\ began = Load!Server

\* A test is about to be made.
TestInv ==
  mq = "test" =>
    /\ test = 1 => Times(0, 0)
    /\ test = 2 => \/ Times(0, 0) /\ conn # Load!Server
                   \/ Twice(1, 1)
    /\ test = 3 => \/ Times(0, 0) /\ "TB" \notin conn
                   \/ Times(1, 0) /\ "SDM" \notin conn
                   \/ Twice(1, 1)
                   \/ Twice(2, 1) /\ "SDM" \notin conn

\* A test succeeded: some of its servers are still to be served.
SendInv ==
  mq \in {"publish", "await"} =>
    /\ mq = "publish" => to # {}
    /\ test = 1 => /\ began = Load!Server
                   /\ \/ to = Load!Server /\ Times(0, 0)
                      \/ to = {"SDM"} /\ Times(1, 0)
                      \/ to = {} /\ Times(1, 1)
    /\ test = 2 => /\ "SDM" \notin conn
                   /\ \/ to = {"TB"} /\ (Times(0, 0) \/ Twice(1, 1))
                      \/ to = {} /\ (Times(1, 0) \/ Twice(2, 1))
    /\ test = 3 => /\ "TB" \notin conn
                   /\ \/ to = {"SDM"} /\ (Times(0, 0) \/ Twice(1, 1))
                      \/ to = {} /\ (Times(0, 1) \/ Twice(1, 2))

\* The call is over, or there was none.
SentInv ==
  mq = "commands" =>
    \/ began = {}
    \/ /\ conn \subseteq began
       /\ \/ Times(0, 0) /\ conn = {}
          \/ Times(1, 0) /\ "SDM" \notin conn
          \/ Times(0, 1) /\ "TB" \notin conn
          \/ Times(1, 1)
          \/ Twice(2, 1) /\ "SDM" \notin conn
          \/ Twice(1, 2) /\ "TB" \notin conn

CallInv ==
  /\ mq \in {"test", "publish", "await"} => conn \subseteq began
  /\ TestInv /\ SendInv /\ SentInv

\* Between the steps of a call flags only fall.
LEMMA CallFrame ==
  ASSUME CallInv, conn \subseteq Load!Server, conn' \subseteq conn,
         UNCHANGED <<mq, test, to, began, lines>>
  PROVE  CallInv'
<1>1. /\ Times(0, 0)' <=> Times(0, 0)
      /\ Times(1, 0)' <=> Times(1, 0)
      /\ Times(0, 1)' <=> Times(0, 1)
      /\ Times(1, 1)' <=> Times(1, 1)
      /\ Twice(1, 1)' <=> Twice(1, 1)
      /\ Twice(2, 1)' <=> Twice(2, 1)
      /\ Twice(1, 2)' <=> Twice(1, 2)
  BY DEF Times, Twice
<1>2. TestInv'
  BY <1>1 DEF CallInv, TestInv, Load!Server
<1>3. SendInv'
  BY <1>1 DEF CallInv, SendInv
<1>4. SentInv'
  BY <1>1 DEF CallInv, SentInv
<1>5. QED
  BY <1>2, <1>3, <1>4 DEF CallInv

LEMMA CallStep == Load!TypeOK /\ CallInv /\ LoadStep => CallInv'
<1> SUFFICES ASSUME Load!TypeOK, CallInv, LoadStep PROVE CallInv'
  OBVIOUS
<1> USE DEF Load!Server, Load!clientVars, Load!publishVars
<1>0. conn \subseteq {"TB", "SDM"} /\ test \in 1..3 /\ to \subseteq {"TB", "SDM"}
      /\ lines \in [{"TB", "SDM"} -> Nat]
  BY TestedAt DEF Load!TypeOK
<1>1. CASE (\E n \in Int : Load!SetSize(n)) \/ Load!Begin \/ Load!Offer
  BY <1>0, <1>1, CallFrame DEF Load!SetSize, Load!Begin, Load!Offer
<1>2. CASE Load!EnterLoop
  BY <1>2 DEF Load!EnterLoop, CallInv, TestInv, SendInv, SentInv
<1>3. CASE Load!Take
  <2> DEFINE long == sdData # <<>> /\ Head(sdData)
  <2>1. test' = 1 /\ conn' = conn /\ \/ long /\ mq' = "test" /\ began' = conn
                                     \/ ~long /\ mq' = "commands" /\ began' = {}
    BY <1>3, Zenon DEF Load!Take
  <2> HIDE DEF long
  <2>2. lines'["TB"] = 0 /\ lines'["SDM"] = 0
    BY <1>3 DEF Load!Take, Load!Nobody
  <2>3. QED
    BY <2>1, <2>2 DEF CallInv, TestInv, SendInv, SentInv, Times
<1>4. CASE Load!Test
  <2>1. mq = "test" /\ UNCHANGED <<conn, began, lines>> /\ conn \subseteq began
    BY <1>4 DEF Load!Test, CallInv
  <2>2. CASE conn = Load!Tested[test] /\ mq' = "publish" /\ to' = conn /\ test' = test
    <3>1. CASE test = 1
      <4>1. Times(0, 0) /\ conn = {"TB", "SDM"} /\ began \in SUBSET {"TB", "SDM"}
        BY <2>1, <2>2, <3>1, TestedAt DEF CallInv, TestInv, Load!TypeOK
      <4>2. began = conn
        BY <2>1, <4>1
      <4>3. QED
        BY <2>1, <2>2, <3>1, <4>1, <4>2 DEF CallInv, TestInv, SendInv, SentInv, Times
    <3>2. CASE test = 2
      <4>1. (Times(0, 0) \/ Twice(1, 1)) /\ conn = {"TB"}
        BY <2>1, <2>2, <3>2, TestedAt DEF CallInv, TestInv
      <4>2. QED
        BY <2>1, <2>2, <3>2, <4>1 DEF CallInv, TestInv, SendInv, SentInv, Times, Twice
    <3>3. CASE test = 3
      <4>1. (Times(0, 0) \/ Twice(1, 1)) /\ conn = {"SDM"}
        BY <2>1, <2>2, <3>3, TestedAt DEF CallInv, TestInv
      <4>2. QED
        BY <2>1, <2>2, <3>3, <4>1 DEF CallInv, TestInv, SendInv, SentInv, Times, Twice
    <3>4. QED
      BY <1>0, <3>1, <3>2, <3>3
  <2>3. CASE conn # Load!Tested[test] /\ Load!NextTest /\ to' = to
    <3>1. CASE test = 1
      BY <1>0, <2>1, <2>3, <3>1, TestedAt DEF Load!NextTest, CallInv, TestInv, SendInv, SentInv, Times, Twice
    <3>2. CASE test = 2
      <4>1. mq' = "test" /\ test' = 3 /\ conn # {"TB"}
        BY <2>3, <3>2, TestedAt DEF Load!NextTest
      <4>2. \/ Times(0, 0) /\ conn # {"TB", "SDM"}
            \/ Twice(1, 1)
        BY <2>1, <3>2 DEF CallInv, TestInv
      <4>3. conn # {"TB", "SDM"} => "TB" \notin conn
        BY <1>0, <4>1
      <4>4. QED
        BY <2>1, <4>1, <4>2, <4>3 DEF CallInv, TestInv, SendInv, SentInv, Times, Twice
    <3>3. CASE test = 3
      BY <1>0, <2>1, <2>3, <3>3, TestedAt DEF Load!NextTest, CallInv, TestInv, SendInv, SentInv, Times, Twice
    <3>4. QED
      BY <1>0, <3>1, <3>2, <3>3
  <2>4. QED
    BY <1>4, <2>2, <2>3 DEF Load!Test
<1>5. ASSUME NEW s \in Load!Server, Load!Publish(s) PROVE CallInv'
  <2>1. /\ mq = "publish" /\ UNCHANGED <<conn, began>> /\ conn \subseteq began
        /\ s \in to /\ (s = "SDM" => "TB" \notin to) /\ to' = to \ {s}
        /\ lines' = [lines EXCEPT ![s] = @ + 1]
        /\ \/ mq' = "await" /\ test' = test
           \/ to' = {} /\ Load!NextTest
           \/ to' # {} /\ mq' = mq /\ test' = test
    BY <1>5 DEF Load!Publish, CallInv
  <2>2. /\ s = "TB" => lines'["TB"] = lines["TB"] + 1 /\ lines'["SDM"] = lines["SDM"]
        /\ s = "SDM" => lines'["SDM"] = lines["SDM"] + 1 /\ lines'["TB"] = lines["TB"]
    BY <1>0, <2>1
  <2>3. CASE test = 1
    BY <1>0, <2>1, <2>2, <2>3, TestedAt DEF Load!NextTest, CallInv, TestInv, SendInv, SentInv, Times, Twice
  <2>4. CASE test = 2
    BY <1>0, <2>1, <2>2, <2>4, TestedAt DEF Load!NextTest, CallInv, TestInv, SendInv, SentInv, Times, Twice
  <2>5. CASE test = 3
    BY <1>0, <2>1, <2>2, <2>5, TestedAt DEF Load!NextTest, CallInv, TestInv, SendInv, SentInv, Times, Twice
  <2>6. QED
    BY <1>0, <2>3, <2>4, <2>5
<1>6. CASE Load!Answer
  <2>1. mq = "await" /\ UNCHANGED <<conn, began, lines, to>> /\ conn \subseteq began
        /\ \/ to = {} /\ Load!NextTest
           \/ to # {} /\ mq' = "publish" /\ test' = test
    BY <1>6 DEF Load!Answer, CallInv
  <2>2. CASE test = 1
    BY <1>0, <2>1, <2>2, TestedAt DEF Load!NextTest, CallInv, TestInv, SendInv, SentInv, Times, Twice
  <2>3. CASE test = 2
    BY <1>0, <2>1, <2>3, TestedAt DEF Load!NextTest, CallInv, TestInv, SendInv, SentInv, Times, Twice
  <2>4. CASE test = 3
    BY <1>0, <2>1, <2>4, TestedAt DEF Load!NextTest, CallInv, TestInv, SendInv, SentInv, Times, Twice
  <2>5. QED
    BY <1>0, <2>2, <2>3, <2>4
<1>7. CASE Load!Leave
  BY <1>7 DEF Load!Leave, CallInv, TestInv, SendInv, SentInv
<1>8. ASSUME NEW s \in Load!Server, Load!Lose(s) PROVE CallInv'
  BY <1>0, <1>8, CallFrame DEF Load!Lose
<1>9. ASSUME NEW s \in Load!Server, Load!Gain(s) PROVE CallInv'
  BY <1>9 DEF Load!Gain, CallInv, TestInv, SendInv, SentInv
<1>10. CASE Load!Restart
  BY <1>10 DEF Load!Restart, CallInv, TestInv, SendInv, SentInv
<1>11. CASE UNCHANGED loadVars
  BY <1>0, <1>11, CallFrame DEF loadVars
<1>12. QED
  BY <1>1, <1>2, <1>3, <1>4, <1>5, <1>6, <1>7, <1>8, <1>9, <1>10, <1>11 DEF LoadStep, Load!Next

\* However the flags fall while publish_lost_data tests them, a line is sent to
\* every server that stays up, and twice only when the other one went down.
THEOREM LineIsSent == Spec => []LineSent
<1>1. Init => CallInv
  BY DEF Init, Load!Init, CallInv, TestInv, SendInv, SentInv
<1>2. TypeOK /\ CallInv /\ [Next]_vars => CallInv'
  BY NextLoad, CallStep DEF TypeOK
<1>3. TypeOK /\ CallInv => LineSent
  <2>1. ASSUME CallInv, mq = "commands", NEW s \in began \cap conn, s \in {"TB", "SDM"}
        PROVE  lines[s] >= 1 /\ (lines[s] = 2 => conn # began)
    <3>1. CASE s = "TB"
      BY <2>1, <3>1 DEF CallInv, SentInv, Times, Twice, Load!Server
    <3>2. CASE s = "SDM"
      BY <2>1, <3>2 DEF CallInv, SentInv, Times, Twice, Load!Server
    <3>3. QED
      BY <2>1, <3>1, <3>2
  <2>2. TypeOK => \A s \in began \cap conn : s \in {"TB", "SDM"}
    BY DEF TypeOK, Load!TypeOK, Load!Server
  <2>3. QED
    BY <2>1, <2>2 DEF LineSent, Load!LineSent
<1>4. QED
  BY TypeCorrect, <1>1, <1>2, <1>3, PTL DEF Spec
-----------------------------------------------------------------------------
(* The commands, as CommandDelivery promises them.                          *)

LEMMA WaitingType ==
  /\ Waiting \in [Command -> 0..2]
  /\ \A c \in Command : Waiting[c] = One(flag[c]) + One(OnItsWay(c))
<1>1. \A b : One(b) \in 0..1
  BY DEF One
<1>2. \A m, n \in 0..1 : m + n \in 0..2
  OBVIOUS
<1>3. \A c \in Command : One(flag[c]) + One(OnItsWay(c)) \in 0..2
  BY <1>1, <1>2
<1>4. QED
  BY <1>3 DEF Waiting

\* What waits changes only with the flags and with what is under way.
LEMMA WaitingKept ==
  ASSUME UNCHANGED <<flag, raised, sent>>,
         \/ pos' = pos /\ phase' = phase
         \/ phase # "send" /\ phase' # "send"
  PROVE  UNCHANGED Delivery!vars
<1>1. \A c \in Command : OnItsWay(c)' <=> OnItsWay(c)
  BY DEF OnItsWay, Current
<1>2. ASSUME NEW c \in Command
      PROVE  (One(flag[c]) + One(OnItsWay(c)))' = One(flag[c]) + One(OnItsWay(c))
  BY <1>1 DEF One
<1>3. Waiting' = Waiting
  BY <1>2 DEF Waiting
<1>4. QED
  BY <1>3 DEF Delivery!vars

\* A wish for a command sets its flag: it waits once more, or merges.
LEMMA WishMerges ==
  ASSUME NEW n \in 0..1, NEW f \in BOOLEAN
  PROVE  One(TRUE) + n \in Delivery!Wished(One(f) + n)
<1>1. One(TRUE) = 1 /\ 1 + n \in 1..2 /\ 0 + n + 1 = 1 + n
  BY DEF One
<1>2. CASE f
  BY <1>1, <1>2 DEF One, Delivery!Wished
<1>3. CASE ~f
  <2>1. One(f) = 0
    BY <1>3 DEF One
  <2>2. QED
    BY <1>1, <2>1 DEF Delivery!Wished
<1>4. QED
  BY <1>2, <1>3

LEMMA DeliveryExtract == TypeOK /\ Extract => [Delivery!Next]_Delivery!vars
<1> SUFFICES ASSUME TypeOK, Extract PROVE [Delivery!Next]_Delivery!vars
  OBVIOUS
<1> DEFINE a == Raises(Head(todo))
<1>1. /\ sent' = sent /\ pos' = pos /\ phase' = phase
      /\ flag' = [d \in Command |-> flag[d] \/ d = a]
      /\ raised' = [d \in Command |-> IF d = a THEN raised[d] + 1 ELSE raised[d]]
  BY DEF Extract, walkVars, boardVars
<1>2. flag \in [Command -> BOOLEAN] /\ raised \in [Command -> Nat]
  BY DEF TypeOK
<1> HIDE DEF a
<1>3. CASE a \notin Command
  <2>1. flag' = flag /\ raised' = raised
    BY <1>1, <1>2, <1>3
  <2>2. QED
    BY <1>1, <2>1, WaitingKept
<1>4. CASE a \in Command
  <2> DEFINE n == One(TRUE) + One(OnItsWay(a))
  <2>1. raised' = [raised EXCEPT ![a] = @ + 1]
    BY <1>1, <1>2, <1>4
  <2>2. n \in Delivery!Wished(Waiting[a])
    <3>1. One(OnItsWay(a)) \in 0..1 /\ flag[a] \in BOOLEAN
      BY <1>2, <1>4 DEF One
    <3>2. n \in Delivery!Wished(One(flag[a]) + One(OnItsWay(a)))
      BY <3>1, WishMerges
    <3>3. QED
      BY <1>4, <3>2, WaitingType
  <2>3. ASSUME NEW c \in Command
        PROVE  (One(flag[c]) + One(OnItsWay(c)))' = IF c = a THEN n ELSE Waiting[c]
    <3>1. OnItsWay(c)' <=> OnItsWay(c)
      BY <1>1 DEF OnItsWay, Current
    <3>2. Waiting[c] = One(flag[c]) + One(OnItsWay(c))
      BY WaitingType
    <3>3. flag'[c] <=> flag[c] \/ c = a
      BY <1>1
    <3>4. QED
      BY <3>1, <3>2, <3>3 DEF One
  <2> HIDE DEF n
  <2>4. Waiting' = [Waiting EXCEPT ![a] = n]
    <3>1. Waiting' = [c \in Command |-> IF c = a THEN n ELSE Waiting[c]]
      BY <2>3 DEF Waiting
    <3>2. QED
      BY <1>4, <3>1, WaitingType
  <2>5. Delivery!Ask(a)
    BY <1>1, <2>1, <2>2, <2>4 DEF Delivery!Ask
  <2>6. QED
    BY <1>4, <2>5 DEF Delivery!Next
<1>5. QED
  BY <1>3, <1>4

LEMMA DeliveryClear == TypeOK /\ PaidInv /\ Clear => UNCHANGED Delivery!vars
<1> SUFFICES ASSUME TypeOK, PaidInv, Clear PROVE UNCHANGED Delivery!vars
  OBVIOUS
<1>1. /\ sent' = sent /\ raised' = raised /\ flag' = [flag EXCEPT ![Current] = FALSE]
      /\ phase = "clear" /\ phase' = "send" /\ pos' = pos /\ Current' = Current
      /\ pos # 0 /\ flag[Current] /\ Current \in Command
  BY CurrentType DEF Clear, boardVars, AfterPhase, Advance, Cleared, Current, PaidInv
<1>2. ASSUME NEW c \in Command
      PROVE  (One(flag[c]) + One(OnItsWay(c)))' = One(flag[c]) + One(OnItsWay(c))
  <2>1. ~OnItsWay(c) /\ (OnItsWay(c)' <=> c = Current)
    BY <1>1 DEF OnItsWay
  <2>2. flag[Current] = TRUE /\ flag'[c] = IF c = Current THEN FALSE ELSE flag[c]
    BY <1>1 DEF TypeOK
  <2>3. CASE c = Current
    BY <2>1, <2>2, <2>3 DEF One
  <2>4. CASE c # Current
    BY <2>1, <2>2, <2>4 DEF One
  <2>5. QED
    BY <2>3, <2>4
<1>3. Waiting' = Waiting
  BY <1>2 DEF Waiting
<1>4. QED
  BY <1>1, <1>3 DEF Delivery!vars

LEMMA DeliverySend == TypeOK /\ PaidInv /\ Send => Delivery!Next
<1> SUFFICES ASSUME TypeOK, PaidInv, Send PROVE Delivery!Next
  OBVIOUS
<1> DEFINE k == Current
<1>1. /\ sent' = [sent EXCEPT ![k] = @ + 1]
      /\ flag' = [c \in Command |-> flag[c] \/ c \in FollowUp(k)]
      /\ raised' = [c \in Command |->
                      IF c \in FollowUp(k) THEN raised[c] + 1 ELSE raised[c]]
      /\ phase = "send" /\ phase' = "test" /\ pos # 0 /\ k \in Command
  BY CurrentType DEF Send, Advance, AfterPhase
<1>2. flag \in [Command -> BOOLEAN] /\ raised \in [Command -> Nat]
      /\ "GET_cfg" \in Command /\ "GET_cfg" \notin Param
  BY ParamAssumption DEF TypeOK, Command, Simple
<1>3. \A c \in Command : (OnItsWay(c) <=> c = k) /\ ~OnItsWay(c)'
  BY <1>1 DEF OnItsWay
<1> HIDE DEF k
<1>4. \A c \in Command : Waiting[c] = One(flag[c]) + (IF c = k THEN 1 ELSE 0)
  BY <1>3, WaitingType DEF One
<1>5. Waiting[k] > 0 /\ Waiting[k] - 1 = One(flag[k])
  BY <1>1, <1>4 DEF One
<1>6. Waiting' = [c \in Command |-> One(flag'[c])]
  <2>1. ASSUME NEW c \in Command PROVE (One(flag[c]) + One(OnItsWay(c)))' = One(flag'[c])
    BY <1>3 DEF One
  <2>2. QED
    BY <2>1 DEF Waiting
<1>7. CASE k \notin Param
  <2>1. FollowUp(k) = {}
    BY <1>7 DEF FollowUp
  <2>2. flag' = flag /\ raised' = raised
    BY <1>1, <1>2, <2>1
  <2>3. \A c \in Command : One(flag[c]) = IF c = k THEN Waiting[k] - 1 ELSE Waiting[c]
    BY <1>4, <1>5 DEF One
  <2>4. Waiting' = [Waiting EXCEPT ![k] = @ - 1]
    <3>1. Waiting' = [c \in Command |-> IF c = k THEN Waiting[k] - 1 ELSE Waiting[c]]
      BY <1>6, <2>2, <2>3
    <3>2. QED
      BY <1>1, <3>1, WaitingType
  <2>5. Delivery!Deliver(k)
    BY <1>1, <1>5, <1>7, <2>2, <2>4 DEF Delivery!Deliver
  <2>6. QED
    BY <1>1, <2>5 DEF Delivery!Next
<1>8. CASE k \in Param
  <2>1. FollowUp(k) = {"GET_cfg"} /\ k # "GET_cfg"
    BY <1>2, <1>8 DEF FollowUp
  <2>2. raised' = [raised EXCEPT !["GET_cfg"] = @ + 1]
    BY <1>1, <1>2, <2>1
  <2>3. \A c \in Command : flag'[c] <=> flag[c] \/ c = "GET_cfg"
    BY <1>1, <2>1
  <2>4. \A c \in Command : One(flag'[c]) = IF c = "GET_cfg" THEN 1
                                           ELSE IF c = k THEN Waiting[k] - 1 ELSE Waiting[c]
    BY <1>4, <1>5, <2>3 DEF One
  <2>5. Waiting' = [Waiting EXCEPT ![k] = @ - 1, !["GET_cfg"] = 1]
    <3>1. Waiting' = [c \in Command |-> IF c = "GET_cfg" THEN 1
                                        ELSE IF c = k THEN Waiting[k] - 1 ELSE Waiting[c]]
      BY <1>6, <2>4
    <3>2. QED
      BY <1>1, <1>2, <2>1, <3>1, WaitingType
  <2>6. 1 \in Delivery!Wished(Waiting["GET_cfg"])
    <3>1. Waiting["GET_cfg"] \in {0, 1}
      BY <1>2, <1>4, <2>1 DEF One
    <3>2. 1 \in Delivery!Wished(0) /\ 1 \in Delivery!Wished(1)
      BY DEF Delivery!Wished
    <3>3. QED
      BY <3>1, <3>2
  <2>7. Delivery!DeliverParam(k)
    BY <1>1, <1>5, <2>2, <2>5, <2>6 DEF Delivery!DeliverParam
  <2>8. QED
    BY <1>8, <2>7 DEF Delivery!Next
<1>9. QED
  BY <1>7, <1>8

LEMMA DeliveryRestart == PowerCycle => Delivery!Restart
<1> SUFFICES ASSUME PowerCycle PROVE Delivery!Restart
  OBVIOUS
<1>1. /\ sent' = sent /\ raised' = raised /\ pos' = 0
      /\ flag' = [c \in Command |-> FALSE]
  BY DEF PowerCycle, boardVars
<1>2. ASSUME NEW c \in Command PROVE (One(flag[c]) + One(OnItsWay(c)))' = 0
  BY <1>1 DEF One, OnItsWay
<1>3. Waiting' = [c \in Command |-> 0]
  BY <1>2 DEF Waiting
<1>4. QED
  BY <1>1, <1>3 DEF Delivery!Restart, Delivery!None

\* The refinement: with any parameters and messages, however the walk over the
\* keys and the walk over the flags interleave, a wish is only ever merged with
\* another one, and goes away only when it is sent or the RMU restarts.
THEOREM DeliveryImplemented == Spec => ImplementsDelivery
<1>1. Init => Delivery!Init
  <2> SUFFICES ASSUME Init PROVE Delivery!Init
    OBVIOUS
  <2>1. ASSUME NEW c \in Command PROVE One(flag[c]) + One(OnItsWay(c)) = 0
    BY DEF Init, One, OnItsWay
  <2>2. QED
    BY <2>1 DEF Init, Waiting, Delivery!Init, Delivery!None
<1>2. TypeOK /\ PaidInv /\ [Next]_vars => [Delivery!Next]_Delivery!vars
  <2> SUFFICES ASSUME TypeOK, PaidInv, [Next]_vars PROVE [Delivery!Next]_Delivery!vars
    OBVIOUS
  <2>1. CASE \E m \in Messages : Receive(m)
    BY <2>1, WaitingKept DEF Receive, walkVars, boardVars
  <2>2. CASE Extract
    BY <2>2, DeliveryExtract
  <2>3. CASE Walk \/ Test
    <3>1. UNCHANGED <<flag, raised, sent>> /\ phase # "send" /\ phase' # "send"
      BY <2>3 DEF Walk, Test, boardVars, AfterPhase, PaidInv
    <3>2. QED
      BY <3>1, WaitingKept
  <2>4. CASE Clear
    BY <2>4, DeliveryClear
  <2>5. CASE Send
    BY <2>5, DeliverySend
  <2>6. CASE PowerCycle
    BY <2>6, DeliveryRestart DEF Delivery!Next
  <2>7. CASE UNCHANGED commandVars \/ Point
    BY <2>7, WaitingKept DEF commandVars, Point, walkVars, boardVars
  <2>8. QED
    BY <2>1, <2>2, <2>3, <2>4, <2>5, <2>6, <2>7
       DEF Next, Client, Thread, Offer, Callback, PublishLine, Reconnect, vars
<1>3. Init => PaidInv
  BY DEF Init, PaidInv, Paid, One, OnItsWay
<1>4. QED
  BY TypeCorrect, PaidStep, <1>1, <1>2, <1>3, PTL
     DEF Spec, ImplementsDelivery, Delivery!Spec
-----------------------------------------------------------------------------
(* CommandsServed and DownloadEnds are left to the run.  They lean on this: a *)
(* turn of a publish loop ends.                                               *)

\* The steps of the thread and the answers a turn still takes, at most: for each
\* flag three, before that for each test of a downloaded line six.
WalkSteps == 3 * (Len(Order) - pos) + [test |-> 3, clear |-> 2, send |-> 1][phase]
LineSteps == 6 * (3 - test) + 2 * (One("TB" \in to) + One("SDM" \in to))
Flags     == 3 * Len(Order)

TurnSteps ==
  CASE pos # 0                      -> WalkSteps
    [] pos = 0 /\ mq = "loop"     -> 0
    [] pos = 0 /\ mq = "take"     -> Flags + 20
    [] pos = 0 /\ mq = "test"     -> Flags + 6 * (3 - test) + 7
    [] pos = 0 /\ mq = "publish"  -> Flags + LineSteps + 2
    [] pos = 0 /\ mq = "await"    -> Flags + LineSteps + 3
    [] pos = 0 /\ mq = "commands" -> Flags + 1

\* A walk begins after the body of the loop, at its first flag.
TurnInv == /\ pos # 0 => mq = "loop"
           /\ pos = 0 => phase = "test"

InBody(place, n) == pos = 0 /\ mq = place => TurnSteps = n
ByPlace ==
  /\ pos # 0 => TurnSteps = WalkSteps
  /\ InBody("loop", 0) /\ InBody("take", Flags + 20)
  /\ InBody("test", Flags + 6 * (3 - test) + 7)
  /\ InBody("publish", Flags + LineSteps + 2)
  /\ InBody("await", Flags + LineSteps + 3)
  /\ InBody("commands", Flags + 1)

LEMMA PlaceAt == ByPlace
<1>1. pos # 0 => TurnSteps = WalkSteps
  BY DEF TurnSteps
<1>2. InBody("loop", 0) /\ InBody("take", Flags + 20)
  BY DEF TurnSteps, InBody
<1>3. InBody("test", Flags + 6 * (3 - test) + 7)
  BY DEF TurnSteps, InBody
<1>4. InBody("publish", Flags + LineSteps + 2)
  BY DEF TurnSteps, InBody
<1>5. InBody("await", Flags + LineSteps + 3)
  BY DEF TurnSteps, InBody
<1>6. InBody("commands", Flags + 1)
  BY DEF TurnSteps, InBody
<1>7. QED
  BY <1>1, <1>2, <1>3, <1>4, <1>5, <1>6 DEF ByPlace

LEMMA PlaceNext == ByPlace'
BY PlaceAt, PTL

LEMMA TurnStep ==
  ASSUME TypeOK, TurnInv, [Next]_vars
  PROVE  TurnInv'
<1> USE DEF TurnInv
<1>1. CASE UNCHANGED <<pos, phase, mq>>
  BY <1>1
<1>2. CASE (\E m \in Messages : Receive(m)) \/ Extract \/ Point \/ Offer
  BY <1>1, <1>2 DEF Receive, Extract, Point, Offer, commandVars, walkVars, loadVars,
     Load!Offer, Load!Begin, Load!SetSize, Load!publishVars
<1>3. CASE Callback \/ PublishLine \/ Reconnect
  <2>1. UNCHANGED <<pos, phase>>
    BY <1>3 DEF Callback, PublishLine, Reconnect, commandVars, walkVars
  <2>2. CASE pos = 0
    BY <2>1, <2>2
  <2>3. CASE pos # 0
    <3>1. Callback
      BY <1>3, <2>3 DEF PublishLine, Reconnect
    <3>2. mq' = mq
      BY <2>3, <3>1 DEF Callback, Load!Answer, Load!Lose, Load!publishVars
    <3>3. QED
      BY <2>1, <3>2
  <2>4. QED
    BY <2>2, <2>3
<1>4. CASE Walk
  BY <1>4 DEF Walk, Load!Leave
<1>5. CASE Test
  BY <1>5 DEF Test, AfterPhase, loadVars
<1>6. CASE Clear
  BY <1>6 DEF Clear, Advance, AfterPhase, loadVars
<1>7. CASE Send
  BY <1>7 DEF Send, Advance, AfterPhase, loadVars
<1>8. CASE PowerCycle
  BY <1>8 DEF PowerCycle, Load!Restart
<1>9. CASE UNCHANGED vars
  BY <1>1, <1>9 DEF vars, commandVars, walkVars, loadVars
<1>10. QED
  BY <1>2, <1>3, <1>4, <1>5, <1>6, <1>7, <1>8, <1>9 DEF Next, Client, Thread

LEMMA LineStepsType ==
  ASSUME TypeOK
  PROVE  /\ LineSteps \in 0..16 /\ test \in 1..3 /\ Flags \in Nat \ {0}
         /\ \A f \in BOOLEAN : One(f) \in 0..1
<1>1. test \in 1..3 /\ Flags \in Nat \ {0}
  BY TestedAt, OrderType DEF TypeOK, Load!TypeOK, Flags
<1>2. \A f \in BOOLEAN : One(f) \in 0..1
  BY DEF One
<1>3. LineSteps \in 0..16
  <2>1. One("TB" \in to) \in 0..1 /\ One("SDM" \in to) \in 0..1
    BY DEF One
  <2>2. ASSUME NEW a \in 0..1, NEW b \in 0..1, NEW t \in 1..3
        PROVE  6 * (3 - t) + 2 * (a + b) \in 0..16
    BY ONLY <2>2
  <2>3. QED
    BY <1>1, <2>1, <2>2 DEF LineSteps
<1>4. QED
  BY <1>1, <1>2, <1>3

LEMMA TurnType ==
  ASSUME TypeOK, TurnInv
  PROVE  TurnSteps \in 0..(3 * Len(Order) + 20)
<1>1. CASE pos # 0
  <2>1. /\ pos \in 1..Len(Order) /\ Len(Order) \in Nat
        /\ [test |-> 3, clear |-> 2, send |-> 1][phase] \in 1..3
    BY <1>1, OrderType DEF TypeOK
  <2>2. WalkSteps \in 1..(3 * Len(Order))
    BY <2>1 DEF WalkSteps
  <2>3. QED
    BY <1>1, <2>1, <2>2, PlaceAt DEF ByPlace
<1>2. CASE pos = 0
  <2>1. /\ TurnSteps \in {0, Flags + 20, Flags + 1, Flags + 6 * (3 - test) + 7,
                          Flags + LineSteps + 2, Flags + LineSteps + 3}
    BY <1>2, PlaceAt DEF ByPlace, InBody, TypeOK, Load!TypeOK
  <2>2. 6 * (3 - test) + 7 \in 0..20
    BY LineStepsType
  <2>3. ASSUME NEW f \in Nat \ {0}, NEW k \in 0..20 PROVE f + k \in 0..(f + 20)
    BY ONLY <2>3
  <2>4. Flags \in Nat \ {0} /\ LineSteps + 2 \in 0..20 /\ LineSteps + 3 \in 0..20
    BY LineStepsType
  <2>5. /\ Flags + LineSteps + 2 = Flags + (LineSteps + 2)
        /\ Flags + LineSteps + 3 = Flags + (LineSteps + 3)
        /\ Flags + 6 * (3 - test) + 7 = Flags + (6 * (3 - test) + 7)
    BY LineStepsType
  <2>6. {0, Flags + 20, Flags + 1, Flags + 6 * (3 - test) + 7,
         Flags + LineSteps + 2, Flags + LineSteps + 3} \subseteq 0..(Flags + 20)
    BY <2>2, <2>3, <2>4, <2>5
  <2>7. QED
    BY <2>1, <2>6 DEF Flags
<1>3. QED
  BY <1>1, <1>2

LEMMA NextTestFewer ==
  ASSUME TypeOK, TypeOK', pos = 0, pos' = 0, Load!NextTest, NEW n \in Nat,
         n > Flags + 6 * (3 - test) + 1
  PROVE  TurnSteps' < n
<1>1. test \in 1..3 /\ Flags \in Nat
  BY LineStepsType
<1>2. CASE test = 3
  <2>1. mq' = "commands"
    BY <1>2, TestedAt DEF Load!NextTest
  <2>2. TurnSteps' = Flags + 1
    BY <2>1, PlaceNext DEF ByPlace, InBody, Flags
  <2>3. QED
    BY <1>1, <1>2, <2>2
<1>3. CASE test # 3
  <2>1. mq' = "test" /\ test' = test + 1
    BY <1>3, TestedAt DEF Load!NextTest
  <2>2. TurnSteps' = Flags + 6 * (3 - test') + 7
    BY <2>1, PlaceNext DEF ByPlace, InBody, Flags
  <2>3. QED
    BY <1>1, <1>3, <2>1, <2>2
<1>4. QED
  BY <1>2, <1>3

LEMMA LineFewer ==
  ASSUME TypeOK, TypeOK', pos = 0, pos' = 0,
         Load!Take \/ Load!Test \/ Load!Answer \/ \E s \in Load!Server : Load!Publish(s)
  PROVE  TurnSteps' < TurnSteps
<1>0. /\ test \in 1..3 /\ Flags \in Nat \ {0} /\ LineSteps \in 0..16 /\ LineSteps' \in 0..16
      /\ to \subseteq {"TB", "SDM"} /\ to' \subseteq {"TB", "SDM"}
  <2>1. TypeOK' => (LineSteps \in 0..16)'
    BY LineStepsType, PTL
  <2>2. QED
    BY <2>1, LineStepsType DEF TypeOK, Load!TypeOK, Load!Server
<1>1. /\ mq' = "test"    => TurnSteps' = Flags + 6 * (3 - test') + 7
      /\ mq' = "publish" => TurnSteps' = Flags + LineSteps' + 2
      /\ mq' = "await"   => TurnSteps' = Flags + LineSteps' + 3
      /\ mq' = "commands" => TurnSteps' = Flags + 1
  BY PlaceNext DEF ByPlace, InBody, Flags
<1>2. ASSUME Load!Take PROVE TurnSteps' < TurnSteps
  <2>1. mq = "take" /\ test' = 1 /\ mq' \in {"test", "commands"}
    BY <1>2 DEF Load!Take
  <2>2. TurnSteps = Flags + 20
    BY <2>1, PlaceAt DEF ByPlace, InBody
  <2>3. QED
    BY <1>0, <1>1, <2>1, <2>2
<1>3. ASSUME Load!Test PROVE TurnSteps' < TurnSteps
  <2>1. mq = "test" /\ ((mq' = "publish" /\ test' = test) \/ Load!NextTest)
    BY <1>3 DEF Load!Test
  <2>2. TurnSteps = Flags + 6 * (3 - test) + 7
    BY <2>1, PlaceAt DEF ByPlace, InBody
  <2>3. CASE Load!NextTest
    BY <1>0, <2>2, <2>3, NextTestFewer
  <2>4. CASE mq' = "publish" /\ test' = test
    <3>1. One("TB" \in to)' \in 0..1 /\ One("SDM" \in to)' \in 0..1
      BY DEF One
    <3>2. LineSteps' <= 6 * (3 - test) + 4
      BY <1>0, <2>4, <3>1 DEF LineSteps
    <3>3. ASSUME NEW f \in Nat, NEW l \in Nat, NEW x \in Nat, l <= x + 4
          PROVE  f + l + 2 < f + x + 7
      BY ONLY <3>3
    <3>4. 6 * (3 - test) \in Nat /\ LineSteps' \in Nat /\ Flags \in Nat
      BY <1>0
    <3>5. QED
      BY <1>1, <2>2, <2>4, <3>2, <3>3, <3>4
  <2>5. QED
    BY <2>1, <2>3, <2>4
<1>4. ASSUME NEW s \in Load!Server, Load!Publish(s) PROVE TurnSteps' < TurnSteps
  <2>1. /\ mq = "publish" /\ s \in to /\ to' = to \ {s} /\ s \in {"TB", "SDM"}
        /\ \/ mq' \in {"await", "publish"} /\ test' = test
           \/ Load!NextTest
    BY <1>4 DEF Load!Publish, Load!Server
  <2>2. TurnSteps = Flags + LineSteps + 2
    BY <2>1, PlaceAt DEF ByPlace, InBody
  <2>3. One("TB" \in to) + One("SDM" \in to) = One("TB" \in to') + One("SDM" \in to') + 1
    BY <2>1 DEF One
  <2>4. /\ One("TB" \in to) \in 0..1 /\ One("SDM" \in to) \in 0..1
        /\ One("TB" \in to') \in 0..1 /\ One("SDM" \in to') \in 0..1
    BY DEF One
  <2>5. LineSteps >= 6 * (3 - test) + 2
    BY <1>0, <2>3, <2>4 DEF LineSteps
  <2>6. CASE Load!NextTest
    <3>1. TurnSteps \in Nat /\ TurnSteps > Flags + 6 * (3 - test) + 1
      BY <1>0, <2>2, <2>5
    <3>2. QED
      BY <2>6, <3>1, NextTestFewer
  <2>7. CASE mq' \in {"await", "publish"} /\ test' = test
    <3>1. LineSteps' = LineSteps - 2
      BY <1>0, <2>3, <2>4, <2>7 DEF LineSteps
    <3>2. QED
      BY <1>0, <1>1, <2>2, <2>7, <3>1
  <2>8. QED
    BY <2>1, <2>6, <2>7
<1>5. ASSUME Load!Answer PROVE TurnSteps' < TurnSteps
  <2>1. /\ mq = "await" /\ to' = to
        /\ Load!NextTest \/ (mq' = "publish" /\ test' = test)
    BY <1>5 DEF Load!Answer
  <2>2. TurnSteps = Flags + LineSteps + 3
    BY <2>1, PlaceAt DEF ByPlace, InBody
  <2>3. LineSteps >= 6 * (3 - test)
    <3>1. One("TB" \in to) \in 0..1 /\ One("SDM" \in to) \in 0..1
      BY DEF One
    <3>2. QED
      BY <1>0, <3>1 DEF LineSteps
  <2>4. CASE Load!NextTest
    <3>1. TurnSteps \in Nat /\ TurnSteps > Flags + 6 * (3 - test) + 1
      BY <1>0, <2>2, <2>3
    <3>2. QED
      BY <2>4, <3>1, NextTestFewer
  <2>5. CASE mq' = "publish" /\ test' = test
    <3>1. LineSteps' = LineSteps
      BY <2>1, <2>5 DEF LineSteps
    <3>2. QED
      BY <1>0, <1>1, <2>2, <2>5, <3>1
  <2>6. QED
    BY <2>1, <2>4, <2>5
<1>6. QED
  BY <1>2, <1>3, <1>4, <1>5

LEMMA WalkFewer ==
  ASSUME TypeOK, TypeOK', TurnInv, pos # 0, Test \/ Clear \/ Send
  PROVE  TurnSteps' < TurnSteps
<1> DEFINE W(p, h) == 3 * (Len(Order) - p) + [test |-> 3, clear |-> 2, send |-> 1][h]
<1>1. pos \in 1..Len(Order) /\ pos' \in 0..Len(Order) /\ Len(Order) \in Nat
      /\ phase \in {"test", "clear", "send"}
  BY OrderType DEF TypeOK
<1>2. TurnSteps = W(pos, phase) /\ (pos' # 0 => TurnSteps' = W(pos', phase'))
  BY PlaceAt, PlaceNext DEF ByPlace, WalkSteps
<1>3. pos' = 0 => TurnSteps' = 0
  BY PlaceNext DEF ByPlace, InBody, TurnInv, Test, Clear, Send, loadVars
<1>4. \/ phase = "test" /\ phase' = "clear" /\ pos' = pos
      \/ phase = "clear" /\ phase' = "send" /\ pos' = pos
      \/ phase \in {"test", "send"} /\ phase' = "test" /\ pos' = NextPos
  BY <1>1 DEF Test, Clear, Send, Advance, AfterPhase
<1>5. NextPos = IF pos = Len(Order) THEN 0 ELSE pos + 1
  BY DEF NextPos
<1>6. W(pos, phase) > 0
  BY <1>1
<1>7. CASE pos' # 0
  <2>1. /\ W(pos, "test") = 3 * (Len(Order) - pos) + 3
        /\ W(pos, "clear") = 3 * (Len(Order) - pos) + 2
        /\ W(pos, "send") = 3 * (Len(Order) - pos) + 1
        /\ W(pos + 1, "test") = 3 * (Len(Order) - pos)
    BY <1>1
  <2> HIDE DEF W
  <2>2. 3 * (Len(Order) - pos) \in Nat
    BY <1>1
  <2>3. CASE pos' = pos
    BY <1>1, <1>2, <1>4, <1>5, <1>7, <2>1, <2>2, <2>3
  <2>4. CASE pos' = pos + 1
    BY <1>1, <1>2, <1>4, <1>5, <1>7, <2>1, <2>2, <2>4
  <2>5. QED
    BY <1>4, <1>5, <1>7, <2>3, <2>4
<1>8. CASE pos' = 0
  BY <1>2, <1>3, <1>6, <1>8
<1>9. QED
  BY <1>7, <1>8

LEMMA TurnFewer ==
  ASSUME TypeOK, TypeOK', TurnInv, [Next]_vars
  PROVE  /\ TurnSteps > 0 /\ (Thread \/ Answered) => TurnSteps' < TurnSteps
         /\ TurnSteps' <= TurnSteps \/ TurnSteps = 0
<1> DEFINE Goal == TurnSteps' < TurnSteps
<1>1. TurnSteps \in Nat
  BY TurnType, OrderType
<1>2. TurnInv'
  BY TurnStep
<1>3. TurnSteps' \in Nat
  <2>1. TypeOK' /\ TurnInv' => (TurnSteps \in 0..(3 * Len(Order) + 20))'
    BY TurnType, PTL
  <2>2. QED
    BY <1>2, <2>1, OrderType
<1>4. ASSUME PublishLine, TurnSteps > 0 PROVE Goal
  <2>1. pos = 0 /\ pos' = 0
    BY <1>4 DEF PublishLine, commandVars, walkVars
  <2>2. ~Load!EnterLoop
    BY <1>4, <2>1, PlaceAt DEF Load!EnterLoop, ByPlace, InBody
  <2>3. QED
    BY <1>4, <2>1, <2>2, LineFewer DEF PublishLine
<1>5. ASSUME Walk PROVE Goal
  <2>1. pos = 0 /\ mq = "commands" /\ pos' = 1 /\ phase' = "test"
    BY <1>5 DEF Walk, Load!Leave, TurnInv
  <2>2. TurnSteps = Flags + 1 /\ TurnSteps' = 3 * (Len(Order) - 1) + 3
    BY <2>1, PlaceAt, PlaceNext DEF ByPlace, InBody, WalkSteps
  <2>3. QED
    BY <2>2, OrderType DEF Flags
<1>6. ASSUME Test \/ Clear \/ Send PROVE Goal
  BY <1>6, WalkFewer DEF Test, Clear, Send
<1>7. ASSUME Load!Answer, UNCHANGED commandVars PROVE Goal
  <2>1. pos' = pos /\ mq = "await"
    BY <1>7 DEF commandVars, walkVars, Load!Answer
  <2>2. pos = 0
    BY <2>1 DEF TurnInv
  <2>3. QED
    BY <1>7, <2>1, <2>2, LineFewer
<1>8. ASSUME UNCHANGED <<pos, phase, mq, test, to>> PROVE TurnSteps' = TurnSteps
  BY <1>8 DEF TurnSteps, WalkSteps, LineSteps, Flags, One
<1>9. ASSUME \/ (\E m \in Messages : Receive(m)) \/ Extract \/ Point
             \/ Offer \/ UNCHANGED vars
      PROVE  TurnSteps' = TurnSteps
  <2>1. UNCHANGED <<pos, phase, mq, test, to>>
    BY <1>9 DEF Receive, Extract, Point, Offer, commandVars, walkVars, loadVars, vars,
       Load!Offer, Load!Begin, Load!SetSize, Load!publishVars
  <2>2. QED
    BY <1>8, <2>1
<1>10. ASSUME NEW s \in Load!Server, Load!Lose(s) \/ Load!Gain(s), UNCHANGED commandVars
       PROVE  TurnSteps' = TurnSteps
  <2>1. UNCHANGED <<pos, phase, mq, test, to>>
    BY <1>10 DEF Load!Lose, Load!Gain, Load!publishVars, commandVars, walkVars
  <2>2. QED
    BY <1>8, <2>1
<1>11. ASSUME PowerCycle PROVE TurnSteps' = 0
  BY <1>11, PlaceNext DEF PowerCycle, Load!Restart, ByPlace, InBody
<1>12. Thread \/ Answered => Goal \/ TurnSteps = 0
  BY <1>1, <1>4, <1>5, <1>6, <1>7 DEF Thread, Answered
<1>13. Callback \/ Reconnect => TurnSteps' <= TurnSteps
  BY <1>1, <1>3, <1>7, <1>10 DEF Callback, Reconnect
<1> HIDE DEF Goal
<1>14. Next => TurnSteps' <= TurnSteps \/ TurnSteps = 0
  BY <1>1, <1>3, <1>9, <1>11, <1>12, <1>13 DEF Next, Client, Goal
<1>15. QED
  BY <1>1, <1>3, <1>9, <1>12, <1>14 DEF Goal

\* A turn of a publish loop ends: each step of the MQTT thread and each answer
\* leave fewer, and nothing that the client task, the servers or a download do
\* adds to them; only a new turn does.
THEOREM TurnEnds ==
  Spec => /\ [](TurnSteps \in 0..(3 * Len(Order) + 20))
          /\ [][/\ TurnSteps > 0 /\ (Thread \/ Answered) => TurnSteps' < TurnSteps
                /\ TurnSteps' <= TurnSteps \/ TurnSteps = 0]_vars
<1>1. Init => TurnInv
  BY DEF Init, Load!Init, TurnInv
<1>2. TypeOK /\ TypeOK' /\ TurnInv /\ [Next]_vars =>
        [/\ TurnSteps > 0 /\ (Thread \/ Answered) => TurnSteps' < TurnSteps
         /\ TurnSteps' <= TurnSteps \/ TurnSteps = 0]_vars
  BY TurnFewer
<1>3. QED
  BY <1>1, <1>2, TurnStep, TurnType, TypeCorrect, PTL DEF Spec

-----------------------------------------------------------------------------
(* ValueArrives fails (run rpc_value).  What follows shows that the pointer   *)
(* into the buffer of jsonextract is the only reason.                         *)

\* What send_rpc_to_criBrd reads through the pointer is the value the parameter
\* was set to, as if TB_RPC kept a copy of it.
ValueKept == Send /\ Current \in Param => got'[Current] = set[Current]

\* A parameter whose value the board does not have yet is still to be sent.
ValuePending == \A p \in Param : got[p] = set[p] \/ flag[p] \/ OnItsWay(p)

LEMMA ValueStep ==
  ASSUME TypeOK, ValuePending, [Next]_vars, [ValueKept]_vars
  PROVE  ValuePending'
<1> USE DEF ValuePending, OnItsWay
<1>0. Param \subseteq Command
  BY DEF Command
<1>1. CASE UNCHANGED commandVars \/ Point
  BY <1>1 DEF commandVars, Point, walkVars, boardVars, Current
<1>2. CASE \E m \in Messages : Receive(m)
  BY <1>2 DEF Receive, walkVars, boardVars, Current
<1>3. CASE Extract
  <2> DEFINE item == Head(todo)
             a    == Raises(item)
  <2>1. /\ set' = [p \in Param |-> IF p = a THEN item.value ELSE set[p]]
        /\ flag' = [d \in Command |-> flag[d] \/ d = a]
        /\ got' = got /\ pos' = pos /\ phase' = phase
    BY <1>3 DEF Extract, walkVars, boardVars
  <2> HIDE DEF item, a
  <2>2. QED
    BY <1>0, <2>1 DEF Current
<1>4. CASE Walk
  BY <1>4 DEF Walk, boardVars
<1>5. CASE Test
  BY <1>5 DEF Test, boardVars
<1>6. CASE Clear
  <2>1. /\ phase' = "send" /\ pos' = pos /\ pos # 0 /\ got' = got /\ set' = set
        /\ flag' = [flag EXCEPT ![Current] = FALSE] /\ Current' = Current
        /\ phase # "send"
    BY <1>6 DEF Clear, Advance, AfterPhase, Cleared, Current, boardVars
  <2>2. QED
    BY <1>0, <2>1 DEF TypeOK
<1>7. CASE Send
  <2>1. /\ set' = set /\ flag' = [c \in Command |-> flag[c] \/ c \in FollowUp(Current)]
        /\ \A p \in Param : p # Current => got'[p] = got[p]
    BY <1>7 DEF Send, TypeOK
  <2>2. sent' # sent
    <3>1. Current \in Command /\ sent \in [Command -> Nat]
          /\ sent' = [sent EXCEPT ![Current] = @ + 1]
      BY <1>7, CurrentType DEF Send, TypeOK
    <3>2. sent'[Current] = sent[Current] + 1 /\ sent[Current] \in Nat
      BY <3>1
    <3>3. QED
      BY <3>2
  <2>3. Current \in Param => got'[Current] = set[Current]
    BY <1>7, <2>2 DEF ValueKept, vars, commandVars, boardVars
  <2>4. QED
    BY <1>0, <2>1, <2>3
<1>8. CASE PowerCycle
  BY <1>8 DEF PowerCycle, boardVars
<1>9. QED
  BY <1>1, <1>2, <1>3, <1>4, <1>5, <1>6, <1>7, <1>8
     DEF Next, Client, Thread, Offer, Callback, PublishLine, Reconnect, vars

\* If the value were kept until it is read, no interleaving of the two walks
\* could leave the board with another value than the one that was set last.
THEOREM ValueArrivesIfKept == Spec /\ [][ValueKept]_vars => []ValueArrives
<1>1. Init => ValuePending
  BY DEF Init, ValuePending
<1>2. TypeOK /\ ValuePending => ValueArrives
  <2> SUFFICES ASSUME TypeOK, ValuePending, Quiet PROVE got = set
    BY DEF ValueArrives
  <2>1. \A p \in Param : got[p] = set[p]
    BY DEF ValuePending, Quiet, OnItsWay, Command
  <2>2. QED
    BY <2>1 DEF TypeOK
<1>3. QED
  BY TypeCorrect, ValueStep, <1>1, <1>2, PTL DEF Spec
=============================================================================
