-------------------------- MODULE Telemetry_proofs --------------------------
(***************************************************************************)
(* What Telemetry keeps for any number of frames and timer events.         *)
(***************************************************************************)
EXTENDS Telemetry, SequenceTheorems, TLAPS

\* The INDEX is at most the number of frames that ConvertJsonData has looked at.
CountInv == cb \in {"clear", "testTelemetry"} => d_index + 1 <= frames

IInv == TypeOK /\ CountInv

LEMMA NotConfig == \A d \in Document : d # Config
BY DEF Document, Config

LEMMA DocumentsOfNone == Documents(<<>>) = {}
BY DEF Documents

LEMMA DocumentsOfOne ==
  ASSUME NEW d \in Document
  PROVE  Documents(<<d>>) = {d} /\ <<d>> \in Seq(Document \cup {Config})
<1>1. d # Config
  BY NotConfig
<1>2. Documents(<<d>>) = {d}
  BY <1>1 DEF Documents
<1>3. QED
  BY <1>2

LEMMA DocumentsAndConfig ==
  ASSUME NEW b \in Seq(Document \cup {Config})
  PROVE  /\ Documents(Append(b, Config)) = Documents(b)
         /\ Append(b, Config) \in Seq(Document \cup {Config})
<1>1. Append(b, Config) \in Seq(Document \cup {Config})
  OBVIOUS
<1> DEFINE c == Append(b, Config)
<1>2. /\ DOMAIN c = DOMAIN b \cup {Len(b) + 1} /\ c[Len(b) + 1] = Config
      /\ \A i \in DOMAIN b : c[i] = b[i]
  BY AppendProperties
<1> HIDE DEF c
<1>3. Documents(c) = Documents(b)
  BY <1>2 DEF Documents
<1>4. QED
  BY <1>1, <1>3 DEF c

LEMMA DocumentsType ==
  ASSUME NEW b \in Seq(Document \cup {Config})
  PROVE  Documents(b) \subseteq Document
<1>1. \A i \in DOMAIN b : b[i] \in Document \cup {Config}
  OBVIOUS
<1>2. QED
  BY <1>1 DEF Documents
-----------------------------------------------------------------------------
LEMMA TypeInit == Init => IInv
<1> SUFFICES ASSUME Init PROVE IInv
  OBVIOUS
<1>1. frames \in 0..MaxFrames /\ ticks \in 0..MaxTicks /\ valueString \in 0..MaxFrames
  BY BoundsAssumption DEF Init
<1>2. json_data_buf \in Seq(Document \cup {Config})
  BY DEF Init
<1>3. d_index \in 0..frames
  BY DEF Init
<1>4. QED
  BY <1>1, <1>2, <1>3 DEF Init, Mail!Init, IInv, TypeOK, CountInv, Nothing, Kind,
     Telemetry, Attributes, Mail!Kind, Mail!Telemetry, Mail!Attributes

\* A telemetry document that ConvertJsonData may write.
LEMMA NewDocument ==
  ASSUME IInv, cb = "testTelemetry"
  PROVE  /\ d_index \in Nat /\ NextIndex = d_index + 1 /\ NextIndex \in 0..frames
         /\ [frame |-> valueString, index |-> NextIndex] \in Document
<1>1. d_index \in Nat /\ frames \in Nat /\ d_index + 1 <= frames
  BY BoundsAssumption DEF IInv, TypeOK, CountInv
<1>2. NextIndex = d_index + 1
  BY DEF NextIndex
<1>3. NextIndex \in 0..frames /\ NextIndex \in Nat
  BY <1>1, <1>2
<1>4. valueString \in 0..MaxFrames
  BY DEF IInv, TypeOK
<1>5. QED
  BY <1>1, <1>2, <1>3, <1>4 DEF Document

LEMMA TypeStep == IInv /\ [Next]_vars => IInv'
<1> SUFFICES ASSUME IInv, [Next]_vars PROVE IInv'
  OBVIOUS
<1> USE DEF Kind, Mail!Kind, Mail!Telemetry, Mail!Attributes, cbVars, mqttVars
<1>0. TypeOK /\ CountInv /\ frames \in Nat /\ ticks \in Nat /\ d_index \in Nat
  BY BoundsAssumption DEF IInv, TypeOK
<1>1. ASSUME NEW k \in Kind, Receive(k) PROVE IInv'
  <2>1. frames' \in 0..MaxFrames /\ valueString' \in 0..MaxFrames
    BY <1>0, <1>1, BoundsAssumption DEF Receive, TypeOK
  <2>2. d_index' \in 0..frames' /\ d_index' + 1 <= frames'
    BY <1>0, <1>1 DEF Receive, TypeOK
  <2>3. missed' \subseteq 1..MaxFrames
    <3>1. frames + 1 \in 1..MaxFrames
      BY <1>0, <1>1, BoundsAssumption DEF Receive, TypeOK
    <3>2. QED
      BY <1>0, <1>1, <3>1 DEF Receive, TypeOK
  <2>4. kind' \in Kind /\ cb' = "clear" /\ param2' \in {0} \cup Kind
    BY <1>1 DEF Receive, Mail!Raise
  <2>5. UNCHANGED <<posted, json_data_buf, mqttVars, conn, ticks, logged>>
    BY <1>1 DEF Receive, Mail!Raise
  <2>6. QED
    BY <1>0, <2>1, <2>2, <2>3, <2>4, <2>5 DEF IInv, TypeOK, CountInv
<1>2. CASE ClearBuffer
  <2>1. json_data_buf' \in Seq(Document \cup {Config})
    BY <1>2 DEF ClearBuffer
  <2>2. QED
    BY <1>0, <1>2, <2>1 DEF ClearBuffer, IInv, TypeOK, CountInv
<1>3. CASE TestTelemetry
  <2>1. cb = "testTelemetry"
    BY <1>3 DEF TestTelemetry
  <2>2. json_data_buf' \in Seq(Document \cup {Config})
    BY <1>0, <1>3, <2>1, NewDocument, DocumentsOfOne DEF TestTelemetry, TypeOK
  <2>3. d_index' \in 0..frames'
    BY <1>0, <1>3, <2>1, NewDocument DEF TestTelemetry, TypeOK
  <2>4. cb' = "testAttributes" /\ UNCHANGED <<param2, posted, kind, valueString,
          mqttVars, conn, frames, ticks, logged, missed>>
    BY <1>3 DEF TestTelemetry
  <2>5. QED
    BY <1>0, <2>2, <2>3, <2>4 DEF IInv, TypeOK, CountInv
<1>4. CASE TestAttributes
  <2>1. json_data_buf' \in Seq(Document \cup {Config})
    BY <1>0, <1>4, DocumentsAndConfig DEF TestAttributes, TypeOK
  <2>2. QED
    BY <1>0, <1>4, <2>1 DEF TestAttributes, IInv, TypeOK, CountInv
<1>5. CASE LogTelemetry
  <2>1. logged' \subseteq Document
    BY <1>0, <1>5, DocumentsType DEF LogTelemetry, TypeOK
  <2>2. QED
    BY <1>0, <1>5, <2>1 DEF LogTelemetry, IInv, TypeOK, CountInv
<1>6. CASE Poll
  BY <1>0, <1>6 DEF Poll, IInv, TypeOK, CountInv
<1>7. CASE TakeTelemetry
  BY <1>0, <1>7 DEF TakeTelemetry, Mail!Take, IInv, TypeOK, CountInv
<1>8. ASSUME NEW s \in Server, PublishTelemetry(s) PROVE IInv'
  <2>1. published' \in [Server -> SUBSET Document]
    <3>1. Documents(json_data_buf) \subseteq Document
      BY <1>0, DocumentsType DEF TypeOK
    <3>2. published' = [published EXCEPT ![s] = @ \cup Documents(json_data_buf)]
      BY <1>8 DEF PublishTelemetry
    <3>3. QED
      BY <1>0, <3>1, <3>2 DEF TypeOK
  <2>2. mq' \in {"publishSDM", "pollAttributes"}
    BY <1>8 DEF PublishTelemetry
  <2>3. UNCHANGED <<param2, posted, cbVars, loop, conn, frames, ticks, logged, missed>>
    BY <1>8 DEF PublishTelemetry
  <2>4. QED
    BY <1>0, <2>1, <2>2, <2>3 DEF IInv, TypeOK, CountInv
<1>9. CASE PollAttributes
  BY <1>0, <1>9 DEF PollAttributes, IInv, TypeOK, CountInv
<1>10. CASE TakeAttributes
  BY <1>0, <1>10 DEF TakeAttributes, Mail!Take, IInv, TypeOK, CountInv
<1>11. CASE Tick
  <2>1. ticks' \in 0..MaxTicks
    BY <1>0, <1>11, BoundsAssumption DEF Tick
  <2>2. QED
    BY <1>0, <1>11, <2>1 DEF Tick, Mail!Post, IInv, TypeOK, CountInv
<1>12. CASE Restore
  BY <1>0, <1>12 DEF Restore, Mail!Restore, IInv, TypeOK, CountInv, Nothing, Mail!Nothing
<1>13. CASE ServersChange
  BY <1>0, <1>13 DEF ServersChange, IInv, TypeOK, CountInv
<1>14. CASE UNCHANGED vars
  BY <1>0, <1>14 DEF vars, IInv, TypeOK, CountInv
<1>15. QED
  BY <1>1, <1>2, <1>3, <1>4, <1>5, <1>6, <1>7, <1>8, <1>9, <1>10, <1>11, <1>12,
     <1>13, <1>14 DEF Next, Callback, MqttThread

\* Type correctness of the way of a frame.
THEOREM TypeCorrect == Spec => []TypeOK
<1>1. IInv => TypeOK
  BY DEF IInv
<1>2. QED
  BY TypeInit, TypeStep, <1>1, PTL DEF Spec
-----------------------------------------------------------------------------
\* The buffer holds the INDEX given last or none, and everything written before
\* has a smaller one: who reads the buffer when makes no difference.
IndexInv == /\ \A d \in Documents(json_data_buf) : d.index = d_index
            /\ \A d \in Written : d.index <= d_index
            /\ OneFramePerIndex

\* IndexInv is kept by a step that writes nothing.
LEMMA IndexKept ==
  ASSUME IndexInv, d_index' = d_index, Written' \subseteq Written,
         Documents(json_data_buf)' \subseteq Documents(json_data_buf)
  PROVE  IndexInv'
BY DEF IndexInv, OneFramePerIndex

LEMMA IndexStep == IInv /\ IndexInv /\ [Next]_vars => IndexInv'
<1> SUFFICES ASSUME IInv, IndexInv, [Next]_vars PROVE IndexInv'
  OBVIOUS
<1> USE DEF cbVars, mqttVars
<1>0. /\ json_data_buf \in Seq(Document \cup {Config}) /\ Written \subseteq Document
      /\ d_index \in Nat /\ published \in [Server -> SUBSET Document]
  <2>1. TypeOK /\ frames \in Nat
    BY BoundsAssumption DEF IInv, TypeOK
  <2>2. Documents(json_data_buf) \subseteq Document
    BY <2>1, DocumentsType DEF TypeOK
  <2>3. QED
    BY <2>1, <2>2 DEF TypeOK, Written, Server
<1>1. ASSUME d_index' = d_index, published' = published, logged' = logged,
             Documents(json_data_buf)' \subseteq Documents(json_data_buf)
      PROVE  IndexInv'
  <2>1. Written' \subseteq Written
    BY <1>1 DEF Written
  <2>2. QED
    BY <1>1, <2>1, IndexKept
<1>2. CASE json_data_buf' = json_data_buf /\ d_index' = d_index
           /\ published' = published /\ logged' = logged
  BY <1>1, <1>2
<1>3. CASE ClearBuffer
  <2>1. Documents(json_data_buf)' = {}
    BY <1>3, DocumentsOfNone DEF ClearBuffer
  <2>2. QED
    BY <1>1, <1>3, <2>1 DEF ClearBuffer
<1>4. CASE TestTelemetry
  <2>1. CASE param2 = Telemetry
    <3> DEFINE new == [frame |-> valueString, index |-> NextIndex]
    <3>1. cb = "testTelemetry" /\ d_index' = NextIndex /\ json_data_buf' = <<new>>
          /\ published' = published /\ logged' = logged
      BY <1>4, <2>1 DEF TestTelemetry
    <3>2. new \in Document /\ NextIndex = d_index + 1
      BY <3>1, NewDocument
    <3>3. new.index = NextIndex
      OBVIOUS
    <3> HIDE DEF new
    <3>4. Documents(json_data_buf)' = {new}
      BY <3>1, <3>2, DocumentsOfOne
    <3>5. Written' \subseteq Written \cup {new}
      BY <3>1, <3>4 DEF Written
    <3>6. \A d \in Written : d.index \in Nat /\ d.index <= d_index
      BY <1>0 DEF IndexInv, Document
    <3>7. \A d \in Written : d.index # new.index /\ d.index <= NextIndex
      BY <1>0, <3>2, <3>3, <3>6
    <3>8. /\ \A d \in Documents(json_data_buf)' : d.index = d_index'
          /\ \A d \in Written' : d.index <= d_index'
      BY <1>0, <3>1, <3>2, <3>3, <3>4, <3>5, <3>7
    <3>9. OneFramePerIndex'
      BY <3>5, <3>7 DEF IndexInv, OneFramePerIndex
    <3>10. QED
      BY <3>8, <3>9 DEF IndexInv
  <2>2. CASE param2 # Telemetry
    BY <1>1, <1>4, <2>2 DEF TestTelemetry
  <2>3. QED
    BY <2>1, <2>2
<1>5. CASE TestAttributes
  <2>1. Documents(json_data_buf)' = Documents(json_data_buf)
    BY <1>0, <1>5, DocumentsAndConfig DEF TestAttributes
  <2>2. QED
    BY <1>1, <1>5, <2>1 DEF TestAttributes
<1>6. CASE LogTelemetry
  <2>1. d_index' = d_index /\ published' = published /\ json_data_buf' = json_data_buf
        /\ logged' \subseteq logged \cup Documents(json_data_buf)
    BY <1>6 DEF LogTelemetry
  <2>2. Written' \subseteq Written
    BY <2>1 DEF Written
  <2>3. QED
    BY <2>1, <2>2, IndexKept
<1>7. ASSUME NEW s \in Server, PublishTelemetry(s) PROVE IndexInv'
  <2>1. d_index' = d_index /\ logged' = logged /\ json_data_buf' = json_data_buf
        /\ published' = [published EXCEPT ![s] = @ \cup Documents(json_data_buf)]
    BY <1>7 DEF PublishTelemetry
  <2>2. \A x \in Server : published'[x] \subseteq published[x] \cup Documents(json_data_buf)
    BY <1>0, <2>1
  <2>3. Written' \subseteq Written
    BY <2>1, <2>2 DEF Written, Server
  <2>4. QED
    BY <2>1, <2>3, IndexKept
<1>8. QED
  BY <1>2, <1>3, <1>4, <1>5, <1>6, <1>7 DEF Next, Callback, MqttThread, Receive, Poll,
     TakeTelemetry, PollAttributes, TakeAttributes, Tick, Restore, ServersChange, vars

LEMMA IndexInit == Init => IndexInv
<1> SUFFICES ASSUME Init PROVE IndexInv
  OBVIOUS
<1>1. Written = {} /\ Documents(json_data_buf) = {}
  BY DocumentsOfNone DEF Init, Written, Server
<1>2. QED
  BY <1>1 DEF IndexInv, OneFramePerIndex

\* Whatever the races on param2 do, no two frames go out under one INDEX.
THEOREM IndexUnique == Spec => []OneFramePerIndex
<1>1. IndexInv => OneFramePerIndex
  BY DEF IndexInv
<1>2. QED
  BY TypeInit, TypeStep, IndexInit, IndexStep, <1>1, PTL DEF Spec

\* No server gets the telemetry of a smaller INDEX after that of a larger one.
THEOREM IndexAscends == Spec => IndexNeverGoesBack
<1> DEFINE Ascends == \A s \in Server :
                        \A old \in published[s], new \in published'[s] \ published[s] :
                          old.index <= new.index
<1>1. IInv /\ IndexInv /\ [Next]_vars => [Ascends]_vars
  <2> SUFFICES ASSUME IInv, IndexInv, Next, NEW s \in Server, NEW old \in published[s],
                      NEW new \in published'[s] \ published[s]
               PROVE  old.index <= new.index
    OBVIOUS
  <2>1. published \in [Server -> SUBSET Document]
    BY DEF IInv, TypeOK
  <2>2. PICK t \in Server : PublishTelemetry(t)
    BY DEF Next, Callback, MqttThread, Receive, ClearBuffer, TestTelemetry,
       TestAttributes, LogTelemetry, Poll, TakeTelemetry, PollAttributes,
       TakeAttributes, Tick, Restore, ServersChange, mqttVars
  <2>3. new \in Documents(json_data_buf)
    BY <2>1, <2>2 DEF PublishTelemetry
  <2>4. new.index = d_index /\ old \in Written
    BY <2>3 DEF IndexInv, Written, Server
  <2>5. QED
    BY <2>4 DEF IndexInv
<1>2. QED
  BY TypeInit, TypeStep, IndexInit, IndexStep, <1>1, PTL DEF Spec, IndexNeverGoesBack
-----------------------------------------------------------------------------
(* The way of a frame leans on param2 as Mailbox offers it, which is what   *)
(* UartTasks is proved to implement.                                       *)

\* Every step uses the mailbox as one of its operations, or leaves it alone.
LEMMA MailStep == [Next]_vars => [Mail!Next]_Mail!vars
<1> SUFFICES ASSUME [Next]_vars PROVE [Mail!Next]_Mail!vars
  OBVIOUS
<1> USE DEF Mail!vars
<1>1. ASSUME NEW k \in Kind, Receive(k) PROVE Mail!Next
  BY <1>1 DEF Receive, Kind, Mail!Next
<1>2. CASE TakeTelemetry \/ TakeAttributes
  BY <1>2 DEF TakeTelemetry, TakeAttributes, Mail!Next
<1>3. CASE Tick
  BY <1>3 DEF Tick, Mail!Next
<1>4. CASE Restore
  BY <1>4 DEF Restore, Mail!Next
<1>5. QED
  BY <1>1, <1>2, <1>3, <1>4 DEF Next, Callback, MqttThread, ClearBuffer, TestTelemetry,
     TestAttributes, LogTelemetry, Poll, PublishTelemetry, PollAttributes,
     ServersChange, vars

\* A frame's way uses param2 as Mailbox describes it.
THEOREM UsesMailbox == Spec => Mail!Spec
<1>1. Init => Mail!Init
  BY DEF Init
<1>2. QED
  BY <1>1, MailStep, PTL DEF Spec, Mail!Spec
-----------------------------------------------------------------------------
(* MissedIsLogged fails (run telemetry_missed).  What follows shows that only *)
(* a change of param2 in the short time before it is tested is to blame.      *)

\* Between raising param2 and testing it the callback is not overtaken: neither
\* does the MQTT thread clear param2 nor the UART thread write an old copy back.
MailStays == cb \in {"clear", "testTelemetry"} => param2' = param2

\* The callback has the frame that is missed in its hands, ...
InHand ==
  /\ cb # "idle" /\ kind = Telemetry /\ valueString = frames /\ conn = {}
  /\ cb \in {"clear", "testTelemetry"} => param2 = Telemetry
  /\ cb \in {"testAttributes", "log"} =>
       \E d \in Documents(json_data_buf) : d.frame = frames

\* ... or the frame is in a log.
InLog(f) == \E d \in logged : d.frame = f
MissedInv == \A f \in missed : InLog(f) \/ (f = frames /\ InHand)

LEMMA MissedStep ==
  ASSUME IInv, MissedInv, [Next]_vars, [MailStays]_vars
  PROVE  MissedInv'
<1> USE DEF cbVars, mqttVars
<1>0. MailStays \/ UNCHANGED vars
  OBVIOUS
<1>1. ASSUME NEW k \in Kind, Receive(k) PROVE MissedInv'
  <2>1. /\ cb = "idle" /\ cb' = "clear" /\ frames' = frames + 1 /\ kind' = k
        /\ param2' = k /\ conn' = conn /\ logged' = logged
        /\ valueString' = IF k = Telemetry THEN frames + 1 ELSE valueString
        /\ missed' = IF k = Telemetry /\ conn = {} THEN missed \cup {frames + 1} ELSE missed
    BY <1>1 DEF Receive, Mail!Raise
  <2>2. \A f \in missed : InLog(f)'
    BY <2>1 DEF MissedInv, InHand, InLog
  <2>3. k = Telemetry /\ conn = {} => InHand'
    BY <2>1 DEF InHand
  <2>4. QED
    BY <2>1, <2>2, <2>3 DEF MissedInv, InLog
<1>2. CASE ClearBuffer
  <2>1. param2 = param2' /\ cb = "clear" /\ cb' = "testTelemetry"
        /\ UNCHANGED <<kind, valueString, conn, frames, logged, missed>>
    BY <1>2 DEF ClearBuffer
  <2>2. InHand => InHand'
    BY <2>1 DEF InHand
  <2>3. \A f : InLog(f)' <=> InLog(f)
    BY <2>1 DEF InLog
  <2>4. QED
    BY <2>1, <2>2, <2>3 DEF MissedInv
<1>3. CASE TestTelemetry
  <2>1. /\ cb = "testTelemetry" /\ cb' = "testAttributes"
        /\ UNCHANGED <<kind, valueString, conn, frames, logged, missed>>
    BY <1>3 DEF TestTelemetry
  <2>2. InHand => InHand'
    <3> SUFFICES ASSUME InHand PROVE InHand'
      OBVIOUS
    <3> DEFINE d == [frame |-> valueString, index |-> NextIndex]
    <3>1. json_data_buf' = <<d>> /\ d \in Document
      BY <1>3, <2>1, NewDocument DEF TestTelemetry, InHand
    <3>2. Documents(json_data_buf') = {d} /\ d.frame = valueString
      BY <3>1, DocumentsOfOne
    <3> HIDE DEF d
    <3>3. \E e \in Documents(json_data_buf') : e.frame = frames'
      BY <2>1, <3>2 DEF InHand
    <3>4. QED
      BY <2>1, <3>3 DEF InHand, Documents
  <2>3. \A f : InLog(f)' <=> InLog(f)
    BY <2>1 DEF InLog
  <2>4. QED
    BY <2>1, <2>2, <2>3 DEF MissedInv
<1>4. CASE TestAttributes
  <2>1. /\ cb = "testAttributes" /\ cb' = "log"
        /\ UNCHANGED <<kind, valueString, conn, frames, logged, missed>>
    BY <1>4 DEF TestAttributes
  <2>2. Documents(json_data_buf') = Documents(json_data_buf)
    BY <1>4, DocumentsAndConfig DEF TestAttributes, IInv, TypeOK
  <2>3. InHand => InHand'
    BY <2>1, <2>2 DEF InHand, Documents
  <2>4. \A f : InLog(f)' <=> InLog(f)
    BY <2>1 DEF InLog
  <2>5. QED
    BY <2>1, <2>3, <2>4 DEF MissedInv
<1>5. CASE LogTelemetry
  <2>1. /\ cb = "log" /\ missed' = missed /\ frames' = frames
        /\ logged' = IF kind = Telemetry /\ conn # Server
                       THEN logged \cup Documents(json_data_buf) ELSE logged
    BY <1>5 DEF LogTelemetry
  <2>2. \A f : InLog(f) => InLog(f)'
    BY <2>1 DEF InLog
  <2>3. InHand => InLog(frames)'
    <3>1. {} # Server
      BY DEF Server
    <3>2. QED
      BY <2>1, <3>1 DEF InHand, InLog
  <2>4. QED
    BY <2>1, <2>2, <2>3 DEF MissedInv, InLog
<1>6. ASSUME UNCHANGED <<cb, kind, valueString, json_data_buf, conn, frames, logged, missed>>,
             cb \in {"clear", "testTelemetry"} => param2' = param2
      PROVE  MissedInv'
  <2>1. InHand => InHand'
    BY <1>6 DEF InHand, Documents
  <2>2. \A f : InLog(f)' <=> InLog(f)
    BY <1>6 DEF InLog
  <2>3. QED
    BY <1>6, <2>1, <2>2 DEF MissedInv
<1>7. CASE MqttThread
  BY <1>0, <1>6, <1>7 DEF MqttThread, Poll, TakeTelemetry, PublishTelemetry, PollAttributes,
     TakeAttributes, MailStays, vars
<1>8. CASE Tick \/ Restore
  BY <1>0, <1>6, <1>8 DEF Tick, Restore, MailStays, vars
<1>9. CASE ServersChange
  <2>1. /\ UNCHANGED <<param2, cbVars, frames, logged>>
        /\ missed' = IF cb = "idle" THEN missed ELSE missed \ {frames}
    BY <1>9 DEF ServersChange
  <2>2. ASSUME NEW f \in missed' PROVE InLog(f)
    <3>1. f \in missed /\ (cb # "idle" => f # frames)
      BY <2>1, <2>2
    <3>2. QED
      BY <3>1 DEF MissedInv, InHand
  <2>3. \A f \in missed' : \E d \in logged' : d.frame = f
    BY <2>1, <2>2 DEF InLog
  <2>4. QED
    BY <2>3 DEF MissedInv, InLog
<1>10. CASE UNCHANGED vars
  BY <1>6, <1>10 DEF vars
<1>11. QED
  BY <1>1, <1>2, <1>3, <1>4, <1>5, <1>7, <1>8, <1>9, <1>10 DEF Next, Callback

\* If nobody changes param2 before it is tested, every telemetry frame that comes
\* and goes with no server up is logged, whatever buffers, servers, old copies
\* and the MQTT thread do otherwise.
THEOREM LoggedIfMailStays == Spec /\ [][MailStays]_vars => []MissedIsLogged
<1>1. Init => MissedInv
  BY DEF Init, MissedInv
<1>2. MissedInv => MissedIsLogged
  BY DEF MissedInv, MissedIsLogged, InHand, InLog
<1>3. QED
  BY TypeInit, TypeStep, MissedStep, <1>1, <1>2, PTL DEF Spec
=============================================================================
