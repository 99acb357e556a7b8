----------------------------- MODULE Telemetry -----------------------------
(***************************************************************************)
(* The way of a frame from the pump controller to the servers.             *)
(*                                                                         *)
(* ql_uart_notify_cb raises event_uart.param2 (1: telemetry, 2:            *)
(* attributes), lets ConvertJsonData fill json_data_buf as param2 says and *)
(* logs telemetry.  The MQTT thread polls param2, clears it and publishes  *)
(* the buffer.  timer_callback posts a copy of event_uart, param2          *)
(* included, to the UART thread, whose ql_event_try_wait puts it back over *)
(* event_uart later.  No lock protects param2 or the buffer.  The module    *)
(* follows the RMU from one reset to the next.                             *)
(*                                                                         *)
(* Actors: the callback (Receive .. LogTelemetry), the MQTT thread (Poll   *)
(* .. PublishAttributes), the timer and the UART thread (Tick, Restore)    *)
(* and the MQTT library (ServersChange).                                   *)
(***************************************************************************)
EXTENDS Integers, Sequences

CONSTANTS
  MaxFrames, \* bound: frames of a run
  MaxTicks   \* bound: timer events of a run

ASSUME BoundsAssumption == MaxFrames \in Nat /\ MaxTicks \in Nat

VARIABLES
  param2,        \* event_uart.param2
  posted,        \* the copy of param2 in the UART thread's event queue, or Nothing
  cb,            \* what the UART callback does,
  kind,          \* ... with a frame of this kind
  valueString,   \* the telemetry frame its values are from
  d_index,       \* the INDEX given last
  json_data_buf, \* the documents in the buffer
  mq,            \* what the MQTT thread does,
  loop,          \* ... in the loop of these servers
  conn,          \* the servers whose flags are up
  frames,        \* history: frames received
  ticks,         \* history: timer events
  published,     \* history: the telemetry documents published, per server
  logged,        \* history: those that went to the outage logs
  missed         \* history: telemetry frames that came and went with no server up

cbVars   == <<cb, kind, valueString, d_index, json_data_buf>>
mqttVars == <<mq, loop, published>>
vars == <<param2, posted, cbVars, mqttVars, conn, frames, ticks, logged, missed>>
-----------------------------------------------------------------------------
Server == {"TB", "SDM"}

\* param2 and its copy are those of Mailbox.
Mail       == INSTANCE Mailbox
Telemetry  == Mail!Telemetry
Attributes == Mail!Attributes
Kind       == Mail!Kind
Nothing    == Mail!Nothing

\* A telemetry document of the buffer, from the moment its INDEX is written, and
\* attributes, which have none.
Document == [frame : 0..MaxFrames, index : Nat]
Config   == [frame |-> 0, index |-> -1]
Documents(buffer) == {buffer[i] : i \in DOMAIN buffer} \ {Config}

\* INDEX is counted by ConvertJsonData.  One variant does so at its head, too,
\* as a line that is commented out did, one not at all, and one starts over at
\* MAXINDEX.
NextIndex_Twice == d_index + 2
NextIndex_Kept  == d_index
NextIndex_Daily == IF d_index = 1 THEN 0 ELSE d_index + 1
NextIndex       == d_index + 1

\* The mail a publish loop takes: the one for Sedem alone has no branch for
\* attributes.  The variant looks for them only.
Takes_AttributesOnly(servers, k) == k = Attributes /\ "TB" \in servers
Takes(servers, k) == servers # {} /\ (k = Telemetry \/ "TB" \in servers)
-----------------------------------------------------------------------------
Init ==
  /\ Mail!Init
  /\ cb = "idle" /\ kind = Telemetry /\ valueString = 0
  /\ d_index = 0 /\ json_data_buf = <<>>
  /\ mq = "poll" /\ loop = {}
  /\ conn \in SUBSET Server
  /\ frames = 0 /\ ticks = 0
  /\ published = [s \in Server |-> {}]
  /\ logged = {} /\ missed = {}
-----------------------------------------------------------------------------
\* ql_uart_notify_cb has a whole frame: it raises param2 and cuts the frame
\* into its values.
Receive(k) ==
  /\ cb = "idle" /\ frames < MaxFrames
  /\ frames' = frames + 1
  /\ Mail!Raise(k)
  /\ kind' = k
  /\ valueString' = IF k = Telemetry THEN frames + 1 ELSE valueString
  /\ missed' = IF k = Telemetry /\ conn = {} THEN missed \cup {frames + 1} ELSE missed
  /\ cb' = "clear"
  /\ UNCHANGED <<d_index, json_data_buf, mqttVars, conn, ticks, logged>>

\* ConvertJsonData clears the buffer ...
ClearBuffer ==
  /\ cb = "clear"
  /\ json_data_buf' = <<>>
  /\ cb' = "testTelemetry"
  /\ UNCHANGED <<param2, posted, kind, valueString, d_index, mqttVars, conn, frames,
                 ticks, logged, missed>>

\* ... writes a telemetry document if param2 still says so ...
TestTelemetry ==
  /\ cb = "testTelemetry"
  /\ IF param2 = Telemetry
       THEN /\ d_index' = NextIndex
            /\ json_data_buf' = <<[frame |-> valueString, index |-> NextIndex]>>
       ELSE UNCHANGED <<d_index, json_data_buf>>
  /\ cb' = "testAttributes"
  /\ UNCHANGED <<param2, posted, kind, valueString, mqttVars, conn, frames, ticks,
                 logged, missed>>

\* ... and an attributes document behind it if it says that by now.
TestAttributes ==
  /\ cb = "testAttributes"
  /\ json_data_buf' = IF param2 = Attributes THEN Append(json_data_buf, Config)
                                             ELSE json_data_buf
  /\ cb' = "log"
  /\ UNCHANGED <<param2, posted, kind, valueString, d_index, mqttVars, conn, frames,
                 ticks, logged, missed>>

\* A telemetry frame is logged if a server is down: whatever the buffer holds.
\* (StoreForward has the choice of the log in detail.)
LogTelemetry ==
  /\ cb = "log"
  /\ logged' = IF kind = Telemetry /\ conn # Server
                 THEN logged \cup Documents(json_data_buf) ELSE logged
  /\ cb' = "idle"
  /\ UNCHANGED <<param2, posted, kind, valueString, d_index, json_data_buf, mqttVars,
                 conn, frames, ticks, missed>>
-----------------------------------------------------------------------------
\* A publish loop looks for telemetry ...
Poll ==
  /\ mq = "poll" /\ conn # {}
  /\ loop' = conn
  /\ mq' = IF Takes(conn, Telemetry) /\ param2 = Telemetry THEN "takeTelemetry"
                                                           ELSE "pollAttributes"
  /\ UNCHANGED <<param2, posted, cbVars, published, conn, frames, ticks, logged, missed>>

\* ... clears param2 ...
TakeTelemetry ==
  /\ mq = "takeTelemetry"
  /\ Mail!Take
  /\ mq' = IF "TB" \in loop THEN "publishTB" ELSE "publishSDM"
  /\ UNCHANGED <<cbVars, loop, published, conn, frames, ticks, logged, missed>>

\* ... and publishes the buffer, as it is at that moment, to one server ...
PublishTelemetry(s) ==
  /\ mq = IF s = "TB" THEN "publishTB" ELSE "publishSDM"
  /\ published' = [published EXCEPT ![s] = @ \cup Documents(json_data_buf)]
  /\ mq' = IF s = "TB" /\ "SDM" \in loop THEN "publishSDM" ELSE "pollAttributes"
  /\ UNCHANGED <<param2, posted, cbVars, loop, conn, frames, ticks, logged, missed>>

\* ... and looks for attributes.
PollAttributes ==
  /\ mq = "pollAttributes"
  /\ mq' = IF Takes(loop, Attributes) /\ param2 = Attributes THEN "takeAttributes"
                                                             ELSE "poll"
  /\ loop' = {}
  /\ UNCHANGED <<param2, posted, cbVars, published, conn, frames, ticks, logged,
                 missed>>

TakeAttributes ==
  /\ mq = "takeAttributes"
  /\ Mail!Take
  /\ mq' = "poll"
  /\ UNCHANGED <<cbVars, loop, published, conn, frames, ticks, logged, missed>>

MqttThread == \/ Poll \/ TakeTelemetry \/ PollAttributes \/ TakeAttributes
              \/ \E s \in Server : PublishTelemetry(s)
-----------------------------------------------------------------------------
\* timer_callback posts event_uart ...
Tick ==
  /\ ticks < MaxTicks
  /\ ticks' = ticks + 1
  /\ Mail!Post
  /\ UNCHANGED <<cbVars, mqttVars, conn, frames, logged, missed>>

\* ... and ql_event_try_wait of the UART thread writes the copy back.
Restore ==
  /\ Mail!Restore
  /\ UNCHANGED <<cbVars, mqttVars, conn, frames, ticks, logged, missed>>

\* The flags of the servers change.
ServersChange ==
  /\ conn' \in SUBSET Server
  /\ missed' = IF cb = "idle" THEN missed ELSE missed \ {frames}
  /\ UNCHANGED <<param2, posted, cbVars, mqttVars, frames, ticks, logged>>

Callback == \/ \E k \in Kind : Receive(k)
            \/ ClearBuffer \/ TestTelemetry \/ TestAttributes \/ LogTelemetry

Next == Callback \/ MqttThread \/ Tick \/ Restore \/ ServersChange

Spec     == Init /\ [][Next]_vars
FairSpec == Spec /\ WF_vars(MqttThread)
-----------------------------------------------------------------------------
\* The telemetry documents that are in the buffer or got out of it.
Written == published["TB"] \cup published["SDM"] \cup logged
           \cup Documents(json_data_buf)

TypeOK ==
  /\ param2 \in {0} \cup Kind /\ posted \in {Nothing, 0} \cup Kind
  /\ cb \in {"idle", "clear", "testTelemetry", "testAttributes", "log"}
  /\ kind \in Kind /\ valueString \in 0..MaxFrames
  /\ d_index \in 0..frames
  /\ json_data_buf \in Seq(Document \cup {Config})
  /\ mq \in {"poll", "takeTelemetry", "publishTB", "publishSDM", "pollAttributes",
             "takeAttributes"}
  /\ loop \subseteq Server /\ conn \subseteq Server
  /\ frames \in 0..MaxFrames /\ ticks \in 0..MaxTicks
  /\ published \in [Server -> SUBSET Document] /\ logged \subseteq Document
  /\ missed \subseteq 1..MaxFrames

\* However param2 is lost, restored or taken too early: what a server or a log
\* gets under one INDEX, whole or torn, is from one frame.
OneFramePerIndex == \A d, e \in Written : d.index = e.index => d.frame = e.frame

\* The INDEX of the telemetry a server gets never goes back, also when a buffer
\* is published again.
IndexNeverGoesBack ==
  [][\A s \in Server : \A old \in published[s], new \in published'[s] \ published[s] :
       old.index <= new.index]_vars

\* Mail does not lie around in param2 while the servers of a loop that takes it
\* stay connected.
MailTaken ==
  \A servers \in SUBSET Server, k \in Kind :
    servers # {} /\ (k = Telemetry \/ "TB" \in servers) =>
      ~<>[](conn = servers /\ param2 = k)

\* "create log and append no network/server down log data": a telemetry frame
\* that comes while no server is connected is logged.
MissedIsLogged ==
  cb = "idle" =>
    \A f \in missed : \E d \in logged : d.frame = f
=============================================================================
