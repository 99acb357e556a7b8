----------------------------- MODULE UartTasks -----------------------------
(***************************************************************************)
(* The three actors of uart_demo.c together.                               *)
(*                                                                         *)
(* timer_callback counts the minutes of the hour and posts event_uart to   *)
(* the UART thread.  The thread takes the event and does the duties of the *)
(* minute: it asks the pump controller for attributes and telemetry, sends *)
(* it the time or the position, wants a heartbeat published, and raises    *)
(* flags for the MQTT thread.  It sleeps 5 s before each message, while    *)
(* the clock runs on and RPCs change the intervals.  ql_uart_notify_cb     *)
(* puts the frames of the controller together (UartFraming) and raises the *)
(* mail for the MQTT thread in event_uart, which all of them share; the    *)
(* thread and the callback also share the variables of get_time (TimeSync).*)
(*                                                                         *)
(* Time passes in slots of 5 s, and only while the UART thread sleeps or   *)
(* waits: what it does between two sleeps takes no time.  What the RMU     *)
(* does after the callback has written beyond the end of its buffer is     *)
(* undefined and not modelled, until the RMU restarts.                     *)
(***************************************************************************)
EXTENDS Integers, Sequences

CONSTANTS
  Hour,       \* minutes the counter counts (60 in the code)
  Period,     \* slots of a minute (12)
  EventCount, \* depth of the thread's event queue (QL_UART_TASK_EVENT_CNT, 5)
  RpcValues,  \* the numbers an RPC may give for an interval
  TelemetrySize, AttributesSize, Threshold, BufferSize, LineSize, \* of UartFraming
  Times       \* of TimeSync

ASSUME HourAssumption   == Hour \in Nat /\ Hour > 1
ASSUME PeriodAssumption == Period \in Nat /\ Period > 5
ASSUME EventAssumption  == EventCount \in Nat \ {0}
ASSUME ValueAssumption  == RpcValues \subseteq Nat
ASSUME SizeAssumption   ==
  /\ {TelemetrySize, AttributesSize, Threshold, BufferSize, LineSize} \subseteq Nat
  /\ 1 < AttributesSize /\ AttributesSize <= Threshold /\ Threshold < TelemetrySize
  /\ TelemetrySize <= BufferSize
ASSUME TimesAssumption  == Times \subseteq [day : Nat, hour : 0..23, min : 0..59]

VARIABLES
  count,      \* count: the minute the timer posts next
  slot,       \* slots since the timer fired last
  param1,     \* event_uart.param1
  param2,     \* event_uart.param2
  queue,      \* the events of the UART thread: copies of event_uart
  pc,         \* the duty the UART thread is at, or "poll"
  nap,        \* slots it has still to sleep before that duty, or Unslept
  raised,     \* the flags raised in this minute
  pdata_int,  \* minutes between two requests for telemetry
  hdata_int,  \* minutes between two heartbeats
  said,       \* history: the thread wrote to the controller in this slot
  quiet,      \* history: minutes handled since the last request for telemetry
  line, rcv_data_buf, collect, frame, alone, torn, overrun, \* of UartFraming
  networkStatus, tm, ist, clock, g_dt_tm, call, stamp \* of TimeSync

frameVars  == <<line, rcv_data_buf, collect, frame, alone, torn, overrun>>
clockVars  == <<networkStatus, tm, ist, clock, g_dt_tm, call, stamp>>
threadVars == <<pc, nap, raised, said, quiet>>
vars == <<count, slot, param1, param2, queue, threadVars, pdata_int, hdata_int,
          frameVars, clockVars>>
-----------------------------------------------------------------------------
Frames == INSTANCE UartFraming WITH
            line <- line, rcv_data_buf <- rcv_data_buf, collect <- collect,
            frame <- frame, alone <- alone, torn <- torn, overrun <- overrun
Table  == INSTANCE MinuteTable WITH
            NNW <- "NNW", TBNNW <- "TBNNW", SDNNW <- "SDNNW"
Clock  == INSTANCE TimeSync WITH
            networkStatus <- networkStatus, tm <- tm, ist <- ist, clock <- clock,
            g_dt_tm <- g_dt_tm, call <- call, stamp <- stamp

\* The mailbox, as the rest of the RMU sees it.
Nothing == -1
Mail == INSTANCE Mailbox WITH
          param2 <- param2,
          posted <- IF queue = <<>> THEN Nothing ELSE queue[1].param2

\* The duties in the order of the code.  The time is not sent in the minutes
\* that send the position.  The variant leaves the minute after the position.
Duty == {"attributes", "periodic", "heartbeat", "time", "gps", "flags"}
After_Position(d) == CASE d = "attributes" -> "periodic"
                       [] d = "periodic"   -> "heartbeat"
                       [] d = "heartbeat"  -> "time"
                       [] d = "time"       -> "gps"
                       [] OTHER            -> "poll"
After(d) == CASE d = "attributes" -> "periodic"
              [] d = "periodic"   -> "heartbeat"
              [] d = "heartbeat"  -> "time"
              [] d = "time"       -> "gps"
              [] d = "gps"        -> "flags"
              [] OTHER            -> "poll"
Writes   == {"attributes", "periodic", "time", "gps"}
GpsMinute == {5, 7}
Unslept   == -1

\* The test of a duty comes out this way.  A division by an interval of 0 is
\* undefined: the test comes out either way (or stops the RMU: PowerCycle).
Divides(i, outcome) == IF i = 0 THEN TRUE ELSE outcome = (param1 % i = 0)
Due(d, outcome) ==
  CASE d = "attributes" -> outcome = (param1 = 1)
    [] d = "periodic"   -> Divides(pdata_int, outcome)
    [] d = "heartbeat"  -> IF param1 = 0 THEN outcome = FALSE
                                         ELSE Divides(hdata_int, outcome)
    [] d = "time"       -> outcome = (param1 \notin GpsMinute)
    [] d = "gps"        -> outcome = (param1 \in GpsMinute)
    [] OTHER            -> outcome = FALSE

\* The minute the timer posts.  The variant lets the counter run one too far.
Posted_Late == IF count > Hour THEN 0 ELSE count
Posted      == IF count >= Hour THEN 0 ELSE count

\* The event of this minute: event_uart as it is.  The variant posts a fresh one.
Copied_Fresh == [param1 |-> Posted, param2 |-> 0]
Copied       == [param1 |-> Posted, param2 |-> param2]

\* A duty begins with a sleep of 5 s.  The variants send the request for
\* telemetry at once, and sleep for a minute.
NapBefore_Rushed(d) == IF d = "periodic" THEN 0 ELSE 1
NapBefore_Minute(d) == Period
NapBefore(d)        == 1

\* An interval is a char: an RPC's number is cut to 8 bits.  (0 stands for one
\* an RPC left at a multiple of 256.)
Char(v) == v % 256

\* read_config_fileUFS replaces an interval of 0 by 10 minutes.
Healed(v) == IF Char(v) = 0 THEN 10 ELSE Char(v)

\* What the thread raises in minute m besides the heartbeat.
FlagsOf(m) == {f \in {"names"} : Table!NamesLogs(m)}
              \cup Table!RetryRaised(m) \cup Table!ReplayRaised(m)
-----------------------------------------------------------------------------
Init ==
  /\ count = 0 /\ slot = 0
  /\ param1 = 0 /\ param2 = 0 /\ queue = <<>>
  /\ pc = "poll" /\ nap = Unslept /\ raised = {}
  /\ pdata_int = 10 /\ hdata_int = 3
  /\ said = FALSE /\ quiet = 0
  /\ Frames!Init /\ Clock!Init
-----------------------------------------------------------------------------
\* Nothing keeps the UART thread busy: it sleeps, or polls without an event.
Idle == ~Clock!Busy("thread") /\ (nap > 0 \/ (pc = "poll" /\ queue = <<>>))

\* 5 s pass; a sleep ends.
TimePasses ==
  /\ slot < Period /\ Idle
  /\ slot' = slot + 1
  /\ nap' = IF nap > 0 THEN nap - 1 ELSE nap
  /\ said' = FALSE
  /\ UNCHANGED <<count, param1, param2, queue, pc, raised, quiet, pdata_int,
                 hdata_int, frameVars, clockVars>>

\* timer_callback: an event the queue has no room for is lost.
Tick ==
  /\ slot = Period
  /\ slot' = 0
  /\ param1' = Posted /\ count' = Posted + 1
  /\ queue' = IF Len(queue) < EventCount THEN Append(queue, Copied) ELSE queue
  /\ UNCHANGED <<param2, threadVars, pdata_int, hdata_int, frameVars, clockVars>>

\* ql_event_try_wait writes the event over event_uart.
Poll ==
  /\ pc = "poll" /\ queue # <<>> /\ ~Clock!Busy("thread")
  /\ param1' = Head(queue).param1 /\ param2' = Head(queue).param2
  /\ queue' = Tail(queue)
  /\ pc' = "attributes" /\ raised' = {}
  /\ UNCHANGED <<count, slot, nap, said, quiet, pdata_int, hdata_int, frameVars, clockVars>>

\* The thread calls get_time in every turn of its loop.
ReadClock ==
  /\ pc = "poll"
  /\ Clock!Refresh("thread")
  /\ UNCHANGED <<count, slot, param1, param2, queue, threadVars, pdata_int, hdata_int,
                 frameVars>>

\* A duty is due: the thread goes to sleep; before it sends the time, it calls
\* get_time first ...
Sleep(d) ==
  /\ pc = d /\ nap = Unslept /\ Due(d, TRUE)
  /\ nap' = NapBefore(d)
  /\ IF d = "time" THEN Clock!Synchronise("thread") ELSE UNCHANGED clockVars
  /\ UNCHANGED <<count, slot, param1, param2, queue, pc, raised, said, quiet,
                 pdata_int, hdata_int, frameVars>>

\* ... and then writes to the controller, or asks for a heartbeat.
Perform(d) ==
  /\ pc = d /\ nap = 0
  /\ pc' = After(d) /\ nap' = Unslept
  /\ said' = (said \/ d \in Writes)
  /\ quiet' = IF d = "periodic" THEN 0 ELSE quiet
  /\ raised' = raised \cup {f \in {"names"} : d = "attributes"}
                    \cup {f \in {"hdata_onceupdate"} : d = "heartbeat"}
  /\ UNCHANGED <<count, slot, param1, param2, queue, pdata_int, hdata_int, frameVars, clockVars>>

\* A duty is not due.  A minute without a request counts, unless its interval
\* is 0.
Skip(d) ==
  /\ pc = d /\ d # "flags" /\ nap = Unslept /\ Due(d, FALSE)
  /\ pc' = After(d)
  /\ quiet' = IF d # "periodic" THEN quiet ELSE IF pdata_int = 0 THEN 0 ELSE quiet + 1
  /\ UNCHANGED <<count, slot, param1, param2, queue, nap, raised, said, pdata_int,
                 hdata_int, frameVars, clockVars>>

\* The retry and replay flags come last.
Flags ==
  /\ pc = "flags"
  /\ pc' = "poll"
  /\ raised' = raised \cup Table!RetryRaised(param1) \cup Table!ReplayRaised(param1)
  /\ UNCHANGED <<count, slot, param1, param2, queue, nap, said, quiet, pdata_int,
                 hdata_int, frameVars, clockVars>>

UartThread == Poll \/ ReadClock \/ Flags \/ \E d \in Duty : Sleep(d) \/ Perform(d) \/ Skip(d)
-----------------------------------------------------------------------------
\* The controller and the driver.
Controller ==
  /\ \/ \E k \in Frames!Kind : Frames!Send(k)
     \/ \E n \in 1..Len(line) : Frames!Overflow(n)
  /\ UNCHANGED <<count, slot, param1, param2, queue, threadVars, pdata_int, hdata_int,
                 clockVars>>

\* ql_uart_notify_cb; Telemetry has what else it does with a complete string.
Callback(n) ==
  /\ ~Clock!Busy("callback")
  /\ Frames!Receive(n)
  /\ param2' = IF Frames!Completes(n) THEN Frames!KindOf(rcv_data_buf') ELSE param2
  /\ IF Frames!Completes(n) THEN Clock!Synchronise("callback") ELSE UNCHANGED clockVars
  /\ UNCHANGED <<count, slot, param1, queue, threadVars, pdata_int, hdata_int>>

\* The calls of get_time go on, the receiver and the module's clock run.
ClockSteps ==
  /\ (\E p \in Clock!Caller : Clock!Step(p)) \/ Clock!Gnss \/ Clock!ClockRuns
  /\ UNCHANGED <<count, slot, param1, param2, queue, threadVars, pdata_int, hdata_int,
                 frameVars>>

\* A publish loop of the MQTT thread clears the mail.
Take ==
  /\ param2 # 0
  /\ param2' = 0
  /\ UNCHANGED <<count, slot, param1, queue, threadVars, pdata_int, hdata_int, frameVars, clockVars>>

\* RPCs set the intervals; a lookup of the configuration reads one of them back.
SetInterval ==
  /\ \E v \in RpcValues :
       \/ pdata_int' \in {Char(v), Healed(v)} /\ UNCHANGED hdata_int
       \/ hdata_int' = Char(v) /\ UNCHANGED pdata_int
  /\ UNCHANGED <<count, slot, param1, param2, queue, threadVars, frameVars, clockVars>>

PowerCycle ==
  /\ count' = 0 /\ slot' = 0
  /\ param1' = 0 /\ param2' = 0 /\ queue' = <<>>
  /\ pc' = "poll" /\ nap' = Unslept /\ raised' = {}
  /\ pdata_int' = 10 /\ hdata_int' = 3
  /\ said' = FALSE /\ quiet' = 0
  /\ Frames!Restart /\ Clock!Restart

RMU ==
  \/ TimePasses \/ Tick \/ UartThread
  \/ (\E n \in 1..Len(line) : Callback(n))
  \/ ClockSteps \/ Take \/ SetInterval

Next == (~overrun /\ RMU) \/ Controller \/ PowerCycle

Spec == Init /\ [][Next]_vars
-----------------------------------------------------------------------------
Event == [param1 : 0..Hour - 1, param2 : {0} \cup Frames!Kind]

TypeOK ==
  /\ count \in 0..Hour /\ slot \in 0..Period
  /\ param1 \in 0..Hour - 1 /\ param2 \in {0} \cup Frames!Kind
  /\ queue \in Seq(Event) /\ Len(queue) <= EventCount
  /\ pc \in Duty \cup {"poll"} /\ nap \in {Unslept, 0, 1}
  /\ raised \subseteq {"names", "hdata_onceupdate", "TB", "SDM", "NNW", "TBNNW", "SDNNW"}
  /\ pdata_int \in 0..255 /\ hdata_int \in 0..255
  /\ said \in BOOLEAN /\ quiet \in Nat
  /\ Frames!TypeOK /\ Clock!TypeOK

\* All duties of a minute, sleeps included, are done when the timer fires again:
\* no event waits behind another, none is lost, and no test of a duty sees the
\* next minute.
DoneInTime == slot = Period => pc = "poll" /\ queue = <<>>

\* The controller has 5 s for every message of the UART thread.
MessagesApart == pc \in Writes /\ nap = 0 => ~said

\* The flags a minute raises are those of that minute and no other, however its
\* duties and the timer interleave.
RaisesItsFlags ==
  pc = "poll" /\ queue = <<>> /\ count # 0 =>
    raised \ {"hdata_onceupdate"} = FlagsOf(count - 1)

\* Whatever RPCs make of the interval, and whenever they change it, telemetry is
\* asked for at least once an hour: only a division by 0 can prevent it.
AskedHourly == quiet < Hour

\* Until the buffer is overrun, a frame is collected and nothing is lost or glued
\* in between; and what it takes to overrun the buffer.
FrameCollected == Frames!FrameCollected
NoGap          == Frames!NoGap
RoomForAFrame  == Frames!RoomForAFrame

\* Which instant the stamp of a call of get_time names that nobody interfered with.
IstInstant == Clock!IstInstant

\* The timer and the thread offer the mailbox that Telemetry builds on: never
\* more than one old copy of param2.
ImplementsMailbox == Mail!Spec
=============================================================================
