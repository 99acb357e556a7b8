---------------------------- MODULE StoreForward ----------------------------
(***************************************************************************)
(* The outage logs of the RMU and their replay.                            *)
(*                                                                         *)
(* While a server is down the UART callback appends every telemetry line   *)
(* to one of three SD-card logs of the day (NNW: no server, TBNNW: Things- *)
(* board missed it, SDNNW: Sedem missed it).  At fixed minutes the UART    *)
(* thread asks for a replay of a log; the MQTT thread then copies the log  *)
(* into the queue recvr_Sd_Data, publishes one packet per turn of its loop *)
(* and deletes the log when the two packet counters agree.                 *)
(*                                                                         *)
(* Actors: the MQTT thread (StartAgain .. Compare), the 1-minute timer and *)
(* the UART thread's handler (Minute), the UART receive callback (RxFrame, *)
(* RxCheck), the MQTT library (Disconnect), the date and the power supply. *)
(***************************************************************************)
EXTENDS Integers, Sequences, FiniteSets

CONSTANTS
  Numval,          \* fgets calls of a replay after the first one (650 in the code)
  QueueCapacity,   \* depth of the queue recvr_Sd_Data (650 in the code)
  MaxDay,          \* bound: the dates of a run are 1..MaxDay
  MaxFrames,       \* bound: telemetry frames of a run
  Minutes,         \* the values of the minute counter a run visits, ascending
  MaxTicks,        \* bound: timer events of a run
  EofKeepsBuffer   \* does ql_fgets leave its buffer unchanged at end of file?

ASSUME NumvalAssumption   == Numval \in Nat
ASSUME CapacityAssumption == QueueCapacity \in Nat \ {0}
ASSUME DayAssumption      == MaxDay \in Nat \ {0}
ASSUME FramesAssumption   == MaxFrames \in Nat
ASSUME MinutesAssumption  == Minutes \in Seq(0..59) /\ Len(Minutes) > 0
ASSUME TicksAssumption    == MaxTicks \in Nat
ASSUME EofAssumption      == EofKeepsBuffer \in BOOLEAN

VARIABLES
  conn,                    \* mqtt_connected / mqtt_connected_sdm, per server
  loop,                    \* which part of mqtt_app_thread runs
  step,                    \* where inside that loop body it is
  slot,                    \* the log whose replay flag the body looks at
  repub,                   \* DataRepubFlag, DataRepubFlag_TB, DataRepubFlag_SDM
  retry,                   \* Retry_server_flag_Thingboard, Retry_server_flag
  NOntwrk_data_flag,       \* which log the queued packets are taken to be from
  recvr_Sd_Data,           \* the replay queue
  sd_buffer_rcvr,          \* the line buffer of the replay
  replay,                  \* the open log: date, lines read, fgets calls made
  NumberOFLinesinFile,     \* lines the replays have counted
  NumberofPacketsInQueue,  \* packets taken off the queue
  cmpr,                    \* dates in the three sd_Nnw*Path_name_cmpr names
  file,                    \* the logs on the SD card, per kind and date
  today,                   \* the date in tm
  minute,                  \* position of the minute counter in Minutes
  rx,                      \* progress of ql_sdmmc_fs_NetworkLog, its line, and
                           \* (history) the servers it still owes the line to
                           \* and those that connected meanwhile
  frames,                  \* telemetry frames so far
  ticks,                   \* timer events so far
  dropped,                 \* history: counted lines the full queue refused
  published                \* history: <<server, line>> acknowledged

ramVars  == <<conn, loop, step, slot, repub, retry, NOntwrk_data_flag,
              recvr_Sd_Data, sd_buffer_rcvr, replay, NumberOFLinesinFile,
              NumberofPacketsInQueue, cmpr, minute, rx, dropped>>
diskVars == <<file, today, frames, ticks, published>>
vars     == <<ramVars, diskVars>>

mqttVars   == <<loop, step, slot>>
replayVars == <<NOntwrk_data_flag, recvr_Sd_Data, sd_buffer_rcvr, replay,
                NumberOFLinesinFile, NumberofPacketsInQueue, dropped>>
-----------------------------------------------------------------------------
\* The sessions and the thread's place are those of Connectivity.
Link == INSTANCE Connectivity WITH conn <- conn, loop <- loop

Server == {"TB", "SDM"}

\* The logs carry the codes NOntwrk_data_flag gives them.
NNW   == 1
TBNNW == 2
SDNNW == 3
Log   == {NNW, TBNNW, SDNNW}
Table == INSTANCE MinuteTable
Days  == 1..MaxDay

\* A line is Short when strlen < 500; every longer line has its own identity.
Short   == 0
Line    == 0..MaxFrames
Long(l) == l # Short

\* No call of ql_sdmmc_fs_NetworkLog is in progress.
Idle == [check |-> 0, line |-> Short, owed |-> {}, joined |-> {}]

\* The number of packets of a queue that are long enough to be published.
LongPositions(q) == {i \in 1..Len(q) : Long(q[i])}
LongCount(q)     == Cardinality(LongPositions(q))

\* publish_missed_Packets: the servers a replay under this flag publishes to.
Targets(flag) == CASE flag = NNW   -> Server
                   [] flag = TBNNW -> {"TB"}
                   [] flag = SDNNW -> {"SDM"}
                   [] OTHER        -> {}

\* Connected_server, as the log a telemetry line belongs to (0: none).
LogOf(c) == IF ~c["TB"] /\ ~c["SDM"] THEN NNW
            ELSE IF ~c["TB"]  THEN TBNNW
            ELSE IF ~c["SDM"] THEN SDNNW
            ELSE 0

\* The replay flags each publish loop looks at; it deletes the same logs.
Handles(l) == CASE l = "both" -> Log
                [] l = "tb"   -> {NNW, TBNNW}
                [] OTHER      -> {NNW, SDNNW}

\* What a line adds to NumberOFLinesinFile.  The variant counts a line only
\* when the queue can take it.
Counted_Accepted(l) == IF Long(l) /\ Len(recvr_Sd_Data) < QueueCapacity THEN 1 ELSE 0
Counted(l)          == IF Long(l) THEN 1 ELSE 0

\* The packet just taken is the last one counted.  The variant accepts a
\* counter that is one short.
AllTaken_Early == NumberOFLinesinFile <= NumberofPacketsInQueue + 1
AllTaken       == NumberOFLinesinFile = NumberofPacketsInQueue

\* The queue now holds packets of log k.  The variant forgets to say so.
LabelQueue_Forgotten(k) == NOntwrk_data_flag' = NOntwrk_data_flag
LabelQueue(k)           == NOntwrk_data_flag' = k

\* The minute counter starts over after its last value.  The variant resets
\* it one minute late.
NextMinute_Late == IF minute > Len(Minutes) THEN 1 ELSE minute + 1
NextMinute      == IF minute = Len(Minutes) THEN 1 ELSE minute + 1

\* The logs in the order NetworkLog asks for them.  The variant asks first
\* whether no server is up.
Asked_NoneFirst == <<NNW, TBNNW, SDNNW>>
Asked           == <<TBNNW, SDNNW, NNW>>

\* The file a name buffer names exists.
Exists(k) == cmpr[k] \in Days /\ file[k][cmpr[k]] # <<>>
-----------------------------------------------------------------------------
Init ==
  /\ conn = [s \in Server |-> FALSE]
  /\ loop = "startAgain" /\ step = "test" /\ slot = NNW
  /\ repub = [k \in Log |-> FALSE]
  /\ retry = [s \in Server |-> FALSE]
  /\ NOntwrk_data_flag = 0
  /\ recvr_Sd_Data = <<>> /\ sd_buffer_rcvr = Short
  /\ replay = [day |-> 1, pos |-> 0, calls |-> 0]
  /\ NumberOFLinesinFile = 0 /\ NumberofPacketsInQueue = 0
  /\ cmpr = [k \in Log |-> 0]
  /\ minute = 1
  /\ rx = Idle
  /\ dropped = 0
  /\ file = [k \in Log |-> [d \in Days |-> <<>>]]
  /\ today = 1
  /\ frames = 0
  /\ ticks = 0
  /\ published = {}
-----------------------------------------------------------------------------
\* startAgain: the retry flag of Sedem is cleared before the connections are
\* made; the one of Thingsboard is not.
StartAgain ==
  /\ Link!StartAgain
  /\ retry' = [retry EXCEPT !["SDM"] = FALSE]
  /\ UNCHANGED <<step, slot, repub, replayVars, cmpr, minute, rx, diskVars>>

\* A round of connecting makes the servers connected one by one, or not; it
\* ends in the first publish loop.  A line that is being logged just then is
\* owed to that server no more.
Connect ==
  /\ \/ \E s \in Server :
          /\ ~conn[s]
          /\ Link!ConnectServer(s)
          /\ rx' = IF rx.check = 0 THEN rx
                   ELSE [rx EXCEPT !.owed = @ \ {s}, !.joined = @ \cup {s}]
     \/ Link!Proceed /\ UNCHANGED rx
  /\ UNCHANGED <<step, slot, repub, retry, replayVars, cmpr, minute, diskVars>>

\* The condition of a publish loop: the body, or on to the next loop.  Only
\* the two single-server loops look at a retry flag.
EnterLoop ==
  /\ loop \in Link!PublishLoop /\ step = "test"
  /\ Link!LoopCondition(loop)
  /\ step' = IF loop = "both" THEN "repub" ELSE "retry"
  /\ slot' = NNW
  /\ UNCHANGED <<conn, loop, repub, retry, replayVars, cmpr, minute, rx, diskVars>>

LeaveLoop ==
  /\ step = "test"
  /\ Link!LeaveLoop
  /\ UNCHANGED <<step, slot, repub, retry, replayVars, cmpr, minute, rx, diskVars>>

\* No server: airplane_mode and startAgain.
NoServer ==
  /\ Link!NoServer
  /\ UNCHANGED <<step, slot, repub, retry, replayVars, cmpr, minute, rx, diskVars>>

\* With one server up, its loop refreshes the modem when the other server's
\* retry flag is set.
RetryServer ==
  /\ step = "retry"
  /\ LET down == IF loop = "tb" THEN "SDM" ELSE "TB"
     IN \/ /\ retry[down]
           /\ retry' = [retry EXCEPT ![down] = FALSE]
           /\ step' = "test"
           /\ Link!Refresh
        \/ /\ ~retry[down]
           /\ step' = "repub"
           /\ UNCHANGED <<retry, conn, loop>>
  /\ UNCHANGED <<slot, repub, replayVars, cmpr, minute, rx, diskVars>>

\* On to the next replay flag this loop handles, or to the queue.
NextSlot ==
  LET later == {k \in Handles(loop) : k > slot}
  IN IF later = {}
       THEN step' = "drain" /\ UNCHANGED slot
       ELSE /\ step' = "repub"
            /\ slot' \in later /\ \A k \in later : slot' <= k

SkipReplay ==
  /\ step = "repub" /\ ~repub[slot]
  /\ NextSlot
  /\ UNCHANGED <<conn, loop, repub, retry, replayVars, cmpr, minute, rx, diskVars>>

\* The flag is set and there is no log under the remembered name, or it cannot
\* be read: nothing is queued, and the packets still queued now count as
\* packets of this log.
ReplayNothing ==
  /\ step = "repub" /\ repub[slot]
  /\ repub' = [repub EXCEPT ![slot] = FALSE]
  /\ LabelQueue(slot)
  /\ NextSlot
  /\ UNCHANGED <<conn, loop, retry, recvr_Sd_Data, sd_buffer_rcvr, replay,
                 NumberOFLinesinFile, NumberofPacketsInQueue, dropped,
                 cmpr, minute, rx, diskVars>>

\* read_logged_files_toRetry opens the log ...
ReplayOpen ==
  /\ step = "repub" /\ repub[slot] /\ Exists(slot)
  /\ step' = "read"
  /\ replay' = [day |-> cmpr[slot], pos |-> 0, calls |-> 0]
  /\ UNCHANGED <<conn, loop, slot, repub, retry, NOntwrk_data_flag, recvr_Sd_Data,
                 sd_buffer_rcvr, NumberOFLinesinFile, NumberofPacketsInQueue,
                 dropped, cmpr, minute, rx, diskVars>>

\* ... reads a line, offers it to the queue without waiting and counts it
\* whether or not the queue took it ...
ReplayLine ==
  /\ step = "read" /\ replay.calls <= Numval
  /\ LET log == file[slot][replay.day]
         eof == replay.pos >= Len(log)
         buf == IF ~eof THEN log[replay.pos + 1]
                ELSE IF EofKeepsBuffer THEN sd_buffer_rcvr ELSE Short
         full == Len(recvr_Sd_Data) >= QueueCapacity
     IN /\ sd_buffer_rcvr' = buf
        /\ recvr_Sd_Data' = IF full THEN recvr_Sd_Data ELSE Append(recvr_Sd_Data, buf)
        /\ NumberOFLinesinFile' = NumberOFLinesinFile + Counted(buf)
        /\ dropped' = dropped + IF Long(buf) /\ full THEN 1 ELSE 0
        /\ replay' = [replay EXCEPT !.pos = IF eof THEN @ ELSE @ + 1, !.calls = @ + 1]
  /\ UNCHANGED <<conn, loop, step, slot, repub, retry, NOntwrk_data_flag,
                 NumberofPacketsInQueue, cmpr, minute, rx, diskVars>>

\* ... and at last clears the replay flag and labels the queue.
ReplayDone ==
  /\ step = "read" /\ replay.calls > Numval
  /\ sd_buffer_rcvr' = Short
  /\ repub' = [repub EXCEPT ![slot] = FALSE]
  /\ LabelQueue(slot)
  /\ NextSlot
  /\ UNCHANGED <<conn, loop, retry, recvr_Sd_Data, replay, NumberOFLinesinFile,
                 NumberofPacketsInQueue, dropped, cmpr, minute, rx, diskVars>>

\* ql_remove of the log under the remembered name; the loop deletes only the
\* logs it handles, and the SD card may refuse.
RemoveLog(k) ==
  \/ /\ k \in Handles(loop) /\ Exists(k)
     /\ file' = [file EXCEPT ![k][cmpr[k]] = <<>>]
  \/ UNCHANGED file

\* A packet of at least 500 characters is counted and published to the
\* servers the flag names; a publish that fails is not noticed.
DrainPacket ==
  /\ step = "drain" /\ recvr_Sd_Data # <<>> /\ Long(Head(recvr_Sd_Data))
  /\ step' = "compare"
  /\ recvr_Sd_Data' = Tail(recvr_Sd_Data)
  /\ NumberofPacketsInQueue' = NumberofPacketsInQueue + 1
  /\ \E ok \in SUBSET {s \in Targets(NOntwrk_data_flag) : conn[s]} :
       published' = published \cup (ok \X {Head(recvr_Sd_Data)})
  /\ UNCHANGED <<conn, loop, slot, repub, retry, NOntwrk_data_flag, sd_buffer_rcvr,
                 replay, NumberOFLinesinFile, cmpr, minute, rx, file, today,
                 frames, ticks, dropped>>

\* After the wait for the publish results: when the counters agree, the log is
\* deleted and the replay state is reset.
Compare ==
  /\ step = "compare"
  /\ step' = "test"
  /\ IF AllTaken
       THEN /\ RemoveLog(NOntwrk_data_flag)
            /\ NOntwrk_data_flag' = 0
            /\ NumberOFLinesinFile' = 0 /\ NumberofPacketsInQueue' = 0
       ELSE UNCHANGED <<file, NOntwrk_data_flag, NumberOFLinesinFile,
                        NumberofPacketsInQueue>>
  /\ UNCHANGED <<conn, loop, slot, repub, retry, recvr_Sd_Data, sd_buffer_rcvr,
                 replay, dropped, cmpr, minute, rx, today, frames, ticks, published>>

\* The wait times out, or yields a short line that is thrown away.
DrainNothing ==
  /\ step = "drain"
  /\ \/ recvr_Sd_Data = <<>> /\ UNCHANGED recvr_Sd_Data
     \/ /\ recvr_Sd_Data # <<>> /\ ~Long(Head(recvr_Sd_Data))
        /\ recvr_Sd_Data' = Tail(recvr_Sd_Data)
  /\ step' = "test"
  /\ UNCHANGED <<conn, loop, slot, repub, retry, NOntwrk_data_flag, sd_buffer_rcvr,
                 replay, NumberOFLinesinFile, NumberofPacketsInQueue, dropped,
                 cmpr, minute, rx, diskVars>>

MqttThread ==
  \/ StartAgain \/ Connect \/ EnterLoop \/ LeaveLoop \/ NoServer \/ RetryServer
  \/ SkipReplay \/ ReplayNothing \/ ReplayOpen \/ ReplayLine \/ ReplayDone
  \/ DrainPacket \/ Compare \/ DrainNothing
-----------------------------------------------------------------------------
\* The timer fires and the UART thread handles the minute: it renames the
\* logs to replay at minute 1 and raises the retry and replay flags.
Minute ==
  LET m == Minutes[minute]
  IN /\ ticks < MaxTicks
     /\ ticks' = ticks + 1
     /\ minute' = NextMinute
     /\ cmpr' = IF Table!NamesLogs(m) THEN [k \in Log |-> today] ELSE cmpr
     /\ retry' = [s \in Server |-> retry[s] \/ s \in Table!RetryRaised(m)]
     /\ repub' = [k \in Log |-> repub[k] \/ k \in Table!ReplayRaised(m)]
     /\ UNCHANGED <<conn, mqttVars, replayVars, rx, file, today, frames, published>>

\* ql_sdmmc_fs_NetworkLog asks Connected_server three times and appends the
\* line each time the answer fits.  It returns early when the SD card refuses
\* the line.  The question for a server's own log is the moment from which a
\* connection of the other one matters.
Check(i, line, owed, joined) ==
  LET k == Asked[i]
      owing == IF LogOf(conn) = k THEN owed \ Targets(k) ELSE owed
      next == IF i = 3 /\ owing = {} THEN Idle
              ELSE [check  |-> IF i = 3 THEN 0 ELSE i + 1,
                    line   |-> IF i = 3 THEN Short ELSE line,
                    owed   |-> owing,
                    joined |-> joined \ (Server \ Targets(k))]
  IN \/ /\ LogOf(conn) = k
        /\ file' = [file EXCEPT ![k][today] = Append(@, line)] /\ rx' = next
     \/ /\ LogOf(conn) = k
        /\ UNCHANGED file /\ rx' = Idle
     \/ /\ LogOf(conn) # k
        /\ UNCHANGED file /\ rx' = next

\* A telemetry frame arrives; its line is short when the JSON buffer is empty.
\* It is owed to the servers that are down.
RxFrame ==
  /\ rx.check = 0 /\ frames < MaxFrames
  /\ frames' = frames + 1
  /\ \E line \in {Short, frames + 1} : Check(1, line, {s \in Server : ~conn[s]}, {})
  /\ UNCHANGED <<conn, mqttVars, repub, retry, replayVars, cmpr, minute, today,
                 ticks, published>>

RxCheck ==
  /\ rx.check \in {2, 3}
  /\ Check(rx.check, rx.line, rx.owed, rx.joined)
  /\ UNCHANGED <<conn, mqttVars, repub, retry, replayVars, cmpr, minute,
                 today, frames, ticks, published>>

\* mqtt_state_exception_cb, mqtt_state_exception_cb_sdm.
Disconnect(s) ==
  /\ conn[s]
  /\ Link!Disconnect(s)
  /\ UNCHANGED <<step, slot, repub, retry, replayVars, cmpr, minute, rx, diskVars>>

Midnight ==
  /\ today < MaxDay
  /\ today' = today + 1
  /\ UNCHANGED <<ramVars, file, frames, ticks, published>>

\* A power cut: the SD card is all that survives.
PowerCycle ==
  /\ conn' = [s \in Server |-> FALSE]
  /\ loop' = "startAgain" /\ step' = "test" /\ slot' = NNW
  /\ repub' = [k \in Log |-> FALSE]
  /\ retry' = [s \in Server |-> FALSE]
  /\ NOntwrk_data_flag' = 0
  /\ recvr_Sd_Data' = <<>> /\ sd_buffer_rcvr' = Short
  /\ replay' = [day |-> 1, pos |-> 0, calls |-> 0]
  /\ NumberOFLinesinFile' = 0 /\ NumberofPacketsInQueue' = 0
  /\ cmpr' = [k \in Log |-> 0]
  /\ minute' = 1
  /\ rx' = Idle
  /\ dropped' = 0
  /\ UNCHANGED diskVars

Next ==
  \/ MqttThread
  \/ Minute \/ RxFrame \/ RxCheck
  \/ \E s \in Server : Disconnect(s)
  \/ Midnight \/ PowerCycle

Spec == Init /\ [][Next]_vars
-----------------------------------------------------------------------------
TypeOK ==
  /\ conn \in [Server -> BOOLEAN]
  /\ loop \in {"startAgain", "connect", "both", "tb", "sdm", "none"}
  /\ step \in {"test", "retry", "repub", "read", "drain", "compare"}
  /\ slot \in Log
  /\ repub \in [Log -> BOOLEAN]
  /\ retry \in [Server -> BOOLEAN]
  /\ NOntwrk_data_flag \in {0} \cup Log
  /\ recvr_Sd_Data \in Seq(Line)
  /\ sd_buffer_rcvr \in Line
  /\ replay \in [day : Days, pos : Nat, calls : Nat]
  /\ NumberOFLinesinFile \in Nat
  /\ NumberofPacketsInQueue \in Nat
  /\ cmpr \in [Log -> {0} \cup Days]
  /\ file \in [Log -> [Days -> Seq(Line)]]
  /\ today \in Days
  /\ minute \in 1..Len(Minutes)
  /\ rx \in [check : {0, 2, 3}, line : Line, owed : SUBSET Server,
             joined : SUBSET Server]
  /\ frames \in 0..MaxFrames
  /\ ticks \in 0..MaxTicks
  /\ dropped \in Nat
  /\ published \subseteq Server \X Line

\* The counters account for every line: what the replays counted is what has
\* been taken off the queue, is still in it, or was refused by it.
CounterInv ==
  NumberOFLinesinFile = NumberofPacketsInQueue + LongCount(recvr_Sd_Data) + dropped

\* publish_missed_Packets does nothing under flag 0: a packet that reached the
\* queue is never taken off it while no log is named.
NoSilentDiscard ==
  step # "read" /\ NOntwrk_data_flag = 0 => LongCount(recvr_Sd_Data) = 0

\* A log is deleted only when every packet of every replay since the last
\* reset has left the queue and none was refused by it: two replays that
\* overlap, a replay that overflows and a date that changes in between do not
\* make the MQTT thread delete a log while packets are waiting.
LogRemoved == \E k \in Log, d \in Days : file[k][d] # <<>> /\ file'[k][d] = <<>>
RemoveOnlyDrained ==
  [][LogRemoved => LongCount(recvr_Sd_Data') = 0 /\ dropped = 0]_vars

\* The MQTT thread deletes a log only after a publish of each of its packets
\* succeeded at every server the log is for (edit history of uart_demo.c).
DeletedAfterPublish ==
  [][\A k \in Log, d \in Days :
       file[k][d] # <<>> /\ file'[k][d] = <<>> =>
         \A s \in Targets(k), i \in LongPositions(file[k][d]) :
           <<s, file[k][d][i]>> \in published]_vars

\* When ql_sdmmc_fs_NetworkLog returns, the line of a server that was down all
\* along is missing from its logs only if the other server connected after the
\* question for the server's own log (or the SD card refused the line): a server
\* that goes down between the three questions never makes it fall through them.
LostOnlyOnConnect == rx.check = 0 => \A s \in rx.owed : Server \ {s} \subseteq rx.joined

\* The modem is refreshed for want of a server only when no server is left.
NoServerSkipped == Link!NoServerSkipped
=============================================================================
