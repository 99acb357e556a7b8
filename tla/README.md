# Formal model of the RMU firmware (EC200_FlashSPI)

The repository is the Quectel EC200U SDK with one customer application: the 4G
remote monitoring unit (RMU) of a solar pump, in
`src/ql-application/peripheral/`.  The RMU reads telemetry from the pump
controller over a UART, publishes it as JSON to two MQTT servers (Thingsboard,
"TB", and Sedem, "SDM"), logs on an SD card what a server missed and replays
those logs later, takes commands from both servers, keeps its settings in a
file and updates its own firmware over FTP.

This directory holds TLA+ modules of that application, TLC configurations that
check them on small instances, and proofs, checked by TLAPS, that their safety
properties hold for every value of the constants.  The rest of the repository
(SDK, drivers, demos) is vendored; where the application calls it, it appears
as the environment of a module.

## 1. The system

### Who runs

| Actor | Code | Runs |
|---|---|---|
| MQTT thread | `mqtt_app_thread`, `Mqtt_thingsbrd.c:606-1279` | connects, publishes, replays logs, sends commands to the board, updates the firmware |
| MQTT client task | callbacks, `Mqtt_thingsbrd.c:368-489`; `jsonextract`, `mqtt_packet_Encode_decode.c:154-554` | reports results and lost sessions, takes RPCs |
| UART callback | `ql_uart_notify_cb`, `uart_demo.c:205-287` | collects a frame, converts it, logs it |
| Timer | `timer_callback`, `uart_demo.c:164-183` | counts minutes, posts `event_uart` |
| UART thread | `ql_uart_demo_thread`, `uart_demo.c:325-458` | handles the minute: requests to the board, retry and replay flags, names of the logs |
| GNSS, LED, power tasks | `gnss_cri.c`, `led_cfg_demo.c`, `power_demo.c` | position, indicators, power key |

They share global variables without a lock.  The only synchronisation is one
semaphore, `mqtt_semp`, and a few queues.

### Components, their state and what makes them correct

| Component | State | Operations | Hard behaviour | Correct when |
|---|---|---|---|---|
| MQTT connection manager | `mqtt_connected`, `mqtt_connected_sdm`, `run_num`, `mqtt_semp`, the retry flags, the place in the thread | rounds of connecting, four publish loops, retry and refresh, result and exception callbacks | one semaphore for all requests; flags that fall while four loop conditions are tested in turn; a modem refresh that kills the healthy session; rounds that run out | no answer is taken for another's; no connected server is stepped over; flags do not outlive sessions; a server in reach is regained |
| Telemetry hand-off | `event_uart`, `json_data_buf`, `d_index` | convert, publish, tick | a mailbox raised before its content is written, cleared by its reader, and overwritten with an old copy of itself | an INDEX belongs to one frame and does not go back; mail is taken; a missed frame is logged |
| Outage logs and replay | the logs on the SD card, `recvr_Sd_Data`, two packet counters, `NOntwrk_data_flag`, names of the logs | append, replay, publish a packet, delete | counters compared by another turn of the loop; queue overflow; a date that changes the names; sessions that change between three checks | counters account for every line; a log is deleted only when its packets are out; a line misses a log only for a known reason |
| RPC commands | `TB_RPC` | `jsonextract` raises flags, `send_rpc_to_criBrd` sends | two unordered walks over the flags; a pointer to a dead buffer | no command is lost or repeated, every one is served; the value set arrives |
| Configuration store, day index | `snl_conf_read`, `UFS:cred.txt`, `PowerCyleIndication` | `SpiPageAdressLookup`, RPCs that save | two writers without a lock; truncating writes; power cuts; wrong dates | RAM and file agree; a date is indexed once, a boot counted once; an RPC keeps the other settings |
| FOTA | `fota_ftp_cli`, the package file | `fota_ftp_app` and all below it | requests that fail anywhere and go on at a breakpoint; a package replaced meanwhile; power cuts | the file has no gap; flash is given back; the thread comes out |
| Minute scheduler | `count`, `event_uart`, the event queue, `pdata_int`, `hdata_int`, the flags it raises | `timer_callback`, the UART thread's loop | division by a value set remotely; a handler of many seconds on variables the timer writes | every minute's duties are done, once, before the next one; messages to the controller are 5 s apart; telemetry is asked for hourly |
| DLOAD on request | the queue `sdData`, `numberOFLInes` | `read_logged_files_fromRPC`, the reader in the publish loops, `publish_lost_data` | the task that fills the queue brings the answers its reader waits for; three tests of flags that fall in between | a download ends; a line reaches every server that stays up |
| Time synchronisation | `networkStatus`, `tm`, `Ist_Hour`, `Ist_Min`, the clock strings | `get_time`, `get_network_time`, `set_gps_time`, `Timesync` | two callers on the same variables; date and hour from different sources, read while they are written; arithmetic without carry | a call nobody interferes with stamps the instant its source had |
| UART framing | `rcv_data_buf`, `Usart_rcvbf_collect_flag` | collector of `ql_uart_notify_cb` | a delimiter is only looked for at the head of a chunk; the driver loses bytes; a buffer without a bound | a frame is collected and nothing left out in between, as long as the buffer lasts; a frame alone never overruns it |
| Flash packer, GNSS, LED, power, SDK | - | - | - | not modelled, see section 8 |

How they interact: the UART callback hands frames to the MQTT thread through
`event_uart` and asks it, through the connection flags, which log a line belongs
to; the UART thread hands minutes to the MQTT thread as flags; the client task
hands commands to the MQTT thread as flags and settings to the store; the MQTT
thread runs the replays, the lookup of the store, the commands and the firmware
update, one after the other, so that each of them stops all others.  The UART
thread and the UART callback both stamp data, in the same variables, with the
time that the GNSS task writes field by field.

## 2. The modules

| Module | Models | Built on |
|---|---|---|
| `Connectivity` | what the rest may rely on: the two flags and the part of the thread that runs | |
| `ConnManager` | rounds, requests, semaphore, callbacks, retry, refresh | implements `Connectivity` (`Link == INSTANCE Connectivity`) |
| `UartTasks` | the timer, the UART thread with its sleeps, the UART callback and the mailbox they share | `Frames`, `Clock`, `Table`: instances of the next three; implements `Mailbox` |
| `UartFraming` | chunks and frames of the UART | |
| `TimeSync` | the stamp, its two sources, its two writers step by step, the half-written time of the GNSS task | |
| `MinuteTable` | what a minute asks of the MQTT thread | |
| `Mailbox` | what the rest may rely on about `event_uart.param2` and its copy | |
| `Telemetry` | `param2`, its copy in the event queue, the buffer, the INDEX | `Mail!` actions of `Mailbox` |
| `StoreForward` | logs, replays, counters, deletion, the minutes that steer them | `Link!` actions of `Connectivity`, `Table` of `MinuteTable` |
| `CommandDelivery` | what a server may rely on about its remote commands | |
| `RpcCommands` | `jsonextract` and `send_rpc_to_criBrd` | `Load`: an instance of `Download`; implements `CommandDelivery` |
| `Download` | DLOAD, LOAD and LogSize: a log offered to a queue, its lines published | |
| `ConfigStore` | the lookup, RPCs that save, truncating writes, power cuts | |
| `Fota` | `fota_ftp_app` | |
| `X_proofs` | theorems about `X` | extends `X` and `TLAPS` |
| `MCX`, `MCX_*.cfg` | instances of `X` for TLC | extends `X` |

A definition with a suffix (`Ask_NoWait`, `NextIndex_Kept`, ...) next to the one
it varies is a plausible mistake in that place of the code; nothing uses it.  It
is there to show that a property notices the mistake.

### Correspondence to the code

`PROJECT.json` maps each definition to the lines it models.  Variables have the
names of the code where it has one.  In particular:

* **Connectivity, ConnManager.**  `conn` is the pair of flags, `loop` the part
  of `mqtt_app_thread` (`startAgain`, the `while` of rounds, the loops for both
  servers, TB, SDM, none), `step` the place inside it.  A request to the library
  puts itself in `pending`, and the thread waits in the step named after it;
  `Answer` is the callback, `Exception` the exception callback, which may come
  long after the session is gone (`lost`).  The parts of a loop body that
  publish are two steps, before and after the test of the retry flag; one
  publish stands for the several of that part, each of which waits in the same
  way.  `startAgain` makes a new semaphore each time, which is the count 0; that the
  old one is not freed is not modelled.  `sim_net_register` changes nothing here and is left out, a power cycle
  is in `Connectivity` only.
* **UartTasks.**  Time passes in slots of 5 s, the sleep before each message, and
  only while the UART thread sleeps or finds no event: what it does in between
  (`get_time`, two waits of half a second at most, the UART) is taken to be done
  within the slot.  `pc` is the duty it is at, `nap` the slots it has still to
  sleep.  `param1` and `param2` are those of the one global `event_uart`, which
  the timer posts as it is (`Copied`) and the thread overwrites with what it
  polls.  `ql_rtos_event_send` does not wait: an event is lost when the queue is
  full.  `pdata_int` and `hdata_int` are bytes; a division by 0 is undefined, so
  the test may come out either way, and the RMU may restart.  The callback does
  to the mailbox and the clock what `ql_uart_notify_cb` does, the rest of it is
  in `Telemetry` and `StoreForward`.  Time and position are never sent in the
  same minute, so that a minute has four sleeps at most.  If `uart_init` fails
  the thread ends; that is left out.  `said`, `quiet` are history.
* **UartFraming.**  The controller writes frames, a `$`, other bytes and a `#`;
  `Send` and `Overflow` are external.  `Receive` reads any number of bytes and
  is the collector, whole.  It appends whatever room there is, as `strncat` does
  (`uart_demo.c:231`): a frame of 180 bytes behind another in the 250 bytes of
  `rcv_data_buf` sets `overrun`.  What the RMU does from then on is undefined, so
  that `UartTasks` has no other step of it than a restart.  `frame`,
  `alone`, `torn` are history: the frame that began at the head of a chunk and
  of which no byte was lost, whether the collector was idle then, and whether
  bytes have been lost since it began.
* **TimeSync.**  A time is a day, an hour and a minute; the day stands for year,
  month and day of the month, -1 for one before 2023.  `call[p]` is where caller
  `p` is in `get_time`.  A run of assignments to `tm`, to `Ist_Hour` and `Ist_Min`
  or to the strings is a step, as is each call of the clock; between any two steps
  the other caller, the GNSS task (`Gnss`, which writes the date, the hour and the
  minute on their own; a date written in part is another day) and the clock
  (`ClockRuns`) may come.  `sound` is history: nobody interfered since the call
  began.  A call that is not sound prints `Garbled`, whatever it would print.
  `get_network_time` sets the clock from `time_z`, which nothing in the
  repository fills; the library may reject it and keep its own time, or show a
  year before 2023: both are kept.  Nor does it wait for a fix when it goes on to
  `set_gps_time`.  The other modules take the dates they need as given: the name
  of a log (`StoreForward`) and the date of a lookup (`ConfigStore`) change in one
  step, to any of their dates.
* **Mailbox, Telemetry.**  `param2` is the mailbox, `posted` the copy
  `timer_callback` sends to the UART thread's event queue.  That there is one
  copy at most is what `UartTasks` shows of the sleeps.  A loop body tests, clears and reads in separate steps, as the code
  does.  A document is its frame and its INDEX.  The log is written in one step;
  its detail is in `StoreForward`.  The module ends at a reset.
* **StoreForward.**  A line is its identity, or `Short` (below the 500
  characters that `strlen` is compared with).  `replay` is the open file of
  `read_logged_files_toRetry`; each of its lines is a step, and the UART
  callback's three questions to `Connected_server` are three.  `rx.owed`
  (history) are the servers down since the line came, `rx.joined` the servers that
  connected after the question for the other one's log.  Appending a line
  and reading one are atomic.  `ql_fgets` at end of file is not documented:
  `EofKeepsBuffer` has both of its possible behaviours.  `dropped` and
  `published` are history.
* **RpcCommands.**  A message is a sequence of keys with values; `todo` is what
  `jsonextract` has not looked at.  It sleeps between keys, and
  `send_rpc_to_criBrd` between testing and clearing a flag, so each is a step.
  For a parameter it raises the flag and fills `vv` first, and sets the pointer a
  second later (`Extract`, `Point`): a command sent in between reads through the
  pointer of an earlier call, or through a null pointer.  The value a pointer leads
  to once `jsonextract` has returned is undefined: `Send` takes the old value or
  `Garbage` (`Read`).  The client task calls
  `jsonextract` for one message at a time, and all callbacks of both servers run
  in it one after the other: while it reads a log for a download (`left` # 0), no
  answer comes.  Commands raised before an outage are
  sent after it, as in the code.  The queue `rpc_data` is never created, its
  operations have no effect and are left out.  `got`, `set`, `owed`, `raised`,
  `sent` are history.
* **CommandDelivery.**  The abstract side of `RpcCommands`.  `waiting[c]` is 0, 1
  or 2: in the code, the flag of the command (1) and the command between its test
  and its sending (1).  A wish may merge with one that waits, never with one
  that is gone; a parameter that is sent asks for all parameters (`GET_cfg`).
* **Download.**  A line is long enough to be published or not; each `ql_fgets`
  may give either, which includes what it does at the end of the file.  `mq` is
  the place of the MQTT thread between the head of a publish loop and
  `send_rpc_to_criBrd`; the three loop bodies differ in nothing here.  `REFRESH`,
  which restarts the radio from the client task, appears as lost sessions.
* **ConfigStore.**  The settings an RPC can save are two fields, `interval` and
  `account`; the location and the stored copy of `PowerCyleIndication` are only
  copied and left out.  A write is two steps, `Truncate` and `Write`, and the
  second may fail.  The update branch of the lookup is one step.  `loaded`,
  `shifts`, `boots`, `rpcs`, `wanted` are history.
* **Fota.**  A chunk stands for the bytes of one call of `fota_ftp_write_cb`.
  Registering, connecting and asking for the size have one answer, `NotReady`.
  `ql_remove` may fail (`Remove`); `refused` is history.
  The boot loader, the FTP server and the power supply are external: the boot
  loader installs a package only if it is marked ready and whole.

## 3. Runs

| Run | Instance | Shows |
|---|---|---|
| `conn_rounds` | 3 rounds, both servers, any network | `OwnAnswer`, `FlagHonest`, `ImplementsConnectivity`, `ReconnectsWithinRounds` hold |
| `conn_exhausted` | the same | `Reconnects` fails: `run_num` is never given back |
| `telemetry_frames` | 2 frames of either kind, 2 ticks | `OneFramePerIndex`, `IndexNeverGoesBack`, `MailTaken` hold |
| `telemetry_missed` | the same | `MissedIsLogged` fails: an old copy of `event_uart` hides a frame |
| `uart_tasks` | an hour of 8 minutes of 6 slots, a queue of 2 events, intervals 10, 3, 1 and 256, frames of 2 and 3 bytes in a buffer of 4, 3 times around 18:30 UTC and a half-written date | `DoneInTime`, `MessagesApart`, `RaisesItsFlags`, `AskedHourly`, `FrameCollected`, `NoGap`, `RoomForAFrame`, `IstInstant`, `ImplementsMailbox` hold |
| `store_replays` | replay of 2 calls, queue of 1, 2 dates, 1 frame, minutes 0, 1, 31, 43 | `CounterInv`, `NoSilentDiscard`, `RemoveOnlyDrained`, `NoServerSkipped`, `LostOnlyOnConnect` hold |
| `store_deleted` | minutes 1 and 31 | `DeletedAfterPublish` fails: publish results are ignored |
| `config_all` | 4 dates, 4 changes of date, 2 boots, 2 RPCs | `RamMatchesFlash`, `OneIndexPerDate`, `OneCyclePerBoot` hold |
| `config_wiped` | 1 boot, 1 RPC | `RpcKeepsSettings` fails: an RPC before the first read |
| `rpc_commands` | 2 messages, 1 parameter, downloads of 2 and 3 lines through a queue of 1, any number of resets | `OwedIsPending`, `SentAsRaised`, `CommandsServed`, `LineSent`, `DownloadEnds`, `ImplementsDelivery` hold |
| `rpc_value` | 2 parameters in one message | `ValueArrives` fails: one buffer for all values |
| `fota_all` | packages of 2, 3, 1 chunks, flash of 2, 10 requests, 2 commands, 2 power cuts | `ChunksInPlace`, `FlashGivenBack`, `UpdateEnds` hold |

Every run that passes also checks its module's type invariant.

What the properties say:

* **OwnAnswer**: one counting semaphore serves every request of both servers,
  and the thread still never takes one request's answer for another's.
* **FlagHonest**: a raised flag belongs to a live session or to one whose loss
  is about to be reported; it needs the thread to wait for every connect before
  it refreshes the modem.
* **ImplementsConnectivity**: the detailed manager refines `Connectivity`, whose
  **NoServerSkipped** says that the thread gives up and refreshes the modem
  only when both servers are down, although the flags fall while it tests the
  loops one by one.
* **ReconnectsWithinRounds**: a server that stays in reach ends up connected for
  good, or the rounds are used up.
* **OneFramePerIndex, IndexNeverGoesBack**: the races on `param2` can lose a
  frame, repeat a document or convert a frame twice, but they never give two
  frames one INDEX or send an older INDEX after a newer one.
* **MailTaken**: while a loop that takes it stays in charge, mail does not lie
  around.
* **DoneInTime**: although a minute's duties sleep up to four times and the timer
  writes the variable they test, they are done before the timer fires again; no
  event queues behind another.
* **MessagesApart**: the controller has 5 s for each message of the UART thread.
* **RaisesItsFlags**: a minute raises its own flags and no others.
* **AskedHourly**: whatever non-zero intervals RPCs set, and whenever they change
  them, an hour has a request for telemetry (minute 0 divides by all of them).
* **FrameCollected, NoGap**: until the buffer is overrun, a frame whose `$` begins
  a chunk is collected up to the chunk its `#` begins, whatever rubbish or lost
  end came before it, though perhaps behind that rubbish; what is collected is a
  piece of the stream without a gap unless the driver lost bytes.  That frames
  inside a chunk are glued or lost is what the code does; the properties say how
  far it goes.
* **RoomForAFrame**: what it takes to overrun the buffer: the end of an earlier
  frame went unnoticed inside a chunk, or bytes were lost.  A frame that begins
  while nothing is being collected never does it.
* **IstInstant**: what two overlapping calls of `get_time` leave in the shared
  variables and in the clock does not reach a later call.  A call that nobody
  interferes with stamps the Indian time of its source, or 24 hours late when
  GPS gives it on the next Indian date.  Of calls that overlap, or during which
  the GNSS task writes or the clock moves on, nothing is said: see section 5.
* **ImplementsMailbox**: timer, thread and callback offer the mailbox that
  `Telemetry` builds on.
* **LostOnlyOnConnect**: the three questions that choose the logs of a line see
  three states of the flags.  A server that is down all along misses its line
  only if the other server connects after the question for its own log (or the SD
  card refuses the line); a server that goes down meanwhile never makes it fall
  through.  That line is lost: section 5.
* **LineSent**: a downloaded line reaches every server that stays up; twice only
  if the other one goes down between two of the three tests.
* **DownloadEnds**: the client task and the MQTT thread do not wait for each
  other.
* **CounterInv**: `NumberOFLinesinFile` is what was taken off the queue, what is
  still in it and what it refused, across replays that overlap, dates that
  change and restarts.
* **NoSilentDiscard**: a packet is never taken off the queue while
  `NOntwrk_data_flag` names no log, which would drop it.  Not that the log named is
  the one it came from: section 5.
* **RemoveOnlyDrained**: a log is deleted only when no packet is left in the
  queue and none was refused.  Not which log: section 5.
* **RamMatchesFlash, OneIndexPerDate, OneCyclePerBoot**: see section 1.  The first
  says that no change stays unsaved, not that the value an RPC set is kept (an
  undone value is undone in both copies); the second bounds the index from above.
* **OwedIsPending, SentAsRaised, CommandsServed**: every command asked for is
  flagged or on its way until it is sent, is not sent more often than it was
  raised, and is sent in the end.
* **ImplementsDelivery**: the flags and the two walks over them, one of which
  sleeps 5 s between testing and clearing a flag the other may raise, are a
  delivery of commands: none is dropped, doubled or made up, a wish made while
  its command is being sent counts again, and each parameter that is sent is
  followed by a request for all of them.
* **ChunksInPlace, FlashGivenBack, UpdateEnds**: over all requests the file has
  no gap and no doubled chunk; a failed update frees the flash, until a power
  cut strikes, unless the flash refuses to remove the file; the MQTT thread is not caught in the update.

### Bounds, and why they are enough

* `MaxRuns` = 3 for the 50 rounds: the state a round leaves does not depend on
  its number; three rounds have a first, a middle and a last one.
* `Numval` = 1 and `QueueCapacity` = 1 for 650 and 650: as in the code a replay
  makes one call more than the queue is deep, and a second replay meets what the
  first one left.  Minutes are the few that do something; in `store_replays`
  minute 0 raises both retry flags, 1 names the logs, 31 and 43 replay, and
  everything else interleaves with them.  Minute 53 differs from 43 only in the
  log and the loop.
* Two dates and a queue that survives midnight are enough for a name to change
  under a replay.
* `uart_tasks`: an hour of 8 minutes has the minutes that do something to the
  thread itself (0, 1, 5, 7); 11, 31, 43, 53 and 57 only raise flags, which
  `store_replays` visits.  A minute of 6 slots is the shortest that holds four
  sleeps and a slot to spare; the code has 12.  A queue of 2 shows a second
  event.  Interval 1 asks in every minute, 256 is cut to 0.  Frames of 2 and 3
  bytes on a line of 4 bytes fall apart in every way a longer one can, and two of
  them overrun a buffer of 4 unless both are short.  The times are before, at and
  after 18:30 UTC, where the Indian date changes, minute 60 appears and the hour is
  carried; another day is what a half-written date looks like.  The constraint
  `Workload` lets bytes be under way, or the clock be at work, only around the
  first timer event and until its duties begin, and the clock only with a short
  frame before it; calls run while the receiver has a whole time or none.  The
  proofs are free of it.
* Two lines in a download and a queue of one overflow it; a third, after
  LogSize, does so behind a line being published.
* Two frames give a frame and the one whose document or copy of `param2` is in
  its way; two ticks let a copy be posted before and after a frame.
* Four dates hold one pair for each branch of the lookup: next day, same day of
  a later month, next year, and the date before synchronisation, which is
  earlier than all.
* Two messages make an RPC of each server meet one walk over the flags; two
  parameters set by the same message (`rpc_value`) are where values collide.
* Packages of two, three and one chunk on a flash of two: one that fits, one too
  large, and a shorter one behind whose end the next request starts.

The proofs of section 4 hold for all values of these constants.

### Fairness

Only runs with a liveness property use it, and only weak fairness.

* `ConnManager`: the MQTT thread (its task is never suspended there), each
  answer, each exception callback and the report of a lost session (the library
  does them), and the minutes of the timer.  The network promises nothing.
* `Telemetry`: the MQTT thread's loop.
* `RpcCommands`: the MQTT thread's loop, the client task in a message or download
  it has begun, and its answers.  An answer needs the client task to be free:
  that the two do not block each other is shown, not assumed.  Nobody promises
  that a server comes back, so that `CommandsServed` ends with the connections.
* `Fota`: the application, which includes that a call of the FTP library
  returns.  Commands, power cuts and new packages are not fair.

Deadlock is checked except in `fota_all`, where the bounded numbers of commands
and power cuts let the system really stop.

## 4. Proofs

All theorems hold for every value of the constants that satisfies the named
`ASSUME`s of the modules (`MaxRunsAssumption`, `CapacityAssumption`,
`MinutesAssumption`, ...): queue depth, length of a replay, number of rounds,
frames, dates, packages and requests are arbitrary.

| Module | Theorems | Inductive invariant |
|---|---|---|
| `Connectivity_proofs` | `TypeCorrect`, `NeverSkipped` | `TypeOK /\ SkippedInv`: what the loop tests passed so far exclude, which stays excluded because flags only fall outside `connect` |
| `ConnManager_proofs` | `TypeCorrect`, `AnswersMatch`, `FlagsHonest`, `Implements`, `NothingAfterTheRounds`, `RoundEnds` | types and `OwnAnswer` together: the count of the semaphore is bounded only because each request is waited for; `FlagHonest` needs in addition that a connect is pending only while the thread connects |
| `StoreForward_proofs` | `TypeCorrect`, `CountersBalance`, `PacketsLabelled`, `RemovalIsSafe`, `OverflowStops`, `UsesConnectivity`, `NoneSkipped`, `OnlyAConnectLoses`, `DeletedIfPublished` | the counters, the refused lines and the long lines in the queue; a packet in the queue outside a replay is labelled; a server still owed a line is down, and its log is asked for in a question to come, or the other server has joined since; for `DeletedIfPublished`, each line of the log being replayed is queued or published unless one was refused |
| `ConfigStore_proofs` | `TypeCorrect`, `IndexedOnce`, `CountedOnce`, `SavedMatches`, `SettingsKeptIfOrderly` | bounds that separate a date already indexed from one still due, for the RAM copy and for the file, wherever a writer stands between them |
| `RpcCommands_proofs` | `TypeCorrect`, `NoneLost`, `NoneRepeated`, `LineIsSent`, `DeliveryImplemented`, `UsesDownload`, `TurnEnds`, `ValueArrivesIfKept` | each raising of a flag pays for one sending: sent + flag up + on its way is at most raised; for each test of a downloaded line, who has got it, who is about to, and which flags fell since |
| `UartTasks_proofs` | `TypeCorrect`, `DoneInTimeCorrect`, `MessagesApartCorrect`, `RaisesItsFlagsCorrect`, `AskedHourlyCorrect`, `FrameCollectedCorrect`, `NoGapCorrect`, `RoomForAFrameCorrect`, `IstInstantCorrect`, `MailboxImplemented`, `UsesFramingAndClock` | three parts that do not share variables: the thread is in slot r at most when it is at its r-th duty, and its event is the one the timer posted last; the buffer ends with the frame that began at a chunk, and is that frame if nothing was being collected; as long as a call is alone, what `tm` and `ist` hold at each of its places follows from its source |
| `Telemetry_proofs` | `TypeCorrect`, `IndexUnique`, `IndexAscends`, `UsesMailbox`, `LoggedIfMailStays` | the buffer holds the INDEX given last or none, everything written so far has at most that one |
| `Fota_proofs` | `TypeCorrect`, `ChunksStay`, `FlashFree`, `UpdateAdvances` | while a request runs the FTP client's position, the downloaded size and the length of the file agree; a return to the thread leaves no file |

### Refinement

`Implements` proves that the initial states of `ConnManager` are initial states
of `Connectivity` and that each of its steps is a step or a stutter there;
`UsesConnectivity` does the same for `StoreForward`, so that `NeverSkipped`
carries over (`NoneSkipped`).  `MailboxImplemented` proves the same of `UartTasks`
and `Mailbox`, and `UsesMailbox` that `Telemetry` takes no other step with the
mailbox: what it assumes of the timer and the UART thread is what they do.
`UsesFramingAndClock` and `UsesDownload` prove that the modules `UartTasks` and
`RpcCommands` are composed of are used as they are specified: `UartTasks` steps
`UartFraming` and `TimeSync`, `RpcCommands` steps `Download`, only as their own
`Next` allows.

`DeliveryImplemented` proves `ImplementsDelivery` for any set of parameters and
any messages.  The mapping counts a raised flag and a command between its test
and its sending; the proof goes through the places of `send_rpc_to_criBrd`,
because a simple command is cleared after its sleep and a parameter before it:
only the first has both the flag and the way at once, and only when the flag
was raised again.

### What a correction has to establish

Four findings of section 5 have a theorem that is the other side of the
counterexample: under conditions on single steps, which the code does not keep
today, the property holds, whatever else happens in the module.  So the
conditions are enough: a correction need bring about no more.

| Finding | Theorem | Conditions |
|---|---|---|
| `DeletedAfterPublish` | `DeletedIfPublished` | `PublishedToAll`, `OneReplay`, `WholeLog`, `LogStays`, `NameStays`: each publish succeeds; a replay begins when the packets of the last are through, and reads its log to the end; meanwhile nothing is appended to that log, and minute 1 does not rename it |
| `MissedIsLogged` | `LoggedIfMailStays` | `MailStays`: nobody changes `param2` between the moment the callback raises it and the moment it tests it |
| `ValueArrives` | `ValueArrivesIfKept` | `ValueKept`: what is read through the pointer is the value the parameter was set to |
| `RpcKeepsSettings` | `SettingsKeptIfOrderly` | `SetWhenLoaded`, `ReadWhenSaved`, `CutWhenSaved`: no RPC before the first read, no read of the lookup and no power cut between a change and its write |

The conditions are compatible: TLC reaches deletions, missed frames, values and
saved settings under them.  Each of the five of `DeletedIfPublished` is needed:
without any one TLC finds a log deleted with a line unpublished, so that looking
at the results of publishing is not enough.  For the fifth finding there is no
such condition but another bound: `NothingAfterTheRounds` shows that with any
number of rounds, once they are used up, no flag of a server ever rises again.

`OverflowStops` does the same for a behaviour section 5 lists without a run: a
packet that the full queue refuses stops the deletion of all logs until the next
reset.

### Measures

Liveness itself is out of the prover's reach, which has no rule for fairness and
none for `ENABLED`.  What makes it true is not: three theorems give a number that
every step of the thread lowers and the environment cannot raise.

* `RoundEnds`: a round of connecting takes at most 21 steps of the thread and the
  library, and in each of its waits, none of which has a time-out, the answer is
  there or has been asked for.
* `TurnEnds`: a turn of a publish loop, a downloaded line and the walk over all
  commands included, takes at most `3 * Len(Order) + 20` steps and answers;
  commands that arrive meanwhile do not prolong it.
* `UpdateAdvances`: an update takes at most three steps for each attempt, one for
  each chunk the flash holds and eight others, whatever the server, the network
  and a newer package do.

What is left to TLC, in the runs with `ReconnectsWithinRounds`, `MailTaken`,
`CommandsServed`, `DownloadEnds` and `UpdateEnds`, is the other half: that the
steps counted can be taken and, under the fairness of section 3, are.

### Assumptions and limits

`DoneInTimeCorrect` holds for every minute of more than five slots
(`PeriodAssumption`): four sleeps and the slot in which the event was posted.  The
theorems about the clock hold for every day, hour and minute and every step of the
callers, those about frames for all sizes the buffer has room for, both until
the buffer is overrun.  The invariant of the clock says nothing of a call that was
disturbed, and a disturbance never ends before the call does: so the proof needs no
account of what overlapping calls mix.

Every invariant, action property and refinement that a passing run checks is
also a theorem.  Only model-checked are the five liveness properties just named
and, by nature, the counterexamples of section 5.

## 5. What the code does otherwise than it says

Five runs end in a counterexample; each shows the code at odds with a comment or
the change log, quoted in `PROJECT.json`.  Section 4 has for each the theorem
that says how far it goes or what would end it:

1. **`Reconnects`** (`Mqtt_thingsbrd.c:682`): `run_num` counts rounds since
   boot.  After 50 of them a returned SIM or server is never connected to.  A
   permanent outage of Sedem uses the rounds up, and Thingsboard is lost too.
2. **`DeletedAfterPublish`** (`Mqtt_thingsbrd.c:988`): results of publishing
   replayed packets are ignored, and the log is deleted.
3. **`MissedIsLogged`** (`uart_demo.c:371`): `ql_event_try_wait` puts an old
   copy of `event_uart` back over a frame's mail; an empty line is logged.
4. **`ValueArrives`** (`mqtt_packet_Encode_decode.c:327`): parameter values are
   pointers into one local buffer.
5. **`RpcKeepsSettings`** (`mqtt_packet_Encode_decode.c:246`): an RPC before the
   first read of the configuration writes zeroes over it.

Behaviours the modules show and no text contradicts, so without a run:

* The 651 releases of a replay overflow the queue of 650: the refused line is
  counted, the counters never meet, no log is deleted until a reset
  (`filesys.c:274`, theorem `OverflowStops`).
* A replay flag that is raised while packets of another log are queued relabels
  them; a log of yesterday is not replayed once minute 1 has renamed the logs;
  a single-server loop replays the log of both servers to one.
* OFF and then ON within one turn of the loop are sent as ON, OFF
  (`Mqtt_thingsbrd.c:128`); an object as "params" is read as 0, which is
  PUMP_OFF (`mqtt_packet_Encode_decode.c:177`).
* The MQTT thread may publish the document before a frame's own, because
  `param2` rises first; an attributes frame may be converted as a second
  telemetry document of an old frame.  Attributes are not taken while only Sedem
  is connected.
* A package whose last chunk arrived when the network failed is requested again
  in vain and removed (`fota_ftp.c:388`); an interrupted download is not
  resumed by a later command (`fota_ftp.c:101`); a first request that fails
  before any byte is not retried.
* While the Indian date is already the next one (from 18:30 UTC), a GPS stamp is 24
  hours late: `set_gps_time` takes that date from the clock and still adds its
  hours to those of the old one, past 24 (`time_sync.c:137-155`).  At half past
  it writes minute 60.
* `get_time` runs in the UART thread and in the UART callback at once, on `tm`,
  `Ist_Hour`, `Ist_Min` and the strings (`time_sync.c:86-157`).  One caller can
  print the zeros or the UTC the other has just put into `tm`, or hours that both
  have moved on.  `set_gps_time` reads `g_dt_tm` for the date and again for the
  time of day (lines 122-127, 134-136), while the GNSS task writes it field by
  field: between 10:59 and 11:00 a stamp can be off by an hour, between 18:29 and
  18:30 by a day, and at midnight the date by a month or a year.  With a fix but
  no date yet, the date is the clock's own.
* Two frames in one chunk, or a lost `#`, can fill `rcv_data_buf` beyond its 250
  bytes: nothing bounds `strncat` (`uart_demo.c:231`).
* A line can miss the log of a server that is down throughout: when the other
  server connects between the questions of `filesys.c:129`, `149` and `169`, no
  question gets the answer it waits for.
* `time_z` is never filled, so that the network branch shows whatever time the
  module keeps (`time_sync.c:88-94`); with neither a SIM nor a fix the stamp stays
  what it was, and the controller gets it as the time (`time_sync.c:75`,
  `uart_demo.c:409`).
* A frame whose ends lie inside a chunk is glued to its neighbours, or lost.
* In minutes 5 and 7 the position is sent even when there has been none since
  boot, through a null pointer (`uart_demo.c:417`).
* A line of a download goes to a server twice when the other one drops between
  two tests (`Mqtt_thingsbrd.c:499-523`), and lines the queue has no room for are
  lost (`filesys.c:233`).
* An update suspends the GNSS task and nothing resumes it (`Mqtt_thingsbrd.c:165`).

## 6. Hazards

`PROJECT.json` lists the places where this code can go wrong in a way a test
would hardly reach, each with the properties that watch it or the reason why
none does.

## 7. Plan

Done: `Connectivity`, `ConnManager`, `StoreForward`, `ConfigStore`,
`RpcCommands`, `Fota`, `Telemetry`, then `TimeSync`, `UartFraming`,
`MinuteTable`, `Mailbox`, `UartTasks`, `Download` and `CommandDelivery`, each with
its proofs.

What would come next:

1. A composition of `Telemetry` with `StoreForward`: a frame is published,
   logged or one of the losses of section 5, and an abstract specification of
   delivery (each frame at least once per server, losses named) that the
   composition implements.
2. The heartbeat, configuration and on-demand messages of the publish loops.

## 8. Not modelled

* GNSS parsing and the position (`gnss_cri.c`, of vendored origin): no state of
  the rest depends on how a sentence is taken apart.  The times it hands out are
  in `TimeSync`.
* The flash packer (`crc8`, `SpiFlashDataUploader`, `SpiFlashData_Jsonpacker`):
  it packs a frame and unpacks it again, for log statements only.
* LED and power tasks: outputs and a power-key callback.
* The SDK: MQTT, FTP and file system are environments with the outcomes the
  application distinguishes.
* Payloads: the values of a frame, the heartbeat, configuration and on-demand
  messages, wording and logs.
* The rest of the repository, by far its larger part: SDK sources and headers,
  the TLS library, fonts and demos that the application does not call or only
  links.
