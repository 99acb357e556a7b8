---------------------------- MODULE RpcCommands ----------------------------
(***************************************************************************)
(* Remote commands: from an RPC of a server to the pump controller.        *)
(*                                                                         *)
(* jsonextract runs in the callbacks of the MQTT library.  It walks over    *)
(* the keys of a message and raises a flag of TB_RPC for each command; the *)
(* value of a parameter stays in its local buffer vv, to which TB_RPC only *)
(* keeps a pointer, set a second later.  The MQTT thread calls send_rpc_to_criBrd at the end   *)
(* of every publish loop body.  It walks over the flags in a fixed order   *)
(* and, for each one that is up, sleeps, clears it and sends the command   *)
(* over the UART.  Nothing orders the two walks.                           *)
(*                                                                         *)
(* The same two tasks hand over the lines of old logs (Download):          *)
(* jsonextract offers them, and a loop body takes one before it looks at   *)
(* the flags.                                                              *)
(***************************************************************************)
EXTENDS Integers, Sequences

CONSTANTS
  Param,      \* the motor parameters P1 ... PB
  ParamOrder, \* the order in which send_rpc_to_criBrd looks at them
  Messages,   \* the messages the servers may send
  MaxRpcs,    \* bound: messages of a run
  Fewest, Default, SdDataCapacity \* of Download

\* The flags of TB_RPC, and the order in which send_rpc_to_criBrd tests them.
Simple  == {"PUMP_ON", "PUMP_OFF", "GET_cfg", "GET_live", "OTA"}
Command == Simple \cup Param
Order   == <<"PUMP_ON", "PUMP_OFF", "GET_cfg", "GET_live", "OTA">> \o ParamOrder

\* A message is a sequence of keys with their values.  An object as the value of
\* "params" starts with a brace: atoi makes a 0 of it.
Object  == -1
Garbage == -2
Atoi(v) == IF v = Object THEN 0 ELSE v
Key     == {"params", "cmd", "DO1", "DLOAD", "LogSize"}
Item    == [key : Key \cup Param, value : Int]

ASSUME ParamAssumption   == Param \cap (Simple \cup Key \cup {"none"}) = {}
ASSUME OrderAssumption   == ParamOrder \in Seq(Param)
ASSUME MessageAssumption == Messages \subseteq Seq(Item)
ASSUME BoundAssumption   == MaxRpcs \in Nat
ASSUME LinesAssumption   == {Fewest, Default, SdDataCapacity} \subseteq Nat

VARIABLES
  flag,      \* the flags of TB_RPC
  write_cmd, \* the last "cmd" of the SEDEM server was "write"
  todo,      \* the keys jsonextract has not looked at yet
  vv,        \* the value it looked at last
  asleep,    \* it sleeps before it sets the pointer of the first key of todo
  pointer,   \* where the pointer of each parameter leads: nowhere, to the vv of
             \* an earlier call of jsonextract, or of the last one
  pos,       \* the flag send_rpc_to_criBrd is at, 0 outside of it
  phase,     \* ... and what it does there
  got,       \* history: the value sent last, for each parameter
  set,       \* history: the value set last, for each parameter; a reset forgets it
  owed,      \* history: the commands asked for and not sent since
  raised,    \* history: how often each flag was raised
  sent,      \* history: how often each command was sent
  rpcs,      \* history: messages
  numberOFLInes, left, sdData, conn, mq, test, to, began, lines \* of Download

pointVars == <<asleep, pointer>>
walkVars  == <<pos, phase>>
boardVars == <<got, sent>>
commandVars == <<flag, write_cmd, todo, vv, pointVars, walkVars, boardVars, set,
                 owed, raised, rpcs>>
loadVars == <<numberOFLInes, left, sdData, conn, mq, test, to, began, lines>>
vars == <<commandVars, loadVars>>

Load == INSTANCE Download WITH got <- lines
-----------------------------------------------------------------------------
\* The flag a number in "params" raises.
ByNumber(n) ==
  CASE n = 0 -> "PUMP_OFF" [] n = 1 -> "PUMP_ON" [] n = 2 -> "GET_live"
    [] n = 3 -> "GET_cfg"  [] n = 5 -> "OTA"     [] OTHER -> "none"

\* The flag an item raises: DO1 switches the pump only after a "write".
Raises(item) ==
  CASE item.key = "params" -> ByNumber(Atoi(item.value))
    [] item.key \in {"cmd", "DLOAD", "LogSize"} -> "none"
    [] item.key = "DO1"    -> IF ~write_cmd THEN "none"
                              ELSE IF item.value = 1 THEN "PUMP_ON"
                              ELSE IF item.value = 0 THEN "PUMP_OFF" ELSE "none"
    [] OTHER               -> item.key

\* What send_rpc_to_criBrd does with a flag that is up.  The variant sends the
\* command before it clears the flag.
AfterPhase_SendFirst == [test |-> "send", send |-> "clear", clear |-> "test"]
AfterPhase           == [test |-> "clear", clear |-> "send", send |-> "test"]

\* The flag of a command that is sent goes down.  The variant leaves it up.
Cleared_Not(c) == flag
Cleared(c)     == [flag EXCEPT ![c] = FALSE]

\* Setting a parameter is followed by a request for all of them.  The variant
\* leaves it out.
FollowUp_None(c) == {}
FollowUp(c) == IF c \in Param THEN {"GET_cfg"} ELSE {}

Current == Order[pos]

\* The next flag; the variant walks past the last one.
NextPos_Past == IF pos > Len(Order) THEN 0 ELSE pos + 1
NextPos == IF pos = Len(Order) THEN 0 ELSE pos + 1
-----------------------------------------------------------------------------
Init ==
  /\ flag = [c \in Command |-> FALSE] /\ write_cmd = FALSE
  /\ todo = <<>> /\ vv = 0 /\ asleep = FALSE
  /\ pointer = [p \in Param |-> "null"]
  /\ pos = 0 /\ phase = "test"
  /\ got = [p \in Param |-> 0]
  /\ set = [p \in Param |-> 0]
  /\ owed = {}
  /\ raised = [c \in Command |-> 0] /\ sent = [c \in Command |-> 0]
  /\ rpcs = 0
  /\ Load!Init

\* The client task is not in jsonextract: it can call other callbacks.
Free == todo = <<>> /\ left = 0

\* A callback calls jsonextract.
Receive(m) ==
  /\ Free /\ rpcs < MaxRpcs
  /\ todo' = m
  /\ rpcs' = rpcs + 1
  /\ pointer' = [p \in Param |-> IF pointer[p] = "null" THEN "null" ELSE "old"]
  /\ UNCHANGED <<flag, write_cmd, vv, asleep, walkVars, boardVars, set, owed,
                 raised, loadVars>>

\* jsonextract copies the value of a key to vv and raises the flag, or begins a
\* download.  With a parameter it goes to sleep then ...
Extract ==
  /\ todo # <<>> /\ ~asleep /\ left = 0
  /\ LET item == Head(todo)
         c    == Raises(item)
     IN /\ vv' = item.value
        /\ flag' = [d \in Command |-> flag[d] \/ d = c]
        /\ owed' = owed \cup ({c} \cap Command)
        /\ raised' = [d \in Command |-> IF d = c THEN raised[d] + 1 ELSE raised[d]]
        /\ write_cmd' = IF item.key = "cmd" THEN item.value = 1 ELSE write_cmd
        /\ set' = [p \in Param |-> IF p = c THEN item.value ELSE set[p]]
        /\ CASE item.key = "DLOAD"   -> Load!Begin
             [] item.key = "LogSize" -> Load!SetSize(item.value)
             [] OTHER                -> UNCHANGED loadVars
  /\ IF Head(todo).key \in Param THEN asleep' = TRUE /\ todo' = todo
     ELSE asleep' = FALSE /\ todo' = Tail(todo)
  /\ UNCHANGED <<pointer, walkVars, boardVars, rpcs>>

\* ... and sets the pointer.
Point ==
  /\ todo # <<>> /\ asleep
  /\ pointer' = [pointer EXCEPT ![Head(todo).key] = "vv"]
  /\ asleep' = FALSE /\ todo' = Tail(todo)
  /\ UNCHANGED <<flag, write_cmd, vv, walkVars, boardVars, set, owed, raised, rpcs,
                 loadVars>>

\* read_logged_files_fromRPC offers a line.
Offer == Load!Offer /\ UNCHANGED commandVars

\* The other callbacks of the client task: results and exceptions.
Callback ==
  /\ Free
  /\ Load!Answer \/ \E s \in Load!Server : Load!Lose(s)
  /\ UNCHANGED commandVars
-----------------------------------------------------------------------------
\* A loop body takes a line of a download and publishes it.
PublishLine ==
  /\ pos = 0
  /\ \/ Load!EnterLoop \/ Load!Take \/ Load!Test
     \/ \E s \in Load!Server : Load!Publish(s)
  /\ UNCHANGED commandVars

\* Outside of the loops the servers are connected again.
Reconnect ==
  /\ pos = 0 /\ Free
  /\ \E s \in Load!Server : Load!Gain(s)
  /\ UNCHANGED commandVars

\* send_rpc_to_criBrd: a walk begins, ...
Walk ==
  /\ pos = 0
  /\ pos' = 1
  /\ Load!Leave
  /\ UNCHANGED <<flag, write_cmd, todo, vv, pointVars, phase, boardVars, set, owed,
                 raised, rpcs>>

\* ... tests a flag, ...
Test ==
  /\ pos # 0 /\ phase = "test"
  /\ IF flag[Current] THEN phase' = AfterPhase.test /\ pos' = pos
     ELSE phase' = "test" /\ pos' = NextPos
  /\ UNCHANGED <<flag, write_cmd, todo, vv, pointVars, boardVars, set, owed, raised,
                 rpcs, loadVars>>

Advance(here) ==
  /\ phase' = here
  /\ pos' = IF here = "test" THEN NextPos ELSE pos

\* ... clears it ...
Clear ==
  /\ pos # 0 /\ phase = "clear"
  /\ flag' = Cleared(Current)
  /\ Advance(AfterPhase.clear)
  /\ UNCHANGED <<write_cmd, todo, vv, pointVars, boardVars, set, owed, raised, rpcs,
                 loadVars>>

\* The value read through the pointer of a parameter: while the call of
\* jsonextract that has set it runs, the value looked at last; after that call
\* has returned anything, which a later call may have put there.
Read(p) == CASE pointer[p] = "null"         -> {Garbage}
             [] pointer[p] = "vv" /\ ~Free -> {vv}
             [] OTHER                       -> {vv, Garbage}

\* ... and sends the command.
Send ==
  /\ pos # 0 /\ phase = "send"
  /\ IF Current \in Param
     THEN \E v \in Read(Current) : got' = [got EXCEPT ![Current] = v]
     ELSE UNCHANGED got
  /\ sent' = [sent EXCEPT ![Current] = @ + 1]
  /\ owed' = owed \ {Current}
  /\ flag' = [c \in Command |-> flag[c] \/ c \in FollowUp(Current)]
  /\ raised' = [c \in Command |->
                  IF c \in FollowUp(Current) THEN raised[c] + 1 ELSE raised[c]]
  /\ Advance(AfterPhase.send)
  /\ UNCHANGED <<write_cmd, todo, vv, pointVars, set, rpcs, loadVars>>

\* A power cut, the reset RPC or an update: TB_RPC is empty again.
PowerCycle ==
  /\ flag' = [c \in Command |-> FALSE] /\ write_cmd' = FALSE
  /\ todo' = <<>> /\ vv' = 0 /\ pos' = 0 /\ phase' = "test"
  /\ asleep' = FALSE /\ pointer' = [p \in Param |-> "null"]
  /\ owed' = {} /\ set' = got
  /\ Load!Restart
  /\ UNCHANGED <<boardVars, raised, rpcs>>

Thread == PublishLine \/ Walk \/ Test \/ Clear \/ Send
Client == Extract \/ Point \/ Offer \/ Callback
Next == \/ \E m \in Messages : Receive(m)
        \/ Client \/ Thread \/ Reconnect \/ PowerCycle

\* The client task answers and reads on; nobody promises that servers come back.
Answered == Free /\ Load!Answer /\ UNCHANGED commandVars
Spec     == Init /\ [][Next]_vars
FairSpec == /\ Spec
            /\ WF_vars(Thread) /\ WF_vars(Extract \/ Point)
            /\ WF_vars(Offer) /\ WF_vars(Answered)
-----------------------------------------------------------------------------
TypeOK ==
  /\ flag \in [Command -> BOOLEAN] /\ write_cmd \in BOOLEAN
  /\ todo \in Seq(Item) /\ vv \in Int /\ asleep \in BOOLEAN
  /\ pointer \in [Param -> {"null", "old", "vv"}]
  /\ pos \in 0..Len(Order) /\ phase \in {"test", "clear", "send"}
  /\ got \in [Param -> Int]
  /\ set \in [Param -> Int]
  /\ owed \subseteq Command
  /\ raised \in [Command -> Nat] /\ sent \in [Command -> Nat]
  /\ rpcs \in 0..MaxRpcs
  /\ Load!TypeOK

\* send_rpc_to_criBrd is about to send the command.
OnItsWay(c) == pos # 0 /\ Current = c /\ phase = "send"

\* No command is lost between the two walks: one that is owed to the board has
\* its flag up or is on its way, also when it was asked for again while
\* send_rpc_to_criBrd slept on it.
OwedIsPending == \A c \in owed : flag[c] \/ OnItsWay(c)

\* No command is repeated: the board gets a command at most as often as its flag
\* was raised.
SentAsRaised == \A c \in Command : sent[c] <= raised[c]

\* Every command that is asked for is sent, unless the RMU is reset or loses
\* both servers first.
CommandsServed == \A c \in Command : c \in owed ~> c \notin owed \/ conn = {}

\* A download ends: the client task does not wait for the MQTT thread to make
\* room, while that thread waits for an answer of the client task.
DownloadEnds == left # 0 ~> left = 0

\* Each line of a download that gets into the queue is sent to the servers that
\* stay up.
LineSent == Load!LineSent

\* The two walks together keep what CommandDelivery promises: a flag that is up and
\* a command under way are the times the command waits, and neither walk drops,
\* doubles or makes up one.
One(b)  == IF b THEN 1 ELSE 0
Waiting == [c \in Command |-> One(flag[c]) + One(OnItsWay(c))]
Delivery == INSTANCE CommandDelivery WITH waiting <- Waiting
ImplementsDelivery == Delivery!Spec

Quiet == Free /\ pos = 0 /\ \A c \in Command : ~flag[c]

\* "Processes RPC and send the Data": when all commands are through, the board
\* has the value that was set last.
ValueArrives == Quiet => got = set
=============================================================================
