---------------------------- MODULE ConfigStore ----------------------------
(***************************************************************************)
(* The configuration file UFS:cred.txt and the day index kept in it.       *)
(*                                                                         *)
(* Two threads share the RAM copy snl_conf_read and the file, without a    *)
(* lock.  In every round of connecting the MQTT thread runs                *)
(* SpiPageAdressLookup: it reads the file, gives a new date the next       *)
(* DataDayLogIndex or counts a power cycle of the date it knows, and       *)
(* writes the file back.  The RPC handler jsonextract runs in the MQTT     *)
(* library's callbacks; it sets one field of the RAM copy and writes all   *)
(* of it.  A write truncates the file first.  The power may be cut at any  *)
(* moment.                                                                 *)
(***************************************************************************)
EXTENDS Integers

CONSTANTS
  Dates,       \* the dates tm may show
  Values,      \* the values an RPC may set a field to
  MaxShifts,   \* bound: how often the date of tm changes or is synchronised
  MaxBoots,    \* bound: boots of a run
  MaxRpcs      \* bound: configuration RPCs of a run

AnyDate == [y : Nat, m : Nat, d : Nat]

ASSUME DatesAssumption  == Dates \subseteq AnyDate
ASSUME ValuesAssumption == Values \subseteq Nat
ASSUME BoundsAssumption == MaxShifts \in Nat /\ MaxBoots \in Nat /\ MaxRpcs \in Nat

VARIABLES
  ram,       \* snl_conf_read
  flash,     \* what UFS:cred.txt held last
  blank,     \* the file is truncated: a write of it is not complete
  PowerCyleIndication,
  tm,        \* the date in tm
  current,   \* currentYear, currentMonth, currentDay
  lookup,    \* progress of SpiPageAdressLookup
  rpc,       \* progress of jsonextract
  loaded,    \* history: read_config_fileUFS has run since the boot
  shifts,    \* history: changes and synchronisations of the date
  boots,     \* history: boots
  rpcs,      \* history: configuration RPCs
  wanted     \* history: the value each field was last set to

storeVars   == <<ram, flash, blank>>
historyVars == <<loaded, shifts, boots, rpcs, wanted>>
vars == <<storeVars, PowerCyleIndication, tm, current, lookup, rpc, historyVars>>
-----------------------------------------------------------------------------
\* An RPC sets the interval, or the account (url, password or operator).
Field == {"interval", "account"}

Config == [settings : [Field -> Nat], sync : BOOLEAN, date : AnyDate,
           cycles : 0..255, index : Nat]

\* snl_conf_read after a boot.
Zeroed == [settings |-> [f \in Field |-> 0], sync |-> FALSE,
           date |-> [y |-> 0, m |-> 0, d |-> 0], cycles |-> 0, index |-> 0]

\* The settings and the file the RMU is delivered with.
Provisioned == [f \in Field |-> 1]
Delivered   == [Zeroed EXCEPT !.settings = Provisioned]

\* tm before the first synchronisation (set_network_time), and the date the
\* index starts from (LookupTimeSync is not 1).
DummyDate == [y |-> 2011, m |-> 1, d |-> 1]
FirstDate == [y |-> 2025, m |-> 1, d |-> 1]

Synced(r) == IF r.sync THEN r ELSE [r EXCEPT !.sync = TRUE, !.date = FirstDate]

\* How a synced record compares with a date.
NewYear(r, date)  == date.y > r.date.y
SameYear(r, date) == date.y = r.date.y /\ date.m >= r.date.m
SameDay(r, date)  == SameYear(r, date) /\ date.d = r.date.d
NewDay(r, date)   == SameYear(r, date) /\ date.d # r.date.d

\* A lookup on this date gives the record a new index.
Due(r, date) == NewYear(Synced(r), date) \/ NewDay(Synced(r), date)

\* The record after its date got an index.  The variant does not remember the
\* date.
Indexed_DateKept(r, date) == [r EXCEPT !.index = @ + 1, !.cycles = 0]
Indexed(r, date) == [r EXCEPT !.date = date, !.index = @ + 1, !.cycles = 0]

\* The power cycle of this boot is counted.  One variant counts it again in
\* the next round of connecting, the other takes the flag for a counter.
CycleCounted_Again == PowerCyleIndication' = PowerCyleIndication
CycleCounted_Down  == PowerCyleIndication' = PowerCyleIndication - 1
CycleCounted       == PowerCyleIndication' = 0

\* What follows a change of the RAM copy.  The variant forgets to save it.
Save_Forgotten == "idle"
Save           == "open"
-----------------------------------------------------------------------------
Init ==
  /\ ram = Zeroed
  /\ flash = Delivered
  /\ blank = FALSE
  /\ PowerCyleIndication = 1
  /\ tm = DummyDate /\ current = DummyDate
  /\ lookup = "idle" /\ rpc = "idle"
  /\ loaded = FALSE /\ shifts = 1 /\ boots = 1 /\ rpcs = 0
  /\ wanted = Provisioned
-----------------------------------------------------------------------------
\* SpiPageAdressLookup notes the date ...
LookupStart ==
  /\ lookup = "idle"
  /\ lookup' = "read"
  /\ current' = tm
  /\ UNCHANGED <<storeVars, PowerCyleIndication, tm, rpc, historyVars>>

\* ... and reads the file; a read of nothing leaves the RAM copy alone.
LookupRead ==
  /\ lookup = "read"
  /\ lookup' = "update"
  /\ ram' = IF blank THEN ram ELSE flash
  /\ loaded' = TRUE
  /\ UNCHANGED <<flash, blank, PowerCyleIndication, tm, current, rpc, shifts,
                 boots, rpcs, wanted>>

\* A later year, or another day of this month or of a later one.
NewDateIndexed ==
  /\ lookup = "update" /\ Due(ram, current)
  /\ ram' = Indexed(Synced(ram), current)
  /\ CycleCounted
  /\ lookup' = Save
  /\ UNCHANGED <<flash, blank, tm, current, rpc, historyVars>>

\* The known day of the month, for the first time since the boot.
PowerCycleCounted ==
  /\ lookup = "update" /\ SameDay(Synced(ram), current) /\ PowerCyleIndication = 1
  /\ ram' = [Synced(ram) EXCEPT !.cycles = (@ + 1) % 256]
  /\ CycleCounted
  /\ lookup' = Save
  /\ UNCHANGED <<flash, blank, tm, current, rpc, historyVars>>

AlreadyUpdated ==
  /\ lookup = "update" /\ SameDay(Synced(ram), current) /\ PowerCyleIndication # 1
  /\ ram' = Synced(ram)
  /\ lookup' = "idle"
  /\ UNCHANGED <<flash, blank, PowerCyleIndication, tm, current, rpc, historyVars>>

\* An earlier year, or an earlier month of this year: "Time sync error".
WrongDate ==
  /\ lookup = "update"
  /\ ~Due(ram, current) /\ ~SameDay(Synced(ram), current)
  /\ ram' = [Synced(ram) EXCEPT !.cycles = 0]
  /\ lookup' = Save
  /\ UNCHANGED <<flash, blank, PowerCyleIndication, tm, current, rpc, historyVars>>

\* write_config_fileUFS, by the MQTT thread or by the RPC handler: opening the
\* file truncates it, and the write that follows may fail.
Truncate ==
  /\ blank' = TRUE
  /\ UNCHANGED <<ram, flash>>

Write ==
  /\ \/ flash' = ram /\ blank' = FALSE
     \/ UNCHANGED flash /\ blank' = TRUE
  /\ UNCHANGED ram

LookupOpen ==
  /\ lookup = "open"
  /\ lookup' = "write"
  /\ Truncate
  /\ UNCHANGED <<PowerCyleIndication, tm, current, rpc, historyVars>>

LookupWrite ==
  /\ lookup = "write"
  /\ lookup' = "idle"
  /\ Write
  /\ UNCHANGED <<PowerCyleIndication, tm, current, rpc, historyVars>>
-----------------------------------------------------------------------------
\* An RPC that sets a field of the RAM copy.
RpcSetField(f, v) ==
  /\ rpc = "idle" /\ rpcs < MaxRpcs
  /\ rpcs' = rpcs + 1
  /\ rpc' = Save
  /\ ram' = [ram EXCEPT !.settings[f] = v]
  /\ wanted' = [wanted EXCEPT ![f] = v]
  /\ UNCHANGED <<flash, blank, PowerCyleIndication, tm, current, lookup, loaded,
                 shifts, boots>>

\* The RPC "tsync" sets LookupTimeSync, and with 1 also the date.
RpcTimeSync(on) ==
  /\ rpc = "idle" /\ rpcs < MaxRpcs /\ shifts < MaxShifts
  /\ rpcs' = rpcs + 1 /\ shifts' = shifts + 1
  /\ rpc' = Save
  /\ ram' = [ram EXCEPT !.sync = on, !.date = IF on THEN tm ELSE @]
  /\ UNCHANGED <<flash, blank, PowerCyleIndication, tm, current, lookup, loaded,
                 boots, wanted>>

RpcOpen ==
  /\ rpc = "open"
  /\ rpc' = "write"
  /\ Truncate
  /\ UNCHANGED <<PowerCyleIndication, tm, current, lookup, historyVars>>

RpcWrite ==
  /\ rpc = "write"
  /\ rpc' = "idle"
  /\ Write
  /\ UNCHANGED <<PowerCyleIndication, tm, current, lookup, historyVars>>
-----------------------------------------------------------------------------
\* The UART thread and its callback set tm from the network or from GPS.
DateChange ==
  /\ shifts < MaxShifts
  /\ tm' \in Dates \ {tm}
  /\ shifts' = shifts + 1
  /\ UNCHANGED <<storeVars, PowerCyleIndication, current, lookup, rpc, loaded,
                 boots, rpcs, wanted>>

\* A power cut, or the reset that ends some RPCs.
PowerCycle ==
  /\ boots < MaxBoots
  /\ boots' = boots + 1 /\ shifts' = shifts + 1
  /\ ram' = Zeroed /\ PowerCyleIndication' = 1
  /\ tm' = DummyDate /\ current' = DummyDate
  /\ lookup' = "idle" /\ rpc' = "idle" /\ loaded' = FALSE
  /\ UNCHANGED <<flash, blank, rpcs, wanted>>

Lookup ==
  \/ LookupStart \/ LookupRead
  \/ NewDateIndexed \/ PowerCycleCounted \/ AlreadyUpdated \/ WrongDate
  \/ LookupOpen \/ LookupWrite

Rpc ==
  \/ \E f \in Field, v \in Values : RpcSetField(f, v)
  \/ \E on \in BOOLEAN : RpcTimeSync(on)
  \/ RpcOpen \/ RpcWrite

Next == Lookup \/ Rpc \/ DateChange \/ PowerCycle

Spec == Init /\ [][Next]_vars
-----------------------------------------------------------------------------
TypeOK ==
  /\ ram \in Config /\ flash \in Config /\ blank \in BOOLEAN
  /\ PowerCyleIndication \in {0, 1}
  /\ tm \in Dates \cup {DummyDate} /\ current \in Dates \cup {DummyDate}
  /\ lookup \in {"idle", "read", "update", "open", "write"}
  /\ rpc \in {"idle", "open", "write"}
  /\ loaded \in BOOLEAN
  /\ shifts \in Nat \ {0} /\ boots \in Nat \ {0} /\ rpcs \in 0..MaxRpcs
  /\ wanted \in [Field -> Nat]

\* A date is not indexed again while it stays the date, however often the
\* lookup runs and wherever an RPC or a power cut falls between its read and its
\* write: the index counts at most the changes and synchronisations of the date.
OneIndexPerDate == ram.index <= shifts /\ flash.index <= shifts

\* A boot is counted as a power cycle at most once, although every round of
\* connecting runs the lookup.
OneCyclePerBoot == ram.cycles <= boots /\ flash.cycles <= boots

\* What the RMU runs with is what it will find after the next boot: when no
\* thread is between a change and its write, RAM copy and file agree.
RamMatchesFlash ==
  lookup = "idle" /\ rpc = "idle" /\ loaded /\ ~blank =>
    /\ ram.settings = flash.settings
    /\ ram.index = flash.index /\ ram.cycles = flash.cycles

\* "this value to be loaded in ufs along with password and urls": when an RPC
\* is through, the file holds the value it set along with the other settings.
RpcKeepsSettings ==
  lookup = "idle" /\ rpc = "idle" /\ ~blank => flash.settings = wanted
=============================================================================
