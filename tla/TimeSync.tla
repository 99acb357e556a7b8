------------------------------ MODULE TimeSync ------------------------------
(***************************************************************************)
(* The stamp with the date and time that the RMU puts on its data and      *)
(* sends to the pump controller: Indian time, 22 quarters of an hour ahead *)
(* of UTC.                                                                 *)
(*                                                                         *)
(* With a SIM the stamp is the local time of the module's real-time clock, *)
(* without one it comes from the GPS receiver: the clock is set to the     *)
(* receiver's UTC, the stamp takes only the date from its local time and   *)
(* the time of day is computed apart.  get_network_time first sets the     *)
(* clock from time_z, which nothing in the repository ever fills: the      *)
(* module keeps the time it has, or shows a year before 2023.              *)
(*                                                                         *)
(* get_time runs in the UART thread and in the UART callback, which share  *)
(* tm, Ist_Hour, Ist_Min and the strings without a lock, while the GNSS    *)
(* task writes g_dt_tm and the clock runs on.  A run of assignments to one *)
(* of these is a step here; a mixture of two runs that overlap is not told *)
(* apart, because a stamp that was written in an overlap is only known to  *)
(* be Garbled.                                                             *)
(***************************************************************************)
EXTENDS Integers

CONSTANT Times \* bound: the times a source may give, in UTC; the dates include
               \* what a date that is half written looks like

VARIABLES
  networkStatus, \* 0: the network gives the time, 1: GPS does
  tm,            \* the time the calls compute in
  ist,           \* Ist_Hour, Ist_Min
  clock,         \* the module's real-time clock, in UTC
  g_dt_tm,       \* what the GNSS task has written of the receiver's time
  call,          \* where each caller is in get_time and which time it takes; and
                 \* (history) whether nobody interfered since it began
  stamp          \* dt_time_CRI, only_dt, only_tm, current_dt, and (history) the
                 \* time the source had

vars == <<networkStatus, tm, ist, clock, g_dt_tm, call, stamp>>
-----------------------------------------------------------------------------
Caller   == {"thread", "callback"}
Busy(p)  == call[p].pc # "idle"
Resting  == [pc |-> "idle", by |-> "nobody", sound |-> FALSE]
Disturbed == [p \in Caller |-> [call[p] EXCEPT !.sound = FALSE]]

\* A date in a year before 2023 is no date.
NoDay    == -1
Unset    == [day |-> NoDay, hour |-> 0, min |-> 0]
Known(t) == t.day # NoDay

\* What ql_rtc_get_localtime makes of a time in UTC.
Quarters    == 22 \* the argument of ql_rtc_set_timezone
OfDay(t)    == 60 * t.hour + t.min + 15 * Quarters
NextDay(t)  == OfDay(t) >= 1440
Local(t)    == [day  |-> IF Known(t) /\ NextDay(t) THEN t.day + 1 ELSE t.day,
                hour |-> (IF NextDay(t) THEN OfDay(t) - 1440 ELSE OfDay(t)) \div 60,
                min  |-> OfDay(t) % 60]

\* set_gps_time's own way from UTC to Indian time.  The variant keeps the
\* minutes when it carries.
Adjusted_Kept(i) == IF i.min > 30 THEN [hour |-> i.hour + 6, min |-> i.min]
                                  ELSE [hour |-> i.hour + 5, min |-> i.min + 30]
Adjusted(i)      == IF i.min > 30 THEN [hour |-> i.hour + 6, min |-> i.min - 30]
                                  ELSE [hour |-> i.hour + 5, min |-> i.min + 30]

\* The stamps: of a date and a time of day, of zeros, and of a call that was
\* disturbed.
Stamp(by, day, i, of) == [by |-> by, day |-> day, hour |-> i.hour, min |-> i.min, of |-> of]
Blank(by) == Stamp(by, 0, Unset, Unset)
Garbled   == Blank("overlap")
-----------------------------------------------------------------------------
Init ==
  /\ networkStatus \in {0, 1}
  /\ tm = Unset /\ ist = [hour |-> 0, min |-> 0]
  /\ clock = Unset /\ g_dt_tm = Unset
  /\ call = [p \in Caller |-> Resting]
  /\ stamp = Blank("nobody")

\* A call begins.  If the other caller is in one, neither is alone any more.
Begin(p, by) ==
  call' = [q \in Caller |->
             IF q # p THEN [call[q] EXCEPT !.sound = FALSE]
             ELSE [pc |-> "tm", by |-> by, sound |-> \A r \in Caller \ {p} : ~Busy(r)]]

\* get_time, after networkStatus has been brought up to date.  Without the
\* network and without a fix it does nothing.
GetTime(p) ==
  /\ ~Busy(p)
  /\ \/ networkStatus' = 0 /\ Begin(p, "network")
     \/ networkStatus' = 1 /\ Begin(p, "gps")
     \/ networkStatus' = 1 /\ UNCHANGED call
  /\ UNCHANGED <<tm, ist, clock, g_dt_tm, stamp>>

\* Timesync: a SIM that is neither ready nor missing leaves sim_flag as it was.
Timesync == networkStatus' \in {0, 1}

\* The UART callback, and the thread before it sends the time.
Synchronise(p) == Timesync /\ GetTime(p)

\* The UART thread in each turn of its loop.
Refresh(p) == UNCHANGED networkStatus /\ GetTime(p)

At(p, pc) == call[p].pc = pc
Goto(p, pc) == call' = [call EXCEPT ![p].pc = pc]

\* The zeros of time_z, or what the GNSS task has written.
TakeTime(p) ==
  /\ At(p, "tm") /\ Goto(p, "set")
  /\ tm' = IF call[p].by = "network" THEN Unset ELSE g_dt_tm
  /\ UNCHANGED <<networkStatus, ist, clock, g_dt_tm, stamp>>

\* ql_rtc_set_time, which may refuse a time without a date ...
SetClock(p) ==
  /\ At(p, "set") /\ Goto(p, "get")
  /\ clock' \in IF Known(tm) THEN {tm} ELSE {clock, tm}
  /\ UNCHANGED <<networkStatus, tm, ist, g_dt_tm, stamp>>

\* ... ql_rtc_get_time, which leaves UTC in tm ...
ReadClock(p) ==
  /\ At(p, "get") /\ Goto(p, "local")
  /\ tm' = clock
  /\ UNCHANGED <<networkStatus, ist, clock, g_dt_tm, stamp>>

\* ... and ql_rtc_get_localtime.
ReadLocal(p) ==
  /\ At(p, "local") /\ Goto(p, IF call[p].by = "network" THEN "print" ELSE "ist")
  /\ tm' = Local(clock)
  /\ UNCHANGED <<networkStatus, ist, clock, g_dt_tm, stamp>>

\* set_gps_time reads the receiver's time of day a second time ...
LoadIst(p) ==
  /\ At(p, "ist") /\ Goto(p, "adjust")
  /\ ist' = [hour |-> g_dt_tm.hour, min |-> g_dt_tm.min]
  /\ UNCHANGED <<networkStatus, tm, clock, g_dt_tm, stamp>>

\* ... and moves it in place.
AdjustIst(p) ==
  /\ At(p, "adjust") /\ Goto(p, "print")
  /\ ist' = Adjusted(ist)
  /\ UNCHANGED <<networkStatus, tm, clock, g_dt_tm, stamp>>

\* Without a date from the network the call goes on to set_gps_time, fix or no
\* fix; without a date from there it writes zeros.
WriteStamp(p) ==
  /\ At(p, "print")
  /\ \/ /\ call[p].by = "network" /\ ~Known(tm)
        /\ call' = [call EXCEPT ![p].pc = "tm", ![p].by = "gps"]
        /\ UNCHANGED stamp
     \/ /\ call[p].by = "gps" \/ Known(tm)
        /\ call' = [call EXCEPT ![p] = Resting]
        /\ stamp' = IF ~call[p].sound THEN Garbled
                    ELSE IF ~Known(tm) THEN Blank("zeros")
                    ELSE IF call[p].by = "network" THEN Stamp("network", tm.day, tm, clock)
                    ELSE Stamp("gps", tm.day, ist, g_dt_tm)
  /\ UNCHANGED <<networkStatus, tm, ist, clock, g_dt_tm>>

Step(p) == \/ TakeTime(p) \/ SetClock(p) \/ ReadClock(p) \/ ReadLocal(p)
           \/ LoadIst(p) \/ AdjustIst(p) \/ WriteStamp(p)

\* The GNSS task writes year, month and day one by one when it has an RMC
\* sentence, the hour and then the minute when it has a GGA.
Gnss ==
  /\ \E t \in Times : \/ g_dt_tm' = [g_dt_tm EXCEPT !.day = t.day]
                      \/ g_dt_tm' = [g_dt_tm EXCEPT !.hour = t.hour]
                      \/ g_dt_tm' = [g_dt_tm EXCEPT !.min = t.min]
  /\ call' = Disturbed
  /\ UNCHANGED <<networkStatus, tm, ist, clock, stamp>>

\* The module's clock runs on; the module may set it from its network.
ClockRuns ==
  /\ clock' \in Times
  /\ call' = Disturbed
  /\ UNCHANGED <<networkStatus, tm, ist, g_dt_tm, stamp>>

\* set_network_time, first thing in the UART thread, calls Timesync.
Restart ==
  /\ networkStatus' \in {0, 1}
  /\ tm' = Unset /\ ist' = [hour |-> 0, min |-> 0]
  /\ clock' = Unset /\ g_dt_tm' = Unset
  /\ call' = [p \in Caller |-> Resting]
  /\ stamp' = Blank("nobody")

Next ==
  \/ \E p \in Caller : Synchronise(p) \/ Refresh(p) \/ Step(p)
  \/ Gnss \/ ClockRuns \/ Restart

Spec == Init /\ [][Next]_vars
-----------------------------------------------------------------------------
Time == [day : Nat \cup {NoDay}, hour : 0..23, min : 0..59]

TypeOK ==
  /\ networkStatus \in {0, 1}
  /\ tm \in Time /\ clock \in Time /\ g_dt_tm \in Time
  /\ ist \in [hour : Nat, min : 0..60]
  /\ call \in [Caller -> [pc : {"idle", "tm", "set", "get", "local", "ist", "adjust", "print"},
                          by : {"nobody", "network", "gps"}, sound : BOOLEAN]]
  /\ stamp \in [by : {"nobody", "overlap", "zeros", "network", "gps"}, day : Nat,
                hour : Nat, min : 0..60, of : Time]

\* The instant a stamp names and the Indian time of its source, in minutes.
Instant  == 1440 * stamp.day + 60 * stamp.hour + stamp.min
Moved(t) == 1440 * t.day + OfDay(t)

\* Whatever overlapping calls have left in tm, Ist_Hour, Ist_Min and the clock,
\* the stamp of a call nobody interfered with names the Indian time of its
\* source; but if the Indian date is already the next, a GPS stamp is 24 hours
\* late (set_gps_time takes that date and still counts the hours from the old
\* one), and half past the hour is written as minute 60.
IstInstant ==
  /\ stamp.by = "network" => Instant = Moved(stamp.of)
  /\ stamp.by = "gps" /\ Known(stamp.of) =>
       /\ Instant = Moved(stamp.of) + (IF NextDay(stamp.of) THEN 1440 ELSE 0)
       /\ stamp.min = 60 <=> stamp.of.min = 30
=============================================================================
