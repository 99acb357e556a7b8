---------------------------- MODULE MCUartTasks ----------------------------
(***************************************************************************)
(* UartTasks with an hour of 8 minutes, a minute of 6 slots, and frames of *)
(* 2 and 3 bytes.                                                          *)
(***************************************************************************)
EXTENDS UartTasks

MCRpcValues == {1, 256}

\* The Indian date changes at 18:30 UTC.  Day 31 is what a half-written date at the
\* turn of a month looks like: the month is written before the day.
MCTimes == {[day |-> 0, hour |-> 18, min |-> m] : m \in {15, 30, 45}}
             \cup {[day |-> 31, hour |-> 18, min |-> 45]}

ClockAtRest == /\ networkStatus = 1 /\ tm = Clock!Unset /\ clock = Clock!Unset
               /\ g_dt_tm = Clock!Unset /\ \A p \in Clock!Caller : ~Clock!Busy(p)
               /\ ist = [hour |-> 0, min |-> 0] /\ stamp = Clock!Blank("nobody")

\* Bound: bytes are sent and collected around the first timer event and until its
\* duties begin, while no RPC has changed the intervals, and the shortest frame from
\* the start.  get_time has something to do at the start, with at most that frame
\* collected, while the receiver has a time or none.
Workload == /\ line # <<>> \/ rcv_data_buf # <<>> \/ ~ClockAtRest =>
                 /\ <<count, slot>> \in {<<0, 0>>, <<0, Period>>, <<1, 0>>}
                 /\ pc \in {"poll", "attributes"}
                 /\ (count = 0 /\ slot = 0 => Len(line) + Len(rcv_data_buf) <= AttributesSize)
                 /\ pdata_int = 10 /\ hdata_int = 3
            /\ ~ClockAtRest =>
                 /\ <<count, slot>> = <<0, 0>>
                 /\ line = <<>> /\ ~collect
                 /\ Len(rcv_data_buf) <= AttributesSize
                 /\ (param2 = 0 <=> rcv_data_buf = <<>>)
                 /\ (Clock!Known(g_dt_tm) => g_dt_tm.min # 0)
                 /\ (g_dt_tm.day = 31 => g_dt_tm.min = 45)
                 /\ (Clock!Known(clock) \/ clock = Clock!Unset)
                 /\ (Clock!Known(g_dt_tm) \/ g_dt_tm = Clock!Unset
                       \/ \A p \in Clock!Caller : ~Clock!Busy(p))
                 /\ (g_dt_tm.min # 0 => g_dt_tm.hour # 0)
=============================================================================
