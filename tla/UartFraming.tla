---------------------------- MODULE UartFraming ----------------------------
(***************************************************************************)
(* How ql_uart_notify_cb puts the frames of the pump controller together.  *)
(*                                                                         *)
(* The controller sends frames, from a '$' to a '#', whenever it likes.    *)
(* The UART driver hands the bytes over in chunks of any size and may lose *)
(* some when it overflows.  The callback looks at the first byte of a      *)
(* chunk only: a '$' there starts a frame if none is being collected, a    *)
(* '#' there ends it.  A frame whose ends lie inside a chunk is glued to   *)
(* others, or lost.  Nothing keeps the callback from writing beyond the    *)
(* end of its buffer; what the RMU does after that is undefined.           *)
(***************************************************************************)
EXTENDS Integers, Sequences

CONSTANTS
  TelemetrySize,  \* bytes of a telemetry frame (180 in the code's comments)
  AttributesSize, \* bytes of an attributes frame (60)
  Threshold,      \* a longer string is taken for telemetry (70)
  BufferSize,     \* what rcv_data_buf can hold (249 and the final NUL)
  LineSize        \* bound: bytes sent and not yet handed over

VARIABLES
  line,         \* the bytes on their way from the controller to the callback
  rcv_data_buf, \* the bytes collected
  collect,      \* Usart_rcvbf_collect_flag
  frame,        \* history: the bytes of a frame so far whose '$' began a chunk and
                \* of which none was lost
  alone,        \* history: nothing was being collected when that frame began
  torn,         \* history: bytes were lost since the buffer was last cleared
  overrun       \* bytes were written beyond the end of rcv_data_buf

vars == <<line, rcv_data_buf, collect, frame, alone, torn, overrun>>
-----------------------------------------------------------------------------
Telemetry  == 1
Attributes == 2
Kind       == {Telemetry, Attributes}

Head_ == "$"
Body  == "b"
End   == "#"
Byte  == {Head_, Body, End}

SizeOf(k)  == IF k = Telemetry THEN TelemetrySize ELSE AttributesSize
FrameOf(k) == [i \in 1..SizeOf(k) |-> IF i = 1 THEN Head_
                                      ELSE IF i = SizeOf(k) THEN End ELSE Body]

\* In a stream of frames a '$' comes after a '#', and nothing else does.
Follows(a, b) == a = End <=> b = Head_
Stream(s)     == \A i \in 1..Len(s) - 1 : Follows(s[i], s[i + 1])

EndsWith(s, t) == /\ Len(t) <= Len(s)
                  /\ \A i \in 1..Len(t) : s[Len(s) - Len(t) + i] = t[i]

Chunk(n) == SubSeq(line, 1, n)
Rest(n)  == SubSeq(line, n + 1, Len(line))

\* The callback keeps a chunk that begins a frame or belongs to one.
Keeps(n) == line[1] = Head_ \/ collect

\* The frame is complete.
Completes(n) == Keeps(n) /\ line[1] = End

\* rcv_data_buf with the chunk in it.  The variant does not clear the buffer
\* before a new frame.
Collected_Uncleared(n) == rcv_data_buf \o Chunk(n)
Collected(n) == IF collect THEN rcv_data_buf \o Chunk(n) ELSE Chunk(n)

\* Only the length tells telemetry from attributes.
KindOf(string) == IF Len(string) > Threshold THEN Telemetry ELSE Attributes
-----------------------------------------------------------------------------
Init ==
  /\ line = <<>> /\ rcv_data_buf = <<>> /\ collect = FALSE
  /\ frame = <<>> /\ alone = FALSE /\ torn = FALSE /\ overrun = FALSE

\* The controller answers a request or reports an event.
Send(k) ==
  /\ Len(line) + SizeOf(k) <= LineSize
  /\ line' = line \o FrameOf(k)
  /\ UNCHANGED <<rcv_data_buf, collect, frame, alone, torn, overrun>>

\* QUEC_UART_RX_RECV_DATA_IND: the callback reads a chunk and appends it to the
\* buffer, whatever room there is.
Receive(n) ==
  /\ n \in 1..Len(line) /\ ~overrun
  /\ overrun' = (Keeps(n) /\ Len(Collected(n)) > BufferSize)
  /\ line' = Rest(n)
  /\ rcv_data_buf' = IF Keeps(n) THEN Collected(n) ELSE rcv_data_buf
  /\ collect' = (Keeps(n) /\ ~Completes(n))
  /\ frame' = IF \E i \in 1..n : line[i] = End THEN <<>>
              ELSE IF line[1] = Head_ THEN Chunk(n)
              ELSE IF frame # <<>> THEN frame \o Chunk(n) ELSE <<>>
  /\ alone' = (frame' # <<>> /\ IF line[1] = Head_ THEN ~collect ELSE alone)
  /\ torn' = (collect /\ torn)

\* The driver has no room for bytes.
Overflow(n) ==
  /\ n \in 1..Len(line)
  /\ line' = Rest(n)
  /\ frame' = <<>> /\ alone' = FALSE /\ torn' = (torn \/ collect)
  /\ UNCHANGED <<rcv_data_buf, collect, overrun>>

\* The RMU restarts, the controller does not.
Restart ==
  /\ rcv_data_buf' = <<>> /\ collect' = FALSE
  /\ frame' = <<>> /\ alone' = FALSE /\ torn' = FALSE /\ overrun' = FALSE
  /\ UNCHANGED line

Next ==
  \/ \E k \in Kind : Send(k)
  \/ \E n \in 1..Len(line) : Receive(n) \/ Overflow(n)
  \/ Restart

Spec == Init /\ [][Next]_vars
-----------------------------------------------------------------------------
TypeOK ==
  /\ line \in Seq(Byte) /\ rcv_data_buf \in Seq(Byte) /\ frame \in Seq(Byte)
  /\ collect \in BOOLEAN /\ alone \in BOOLEAN /\ torn \in BOOLEAN /\ overrun \in BOOLEAN

\* As long as the buffer was not overrun, a frame whose '$' begins a chunk is
\* collected, up to the chunk its '#' begins, whatever rubbish and lost ends were
\* collected before it.  If nothing was being collected, the buffer holds nothing
\* else.
FrameCollected ==
  frame # <<>> => /\ collect
                  /\ EndsWith(rcv_data_buf, frame)
                  /\ alone => rcv_data_buf = frame

\* What is collected is a piece of the stream, from the beginning of a frame,
\* without a gap, unless the driver lost bytes.
NoGap == collect /\ ~torn => rcv_data_buf[1] = Head_ /\ Stream(rcv_data_buf \o line)

\* The buffer is overrun only after the end of a frame went unnoticed inside a
\* chunk or was lost, never by a frame that began while nothing was collected.
RoomForAFrame ==
  overrun => /\ ~alone
             /\ torn \/ \E i \in 1..Len(rcv_data_buf) - 1 : rcv_data_buf[i] = End
=============================================================================
