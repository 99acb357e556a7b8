------------------------- MODULE UartTasks_proofs -------------------------
(***************************************************************************)
(* Proofs about UartTasks: frames are collected without gaps, the duties   *)
(* of a minute end before the next one, telemetry is asked for every hour, *)
(* the stamps name the right time or a known wrong one, and the mailbox is *)
(* the one of Mailbox.                                                     *)
(***************************************************************************)
EXTENDS UartTasks, SequenceTheorems, TLAPS

-----------------------------------------------------------------------------
(* The framing.                                                            *)

Byte == Frames!Byte

\* The line carries the end of a stream of frames, and so does the buffer as
\* long as nothing was lost.
FrameInv ==
  /\ Frames!TypeOK
  /\ Frames!Stream(line)
  /\ line # <<>> => line[Len(line)] = "#"
  /\ collect => rcv_data_buf # <<>>
  /\ collect /\ ~torn =>
       /\ rcv_data_buf[1] = "$"
       /\ Frames!Stream(rcv_data_buf \o line)
       /\ (rcv_data_buf \o line)[Len(rcv_data_buf \o line)] = "#"
  /\ Frames!FrameCollected

\* A frame is a stream that begins with '$' and ends with '#'.
LEMMA FrameShape ==
  ASSUME NEW k \in Frames!Kind
  PROVE  /\ Frames!FrameOf(k) \in Seq(Byte)
         /\ Frames!FrameOf(k) # <<>>
         /\ Frames!FrameOf(k)[1] = "$"
         /\ Frames!FrameOf(k)[Len(Frames!FrameOf(k))] = "#"
         /\ Frames!Stream(Frames!FrameOf(k))
<1>1. Frames!SizeOf(k) \in Nat /\ Frames!SizeOf(k) > 1
  BY SizeAssumption DEF Frames!SizeOf
<1> DEFINE n == Frames!SizeOf(k)
           f == [i \in 1..n |-> IF i = 1 THEN "$" ELSE IF i = n THEN "#" ELSE "b"]
<1>2. Frames!FrameOf(k) = f
  BY DEF Frames!FrameOf, Frames!Head_, Frames!End, Frames!Body
<1>3. n \in Nat /\ n > 1
  BY <1>1
<1> HIDE DEF n
<1>4. f \in Seq(Byte) /\ Len(f) = n
  BY <1>3 DEF Byte, Frames!Byte, Frames!Head_, Frames!End, Frames!Body
<1>5. Frames!Stream(f)
  BY <1>3, <1>4 DEF Frames!Stream, Frames!Follows, Frames!End, Frames!Head_
<1> QED
  BY <1>2, <1>3, <1>4, <1>5

\* A piece of a stream is a stream.
LEMMA StreamPiece ==
  ASSUME NEW s \in Seq(Byte), Frames!Stream(s), NEW n \in 1..Len(s)
  PROVE  LET r == SubSeq(s, n + 1, Len(s))
             c == SubSeq(s, 1, n)
         IN  /\ r \in Seq(Byte) /\ c \in Seq(Byte) /\ c \o r = s
             /\ Len(c) = n /\ Len(r) = Len(s) - n
             /\ \A i \in 1..n : c[i] = s[i]
             /\ \A i \in 1..Len(r) : r[i] = s[n + i]
             /\ Frames!Stream(r)
<1> DEFINE r == SubSeq(s, n + 1, Len(s))
           c == SubSeq(s, 1, n)
<1>1. /\ c \in Seq(Byte) /\ Len(c) = n
      /\ \A i \in 1..n : c[i] = s[i]
  BY SubSeqProperties, ElementOfSeq
<1>2. /\ r \in Seq(Byte) /\ Len(r) = Len(s) - n
      /\ \A i \in 1..Len(r) : r[i] = s[n + i]
  <2>1. \A i \in n + 1 .. Len(s) : s[i] \in Byte
    BY ElementOfSeq
  <2>2. /\ r \in Seq(Byte)
        /\ Len(r) = IF n + 1 <= Len(s) THEN Len(s) - (n + 1) + 1 ELSE 0
        /\ \A i \in 1 .. Len(s) - (n + 1) + 1 : r[i] = s[(n + 1) + i - 1]
    BY <2>1, SubSeqProperties
  <2>3. QED
    BY <2>2
<1>3. c \o r = s
  <2>1. SubSeq(s, 1, n) \o SubSeq(s, n + 1, Len(s)) = SubSeq(s, 1, Len(s))
    BY ConcatAdjacentSubSeq
  <2>2. QED
    BY <2>1, SubSeqFull
<1>4. Frames!Stream(r)
  BY <1>2 DEF Frames!Stream
<1> QED
  BY <1>1, <1>2, <1>3, <1>4

\* Two streams, the first ending with '#' and the second beginning with '$',
\* make one.
LEMMA StreamConcat ==
  ASSUME NEW s \in Seq(Byte), Frames!Stream(s), s # <<>> => s[Len(s)] = "#",
         NEW t \in Seq(Byte), Frames!Stream(t), t # <<>>, t[1] = "$", t[Len(t)] = "#"
  PROVE  /\ Frames!Stream(s \o t)
         /\ s \o t \in Seq(Byte)
         /\ (s \o t)[Len(s \o t)] = "#"
<1>1. /\ s \o t \in Seq(Byte)
      /\ Len(s \o t) = Len(s) + Len(t)
      /\ \A i \in 1 .. Len(s) + Len(t) : (s \o t)[i] =
              IF i <= Len(s) THEN s[i] ELSE t[i - Len(s)]
  BY ConcatProperties
<1>2. Len(t) > 0
  OBVIOUS
<1>3. ASSUME NEW i \in 1..Len(s \o t) - 1
      PROVE  Frames!Follows((s \o t)[i], (s \o t)[i + 1])
  <2>1. CASE i < Len(s)
    BY <1>1, <2>1 DEF Frames!Stream
  <2>2. CASE i = Len(s)
    BY <1>1, <2>2 DEF Frames!Follows, Frames!End, Frames!Head_
  <2>3. CASE i > Len(s)
    <3>1. i - Len(s) \in 1..Len(t) - 1
      BY <1>1, <2>3
    <3>2. (s \o t)[i] = t[i - Len(s)] /\ (s \o t)[i + 1] = t[i - Len(s) + 1]
      BY <1>1, <2>3
    <3>3. QED
      BY <3>1, <3>2 DEF Frames!Stream
  <2>4. QED
    BY <1>1, <2>1, <2>2, <2>3
<1>4. (s \o t)[Len(s \o t)] = "#"
  BY <1>1, <1>2
<1> QED
  BY <1>1, <1>3, <1>4 DEF Frames!Stream

\* What a sequence ends with, the sequence and one more piece end with followed
\* by that piece.
LEMMA EndsWithConcat ==
  ASSUME NEW s \in Seq(Byte), NEW t \in Seq(Byte), NEW c \in Seq(Byte),
         Frames!EndsWith(s, t)
  PROVE  Frames!EndsWith(s \o c, t \o c)
<1>1. /\ Len(s \o c) = Len(s) + Len(c)
      /\ \A i \in 1 .. Len(s) + Len(c) : (s \o c)[i] =
              IF i <= Len(s) THEN s[i] ELSE c[i - Len(s)]
  BY ConcatProperties
<1>2. /\ Len(t \o c) = Len(t) + Len(c)
      /\ \A i \in 1 .. Len(t) + Len(c) : (t \o c)[i] =
              IF i <= Len(t) THEN t[i] ELSE c[i - Len(t)]
  BY ConcatProperties
<1>3. Len(t) <= Len(s) /\ \A i \in 1..Len(t) : s[Len(s) - Len(t) + i] = t[i]
  BY DEF Frames!EndsWith
<1>4. ASSUME NEW i \in 1..Len(t \o c)
      PROVE  (s \o c)[Len(s \o c) - Len(t \o c) + i] = (t \o c)[i]
  <2>1. /\ Len(s \o c) - Len(t \o c) + i = Len(s) - Len(t) + i
        /\ Len(s) - Len(t) + i \in 1 .. Len(s) + Len(c)
    BY <1>1, <1>2, <1>3
  <2>2. CASE i <= Len(t)
    <3>1. Len(s) - Len(t) + i <= Len(s) /\ i \in 1..Len(t)
      BY <1>3, <2>2
    <3>2. QED
      BY <1>1, <1>2, <1>3, <2>1, <2>2, <3>1
  <2>3. CASE i > Len(t)
    BY <1>1, <1>2, <1>3, <2>1, <2>3
  <2>4. i <= Len(t) \/ i > Len(t)
    BY <1>2
  <2>5. QED
    BY <2>2, <2>3, <2>4
<1>5. Len(t \o c) <= Len(s \o c)
  BY <1>1, <1>2, <1>3
<1> QED
  BY <1>4, <1>5 DEF Frames!EndsWith

\* A sequence ends with itself, and with the piece appended last.
LEMMA EndsWithLast ==
  ASSUME NEW s \in Seq(Byte), NEW c \in Seq(Byte)
  PROVE  Frames!EndsWith(c, c) /\ Frames!EndsWith(s \o c, c)
<1>1. /\ Len(s \o c) = Len(s) + Len(c)
      /\ \A i \in 1 .. Len(s) + Len(c) : (s \o c)[i] =
              IF i <= Len(s) THEN s[i] ELSE c[i - Len(s)]
  BY ConcatProperties
<1>2. ASSUME NEW i \in 1..Len(c)
      PROVE  (s \o c)[Len(s \o c) - Len(c) + i] = c[i]
  BY <1>1
<1> QED
  BY <1>1, <1>2 DEF Frames!EndsWith

\* A piece moves from one end of a concatenation to the other.
LEMMA Regroup ==
  ASSUME NEW s \in Seq(Byte), NEW t \in Seq(Byte), NEW u \in Seq(Byte)
  PROVE  s \o (t \o u) = (s \o t) \o u
<1>1. (s \o t) \o u = s \o (t \o u)
  BY ConcatAssociative
<1> QED
  BY <1>1

\* Nothing is on the line at first.
LEMMA FrameInit == Frames!Init => FrameInv
<1>1. <<>> \in Seq(Byte) /\ Len(<<>>) = 0
  BY EmptySeq
<1> SUFFICES ASSUME Frames!Init PROVE FrameInv
  OBVIOUS
<1>2. /\ line = <<>> /\ rcv_data_buf = <<>> /\ frame = <<>>
      /\ collect = FALSE /\ alone = FALSE /\ torn = FALSE /\ overrun = FALSE
  BY DEF Frames!Init
<1>3. Frames!TypeOK
  BY <1>1, <1>2 DEF Frames!TypeOK, Byte
<1>4. Frames!Stream(line)
  BY <1>1, <1>2 DEF Frames!Stream
<1>5. Frames!FrameCollected
  BY <1>2 DEF Frames!FrameCollected
<1> QED
  BY <1>2, <1>3, <1>4, <1>5 DEF FrameInv

\* The controller adds a whole frame.
LEMMA FrameSend ==
  ASSUME FrameInv, NEW k \in Frames!Kind, Frames!Send(k)
  PROVE  FrameInv'
<1> DEFINE f == Frames!FrameOf(k)
<1>1. /\ f \in Seq(Byte) /\ f # <<>> /\ f[1] = "$" /\ f[Len(f)] = "#"
      /\ Frames!Stream(f)
  BY FrameShape
<1>2. line' = line \o f /\ UNCHANGED <<rcv_data_buf, collect, frame, alone, torn, overrun>>
  BY DEF Frames!Send
<1> HIDE DEF f
<1>3. /\ line \in Seq(Byte) /\ Frames!Stream(line) /\ rcv_data_buf \in Seq(Byte)
      /\ line # <<>> => line[Len(line)] = "#"
  BY DEF FrameInv, Frames!TypeOK, Byte
<1>4. line' \in Seq(Byte) /\ Frames!Stream(line)' /\ line'[Len(line')] = "#"
  <2>1. /\ line \o f \in Seq(Byte) /\ Frames!Stream(line \o f)
        /\ (line \o f)[Len(line \o f)] = "#"
    BY <1>1, <1>3, StreamConcat
  <2>2. Frames!Stream(line)' <=> Frames!Stream(line')
    BY DEF Frames!Stream, Frames!Follows
  <2>3. QED
    BY <1>2, <2>1, <2>2
<1>5. ASSUME collect, ~torn
      PROVE  /\ Frames!Stream(rcv_data_buf \o line)'
             /\ (rcv_data_buf \o line)'[Len(rcv_data_buf \o line)'] = "#"
             /\ rcv_data_buf[1] = "$"
  <2> DEFINE all == rcv_data_buf \o line
  <2>1. all \in Seq(Byte) /\ (rcv_data_buf \o line)' = all \o f
    <3>1. all \in Seq(Byte)
      BY <1>3, ConcatProperties
    <3>2. rcv_data_buf \o (line \o f) = (rcv_data_buf \o line) \o f
      BY <1>1, <1>3, Regroup
    <3>3. QED
      BY <1>2, <3>1, <3>2
  <2>2. Frames!Stream(all) /\ all[Len(all)] = "#" /\ rcv_data_buf[1] = "$"
    BY <1>5 DEF FrameInv
  <2>3. Frames!Stream(rcv_data_buf \o line)' <=> Frames!Stream((rcv_data_buf \o line)')
    BY DEF Frames!Stream, Frames!Follows
  <2> HIDE DEF all
  <2>4. Frames!Stream(all \o f) /\ (all \o f)[Len(all \o f)] = "#"
    BY <1>1, <2>1, <2>2, StreamConcat
  <2>5. QED
    BY <2>1, <2>2, <2>3, <2>4
<1>6. Frames!FrameCollected'
  BY <1>2 DEF FrameInv, Frames!FrameCollected, Frames!EndsWith
<1> QED
  BY <1>2, <1>4, <1>5, <1>6 DEF FrameInv, Frames!TypeOK, Byte

\* What is left of the line when n bytes are taken from it.
LEMMA LineTaken ==
  ASSUME FrameInv, NEW n \in 1..Len(line), line' = Frames!Rest(n)
  PROVE  /\ Frames!Chunk(n) \in Seq(Byte) /\ Frames!Chunk(n) # <<>>
         /\ Frames!Chunk(n) \o line' = line
         /\ Len(Frames!Chunk(n)) = n
         /\ \A i \in 1..n : Frames!Chunk(n)[i] = line[i]
         /\ line' \in Seq(Byte)
         /\ Frames!Stream(line)'
         /\ (line # <<>> => line[Len(line)] = "#")'
<1>1. /\ line \in Seq(Byte) /\ Frames!Stream(line)
      /\ line # <<>> => line[Len(line)] = "#"
  BY DEF FrameInv, Frames!TypeOK, Byte
<1> DEFINE r == SubSeq(line, n + 1, Len(line))
           c == SubSeq(line, 1, n)
<1>2. /\ r \in Seq(Byte) /\ c \in Seq(Byte) /\ c \o r = line
      /\ Len(c) = n /\ Len(r) = Len(line) - n
      /\ \A i \in 1..n : c[i] = line[i]
      /\ \A i \in 1..Len(r) : r[i] = line[n + i]
      /\ Frames!Stream(r)
  BY <1>1, StreamPiece
<1>3. line' = r /\ Frames!Chunk(n) = c
  BY DEF Frames!Rest, Frames!Chunk
<1> HIDE DEF r, c
<1>4. Frames!Stream(line)'
  <2>1. Frames!Stream(line)' <=> Frames!Stream(line')
    BY DEF Frames!Stream, Frames!Follows
  <2>2. QED
    BY <1>2, <1>3, <2>1
<1>5. r # <<>> => r[Len(r)] = "#"
  <2>1. SUFFICES ASSUME r # <<>> PROVE r[Len(r)] = "#"
    OBVIOUS
  <2>2. Len(r) \in 1..Len(r)
    BY <1>2, <2>1
  <2>3. r[Len(r)] = line[Len(line)] /\ line # <<>>
    BY <1>2, <2>2
  <2>4. QED
    BY <1>1, <2>3
<1>6. c # <<>>
  BY <1>2
<1> QED
  BY <1>2, <1>3, <1>4, <1>5, <1>6

\* The driver loses bytes: what is being collected may have a gap.
LEMMA FrameOverflow ==
  ASSUME FrameInv, NEW n \in 1..Len(line), Frames!Overflow(n)
  PROVE  FrameInv'
<1>1. /\ line' = Frames!Rest(n)
      /\ frame' = <<>> /\ alone' = FALSE /\ torn' = (torn \/ collect)
      /\ UNCHANGED <<rcv_data_buf, collect, overrun>>
  BY DEF Frames!Overflow
<1>2. /\ line' \in Seq(Byte) /\ Frames!Stream(line)'
      /\ (line # <<>> => line[Len(line)] = "#")'
  BY <1>1, LineTaken
<1>3. Frames!TypeOK'
  <2>1. <<>> \in Seq(Byte)
    BY EmptySeq
  <2>2. QED
    BY <1>1, <1>2, <2>1 DEF FrameInv, Frames!TypeOK, Byte
<1>4. Frames!FrameCollected'
  BY <1>1 DEF Frames!FrameCollected
<1> QED
  BY <1>1, <1>2, <1>3, <1>4 DEF FrameInv

\* The RMU starts again with an empty buffer.
LEMMA FrameRestart ==
  ASSUME FrameInv, Frames!Restart
  PROVE  FrameInv'
<1>1. /\ rcv_data_buf' = <<>> /\ collect' = FALSE
      /\ frame' = <<>> /\ alone' = FALSE /\ torn' = FALSE /\ overrun' = FALSE
      /\ UNCHANGED line
  BY DEF Frames!Restart
<1>2. Frames!TypeOK'
  <2>1. <<>> \in Seq(Byte)
    BY EmptySeq
  <2>2. QED
    BY <1>1, <2>1 DEF FrameInv, Frames!TypeOK, Byte
<1>3. Frames!Stream(line)'
  BY <1>1 DEF FrameInv, Frames!Stream
<1>4. Frames!FrameCollected'
  BY <1>1 DEF Frames!FrameCollected
<1> QED
  BY <1>1, <1>2, <1>3, <1>4 DEF FrameInv

\* The callback takes a chunk.
LEMMA FrameReceive ==
  ASSUME FrameInv, NEW n \in 1..Len(line), Frames!Receive(n)
  PROVE  FrameInv'
<1> DEFINE c == Frames!Chunk(n)
<1>1. /\ c \in Seq(Byte) /\ c # <<>> /\ c \o line' = line /\ Len(c) = n
      /\ \A i \in 1..n : c[i] = line[i]
      /\ line' \in Seq(Byte) /\ Frames!Stream(line)'
      /\ (line # <<>> => line[Len(line)] = "#")'
  BY LineTaken DEF Frames!Receive
<1>2. /\ line \in Seq(Byte) /\ rcv_data_buf \in Seq(Byte) /\ frame \in Seq(Byte)
      /\ collect \in BOOLEAN /\ alone \in BOOLEAN /\ torn \in BOOLEAN
      /\ Frames!Stream(line)
      /\ line # <<>> /\ line[Len(line)] = "#" /\ 1 \in 1..n
  BY DEF FrameInv, Frames!TypeOK, Byte
<1>3. /\ rcv_data_buf' = IF Frames!Keeps(n) THEN Frames!Collected(n) ELSE rcv_data_buf
      /\ collect' = (Frames!Keeps(n) /\ ~Frames!Completes(n))
      /\ frame' = IF \E i \in 1..n : line[i] = "#" THEN <<>>
                  ELSE IF line[1] = "$" THEN c
                  ELSE IF frame # <<>> THEN frame \o c ELSE <<>>
      /\ alone' = (frame' # <<>> /\ IF line[1] = "$" THEN ~collect ELSE alone)
      /\ torn' = (collect /\ torn)
      /\ overrun' \in BOOLEAN
  BY DEF Frames!Receive, Frames!End, Frames!Head_
<1>4. /\ Frames!Keeps(n) <=> line[1] = "$" \/ collect
      /\ collect' <=> (line[1] = "$" \/ collect) /\ line[1] # "#"
  BY <1>2, <1>3 DEF Frames!Keeps, Frames!Completes, Frames!End, Frames!Head_
<1>5. Frames!Collected(n) = IF collect THEN rcv_data_buf \o c ELSE c
  BY DEF Frames!Collected
<1> HIDE DEF c
<1>6. /\ rcv_data_buf \o c \in Seq(Byte) /\ frame \o c \in Seq(Byte)
      /\ rcv_data_buf \o c # <<>> /\ <<>> \in Seq(Byte)
  BY <1>1, <1>2, ConcatProperties, EmptySeq
<1>7. Frames!TypeOK'
  <2>1. rcv_data_buf' \in Seq(Byte)
    BY <1>1, <1>2, <1>3, <1>5, <1>6
  <2>2. frame' \in Seq(Byte)
    BY <1>1, <1>3, <1>6
  <2>3. /\ collect' \in BOOLEAN /\ alone' \in BOOLEAN /\ torn' \in BOOLEAN
        /\ overrun' \in BOOLEAN
    BY <1>2, <1>3
  <2>4. QED
    BY <1>1, <2>1, <2>2, <2>3 DEF Frames!TypeOK, Byte
<1>8. collect' => rcv_data_buf' # <<>>
  BY <1>1, <1>3, <1>4, <1>5, <1>6
<1>9. ASSUME collect', ~torn'
      PROVE  /\ rcv_data_buf'[1] = "$"
             /\ Frames!Stream(rcv_data_buf \o line)'
             /\ (rcv_data_buf \o line)'[Len(rcv_data_buf \o line)'] = "#"
  <2>1. CASE collect
    <3>1. ~torn /\ rcv_data_buf' = rcv_data_buf \o c
      BY <1>3, <1>4, <1>5, <1>9, <2>1
    <3>2. /\ rcv_data_buf[1] = "$" /\ Frames!Stream(rcv_data_buf \o line)
          /\ (rcv_data_buf \o line)[Len(rcv_data_buf \o line)] = "#"
          /\ rcv_data_buf # <<>>
      BY <2>1, <3>1 DEF FrameInv
    <3>3. (rcv_data_buf \o line)' = rcv_data_buf \o line
      <4>1. rcv_data_buf \o (c \o line') = (rcv_data_buf \o c) \o line'
        <5>1. c \in Seq(Byte) /\ line' \in Seq(Byte) /\ rcv_data_buf \in Seq(Byte)
          BY <1>1, <1>2
        <5>2. QED
          BY <5>1, Regroup
      <4>2. QED
        BY <1>1, <3>1, <4>1
    <3>4. (rcv_data_buf \o c)[1] = rcv_data_buf[1]
      <4>1. Len(rcv_data_buf) >= 1
        BY <1>2, <3>2
      <4>2. \A i \in 1 .. Len(rcv_data_buf) + Len(c) : (rcv_data_buf \o c)[i] =
                IF i <= Len(rcv_data_buf) THEN rcv_data_buf[i]
                                          ELSE c[i - Len(rcv_data_buf)]
        BY <1>1, <1>2, ConcatProperties
      <4>3. QED
        BY <1>1, <1>2, <4>1, <4>2
    <3>5. Frames!Stream(rcv_data_buf \o line)'
      <4>1. Frames!Stream(rcv_data_buf \o line)' <=> Frames!Stream((rcv_data_buf \o line)')
        BY DEF Frames!Stream, Frames!Follows
      <4>2. QED
        BY <3>2, <3>3, <4>1
    <3>6. QED
      BY <3>1, <3>2, <3>3, <3>4, <3>5
  <2>2. CASE ~collect
    <3>1. line[1] = "$" /\ rcv_data_buf' = c
      BY <1>3, <1>4, <1>5, <1>9, <2>2
    <3>2. (rcv_data_buf \o line)' = line
      BY <1>1, <3>1
    <3>3. Frames!Stream(rcv_data_buf \o line)'
      <4>1. Frames!Stream(rcv_data_buf \o line)' <=> Frames!Stream((rcv_data_buf \o line)')
        BY DEF Frames!Stream, Frames!Follows
      <4>2. QED
        BY <1>2, <3>2, <4>1
    <3>4. c[1] = "$"
      BY <1>1, <1>2, <3>1
    <3>5. QED
      BY <1>2, <3>1, <3>2, <3>3, <3>4
  <2>3. QED
    BY <2>1, <2>2
<1>10. Frames!FrameCollected'
  <2> SUFFICES ASSUME frame' # <<>>
               PROVE  /\ collect'
                      /\ Frames!EndsWith(rcv_data_buf', frame')
                      /\ alone' => rcv_data_buf' = frame'
    <3>1. Frames!EndsWith(rcv_data_buf, frame)' <=> Frames!EndsWith(rcv_data_buf', frame')
      BY DEF Frames!EndsWith
    <3>2. QED
      BY <3>1 DEF Frames!FrameCollected
  <2>1. line[1] # "#"
    BY <1>2, <1>3
  <2>2. CASE line[1] = "$"
    <3>1. collect' /\ frame' = c /\ alone' = ~collect
      BY <1>2, <1>3, <1>4, <2>1, <2>2
    <3>2. rcv_data_buf' = IF collect THEN rcv_data_buf \o c ELSE c
      BY <1>3, <1>4, <1>5, <2>2
    <3>3. Frames!EndsWith(c, c) /\ Frames!EndsWith(rcv_data_buf \o c, c)
      BY <1>1, <1>2, EndsWithLast
    <3>4. QED
      BY <3>1, <3>2, <3>3
  <2>3. CASE line[1] # "$"
    <3>1. frame # <<>> /\ frame' = frame \o c /\ alone' = alone
      BY <1>2, <1>3, <2>3
    <3>2. /\ collect /\ Frames!EndsWith(rcv_data_buf, frame)
          /\ alone => rcv_data_buf = frame
      BY <3>1 DEF FrameInv, Frames!FrameCollected
    <3>3. collect' /\ rcv_data_buf' = rcv_data_buf \o c
      BY <1>3, <1>4, <1>5, <2>1, <3>2
    <3>4. Frames!EndsWith(rcv_data_buf \o c, frame \o c)
      BY <1>1, <1>2, <3>2, EndsWithConcat
    <3>5. QED
      BY <3>1, <3>2, <3>3, <3>4
  <2>4. QED
    BY <2>2, <2>3
<1> QED
  BY <1>1, <1>7, <1>8, <1>9, <1>10 DEF FrameInv

\* Whatever happens on the line, the framing keeps its invariant.
LEMMA FrameStep ==
  ASSUME FrameInv, [Frames!Next]_frameVars
  PROVE  FrameInv'
<1>1. CASE \E k \in Frames!Kind : Frames!Send(k)
  BY <1>1, FrameSend
<1>2. CASE \E n \in 1..Len(line) : Frames!Receive(n) \/ Frames!Overflow(n)
  BY <1>2, FrameReceive, FrameOverflow
<1>3. CASE Frames!Restart
  BY <1>3, FrameRestart
<1>4. CASE UNCHANGED frameVars
  BY <1>4 DEF frameVars, FrameInv, Frames!TypeOK, Frames!Stream, Frames!Follows,
     Frames!FrameCollected, Frames!EndsWith
<1> QED
  BY <1>1, <1>2, <1>3, <1>4 DEF Frames!Next

-----------------------------------------------------------------------------
(* The room in the buffer: among any TelemetrySize bytes of the stream is  *)
(* the end of a frame.                                                     *)

Ends(q) == \A i \in 1..Len(q) :
             i + TelemetrySize - 1 <= Len(q) =>
               \E j \in i .. i + TelemetrySize - 1 : q[j] = "#"

RoomInv ==
  /\ Ends(line)
  /\ collect /\ ~torn => Ends(rcv_data_buf \o line)
  /\ alone => frame # <<>> /\ ~torn
  /\ \A i \in 1..Len(frame) : frame[i] # "#"
  /\ Frames!RoomForAFrame

\* What is left of such a stream is one.
LEMMA EndsPiece ==
  ASSUME NEW q \in Seq(Byte), Ends(q), NEW n \in 1..Len(q),
         NEW r \in Seq(Byte), Len(r) = Len(q) - n, \A i \in 1..Len(r) : r[i] = q[n + i]
  PROVE  Ends(r)
<1> SUFFICES ASSUME NEW i \in 1..Len(r), i + TelemetrySize - 1 <= Len(r)
             PROVE  \E j \in i .. i + TelemetrySize - 1 : r[j] = "#"
  BY DEF Ends
<1>1. TelemetrySize \in Nat /\ TelemetrySize > 1
  BY SizeAssumption
<1>2. n + i \in 1..Len(q) /\ n + i + TelemetrySize - 1 <= Len(q)
  BY <1>1
<1>3. PICK k \in n + i .. n + i + TelemetrySize - 1 : q[k] = "#"
  BY <1>2 DEF Ends
<1>4. k - n \in i .. i + TelemetrySize - 1 /\ k - n \in 1..Len(r) /\ n + (k - n) = k
  BY <1>1, <1>3
<1>5. r[k - n] = "#"
  BY <1>3, <1>4
<1> QED
  BY <1>4, <1>5

\* And a frame more is no harm.
LEMMA EndsConcat ==
  ASSUME NEW q \in Seq(Byte), Ends(q), q # <<>> => q[Len(q)] = "#",
         NEW f \in Seq(Byte), Len(f) <= TelemetrySize, f # <<>>, f[Len(f)] = "#"
  PROVE  Ends(q \o f)
<1>1. /\ q \o f \in Seq(Byte)
      /\ Len(q \o f) = Len(q) + Len(f)
      /\ \A i \in 1 .. Len(q) + Len(f) : (q \o f)[i] =
              IF i <= Len(q) THEN q[i] ELSE f[i - Len(q)]
  BY ConcatProperties
<1>2. TelemetrySize \in Nat /\ TelemetrySize > 1 /\ Len(f) \in Nat /\ Len(f) > 0 /\ Len(q) \in Nat
  BY SizeAssumption
<1> SUFFICES ASSUME NEW i \in 1..Len(q \o f), i + TelemetrySize - 1 <= Len(q \o f)
             PROVE  \E j \in i .. i + TelemetrySize - 1 : (q \o f)[j] = "#"
  BY DEF Ends
<1>3. CASE i + TelemetrySize - 1 <= Len(q)
  <2>1. i \in 1..Len(q)
    BY <1>1, <1>2, <1>3
  <2>2. PICK j \in i .. i + TelemetrySize - 1 : q[j] = "#"
    BY <1>3, <2>1 DEF Ends
  <2>3. j \in 1..Len(q)
    BY <1>2, <1>3, <2>1, <2>2
  <2>4. (q \o f)[j] = q[j]
    BY <1>1, <1>2, <2>3
  <2>5. QED
    BY <2>2, <2>4
<1>4. CASE i + TelemetrySize - 1 > Len(q) /\ i <= Len(q)
  <2>1. Len(q) \in i .. i + TelemetrySize - 1 /\ q # <<>>
    BY <1>1, <1>2, <1>4
  <2>2. (q \o f)[Len(q)] = q[Len(q)]
    BY <1>1, <1>2, <1>4
  <2>3. QED
    BY <2>1, <2>2
<1>5. CASE i > Len(q)
  <2>1. i = Len(q) + 1 /\ Len(q) + Len(f) \in i .. i + TelemetrySize - 1
    BY <1>1, <1>2, <1>5
  <2>2. (q \o f)[Len(q) + Len(f)] = f[Len(f)]
    BY <1>1, <1>2
  <2>3. QED
    BY <2>1, <2>2
<1> QED
  BY <1>1, <1>2, <1>3, <1>4, <1>5

\* A stream longer than the buffer holds an end before its last byte.
LEMMA EndInside ==
  ASSUME NEW b \in Seq(Byte), NEW r \in Seq(Byte), Ends(b \o r), Len(b) > BufferSize
  PROVE  \E i \in 1..Len(b) - 1 : b[i] = "#"
<1>1. TelemetrySize \in Nat /\ TelemetrySize > 1 /\ BufferSize \in Nat /\ TelemetrySize <= BufferSize
  BY SizeAssumption
<1>2. /\ Len(b \o r) = Len(b) + Len(r)
      /\ \A i \in 1 .. Len(b) + Len(r) : (b \o r)[i] =
              IF i <= Len(b) THEN b[i] ELSE r[i - Len(b)]
  BY ConcatProperties
<1>3. Len(b) \in Nat /\ Len(r) \in Nat
  OBVIOUS
<1>4. PICK j \in 1 .. 1 + TelemetrySize - 1 : (b \o r)[j] = "#"
  BY <1>1, <1>2, <1>3 DEF Ends
<1>5. j \in 1..Len(b) - 1
  BY <1>1, <1>3, <1>4
<1>6. (b \o r)[j] = b[j]
  BY <1>2, <1>3, <1>5
<1> QED
  BY <1>4, <1>5, <1>6

LEMMA RoomInit == Frames!Init => RoomInv
<1>1. Len(<<>>) = 0
  OBVIOUS
<1> QED
  BY <1>1 DEF Frames!Init, RoomInv, Ends, Frames!RoomForAFrame

LEMMA RoomSend ==
  ASSUME FrameInv, RoomInv, NEW k \in Frames!Kind, Frames!Send(k)
  PROVE  RoomInv'
<1> DEFINE f == Frames!FrameOf(k)
<1>1. f \in Seq(Byte) /\ f # <<>> /\ f[Len(f)] = "#" /\ Len(f) <= TelemetrySize
  <2>1. Frames!SizeOf(k) \in Nat /\ Frames!SizeOf(k) <= TelemetrySize
    BY SizeAssumption DEF Frames!SizeOf
  <2>2. Len(f) = Frames!SizeOf(k)
    BY <2>1 DEF Frames!FrameOf
  <2>3. QED
    BY <2>1, <2>2, FrameShape
<1>2. line' = line \o f /\ UNCHANGED <<rcv_data_buf, collect, frame, alone, torn, overrun>>
  BY DEF Frames!Send
<1> HIDE DEF f
<1>3. /\ line \in Seq(Byte) /\ rcv_data_buf \in Seq(Byte)
      /\ line # <<>> => line[Len(line)] = "#"
  BY DEF FrameInv, Frames!TypeOK, Byte
<1>4. Ends(line)'
  <2>1. Ends(line \o f)
    BY <1>1, <1>3, EndsConcat DEF RoomInv
  <2>2. QED
    BY <1>2, <2>1 DEF Ends
<1>5. ASSUME collect, ~torn
      PROVE  Ends(rcv_data_buf \o line)'
  <2> DEFINE all == rcv_data_buf \o line
  <2>1. all \in Seq(Byte) /\ (rcv_data_buf \o line)' = all \o f
    <3>1. all \in Seq(Byte)
      BY <1>3, ConcatProperties
    <3>2. rcv_data_buf \o (line \o f) = (rcv_data_buf \o line) \o f
      BY <1>1, <1>3, Regroup
    <3>3. QED
      BY <1>2, <3>1, <3>2
  <2>2. Ends(all) /\ all[Len(all)] = "#"
    BY <1>5 DEF FrameInv, RoomInv
  <2> HIDE DEF all
  <2>3. Ends(all \o f)
    BY <1>1, <2>1, <2>2, EndsConcat
  <2>4. QED
    BY <2>1, <2>3 DEF Ends
<1> QED
  BY <1>2, <1>4, <1>5 DEF RoomInv, Frames!RoomForAFrame, Frames!End

\* Bytes leave the line.
LEMMA RoomLine ==
  ASSUME FrameInv, RoomInv, NEW n \in 1..Len(line), line' = Frames!Rest(n)
  PROVE  Ends(line)'
<1>1. line \in Seq(Byte) /\ Frames!Stream(line)
  BY DEF FrameInv, Frames!TypeOK, Byte
<1> DEFINE r == SubSeq(line, n + 1, Len(line))
<1>2. /\ r \in Seq(Byte) /\ Len(r) = Len(line) - n
      /\ \A i \in 1..Len(r) : r[i] = line[n + i]
  BY <1>1, StreamPiece
<1>3. line' = r
  BY DEF Frames!Rest
<1> HIDE DEF r
<1>4. Ends(r)
  BY <1>1, <1>2, EndsPiece DEF RoomInv
<1> QED
  BY <1>3, <1>4 DEF Ends

LEMMA RoomOverflow ==
  ASSUME FrameInv, RoomInv, NEW n \in 1..Len(line), Frames!Overflow(n)
  PROVE  RoomInv'
<1>1. /\ line' = Frames!Rest(n)
      /\ frame' = <<>> /\ alone' = FALSE /\ torn' = (torn \/ collect)
      /\ UNCHANGED <<rcv_data_buf, collect, overrun>>
  BY DEF Frames!Overflow
<1>2. Ends(line)'
  BY <1>1, RoomLine
<1>3. \A i \in 1..Len(frame') : frame'[i] # "#"
  BY <1>1
<1> QED
  BY <1>1, <1>2, <1>3 DEF RoomInv, Frames!RoomForAFrame, Frames!End

\* A chunk overruns the buffer.
LEMMA RoomReceive ==
  ASSUME FrameInv, FrameInv', RoomInv, NEW n \in 1..Len(line), Frames!Receive(n)
  PROVE  RoomInv'
<1> DEFINE c == Frames!Chunk(n)
<1>1. /\ c \in Seq(Byte) /\ c # <<>> /\ c \o line' = line /\ Len(c) = n
      /\ \A i \in 1..n : c[i] = line[i]
      /\ line' \in Seq(Byte)
  BY LineTaken DEF Frames!Receive
<1>2. /\ line \in Seq(Byte) /\ rcv_data_buf \in Seq(Byte) /\ frame \in Seq(Byte)
      /\ rcv_data_buf' \in Seq(Byte) /\ frame' \in Seq(Byte) /\ 1 \in 1..n
  BY DEF FrameInv, Frames!TypeOK, Byte
<1>3. /\ rcv_data_buf' = IF Frames!Keeps(n) THEN Frames!Collected(n) ELSE rcv_data_buf
      /\ frame' = IF \E i \in 1..n : line[i] = "#" THEN <<>>
                  ELSE IF line[1] = "$" THEN c
                  ELSE IF frame # <<>> THEN frame \o c ELSE <<>>
      /\ alone' = (frame' # <<>> /\ IF line[1] = "$" THEN ~collect ELSE alone)
      /\ torn' = (collect /\ torn)
      /\ overrun' = (Frames!Keeps(n) /\ Len(Frames!Collected(n)) > BufferSize)
  BY DEF Frames!Receive, Frames!End, Frames!Head_
<1>4. Frames!Collected(n) = IF collect THEN rcv_data_buf \o c ELSE c
  BY DEF Frames!Collected
<1> HIDE DEF c
<1>5. Ends(line)'
  BY RoomLine DEF Frames!Receive
<1>6. ASSUME Frames!Keeps(n), ~torn'
      PROVE  Ends(rcv_data_buf' \o line')
  <2>1. CASE collect
    <3>1. Ends(rcv_data_buf \o line) /\ rcv_data_buf' = rcv_data_buf \o c
      BY <1>3, <1>4, <1>6, <2>1 DEF RoomInv
    <3>2. rcv_data_buf \o (c \o line') = (rcv_data_buf \o c) \o line'
      <4>1. c \in Seq(Byte) /\ line' \in Seq(Byte) /\ rcv_data_buf \in Seq(Byte)
        BY <1>1, <1>2
      <4>2. QED
        BY <4>1, Regroup
    <3>3. QED
      BY <1>1, <3>1, <3>2
  <2>2. CASE ~collect
    BY <1>1, <1>3, <1>4, <1>6, <2>2 DEF RoomInv
  <2>3. QED
    BY <2>1, <2>2
<1>7. collect' => Frames!Keeps(n)
  BY DEF Frames!Receive
<1>8. ASSUME collect', ~torn' PROVE Ends(rcv_data_buf \o line)'
  BY <1>6, <1>7, <1>8 DEF Ends
<1>9. \A i \in 1..Len(frame') : frame'[i] # "#"
  <2>1. CASE frame' = <<>>
    BY <2>1
  <2>2. CASE frame' = c /\ \A i \in 1..n : line[i] # "#"
    BY <1>1, <2>2
  <2>3. CASE frame' = frame \o c /\ \A i \in 1..n : line[i] # "#"
    <3>1. /\ Len(frame \o c) = Len(frame) + Len(c)
          /\ \A i \in 1 .. Len(frame) + Len(c) : (frame \o c)[i] =
                IF i <= Len(frame) THEN frame[i] ELSE c[i - Len(frame)]
      BY <1>1, <1>2, ConcatProperties
    <3>2. \A i \in 1..Len(frame) : frame[i] # "#"
      BY DEF RoomInv
    <3>3. QED
      BY <1>1, <1>2, <2>3, <3>1, <3>2
  <2>4. QED
    BY <1>3, <2>1, <2>2, <2>3
<1>10. alone' => frame' # <<>> /\ ~torn'
  BY <1>3 DEF RoomInv
<1>11. ASSUME overrun'
       PROVE  ~alone' /\ (torn' \/ \E i \in 1..Len(rcv_data_buf') - 1 : rcv_data_buf'[i] = "#")
  <2>1. Frames!Keeps(n) /\ Len(rcv_data_buf') > BufferSize
    BY <1>3, <1>11
  <2>2. ~torn' => \E i \in 1..Len(rcv_data_buf') - 1 : rcv_data_buf'[i] = "#"
    BY <1>1, <1>2, <1>6, <2>1, EndInside
  <2>3. ASSUME alone' PROVE FALSE
    <3>1. ~torn' /\ rcv_data_buf' = frame'
      BY <1>10, <2>3 DEF FrameInv, Frames!FrameCollected
    <3>2. PICK i \in 1..Len(frame') - 1 : frame'[i] = "#"
      BY <2>2, <3>1
    <3>3. i \in 1..Len(frame')
      BY <1>2, <3>2
    <3>4. QED
      BY <1>9, <3>2, <3>3
  <2>4. QED
    BY <2>2, <2>3
<1> QED
  BY <1>5, <1>8, <1>9, <1>10, <1>11 DEF RoomInv, Frames!RoomForAFrame, Frames!End

\* The buffer is empty again.
LEMMA RoomRestart == ASSUME RoomInv, Frames!Restart PROVE RoomInv'
<1>1. /\ rcv_data_buf' = <<>> /\ collect' = FALSE
      /\ frame' = <<>> /\ alone' = FALSE /\ overrun' = FALSE
      /\ UNCHANGED line
  BY DEF Frames!Restart
<1>2. \A i \in 1..Len(frame') : frame'[i] # "#"
  BY <1>1
<1> QED
  BY <1>1, <1>2 DEF RoomInv, Ends, Frames!RoomForAFrame

LEMMA RoomStep ==
  ASSUME FrameInv, RoomInv, [Frames!Next]_frameVars
  PROVE  RoomInv'
<1>1. FrameInv'
  BY FrameStep
<1>2. CASE \E k \in Frames!Kind : Frames!Send(k)
  BY <1>2, RoomSend
<1>3. CASE \E n \in 1..Len(line) : Frames!Receive(n) \/ Frames!Overflow(n)
  BY <1>1, <1>3, RoomReceive, RoomOverflow
<1>4. CASE Frames!Restart
  BY <1>4, RoomRestart
<1>5. CASE UNCHANGED frameVars
  BY <1>5 DEF frameVars, RoomInv, Ends, Frames!RoomForAFrame
<1> QED
  BY <1>2, <1>3, <1>4, <1>5 DEF Frames!Next

-----------------------------------------------------------------------------
(* The stamps.                                                             *)

Receiver == [hour |-> g_dt_tm.hour, min |-> g_dt_tm.min]

CallType == [pc : {"idle", "tm", "set", "get", "local", "ist", "adjust", "print"},
             by : {"nobody", "network", "gps"}, sound : BOOLEAN]

\* A call nobody interferes with is alone, and the shared variables hold what it
\* has put there.
CallInv(p) ==
  call[p].sound =>
    /\ \A q \in Clock!Caller \ {p} : ~Clock!Busy(q)
    /\ Clock!At(p, "print") /\ call[p].by = "network" => tm = Clock!Local(clock)
    /\ call[p].pc \in {"ist", "adjust"} => call[p].by = "gps"
    /\ call[p].by = "gps" =>
         /\ Clock!At(p, "set") => tm = g_dt_tm
         /\ call[p].pc \in {"get", "local", "ist", "adjust", "print"} /\ Clock!Known(g_dt_tm) =>
              clock = g_dt_tm
         /\ call[p].pc \in {"ist", "adjust", "print"} => tm = Clock!Local(clock)
         /\ Clock!At(p, "adjust") => ist = Receiver
         /\ Clock!At(p, "print")  => ist = Clock!Adjusted(Receiver)

\* No call is in two places; one that prints has been told by whom.
ClockInv == /\ Clock!TypeOK /\ Clock!IstInstant
            /\ \A p \in Clock!Caller : CallInv(p)
            /\ \A p \in Clock!Caller : Clock!Busy(p) => call[p].by \in {"network", "gps"}

\* A date and a time of day that has passed midnight, or has not.
LEMMA DayCarried ==
  ASSUME NEW D \in Nat, NEW h \in Nat, NEW m \in Nat, NEW d \in Nat, NEW o \in Nat,
         \/ D = d + 1 /\ 60 * h + m = o - 1440
         \/ D = d /\ 60 * h + m = o
  PROVE  1440 * D + 60 * h + m = 1440 * d + o
  OBVIOUS

\* The local time of a time.
LEMMA LocalShape ==
  ASSUME NEW t \in Clock!Time
  PROVE  /\ Clock!Local(t) \in Clock!Time
         /\ Clock!Known(Clock!Local(t)) <=> Clock!Known(t)
         /\ Clock!Known(t) =>
              /\ Clock!Local(t).day = t.day + (IF Clock!NextDay(t) THEN 1 ELSE 0)
              /\ t.day \in Nat /\ Clock!OfDay(t) \in Nat
              /\ 60 * Clock!Local(t).hour + Clock!Local(t).min =
                   Clock!OfDay(t) - (IF Clock!NextDay(t) THEN 1440 ELSE 0)
<1>1. t.hour \in 0..23 /\ t.min \in 0..59 /\ t.day \in Nat \cup {-1}
  BY DEF Clock!Time, Clock!NoDay
<1>2. Clock!OfDay(t) = 60 * t.hour + t.min + 330
  BY <1>1 DEF Clock!OfDay, Clock!Quarters
<1>3. Clock!NextDay(t) <=> Clock!OfDay(t) >= 1440
  BY DEF Clock!NextDay
<1> DEFINE d == Clock!OfDay(t)
           k == IF d >= 1440 THEN d - 1440 ELSE d
<1>4. /\ d \in 330..1769
      /\ k \div 60 \in 0..23 /\ d % 60 \in 0..59
      /\ 60 * (k \div 60) + (d % 60) = k
  <2>1. d = 60 * t.hour + t.min + 330 /\ k = IF d >= 1440 THEN d - 1440 ELSE d
    BY <1>2
  <2> HIDE DEF d, k
  <2>2. d \in 330..1769
    BY <1>1, <2>1
  <2>3. k \in 0..1439 /\ (k = d \/ k = d - 1440)
    BY <2>1, <2>2
  <2>4. d % 60 = k % 60
    BY ONLY <2>2, <2>3
  <2>5. k \div 60 \in 0..23 /\ k % 60 \in 0..59 /\ 60 * (k \div 60) + (k % 60) = k
    BY ONLY <2>3
  <2>6. QED
    BY <2>2, <2>4, <2>5
<1>5. Clock!Local(t) = [day  |-> IF Clock!Known(t) /\ Clock!NextDay(t) THEN t.day + 1 ELSE t.day,
                        hour |-> k \div 60, min |-> d % 60]
  BY <1>3 DEF Clock!Local
<1>6. /\ Clock!Local(t).day = IF Clock!Known(t) /\ Clock!NextDay(t) THEN t.day + 1 ELSE t.day
      /\ Clock!Local(t).hour = k \div 60 /\ Clock!Local(t).min = d % 60
  BY <1>5
<1>7. Clock!Known(t) <=> t.day \in Nat
  BY <1>1 DEF Clock!Known, Clock!NoDay
<1>8. Clock!Local(t).day \in Nat \cup {-1} /\ (Clock!Known(t) <=> Clock!Local(t).day \in Nat)
  BY <1>1, <1>6, <1>7
<1>9. Clock!Local(t) \in Clock!Time
  BY <1>4, <1>5, <1>6, <1>8 DEF Clock!Time, Clock!NoDay
<1>10. Clock!Known(Clock!Local(t)) <=> Clock!Known(t)
  BY <1>8 DEF Clock!Known, Clock!NoDay
<1>11. k = d - (IF Clock!NextDay(t) THEN 1440 ELSE 0)
  BY <1>3, <1>4
<1> QED
  BY <1>1, <1>4, <1>6, <1>7, <1>9, <1>10, <1>11

\* set_gps_time's sum of an hour and a minute.
LEMMA AdjustedShape ==
  /\ \A i \in [hour : Nat, min : 0..60] : Clock!Adjusted(i) \in [hour : Nat, min : 0..60]
  /\ \A t \in Clock!Time :
       LET a == Clock!Adjusted([hour |-> t.hour, min |-> t.min])
       IN  60 * a.hour + a.min = Clock!OfDay(t) /\ (a.min = 60 <=> t.min = 30)
<1>1. ASSUME NEW i \in [hour : Nat, min : 0..60]
      PROVE  Clock!Adjusted(i) \in [hour : Nat, min : 0..60]
  BY DEF Clock!Adjusted
<1>2. ASSUME NEW t \in Clock!Time
      PROVE  LET a == Clock!Adjusted([hour |-> t.hour, min |-> t.min])
             IN  60 * a.hour + a.min = Clock!OfDay(t) /\ (a.min = 60 <=> t.min = 30)
  <2>1. t.hour \in 0..23 /\ t.min \in 0..59
    BY DEF Clock!Time
  <2>2. /\ Clock!Adjusted([hour |-> t.hour, min |-> t.min]).hour =
             IF t.min > 30 THEN t.hour + 6 ELSE t.hour + 5
        /\ Clock!Adjusted([hour |-> t.hour, min |-> t.min]).min =
             IF t.min > 30 THEN t.min - 30 ELSE t.min + 30
    BY DEF Clock!Adjusted
  <2>3. QED
    BY <2>1, <2>2 DEF Clock!OfDay, Clock!Quarters
<1> QED
  BY <1>1, <1>2

\* At first nobody is in get_time, and nobody has written a stamp.
LEMMA ClockInit == Clock!Init => ClockInv
<1> SUFFICES ASSUME Clock!Init PROVE ClockInv
  OBVIOUS
<1>1. /\ Clock!Unset \in Clock!Time
      /\ Clock!Blank("nobody") = [by |-> "nobody", day |-> 0, hour |-> 0, min |-> 0,
                                  of |-> Clock!Unset]
  BY DEF Clock!Unset, Clock!Time, Clock!NoDay, Clock!Blank, Clock!Stamp
<1>2. Clock!TypeOK
  BY <1>1 DEF Clock!Init, Clock!TypeOK, Clock!Resting, Clock!Caller
<1>3. Clock!IstInstant
  BY <1>1 DEF Clock!Init, Clock!IstInstant
<1>4. \A p \in Clock!Caller : ~call[p].sound /\ ~Clock!Busy(p)
  BY DEF Clock!Init, Clock!Resting, Clock!Busy
<1> QED
  BY <1>2, <1>3, <1>4 DEF ClockInv, CallInv

LEMMA ClockRestart == Clock!Restart => ClockInv'
<1> SUFFICES ASSUME Clock!Restart PROVE ClockInv'
  OBVIOUS
<1>1. /\ Clock!Unset \in Clock!Time
      /\ Clock!Blank("nobody") = [by |-> "nobody", day |-> 0, hour |-> 0, min |-> 0,
                                  of |-> Clock!Unset]
  BY DEF Clock!Unset, Clock!Time, Clock!NoDay, Clock!Blank, Clock!Stamp
<1>2. Clock!TypeOK'
  BY <1>1 DEF Clock!Restart, Clock!TypeOK, Clock!Resting, Clock!Caller, Clock!Time
<1>3. Clock!IstInstant'
  BY <1>1 DEF Clock!Restart, Clock!IstInstant
<1>4. \A p \in Clock!Caller : ~call'[p].sound /\ call'[p].pc = "idle"
  BY DEF Clock!Restart, Clock!Resting
<1> QED
  BY <1>2, <1>3, <1>4 DEF ClockInv, CallInv, Clock!Busy

\* A call begins: no call that is on its way stays alone.
LEMMA ClockBegin ==
  ASSUME ClockInv, NEW p \in Clock!Caller, Clock!GetTime(p), networkStatus' \in {0, 1}
  PROVE  ClockInv'
<1>1. /\ UNCHANGED <<tm, ist, clock, g_dt_tm, stamp>>
      /\ ~Clock!Busy(p)
      /\ UNCHANGED call \/ \E by \in {"network", "gps"} : Clock!Begin(p, by)
  BY DEF Clock!GetTime
<1>2. Clock!IstInstant'
  BY <1>1 DEF ClockInv, Clock!IstInstant, Clock!Instant
<1>3. CASE UNCHANGED call
  BY <1>1, <1>2, <1>3 DEF ClockInv, CallInv, Clock!TypeOK, Clock!Busy, Clock!At, Receiver,
     Clock!Time
<1>4. ASSUME NEW by \in {"network", "gps"}, Clock!Begin(p, by)
      PROVE  ClockInv'
  <2>1. /\ call'[p].pc = "tm" /\ call'[p].by = by /\ call'[p].sound \in BOOLEAN
        /\ call'[p].sound => \A r \in Clock!Caller \ {p} : ~Clock!Busy(r)
        /\ \A q \in Clock!Caller \ {p} : /\ ~call'[q].sound
                                         /\ call'[q].pc = call[q].pc
                                         /\ call'[q].by = call[q].by
    BY <1>4 DEF Clock!Begin, ClockInv, Clock!TypeOK
  <2>2. Clock!TypeOK'
    <3> DEFINE c(q) == IF q # p THEN [call[q] EXCEPT !.sound = FALSE]
                       ELSE [pc |-> "tm", by |-> by,
                             sound |-> \A r \in Clock!Caller \ {p} : ~Clock!Busy(r)]
    <3>1. call' = [q \in Clock!Caller |-> c(q)]
      BY <1>4 DEF Clock!Begin
    <3>2. (\A r \in Clock!Caller \ {p} : ~Clock!Busy(r)) \in BOOLEAN
      OBVIOUS
    <3>3. \A q \in Clock!Caller : c(q) \in CallType
      BY <3>2 DEF ClockInv, Clock!TypeOK, CallType
    <3> HIDE DEF c
    <3>4. call' \in [Clock!Caller -> CallType]
      BY <3>1, <3>3
    <3>5. QED
      BY <1>1, <3>4 DEF ClockInv, Clock!TypeOK, Clock!Time, CallType
  <2>3. \A q \in Clock!Caller : CallInv(q)'
    BY <2>1 DEF CallInv, Clock!Busy, Clock!At
  <2>4. \A q \in Clock!Caller : Clock!Busy(q)' => call'[q].by \in {"network", "gps"}
    BY <2>1 DEF Clock!Busy, ClockInv
  <2>5. QED
    BY <1>2, <2>2, <2>3, <2>4 DEF ClockInv
<1> QED
  BY <1>1, <1>3, <1>4

\* A step that disturbs all calls.
LEMMA ClockDisturbed ==
  ASSUME ClockInv, call' = Clock!Disturbed, clock' \in Clock!Time, g_dt_tm' \in Clock!Time,
         UNCHANGED <<networkStatus, tm, ist, stamp>>
  PROVE  ClockInv'
<1>1. \A q \in Clock!Caller : ~call'[q].sound /\ call'[q].pc = call[q].pc
                              /\ call'[q].by = call[q].by
  BY DEF Clock!Disturbed, ClockInv, Clock!TypeOK
<1>2. Clock!TypeOK'
  <2>1. \A q \in Clock!Caller : [call[q] EXCEPT !.sound = FALSE] \in CallType
    BY DEF ClockInv, Clock!TypeOK, CallType
  <2>2. call' \in [Clock!Caller -> CallType]
    BY <2>1 DEF Clock!Disturbed
  <2>3. QED
    BY <2>2 DEF ClockInv, Clock!TypeOK, Clock!Time, CallType
<1>3. Clock!IstInstant'
  BY DEF ClockInv, Clock!IstInstant, Clock!Instant
<1> QED
  BY <1>1, <1>2, <1>3 DEF ClockInv, CallInv, Clock!Busy

LEMMA ClockGnss == ClockInv /\ Clock!Gnss => ClockInv'
<1> SUFFICES ASSUME ClockInv, Clock!Gnss PROVE ClockInv'
  OBVIOUS
<1>1. g_dt_tm' \in Clock!Time /\ clock' \in Clock!Time
  BY TimesAssumption DEF Clock!Gnss, ClockInv, Clock!TypeOK, Clock!Time
<1> QED
  BY <1>1, ClockDisturbed DEF Clock!Gnss

LEMMA ClockRunsOn == ClockInv /\ Clock!ClockRuns => ClockInv'
<1> SUFFICES ASSUME ClockInv, Clock!ClockRuns PROVE ClockInv'
  OBVIOUS
<1>1. g_dt_tm' \in Clock!Time /\ clock' \in Clock!Time
  BY TimesAssumption DEF Clock!ClockRuns, ClockInv, Clock!TypeOK, Clock!Time
<1> QED
  BY <1>1, ClockDisturbed DEF Clock!ClockRuns

\* A step on the way of a call leaves the other call where it is, which is not
\* alone.
LEMMA OtherCalls ==
  ASSUME ClockInv, NEW p \in Clock!Caller, Clock!Busy(p),
         NEW c \in [pc : {"idle", "tm", "set", "get", "local", "ist", "adjust", "print"},
                    by : {"nobody", "network", "gps"}, sound : BOOLEAN],
         call' = [call EXCEPT ![p] = c],
         c.pc # "idle" => c.by \in {"network", "gps"},
         tm' \in Clock!Time, clock' \in Clock!Time,
         ist' \in [hour : Nat, min : 0..60], Clock!IstInstant',
         stamp' \in [by : {"nobody", "overlap", "zeros", "network", "gps"}, day : Nat,
                     hour : Nat, min : 0..60, of : Clock!Time],
         UNCHANGED <<networkStatus, g_dt_tm>>,
         c.sound => call[p].sound,
         CallInv(p)'
  PROVE  ClockInv'
<1>1. Clock!TypeOK'
  BY DEF ClockInv, Clock!TypeOK, Clock!Time
<1>2. /\ call'[p] = c
      /\ \A q \in Clock!Caller \ {p} : call'[q] = call[q] /\ ~call[q].sound
  BY DEF ClockInv, Clock!TypeOK, CallInv
<1>3. \A q \in Clock!Caller : CallInv(q)'
  BY <1>2 DEF CallInv
<1>4. \A q \in Clock!Caller : Clock!Busy(q)' => call'[q].by \in {"network", "gps"}
  BY <1>2 DEF ClockInv, Clock!Busy
<1> QED
  BY <1>1, <1>3, <1>4 DEF ClockInv

\* The steps on the way of a call, but the last.
LEMMA ClockOnItsWay ==
  ASSUME ClockInv, NEW p \in Clock!Caller,
         \/ Clock!TakeTime(p) \/ Clock!SetClock(p) \/ Clock!ReadClock(p)
         \/ Clock!ReadLocal(p) \/ Clock!LoadIst(p) \/ Clock!AdjustIst(p)
  PROVE  ClockInv'
<1> DEFINE to(x) == [call[p] EXCEPT !.pc = x]
<1>1. /\ call[p] \in [pc : {"idle", "tm", "set", "get", "local", "ist", "adjust", "print"},
                      by : {"nobody", "network", "gps"}, sound : BOOLEAN]
      /\ tm \in Clock!Time /\ clock \in Clock!Time /\ g_dt_tm \in Clock!Time
      /\ ist \in [hour : Nat, min : 0..60] /\ CallInv(p)
      /\ Clock!Unset \in Clock!Time /\ Receiver \in [hour : Nat, min : 0..60]
      /\ stamp \in [by : {"nobody", "overlap", "zeros", "network", "gps"}, day : Nat,
                    hour : Nat, min : 0..60, of : Clock!Time]
  BY DEF ClockInv, Clock!TypeOK, Clock!Unset, Clock!Time, Clock!NoDay, Receiver
<1>2. Clock!Busy(p) /\ UNCHANGED <<networkStatus, g_dt_tm, stamp>>
  BY DEF Clock!Busy, Clock!At, Clock!TakeTime, Clock!SetClock, Clock!ReadClock,
     Clock!ReadLocal, Clock!LoadIst, Clock!AdjustIst
<1>3. call[p].by \in {"network", "gps"}
  BY <1>2 DEF ClockInv
<1>4. Clock!IstInstant'
  BY <1>2 DEF ClockInv, Clock!IstInstant, Clock!Instant
<1>5. ASSUME NEW x \in {"set", "get", "local", "ist", "adjust", "print"}
      PROVE  /\ Clock!Goto(p, x) => call' = [call EXCEPT ![p] = to(x)]
             /\ to(x) \in [pc : {"idle", "tm", "set", "get", "local", "ist", "adjust", "print"},
                            by : {"nobody", "network", "gps"}, sound : BOOLEAN]
             /\ to(x).pc = x /\ to(x).by = call[p].by /\ to(x).sound = call[p].sound
  BY <1>1 DEF Clock!Goto, ClockInv, Clock!TypeOK
<1>6. ASSUME NEW x \in {"set", "get", "local", "ist", "adjust", "print"}, Clock!Goto(p, x)
      PROVE  /\ call'[p] = to(x)
             /\ \A q \in Clock!Caller \ {p} : Clock!Busy(q)' = Clock!Busy(q)
  BY <1>5, <1>6 DEF Clock!Goto, ClockInv, Clock!TypeOK, Clock!Busy
<1> HIDE DEF to
<1>7. CASE Clock!TakeTime(p)
  <2>1. /\ Clock!Goto(p, "set") /\ UNCHANGED <<ist, clock>>
        /\ tm' = IF call[p].by = "network" THEN Clock!Unset ELSE g_dt_tm
    BY <1>7 DEF Clock!TakeTime
  <2>2. CallInv(p)'
    BY <1>1, <1>2, <1>3, <1>5, <1>6, <2>1 DEF CallInv, Clock!At
  <2>3. QED
    BY <1>1, <1>2, <1>3, <1>4, <1>5, <2>1, <2>2, OtherCalls
<1>8. CASE Clock!SetClock(p)
  <2>1. /\ Clock!Goto(p, "get") /\ UNCHANGED <<ist, tm>> /\ Clock!At(p, "set")
        /\ clock' \in {clock, tm} /\ (Clock!Known(tm) => clock' = tm)
    BY <1>8 DEF Clock!SetClock
  <2>2. CallInv(p)'
    BY <1>1, <1>2, <1>3, <1>5, <1>6, <2>1 DEF CallInv, Clock!At, Clock!Known
  <2>3. QED
    BY <1>1, <1>2, <1>3, <1>4, <1>5, <2>1, <2>2, OtherCalls
<1>9. CASE Clock!ReadClock(p)
  <2>1. /\ Clock!Goto(p, "local") /\ UNCHANGED <<ist, clock>> /\ Clock!At(p, "get")
        /\ tm' = clock
    BY <1>9 DEF Clock!ReadClock
  <2>2. CallInv(p)'
    BY <1>1, <1>2, <1>3, <1>5, <1>6, <2>1 DEF CallInv, Clock!At, Clock!Known
  <2>3. QED
    BY <1>1, <1>2, <1>3, <1>4, <1>5, <2>1, <2>2, OtherCalls
<1>10. CASE Clock!ReadLocal(p)
  <2> DEFINE next == IF call[p].by = "network" THEN "print" ELSE "ist"
  <2>1. /\ Clock!Goto(p, next) /\ UNCHANGED <<ist, clock>> /\ Clock!At(p, "local")
        /\ tm' = Clock!Local(clock)
    BY <1>10 DEF Clock!ReadLocal
  <2>2. CallInv(p)'
    <3>1. Clock!Local(clock)' = Clock!Local(clock)
      BY <2>1
    <3>2. CASE call[p].by = "network"
      BY <1>1, <1>2, <1>5, <1>6, <2>1, <3>1, <3>2 DEF CallInv, Clock!At
    <3>3. CASE call[p].by = "gps"
      BY <1>1, <1>2, <1>5, <1>6, <2>1, <3>1, <3>3 DEF CallInv, Clock!At, Clock!Known
    <3>4. QED
      BY <1>3, <3>2, <3>3
  <2>3. tm' \in Clock!Time
    BY <1>1, <2>1, LocalShape
  <2>4. next \in {"print", "ist"}
    OBVIOUS
  <2> HIDE DEF next
  <2>5. QED
    BY <1>1, <1>2, <1>3, <1>4, <1>5, <2>1, <2>2, <2>3, <2>4, OtherCalls
<1>11. CASE Clock!LoadIst(p)
  <2>1. /\ Clock!Goto(p, "adjust") /\ UNCHANGED <<tm, clock>> /\ Clock!At(p, "ist")
        /\ ist' = Receiver
    BY <1>11 DEF Clock!LoadIst, Receiver
  <2>2. CallInv(p)'
    <3>1. Clock!Local(clock)' = Clock!Local(clock) /\ Receiver' = Receiver
      BY <1>2, <2>1 DEF Receiver
    <3>2. QED
      BY <1>1, <1>2, <1>3, <1>5, <1>6, <2>1, <3>1 DEF CallInv, Clock!At, Clock!Known
  <2>3. QED
    BY <1>1, <1>2, <1>3, <1>4, <1>5, <2>1, <2>2, OtherCalls
<1>12. CASE Clock!AdjustIst(p)
  <2>1. /\ Clock!Goto(p, "print") /\ UNCHANGED <<tm, clock>> /\ Clock!At(p, "adjust")
        /\ ist' = Clock!Adjusted(ist)
    BY <1>12 DEF Clock!AdjustIst
  <2>2. CallInv(p)'
    <3>1. Clock!Local(clock)' = Clock!Local(clock) /\ Receiver' = Receiver
      BY <1>2, <2>1 DEF Receiver
    <3>2. Clock!Adjusted(Receiver)' = Clock!Adjusted(Receiver)
      BY <3>1
    <3>3. QED
      BY <1>1, <1>2, <1>3, <1>5, <1>6, <2>1, <3>1, <3>2 DEF CallInv, Clock!At, Clock!Known
  <2>3. ist' \in [hour : Nat, min : 0..60]
    BY <1>1, <2>1, AdjustedShape
  <2>4. QED
    BY <1>1, <1>2, <1>3, <1>4, <1>5, <2>1, <2>2, <2>3, OtherCalls
<1> QED
  BY <1>7, <1>8, <1>9, <1>10, <1>11, <1>12

\* The last step writes the stamp.
LEMMA ClockWriteStamp ==
  ASSUME ClockInv, NEW p \in Clock!Caller, Clock!WriteStamp(p)
  PROVE  ClockInv'
<1>1. /\ call[p] \in [pc : {"idle", "tm", "set", "get", "local", "ist", "adjust", "print"},
                      by : {"nobody", "network", "gps"}, sound : BOOLEAN]
      /\ tm \in Clock!Time /\ clock \in Clock!Time /\ g_dt_tm \in Clock!Time
      /\ ist \in [hour : Nat, min : 0..60] /\ CallInv(p)
      /\ Clock!Unset \in Clock!Time
      /\ stamp \in [by : {"nobody", "overlap", "zeros", "network", "gps"}, day : Nat,
                    hour : Nat, min : 0..60, of : Clock!Time]
  BY DEF ClockInv, Clock!TypeOK, Clock!Unset, Clock!Time, Clock!NoDay
<1>2. Clock!Busy(p) /\ UNCHANGED <<networkStatus, tm, ist, clock, g_dt_tm>>
  BY DEF Clock!Busy, Clock!At, Clock!WriteStamp
<1>3. call[p].by \in {"network", "gps"} /\ Clock!At(p, "print")
  BY <1>2 DEF ClockInv, Clock!WriteStamp
<1>4. CASE /\ call' = [call EXCEPT ![p].pc = "tm", ![p].by = "gps"]
           /\ UNCHANGED stamp
  <2> DEFINE c == [call[p] EXCEPT !.pc = "tm", !.by = "gps"]
  <2>1. /\ call' = [call EXCEPT ![p] = c]
        /\ c \in [pc : {"idle", "tm", "set", "get", "local", "ist", "adjust", "print"},
                  by : {"nobody", "network", "gps"}, sound : BOOLEAN]
        /\ c.pc = "tm" /\ c.by = "gps" /\ c.sound = call[p].sound
    BY <1>1, <1>4 DEF ClockInv, Clock!TypeOK
  <2> HIDE DEF c
  <2>2. call'[p] = c /\ \A q \in Clock!Caller \ {p} : Clock!Busy(q)' = Clock!Busy(q)
    BY <2>1 DEF ClockInv, Clock!TypeOK, Clock!Busy
  <2>3. CallInv(p)'
    BY <1>1, <2>1, <2>2 DEF CallInv, Clock!At
  <2>4. Clock!IstInstant'
    BY <1>4 DEF ClockInv, Clock!IstInstant, Clock!Instant
  <2>5. QED
    BY <1>1, <1>2, <1>4, <2>1, <2>3, <2>4, OtherCalls
<1>5. CASE /\ call' = [call EXCEPT ![p] = Clock!Resting]
           /\ stamp' = IF ~call[p].sound THEN Clock!Garbled
                       ELSE IF ~Clock!Known(tm) THEN Clock!Blank("zeros")
                       ELSE IF call[p].by = "network"
                         THEN Clock!Stamp("network", tm.day, tm, clock)
                       ELSE Clock!Stamp("gps", tm.day, ist, g_dt_tm)
  <2> DEFINE T == [by : {"nobody", "overlap", "zeros", "network", "gps"}, day : Nat,
                   hour : Nat, min : 0..60, of : Clock!Time]
  <2>1. /\ Clock!Resting \in [pc : {"idle", "tm", "set", "get", "local", "ist", "adjust", "print"},
                              by : {"nobody", "network", "gps"}, sound : BOOLEAN]
        /\ Clock!Resting.pc = "idle" /\ ~Clock!Resting.sound
    BY DEF Clock!Resting
  <2>2. CallInv(p)'
    <3>1. ~call'[p].sound
      BY <1>5, <2>1 DEF ClockInv, Clock!TypeOK
    <3>2. QED
      BY <3>1 DEF CallInv
  <2>3. ASSUME ~call[p].sound \/ ~Clock!Known(tm)
        PROVE  stamp' \in T /\ Clock!IstInstant'
    <3>1. stamp' = Clock!Blank("overlap") \/ stamp' = Clock!Blank("zeros")
      BY <1>5, <2>3 DEF Clock!Garbled
    <3>2. QED
      BY <1>1, <3>1 DEF Clock!Blank, Clock!Stamp, Clock!Unset, Clock!IstInstant
  <2>4. ASSUME call[p].sound, Clock!Known(tm), call[p].by = "network"
        PROVE  stamp' \in T /\ Clock!IstInstant'
    <3>1. stamp' = [by |-> "network", day |-> tm.day, hour |-> tm.hour, min |-> tm.min,
                    of |-> clock]
      BY <1>5, <2>4 DEF Clock!Stamp
    <3>2. tm = Clock!Local(clock)
      BY <1>1, <1>3, <2>4 DEF CallInv
    <3>3. /\ tm.day = clock.day + (IF Clock!NextDay(clock) THEN 1 ELSE 0)
          /\ clock.day \in Nat /\ Clock!OfDay(clock) \in Nat
          /\ 60 * tm.hour + tm.min =
               Clock!OfDay(clock) - (IF Clock!NextDay(clock) THEN 1440 ELSE 0)
      BY <1>1, <2>4, <3>2, LocalShape
    <3>4. tm.hour \in 0..23 /\ tm.min \in 0..59 /\ tm.day \in Nat
      BY <1>1, <3>3 DEF Clock!Time
    <3>5. stamp' \in T
      BY <1>1, <3>1, <3>4
    <3>6. 1440 * tm.day + 60 * tm.hour + tm.min = 1440 * clock.day + Clock!OfDay(clock)
      <4>1. \/ tm.day = clock.day + 1 /\ 60 * tm.hour + tm.min = Clock!OfDay(clock) - 1440
            \/ tm.day = clock.day /\ 60 * tm.hour + tm.min = Clock!OfDay(clock)
        <5>1. CASE Clock!NextDay(clock)
          BY <3>3, <5>1
        <5>2. CASE ~Clock!NextDay(clock)
          <6>1. tm.day = clock.day + 0 /\ 60 * tm.hour + tm.min = Clock!OfDay(clock) - 0
            BY <3>3, <5>2
          <6>2. QED
            BY <3>3, <3>4, <6>1
        <5>3. QED
          BY <5>1, <5>2
      <4>2. tm.day \in Nat /\ tm.hour \in Nat /\ tm.min \in Nat
        BY <3>4
      <4>3. QED
        BY <3>3, <4>1, <4>2, DayCarried
    <3>7. /\ Clock!Instant' = 1440 * tm.day + 60 * tm.hour + tm.min
          /\ Clock!Moved(stamp.of)' = 1440 * clock.day + Clock!OfDay(clock)
      BY <3>1 DEF Clock!Instant, Clock!Moved, Clock!OfDay, Clock!Quarters
    <3>8. Clock!IstInstant'
      BY <3>1, <3>6, <3>7 DEF Clock!IstInstant
    <3>9. QED
      BY <3>5, <3>8
  <2>5. ASSUME call[p].sound, Clock!Known(tm), call[p].by = "gps"
        PROVE  stamp' \in T /\ Clock!IstInstant'
    <3> DEFINE g == g_dt_tm
               a == Clock!Adjusted([hour |-> g.hour, min |-> g.min])
               n == IF Clock!NextDay(g) THEN 1440 ELSE 0
    <3>1. stamp' = [by |-> "gps", day |-> tm.day, hour |-> ist.hour, min |-> ist.min,
                    of |-> g]
      BY <1>5, <2>5 DEF Clock!Stamp
    <3>2. /\ tm = Clock!Local(clock) /\ ist = a
          /\ Clock!Known(g) => clock = g
      BY <1>1, <1>3, <2>5 DEF CallInv, Clock!At, Receiver
    <3>3. 60 * ist.hour + ist.min = Clock!OfDay(g) /\ (ist.min = 60 <=> g.min = 30)
      BY <1>1, <3>2, AdjustedShape
    <3>4. /\ g.hour \in 0..23 /\ g.min \in 0..59 /\ ist.hour \in Nat /\ ist.min \in 0..60
          /\ tm.day \in Nat
      BY <1>1, <2>5 DEF Clock!Time, Clock!Known, Clock!NoDay
    <3>5. stamp' \in T
      BY <1>1, <3>1, <3>4
    <3> HIDE DEF a
    <3>6. ASSUME Clock!Known(g)
          PROVE  1440 * tm.day + 60 * ist.hour + ist.min = 1440 * g.day + Clock!OfDay(g) + n
      <4>1. tm.day = g.day + (IF Clock!NextDay(g) THEN 1 ELSE 0) /\ g.day \in Nat
            /\ Clock!OfDay(g) \in Nat
        BY <1>1, <3>2, <3>6, LocalShape
      <4>2. QED
        BY <3>3, <3>4, <4>1
    <3>7. /\ Clock!Instant' = 1440 * tm.day + 60 * ist.hour + ist.min
          /\ Clock!Moved(stamp.of)' = 1440 * g.day + Clock!OfDay(g)
          /\ Clock!NextDay(stamp.of)' = Clock!NextDay(g) /\ Clock!Known(stamp.of)' = Clock!Known(g)
      BY <3>1 DEF Clock!Instant, Clock!Moved, Clock!OfDay, Clock!Quarters, Clock!NextDay,
         Clock!Known
    <3>8. Clock!IstInstant'
      BY <3>1, <3>3, <3>6, <3>7 DEF Clock!IstInstant
    <3>9. QED
      BY <3>5, <3>8
  <2>6. stamp' \in T /\ Clock!IstInstant'
    BY <1>3, <2>3, <2>4, <2>5
  <2>7. QED
    BY <1>1, <1>2, <1>5, <2>1, <2>2, <2>6, OtherCalls
<1> QED
  BY <1>4, <1>5 DEF Clock!WriteStamp

LEMMA ClockStep ==
  ASSUME ClockInv, [Clock!Next]_clockVars
  PROVE  ClockInv'
<1>1. CASE \E p \in Clock!Caller : Clock!Synchronise(p) \/ Clock!Refresh(p)
  <2>1. PICK p \in Clock!Caller : Clock!GetTime(p)
    BY <1>1 DEF Clock!Synchronise, Clock!Refresh
  <2>2. networkStatus' \in {0, 1}
    BY <1>1 DEF Clock!Synchronise, Clock!Timesync, Clock!Refresh, ClockInv, Clock!TypeOK
  <2>3. QED
    BY <2>1, <2>2, ClockBegin
<1>2. CASE \E p \in Clock!Caller : Clock!Step(p)
  BY <1>2, ClockOnItsWay, ClockWriteStamp DEF Clock!Step
<1>3. CASE Clock!Gnss \/ Clock!ClockRuns \/ Clock!Restart
  BY <1>3, ClockGnss, ClockRunsOn, ClockRestart
<1>4. CASE UNCHANGED clockVars
  BY <1>4 DEF clockVars, ClockInv, CallInv, Clock!TypeOK, Clock!IstInstant, Clock!Instant,
     Clock!Time, Clock!Busy, Clock!At, Receiver
<1> QED
  BY <1>1, <1>2, <1>3, <1>4 DEF Clock!Next

-----------------------------------------------------------------------------
(* The timer and the UART thread.                                          *)

\* A duty that begins its sleep has had this many slots of its minute at most.
Rank(d) == IF d = "attributes" THEN 0 ELSE IF d = "periodic" THEN 1
           ELSE IF d = "heartbeat" THEN 2 ELSE IF d = "time" THEN 3
           ELSE IF d = "gps" THEN 4 ELSE 5

MailValue == {0} \cup Frames!Kind
Flag  == {"names", "hdata_onceupdate", "TB", "SDM", "NNW", "TBNNW", "SDNNW"}

TypeInv ==
  /\ count \in 0..Hour /\ slot \in 0..Period
  /\ param1 \in 0..Hour - 1 /\ param2 \in MailValue
  /\ queue \in Seq(Event) /\ Len(queue) <= EventCount
  /\ pc \in Duty \cup {"poll"} /\ nap \in {Unslept, 0, 1}
  /\ raised \subseteq Flag
  /\ pdata_int \in 0..255 /\ hdata_int \in 0..255
  /\ said \in BOOLEAN /\ quiet \in Nat

\* The thread is at most as far into the minute as its duty allows, and its
\* minute is the one the timer posted last.
TimeInv ==
  /\ pc \in {"poll", "flags"} => nap = Unslept
  /\ pc = "poll" /\ queue # <<>> =>
       Len(queue) = 1 /\ slot = 0 /\ count > 0 /\ queue[1].param1 = count - 1
  /\ pc # "poll" => /\ queue = <<>> /\ count > 0 /\ param1 = count - 1
                    /\ slot <= Rank(pc) + (IF nap = 0 THEN 1 ELSE 0)

FlagInv ==
  /\ pc = "attributes" => raised = {} /\ (nap # Unslept => param1 = 1)
  /\ pc \notin {"poll", "attributes"} =>
       raised \ {"hdata_onceupdate"} = {f \in {"names"} : param1 = 1}

\* The minute posted last may still bring a request.
Undecided == queue # <<>> \/ pc \in {"attributes", "periodic"}

QuietInv ==
  /\ Undecided  => quiet <= IF count = 1 THEN Hour - 1 ELSE count - 2
  /\ ~Undecided => quiet <= IF count = 0 THEN 0 ELSE count - 1

TaskInv == /\ TypeInv /\ TimeInv /\ MessagesApart
           /\ FlagInv /\ RaisesItsFlags /\ QuietInv

taskVars == <<count, slot, param1, queue, threadVars>>

\* The duties come in the order of their ranks.
LEMMA AfterRank ==
  ASSUME NEW d \in Duty
  PROVE  /\ After(d) \in Duty \cup {"poll"}
         /\ After(d) # "attributes"
         /\ After(d) = "poll" <=> d = "flags"
         /\ After(d) = "periodic" <=> d = "attributes"
         /\ d # "flags" => Rank(After(d)) = Rank(d) + 1
         /\ Rank(d) \in 0..5 /\ (d = "flags" <=> Rank(d) = 5)
  BY DEF After, Rank, Duty

\* The minutes that do the first two duties.
LEMMA DueFirst ==
  ASSUME NEW outcome \in BOOLEAN
  PROVE  /\ Due("attributes", outcome) <=> (outcome <=> param1 = 1)
         /\ Due("periodic", outcome) <=> Divides(pdata_int, outcome)
         /\ ~Due("flags", TRUE)
  BY DEF Due

\* The flags that are no heartbeat.
LEMMA OwnFlags ==
  ASSUME NEW m
  PROVE  /\ FlagsOf(m) \subseteq Flag
         /\ FlagsOf(m) = {f \in {"names"} : m = 1} \cup
              Table!RetryRaised(m) \cup Table!ReplayRaised(m)
         /\ "hdata_onceupdate" \notin Table!RetryRaised(m) \cup Table!ReplayRaised(m)
         /\ Table!RetryRaised(m) \subseteq {"TB", "SDM"}
         /\ Table!ReplayRaised(m) \subseteq {"NNW", "TBNNW", "SDNNW"}
  BY DEF FlagsOf, Flag, Table!NamesLogs, Table!RetryRaised, Table!ReplayRaised

\* A char is one of 256.
LEMMA CharRange ==
  ASSUME NEW v \in RpcValues
  PROVE  Char(v) \in 0..255 /\ Healed(v) \in 0..255
  BY ValueAssumption DEF Char, Healed

LEMMA TaskInit == Init => TaskInv
<1> SUFFICES ASSUME Init PROVE TaskInv
  OBVIOUS
<1>1. <<>> \in Seq(Event) /\ Len(<<>>) = 0
  BY EmptySeq
<1>2. TypeInv
  <2>1. count \in 0..Hour /\ slot \in 0..Period /\ param1 \in 0..Hour - 1
    BY HourAssumption, PeriodAssumption DEF Init
  <2>2. queue \in Seq(Event) /\ Len(queue) <= EventCount
    BY <1>1, EventAssumption DEF Init
  <2>3. param2 \in MailValue /\ pc \in Duty \cup {"poll"} /\ nap \in {Unslept, 0, 1}
    BY DEF Init, MailValue
  <2>4. pdata_int \in 0..255 /\ hdata_int \in 0..255 /\ quiet \in Nat
    BY DEF Init
  <2>5. said \in BOOLEAN /\ raised \subseteq Flag
    BY DEF Init
  <2>6. QED
    BY <2>1, <2>2, <2>3, <2>4, <2>5 DEF TypeInv
<1>3. TimeInv /\ MessagesApart /\ FlagInv /\ RaisesItsFlags
  BY DEF Init, TimeInv, MessagesApart, FlagInv, RaisesItsFlags, Writes
<1>4. QuietInv
  BY DEF Init, QuietInv, Undecided
<1> QED
  BY <1>2, <1>3, <1>4 DEF TaskInv

\* Time passes only while the thread sleeps or waits.
LEMMA TaskTime == TaskInv /\ TimePasses => TaskInv'
<1> SUFFICES ASSUME TaskInv, TimePasses PROVE TaskInv'
  OBVIOUS
<1>1. /\ slot < Period /\ slot' = slot + 1 /\ said' = FALSE
      /\ nap' = IF nap > 0 THEN nap - 1 ELSE nap
      /\ UNCHANGED <<count, param1, param2, queue, pc, raised, quiet, pdata_int, hdata_int>>
      /\ nap > 0 \/ (pc = "poll" /\ queue = <<>>)
  BY DEF TimePasses, Idle
<1>2. TypeInv'
  <2>1. slot' \in 0..Period
    BY <1>1, PeriodAssumption DEF TaskInv, TypeInv
  <2>2. nap' \in {Unslept, 0, 1}
    BY <1>1 DEF TaskInv, TypeInv, Unslept
  <2>3. QED
    BY <1>1, <2>1, <2>2 DEF TaskInv, TypeInv, Event, Frames!Kind
<1>3. TimeInv'
  <2>1. CASE pc = "poll"
    BY <1>1, <2>1 DEF TaskInv, TypeInv, TimeInv, Unslept
  <2>2. CASE pc # "poll"
    <3>1. nap = 1 /\ nap' = 0 /\ pc \in Duty /\ pc # "flags"
      BY <1>1, <2>2 DEF TaskInv, TypeInv, TimeInv, Unslept
    <3>2. Rank(pc) \in Nat
      BY <3>1, AfterRank
    <3>3. Rank(pc)' = Rank(pc)
      BY <1>1 DEF Rank
    <3>4. QED
      BY <1>1, <2>2, <3>1, <3>2, <3>3 DEF TaskInv, TypeInv, TimeInv
  <2>3. QED
    BY <2>1, <2>2
<1>4. MessagesApart'
  BY <1>1 DEF MessagesApart
<1>5. FlagInv'
  BY <1>1 DEF TaskInv, TypeInv, FlagInv, Unslept
<1>6. RaisesItsFlags' /\ QuietInv'
  BY <1>1 DEF TaskInv, RaisesItsFlags, QuietInv, Undecided, FlagsOf
<1> QED
  BY <1>2, <1>3, <1>4, <1>5, <1>6 DEF TaskInv

\* When the timer fires the thread has done all its duties.
LEMMA Done == TaskInv => DoneInTime
<1> SUFFICES ASSUME TaskInv, slot = Period PROVE pc = "poll" /\ queue = <<>>
  BY DEF DoneInTime
<1>1. pc = "poll"
  <2>1. SUFFICES ASSUME pc # "poll" PROVE FALSE
    OBVIOUS
  <2>2. pc \in Duty /\ slot <= Rank(pc) + (IF nap = 0 THEN 1 ELSE 0)
    BY <2>1 DEF TaskInv, TypeInv, TimeInv
  <2>3. Rank(pc) \in 0..5 /\ (pc = "flags" <=> Rank(pc) = 5) /\ (pc = "flags" => nap # 0)
    BY <2>2, AfterRank DEF TaskInv, TimeInv, Unslept
  <2>4. QED
    BY <2>2, <2>3, PeriodAssumption
<1>2. queue = <<>>
  BY <1>1, PeriodAssumption DEF TaskInv, TimeInv
<1> QED
  BY <1>1, <1>2

\* The minute posted is the next one of the hour.
LEMMA PostedNext ==
  ASSUME TypeInv
  PROVE  /\ Posted \in 0..Hour - 1 /\ Posted + 1 \in 1..Hour
         /\ Posted = 0 \/ Posted = count
  BY HourAssumption DEF TypeInv, Posted

\* The timer finds the queue empty and posts one event.
LEMMA TaskTick == TaskInv /\ Tick => TaskInv'
<1> SUFFICES ASSUME TaskInv, Tick PROVE TaskInv'
  OBVIOUS
<1> DEFINE e == Copied
<1>1. pc = "poll" /\ queue = <<>>
  BY Done DEF Tick, DoneInTime
<1>2. Len(queue) < EventCount /\ Len(queue) = 0
  BY <1>1, EventAssumption
<1>3. /\ slot' = 0 /\ param1' = Posted /\ count' = Posted + 1
      /\ queue' = Append(queue, e)
      /\ UNCHANGED <<param2, pc, nap, raised, said, quiet, pdata_int, hdata_int>>
  BY <1>2 DEF Tick, threadVars
<1>4. /\ e \in Event /\ queue \in Seq(Event)
      /\ e.param1 = Posted /\ e.param2 = param2
  BY PostedNext DEF TaskInv, TypeInv, Event, MailValue, Copied
<1>5. queue' \in Seq(Event) /\ queue' # <<>> /\ Len(queue') = 1 /\ queue'[1] = e
  <2> HIDE DEF e
  <2>1. /\ Append(queue, e) \in Seq(Event) /\ Append(queue, e) # <<>>
        /\ Len(Append(queue, e)) = Len(queue) + 1
        /\ Append(queue, e)[Len(queue) + 1] = e
    BY <1>4, AppendProperties
  <2>2. QED
    BY <1>2, <1>3, <2>1
<1>6. TypeInv'
  <2>1. /\ slot' \in 0..Period /\ param1' \in 0..Hour - 1 /\ count' \in 0..Hour
        /\ Len(queue') <= EventCount
    BY <1>3, <1>5, PostedNext, PeriodAssumption, EventAssumption DEF TaskInv
  <2>2. QED
    BY <1>3, <1>5, <2>1 DEF TaskInv, TypeInv, MailValue, Event, Frames!Kind
<1>7. TimeInv'
  <2>1. queue'[1].param1 = count' - 1 /\ count' > 0
    BY <1>3, <1>4, <1>5, PostedNext DEF TaskInv
  <2>2. QED
    BY <1>1, <1>3, <1>5, <2>1 DEF TaskInv, TimeInv
<1>8. MessagesApart' /\ FlagInv' /\ RaisesItsFlags'
  BY <1>1, <1>3, <1>5 DEF MessagesApart, FlagInv, RaisesItsFlags, Writes
<1>9. QuietInv'
  <2>1. quiet <= (IF count = 0 THEN 0 ELSE count - 1)
    BY <1>1 DEF TaskInv, QuietInv, Undecided
  <2>2. quiet <= IF count' = 1 THEN Hour - 1 ELSE count' - 2
    <3>1. CASE Posted = 0
      BY <1>3, <2>1, <3>1, HourAssumption DEF TaskInv, TypeInv
    <3>2. CASE Posted = count /\ Posted # 0
      BY <1>3, <2>1, <3>2, PostedNext DEF TaskInv, TypeInv
    <3>3. QED
      BY <3>1, <3>2, PostedNext DEF TaskInv
  <2>3. QED
    BY <1>3, <1>5, <2>2 DEF QuietInv, Undecided
<1> QED
  BY <1>6, <1>7, <1>8, <1>9 DEF TaskInv

\* The thread takes the only event.
LEMMA TaskPoll == TaskInv /\ Poll => TaskInv'
<1> SUFFICES ASSUME TaskInv, Poll PROVE TaskInv'
  OBVIOUS
<1>1. /\ pc = "poll" /\ queue # <<>> /\ pc' = "attributes" /\ raised' = {}
      /\ param1' = Head(queue).param1 /\ param2' = Head(queue).param2
      /\ queue' = Tail(queue)
      /\ UNCHANGED <<count, slot, nap, said, quiet, pdata_int, hdata_int>>
  BY DEF Poll
<1>2. /\ queue \in Seq(Event) /\ Len(queue) = 1 /\ slot = 0 /\ count > 0
      /\ queue[1].param1 = count - 1 /\ nap = Unslept
  BY <1>1 DEF TaskInv, TypeInv, TimeInv
<1>3. queue[1] \in Event /\ Head(queue) = queue[1]
  BY <1>1, <1>2
<1>4. queue' \in Seq(Event) /\ Len(queue') = 0 /\ queue' = <<>>
  BY <1>1, <1>2, HeadTailProperties, EmptySeq
<1>5. param1' \in 0..Hour - 1 /\ param2' \in MailValue /\ param1' = count - 1
  BY <1>1, <1>2, <1>3 DEF Event, MailValue
<1>6. TypeInv'
  <2>1. Len(queue') <= EventCount
    BY <1>4, EventAssumption
  <2>2. pc' \in Duty \cup {"poll"} /\ raised' \subseteq Flag
    BY <1>1 DEF Duty
  <2>3. QED
    BY <1>1, <1>4, <1>5, <2>1, <2>2 DEF TaskInv, TypeInv, MailValue, Event, Frames!Kind
<1>7. TimeInv'
  BY <1>1, <1>2, <1>4, <1>5 DEF TimeInv, Rank, Unslept
<1>8. MessagesApart' /\ FlagInv' /\ RaisesItsFlags'
  BY <1>1, <1>2 DEF MessagesApart, FlagInv, RaisesItsFlags, Unslept
<1>9. QuietInv'
  BY <1>1 DEF TaskInv, QuietInv, Undecided
<1> QED
  BY <1>6, <1>7, <1>8, <1>9 DEF TaskInv

\* A duty that is due begins with a sleep.
LEMMA TaskSleep ==
  ASSUME TaskInv, NEW d \in Duty, Sleep(d)
  PROVE  TaskInv'
<1>1. /\ pc = d /\ nap = Unslept /\ Due(d, TRUE) /\ nap' = 1
      /\ UNCHANGED <<count, slot, param1, param2, queue, pc, raised, said, quiet,
                     pdata_int, hdata_int>>
  BY DEF Sleep, NapBefore
<1>2. d # "flags" /\ d # "poll" /\ (d = "attributes" => param1 = 1)
  BY <1>1, DueFirst DEF Duty
<1>3. TypeInv'
  BY <1>1 DEF TaskInv, TypeInv, MailValue, Event, Frames!Kind
<1>4. TimeInv'
  BY <1>1, <1>2 DEF TaskInv, TimeInv, Rank, Unslept
<1>5. MessagesApart' /\ RaisesItsFlags'
  BY <1>1, <1>2 DEF MessagesApart, RaisesItsFlags
<1>6. FlagInv'
  BY <1>1, <1>2 DEF TaskInv, FlagInv
<1>7. QuietInv'
  BY <1>1 DEF TaskInv, QuietInv, Undecided
<1> QED
  BY <1>3, <1>4, <1>5, <1>6, <1>7 DEF TaskInv

\* A duty has been done.
LEMMA TaskPerform ==
  ASSUME TaskInv, NEW d \in Duty, Perform(d)
  PROVE  TaskInv'
<1>1. /\ pc = d /\ nap = 0 /\ pc' = After(d) /\ nap' = Unslept
      /\ said' = (said \/ d \in Writes)
      /\ quiet' = IF d = "periodic" THEN 0 ELSE quiet
      /\ raised' = raised \cup {f \in {"names"} : d = "attributes"}
                          \cup {f \in {"hdata_onceupdate"} : d = "heartbeat"}
      /\ UNCHANGED <<count, slot, param1, param2, queue, pdata_int, hdata_int>>
  BY DEF Perform
<1>2. d # "poll" /\ d # "flags" /\ pc' \in Duty /\ pc' # "attributes" /\ pc' # "poll"
  BY <1>1, AfterRank DEF TaskInv, TimeInv, Duty, Unslept
<1>3. /\ Rank(pc') = Rank(d) + 1 /\ Rank(d) \in Nat
      /\ pc' = "periodic" <=> d = "attributes"
  BY <1>1, <1>2, AfterRank
<1>4. TypeInv'
  <2>1. raised' \subseteq Flag
    BY <1>1 DEF TaskInv, TypeInv, Flag
  <2>2. said' \in BOOLEAN
    BY <1>1 DEF TaskInv, TypeInv
  <2>3. quiet' \in Nat
    BY <1>1 DEF TaskInv, TypeInv
  <2>4. QED
    BY <1>1, <1>2, <2>1, <2>2, <2>3 DEF TaskInv, TypeInv, MailValue, Event, Frames!Kind
<1>5. TimeInv'
  <2>1. slot <= Rank(d) + 1
    BY <1>1, <1>2 DEF TaskInv, TimeInv
  <2>2. slot' <= Rank(pc)' /\ nap' # 0
    BY <1>1, <1>3, <2>1 DEF Unslept, Rank
  <2>3. slot' <= Rank(pc)' + (IF nap' = 0 THEN 1 ELSE 0)
    BY <1>1, <1>2, <1>3, <2>2, AfterRank DEF Rank, TaskInv, TypeInv
  <2>4. QED
    BY <1>1, <1>2, <2>3 DEF TaskInv, TimeInv
<1>6. MessagesApart' /\ RaisesItsFlags'
  BY <1>1, <1>2 DEF MessagesApart, RaisesItsFlags, Unslept
<1>7. FlagInv'
  <2>1. CASE d = "attributes"
    BY <1>1, <1>2, <2>1 DEF TaskInv, FlagInv, Unslept
  <2>2. CASE d # "attributes"
    BY <1>1, <1>2, <2>2 DEF TaskInv, FlagInv
  <2>3. QED
    BY <2>1, <2>2
<1>8. QuietInv'
  <2>1. count > 0 /\ queue = <<>> /\ count \in Nat /\ quiet \in Nat
    BY <1>1, <1>2, HourAssumption DEF TaskInv, TypeInv, TimeInv
  <2>2. Undecided' <=> pc' = "periodic"
    BY <1>1, <1>2, <2>1 DEF Undecided
  <2>3. Undecided <=> d \in {"attributes", "periodic"}
    BY <1>1, <2>1 DEF Undecided
  <2>4. CASE d = "attributes"
    BY <1>1, <1>3, <2>1, <2>2, <2>3, <2>4 DEF TaskInv, QuietInv
  <2>5. CASE d = "periodic"
    BY <1>1, <1>3, <2>1, <2>2, <2>3, <2>5 DEF TaskInv, QuietInv
  <2>6. CASE d \notin {"attributes", "periodic"}
    BY <1>1, <1>3, <2>1, <2>2, <2>3, <2>6 DEF TaskInv, QuietInv
  <2>7. QED
    BY <2>4, <2>5, <2>6
<1> QED
  BY <1>4, <1>5, <1>6, <1>7, <1>8 DEF TaskInv

\* A duty is not due: in minute 0 there is always a request for telemetry.
LEMMA TaskSkip ==
  ASSUME TaskInv, NEW d \in Duty, Skip(d)
  PROVE  TaskInv'
<1>1. /\ pc = d /\ d # "flags" /\ nap = Unslept /\ Due(d, FALSE) /\ pc' = After(d)
      /\ quiet' = IF d # "periodic" THEN quiet
                  ELSE IF pdata_int = 0 THEN 0 ELSE quiet + 1
      /\ UNCHANGED <<count, slot, param1, param2, queue, nap, raised, said,
                     pdata_int, hdata_int>>
  BY DEF Skip
<1>2. d # "poll" /\ pc' \in Duty /\ pc' # "attributes" /\ pc' # "poll"
  BY <1>1, AfterRank DEF Duty
<1>3. /\ Rank(pc') = Rank(d) + 1 /\ Rank(d) \in Nat
      /\ pc' = "periodic" <=> d = "attributes"
  BY <1>1, <1>2, AfterRank
<1>4. count > 0 /\ queue = <<>> /\ count \in Nat /\ quiet \in Nat /\ param1 = count - 1
  BY <1>1, <1>2, HourAssumption DEF TaskInv, TypeInv, TimeInv
<1>5. TypeInv'
  <2>1. quiet' \in Nat
    BY <1>1, <1>4
  <2>2. QED
    BY <1>1, <1>2, <2>1 DEF TaskInv, TypeInv, MailValue, Event, Frames!Kind
<1>6. TimeInv'
  <2>1. slot <= Rank(d) + 0
    BY <1>1, <1>2 DEF TaskInv, TimeInv, Unslept
  <2>2. slot' <= Rank(pc)' + 0 /\ nap' # 0
    BY <1>1, <1>3, <2>1 DEF Unslept, Rank, TaskInv, TypeInv
  <2>3. QED
    BY <1>1, <1>2, <2>2 DEF TaskInv, TimeInv
<1>7. MessagesApart' /\ RaisesItsFlags'
  BY <1>1, <1>2 DEF MessagesApart, RaisesItsFlags, Unslept
<1>8. FlagInv'
  <2>1. CASE d = "attributes"
    <3>1. param1 # 1 /\ raised = {}
      BY <1>1, <2>1, DueFirst DEF TaskInv, FlagInv
    <3>2. QED
      BY <1>1, <1>2, <3>1 DEF FlagInv
  <2>2. CASE d # "attributes"
    BY <1>1, <1>2, <2>2 DEF TaskInv, FlagInv
  <2>3. QED
    BY <2>1, <2>2
<1>9. QuietInv'
  <2>1. Undecided' <=> pc' = "periodic"
    BY <1>1, <1>2, <1>4 DEF Undecided
  <2>2. Undecided <=> d \in {"attributes", "periodic"}
    BY <1>1, <1>4 DEF Undecided
  <2>3. CASE d = "attributes"
    BY <1>1, <1>3, <1>4, <2>1, <2>2, <2>3 DEF TaskInv, QuietInv
  <2>4. CASE d = "periodic"
    <3>1. CASE pdata_int = 0
      BY <1>1, <1>3, <1>4, <2>1, <2>4, <3>1 DEF QuietInv
    <3>2. CASE pdata_int # 0
      <4>1. param1 % pdata_int # 0
        BY <1>1, <2>4, <3>2, DueFirst DEF Divides
      <4>2. pdata_int \in Nat /\ pdata_int > 0
        BY <3>2 DEF TaskInv, TypeInv
      <4>3. 0 % pdata_int = 0
        BY <4>2
      <4>4. count # 1
        BY <1>4, <4>1, <4>3
      <4>5. quiet <= count - 2 /\ quiet' = quiet + 1
        BY <1>1, <2>2, <2>4, <3>2, <4>4 DEF TaskInv, QuietInv
      <4>6. QED
        BY <1>1, <1>3, <1>4, <2>1, <2>4, <4>5 DEF QuietInv
    <3>3. QED
      BY <3>1, <3>2
  <2>5. CASE d \notin {"attributes", "periodic"}
    BY <1>1, <1>3, <1>4, <2>1, <2>2, <2>5 DEF TaskInv, QuietInv
  <2>6. QED
    BY <2>3, <2>4, <2>5
<1> QED
  BY <1>5, <1>6, <1>7, <1>8, <1>9 DEF TaskInv

\* The last flags of the minute are raised.
LEMMA TaskFlags == TaskInv /\ Flags => TaskInv'
<1> SUFFICES ASSUME TaskInv, Flags PROVE TaskInv'
  OBVIOUS
<1>1. /\ pc = "flags" /\ pc' = "poll"
      /\ raised' = raised \cup Table!RetryRaised(param1) \cup Table!ReplayRaised(param1)
      /\ UNCHANGED <<count, slot, param1, param2, queue, nap, said, quiet, pdata_int,
                     hdata_int>>
  BY DEF Flags
<1>2. /\ nap = Unslept /\ queue = <<>> /\ count > 0 /\ param1 = count - 1
      /\ raised \ {"hdata_onceupdate"} = {f \in {"names"} : param1 = 1}
  BY <1>1 DEF TaskInv, TimeInv, FlagInv
<1>3. TypeInv'
  <2>1. raised' \subseteq Flag
    BY <1>1, OwnFlags DEF TaskInv, TypeInv, Flag
  <2>2. QED
    BY <1>1, <2>1 DEF TaskInv, TypeInv, MailValue, Event, Frames!Kind
<1>4. TimeInv' /\ MessagesApart' /\ FlagInv'
  BY <1>1, <1>2 DEF TimeInv, MessagesApart, FlagInv, Writes
<1>5. RaisesItsFlags'
  <2>1. raised' \ {"hdata_onceupdate"} = FlagsOf(param1)
    BY <1>1, <1>2, OwnFlags
  <2>2. FlagsOf(count - 1)' = FlagsOf(param1)
    BY <1>1, <1>2 DEF FlagsOf
  <2>3. QED
    BY <2>1, <2>2 DEF RaisesItsFlags
<1>6. QuietInv'
  BY <1>1 DEF TaskInv, QuietInv, Undecided
<1> QED
  BY <1>3, <1>4, <1>5, <1>6 DEF TaskInv

\* What the others do leaves the timer and the thread alone, whatever it makes
\* of the mail and the intervals.
LEMMA TaskOthers ==
  ASSUME TaskInv, UNCHANGED taskVars, param2' \in MailValue,
         pdata_int' \in 0..255, hdata_int' \in 0..255
  PROVE  TaskInv'
<1>1. UNCHANGED <<count, slot, param1, queue, pc, nap, raised, said, quiet>>
  BY DEF taskVars, threadVars
<1>2. TypeInv'
  BY <1>1 DEF TaskInv, TypeInv, MailValue, Event, Frames!Kind
<1>3. TimeInv' /\ MessagesApart' /\ FlagInv'
  BY <1>1 DEF TaskInv, TimeInv, MessagesApart, FlagInv, Rank
<1>4. RaisesItsFlags' /\ QuietInv'
  BY <1>1 DEF TaskInv, RaisesItsFlags, FlagsOf, QuietInv, Undecided
<1> QED
  BY <1>2, <1>3, <1>4 DEF TaskInv

\* An interval stays a char.
LEMMA TaskInterval == TaskInv /\ SetInterval => TaskInv'
<1> SUFFICES ASSUME TaskInv, SetInterval PROVE TaskInv'
  OBVIOUS
<1>1. pdata_int' \in 0..255 /\ hdata_int' \in 0..255
  <2>1. PICK v \in RpcValues : \/ pdata_int' \in {Char(v), Healed(v)} /\ UNCHANGED hdata_int
                               \/ hdata_int' = Char(v) /\ UNCHANGED pdata_int
    BY DEF SetInterval
  <2>2. pdata_int \in 0..255 /\ hdata_int \in 0..255
    BY DEF TaskInv, TypeInv
  <2>3. QED
    BY <2>1, <2>2, CharRange
<1>2. UNCHANGED taskVars /\ param2' \in MailValue
  BY DEF SetInterval, taskVars, TaskInv, TypeInv
<1> QED
  BY <1>1, <1>2, TaskOthers

\* A restart begins again.
LEMMA TaskPowerCycle == PowerCycle => TaskInv'
<1> SUFFICES ASSUME PowerCycle PROVE TaskInv'
  OBVIOUS
<1>1. <<>> \in Seq(Event) /\ Len(<<>>) = 0
  BY EmptySeq
<1>2. TypeInv'
  <2>1. count' \in 0..Hour /\ slot' \in 0..Period /\ param1' \in 0..Hour - 1
    BY HourAssumption, PeriodAssumption DEF PowerCycle
  <2>2. (queue \in Seq(Event))' /\ Len(queue') <= EventCount
    BY <1>1, EventAssumption DEF PowerCycle, Event, Frames!Kind
  <2>3. (param2 \in MailValue)' /\ pc' \in Duty \cup {"poll"} /\ nap' \in {Unslept, 0, 1}
    BY DEF PowerCycle, MailValue
  <2>4. pdata_int' \in 0..255 /\ hdata_int' \in 0..255 /\ quiet' \in Nat
    BY DEF PowerCycle
  <2>5. said' \in BOOLEAN /\ raised' \subseteq Flag
    BY DEF PowerCycle
  <2>6. QED
    BY <2>1, <2>2, <2>3, <2>4, <2>5 DEF TypeInv
<1>3. TimeInv' /\ MessagesApart' /\ FlagInv' /\ RaisesItsFlags' /\ QuietInv'
  BY DEF PowerCycle, TimeInv, MessagesApart, FlagInv, RaisesItsFlags, Writes, QuietInv,
     Undecided
<1> QED
  BY <1>2, <1>3 DEF TaskInv

\* Every step keeps the invariant of the timer and the thread.
LEMMA TaskStep == TaskInv /\ [Next]_vars => TaskInv'
<1> SUFFICES ASSUME TaskInv, [Next]_vars PROVE TaskInv'
  OBVIOUS
<1>1. param2 \in MailValue /\ pdata_int \in 0..255 /\ hdata_int \in 0..255
  BY DEF TaskInv, TypeInv
<1>2. CASE TimePasses \/ Tick \/ SetInterval \/ PowerCycle
  BY <1>2, TaskTime, TaskTick, TaskInterval, TaskPowerCycle
<1>3. CASE UartThread
  <2>1. CASE Poll \/ Flags
    BY <2>1, TaskPoll, TaskFlags
  <2>2. CASE ReadClock
    BY <1>1, <2>2, TaskOthers DEF ReadClock, taskVars
  <2>3. CASE \E d \in Duty : Sleep(d) \/ Perform(d) \/ Skip(d)
    BY <2>3, TaskSleep, TaskPerform, TaskSkip
  <2>4. QED
    BY <1>3, <2>1, <2>2, <2>3 DEF UartThread
<1>4. CASE Controller
  BY <1>1, <1>4, TaskOthers DEF Controller, taskVars
<1>5. CASE \E n \in 1..Len(line) : Callback(n)
  <2>1. /\ UNCHANGED taskVars /\ UNCHANGED <<pdata_int, hdata_int>>
        /\ param2' = param2 \/ param2' \in Frames!Kind
    BY <1>5 DEF Callback, taskVars, Frames!KindOf, Frames!Kind
  <2>2. QED
    BY <1>1, <2>1, TaskOthers DEF MailValue
<1>6. CASE Take \/ ClockSteps
  BY <1>1, <1>6, TaskOthers DEF Take, ClockSteps, taskVars, MailValue
<1>7. CASE UNCHANGED vars
  BY <1>1, <1>7, TaskOthers DEF vars, taskVars
<1> QED
  BY <1>2, <1>3, <1>4, <1>5, <1>6, <1>7 DEF Next, RMU

-----------------------------------------------------------------------------
(* The three together.                                                     *)

IInv == TaskInv /\ FrameInv /\ RoomInv /\ ClockInv

LEMMA InitIInv == Init => IInv
  BY TaskInit, FrameInit, RoomInit, ClockInit DEF Init, IInv

\* A step is one of the framing, or leaves it alone.
LEMMA FramesStep == [Next]_vars => [Frames!Next]_frameVars
<1> SUFFICES ASSUME [Next]_vars PROVE [Frames!Next]_frameVars
  OBVIOUS
<1>1. CASE Controller
  BY <1>1 DEF Controller, Frames!Next
<1>2. CASE \E n \in 1..Len(line) : Callback(n)
  BY <1>2 DEF Callback, Frames!Next
<1>3. CASE PowerCycle
  BY <1>3 DEF PowerCycle, Frames!Next
<1>4. CASE TimePasses \/ Tick \/ Take \/ SetInterval \/ ClockSteps
  BY <1>4 DEF TimePasses, Tick, Take, SetInterval, ClockSteps
<1>5. CASE UartThread
  BY <1>5 DEF UartThread, Poll, ReadClock, Flags, Sleep, Perform, Skip
<1>6. CASE UNCHANGED vars
  BY <1>6 DEF vars
<1> QED
  BY <1>1, <1>2, <1>3, <1>4, <1>5, <1>6 DEF Next, RMU

\* A step is one of the clock, or leaves it alone.
LEMMA ClocksStep == [Next]_vars => [Clock!Next]_clockVars
<1> SUFFICES ASSUME [Next]_vars PROVE [Clock!Next]_clockVars
  OBVIOUS
<1>1. CASE Controller \/ Take \/ SetInterval \/ TimePasses \/ Tick
  BY <1>1 DEF Controller, Take, SetInterval, TimePasses, Tick
<1>2. CASE \E n \in 1..Len(line) : Callback(n)
  <2>1. Clock!Synchronise("callback") \/ UNCHANGED clockVars
    BY <1>2 DEF Callback
  <2>2. QED
    BY <2>1 DEF Clock!Next, Clock!Caller
<1>3. CASE PowerCycle
  BY <1>3 DEF PowerCycle, Clock!Next
<1>4. CASE UartThread
  <2>1. Clock!Synchronise("thread") \/ Clock!Refresh("thread") \/ UNCHANGED clockVars
    BY <1>4 DEF UartThread, Poll, ReadClock, Flags, Sleep, Perform, Skip
  <2>2. QED
    BY <2>1 DEF Clock!Next, Clock!Caller
<1>5. CASE ClockSteps
  BY <1>5 DEF ClockSteps, Clock!Next
<1>6. CASE UNCHANGED vars
  BY <1>6 DEF vars
<1> QED
  BY <1>1, <1>2, <1>3, <1>4, <1>5, <1>6 DEF Next, RMU

\* The three actors share the line, the clock and the stamp only in the steps that
\* UartFraming and TimeSync have, so what is shown of those two holds among them.
THEOREM UsesFramingAndClock == Spec => Frames!Spec /\ Clock!Spec
<1>1. Init => Frames!Init /\ Clock!Init
  BY DEF Init
<1>2. [Next]_vars => [Frames!Next]_Frames!vars
  BY FramesStep DEF frameVars, Frames!vars
<1>3. [Next]_vars => [Clock!Next]_Clock!vars
  BY ClocksStep DEF clockVars, Clock!vars
<1> QED
  BY <1>1, <1>2, <1>3, PTL DEF Spec, Frames!Spec, Clock!Spec

LEMMA IInvStep == IInv /\ [Next]_vars => IInv'
  BY TaskStep, FramesStep, FrameStep, RoomStep, ClocksStep, ClockStep DEF IInv

LEMMA Invariant == Spec => []IInv
  BY InitIInv, IInvStep, PTL DEF Spec

\* The variables of the three actors keep their types.
THEOREM TypeCorrect == Spec => []TypeOK
<1>1. IInv => TypeOK
  BY DEF IInv, TaskInv, TypeInv, FrameInv, ClockInv, TypeOK, MailValue, Flag
<1> QED
  BY <1>1, Invariant, PTL

\* For every number of slots above 5 in a minute: the thread has done the
\* duties of a minute when the timer posts the next one.
THEOREM DoneInTimeCorrect == Spec => []DoneInTime
  BY Done, Invariant, PTL DEF IInv

\* The messages of the thread to the controller are 5 s apart.
THEOREM MessagesApartCorrect == Spec => []MessagesApart
<1>1. IInv => MessagesApart
  BY DEF IInv, TaskInv
<1> QED
  BY <1>1, Invariant, PTL

\* A minute raises the flags of that minute and no others.
THEOREM RaisesItsFlagsCorrect == Spec => []RaisesItsFlags
<1>1. IInv => RaisesItsFlags
  BY DEF IInv, TaskInv
<1> QED
  BY <1>1, Invariant, PTL

\* For every length of the hour and every interval an RPC may set: telemetry is
\* asked for at least once an hour.
THEOREM AskedHourlyCorrect == Spec => []AskedHourly
<1>1. IInv => AskedHourly
  <2>1. SUFFICES ASSUME TypeInv, QuietInv PROVE quiet < Hour
    BY DEF IInv, TaskInv, AskedHourly
  <2>2. count \in 0..Hour /\ quiet \in Nat /\ Hour \in Nat /\ Hour > 1
    BY <2>1, HourAssumption DEF TypeInv
  <2>3. CASE Undecided
    <3>1. quiet <= IF count = 1 THEN Hour - 1 ELSE count - 2
      BY <2>1, <2>3 DEF QuietInv
    <3>2. QED
      BY <2>2, <3>1
  <2>4. CASE ~Undecided
    <3>1. quiet <= IF count = 0 THEN 0 ELSE count - 1
      BY <2>1, <2>4 DEF QuietInv
    <3>2. QED
      BY <2>2, <3>1
  <2>5. QED
    BY <2>3, <2>4
<1> QED
  BY <1>1, Invariant, PTL

\* For all sizes of frames and of a buffer that takes the longest: until the
\* buffer is overrun, a frame that begins with a chunk is collected.
THEOREM FrameCollectedCorrect == Spec => []FrameCollected
<1>1. IInv => FrameCollected
  BY DEF IInv, FrameInv, FrameCollected
<1> QED
  BY <1>1, Invariant, PTL

\* What is collected has no gap unless the driver lost bytes.
THEOREM NoGapCorrect == Spec => []NoGap
<1>1. IInv => NoGap
  BY DEF IInv, FrameInv, NoGap, Frames!NoGap, Frames!Head_
<1> QED
  BY <1>1, Invariant, PTL

\* It takes a lost byte or an end inside the chunks to overrun the buffer.
THEOREM RoomForAFrameCorrect == Spec => []RoomForAFrame
<1>1. IInv => RoomForAFrame
  BY DEF IInv, RoomInv, RoomForAFrame
<1> QED
  BY <1>1, Invariant, PTL

\* For every time of the sources, and whatever the two callers of get_time leave to
\* each other: the stamp of a call nobody interferes with names its instant, 24
\* hours late if GPS gives it on the next Indian date.
THEOREM IstInstantCorrect == Spec => []IstInstant
<1>1. IInv => IstInstant
  BY DEF IInv, ClockInv, IstInstant
<1> QED
  BY <1>1, Invariant, PTL

-----------------------------------------------------------------------------
(* The mailbox.                                                            *)

OldCopy == IF queue = <<>> THEN Nothing ELSE queue[1].param2

\* A step that leaves the queue alone changes the mail as Mailbox allows.
LEMMA MailKept ==
  ASSUME queue' = queue,
         param2' = param2 \/ param2' = 0 \/ param2' \in Frames!Kind
  PROVE  [Mail!Next]_Mail!vars
<1>1. UNCHANGED OldCopy
  BY DEF OldCopy
<1>2. CASE param2' = param2
  BY <1>1, <1>2 DEF Mail!vars, OldCopy
<1>3. CASE param2' = 0
  BY <1>1, <1>3 DEF Mail!Next, Mail!Take, OldCopy
<1>4. CASE param2' \in Frames!Kind
  BY <1>1, <1>4 DEF Mail!Next, Mail!Raise, OldCopy, Mail!Kind, Frames!Kind,
     Mail!Telemetry, Mail!Attributes, Frames!Telemetry, Frames!Attributes
<1> QED
  BY <1>2, <1>3, <1>4

\* Every step of the three actors is one of the mailbox, or leaves it alone.
LEMMA MailStep == IInv /\ [Next]_vars => [Mail!Next]_Mail!vars
<1> SUFFICES ASSUME TaskInv, [Next]_vars PROVE [Mail!Next]_Mail!vars
  BY DEF IInv
<1>1. CASE Tick
  <2> DEFINE e == Copied
  <2>1. queue = <<>> /\ param2' = param2
    BY <1>1, Done DEF Tick, DoneInTime
  <2>2. queue' = Append(queue, e)
    BY <1>1, <2>1, EventAssumption DEF Tick
  <2>3. queue' # <<>> /\ queue'[1].param2 = param2
    BY <2>1, <2>2 DEF Copied
  <2>4. Mail!Post
    BY <2>1, <2>3 DEF Mail!Post, Nothing, Mail!Nothing
  <2>5. QED
    BY <2>4 DEF Mail!Next
<1>2. CASE Poll
  <2>1. /\ queue \in Seq(Event) /\ queue # <<>> /\ Len(queue) = 1
        /\ param2' = Head(queue).param2 /\ queue' = Tail(queue)
    BY <1>2 DEF Poll, TaskInv, TypeInv, TimeInv
  <2>2. queue' = <<>> /\ Head(queue) = queue[1] /\ queue[1] \in Event
    BY <2>1, HeadTailProperties, EmptySeq
  <2>3. queue[1].param2 # Nothing
    BY <2>2 DEF Event, Nothing, Frames!Kind, Frames!Telemetry, Frames!Attributes
  <2>4. Mail!Restore
    BY <2>1, <2>2, <2>3 DEF Mail!Restore, Nothing, Mail!Nothing
  <2>5. QED
    BY <2>4 DEF Mail!Next
<1>3. CASE PowerCycle
  BY <1>3 DEF PowerCycle, Mail!Next, Mail!Restart, Nothing, Mail!Nothing
<1>4. CASE UartThread /\ ~Poll
  <2>1. queue' = queue /\ param2' = param2
    BY <1>4 DEF UartThread, ReadClock, Flags, Sleep, Perform, Skip
  <2>2. QED
    BY <2>1, MailKept
<1>5. CASE \E n \in 1..Len(line) : Callback(n)
  <2>1. queue' = queue /\ (param2' = param2 \/ param2' \in Frames!Kind)
    BY <1>5 DEF Callback, Frames!KindOf, Frames!Kind
  <2>2. QED
    BY <2>1, MailKept
<1>6. CASE TimePasses \/ Controller \/ ClockSteps \/ Take \/ SetInterval \/ UNCHANGED vars
  <2>1. queue' = queue /\ (param2' = param2 \/ param2' = 0)
    BY <1>6 DEF TimePasses, Controller, ClockSteps, Take, SetInterval, vars
  <2>2. QED
    BY <2>1, MailKept
<1> QED
  BY <1>1, <1>2, <1>3, <1>4, <1>5, <1>6 DEF Next, RMU

\* The timer, the callback and the UART thread implement the mailbox.
THEOREM MailboxImplemented == Spec => ImplementsMailbox
<1>1. Init => Mail!Init
  BY DEF Init, Mail!Init, Nothing, Mail!Nothing
<1> QED
  BY <1>1, MailStep, Invariant, PTL DEF Spec, ImplementsMailbox, Mail!Spec
=============================================================================
