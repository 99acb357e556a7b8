---------------------------- MODULE Fota_proofs ----------------------------
(***************************************************************************)
(* Proofs about the firmware update: types, the chunks of the file, and    *)
(* the flash that is given back.                                           *)
(***************************************************************************)
EXTENDS Fota, TLAPS

USE SizeAssumption, BoundAssumption

\* The file holds the first downloaded_size chunks of a package.
Aligned ==
  /\ Len(file) = downloaded_size
  /\ \A n \in 1..Len(file) : file[n].at = n

\* The strengthening: the file is aligned already before the first chunk, a
\* request goes on exactly behind it, and only an aborted one spoils it.
RequestInv ==
  /\ pc \in {"ready", "download", "get"} =>
       (down_state \in {"DOWN_NOSPACE", "DOWN_OTHER_ERROR"} \/ Aligned)
  /\ pc = "ready" => down_state = "DOWN_INIT"
  /\ pc = "get" => pos = downloaded_size /\ down_state \notin Stops
  /\ pc = "aborted" => down_state \in {"DOWN_NOSPACE", "DOWN_OTHER_ERROR"}

\* Until a power cut no file is left from call to call, unless it was refused.
FlashInv == boots = 0 /\ pc \in {"idle", "result", "init", "ready"} =>
              file = <<>> \/ refused

IInv == TypeOK /\ ChunksInPlace /\ RequestInv

-----------------------------------------------------------------------------
\* The result of a request is a state of the download.
LEMMA AfterGetType ==
  ASSUME NEW ok \in BOOLEAN, down_state \in DownState
  PROVE  AfterGet(ok) \in DownState
  BY DEF AfterGet, DownState

\* While a request runs there was one left.
Running == pc \in {"get", "aborted"} => MoreRequests

LEMMA EmptyFile == <<>> \in Seq(Chunk)
  OBVIOUS

LEMMA TypeInvariant == Spec => [](TypeOK /\ Running)
<1>1. Init => TypeOK /\ Running
  <2> SUFFICES ASSUME Init PROVE TypeOK /\ Running
    OBVIOUS
  <2>1. again \in BOOLEAN /\ 1 \in Version
    BY DEF Init
  <2>2. i \in 0..Attempts /\ calls \in 0..MaxCalls
    BY DEF Init
  <2> QED
    BY <2>1, <2>2, EmptyFile DEF Init, TypeOK, DownState, Running
<1>2. TypeOK /\ Running /\ [Next]_vars => TypeOK' /\ Running'
  <2> SUFFICES ASSUME TypeOK, Running, [Next]_vars PROVE TypeOK' /\ Running'
    OBVIOUS
  <2> USE EmptyFile DEF TypeOK, Running, MoreRequests
  <2>1. CASE OtaCommand
    <3>1. again' \in BOOLEAN
      BY <2>1 DEF OtaCommand
    <3>2. calls' \in 0..MaxCalls
      BY <2>1 DEF OtaCommand
    <3> QED
      BY <2>1, <3>1, <3>2 DEF OtaCommand, ram
  <2>2. CASE Result
    BY <2>2 DEF Result, UpdateFinished, UpdateReady, NoUpdate, Return, ram
  <2>3. CASE ClientInit
    BY <2>3 DEF ClientInit, Return, DownState
  <2>4. CASE NotReady
    BY <2>4 DEF NotReady, Return, ram
  <2>5. CASE NoSpace \/ Ready
    <3>1. SizeOf[version] \in Nat
      BY DEF Version
    <3>2. CASE NoSpace
      BY <3>1, <3>2 DEF NoSpace, Remove, Return, DownState
    <3>3. CASE Ready
      <4>1. i' \in 0..Attempts
        BY <3>3 DEF Ready
      <4> QED
        BY <3>1, <3>3, <4>1 DEF Ready
    <3> QED
      BY <2>5, <3>2, <3>3
  <2>6. CASE Request
    BY <2>6 DEF Request, StartPos
  <2>7. CASE StopRequests
    BY <2>7 DEF StopRequests, Remove, DownState
  <2>8. CASE WriteChunk
    <3>1. [version |-> version, at |-> pos + 1] \in Chunk
      BY DEF Chunk
    <3> QED
      BY <2>8, <3>1 DEF WriteChunk, DownState
  <2>9. CASE WriteFails
    <3>1. [version |-> version, at |-> 0] \in Chunk
      BY DEF Chunk
    <3> QED
      BY <2>9, <3>1 DEF WriteFails, DownState
  <2>10. CASE GetReturns
    <3>1. PICK ok \in BOOLEAN : down_state' = AfterGet(ok) /\ i' = Tried(ok)
      BY <2>10 DEF GetReturns
    <3>2. down_state' \in DownState
      BY <3>1, AfterGetType
    <3> QED
      BY <2>10, <3>1, <3>2 DEF GetReturns, Tried
  <2>11. CASE Check
    <3>1. CASE Install
      BY <3>1 DEF Install, ram
    <3>2. CASE Reject
      <4>1. again' \in BOOLEAN /\ pc' \in {"result", "idle"}
        BY <3>2 DEF Reject, Return
      <4> QED
        BY <3>2, <4>1 DEF Reject, Remove, Rejected, DownState
    <3> QED
      BY <2>11, <3>1, <3>2 DEF Check
  <2>12. CASE Reset \/ PowerCut
    <3>1. Boot
      BY <2>12 DEF Reset, PowerCut
    <3>2. again' \in BOOLEAN
      BY <3>1 DEF Boot
    <3>3. i' \in 0..Attempts
      BY <3>1 DEF Boot
    <3> QED
      BY <3>1, <3>2, <3>3 DEF Boot, DownState
  <2>13. CASE Replace
    BY <2>13 DEF Replace, ram
  <2>14. CASE UNCHANGED vars
    BY <2>14 DEF vars, ram
  <2> QED
    BY <2>1, <2>2, <2>3, <2>4, <2>5, <2>6, <2>7, <2>8, <2>9, <2>10, <2>11, <2>12,
       <2>13, <2>14 DEF Next, App, Connect, Fetch
<1> QED
  BY <1>1, <1>2, PTL DEF Spec

\* Type correctness: the counters of requests, chunks and calls stay in their
\* ranges (fota_ftp_file_download never makes an eleventh request).
THEOREM TypeCorrect == Spec => []TypeOK
  BY TypeInvariant, PTL

-----------------------------------------------------------------------------
\* A chunk behind an aligned file keeps it aligned.
LEMMA AlignedAppend ==
  ASSUME TypeOK, Aligned, pos = downloaded_size, WriteChunk
  PROVE  Aligned'
  BY DEF TypeOK, Aligned, WriteChunk, Chunk

\* The chunks of the file: none is missing and none is there twice, over any
\* number of requests, network failures, failed writes and new packages.
THEOREM ChunksStay == Spec => []ChunksInPlace
<1>1. Init => ChunksInPlace /\ RequestInv
  BY DEF Init, ChunksInPlace, RequestInv
<1>2. IInv /\ [Next]_vars => ChunksInPlace' /\ RequestInv'
  <2> SUFFICES ASSUME IInv, [Next]_vars PROVE ChunksInPlace' /\ RequestInv'
    OBVIOUS
  <2>1. CASE OtaCommand \/ Result \/ Replace \/ UNCHANGED vars
    BY <2>1 DEF IInv, OtaCommand, Result, UpdateFinished, UpdateReady, NoUpdate,
                Return, Replace, vars, ram, ChunksInPlace, RequestInv, Aligned
  <2>2. CASE ClientInit
    BY <2>2 DEF ClientInit, Return, ChunksInPlace, RequestInv, Aligned
  <2>3. CASE NotReady \/ NoSpace
    BY <2>3 DEF IInv, NotReady, NoSpace, Return, ram, ChunksInPlace, RequestInv, Aligned
  <2>4. CASE Ready
    BY <2>4 DEF IInv, Ready, ChunksInPlace, RequestInv, Aligned
  <2>5. CASE Request
    BY <2>5 DEF IInv, Request, StartPos, Stops, ChunksInPlace, RequestInv, Aligned
  <2>6. CASE StopRequests
    BY <2>6 DEF IInv, StopRequests, ChunksInPlace, RequestInv
  <2>7. CASE WriteChunk
    <3>1. Aligned /\ pos = downloaded_size
      BY <2>7 DEF IInv, WriteChunk, RequestInv, Stops
    <3>2. Aligned'
      BY <2>7, <3>1, AlignedAppend DEF IInv
    <3> QED
      BY <2>7, <3>1, <3>2 DEF IInv, TypeOK, WriteChunk, ChunksInPlace, RequestInv,
                              Aligned, Stops
  <2>8. CASE WriteFails
    BY <2>8 DEF WriteFails, ChunksInPlace, RequestInv
  <2>9. CASE GetReturns
    <3>1. PICK ok \in BOOLEAN : /\ ok => pc = "get"
                                /\ down_state' = AfterGet(ok)
      BY <2>9 DEF GetReturns
    <3>2. CASE pc = "get"
      <4>1. Aligned
        BY <3>2 DEF IInv, RequestInv, Stops
      <4>2. Aligned'
        BY <2>9, <4>1 DEF GetReturns, Aligned
      <4> QED
        BY <2>9, <4>2 DEF GetReturns, ChunksInPlace, RequestInv, Aligned
    <3>3. CASE pc = "aborted"
      <4>1. down_state' \in {"DOWN_NOSPACE", "DOWN_OTHER_ERROR"}
        BY <3>1, <3>3 DEF IInv, RequestInv, AfterGet
      <4> QED
        BY <2>9, <4>1 DEF GetReturns, ChunksInPlace, RequestInv
    <3> QED
      BY <2>9, <3>2, <3>3 DEF GetReturns
  <2>10. CASE Check
    BY <2>10 DEF IInv, Check, Install, Reject, Return, ram, ChunksInPlace, RequestInv
  <2>11. CASE Reset \/ PowerCut
    BY <2>11 DEF Reset, PowerCut, Boot, ChunksInPlace, RequestInv
  <2> QED
    BY <2>1, <2>2, <2>3, <2>4, <2>5, <2>6, <2>7, <2>8, <2>9, <2>10, <2>11
       DEF Next, App, Connect, Fetch
<1> QED
  BY <1>1, <1>2, TypeCorrect, PTL DEF Spec, IInv

\* Every way out of an update that fails gives the flash back or has tried.
THEOREM FlashFree == Spec => []FlashGivenBack
<1>1. Init => FlashInv
  BY DEF Init, FlashInv
<1>2. TypeOK /\ FlashInv /\ [Next]_vars => FlashInv'
  <2> SUFFICES ASSUME TypeOK, FlashInv, [Next]_vars PROVE FlashInv'
    OBVIOUS
  <2>1. CASE OtaCommand \/ Result \/ Replace \/ UNCHANGED vars
    BY <2>1 DEF OtaCommand, Result, UpdateFinished, UpdateReady, NoUpdate, Return,
                Replace, vars, ram, FlashInv
  <2>2. CASE Connect
    BY <2>2 DEF Connect, ClientInit, NotReady, NoSpace, Remove, Ready, Return, ram, FlashInv
  <2>3. CASE Fetch
    BY <2>3 DEF Fetch, Request, StopRequests, Remove, WriteChunk, WriteFails, GetReturns,
                FlashInv
  <2>4. CASE Check
    BY <2>4 DEF Check, Install, Reject, Remove, Rejected, Return, ram, FlashInv
  <2>5. CASE Reset \/ PowerCut
    BY <2>5 DEF TypeOK, Reset, PowerCut, Boot, FlashInv
  <2> QED
    BY <2>1, <2>2, <2>3, <2>4, <2>5 DEF Next, App
<1>3. FlashInv => FlashGivenBack
  BY DEF FlashInv, FlashGivenBack
<1> QED
  BY <1>1, <1>2, <1>3, TypeCorrect, PTL DEF Spec

-----------------------------------------------------------------------------
(* An update ends: UpdateEnds is left to the run, but the measure that makes  *)
(* it end is proved here.                                                     *)

\* The steps fota_ftp_app has still to take, at most: each of the remaining
\* requests takes three, apart from the chunks, for which the flash has room
\* only once; the first call may be followed by a second.
Room == IF Len(file) < Space THEN Space - Len(file) ELSE 0
Most == 3 * Attempts + Space

StepsLeft ==
  CASE pc = "idle"     -> 0
    [] pc = "reset"    -> 1
    [] pc = "check"    -> 2
    [] pc = "download" -> 3 * (Attempts - i) + Room + 3
    [] pc = "get"      -> 3 * (Attempts - i) + Room + 2
    [] pc = "aborted"  -> 3 * (Attempts - i) + Room + 1
    [] pc = "ready"    -> Most + 4
    [] pc = "init"     -> Most + (IF again THEN 5 ELSE 7)
    [] pc = "result"   -> Most + (IF again THEN 6 ELSE 8)

LEMMA RoomType == TypeOK => Room \in 0..Space
  BY DEF TypeOK, Room

\* One place at a time.
ByPlace ==
  /\ pc = "idle"     => StepsLeft = 0
  /\ pc = "reset"    => StepsLeft = 1
  /\ pc = "check"    => StepsLeft = 2
  /\ pc = "download" => StepsLeft = 3 * (Attempts - i) + Room + 3
  /\ pc = "get"      => StepsLeft = 3 * (Attempts - i) + Room + 2
  /\ pc = "aborted"  => StepsLeft = 3 * (Attempts - i) + Room + 1
  /\ pc = "ready"    => StepsLeft = Most + 4
  /\ pc = "init"     => StepsLeft = Most + (IF again THEN 5 ELSE 7)
  /\ pc = "result"   => StepsLeft = Most + (IF again THEN 6 ELSE 8)

LEMMA StepsAt == ByPlace
<1>1. pc = "idle" => StepsLeft = 0
  BY DEF StepsLeft
<1>2. pc = "reset" => StepsLeft = 1
  BY DEF StepsLeft
<1>3. pc = "check" => StepsLeft = 2
  BY DEF StepsLeft
<1>4. pc = "download" => StepsLeft = 3 * (Attempts - i) + Room + 3
  BY DEF StepsLeft
<1>5. pc = "get" => StepsLeft = 3 * (Attempts - i) + Room + 2
  BY DEF StepsLeft
<1>6. pc = "aborted" => StepsLeft = 3 * (Attempts - i) + Room + 1
  BY DEF StepsLeft
<1>7. pc = "ready" => StepsLeft = Most + 4
  BY DEF StepsLeft
<1>8. pc = "init" => StepsLeft = Most + (IF again THEN 5 ELSE 7)
  BY DEF StepsLeft
<1>9. pc = "result" => StepsLeft = Most + (IF again THEN 6 ELSE 8)
  BY DEF StepsLeft
<1> QED
  BY <1>1, <1>2, <1>3, <1>4, <1>5, <1>6, <1>7, <1>8, <1>9 DEF ByPlace

StepsInRange == Room \in 0..Space /\ StepsLeft \in 0..(Most + 8)

LEMMA StepsType ==
  TypeOK => StepsLeft \in 0..(Most + 8) /\ (StepsLeft = 0 <=> pc = "idle")
<1> SUFFICES ASSUME TypeOK
             PROVE  StepsLeft \in 0..(Most + 8) /\ (StepsLeft = 0 <=> pc = "idle")
  OBVIOUS
<1>1. Room \in 0..Space /\ i \in 0..Attempts
  BY RoomType DEF TypeOK
<1>2. /\ 3 * (Attempts - i) \in 0..(3 * Attempts)
      /\ Most \in Nat /\ Most = 3 * Attempts + Space
  BY <1>1 DEF Most
<1>3. CASE pc \in {"idle", "reset", "check"}
  BY <1>2, <1>3, StepsAt DEF ByPlace
<1>4. CASE pc \in {"download", "get", "aborted"}
  BY <1>1, <1>2, <1>4, StepsAt DEF ByPlace
<1>5. CASE pc \in {"ready", "init", "result"}
  BY <1>2, <1>5, StepsAt DEF ByPlace
<1> QED
  BY <1>3, <1>4, <1>5 DEF TypeOK

\* The same after a step.
LEMMA StepsNext == ByPlace' /\ (TypeOK' => StepsInRange')
<1>1. TypeOK => StepsInRange
  BY StepsType, RoomType DEF StepsInRange
<1> QED
  BY <1>1, StepsAt, PTL

LEMMA Counting ==
  ASSUME TypeOK, TypeOK', Running, [Next]_vars
  PROVE  (App => StepsLeft' < StepsLeft) /\ (StepsLeft' <= StepsLeft \/ OtaCommand)
<1> DEFINE fewer == StepsLeft' < StepsLeft
           none  == pc' = "idle" /\ pc # "idle"
<1>0. /\ Room \in 0..Space /\ i \in 0..Attempts /\ Room' \in 0..Space
      /\ i' \in 0..Attempts
      /\ 3 * (Attempts - i) \in 0..(3 * Attempts)
      /\ Most \in Nat /\ Most = 3 * Attempts + Space
  BY RoomType, StepsNext DEF TypeOK, Most, StepsInRange
<1>1. ASSUME none PROVE fewer
  <2>1. StepsLeft \in Nat /\ StepsLeft # 0
    BY <1>0, <1>1, StepsType
  <2>2. StepsLeft' = 0
    BY <1>1, StepsNext DEF ByPlace
  <2> QED
    BY <2>1, <2>2
<1>2. ASSUME UpdateFinished PROVE fewer
  <2>1. pc = "result" /\ ((pc' = "result" /\ ~again /\ again') \/ pc' = "idle")
    BY <1>2 DEF UpdateFinished, Return
  <2>2. CASE pc' = "result" /\ ~again /\ again'
    BY <1>0, <2>1, <2>2, StepsAt, StepsNext DEF ByPlace
  <2>3. CASE pc' = "idle"
    BY <1>1, <2>1, <2>3
  <2> QED
    BY <2>1, <2>2, <2>3
<1>3. ASSUME UpdateReady \/ Install PROVE fewer
  BY <1>0, <1>3, StepsAt, StepsNext DEF ByPlace, UpdateReady, Install
<1>4. ASSUME NoUpdate PROVE fewer
  <2>1. pc = "result" /\ pc' = "init" /\ again' = again
    BY <1>4 DEF NoUpdate
  <2> QED
    BY <1>0, <2>1, StepsAt, StepsNext DEF ByPlace
<1>5. ASSUME ClientInit PROVE fewer
  <2>1. /\ pc = "init"
        /\ \/ pc' = "ready" \/ pc' = "idle"
           \/ pc' = "result" /\ ~again /\ again'
    BY <1>5 DEF ClientInit, Return
  <2>2. CASE pc' = "ready" \/ (pc' = "result" /\ ~again /\ again')
    BY <1>0, <2>1, <2>2, StepsAt, StepsNext DEF ByPlace
  <2>3. CASE pc' = "idle"
    BY <1>1, <2>1, <2>3
  <2> QED
    BY <2>1, <2>2, <2>3
<1>6. ASSUME NotReady \/ NoSpace \/ Reject \/ Reset PROVE fewer
  <2>1. none
    BY <1>6 DEF NotReady, NoSpace, Reject, Reset, Boot, Return
  <2> QED
    BY <1>1, <2>1
<1>7. ASSUME Ready PROVE fewer
  <2>1. pc = "ready" /\ pc' = "download" /\ i' = 0
    BY <1>7 DEF Ready
  <2>2. StepsLeft = Most + 4 /\ StepsLeft' = 3 * Attempts + Room' + 3
    BY <2>1, StepsAt, StepsNext DEF ByPlace
  <2>3. Room' \in Nat /\ Room' <= Space /\ 3 * Attempts \in Nat /\ Space \in Nat
    BY <1>0
  <2>4. ASSUME NEW x \in Nat, NEW r \in Nat, NEW s \in Nat, r <= s
        PROVE  x + r + 3 < x + s + 4
    BY ONLY <2>4
  <2> QED
    BY <2>2, <2>3, <2>4 DEF Most
<1>8. ASSUME Request PROVE fewer
  <2>1. pc = "download" /\ pc' = "get" /\ i' = i /\ Room' = Room
    BY <1>8 DEF Request, Room
  <2> QED
    BY <1>0, <2>1, StepsAt, StepsNext DEF ByPlace
<1>9. ASSUME StopRequests PROVE fewer
  <2>1. pc = "download" /\ pc' = "check"
    BY <1>9 DEF StopRequests
  <2> QED
    BY <1>0, <2>1, StepsAt, StepsNext DEF ByPlace
<1>10. ASSUME WriteChunk PROVE fewer
  <2>1. pc = "get" /\ pc' = "get" /\ i' = i
    BY <1>10 DEF WriteChunk
  <2>2. Len(file) \in Nat /\ Len(file') = Len(file) + 1 /\ Len(file) < Space
    BY <1>10 DEF WriteChunk, TypeOK
  <2>3. Room' = Room - 1
    BY <2>2 DEF Room
  <2>4. /\ StepsLeft  = 3 * (Attempts - i) + Room + 2
        /\ StepsLeft' = 3 * (Attempts - i) + Room' + 2
    BY <2>1, StepsAt, StepsNext DEF ByPlace
  <2> QED
    BY <1>0, <2>3, <2>4
<1>11. ASSUME WriteFails PROVE fewer
  <2>1. pc = "get" /\ pc' = "aborted" /\ i' = i
    BY <1>11 DEF WriteFails
  <2>2. Len(file) \in Nat /\ Len(file') \in {Len(file), Len(file) + 1}
    BY <1>11 DEF WriteFails, TypeOK
  <2>3. Room' <= Room
    BY <2>2 DEF Room
  <2>4. /\ StepsLeft  = 3 * (Attempts - i) + Room + 2
        /\ StepsLeft' = 3 * (Attempts - i) + Room' + 1
    BY <2>1, StepsAt, StepsNext DEF ByPlace
  <2>5. ASSUME NEW x \in Nat, NEW r \in Nat, NEW s \in Nat, r <= s
        PROVE  x + r + 1 < x + s + 2
    BY ONLY <2>5
  <2>6. Room' \in Nat /\ Room \in Nat /\ 3 * (Attempts - i) \in Nat
    BY <1>0
  <2> QED
    BY <2>3, <2>4, <2>5, <2>6
<1>12. ASSUME GetReturns PROVE fewer
  <2>1. pc \in {"get", "aborted"} /\ pc' = "download" /\ i' = i + 1 /\ Room' = Room
    BY <1>12 DEF GetReturns, Tried, Room
  <2>2. i < Attempts
    BY <2>1 DEF Running, MoreRequests
  <2> QED
    BY <1>0, <2>1, <2>2, StepsAt, StepsNext DEF ByPlace
<1>13. App => fewer
  BY <1>2, <1>3, <1>4, <1>5, <1>6, <1>7, <1>8, <1>9, <1>10, <1>11, <1>12
     DEF App, Result, Connect, Fetch, Check
<1>14. StepsLeft \in Nat /\ StepsLeft' \in Nat
  BY <1>0, StepsType, StepsNext DEF StepsInRange
<1>15. CASE PowerCut
  <2>1. StepsLeft' = 0
    BY <1>15, StepsNext DEF ByPlace, PowerCut, Boot
  <2> QED
    BY <1>13, <1>14, <2>1
<1>16. CASE Replace \/ UNCHANGED vars
  <2>1. UNCHANGED <<pc, again, i>> /\ Room' = Room
    BY <1>16 DEF Replace, vars, ram, Room
  <2>2. StepsLeft' = StepsLeft
    BY <2>1 DEF StepsLeft, Most
  <2> QED
    BY <1>13, <1>14, <2>2
<1> QED
  BY <1>13, <1>14, <1>15, <1>16 DEF Next

\* fota_ftp_app always gets nearer to its end: whatever the FTP server, the
\* network, the flash and a newer package do, each of its steps leaves fewer to
\* take, and only an OTA command gives it new ones, 3 * Attempts + Space + 8.
THEOREM UpdateAdvances ==
  Spec => /\ [](StepsLeft \in 0..(Most + 8) /\ (StepsLeft = 0 <=> pc = "idle"))
          /\ [][(App => StepsLeft' < StepsLeft) /\ (StepsLeft' <= StepsLeft \/ OtaCommand)]_vars
<1>1. Running /\ TypeOK /\ TypeOK' /\ [Next]_vars =>
        [(App => StepsLeft' < StepsLeft) /\ (StepsLeft' <= StepsLeft \/ OtaCommand)]_vars
  BY Counting
<1> QED
  BY <1>1, TypeInvariant, StepsType, PTL DEF Spec
=============================================================================
