-------------------------- MODULE PowerAudioProofs --------------------------
(***************************************************************************)
(* What AudioRing and PowerSave promise.                                   *)
(*                                                                         *)
(* AudioRing, for every set of sample rates and every order of headers,    *)
(* turns and sessions.  The buffer is safe although nothing in the code    *)
(* compares a position with its end: the positions are multiples of the    *)
(* frame size, five chunks fill the ring exactly, and one turn with a      *)
(* mixture of old and new sizes does not reach past the end.               *)
(*                                                                         *)
(* PowerSave, for every limit and set of timeouts.  No lock protects the   *)
(* mode.  What does is time: a frame that found the mode on ends it within *)
(* the idle thread's second, so the idle thread has at most one turn       *)
(* meanwhile, and a menu that ended the mode first has also set the        *)
(* counter to 0, at least two seconds from the timeout.                    *)
(***************************************************************************)
EXTENDS AudioRing, PowerSave, TLAPS

-----------------------------------------------------------------------------
(* The audio buffer *)

Playing == {"enter", "wait", "read", "store", "check"}
FrameSizes == {0, 4480, 5376}

\* p is one of the first n + 1 frame boundaries of a ring of b bytes.
Boundary(p, n, b) == \E k \in 0 .. n : 10 * p = k * b

Control ==
  /\ run <=> cpc \in Playing \cup {"resize"}
  /\ player = "none" => cpc \in {"menu", "term", "left"}
  /\ cpc = "menu" => player = "none"
  /\ overtaken => cpc = "resize"

Sizes ==
  /\ frameSize \in FrameSizes
  /\ cpc # "resize" => bufferSize = 10 * frameSize
  /\ cpc \in Playing => reserved = chunk
  /\ cpc = "resize" => bufferSize = 0 \/ bufferSize = 20 * reserved

Writing ==
  /\ cpc \in {"enter", "wait", "check"} => Boundary(writePos, 10, bufferSize)
  /\ cpc = "read" => Boundary(writePos, 9, bufferSize) /\ Boundary(target, 9, bufferSize)
  /\ cpc = "store" => Boundary(sum, 10, bufferSize)

\* A chunk is two frames, so the thread is at an even boundary.
Even(p, b) == \E k \in 0 .. 4 : 5 * p = k * b

Reading ==
  /\ cpc \in Playing \cup {"resize"} /\ ~overtaken => Even(playPos, bufferSize)
  /\ ReadInBuffer

IInv == TypeOK /\ Control /\ Sizes /\ Writing /\ Reading

-----------------------------------------------------------------------------
(* Arithmetic of the ring.                                                  *)

RingSizes == {0, 44800, 53760}

\* Ring sizes follow the frame sizes: ten frames each.
LEMMA RingOfFrames ==
  ASSUME NEW f \in FrameSizes
  PROVE 10 * f \in RingSizes
BY DEF FrameSizes, RingSizes

\* The middle, where audioResetPlaybackBuffer puts the writer, is a boundary.
LEMMA HalfIsBoundary ==
  ASSUME NEW b \in RingSizes
  PROVE Half(b) \in Nat /\ Boundary(Half(b), 9, b) /\ Boundary(Half(b), 10, b)
<1>1. Half(b) \in Nat /\ 10 * Half(b) = 5 * b
  BY DEF RingSizes, Half
<1>2. 5 \in 0 .. 9 /\ 5 \in 0 .. 10
  OBVIOUS
<1> QED BY <1>1, <1>2 DEF Boundary

\* The start of the ring is a boundary, odd or even.
LEMMA ZeroIsBoundary ==
  ASSUME NEW b \in RingSizes
  PROVE Boundary(0, 9, b) /\ Boundary(0, 10, b) /\ Even(0, b)
<1>1. 10 * 0 = 0 * b /\ 5 * 0 = 0 * b /\ 0 \in 0 .. 9 /\ 0 \in 0 .. 10 /\ 0 \in 0 .. 4
  BY DEF RingSizes
<1> QED BY <1>1 DEF Boundary, Even

\* One frame after a boundary before the last is a boundary: the copy of a
\* frame advances the writer by one frame.
LEMMA NextBoundary ==
  ASSUME NEW f \in FrameSizes, NEW p \in Nat, Boundary(p, 9, 10 * f)
  PROVE p + f \in Nat /\ Boundary(p + f, 10, 10 * f)
<1>1. PICK k \in 0 .. 9 : 10 * p = k * (10 * f)
  BY DEF Boundary
<1>2. k + 1 \in 0 .. 10 /\ 10 * (p + f) = (k + 1) * (10 * f)
  <2>1. CASE f = 0
    BY <1>1, <2>1
  <2>2. CASE f = 4480
    BY <1>1, <2>2
  <2>3. CASE f = 5376
    BY <1>1, <2>3
  <2> QED BY <2>1, <2>2, <2>3 DEF FrameSizes
<1>3. p + f \in Nat
  BY DEF FrameSizes
<1> QED BY <1>2, <1>3 DEF Boundary

\* A boundary that is wrapped leaves room for one frame.
LEMMA WrapKeepsBoundary ==
  ASSUME bufferSize \in RingSizes, NEW p \in Nat, Boundary(p, 10, bufferSize)
  PROVE Wrapped(p) \in Nat /\ Boundary(Wrapped(p), 9, bufferSize)
<1>1. CASE p >= bufferSize
  <2>1. Wrapped(p) = 0
    BY <1>1 DEF Wrapped
  <2> QED BY <2>1, ZeroIsBoundary
<1>2. CASE ~(p >= bufferSize)
  <2>1. Wrapped(p) = p
    BY <1>2 DEF Wrapped
  <2>2. PICK k \in 0 .. 10 : 10 * p = k * bufferSize
    BY DEF Boundary
  <2>3. k \in 0 .. 9
    <3>1. CASE bufferSize = 0
      BY <1>2, <3>1
    <3>2. CASE bufferSize = 44800
      BY <1>2, <2>2, <3>2
    <3>3. CASE bufferSize = 53760
      BY <1>2, <2>2, <3>3
    <3> QED BY <3>1, <3>2, <3>3 DEF RingSizes
  <2> QED BY <2>1, <2>2, <2>3 DEF Boundary
<1> QED BY <1>1, <1>2

\* A frame of either length fits behind the last boundary but one.
LEMMA FrameFits ==
  ASSUME NEW b \in RingSizes, NEW p \in Nat, Boundary(p, 9, b), NEW mask
  PROVE p + AudioFrameSize(mask) <= BufferBytes
<1>1. PICK k \in 0 .. 9 : 10 * p = k * b
  BY DEF Boundary
<1>2. p <= 48384
  <2>1. CASE b = 0
    BY <1>1, <2>1
  <2>2. CASE b = 44800
    BY <1>1, <2>2
  <2>3. CASE b = 53760
    BY <1>1, <2>3
  <2> QED BY <2>1, <2>2, <2>3 DEF RingSizes
<1>3. AudioFrameSize(mask) = 4480 \/ AudioFrameSize(mask) = 5376
  BY DEF AudioFrameSize
<1> QED BY <1>2, <1>3 DEF BufferBytes

\* A turn with settled sizes: wherever it starts, the thread ends on an even
\* boundary with a chunk left behind it.
LEMMA TurnKeepsEven ==
  ASSUME frameSize \in FrameSizes, bufferSize = 10 * frameSize,
         NEW p \in Nat, Even(p, bufferSize)
  PROVE /\ PlayFrom(p) \in Nat /\ Even(PlayFrom(p), bufferSize)
        /\ PlayFrom(p + frameSize * 2) \in Nat
        /\ Even(PlayFrom(p + frameSize * 2), bufferSize)
        /\ PlayFrom(p) <= 43008 /\ PlayFrom(p + frameSize * 2) <= 43008
<1> DEFINE q == p + frameSize * 2
<1>0. bufferSize \in RingSizes /\ frameSize \in Nat /\ q \in Nat
  BY RingOfFrames DEF FrameSizes
<1>1. PICK k \in 0 .. 4 : 5 * p = k * bufferSize
  BY DEF Even
<1>2. 5 * q = (k + 1) * bufferSize
  <2>1. CASE frameSize = 0
    BY <1>1, <2>1
  <2>2. CASE frameSize = 4480
    BY <1>1, <2>2
  <2>3. CASE frameSize = 5376
    BY <1>1, <2>3
  <2> QED BY <2>1, <2>2, <2>3 DEF FrameSizes
<1>3. ASSUME NEW j \in 0 .. 5, NEW x \in Nat, 5 * x = j * bufferSize
      PROVE PlayFrom(x) \in Nat /\ Even(PlayFrom(x), bufferSize) /\ PlayFrom(x) <= 43008
  <2>1. CASE x + frameSize * 2 > bufferSize
    <3>1. PlayFrom(x) = 0
      BY <2>1 DEF PlayFrom
    <3> QED BY <1>0, <3>1, ZeroIsBoundary
  <2>2. CASE ~(x + frameSize * 2 > bufferSize)
    <3>1. PlayFrom(x) = x
      BY <2>2 DEF PlayFrom
    <3>2. x <= 43008 /\ \E i \in 0 .. 4 : 5 * x = i * bufferSize
      <4>1. CASE frameSize = 0
        BY <1>3, <4>1, 5 * x = 0 * bufferSize
      <4>2. CASE frameSize = 4480
        BY <1>3, <2>2, <4>2, j \in 0 .. 4
      <4>3. CASE frameSize = 5376
        BY <1>3, <2>2, <4>3, j \in 0 .. 4
      <4> QED BY <4>1, <4>2, <4>3 DEF FrameSizes
    <3> QED BY <3>1, <3>2 DEF Even
  <2> QED BY <2>1, <2>2
<1>4. PlayFrom(p) \in Nat /\ Even(PlayFrom(p), bufferSize) /\ PlayFrom(p) <= 43008
  BY <1>1, <1>3
<1>5. PlayFrom(q) \in Nat /\ Even(PlayFrom(q), bufferSize) /\ PlayFrom(q) <= 43008
  <2>1. k + 1 \in 0 .. 5
    OBVIOUS
  <2> HIDE DEF q
  <2> QED BY <1>0, <1>2, <1>3, <2>1
<1> QED BY <1>4, <1>5

\* The one turn with a new frame size in an old ring: the old channel still
\* reads no further than the end of the buffer.
LEMMA MixedTurnFits ==
  ASSUME frameSize \in FrameSizes, bufferSize \in Nat, NEW r \in ChunkSizes,
         bufferSize = 0 \/ bufferSize = 20 * r, NEW p \in Nat, Even(p, bufferSize)
  PROVE /\ PlayFrom(p) \in Nat /\ PlayFrom(p) + 4 * r <= BufferBytes
        /\ PlayFrom(p + frameSize * 2) \in Nat
        /\ PlayFrom(p + frameSize * 2) + 4 * r <= BufferBytes
<1>1. PICK k \in 0 .. 4 : 5 * p = k * bufferSize
  BY DEF Even
<1>2. frameSize \in Nat /\ (r = 2240 \/ r = 2688)
  BY DEF FrameSizes, ChunkSizes
<1>3. p <= 4 * (4 * r)
  <2>1. CASE bufferSize = 0
    BY <1>1, <1>2, <2>1
  <2>2. CASE bufferSize = 20 * r
    BY <1>1, <1>2, <2>2
  <2> QED BY <2>1, <2>2
<1>4. PlayFrom(p) \in Nat /\ PlayFrom(p) + 4 * r <= BufferBytes
  <2>1. PlayFrom(p) = p \/ PlayFrom(p) = 0
    BY DEF PlayFrom
  <2> QED BY <1>2, <1>3, <2>1 DEF BufferBytes
<1>5. PlayFrom(p + frameSize * 2) \in Nat
      /\ PlayFrom(p + frameSize * 2) + 4 * r <= BufferBytes
  <2> DEFINE q == p + frameSize * 2
  <2>1. CASE q + frameSize * 2 > bufferSize
    <3>1. PlayFrom(q) = 0
      BY <2>1 DEF PlayFrom
    <3> QED BY <1>2, <3>1 DEF BufferBytes
  <2>2. CASE ~(q + frameSize * 2 > bufferSize)
    <3>1. PlayFrom(q) = q
      BY <2>2 DEF PlayFrom
    <3>2. CASE frameSize = 0
      BY <1>2, <1>3, <3>1, <3>2 DEF BufferBytes
    <3>3. CASE frameSize = 4480 \/ frameSize = 5376
      <4>1. q + 8960 <= bufferSize
        BY <1>2, <2>2, <3>3
      <4>2. q + 8960 <= 20 * r
        BY <1>2, <2>2, <3>3
      <4>3. CASE r = 2240
        BY <3>1, <4>2, <4>3, <1>2 DEF BufferBytes
      <4>4. CASE r = 2688
        <5>1. CASE bufferSize = 0
          BY <1>2, <4>1, <5>1
        <5>2. CASE bufferSize = 53760 /\ k \in 0 .. 3
          BY <1>1, <1>2, <3>1, <3>3, <4>4, <5>2 DEF BufferBytes
        <5>3. CASE bufferSize = 53760 /\ k = 4
          BY <1>1, <2>2, <3>3, <5>3
        <5> QED BY <4>4, <5>1, <5>2, <5>3
      <4> QED BY <1>2, <4>3, <4>4
    <3> QED BY <3>2, <3>3 DEF FrameSizes
  <2> QED BY <2>1, <2>2
<1> QED BY <1>4, <1>5

-----------------------------------------------------------------------------
(* The invariant.                                                           *)

\* A header's mask names a chunk size or none, so a change of sizes is always
\* to one the ring was made for.
LEMMA MaskTypes ==
  NoMask \in Masks /\ \A mask \in Masks : mask.chunk \in ChunkSizes \cup {0}
BY RatesAssumption DEF Masks, NoMask

\* The program starts with the invariant: no session, and sizes still zero.
LEMMA Starts == Init => IInv
<1> SUFFICES ASSUME Init PROVE IInv
  OBVIOUS
<1>1. TypeOK
  <2>1. NoHeader \in [mask : Masks, audio : BOOLEAN]
    BY MaskTypes DEF NoHeader
  <2>2. 0 \in Nat /\ bufferSize = 10 * frameSize /\ 2240 \in ChunkSizes
    BY DEF Init, ChunkSizes
  <2>3. header \in [mask : Masks, audio : BOOLEAN] /\ lastMask \in Masks
    BY <2>1, MaskTypes DEF Init
  <2>4. run \in BOOLEAN /\ overtaken \in BOOLEAN /\ lastAudio \in BOOLEAN
    BY DEF Init
  <2> QED BY <2>2, <2>3, <2>4 DEF Init, TypeOK
<1>2. Control
  BY DEF Init, Control, Playing
<1>3. Sizes
  BY DEF Init, Sizes, FrameSizes, Playing
<1>4. Writing
  BY DEF Init, Writing
<1>5. Reading
  BY DEF Init, Reading, ReadInBuffer, Playing
<1> QED BY <1>1, <1>2, <1>3, <1>4, <1>5 DEF IInv

\* A turn by cases of where the frame loop stands: at most one mixes sizes.
LEMMA TurnStep ==
  ASSUME IInv, NEW last \in Nat, NEW p \in Nat, NEW q \in {p, p + frameSize * 2},
         player # "none", cpc \in Playing \cup {"resize"} /\ ~overtaken => Even(p, bufferSize),
         Turn(last, q), UNCHANGED <<cpc, run, comVars, sizeVars>>
  PROVE IInv'
<1> USE DEF comVars, sizeVars
<1>1. cpc \in Playing \cup {"resize"} /\ run /\ ~overtaken
  BY DEF IInv, Control, Turn
<1>2. bufferSize \in RingSizes /\ bufferSize \in Nat
  BY <1>1, RingOfFrames DEF IInv, Sizes, TypeOK, ChunkSizes, RingSizes, Playing, Control
<1>3. Even(p, bufferSize) /\ Even(0, bufferSize) /\ q \in Nat
  BY <1>1, <1>2, ZeroIsBoundary DEF IInv, Sizes, FrameSizes
<1>4. /\ playPos' = PlayFrom(q) \/ playPos' = PlayFrom(0)
      /\ writePos' = writePos \/ writePos' = Half(bufferSize)
      /\ lastPos' = last /\ player' = "output" /\ overtaken' = (cpc = "resize")
  BY DEF Turn
<1>5. Half(bufferSize) \in Nat /\ Boundary(Half(bufferSize), 9, bufferSize)
      /\ Boundary(Half(bufferSize), 10, bufferSize)
  BY <1>2, HalfIsBoundary
<1>6. CASE cpc \in Playing
  <2>1. frameSize \in FrameSizes /\ bufferSize = 10 * frameSize
    BY <1>6 DEF IInv, Sizes, Playing
  <2>2. playPos' \in Nat /\ Even(playPos', bufferSize) /\ playPos' <= 43008
    <3>1. /\ PlayFrom(p) \in Nat /\ Even(PlayFrom(p), bufferSize)
          /\ PlayFrom(p + frameSize * 2) \in Nat
          /\ Even(PlayFrom(p + frameSize * 2), bufferSize)
          /\ PlayFrom(p) <= 43008 /\ PlayFrom(p + frameSize * 2) <= 43008
      BY <1>3, <2>1, TurnKeepsEven
    <3>2. PlayFrom(0) \in Nat /\ Even(PlayFrom(0), bufferSize) /\ PlayFrom(0) <= 43008
      BY <1>3, <2>1, 0 \in Nat, TurnKeepsEven
    <3>3. playPos' \in {PlayFrom(p), PlayFrom(p + frameSize * 2), PlayFrom(0)}
      BY <1>4
    <3> QED BY <3>1, <3>2, <3>3
  <2>3. playPos' + 4 * reserved <= BufferBytes
    <3>1. reserved = 2240 \/ reserved = 2688
      BY DEF IInv, TypeOK, ChunkSizes
    <3>2. playPos' \in Nat /\ playPos' <= 43008
      BY <2>2
    <3> QED BY <3>1, <3>2 DEF BufferBytes
  <2> QED BY <1>1, <1>4, <1>5, <1>6, <2>2, <2>3
         DEF IInv, TypeOK, Control, Sizes, Writing, Reading, ReadInBuffer, Playing
<1>7. CASE cpc = "resize"
  <2>1. frameSize \in FrameSizes /\ reserved \in ChunkSizes
        /\ (bufferSize = 0 \/ bufferSize = 20 * reserved)
    BY <1>7 DEF IInv, Sizes, TypeOK
  <2>2. playPos' \in Nat /\ playPos' + 4 * reserved <= BufferBytes
    BY <1>2, <1>3, <1>4, <2>1, MixedTurnFits
  <2> QED BY <1>1, <1>4, <1>5, <1>7, <2>2
         DEF IInv, TypeOK, Control, Sizes, Writing, Reading, ReadInBuffer, Playing
<1> QED BY <1>1, <1>6, <1>7

\* Every step of either thread keeps the invariant.
LEMMA Keeps == IInv /\ [Next]_vars => IInv'
<1> SUFFICES ASSUME IInv, [Next]_vars PROVE IInv'
  OBVIOUS
<1> USE DEF comVars, sizeVars, posVars
<1>0. TypeOK /\ Control /\ Sizes /\ Writing /\ Reading
  BY DEF IInv
<1>1. CASE StartSession
  <2>1. bufferSize \in RingSizes /\ bufferSize = 10 * frameSize /\ frameSize \in FrameSizes
    BY <1>0, <1>1, RingOfFrames DEF StartSession, Sizes
  <2>2. writePos' \in Nat /\ Boundary(writePos', 10, bufferSize)
        /\ playPos' = 0 /\ Even(playPos', bufferSize)
    BY <1>1, <2>1, HalfIsBoundary, ZeroIsBoundary DEF StartSession, Reset
  <2>3. TypeOK'
    BY <1>0, <1>1, <2>2 DEF StartSession, TypeOK
  <2>4. Control' /\ Sizes'
    BY <1>0, <1>1 DEF StartSession, Control, Sizes, Playing
  <2>5. Writing' /\ Reading'
    BY <1>0, <1>1, <2>2 DEF StartSession, Writing, Reading, ReadInBuffer, Playing
  <2> QED BY <2>3, <2>4, <2>5 DEF IInv
<1>2. CASE EnterLoop
  <2>1. bufferSize \in RingSizes
    BY <1>0, <1>2, RingOfFrames DEF EnterLoop, Sizes
  <2>2. Boundary(0, 10, bufferSize)
    BY <2>1, ZeroIsBoundary
  <2>3. TypeOK'
    BY <1>0, <1>2 DEF EnterLoop, TypeOK
  <2>4. Control' /\ Sizes'
    BY <1>0, <1>2 DEF EnterLoop, Control, Sizes, Playing
  <2>5. Writing' /\ Reading'
    BY <1>0, <1>2, <2>2 DEF EnterLoop, Writing, Reading, ReadInBuffer, Playing
  <2> QED BY <2>3, <2>4, <2>5 DEF IInv
<1>3. CASE Header
  <2>1. bufferSize \in RingSizes /\ writePos \in Nat /\ Boundary(writePos, 10, bufferSize)
    BY <1>0, <1>3, RingOfFrames DEF Header, Sizes, Writing, TypeOK
  <2>2. Wrapped(writePos) \in Nat /\ Boundary(Wrapped(writePos), 9, bufferSize)
    BY <2>1, WrapKeepsBoundary
  <2>3. TypeOK'
    BY <1>0, <1>3, <2>2 DEF Header, TypeOK
  <2>4. Control' /\ Sizes'
    BY <1>0, <1>3 DEF Header, Control, Sizes, Playing
  <2>5. Writing' /\ Reading'
    BY <1>0, <1>3, <2>2 DEF Header, Writing, Reading, ReadInBuffer, Playing
  <2> QED BY <2>3, <2>4, <2>5 DEF IInv
<1>4. CASE Read
  <2>1. frameSize \in FrameSizes /\ bufferSize = 10 * frameSize
        /\ writePos \in Nat /\ Boundary(writePos, 9, bufferSize)
    BY <1>0, <1>4 DEF Read, Sizes, Writing, TypeOK
  <2>2. sum' \in Nat /\ Boundary(sum', 10, bufferSize)
    BY <1>4, <2>1, NextBoundary DEF Read
  <2>3. TypeOK'
    BY <1>0, <1>4, <2>2 DEF Read, TypeOK
  <2>4. Control' /\ Sizes'
    BY <1>0, <1>4 DEF Read, Control, Sizes, Playing
  <2>5. Writing' /\ Reading'
    BY <1>0, <1>4, <2>2 DEF Read, Writing, Reading, ReadInBuffer, Playing
  <2> QED BY <2>3, <2>4, <2>5 DEF IInv
<1>5. CASE Store
  <2>3. TypeOK'
    BY <1>0, <1>5 DEF Store, TypeOK
  <2>4. Control' /\ Sizes'
    BY <1>0, <1>5 DEF Store, Control, Sizes, Playing
  <2>5. Writing' /\ Reading'
    BY <1>0, <1>5 DEF Store, Writing, Reading, ReadInBuffer, Playing
  <2> QED BY <2>3, <2>4, <2>5 DEF IInv
<1>6. CASE Check
  <2>1. bufferSize \in RingSizes /\ bufferSize = 10 * frameSize /\ frameSize \in FrameSizes
        /\ reserved = chunk /\ reserved \in ChunkSizes
    BY <1>0, <1>6, RingOfFrames DEF Check, Sizes, Playing, TypeOK
  <2>2. /\ writePos' \in Nat /\ Boundary(writePos', 10, bufferSize)
        /\ playPos' \in Nat
        /\ playPos' = playPos \/ playPos' = 0
    <3>1. /\ writePos' = writePos \/ writePos' = Half(bufferSize)
          /\ playPos' = playPos \/ playPos' = 0
      BY <1>6 DEF Check, Reset
    <3> QED BY <1>0, <1>6, <2>1, <3>1, HalfIsBoundary DEF Check, Writing, TypeOK
  <2>3. /\ Even(playPos', bufferSize)
        /\ player = "output" => playPos' + 4 * reserved <= BufferBytes
    <3>1. Even(playPos, bufferSize) /\ Even(0, bufferSize)
      BY <1>0, <1>6, <2>1, ZeroIsBoundary DEF Check, Reading, Playing, Control
    <3>2. 0 + 4 * reserved <= BufferBytes
      BY <2>1 DEF ChunkSizes, BufferBytes
    <3> QED BY <1>0, <2>2, <3>1, <3>2 DEF Reading, ReadInBuffer
  <2>4. header.mask.chunk \in ChunkSizes \cup {0} /\ header.audio \in BOOLEAN
    BY <1>0, MaskTypes DEF TypeOK
  <2>5. CASE header.mask # lastMask
    <3>1. chunk' \in ChunkSizes /\ frameSize' = 2 * chunk' /\ cpc' = "resize"
      <4>1. /\ chunk' = IF header.mask.chunk = 0 THEN chunk ELSE header.mask.chunk
            /\ frameSize' = FrameOf(chunk') /\ cpc' = "resize"
        BY <1>6, <2>5 DEF Check
      <4>2. chunk' \in ChunkSizes
        BY <1>0, <2>4, <4>1 DEF TypeOK
      <4> QED BY <4>1, <4>2 DEF FrameOf
    <3>2. bufferSize = 0 \/ bufferSize = 20 * reserved
      BY <1>0, <2>1 DEF TypeOK, ChunkSizes
    <3>3. TypeOK'
      BY <1>0, <1>6, <2>2, <2>4, <3>1 DEF Check, TypeOK
    <3>4. Control'
      BY <1>0, <1>6, <3>1 DEF Check, Control, Playing
    <3>5. Sizes'
      <4>1. frameSize' \in FrameSizes
        <5>1. chunk' = 2240 \/ chunk' = 2688
          BY <3>1 DEF ChunkSizes
        <5> QED BY <3>1, <5>1 DEF FrameSizes
      <4>2. bufferSize' = bufferSize /\ reserved' = reserved
        BY <1>6 DEF Check
      <4> QED BY <3>1, <3>2, <4>1, <4>2 DEF Sizes, Playing
    <3>6. Writing' /\ Reading'
      BY <1>6, <2>3, <3>1 DEF Check, Writing, Reading, ReadInBuffer, Playing
    <3> QED BY <3>3, <3>4, <3>5, <3>6 DEF IInv
  <2>6. CASE header.mask = lastMask
    <3>1. cpc' = "wait" /\ UNCHANGED <<chunk, frameSize>>
      BY <1>6, <2>6 DEF Check
    <3>2. TypeOK'
      BY <1>0, <1>6, <2>2, <2>4, <3>1 DEF Check, TypeOK
    <3>3. Control' /\ Sizes'
      BY <1>0, <1>6, <2>1, <3>1 DEF Check, Control, Sizes, Playing
    <3>4. Writing' /\ Reading'
      BY <1>6, <2>2, <2>3, <3>1 DEF Check, Writing, Reading, ReadInBuffer, Playing
    <3> QED BY <3>2, <3>3, <3>4 DEF IInv
  <2> QED BY <2>5, <2>6
<1>7. CASE Resize
  <2>1. TypeOK'
    BY <1>0, <1>7 DEF Resize, TypeOK
  <2>2. Control' /\ Sizes' /\ Writing' /\ Reading'
    BY <1>0, <1>7
    DEF Resize, Control, Sizes, Writing, Reading, ReadInBuffer, Playing
  <2> QED BY <2>1, <2>2 DEF IInv
<1>8. CASE Restart
  <2>1. bufferSize \in RingSizes /\ bufferSize = 10 * frameSize /\ frameSize \in FrameSizes
    BY <1>0, <1>8, RingOfFrames DEF Restart, Sizes
  <2>2. writePos' \in Nat /\ Boundary(writePos', 10, bufferSize)
        /\ playPos' = 0 /\ Even(playPos', bufferSize)
    BY <1>8, <2>1, HalfIsBoundary, ZeroIsBoundary DEF Restart, Reset
  <2>3. TypeOK'
    BY <1>0, <1>8, <2>2 DEF Restart, TypeOK
  <2>4. Control' /\ Sizes'
    BY <1>0, <1>8 DEF Restart, Control, Sizes, Playing
  <2>5. Writing' /\ Reading'
    BY <1>0, <1>8, <2>2 DEF Restart, Writing, Reading, ReadInBuffer, Playing
  <2> QED BY <2>3, <2>4, <2>5 DEF IInv
<1>9. CASE Leave
  <2>1. TypeOK'
    BY <1>0, <1>9 DEF Leave, TypeOK
  <2>2. Control' /\ Sizes' /\ Writing' /\ Reading'
    BY <1>0, <1>9 DEF Leave, Control, Sizes, Writing, Reading, ReadInBuffer, Playing
  <2> QED BY <2>1, <2>2 DEF IInv
<1>10. CASE EndSession
  <2>1. TypeOK'
    BY <1>0, <1>10 DEF EndSession, TypeOK
  <2>2. Control' /\ Sizes' /\ Writing' /\ Reading'
    BY <1>0, <1>10
    DEF EndSession, Control, Sizes, Writing, Reading, ReadInBuffer, Playing
  <2> QED BY <2>1, <2>2 DEF IInv
<1>11. CASE PlayerStarts
  BY <1>0, <1>11, TurnStep, 0 \in Nat DEF PlayerStarts, TypeOK, Reading
<1>12. CASE PlayerGoesOn
  BY <1>0, <1>12, TurnStep DEF PlayerGoesOn, TypeOK, Reading
<1>13. CASE PlayerEnds
  <2>1. frameSize * 2 \in Nat /\ cpc \in {"menu", "term", "left"}
    BY <1>0, <1>13 DEF PlayerEnds, Sizes, FrameSizes, Control, TypeOK, Playing
  <2>2. TypeOK'
    BY <1>0, <1>13, <2>1 DEF PlayerEnds, TypeOK
  <2>3. Control' /\ Sizes' /\ Writing' /\ Reading'
    BY <1>0, <1>13, <2>1
    DEF PlayerEnds, Control, Sizes, Writing, Reading, ReadInBuffer, Playing
  <2> QED BY <2>2, <2>3 DEF IInv
<1>14. CASE UNCHANGED vars
  BY <1>0, <1>14
  DEF vars, IInv, TypeOK, Control, Sizes, Writing, Reading, ReadInBuffer
<1> QED
  BY <1>1, <1>2, <1>3, <1>4, <1>5, <1>6, <1>7, <1>8, <1>9, <1>10, <1>11, <1>12,
     <1>13, <1>14 DEF Next, Player, Com

-----------------------------------------------------------------------------
(* The theorems.                                                            *)

\* The invariant holds in every reachable state.
LEMMA Invariant == Spec => []IInv
<1> QED BY Starts, Keeps, PTL DEF Spec

\* Types, and sizes that belong together outside the change of sizes.
THEOREM TypeCorrect == Spec => []TypeOK
<1>1. IInv => TypeOK
  BY DEF IInv
<1> QED BY <1>1, Invariant, PTL

\* The copy of a frame's audio stays inside the receive buffer, whatever the
\* playback thread did to the position between header and copy.
THEOREM WritesInBuffer == Spec => []WriteInBuffer
<1>1. IInv => WriteInBuffer
  <2> SUFFICES ASSUME IInv, cpc = "read"
               PROVE target + AudioFrameSize(header.mask) <= BufferBytes
    BY DEF WriteInBuffer
  <2>1. bufferSize \in RingSizes /\ target \in Nat /\ Boundary(target, 9, bufferSize)
    BY RingOfFrames DEF IInv, Sizes, Writing, TypeOK
  <2> QED BY <2>1, FrameFits
<1> QED BY <1>1, Invariant, PTL

\* What the audio channel plays stays inside the receive buffer, also in the
\* turn that sees the frame size of the next chunk with the ring of the last.
THEOREM ReadsInBuffer == Spec => []ReadInBuffer
<1>1. IInv => ReadInBuffer
  BY DEF IInv, Reading
<1> QED BY <1>1, Invariant, PTL

\* One playback thread in every session, none outside.
THEOREM OnePlayer == Spec => []PlayerInSession
<1>1. IInv => PlayerInSession
  BY DEF IInv, Control, PlayerInSession, Playing
<1> QED BY <1>1, Invariant, PTL

-----------------------------------------------------------------------------
(* Power saving *)

\* A frame is in the middle of ending the mode.
Ending == main \in {"tested", "audio", "lit"}

\* The mode cannot begin under such a frame.
EndedOnce ==
  Ending => idle # "term" /\ (~saving /\ ~cutIn => counter = 0)

\* What the mode starts from and goes back to is always a lit screen.
Lit == previous = "on" /\ (idle = "term" => ~saving) /\ (main = "lit" => screen = "on")

PowerInv ==
  /\ timeout \in Timeouts
  /\ screen = "dark" => saving
  /\ screen \in {"on", "dark"}
  /\ Lit
  /\ EndedOnce

-----------------------------------------------------------------------------
\* The idle thread starts the mode under no frame that is ending it
\* (powerEnablePowerSaveMode against comLoop's call of it).
LEMMA EnableAlone ==
  ASSUME PowerInv, Enable, Ending
  PROVE  FALSE
<1>1. ~saving /\ ~cutIn /\ Count = timeout
  BY DEF Enable, IdleTurn
<1>2. counter = 0
  BY <1>1 DEF PowerInv, EndedOnce
<1>3. Count = 0
  BY <1>2 DEF Count
<1>4. timeout \in 2 .. Limit - 1 /\ Limit \in Nat
  BY PowerAssumption DEF PowerInv
<1> QED
  BY <1>1, <1>3, <1>4

\* Every step of the three threads keeps the invariant.
LEMMA PowerKeeps ==
  ASSUME PowerInv, [PowerNext]_powerVars
  PROVE  PowerInv'
<1> USE DEF PowerInv, Lit, EndedOnce, Ending, lightVars, settingVars, userVars
<1>1. CASE EnterSession
  BY <1>1 DEF EnterSession
<1>2. CASE Frame
  BY <1>2 DEF Frame
<1>3. CASE AudioOn
  BY <1>3 DEF AudioOn
<1>4. CASE ScreenOn
  BY <1>4 DEF ScreenOn
<1>5. CASE SavingOver
  BY <1>5 DEF SavingOver
<1>6. CASE ResetCounter
  BY <1>6 DEF ResetCounter
<1>7. CASE LeaveSession
  BY <1>7 DEF LeaveSession
<1>8. CASE IdleEnds
  BY <1>8 DEF IdleEnds
<1>9. CASE Tick
  BY <1>9 DEF Tick, IdleTurn
<1>10. CASE Enable
  BY <1>10, EnableAlone DEF Enable, IdleTurn
<1>11. CASE Enabled
  BY <1>11 DEF Enabled
<1>12. CASE KeySeen
  BY <1>12 DEF KeySeen, IdleTurn, Disable
<1>13. CASE OpenMenu
  BY <1>13 DEF OpenMenu, Disable
<1>14. CASE ChangeSettings
  BY <1>14 DEF ChangeSettings
<1>15. CASE CloseMenu \/ Quit \/ User
  BY <1>15 DEF CloseMenu, Quit, User
<1>16. CASE UNCHANGED powerVars
  BY <1>16 DEF powerVars
<1> QED
  BY <1>1, <1>2, <1>3, <1>4, <1>5, <1>6, <1>7, <1>8, <1>9, <1>10, <1>11, <1>12,
     <1>13, <1>14, <1>15, <1>16 DEF PowerNext

\* Whatever the frame loop, the idle and the menu thread interleave, a dark screen
\* belongs to a mode that is on and that will light it (power.c:214, power.c:268).
THEOREM NeverForgotten == PowerSpec => []DarkRemembered
<1>1. PowerInit => PowerInv
  BY DEF PowerInit, PowerInv, Lit, EndedOnce, Ending
<1>2. PowerInv => DarkRemembered
  BY DEF PowerInv, Lit, DarkRemembered
<1> QED
  BY <1>1, PowerKeeps, <1>2, PTL DEF PowerSpec

\* The idle thread starts the mode only while no frame is ending it, so nothing of
\* the two sequences is ever mixed.
THEOREM StartsAlone == PowerSpec => [][Enable => ~Ending]_powerVars
<1>1. PowerInit => PowerInv
  BY DEF PowerInit, PowerInv, Lit, EndedOnce, Ending
<1>2. PowerInv /\ [PowerNext]_powerVars => [Enable => ~Ending]_powerVars
  BY EnableAlone
<1> QED
  BY <1>1, <1>2, PowerKeeps, PTL DEF PowerSpec
=============================================================================
