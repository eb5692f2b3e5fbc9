------------------------- MODULE AsyncChannelProofs -------------------------
(* Theorems about AsyncChannel, for every size of ring and every number of  *)
(* channels, endpoints and readers.                                         *)
EXTENDS AsyncChannel, SequenceTheorems, TLAPS

\* An index runs around the ring at most once per operation.
LEMMA ModInside ==
  ASSUME NEW c \in Nat \ {0}, NEW x \in Nat
  PROVE  x % c \in 0 .. c - 1
OBVIOUS

\* Before the end of the buffer it stays,
LEMMA ModOnce ==
  ASSUME NEW c \in Nat \ {0}, NEW x \in Nat, x < c
  PROVE  x % c = x
OBVIOUS

\* behind it, it starts over.
LEMMA ModWrap ==
  ASSUME NEW c \in Nat \ {0}, NEW x \in Nat, c <= x, x < c + c
  PROVE  x % c = x - c
OBVIOUS

\* Writing n more bytes: write_pos and size move alike.
LEMMA WriteMoves ==
  ASSUME NEW c \in Nat \ {0}, NEW r \in 0 .. c - 1, NEW s \in 0 .. c,
         NEW n \in 0 .. c - s
  PROVE  /\ (((r + s) % c) + n) % c \in 0 .. c - 1
         /\ (((r + s) % c) + n) % c = (r + (s + n)) % c
<1> DEFINE w == (r + s) % c
<1>1. r + s \in Nat /\ r + s < c + c
  OBVIOUS
<1>2. w + n \in Nat /\ w + n < c + c
  OBVIOUS
<1>3. r + (s + n) \in Nat /\ r + (s + n) < c + c
  OBVIOUS
<1>4. (w + n) % c \in 0 .. c - 1
  BY <1>2, ModInside
<1>5. CASE r + s < c
  <2>1. w = r + s
    BY <1>1, <1>5, ModOnce, Zenon
  <2>2. w + n = r + (s + n)
    BY <2>1
  <2>3. QED
    BY <1>4, <2>2
<1>6. CASE c <= r + s
  <2>1. w = (r + s) - c
    BY <1>1, <1>6, ModWrap, Zenon
  <2>2. w + n = (r + (s + n)) - c /\ w + n < c /\ c <= r + (s + n)
    BY <1>6, <2>1
  <2>3. (w + n) % c = w + n
    BY <1>2, <2>2, ModOnce, Zenon
  <2>4. (r + (s + n)) % c = (r + (s + n)) - c
    BY <1>3, <2>2, ModWrap, Zenon
  <2>5. QED
    BY <1>4, <2>2, <2>3, <2>4
<1>7. QED
  BY <1>5, <1>6

\* Reading n bytes: read_pos moves towards write_pos.
LEMMA ReadMoves ==
  ASSUME NEW c \in Nat \ {0}, NEW r \in 0 .. c - 1, NEW s \in 0 .. c,
         NEW n \in 0 .. s
  PROVE  /\ (r + n) % c \in 0 .. c - 1
         /\ (((r + n) % c) + (s - n)) % c = (r + s) % c
<1>1. r + n \in Nat /\ r + n < c + c
  OBVIOUS
<1>2. r + s \in Nat /\ r + s < c + c
  OBVIOUS
<1>3. (r + n) % c \in 0 .. c - 1
  BY <1>1, ModInside
<1>4. CASE r + n < c
  <2>1. (r + n) % c = r + n
    BY <1>1, <1>4, ModOnce, Zenon
  <2>2. (r + n) + (s - n) = r + s
    OBVIOUS
  <2>3. QED
    BY <1>3, <2>1, <2>2
<1>5. CASE c <= r + n
  <2>1. (r + n) % c = (r + n) - c
    BY <1>1, <1>5, ModWrap, Zenon
  <2>2. /\ ((r + n) - c) + (s - n) = (r + s) - c /\ c <= r + s
        /\ (r + s) - c \in Nat /\ (r + s) - c < c
    BY <1>5
  <2>3. (r + s) % c = (r + s) - c
    BY <1>2, <2>2, ModWrap, Zenon
  <2>4. ((r + s) - c) % c = (r + s) - c
    BY <2>2, ModOnce, Zenon
  <2>5. QED
    BY <1>3, <2>1, <2>2, <2>3, <2>4
<1>6. QED
  BY <1>4, <1>5

\* Where fill_async's byte for a place of the ring comes from, unwrapped.
LEMMA OffsetRange ==
  ASSUME NEW c \in Nat \ {0}, NEW w \in 0 .. c - 1, NEW i \in 0 .. c - 1
  PROVE  i - w + c \in Nat /\ i - w + c < c + c
OBVIOUS

\* fill_async keeps an endpoint's fields in step and stays inside its buffer.
LEMMA FilledAligned ==
  ASSUME NEW q \in Rings, NEW bytes \in Packets,
         q.write = (q.read + q.size) % Cap
  PROVE  LET f == Filled(q, bytes, Room(q, Len(bytes)))
         IN  f \in Rings /\ f.write = (f.read + f.size) % Cap
<1> DEFINE n == Room(q, Len(bytes))
           f == Filled(q, bytes, n)
<1>1. Cap \in Nat \ {0}
  BY ChannelAssumption
<1>2. /\ q.read \in 0 .. Cap - 1 /\ q.write \in 0 .. Cap - 1 /\ q.size \in 0 .. Cap
      /\ q.buffer \in [0 .. Cap - 1 -> Data]
  BY DEF Rings
<1>3. PICK m \in 1 .. MaxPacket : bytes \in [1 .. m -> Data]
  BY DEF Packets
<1>4. Len(bytes) = m /\ m \in Nat
  BY <1>3, ChannelAssumption
<1>5. n \in Nat /\ n <= m /\ q.size + n <= Cap
  BY <1>1, <1>2, <1>4 DEF Room
<1>6. /\ f = [q EXCEPT !.buffer = f.buffer, !.write = (q.write + n) % Cap,
                       !.size = q.size + n]
      /\ q = [buffer |-> q.buffer, read |-> q.read, write |-> q.write, size |-> q.size]
  BY DEF Filled, Rings
<1>7. f.buffer = [i \in DOMAIN q.buffer |->
                    LET k == (i - q.write + Cap) % Cap
                    IN  IF k < n THEN bytes[k + 1] ELSE q.buffer[i]]
  BY DEF Filled, Rings
<1> HIDE DEF n, f
<1>8. f.buffer \in [0 .. Cap - 1 -> Data]
  <2>1. ASSUME NEW i \in 0 .. Cap - 1, NEW k, k = (i - q.write + Cap) % Cap, k < n
        PROVE  bytes[k + 1] \in Data
    <3>1. i - q.write + Cap \in Nat /\ i - q.write + Cap < Cap + Cap
      BY <1>1, <1>2, OffsetRange, Zenon
    <3>2. k \in 0 .. Cap - 1
      BY <1>1, <2>1, <3>1, ModInside
    <3>3. k + 1 \in 1 .. m
      BY <1>1, <1>4, <1>5, <2>1, <3>2
    <3>4. QED
      BY <1>3, <3>3
  <2>2. DOMAIN q.buffer = 0 .. Cap - 1 /\ \A i \in 0 .. Cap - 1 : q.buffer[i] \in Data
    BY <1>2, Zenon
  <2>3. \A i \in 0 .. Cap - 1 :
          (LET k == (i - q.write + Cap) % Cap
           IN  IF k < n THEN bytes[k + 1] ELSE q.buffer[i]) \in Data
    BY <2>1, <2>2
  <2>4. QED
    BY <1>7, <2>2, <2>3
<1>9. /\ (q.write + n) % Cap \in 0 .. Cap - 1
      /\ (q.write + n) % Cap = (q.read + (q.size + n)) % Cap
  <2>1. q.read \in 0 .. Cap - 1 /\ q.size \in 0 .. Cap
    BY <1>2, Zenon
  <2>2. n \in 0 .. Cap - q.size
    BY <1>1, <1>5, <2>1
  <2>3. QED
    BY <1>1, <2>1, <2>2, WriteMoves, Zenon
<1>10. q.size + n \in 0 .. Cap
  BY <1>1, <1>2, <1>5
<1>11. f \in Rings
  BY <1>2, <1>6, <1>8, <1>9, <1>10 DEF Rings
<1>12. f.read = q.read /\ f.size = q.size + n /\ f.write = (q.write + n) % Cap
  BY <1>6
<1>13. QED
  BY <1>9, <1>11, <1>12 DEF f, n

\* A read of n bytes keeps them in step too.
LEMMA DrainedAligned ==
  ASSUME NEW q \in Rings, NEW n \in 0 .. q.size,
         q.write = (q.read + q.size) % Cap
  PROVE  LET d == Drained(q, n)
         IN  d \in Rings /\ d.write = (d.read + d.size) % Cap /\ d.size = q.size - n
<1> DEFINE d == Drained(q, n)
<1>1. Cap \in Nat \ {0}
  BY ChannelAssumption
<1>2. /\ q.read \in 0 .. Cap - 1 /\ q.write \in 0 .. Cap - 1 /\ q.size \in 0 .. Cap
      /\ q.buffer \in [0 .. Cap - 1 -> Data]
  BY DEF Rings
<1>3. /\ d = [q EXCEPT !.read = (q.read + n) % Cap, !.size = q.size - n]
      /\ q = [buffer |-> q.buffer, read |-> q.read, write |-> q.write, size |-> q.size]
  BY DEF Drained, Rings
<1> HIDE DEF d
<1>4. /\ (q.read + n) % Cap \in 0 .. Cap - 1
      /\ (((q.read + n) % Cap) + (q.size - n)) % Cap = (q.read + q.size) % Cap
  BY <1>1, <1>2, ReadMoves
<1>5. q.size - n \in 0 .. Cap
  BY <1>1, <1>2
<1>6. d \in Rings
  BY <1>2, <1>3, <1>4, <1>5 DEF Rings
<1>7. d.read = (q.read + n) % Cap /\ d.size = q.size - n /\ d.write = q.write
  BY <1>3
<1>8. QED
  BY <1>4, <1>6, <1>7 DEF d

-----------------------------------------------------------------------------
(* The invariant.  NoLostWakeup needs to know that no two channels share an *)
(* endpoint: a read or a flush through one would empty the other's ring     *)
(* unannounced.                                                             *)

OwnRing ==
  \A c, d \in Chans : slot[c] # None /\ slot[c] = slot[d] => c = d

ChanInv == TypeOK /\ RingAligned /\ OwnRing

\* Registering and flushing start a ring over.
LEMMA EmptiedAligned ==
  ASSUME NEW q \in Rings
  PROVE  /\ Emptied(q) \in Rings /\ Emptied(q).size = 0
         /\ Emptied(q).write = (Emptied(q).read + Emptied(q).size) % Cap
<1>1. Cap \in Nat \ {0} /\ 0 \in 0 .. Cap - 1 /\ 0 \in 0 .. Cap
  BY ChannelAssumption
<1>2. /\ Emptied(q) \in Rings /\ Emptied(q).size = 0
      /\ Emptied(q).read = 0 /\ Emptied(q).write = 0
  BY <1>1 DEF Emptied, Rings
<1>3. 0 = (0 + 0) % Cap
  BY <1>1, ModOnce
<1>4. QED
  BY <1>2, <1>3

\* What a read returns are bytes of the buffer.
LEMMA TakenTyped ==
  ASSUME NEW q \in Rings, NEW n \in Nat
  PROVE  Taken(q, n) \in Seq(Data)
<1>1. Cap \in Nat \ {0} /\ q.read \in Nat /\ q.buffer \in [0 .. Cap - 1 -> Data]
  BY ChannelAssumption DEF Rings
<1>2. ASSUME NEW i \in 1 .. n PROVE q.buffer[(q.read + i - 1) % Cap] \in Data
  <2>1. q.read + i - 1 \in Nat
    BY <1>1
  <2>2. (q.read + i - 1) % Cap \in 0 .. Cap - 1
    BY <1>1, <2>1, ModInside
  <2>3. QED
    BY <1>1, <2>2
<1>3. QED
  BY <1>2 DEF Taken

\* A ring replaced by an aligned one leaves all of them aligned.
LEMMA RingReplaced ==
  ASSUME TypeOK, RingAligned, NEW e \in Endpoints, NEW q \in Rings,
         q.write = (q.read + q.size) % Cap, ring' = [ring EXCEPT ![e] = q]
  PROVE  ring' \in [Endpoints -> Rings] /\ RingAligned'
<1>1. ring \in [Endpoints -> Rings]
  BY DEF TypeOK
<1>2. ring' \in [Endpoints -> Rings]
  BY <1>1
<1>3. ASSUME NEW f \in Endpoints
      PROVE  ring'[f].write = (ring'[f].read + ring'[f].size) % Cap
  <2>1. CASE f = e
    BY <1>1, <2>1
  <2>2. CASE f # e
    <3>1. ring'[f] = ring[f]
      BY <1>1, <2>2
    <3>2. QED
      BY <3>1 DEF RingAligned
  <2>3. QED
    BY <2>1, <2>2
<1>4. ASSUME NEW f \in Endpoints PROVE ring'[f].size <= Cap
  BY <1>2, ChannelAssumption DEF Rings
<1>5. QED
  BY <1>2, <1>3, <1>4 DEF RingAligned

\* Every operation keeps the rings aligned and unshared.
LEMMA ChanInvStep ==
  ASSUME ChanInv, [Next]_vars
  PROVE  ChanInv'
<1> USE DEF ChanInv
<1>1. /\ slot \in [Chans -> Endpoints \cup {None}] /\ ring \in [Endpoints -> Rings]
      /\ \A e \in Endpoints : ring[e] \in Rings
      /\ \A e \in Endpoints : ring[e].write = (ring[e].read + ring[e].size) % Cap
      /\ <<>> \in Seq(Data)
  BY DEF TypeOK, RingAligned
<1>2. ASSUME NEW c \in Chans, PacketArrives(c) PROVE ChanInv'
  <2>1. packet' \in [chan : Chans, bytes : Packets] \cup {None}
    BY <1>2 DEF PacketArrives
  <2>2. UNCHANGED <<slot, ring, flags, reader, crashed>> /\ delivered' = <<>>
    BY <1>2 DEF PacketArrives
  <2>3. QED
    BY <1>1, <2>1, <2>2 DEF TypeOK, RingAligned, OwnRing
<1>3. CASE FillAsync
  <2>1. packet \in [chan : Chans, bytes : Packets]
    BY <1>3 DEF FillAsync, TypeOK
  <2>2. /\ packet' = None /\ delivered' = <<>>
        /\ UNCHANGED <<slot, reader, crashed>>
    BY <1>3 DEF FillAsync
  <2>3. CASE slot[packet.chan] = None
    BY <1>1, <1>3, <2>2, <2>3 DEF FillAsync, TypeOK, RingAligned, OwnRing
  <2>4. CASE slot[packet.chan] # None
    <3> DEFINE e == slot[packet.chan]
               q == Filled(ring[e], packet.bytes, Room(ring[e], Len(packet.bytes)))
    <3>1. e \in Endpoints /\ packet.bytes \in Packets /\ packet.chan \in Chans
      BY <1>1, <2>1, <2>4
    <3>2. ring' = [ring EXCEPT ![e] = q] /\ flags' = flags \cup {packet.chan}
      BY <1>3, <2>4 DEF FillAsync
    <3>3. q \in Rings /\ q.write = (q.read + q.size) % Cap
      BY <1>1, <3>1, FilledAligned
    <3>4. ring' \in [Endpoints -> Rings] /\ RingAligned'
      BY <3>1, <3>2, <3>3, RingReplaced
    <3>5. QED
      BY <1>1, <2>2, <3>1, <3>2, <3>4 DEF TypeOK, OwnRing
  <2>5. QED
    BY <2>3, <2>4
<1>4. ASSUME NEW e \in Endpoints, NEW c \in Chans, Register(e, c) PROVE ChanInv'
  <2>1. /\ slot' = [slot EXCEPT ![c] = e] /\ flags' = flags \ {c}
        /\ ring' = [ring EXCEPT ![e] = Emptied(ring[e])]
        /\ \A d \in Chans : slot[d] # e
        /\ delivered' = <<>> /\ UNCHANGED <<reader, packet, crashed>>
    BY <1>4 DEF Register
  <2>2. ring' \in [Endpoints -> Rings] /\ RingAligned'
    BY <1>1, <2>1, EmptiedAligned, RingReplaced
  <2>3. OwnRing'
    BY <1>1, <2>1 DEF OwnRing
  <2>4. QED
    BY <1>1, <2>1, <2>2, <2>3 DEF TypeOK
<1>5. ASSUME NEW c \in Chans, Unregister(c) PROVE ChanInv'
  <2>1. /\ slot' = [slot EXCEPT ![c] = None] /\ delivered' = <<>>
        /\ UNCHANGED <<ring, flags, reader, packet, crashed>>
    BY <1>5 DEF Unregister
  <2>2. OwnRing'
    BY <1>1, <2>1 DEF OwnRing
  <2>3. QED
    BY <1>1, <2>1, <2>2 DEF TypeOK, RingAligned
<1>6. ASSUME NEW c \in Chans, Flush(c) PROVE ChanInv'
  <2>1. /\ slot[c] \in Endpoints /\ flags' = flags \ {c} /\ delivered' = <<>>
        /\ ring' = [ring EXCEPT ![slot[c]] = Emptied(ring[slot[c]])]
        /\ UNCHANGED <<slot, reader, packet, crashed>>
    BY <1>1, <1>6 DEF Flush
  <2>2. ring' \in [Endpoints -> Rings] /\ RingAligned'
    BY <1>1, <2>1, EmptiedAligned, RingReplaced
  <2>3. QED
    BY <1>1, <2>1, <2>2 DEF TypeOK, OwnRing
<1>7. ASSUME NEW r \in Readers, NEW c \in Chans, NEW n \in 1 .. MaxPacket,
             ReadBegin(r, c, n)
      PROVE  ChanInv'
  <2>1. reader' \in [Readers -> ReaderStates]
    BY <1>7 DEF ReadBegin, TypeOK, ReaderStates
  <2>2. UNCHANGED <<slot, ring, flags, packet, crashed>> /\ delivered' = <<>>
    BY <1>7 DEF ReadBegin
  <2>3. QED
    BY <1>1, <2>1, <2>2 DEF TypeOK, RingAligned, OwnRing
<1>8. ASSUME NEW r \in Readers, ReadWoken(r) \/ ReadTimesOut(r) PROVE ChanInv'
  <2>1. reader' \in [Readers -> ReaderStates]
    BY <1>8 DEF ReadWoken, ReadTimesOut, TypeOK, ReaderStates
  <2>2. /\ flags' \subseteq flags /\ delivered' = <<>>
        /\ UNCHANGED <<slot, ring, packet, crashed>>
    BY <1>8 DEF ReadWoken, ReadTimesOut
  <2>3. QED
    BY <1>1, <2>1, <2>2 DEF TypeOK, RingAligned, OwnRing
<1>9. ASSUME NEW r \in Readers, ReadCopy(r) PROVE ChanInv'
  <2> DEFINE c == reader[r].chan
             e == slot[c]
  <2>1. c \in Chans /\ reader[r].want \in Nat
    BY ChannelAssumption DEF TypeOK, ReaderStates
  <2>2. UNCHANGED <<slot, packet>>
    BY <1>9 DEF ReadCopy
  <2>3. CASE e = None
    <3>1. UNCHANGED <<ring, flags, reader>> /\ delivered' = <<>> /\ crashed' = TRUE
      BY <1>9, <2>3 DEF ReadCopy
    <3>2. QED
      BY <1>1, <2>2, <3>1 DEF TypeOK, RingAligned, OwnRing
  <2>4. CASE e # None
    <3> DEFINE n == IF reader[r].want < ring[e].size THEN reader[r].want ELSE ring[e].size
    <3>1. e \in Endpoints
      BY <1>1, <2>1, <2>4
    <3>2. ring[e].size \in Nat /\ n \in 0 .. ring[e].size /\ n \in Nat
      BY <1>1, <2>1, <3>1, ChannelAssumption DEF Rings
    <3>3. /\ delivered' = Taken(ring[e], n)
          /\ ring' = [ring EXCEPT ![e] = Drained(ring[e], n)]
          /\ flags' = FlagsAfterRead(c, ring[e].size - n)
          /\ reader' = [reader EXCEPT ![r].at = "idle"]
          /\ UNCHANGED crashed
      BY <1>9, <2>4 DEF ReadCopy
    <3> HIDE DEF n
    <3>4. ring' \in [Endpoints -> Rings] /\ RingAligned'
      BY <1>1, <3>1, <3>2, <3>3, DrainedAligned, RingReplaced
    <3>5. delivered' \in Seq(Data)
      BY <1>1, <3>1, <3>2, <3>3, TakenTyped
    <3>6. reader' \in [Readers -> ReaderStates]
      BY <3>3 DEF TypeOK, ReaderStates
    <3>7. flags' \subseteq Chans
      BY <2>1, <3>3 DEF TypeOK, FlagsAfterRead
    <3>8. QED
      BY <1>1, <2>2, <3>3, <3>4, <3>5, <3>6, <3>7 DEF TypeOK, OwnRing
  <2>5. QED
    BY <2>3, <2>4
<1>10. CASE UNCHANGED vars
  BY <1>10 DEF vars, TypeOK, RingAligned, OwnRing
<1>11. QED
  BY <1>2, <1>3, <1>4, <1>5, <1>6, <1>7, <1>8, <1>9, <1>10
     DEF Next, RegisterAny, FreeUserChans

\* Types and alignment, from the first registration on.
THEOREM ChannelsAligned == Spec => []ChanInv
<1>1. Init => ChanInv
  <2> SUFFICES ASSUME Init PROVE ChanInv
    OBVIOUS
  <2>1. Cap \in Nat \ {0} /\ 0 \in 0 .. Cap - 1 /\ 0 \in 0 .. Cap /\ 0 \in Chans
        /\ 1 \in 1 .. MaxPacket
    BY ChannelAssumption DEF Chans
  <2>2. ASSUME NEW e \in Endpoints
        PROVE  ring[e] \in Rings /\ ring[e].read = 0 /\ ring[e].write = 0 /\ ring[e].size = 0
    BY <2>1 DEF Init, Rings
  <2>3. ring \in [Endpoints -> Rings]
    BY <2>2 DEF Init
  <2>4. 0 = (0 + 0) % Cap
    BY <2>1, ModOnce
  <2>5. RingAligned
    BY <2>1, <2>2, <2>4 DEF RingAligned
  <2>6. reader \in [Readers -> ReaderStates]
    BY <2>1 DEF Init, ReaderStates
  <2>7. OwnRing
    BY DEF Init, OwnRing
  <2>8. /\ slot \in [Chans -> Endpoints \cup {None}] /\ flags \subseteq Chans
        /\ packet \in [chan : Chans, bytes : Packets] \cup {None} /\ crashed \in BOOLEAN
    BY DEF Init
  <2>9. delivered \in Seq(Data)
    BY DEF Init
  <2>10. TypeOK
    BY <2>3, <2>6, <2>8, <2>9 DEF TypeOK
  <2>11. QED
    BY <2>5, <2>7, <2>10 DEF ChanInv
<1>2. ChanInv /\ [Next]_vars => ChanInv'
  BY ChanInvStep
<1>3. QED
  BY <1>1, <1>2, PTL DEF Spec
\* TypeOK of every channel, endpoint and reader.
THEOREM TypeCorrect == Spec => []TypeOK
<1>1. ChanInv => TypeOK
  BY DEF ChanInv
<1>2. QED
  BY <1>1, ChannelsAligned, PTL

\* RingAligned: read_pos, write_pos and size of every endpoint agree in every
\* reachable state.
THEOREM RingsAligned == Spec => []RingAligned
<1>1. ChanInv => RingAligned
  BY DEF ChanInv
<1>2. QED
  BY <1>1, ChannelsAligned, PTL

-----------------------------------------------------------------------------
\* What is readable on c is announced.
Announced(c) ==
  slot[c] # None /\ ring[slot[c]].size > 0 =>
    c \in flags \/ \E r \in Readers : reader[r].at = "copy" /\ reader[r].chan = c

\* Every step leaves what is readable announced.
LEMMA WakeupStep == ChanInv /\ NoLostWakeup /\ [Next]_vars => NoLostWakeup'
<1> SUFFICES ASSUME ChanInv, NoLostWakeup, [Next]_vars, NEW c \in Chans
             PROVE  Announced(c)'
  BY DEF NoLostWakeup, Announced
<1>1. Announced(c)
  BY DEF NoLostWakeup, Announced
<1>2. /\ slot \in [Chans -> Endpoints \cup {None}] /\ ring \in [Endpoints -> Rings]
      /\ reader \in [Readers -> ReaderStates]
  BY DEF ChanInv, TypeOK
<1>3. CASE UNCHANGED <<slot, ring, flags, reader>>
  BY <1>1, <1>3 DEF Announced
<1>4. CASE FillAsync
  <2>1. UNCHANGED <<slot, reader>> /\ packet # None
    BY <1>4 DEF FillAsync
  <2>2. CASE slot[packet.chan] = None
    BY <1>1, <1>4, <2>1, <2>2 DEF FillAsync, Announced
  <2>3. CASE slot[packet.chan] # None
    <3>1. PICK q : ring' = [ring EXCEPT ![slot[packet.chan]] = q]
      BY <1>4, <2>3 DEF FillAsync
    <3>2. flags' = flags \cup {packet.chan}
      BY <1>4, <2>3 DEF FillAsync
    <3>3. packet.chan \in Chans
      BY <2>1 DEF ChanInv, TypeOK
    <3>4. CASE c = packet.chan
      BY <3>2, <3>4 DEF Announced
    <3>5. CASE c # packet.chan /\ slot[c] # None
      <4>1. slot[c] # slot[packet.chan]
        BY <3>3, <3>5 DEF ChanInv, OwnRing
      <4>2. ring'[slot[c]] = ring[slot[c]]
        BY <1>2, <3>1, <3>5, <4>1
      <4>3. QED
        BY <1>1, <2>1, <3>2, <4>2 DEF Announced
    <3>6. QED
      BY <2>1, <3>4, <3>5 DEF Announced
  <2>4. QED
    BY <2>2, <2>3
<1>5. ASSUME NEW e \in Endpoints, NEW d \in Chans, Register(e, d)
      PROVE  Announced(c)'
  <2>1. /\ \A b \in Chans : slot[b] # e
        /\ slot' = [slot EXCEPT ![d] = e] /\ ring' = [ring EXCEPT ![e] = Emptied(ring[e])]
        /\ flags' = flags \ {d} /\ reader' = reader
    BY <1>5 DEF Register
  <2>2. CASE c = d
    <3>1. slot'[c] = e /\ ring'[e] = Emptied(ring[e])
      BY <1>2, <2>1, <2>2
    <3>2. ring'[slot'[c]].size = 0
      BY <1>2, <3>1, EmptiedAligned
    <3>3. QED
      BY <3>2 DEF Announced
  <2>3. CASE c # d
    <3>1. slot'[c] = slot[c] /\ (slot[c] # None => ring'[slot[c]] = ring[slot[c]])
      BY <1>2, <2>1, <2>3
    <3>2. QED
      BY <1>1, <2>1, <2>3, <3>1 DEF Announced
  <2>4. QED
    BY <2>2, <2>3
<1>6. ASSUME NEW d \in Chans, Unregister(d) PROVE Announced(c)'
  <2>1. slot' = [slot EXCEPT ![d] = None] /\ UNCHANGED <<ring, flags, reader>>
    BY <1>6 DEF Unregister
  <2>2. slot'[c] = None \/ slot'[c] = slot[c]
    BY <1>2, <2>1
  <2>3. QED
    BY <1>1, <2>1, <2>2 DEF Announced
<1>7. ASSUME NEW d \in Chans, Flush(d) PROVE Announced(c)'
  <2>1. /\ slot[d] # None /\ slot' = slot /\ reader' = reader
        /\ ring' = [ring EXCEPT ![slot[d]] = Emptied(ring[slot[d]])]
        /\ flags' = flags \ {d}
    BY <1>7 DEF Flush
  <2>2. CASE c = d
    <3>1. slot[c] \in Endpoints
      BY <1>2, <2>1, <2>2
    <3>2. ring'[slot[c]].size = 0
      BY <1>2, <2>1, <2>2, <3>1, EmptiedAligned
    <3>3. QED
      BY <2>1, <3>2 DEF Announced
  <2>3. CASE c # d /\ slot[c] # None
    <3>1. slot[c] # slot[d]
      BY <2>3 DEF ChanInv, OwnRing
    <3>2. ring'[slot[c]] = ring[slot[c]]
      BY <1>2, <2>1, <2>3, <3>1
    <3>3. QED
      BY <1>1, <2>1, <2>3, <3>2 DEF Announced
  <2>4. QED
    BY <2>1, <2>2, <2>3 DEF Announced
<1>8. ASSUME NEW r \in Readers, NEW d \in Chans, NEW n \in 1 .. MaxPacket,
             ReadBegin(r, d, n)
      PROVE  Announced(c)'
  <2>1. /\ reader[r].at = "idle" /\ UNCHANGED <<slot, ring, flags>>
        /\ \A s \in Readers : s # r => reader'[s] = reader[s]
    BY <1>2, <1>8 DEF ReadBegin
  <2>2. QED
    BY <1>1, <2>1 DEF Announced
<1>9. ASSUME NEW r \in Readers, ReadTimesOut(r) PROVE Announced(c)'
  <2>1. /\ reader[r].at = "wait" /\ UNCHANGED <<slot, ring, flags>>
        /\ \A s \in Readers : s # r => reader'[s] = reader[s]
    BY <1>2, <1>9 DEF ReadTimesOut
  <2>2. QED
    BY <1>1, <2>1 DEF Announced
<1>10. ASSUME NEW r \in Readers, ReadWoken(r) PROVE Announced(c)'
  <2>1. /\ reader[r].at = "wait" /\ UNCHANGED <<slot, ring>>
        /\ flags' = flags \ {reader[r].chan}
        /\ reader' = [reader EXCEPT ![r].at = "copy"]
    BY <1>10 DEF ReadWoken
  <2>2. /\ \A s \in Readers : s # r => reader'[s] = reader[s]
        /\ reader'[r].at = "copy" /\ reader'[r].chan = reader[r].chan
    BY <1>2, <2>1 DEF ReaderStates
  <2>3. CASE c = reader[r].chan
    BY <2>2, <2>3 DEF Announced
  <2>4. CASE c # reader[r].chan
    BY <1>1, <2>1, <2>2, <2>4 DEF Announced
  <2>5. QED
    BY <2>3, <2>4
<1>11. ASSUME NEW r \in Readers, ReadCopy(r) PROVE Announced(c)'
  <2> DEFINE d == reader[r].chan
             e == slot[d]
  <2>1. d \in Chans /\ reader[r].want \in Nat /\ slot' = slot
    BY <1>2, <1>11, ChannelAssumption DEF ReaderStates, ReadCopy
  <2>2. CASE e = None
    <3>1. UNCHANGED <<ring, flags, reader>>
      BY <1>11, <2>2 DEF ReadCopy
    <3>2. QED
      BY <1>1, <2>1, <3>1 DEF Announced
  <2>3. CASE e # None
    <3> DEFINE n == IF reader[r].want < ring[e].size THEN reader[r].want ELSE ring[e].size
    <3>1. e \in Endpoints
      BY <1>2, <2>1, <2>3
    <3>2. ring[e] \in Rings /\ ring[e].size \in Nat /\ n \in 0 .. ring[e].size
      BY <1>2, <2>1, <3>1, ChannelAssumption DEF Rings
    <3>3. /\ ring' = [ring EXCEPT ![e] = Drained(ring[e], n)]
          /\ flags' = FlagsAfterRead(d, ring[e].size - n)
          /\ reader' = [reader EXCEPT ![r].at = "idle"]
      BY <1>11, <2>3 DEF ReadCopy
    <3> HIDE DEF n
    <3>4. \A s \in Readers : s # r => reader'[s] = reader[s]
      BY <1>2, <3>3
    <3>5. CASE c = d
      <4>1. ring[e].write = (ring[e].read + ring[e].size) % Cap
        BY <3>1 DEF ChanInv, RingAligned
      <4>2. ring'[slot'[c]].size = ring[e].size - n
        BY <1>2, <2>1, <3>1, <3>2, <3>3, <3>5, <4>1, DrainedAligned
      <4>3. ring[e].size - n > 0 => c \in flags'
        BY <3>2, <3>3, <3>5 DEF FlagsAfterRead
      <4>4. QED
        BY <4>2, <4>3 DEF Announced
    <3>6. CASE c # d /\ slot[c] # None
      <4>1. slot[c] # e
        BY <2>1, <3>6 DEF ChanInv, OwnRing
      <4>2. ring'[slot[c]] = ring[slot[c]]
        BY <1>2, <3>1, <3>3, <3>6, <4>1
      <4>3. c \in flags => c \in flags'
        BY <3>3 DEF FlagsAfterRead
      <4>4. QED
        BY <1>1, <2>1, <3>4, <3>6, <4>2, <4>3 DEF Announced
    <3>7. QED
      BY <2>1, <3>5, <3>6 DEF Announced
  <2>4. QED
    BY <2>2, <2>3
<1>12. ASSUME NEW d \in Chans, PacketArrives(d) PROVE Announced(c)'
  BY <1>3, <1>12 DEF PacketArrives
<1>13. CASE UNCHANGED vars
  BY <1>3, <1>13 DEF vars
<1>14. QED
  BY <1>4, <1>5, <1>6, <1>7, <1>8, <1>9, <1>10, <1>11, <1>12, <1>13
     DEF Next, RegisterAny, FreeUserChans

\* NoLostWakeup: no interleaving of usb_thread with readers, registrations and
\* flushes leaves bytes in a ring that nobody will be woken for.
THEOREM WakeupsKept == Spec => []NoLostWakeup
<1>1. Init => NoLostWakeup
  BY DEF Init, NoLostWakeup
<1>2. QED
  BY <1>1, WakeupStep, ChannelsAligned, PTL DEF Spec

-----------------------------------------------------------------------------
(* The refinement: every endpoint is the FIFO of AsyncFifo.  Its queue is   *)
(* what a read of all it holds would return.                                *)

Queue == [e \in Endpoints |-> Contents(ring[e])]

\* Kept as one formula: the provers reason about % only where it is expanded.
Aligned(q) == q.write = (q.read + q.size) % Cap

LEMMA TakenSeq ==
  ASSUME NEW q \in Rings, NEW n \in Nat
  PROVE  /\ Taken(q, n) \in Seq(Data) /\ Len(Taken(q, n)) = n
         /\ \A i \in 1 .. n : Taken(q, n)[i] = q.buffer[(q.read + i - 1) % Cap]
BY TakenTyped DEF Taken

LEMMA ContentsSeq ==
  ASSUME NEW q \in Rings
  PROVE  /\ Contents(q) \in Seq(Data) /\ Len(Contents(q)) = q.size /\ q.size \in Nat
         /\ \A i \in 1 .. q.size : Contents(q)[i] = q.buffer[(q.read + i - 1) % Cap]
<1>1. q.size \in Nat
  BY ChannelAssumption DEF Rings
<1> QED
  BY <1>1, TakenSeq DEF Contents

LEMMA ModCases ==
  ASSUME NEW c \in Nat \ {0}, NEW x \in Nat, x < c + c
  PROVE  (x < c /\ x % c = x) \/ (c <= x /\ x % c = x - c)
<1>1. x < c \/ c <= x
  OBVIOUS
<1> QED
  BY <1>1, ModOnce, ModWrap

\* How far behind write_pos fill_async meets the j-th byte from read_pos on.
LEMMA OffsetOf ==
  ASSUME NEW c \in Nat \ {0}, NEW r \in 0 .. c - 1, NEW s \in 0 .. c, NEW j \in 0 .. c - 1
  PROVE  (((r + j) % c) - ((r + s) % c) + c) % c = IF j < s THEN j - s + c ELSE j - s
<1> DEFINE p == (r + j) % c
           w == (r + s) % c
           x == p - w + c
<1>1. r + j \in Nat /\ r + j < c + c /\ r + s \in Nat /\ r + s < c + c
  OBVIOUS
<1>2. \/ r + j < c /\ p = r + j
      \/ c <= r + j /\ p = (r + j) - c
  BY <1>1, ModCases, Zenon
<1>3. \/ r + s < c /\ w = r + s
      \/ c <= r + s /\ w = (r + s) - c
  BY <1>1, ModCases, Zenon
<1> HIDE DEF p, w
<1>4. x \in Nat /\ x < c + c
  BY <1>2, <1>3
<1>5. CASE j < s
  <2>1. j - s + c \in Nat /\ j - s + c < c
    BY <1>5
  <2>2. x = j - s + c \/ (x = j - s + c + c /\ c <= x)
    BY <1>2, <1>3, <1>5
  <2>3. x % c = j - s + c
    BY <1>4, <2>1, <2>2, ModOnce, ModWrap
  <2> QED
    BY <1>5, <2>3 DEF p, w
<1>6. CASE ~(j < s)
  <2>1. j - s \in Nat /\ j - s < c
    BY <1>6
  <2>2. x = j - s \/ (x = j - s + c /\ c <= x)
    BY <1>2, <1>3, <1>6
  <2>3. x % c = j - s
    BY <1>4, <2>1, <2>2, ModOnce, ModWrap
  <2> QED
    BY <1>6, <2>3 DEF p, w
<1> QED
  BY <1>5, <1>6

\* fill_async appends what fits.
LEMMA FilledAppends ==
  ASSUME NEW q \in Rings, NEW bytes \in Packets, Aligned(q)
  PROVE  LET n == Room(q, Len(bytes))
         IN  /\ n \in 0 .. Cap - q.size
             /\ [i \in 1 .. n |-> bytes[i]] \in [1 .. n -> Data]
             /\ Contents(Filled(q, bytes, n)) = Contents(q) \o [i \in 1 .. n |-> bytes[i]]
<1> DEFINE n == Room(q, Len(bytes))
           f == Filled(q, bytes, n)
           b == [i \in 1 .. n |-> bytes[i]]
<1>1. Cap \in Nat \ {0}
  BY ChannelAssumption
<1>2. /\ q.read \in 0 .. Cap - 1 /\ q.write \in 0 .. Cap - 1 /\ q.size \in 0 .. Cap
      /\ q.buffer \in [0 .. Cap - 1 -> Data]
  BY DEF Rings
<1>3. PICK m \in 1 .. MaxPacket : bytes \in [1 .. m -> Data]
  BY DEF Packets
<1>4. Len(bytes) = m /\ m \in Nat
  BY <1>3, ChannelAssumption
<1>5. n \in Nat /\ n <= m /\ q.size + n <= Cap
  BY <1>1, <1>2, <1>4 DEF Room
<1>6. /\ f.read = q.read /\ f.size = q.size + n
      /\ f.buffer = [i \in 0 .. Cap - 1 |->
                       LET k == (i - q.write + Cap) % Cap
                       IN  IF k < n THEN bytes[k + 1] ELSE q.buffer[i]]
  BY <1>2 DEF Filled, Rings
<1>7. f \in Rings
  BY FilledAligned DEF Aligned
<1> HIDE DEF n, f
<1>8. b \in [1 .. n -> Data] /\ b \in Seq(Data) /\ Len(b) = n
  <2>1. \A i \in 1 .. n : bytes[i] \in Data
    BY <1>3, <1>4, <1>5
  <2> QED
    BY <1>5, <2>1
<1> HIDE DEF b
<1>9. n \in 0 .. Cap - q.size
  BY <1>1, <1>2, <1>5
<1>10. Contents(q) \in Seq(Data) /\ Len(Contents(q)) = q.size
  BY ContentsSeq
<1>11. ASSUME NEW i \in 1 .. q.size + n
       PROVE  Contents(f)[i] = (Contents(q) \o b)[i]
  <2> DEFINE j == i - 1
             p == (q.read + j) % Cap
             k == (p - q.write + Cap) % Cap
  <2>1. j \in 0 .. Cap - 1 /\ q.read + j \in Nat /\ q.read + i - 1 = q.read + j
    BY <1>1, <1>2, <1>5
  <2>2. p \in 0 .. Cap - 1
    BY <1>1, <2>1, ModInside, Zenon
  <2>3. k = IF j < q.size THEN j - q.size + Cap ELSE j - q.size
    <3>1. q.write = (q.read + q.size) % Cap
      BY DEF Aligned
    <3>2. (((q.read + j) % Cap) - ((q.read + q.size) % Cap) + Cap) % Cap
            = IF j < q.size THEN j - q.size + Cap ELSE j - q.size
      BY <1>1, <1>2, <2>1, OffsetOf, Zenon
    <3> QED
      BY <3>1, <3>2, Zenon
  <2>4. Contents(f)[i] = f.buffer[p]
    BY <1>6, <1>7, <2>1, ContentsSeq
  <2>5. f.buffer[p] = IF k < n THEN bytes[k + 1] ELSE q.buffer[p]
    BY <1>6, <2>2
  <2>6. (Contents(q) \o b)[i] = IF i <= q.size THEN Contents(q)[i] ELSE b[i - q.size]
    <3>1. i \in 1 .. Len(Contents(q)) + Len(b)
      BY <1>8, <1>10
    <3>2. (Contents(q) \o b)[i]
            = IF i <= Len(Contents(q)) THEN Contents(q)[i] ELSE b[i - Len(Contents(q))]
      BY <1>8, <1>10, <3>1, ConcatProperties, Zenon
    <3> QED
      BY <1>10, <3>2
  <2> HIDE DEF p, k
  <2>7. CASE i <= q.size
    <3>1. j < q.size /\ ~(k < n)
      BY <1>1, <1>2, <1>5, <2>3, <2>7
    <3>2. Contents(q)[i] = q.buffer[p]
      BY <1>2, <2>1, <2>7, ContentsSeq DEF p
    <3> QED
      BY <2>4, <2>5, <2>6, <2>7, <3>1, <3>2
  <2>8. CASE ~(i <= q.size)
    <3>1. k = i - q.size - 1 /\ k < n /\ i - q.size \in 1 .. n /\ k + 1 = i - q.size
      <4>1. q.size \in Nat /\ i \in Nat /\ q.size < i /\ i <= q.size + n
        BY <1>5, <1>10, <2>8, ContentsSeq
      <4>2. k = j - q.size
        BY <2>3, <4>1
      <4> QED
        BY <1>5, <4>1, <4>2
    <3>2. b[i - q.size] = bytes[i - q.size]
      BY <3>1 DEF b
    <3> QED
      BY <2>4, <2>5, <2>6, <2>8, <3>1, <3>2
  <2> QED
    BY <2>7, <2>8
<1>12. Contents(f) = Contents(q) \o b
  <2>1. /\ Contents(f) \in Seq(Data) /\ Len(Contents(f)) = q.size + n
    BY <1>6, <1>7, ContentsSeq
  <2>2. Contents(q) \o b \in Seq(Data) /\ Len(Contents(q) \o b) = q.size + n
    BY <1>2, <1>5, <1>8, <1>10, ConcatProperties
  <2> QED
    BY <1>11, <2>1, <2>2, SeqEqual
<1> QED
  BY <1>8, <1>9, <1>12 DEF n, f, b

\* The copy of a read takes a prefix.
LEMMA DrainedTakes ==
  ASSUME NEW q \in Rings, NEW n \in 0 .. q.size, Aligned(q)
  PROVE  /\ Taken(q, n) = SubSeq(Contents(q), 1, n)
         /\ Contents(Drained(q, n)) = SubSeq(Contents(q), n + 1, Len(Contents(q)))
<1> DEFINE d == Drained(q, n)
           s == Contents(q)
<1>1. Cap \in Nat \ {0}
  BY ChannelAssumption
<1>2. /\ q.read \in 0 .. Cap - 1 /\ q.size \in 0 .. Cap /\ n \in Nat /\ n <= q.size
      /\ q.size - n \in Nat
  BY <1>1 DEF Rings
<1>3. /\ s \in Seq(Data) /\ Len(s) = q.size
      /\ \A i \in 1 .. q.size : s[i] = q.buffer[(q.read + i - 1) % Cap]
      /\ \A i \in 1 .. q.size : s[i] \in Data
  BY ContentsSeq
<1>4. d \in Rings /\ d.size = q.size - n
  BY DrainedAligned DEF Aligned
<1>5. d.read = (q.read + n) % Cap /\ d.buffer = q.buffer
  BY DEF Drained, Rings
<1> HIDE DEF s, d
<1>6. Taken(q, n) = SubSeq(s, 1, n)
  <2>1. Taken(q, n) \in Seq(Data) /\ Len(Taken(q, n)) = n
    BY <1>2, TakenSeq
  <2>2. SubSeq(s, 1, n) \in Seq(Data) /\ Len(SubSeq(s, 1, n)) = n
    BY <1>2, <1>3, SubSeqProperties
  <2>3. ASSUME NEW i \in 1 .. n PROVE Taken(q, n)[i] = SubSeq(s, 1, n)[i]
    <3>1. SubSeq(s, 1, n)[i] = s[i]
      BY <1>2, <1>3, SubSeqProperties
    <3>2. Taken(q, n)[i] = q.buffer[(q.read + i - 1) % Cap]
      BY <1>2, TakenSeq
    <3> QED
      BY <1>2, <1>3, <3>1, <3>2
  <2> QED
    BY <2>1, <2>2, <2>3, SeqEqual
<1>7. Contents(d) = SubSeq(s, n + 1, q.size)
  <2>1. /\ Contents(d) \in Seq(Data) /\ Len(Contents(d)) = q.size - n
        /\ \A i \in 1 .. q.size - n : Contents(d)[i] = q.buffer[(d.read + i - 1) % Cap]
    BY <1>4, <1>5, ContentsSeq
  <2>2. \A i \in n + 1 .. q.size : s[i] \in Data
    BY <1>2, <1>3
  <2>3. /\ SubSeq(s, n + 1, q.size) \in Seq(Data)
        /\ Len(SubSeq(s, n + 1, q.size)) = q.size - n
        /\ \A i \in 1 .. q.size - n : SubSeq(s, n + 1, q.size)[i] = s[n + 1 + i - 1]
    BY <1>2, <2>2, SubSeqProperties
  <2>4. ASSUME NEW i \in 1 .. q.size - n
        PROVE  Contents(d)[i] = SubSeq(s, n + 1, q.size)[i]
    <3>1. i - 1 \in 0 .. Cap - n /\ n \in 0 .. Cap
      BY <1>1, <1>2
    <3>2. (((q.read + n) % Cap) + (i - 1)) % Cap = (q.read + (n + (i - 1))) % Cap
      BY <1>1, <1>2, <3>1, WriteMoves
    <3>3. (d.read + i - 1) % Cap = (q.read + (n + i) - 1) % Cap
      <4>1. (q.read + n) % Cap \in Nat
        <5>1. q.read + n \in Nat
          BY <1>1, <1>2
        <5>2. (q.read + n) % Cap \in 0 .. Cap - 1
          BY <1>1, <5>1, ModInside, Zenon
        <5> QED
          BY <1>1, <5>2
      <4>2. d.read + i - 1 = ((q.read + n) % Cap) + (i - 1)
        BY <1>5, <4>1
      <4>3. q.read + (n + (i - 1)) = q.read + (n + i) - 1
        BY <1>2
      <4> QED
        BY <3>2, <4>2, <4>3, Zenon
    <3>4. n + 1 + i - 1 = n + i /\ n + i \in 1 .. q.size
      BY <1>2
    <3>5. s[n + i] = q.buffer[(q.read + (n + i) - 1) % Cap]
      BY <1>3, <3>4, Zenon
    <3>6. SubSeq(s, n + 1, q.size)[i] = s[n + i]
      BY <2>3, <3>4
    <3>7. Contents(d)[i] = q.buffer[(d.read + i - 1) % Cap]
      BY <2>1, Zenon
    <3> QED
      BY <3>3, <3>5, <3>6, <3>7, Zenon
  <2> QED
    BY <2>1, <2>3, <2>4, SeqEqual
<1> QED
  BY <1>3, <1>6, <1>7 DEF s, d

LEMMA EmptiedEmpty == ASSUME NEW q \in Rings PROVE Contents(Emptied(q)) = <<>>
<1>1. Emptied(q) \in Rings /\ Emptied(q).size = 0
  BY EmptiedAligned
<1> QED
  BY <1>1, ContentsSeq

LEMMA QueueReplaced ==
  ASSUME ring \in [Endpoints -> Rings], NEW e \in Endpoints, NEW q,
         ring' = [ring EXCEPT ![e] = q]
  PROVE  Queue' = [Queue EXCEPT ![e] = Contents(q)] /\ Queue[e] = Contents(ring[e])
BY DEF Queue

\* Every step is a step of the FIFO.
LEMMA FifoStep ==
  ASSUME ChanInv, [Next]_vars
  PROVE  [F!Next]_(F!fifoVars)
<1> DEFINE Put(e) ==
             \E n \in 0 .. Cap - Len(Queue[e]) : \E bytes \in [1 .. n -> Data] :
               Queue' = [Queue EXCEPT ![e] = @ \o bytes] /\ delivered' = <<>>
           Get(e) ==
             \E n \in 0 .. Len(Queue[e]) :
               /\ delivered' = SubSeq(Queue[e], 1, n)
               /\ Queue' = [Queue EXCEPT ![e] = SubSeq(@, n + 1, Len(@))]
           Clear(e) == Queue' = [Queue EXCEPT ![e] = <<>>] /\ delivered' = <<>>
           Rest == delivered' = <<>> /\ UNCHANGED Queue
<1> SUFFICES \/ Rest \/ UNCHANGED <<Queue, delivered>>
             \/ \E e \in Endpoints : Put(e) \/ Get(e) \/ Clear(e)
  BY DEF F!Next, F!Put, F!Get, F!Flush, F!Other, F!fifoVars, Queue
<1>1. /\ slot \in [Chans -> Endpoints \cup {None}] /\ ring \in [Endpoints -> Rings]
      /\ \A e \in Endpoints : ring[e] \in Rings /\ Aligned(ring[e])
  BY DEF ChanInv, TypeOK, RingAligned, Aligned
<1>2. ring' = ring => UNCHANGED Queue
  BY DEF Queue
<1>3. CASE delivered' = <<>> /\ ring' = ring
  BY <1>2, <1>3
<1>4. CASE FillAsync
  <2>1. packet \in [chan : Chans, bytes : Packets] /\ delivered' = <<>>
    BY <1>4 DEF FillAsync, ChanInv, TypeOK
  <2>2. CASE slot[packet.chan] = None
    BY <1>2, <1>4, <2>1, <2>2 DEF FillAsync
  <2>3. CASE slot[packet.chan] # None
    <3> DEFINE e == slot[packet.chan]
               n == Room(ring[e], Len(packet.bytes))
               b == [i \in 1 .. n |-> packet.bytes[i]]
               q == Filled(ring[e], packet.bytes, n)
    <3>1. e \in Endpoints /\ ring[e] \in Rings /\ packet.bytes \in Packets
      BY <1>1, <2>1, <2>3
    <3>2. ring' = [ring EXCEPT ![e] = q]
      BY <1>4, <2>3 DEF FillAsync
    <3>3. /\ n \in 0 .. Cap - ring[e].size /\ b \in [1 .. n -> Data]
          /\ Contents(q) = Contents(ring[e]) \o b
      BY <1>1, <3>1, FilledAppends
    <3> HIDE DEF q, b, n, e
    <3>4. Queue' = [Queue EXCEPT ![e] = Contents(q)] /\ Queue[e] = Contents(ring[e])
      BY <1>1, <3>1, <3>2, QueueReplaced
    <3>5. Len(Queue[e]) = ring[e].size
      BY <3>1, <3>4, ContentsSeq
    <3>6. Queue' = [Queue EXCEPT ![e] = @ \o b]
      BY <3>3, <3>4
    <3>7. Put(e)
      BY <2>1, <3>3, <3>5, <3>6
    <3> QED
      BY <3>1, <3>7
  <2> QED
    BY <2>2, <2>3
<1>5. ASSUME NEW e \in Endpoints, delivered' = <<>>,
             ring' = [ring EXCEPT ![e] = Emptied(ring[e])]
      PROVE  Clear(e)
  <2>1. ring[e] \in Rings /\ ring \in [Endpoints -> Rings]
    BY <1>1
  <2>2. Queue' = [Queue EXCEPT ![e] = Contents(Emptied(ring[e]))]
    BY <1>5, <2>1, QueueReplaced, Zenon
  <2>3. Contents(Emptied(ring[e])) = <<>>
    BY <2>1, EmptiedEmpty, Zenon
  <2> QED
    BY <1>5, <2>2, <2>3, Zenon
<1>6. ASSUME NEW r \in Readers, ReadCopy(r)
      PROVE  Rest \/ \E e \in Endpoints : Get(e)
  <2> DEFINE e == slot[reader[r].chan]
  <2>1. reader[r].chan \in Chans /\ reader[r].want \in Nat
    BY ChannelAssumption DEF ChanInv, TypeOK, ReaderStates
  <2>2. CASE e = None
    BY <1>2, <1>6, <2>2 DEF ReadCopy
  <2>3. CASE e # None
    <3> DEFINE n == IF reader[r].want < ring[e].size THEN reader[r].want ELSE ring[e].size
    <3>1. e \in Endpoints /\ ring[e] \in Rings
      BY <1>1, <2>1, <2>3
    <3>2. ring[e].size \in Nat /\ n \in 0 .. ring[e].size
      <4>1. ring[e].size \in Nat
        BY <3>1, ContentsSeq
      <4> QED
        BY <2>1, <4>1
    <3>3. delivered' = Taken(ring[e], n) /\ ring' = [ring EXCEPT ![e] = Drained(ring[e], n)]
      BY <1>6, <2>3 DEF ReadCopy
    <3> HIDE DEF n, e
    <3>4. /\ Queue' = [Queue EXCEPT ![e] = Contents(Drained(ring[e], n))]
          /\ Queue[e] = Contents(ring[e])
      BY <1>1, <3>1, <3>3, QueueReplaced
    <3>5. /\ delivered' = SubSeq(Queue[e], 1, n)
          /\ Contents(Drained(ring[e], n)) = SubSeq(Queue[e], n + 1, Len(Queue[e]))
      BY <1>1, <3>1, <3>2, <3>3, <3>4, DrainedTakes
    <3>6. Len(Queue[e]) = ring[e].size
      BY <3>1, <3>4, ContentsSeq
    <3>7. Get(e)
      BY <3>2, <3>4, <3>5, <3>6
    <3> QED
      BY <3>1, <3>7
  <2> QED
    BY <2>2, <2>3
<1>7. ASSUME NEW c \in Chans, Flush(c) PROVE \E e \in Endpoints : Clear(e)
  <2>1. slot[c] \in Endpoints
    BY <1>1, <1>7 DEF Flush
  <2> QED
    BY <1>5, <1>7, <2>1 DEF Flush
<1>8. ASSUME NEW e \in Endpoints, NEW c \in Chans, Register(e, c) PROVE Clear(e)
  BY <1>5, <1>8 DEF Register
<1>9. CASE UNCHANGED vars
  BY <1>2, <1>9 DEF vars
<1>10. ASSUME NEW c \in Chans, PacketArrives(c) \/ Unregister(c) PROVE Rest
  BY <1>2, <1>10 DEF PacketArrives, Unregister
<1>11. ASSUME NEW r \in Readers,
              \/ ReadWoken(r) \/ ReadTimesOut(r)
              \/ \E c \in Chans, n \in 1 .. MaxPacket : ReadBegin(r, c, n)
       PROVE  Rest
  BY <1>2, <1>11 DEF ReadWoken, ReadTimesOut, ReadBegin
<1> HIDE DEF Put, Get, Clear, Rest
<1> QED
  BY <1>4, <1>6, <1>7, <1>8, <1>9, <1>10, <1>11 DEF Next, RegisterAny, FreeUserChans

\* ImplementsFifo: for rings, packets and reads of every size, an endpoint is a FIFO of
\* at most Cap bytes.  fill_async (main.c:683) appends what fits, a read returns the oldest
\* bytes and removes just those, and only a flush or a registration loses any.
THEOREM ChannelsAreFifos == Spec => ImplementsFifo
<1>1. Init => F!Init
  <2> SUFFICES ASSUME Init PROVE Queue = [e \in Endpoints |-> <<>>] /\ delivered = <<>>
    BY DEF F!Init, Queue
  <2>1. ASSUME NEW e \in Endpoints PROVE Contents(ring[e]) = <<>>
    BY DEF Init, Contents, Taken
  <2> QED
    BY <2>1 DEF Init, Queue
<1> QED
  BY <1>1, FifoStep, ChannelsAligned, PTL DEF Spec, ImplementsFifo, F!Spec
=============================================================================
