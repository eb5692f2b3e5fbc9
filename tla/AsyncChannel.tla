---------------------------- MODULE AsyncChannel ----------------------------
(***************************************************************************)
(* The async channels of the PSP's USB driver (usbhostfs/main.c): packets  *)
(* of the third endpoint are copied by usb_thread into the ring buffer of  *)
(* the endpoint registered for their channel, and application threads read *)
(* from it under an event flag with one bit per channel.                   *)
(*                                                                         *)
(* Each of these operations runs with interrupts disabled, but a read is   *)
(* two of them: the wait that takes the channel's bit, and the copy.       *)
(***************************************************************************)
EXTENDS Integers, Sequences, FiniteSets

CONSTANTS
  Endpoints, \* the AsyncEndpoint structures callers own
  Readers,   \* threads that call usbAsyncRead*
  Data,      \* what a byte may be
  Cap,       \* MAX_ASYNC_BUFFER
  NumChans,  \* MAX_ASYNC_CHANNELS
  FirstUser, \* ASYNC_USER: channels below are not handed out
  MaxPacket, \* bound: bytes of data in one packet, and in one read
  None       \* NULL, and no packet

ASSUME ChannelAssumption ==
  /\ Cap \in Nat \ {0} /\ NumChans \in Nat \ {0} /\ MaxPacket \in Nat \ {0}
  /\ FirstUser \in 0 .. NumChans
  /\ None \notin Endpoints
  /\ Data # {}

Chans == 0 .. NumChans - 1
Packets == UNION {[1 .. n -> Data] : n \in 1 .. MaxPacket}

VARIABLES
  slot,      \* g_async_chan
  ring,      \* each endpoint's buffer, read_pos, write_pos and size
  flags,     \* channels whose bit is set in g_asyncevent
  reader,    \* each thread: where it is, on which channel, how much it wants
  delivered, \* what the step that finishes a read returns to its caller
  packet,    \* async_data once the request is done, or None while it is posted
  crashed    \* a thread dereferenced a null g_async_chan entry

vars == <<slot, ring, flags, reader, delivered, packet, crashed>>

Rings == [buffer : [0 .. Cap - 1 -> Data], read : 0 .. Cap - 1,
          write : 0 .. Cap - 1, size : 0 .. Cap]
ReaderStates == [at : {"idle", "wait", "copy"}, chan : Chans, want : 1 .. MaxPacket]

\* Nothing is registered yet; the buffers hold whatever their memory held.
Init ==
  /\ slot = [c \in Chans |-> None]
  /\ ring \in [Endpoints -> {[buffer |-> b, read |-> 0, write |-> 0, size |-> 0] :
                               b \in [0 .. Cap - 1 -> Data]}]
  /\ flags = {}
  /\ reader = [r \in Readers |-> [at |-> "idle", chan |-> 0, want |-> 1]]
  /\ delivered = <<>>
  /\ packet = None
  /\ crashed = FALSE

-----------------------------------------------------------------------------
\* The host's packet for channel c completes the request.
PacketArrives(c) ==
  /\ packet = None /\ ~crashed
  /\ \E bytes \in Packets : packet' = [chan |-> c, bytes |-> bytes]
  /\ delivered' = <<>>
  /\ UNCHANGED <<slot, ring, flags, reader, crashed>>

\* How many of len bytes fill_async takes.
Room(q, len) == IF len < Cap - q.size THEN len ELSE Cap - q.size

\* The ring after the first n bytes were put at write_pos.
Filled(q, bytes, n) ==
  [q EXCEPT !.buffer = [i \in DOMAIN @ |->
                          LET k == (i - q.write + Cap) % Cap
                          IN  IF k < n THEN bytes[k + 1] ELSE @[i]],
            !.write = (@ + n) % Cap,
            !.size = @ + n]

\* usb_thread on USB_EVENT_ASYNC: fill_async, then the request is posted again.
FillAsync ==
  /\ packet # None /\ ~crashed
  /\ packet' = None
  /\ LET e == slot[packet.chan]
     IN  IF e = None
         THEN UNCHANGED <<ring, flags>>
         ELSE /\ ring' = [ring EXCEPT ![e] =
                            Filled(@, packet.bytes, Room(@, Len(packet.bytes)))]
              /\ flags' = flags \cup {packet.chan}
  /\ delivered' = <<>>
  /\ UNCHANGED <<slot, reader, crashed>>

-----------------------------------------------------------------------------
\* Mutant: a flush forgets read_pos.
EmptiedHalf(q) == [q EXCEPT !.size = 0, !.write = 0]

Emptied(q) == [q EXCEPT !.size = 0, !.read = 0, !.write = 0]

FreeUserChans == {c \in Chans : c >= FirstUser /\ slot[c] = None}

\* usbAsyncRegister on a free channel, or on the first free one of the user's.
\* An endpoint serves one channel at a time.
Register(e, c) ==
  /\ ~crashed /\ \A d \in Chans : slot[d] # e
  /\ slot[c] = None
  /\ slot' = [slot EXCEPT ![c] = e]
  /\ ring' = [ring EXCEPT ![e] = Emptied(@)]
  /\ flags' = flags \ {c}
  /\ delivered' = <<>>
  /\ UNCHANGED <<reader, packet, crashed>>

RegisterAny(e) ==
  \E c \in FreeUserChans : (\A d \in FreeUserChans : c <= d) /\ Register(e, c)

\* usbAsyncUnregister: neither the bit nor a waiting reader is told.
Unregister(c) ==
  /\ ~crashed /\ slot[c] # None
  /\ slot' = [slot EXCEPT ![c] = None]
  /\ delivered' = <<>>
  /\ UNCHANGED <<ring, flags, reader, packet, crashed>>

\* usbAsyncFlush
Flush(c) ==
  /\ ~crashed /\ slot[c] # None
  /\ ring' = [ring EXCEPT ![slot[c]] = Emptied(@)]
  /\ flags' = flags \ {c}
  /\ delivered' = <<>>
  /\ UNCHANGED <<slot, reader, packet, crashed>>

-----------------------------------------------------------------------------
\* usbAsyncReadWithTimeout up to the wait; an empty slot is refused.
ReadBegin(r, c, n) ==
  /\ ~crashed /\ reader[r].at = "idle" /\ slot[c] # None
  /\ reader' = [reader EXCEPT ![r] = [at |-> "wait", chan |-> c, want |-> n]]
  /\ delivered' = <<>>
  /\ UNCHANGED <<slot, ring, flags, packet, crashed>>

\* The wait takes the bit.
ReadWoken(r) ==
  /\ ~crashed /\ reader[r].at = "wait" /\ reader[r].chan \in flags
  /\ flags' = flags \ {reader[r].chan}
  /\ reader' = [reader EXCEPT ![r].at = "copy"]
  /\ delivered' = <<>>
  /\ UNCHANGED <<slot, ring, packet, crashed>>

\* The wait times out: -1.
ReadTimesOut(r) ==
  /\ ~crashed /\ reader[r].at = "wait"
  /\ reader' = [reader EXCEPT ![r].at = "idle"]
  /\ delivered' = <<>>
  /\ UNCHANGED <<slot, ring, flags, packet, crashed>>

\* Mutant: bytes are read from where the next ones will be written.
TakenAtWrite(q, n) == [i \in 1 .. n |-> q.buffer[(q.write + i - 1) % Cap]]

Taken(q, n) == [i \in 1 .. n |-> q.buffer[(q.read + i - 1) % Cap]]
Drained(q, n) == [q EXCEPT !.read = (@ + n) % Cap, !.size = @ - n]

\* Mutant: a partial read keeps the bit it took.
FlagsKept(c, rest) == flags

\* The bits after a copy that leaves rest bytes: the bit is given back for them.
FlagsAfterRead(c, rest) == IF rest # 0 THEN flags \cup {c} ELSE flags

\* The copy; g_async_chan is not looked at again before it is used.
ReadCopy(r) ==
  /\ ~crashed /\ reader[r].at = "copy"
  /\ LET c == reader[r].chan
         e == slot[c]
     IN  IF e = None
         THEN crashed' = TRUE /\ delivered' = <<>> /\ UNCHANGED <<ring, flags, reader>>
         ELSE LET q == ring[e]
                  n == IF reader[r].want < q.size THEN reader[r].want ELSE q.size
              IN  /\ delivered' = Taken(q, n)
                  /\ ring' = [ring EXCEPT ![e] = Drained(@, n)]
                  /\ flags' = FlagsAfterRead(c, q.size - n)
                  /\ reader' = [reader EXCEPT ![r].at = "idle"]
                  /\ UNCHANGED crashed
  /\ UNCHANGED <<slot, packet>>

Next ==
  \/ \E c \in Chans : PacketArrives(c) \/ Unregister(c) \/ Flush(c)
  \/ FillAsync
  \/ \E e \in Endpoints : RegisterAny(e) \/ \E c \in Chans : Register(e, c)
  \/ \E r \in Readers :
       \/ \E c \in Chans, n \in 1 .. MaxPacket : ReadBegin(r, c, n)
       \/ ReadWoken(r) \/ ReadTimesOut(r) \/ ReadCopy(r)

Spec == Init /\ [][Next]_vars

-----------------------------------------------------------------------------
TypeOK ==
  /\ slot \in [Chans -> Endpoints \cup {None}]
  /\ ring \in [Endpoints -> Rings]
  /\ flags \subseteq Chans
  /\ reader \in [Readers -> ReaderStates]
  /\ delivered \in Seq(Data)
  /\ packet \in [chan : Chans, bytes : Packets] \cup {None}
  /\ crashed \in BOOLEAN

\* The three fields of an endpoint never drift apart, however arrivals, partial
\* reads and flushes interleave: size is the distance from read_pos to
\* write_pos, and only a ring that is empty or full has the two meet.
RingAligned ==
  \A e \in Endpoints :
    /\ ring[e].write = (ring[e].read + ring[e].size) % Cap
    /\ ring[e].size <= Cap

\* Bytes a reader could have are announced: by the channel's bit, or by a
\* reader that took it and has yet to copy, and gives it back if it must.
NoLostWakeup ==
  \A c \in Chans :
    slot[c] # None /\ ring[slot[c]].size > 0 =>
      c \in flags \/ \E r \in Readers : reader[r].at = "copy" /\ reader[r].chan = c

\* The ring is a FIFO: nothing is reordered, duplicated or overwritten.
Contents(q) == Taken(q, q.size)
F == INSTANCE AsyncFifo WITH queue <- [e \in Endpoints |-> Contents(ring[e])]
ImplementsFifo == F!Spec

=============================================================================
