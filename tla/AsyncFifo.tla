------------------------------ MODULE AsyncFifo ------------------------------
(***************************************************************************)
(* What an async channel of the driver promises: every endpoint is a FIFO  *)
(* of bounded length.  What arrives is appended as far as it fits, a read  *)
(* takes a prefix, and nothing else changes the contents except a flush.   *)
(***************************************************************************)
EXTENDS Sequences, Naturals

CONSTANTS Endpoints, Data, Cap

VARIABLES
  queue,     \* the bytes an endpoint holds, oldest first
  delivered  \* what this step's read returns

fifoVars == <<queue, delivered>>

Init == queue = [e \in Endpoints |-> <<>>] /\ delivered = <<>>

\* A packet's bytes, cut to the room that is left.
Put(e) ==
  \E n \in 0 .. Cap - Len(queue[e]) : \E bytes \in [1 .. n -> Data] :
    /\ queue' = [queue EXCEPT ![e] = @ \o bytes]
    /\ delivered' = <<>>

Get(e) ==
  \E n \in 0 .. Len(queue[e]) :
    /\ delivered' = SubSeq(queue[e], 1, n)
    /\ queue' = [queue EXCEPT ![e] = SubSeq(@, n + 1, Len(@))]

Flush(e) == queue' = [queue EXCEPT ![e] = <<>>] /\ delivered' = <<>>

\* A step that is not about bytes.
Other == delivered' = <<>> /\ UNCHANGED queue

Next == Other \/ \E e \in Endpoints : Put(e) \/ Get(e) \/ Flush(e)

Spec == Init /\ [][Next]_fifoVars

=============================================================================
