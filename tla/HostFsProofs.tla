---------------------------- MODULE HostFsProofs ----------------------------
(***************************************************************************)
(* Theorems about HostFs, for any number of threads, any calls of theirs,  *)
(* every block size and every length: what a count says, and whose turn it *)
(* is on the pipe.                                                         *)
(***************************************************************************)
EXTENDS HostFs, SequenceTheorems, TLAPS

Calls == [kind : Kinds \cup {"none"}, at : CallStages, out : BOOLEAN, in : BOOLEAN,
          left : Nat, rest : Nat, ret : Int, want : Nat, moved : Nat,
          short : BOOLEAN, cut : BOOLEAN]

CallTypes == call \in [Threads -> Calls]

-----------------------------------------------------------------------------
(* The count of a call                                                      *)

Counted == Blocks \cup {"async"}

\* What the blocks to come hold.
Due(c) == MaxBlock * c.left + c.rest

\* Between two blocks the count and what is due make up what was asked for, or the server
\* fell short; where the data of an answer is still to come, ret has counted its block.
Underway(c) ==
  /\ ~c.cut /\ c.ret = c.moved /\ Block(c) > 0
  /\ c.kind = "async" => c.at \in {"check", "queue"} /\ ~c.short
  /\ c.short \/ c.want = c.ret + (IF c.at = "data" THEN Due(c) - Block(c) ELSE Due(c))

\* Accounted of one call.
Settled(c) ==
  /\ c.ret >= 0 => c.ret = c.moved
  /\ c.ret >= 0 /\ c.ret < c.want => c.short \/ c.cut
  /\ c.ret < 0 => c.cut \/ (c.short /\ c.moved = 0)

Books(c) ==
  c.kind \in Counted =>
    /\ c.at \in {"check", "queue", "extra", "reply", "data"} => Underway(c)
    /\ c.at = "done" => Settled(c)

BooksKept == CallTypes /\ \A t \in Threads : Books(call[t])

-----------------------------------------------------------------------------
(* The pipe                                                                 *)

Engaged == {"queue", "extra", "reply", "data"}

In(u, s) == \E i \in 1 .. Len(s) : s[i] = u

BusTypes ==
  /\ bus \in Seq(Threads \cup {"driver"})
  /\ dpc \in {"none", "wait", "magic", "hello", "echo"}
  /\ plugged \in BOOLEAN /\ connected \in BOOLEAN

\* Where a session stands: a belief in it that outlives the cable has its event pending.
Session ==
  /\ plugged => started
  /\ started <=> dpc # "none"
  /\ connected => dpc = "wait" /\ (plugged <=> events = {})
  /\ plugged /\ dpc # "wait" => events = {}

\* Who is in an exchange, or waits for one, is in the semaphore's queue.
Queued ==
  /\ started => \A t \in Threads : call[t].at \in Engaged => In(t, bus)
  /\ dpc \in {"hello", "echo"} => In("driver", bus)

\* Nobody is in an exchange, and the server expects a header;
Between ==
  /\ host = Expect("idle", "driver")
  /\ \A t \in Threads : call[t].at \in Engaged => call[t].at = "queue"

\* or thread t is, and the server expects what t sends or takes next.
Holds(t) ==
  /\ Turn(t)
  /\ \/ call[t].at = "extra" /\ host = Expect("extra", t)
     \/ call[t].at = "reply" /\ host = Expect("answer", t)
     \/ call[t].at = "data" /\ host = Expect("data", t)
  /\ \A u \in Threads \ {t} : call[u].at \in Engaged => call[u].at = "queue"

Exchanges ==
  plugged =>
    /\ ~connected => \A t \in Threads : call[t].at \notin Engaged
    /\ dpc = "hello" => host.at = "hello"
    /\ dpc = "echo" => host.at = "echo"
    /\ connected => Between \/ \E t \in Threads : Holds(t)

BusInv == BusTypes /\ Session /\ Queued /\ Exchanges

-----------------------------------------------------------------------------
(* What each outcome of an exchange does to a call                          *)

LEMMA Divided ==
  ASSUME NEW m \in Nat \ {0}, NEW n \in Nat
  PROVE  n \div m \in Nat /\ n % m \in Nat /\ n = m * (n \div m) + (n % m)
OBVIOUS

LEMMA CallFields ==
  ASSUME NEW c \in Calls
  PROVE  /\ c.kind \in Kinds \cup {"none"} /\ c.at \in CallStages
         /\ c.left \in Nat /\ c.rest \in Nat /\ c.ret \in Int /\ c.want \in Nat
         /\ c.moved \in Nat /\ c.short \in BOOLEAN /\ c.cut \in BOOLEAN
         /\ c.out \in BOOLEAN /\ c.in \in BOOLEAN
BY DEF Calls

LEMMA BlockTyped == ASSUME NEW c \in Calls PROVE Block(c) \in Nat /\ Due(c) \in Nat
<1>1. MaxBlock \in Nat /\ c.left \in Nat /\ c.rest \in Nat
  BY HostFsAssumption DEF Calls
<1>2. MaxBlock * c.left \in Nat
  BY <1>1
<1> QED
  BY <1>1, <1>2 DEF Block, Due

\* A block less is due.
LEMMA NextDue ==
  ASSUME NEW c \in Calls, NEW n \in Int
  PROVE  LET d == NextBlock(c, n) IN
         /\ d \in Calls /\ d.kind = c.kind /\ d.ret = c.ret + n /\ d.moved = c.moved
         /\ d.want = c.want /\ d.short = c.short /\ d.cut = c.cut
         /\ Due(d) = Due(c) - Block(c)
         /\ \/ d.at = "done" /\ Due(d) = 0
            \/ Block(d) > 0 /\ d.at = (IF c.kind = "async" THEN "queue" ELSE "check")
<1> DEFINE d == NextBlock(c, n)
           left == IF c.left > 0 THEN c.left - 1 ELSE 0
           rest == IF c.left > 0 THEN c.rest ELSE 0
           at == IF left = 0 /\ rest = 0 THEN "done"
                 ELSE IF c.kind = "async" THEN "queue" ELSE "check"
<1>1. MaxBlock \in Nat /\ MaxBlock > 0 /\ c.left \in Nat /\ c.rest \in Nat /\ c.ret + n \in Int
  BY HostFsAssumption, CallFields
<1>2. left \in Nat /\ rest \in Nat /\ at \in CallStages
  BY <1>1 DEF CallStages
<1>3. d = [c EXCEPT !.left = left, !.rest = rest, !.ret = c.ret + n, !.at = at]
  BY DEF NextBlock
<1> HIDE DEF d, left, rest, at
<1>4. d \in Calls
  BY <1>1, <1>2, <1>3 DEF Calls
<1>5. /\ d.kind = c.kind /\ d.ret = c.ret + n /\ d.moved = c.moved /\ d.want = c.want
      /\ d.short = c.short /\ d.cut = c.cut /\ d.left = left /\ d.rest = rest /\ d.at = at
  BY <1>3 DEF Calls
<1>6. Due(d) = Due(c) - Block(c)
  <2>1. CASE c.left > 0
    <3>1. MaxBlock * (c.left - 1) = MaxBlock * c.left - MaxBlock
      BY <1>1
    <3>2. Due(d) = MaxBlock * (c.left - 1) + c.rest
      BY <1>5, <2>1 DEF Due, left, rest
    <3>3. Due(c) - Block(c) = MaxBlock * c.left + c.rest - MaxBlock
      BY <1>1, <2>1 DEF Due, Block
    <3>4. MaxBlock * c.left \in Nat /\ MaxBlock * (c.left - 1) \in Nat
      BY <1>1, <2>1
    <3> QED
      BY <1>1, <3>1, <3>2, <3>3, <3>4
  <2>2. CASE c.left = 0
    <3>1. Due(d) = 0 /\ Due(c) = c.rest /\ Block(c) = c.rest
      BY <1>1, <1>5, <2>2 DEF Due, Block, left, rest
    <3> QED
      BY <1>1, <3>1
  <2> QED
    BY <1>1, <2>1, <2>2
<1>7. CASE left = 0 /\ rest = 0
  <2>1. d.at = "done" /\ Due(d) = 0
    BY <1>1, <1>5, <1>7 DEF at, Due
  <2> QED
    BY <1>4, <1>5, <1>6, <2>1, Zenon DEF d
<1>8. CASE ~(left = 0 /\ rest = 0)
  <2>1. Block(d) > 0 /\ d.at = (IF c.kind = "async" THEN "queue" ELSE "check")
    BY <1>1, <1>2, <1>5, <1>8 DEF at, Block
  <2> QED
    BY <1>4, <1>5, <1>6, <2>1 DEF d
<1> QED
  BY <1>7, <1>8

\* A block is through.
LEMMA NextKeeps ==
  ASSUME NEW c \in Calls, NEW n \in Int, c.kind \in Counted, ~c.cut,
         c.ret + n = c.moved, c.kind = "async" => ~c.short,
         c.short \/ c.want = c.ret + n + (Due(c) - Block(c))
  PROVE  NextBlock(c, n) \in Calls /\ Books(NextBlock(c, n))
<1> DEFINE d == NextBlock(c, n)
<1>1. /\ d \in Calls /\ d.kind = c.kind /\ d.ret = c.ret + n /\ d.moved = c.moved
      /\ d.want = c.want /\ d.short = c.short /\ d.cut = c.cut
      /\ Due(d) = Due(c) - Block(c)
      /\ \/ d.at = "done" /\ Due(d) = 0
         \/ Block(d) > 0 /\ d.at = (IF c.kind = "async" THEN "queue" ELSE "check")
  BY NextDue
<1> HIDE DEF d
<1>2. d.ret = d.moved /\ d.moved \in Nat
  BY <1>1, CallFields
<1>3. d.short \/ d.want = d.ret + Due(d)
  BY <1>1
<1>4. CASE d.at = "done" /\ Due(d) = 0
  <2>1. Settled(d)
    BY <1>2, <1>3, <1>4 DEF Settled
  <2> QED
    BY <1>1, <1>4, <2>1 DEF Books, d
<1>5. CASE Block(d) > 0 /\ d.at = (IF c.kind = "async" THEN "queue" ELSE "check")
  <2>1. Underway(d)
    BY <1>1, <1>2, <1>3, <1>5 DEF Underway
  <2> QED
    BY <1>1, <1>5, <2>1 DEF Books, d
<1> QED
  BY <1>1, <1>4, <1>5

\* The server moved nothing.
LEMMA FinishedKeeps ==
  ASSUME NEW c \in Calls, NEW res \in {-1, 0}, c.short, c.ret = c.moved
  PROVE  Finished(c, res) \in Calls /\ Books(Finished(c, res))
<1> DEFINE d == Finished(c, res)
           ret == IF res < 0 /\ c.ret = 0 THEN res ELSE c.ret
<1>1. d = [c EXCEPT !.at = "done", !.ret = ret] /\ c.moved \in Nat /\ c.ret \in Int
  BY CallFields DEF Finished
<1>2. ret \in Int /\ (ret >= 0 => ret = c.moved) /\ (ret < 0 => c.moved = 0)
  BY <1>1
<1> HIDE DEF d, ret
<1>3. d \in Calls
  BY <1>1, <1>2 DEF Calls, CallStages
<1>4. d.at = "done" /\ d.ret = ret /\ d.moved = c.moved /\ d.short
  BY <1>1 DEF Calls
<1> QED
  BY <1>2, <1>3, <1>4 DEF Books, Settled, d

LEMMA FailedKeeps ==
  ASSUME NEW c \in Calls, Books(c), c.at \in {"check", "queue", "extra", "reply", "data"}
  PROVE  Failed(c) \in Calls /\ Books(Failed(c))
<1> DEFINE d == Failed(c)
           ret == IF c.kind = "async" /\ c.at # "check" THEN c.ret ELSE -1
<1>1. d = [c EXCEPT !.at = "done", !.cut = TRUE, !.ret = ret] /\ c.ret \in Int
  BY CallFields DEF Failed
<1>2. ret \in Int
  BY <1>1
<1>3. c.kind = "async" => c.ret = c.moved
  BY DEF Books, Counted, Underway
<1>4. ret >= 0 => ret = c.moved
  BY <1>1, <1>3
<1> HIDE DEF d, ret
<1>5. d \in Calls
  BY <1>1, <1>2 DEF Calls, CallStages
<1>6. d.at = "done" /\ d.ret = ret /\ d.moved = c.moved /\ d.cut
  BY <1>1 DEF Calls
<1> QED
  BY <1>4, <1>5, <1>6 DEF Books, Settled, d

-----------------------------------------------------------------------------
(* Every step keeps the books                                               *)

LEMMA CallReplaced ==
  ASSUME BooksKept, NEW t \in Threads, NEW d \in Calls, Books(d), call' = [call EXCEPT ![t] = d]
  PROVE  BooksKept'
<1>1. call' \in [Threads -> Calls] /\ \A u \in Threads : call'[u] = IF u = t THEN d ELSE call[u]
  BY DEF BooksKept, CallTypes
<1>2. ASSUME NEW u \in Threads PROVE Books(call'[u])
  <2>1. call'[u] = d \/ call'[u] = call[u]
    BY <1>1
  <2>2. Books(call[u])
    BY DEF BooksKept
  <2> QED
    BY <2>1, <2>2
<1> QED
  BY <1>1, <1>2 DEF BooksKept, CallTypes

LEMMA BeginKeeps ==
  ASSUME BooksKept, NEW t \in Threads, NEW kind, NEW out \in BOOLEAN, NEW in \in BOOLEAN,
         NEW len \in Nat, kind \in Counted => len > 0, Begin(t, kind, out, in, len)
  PROVE  BooksKept'
<1> DEFINE q == len \div MaxBlock
           r == len % MaxBlock
           d == [NoCall EXCEPT
                   !.kind = kind, !.at = "check", !.out = out, !.in = in, !.want = len,
                   !.left = q, !.rest = r]
<1>1. call' = [call EXCEPT ![t] = d] /\ kind \in Kinds
  BY HostFsAssumption DEF Begin
<1>2. MaxBlock \in Nat \ {0}
  BY HostFsAssumption
<1>3. q \in Nat /\ r \in Nat /\ len = MaxBlock * q + r
  BY <1>2, Divided, Zenon
<1> HIDE DEF q, r
<1>4. NoCall \in Calls
  BY DEF NoCall, Calls, CallStages
<1>5. d \in Calls
  BY <1>1, <1>3, <1>4 DEF Calls, CallStages
<1>6. /\ d.kind = kind /\ d.at = "check" /\ d.ret = 0 /\ d.moved = 0 /\ d.want = len
      /\ ~d.short /\ ~d.cut /\ d.left = q /\ d.rest = r
  <2>1. NoCall.ret = 0 /\ NoCall.moved = 0 /\ ~NoCall.short /\ ~NoCall.cut
    BY DEF NoCall
  <2> QED
    BY <1>4, <2>1 DEF Calls
<1> HIDE DEF d
<1>7. Due(d) = len /\ (len > 0 => Block(d) > 0)
  <2>1. Due(d) = len
    BY <1>3, <1>6 DEF Due
  <2>2. d.left = 0 => Due(d) = d.rest
    BY <1>2, <1>5, CallFields DEF Due
  <2> QED
    BY <1>2, <1>5, <2>1, <2>2, CallFields DEF Block
<1>8. Books(d)
  BY <1>6, <1>7 DEF Books, Underway
<1> QED
  BY <1>1, <1>5, <1>8, CallReplaced

LEMMA AskKeeps == ASSUME BooksKept, NEW t \in Threads, Ask(t) PROVE BooksKept'
<1> DEFINE Of(kind, out, in) == Begin(t, kind, out, in, 0)
<1>1. ASSUME NEW kind \in Kinds \ Counted, NEW out \in BOOLEAN, NEW in \in BOOLEAN,
             Begin(t, kind, out, in, 0)
      PROVE  BooksKept'
  BY <1>1, BeginKeeps
<1>2. ASSUME NEW kind, NEW out \in BOOLEAN, NEW in \in BOOLEAN,
             NEW len \in Lens, Begin(t, kind, out, in, len)
      PROVE  BooksKept'
  <2>1. len \in Nat /\ len > 0
    BY HostFsAssumption
  <2> QED
    BY <1>2, <2>1, BeginKeeps
<1>3. CASE Read(t) \/ Write(t) \/ Async(t)
  BY <1>2, <1>3 DEF Read, Write, Async
<1>4. Kinds \ Counted = Named \cup Plain \cup {"getstat", "dread", "ioctl", "devctl", "bulk"}
  BY DEF Kinds, Counted, Named, Plain, Blocks
<1>5. CASE \/ Open(t) \/ Close(t) \/ Lseek(t) \/ Remove(t) \/ Mkdir(t) \/ Rmdir(t)
           \/ Dopen(t) \/ Dclose(t) \/ Dread(t)
  BY <1>1, <1>4, <1>5 DEF Open, Close, Lseek, Remove, Mkdir, Rmdir, Dopen, Dclose, Dread,
                          Named, Plain
<1>6. CASE \/ Getstat(t) \/ Chstat(t) \/ Rename(t) \/ Chdir(t) \/ Ioctl(t) \/ Devctl(t)
           \/ Bulk(t)
  BY <1>1, <1>4, <1>6 DEF Getstat, Chstat, Rename, Chdir, Ioctl, Devctl, Bulk, Named
<1> QED
  BY <1>3, <1>5, <1>6 DEF Ask

\* The command goes out, or a whole packet does.
LEMMA HeadKeeps == ASSUME BooksKept, NEW t \in Threads, WriteHead(t) PROVE BooksKept'
<1> DEFINE c == call[t]
<1>1. c \in Calls /\ Books(c) /\ c.at = "queue"
  BY DEF BooksKept, CallTypes, WriteHead, MayWrite
<1>2. CASE c.kind = "async"
  <2> DEFINE e == [c EXCEPT !.moved = c.moved + Block(c)]
  <2>1. call' = [call EXCEPT ![t] = NextBlock(e, Block(c))]
    BY <1>2 DEF WriteHead
  <2>2. Underway(c) /\ Block(c) \in Nat /\ Due(c) \in Nat
    BY <1>1, <1>2, BlockTyped DEF Books, Counted
  <2>3. c.moved + Block(c) \in Nat
    BY <1>1, <2>2, CallFields
  <2>4. e \in Calls
    BY <1>1, <2>3 DEF Calls
  <2>5. /\ e.kind = "async" /\ e.moved = c.moved + Block(c) /\ e.ret = c.ret /\ e.want = c.want
        /\ e.short = c.short /\ e.cut = c.cut /\ e.left = c.left /\ e.rest = c.rest
    BY <1>1, <1>2 DEF Calls
  <2> HIDE DEF e
  <2>6. Block(e) = Block(c) /\ Due(e) = Due(c)
    BY <2>5 DEF Block, Due
  <2>7. ~e.cut /\ ~e.short /\ e.ret + Block(c) = e.moved /\ e.want = e.ret + Due(c)
    BY <1>1, <1>2, <2>2, <2>5 DEF Underway
  <2>8. e.want = e.ret + Block(c) + (Due(e) - Block(e))
    BY <2>2, <2>4, <2>6, <2>7, CallFields
  <2>9. NextBlock(e, Block(c)) \in Calls /\ Books(NextBlock(e, Block(c)))
    BY <2>2, <2>4, <2>5, <2>7, <2>8, NextKeeps DEF Counted
  <2> QED
    BY <2>1, <2>9, CallReplaced
<1>3. CASE c.kind # "async"
  <2> DEFINE at == IF c.out THEN "extra" ELSE "reply"
             d == [c EXCEPT !.at = at]
  <2>1. call' = [call EXCEPT ![t] = d]
    BY <1>3 DEF WriteHead, CallTypes, BooksKept
  <2>2. at \in {"extra", "reply"}
    OBVIOUS
  <2> HIDE DEF at
  <2>3. d \in Calls /\ Books(d)
    BY <1>1, <1>3, <2>2 DEF Calls, CallStages, Books, Underway, Block, Due
  <2> QED
    BY <2>1, <2>3, CallReplaced
<1> QED
  BY <1>2, <1>3

LEMMA ExtraKeeps == ASSUME BooksKept, NEW t \in Threads, WriteExtra(t) PROVE BooksKept'
<1> DEFINE c == call[t]
           at == IF c.kind = "bulk" THEN "done" ELSE "reply"
           d == [c EXCEPT !.at = at]
<1>1. c \in Calls /\ Books(c) /\ c.at = "extra"
  BY DEF BooksKept, CallTypes, WriteExtra
<1>2. call' = [call EXCEPT ![t] = d]
  BY DEF WriteExtra
<1>3. at = "reply" \/ (at = "done" /\ c.kind \notin Counted)
  BY DEF Counted, Blocks
<1> HIDE DEF at
<1>4. d \in Calls /\ Books(d)
  BY <1>1, <1>3 DEF Calls, CallStages, Books, Underway, Block, Due
<1> QED
  BY <1>2, <1>4, CallReplaced

\* The answer, whatever the server did.
LEMMA ReplyKeeps == ASSUME BooksKept, NEW t \in Threads, ReadReply(t) PROVE BooksKept'
<1> DEFINE c == call[t]
<1>1. c \in Calls /\ Books(c) /\ c.at = "reply"
  BY DEF BooksKept, CallTypes, ReadReply
<1> DEFINE Seen(n, res) == [c EXCEPT !.moved = c.moved + n,
                                     !.short = c.short \/ (c.kind \in Blocks /\ res < Block(c))]
           Count(res) == IF c.kind \in Blocks /\ res > 0 THEN res ELSE 0
<1>2. PICK res \in Answers(c) :
        \/ /\ c.in /\ res # -1
           /\ call' = [call EXCEPT ![t] = [Seen(Count(res), res) EXCEPT
                                             !.at = "data", !.ret = c.ret + Count(res)]]
        \/ call' = [call EXCEPT ![t] = Answered(Seen(Count(res), res), res)]
  <2>1. PICK res \in Answers(c) :
          \/ /\ c.in /\ res # -1
             /\ call' = [call EXCEPT ![t] = [Seen(Count(res), res) EXCEPT
                                               !.at = "data", !.ret = @ + Count(res)]]
          \/ call' = [call EXCEPT ![t] = Answered(Seen(Count(res), res), res)]
    BY DEF ReadReply
  <2>2. Seen(Count(res), res).ret = c.ret
    BY <1>1 DEF Calls
  <2> QED
    BY <2>1, <2>2
<1> DEFINE n == Count(res)
           s == Seen(n, res)
<1>3. Block(c) \in Nat /\ Due(c) \in Nat
  BY <1>1, BlockTyped
<1>4. /\ res \in Int /\ n \in Nat /\ (c.kind \in Blocks => res \in -1 .. Block(c))
      /\ n = IF c.kind \in Blocks /\ res > 0 THEN res ELSE 0
  BY <1>2, <1>3 DEF Answers
<1> DEFINE short == c.short \/ (c.kind \in Blocks /\ res < Block(c))
<1>5. short \in BOOLEAN
  BY <1>1, CallFields
<1>6. s = [c EXCEPT !.moved = c.moved + n, !.short = short]
  OBVIOUS
<1> HIDE DEF s, short, n
<1>7. s \in Calls
  <2>1. c.moved + n \in Nat
    BY <1>1, <1>4, CallFields
  <2> QED
    BY <1>1, <1>5, <1>6, <2>1 DEF Calls
<1>8. /\ s.kind = c.kind /\ s.at = c.at /\ s.ret = c.ret /\ s.want = c.want /\ s.cut = c.cut
      /\ s.left = c.left /\ s.rest = c.rest /\ s.moved = c.moved + n /\ s.short = short
  BY <1>1, <1>6 DEF Calls
<1>9. Block(s) = Block(c) /\ Due(s) = Due(c)
  BY <1>8 DEF Block, Due
<1>10. c.kind \in Counted => /\ c.kind \in Blocks /\ ~s.cut /\ s.ret + n = s.moved /\ Block(s) > 0
                             /\ s.short \/ s.want = s.ret + n + (Due(s) - Block(s))
  <2>1. SUFFICES ASSUME c.kind \in Counted
                 PROVE  /\ c.kind \in Blocks /\ ~s.cut /\ s.ret + n = s.moved /\ Block(s) > 0
                        /\ s.short \/ s.want = s.ret + n + (Due(s) - Block(s))
    OBVIOUS
  <2>2. Underway(c) /\ c.kind \in Blocks
    BY <1>1, <2>1 DEF Books, Underway, Counted
  <2>3. ~c.short /\ ~(res < Block(c)) => n = Block(c)
    BY <1>3, <1>4, <2>2 DEF Underway
  <2>4. c.short \/ res < Block(c) => s.short
    BY <1>8, <2>2 DEF short
  <2>5. ~c.short => c.want = c.ret + Due(c)
    BY <1>1, <2>2 DEF Underway
  <2>6. s.short \/ s.want = s.ret + n + (Due(s) - Block(s))
    BY <1>1, <1>3, <1>4, <1>8, <1>9, <2>3, <2>4, <2>5, CallFields
  <2> QED
    BY <1>8, <1>9, <2>2, <2>6 DEF Underway
<1>11. CASE call' = [call EXCEPT ![t] = [s EXCEPT !.at = "data", !.ret = c.ret + n]]
  <2> DEFINE d == [s EXCEPT !.at = "data", !.ret = c.ret + n]
  <2>1. d \in Calls
    <3>1. c.ret + n \in Int
      BY <1>1, <1>4, CallFields
    <3> QED
      BY <1>7, <3>1 DEF Calls, CallStages
  <2>2. /\ d.kind = c.kind /\ d.at = "data" /\ d.ret = s.ret + n /\ d.want = s.want
        /\ d.cut = s.cut /\ d.moved = s.moved /\ d.short = s.short
        /\ d.left = s.left /\ d.rest = s.rest
    BY <1>7, <1>8 DEF Calls
  <2> HIDE DEF d
  <2>3. Block(d) = Block(s) /\ Due(d) = Due(s)
    BY <2>2 DEF Block, Due
  <2>4. Books(d)
    BY <1>10, <2>2, <2>3 DEF Books, Underway, Blocks
  <2> QED
    BY <1>11, <2>1, <2>4, CallReplaced DEF d
<1>12. CASE call' = [call EXCEPT ![t] = Answered(s, res)]
  <2>1. CASE c.kind \in Blocks /\ res > 0
    <3>1. Answered(s, res) = NextBlock(s, n)
      BY <1>4, <1>8, <2>1 DEF Answered
    <3>2. c.kind \in Counted /\ s.kind # "async"
      BY <1>8, <2>1 DEF Counted, Blocks
    <3>3. NextBlock(s, n) \in Calls /\ Books(NextBlock(s, n))
      BY <1>4, <1>7, <1>8, <1>10, <3>2, NextKeeps
    <3> QED
      BY <1>12, <3>1, <3>3, CallReplaced
  <2>2. CASE c.kind \in Blocks /\ ~(res > 0)
    <3>1. Answered(s, res) = Finished(s, res) /\ n = 0 /\ res \in {-1, 0}
      BY <1>3, <1>4, <1>8, <2>2 DEF Answered
    <3>2. c.kind \in Counted /\ Block(c) > 0
      BY <1>9, <1>10, <2>2 DEF Counted
    <3>3. s.short /\ s.ret = s.moved
      BY <1>3, <1>7, <1>8, <1>10, <2>2, <3>1, <3>2, CallFields DEF short
    <3>4. Finished(s, res) \in Calls /\ Books(Finished(s, res))
      BY <1>7, <3>1, <3>3, FinishedKeeps
    <3> QED
      BY <1>12, <3>1, <3>4, CallReplaced
  <2>3. CASE c.kind \notin Blocks
    <3> DEFINE ret == IF res >= 0 /\ c.kind # "lseek" THEN 0 ELSE res
               d == [s EXCEPT !.at = "done", !.ret = ret]
    <3>1. Answered(s, res) = d
      BY <1>8, <2>3 DEF Answered
    <3>2. ret \in Int
      BY <1>4
    <3> HIDE DEF ret
    <3>3. d \in Calls /\ d.kind = c.kind
      BY <1>7, <1>8, <3>2 DEF Calls, CallStages
    <3>4. Books(d)
      BY <1>10, <2>3, <3>3 DEF Books
    <3> QED
      BY <1>12, <3>1, <3>3, <3>4, CallReplaced
  <2> QED
    BY <2>1, <2>2, <2>3
<1> QED
  BY <1>2, <1>11, <1>12 DEF s, n

LEMMA DataKeeps == ASSUME BooksKept, NEW t \in Threads, ReadExtra(t) PROVE BooksKept'
<1> DEFINE c == call[t]
<1>1. c \in Calls /\ Books(c) /\ c.at = "data"
  BY DEF BooksKept, CallTypes, ReadExtra
<1>2. CASE c.kind \in Blocks
  <2>1. call' = [call EXCEPT ![t] = NextBlock(c, 0)]
    BY <1>2 DEF ReadExtra
  <2>2. Underway(c) /\ c.kind \in Counted /\ c.kind # "async"
    BY <1>1, <1>2 DEF Books, Counted, Blocks
  <2>3. c.ret + 0 = c.moved /\ ~c.cut /\ (c.short \/ c.want = c.ret + 0 + (Due(c) - Block(c)))
    BY <1>1, <2>2, CallFields DEF Underway
  <2>4. NextBlock(c, 0) \in Calls /\ Books(NextBlock(c, 0))
    BY <1>1, <2>2, <2>3, NextKeeps
  <2> QED
    BY <2>1, <2>4, CallReplaced
<1>3. CASE c.kind \notin Blocks
  <2> DEFINE d == [c EXCEPT !.at = "done"]
  <2>1. call' = [call EXCEPT ![t] = d]
    BY <1>3 DEF ReadExtra
  <2>2. c.kind \notin Counted
    BY <1>1, <1>3 DEF Books, Underway, Counted
  <2>3. d \in Calls /\ Books(d)
    BY <1>1, <2>2 DEF Calls, CallStages, Books
  <2> QED
    BY <2>1, <2>3, CallReplaced
<1> QED
  BY <1>2, <1>3

LEMMA CheckKeeps ==
  ASSUME BooksKept, NEW t \in Threads, Check(t) \/ XchgFails(t) \/ Return(t) PROVE BooksKept'
<1> DEFINE c == call[t]
<1>1. c \in Calls /\ Books(c)
  BY DEF BooksKept, CallTypes
<1>2. CASE c.at \in {"check", "queue", "extra", "reply", "data"}
           /\ call' = [call EXCEPT ![t] = Failed(c)]
  BY <1>1, <1>2, FailedKeeps, CallReplaced
<1>3. CASE c.at = "check" /\ call' = [call EXCEPT ![t].at = "queue"]
  <2> DEFINE d == [c EXCEPT !.at = "queue"]
  <2>1. d \in Calls /\ Books(d)
    BY <1>1, <1>3 DEF Calls, CallStages, Books, Underway, Block, Due
  <2> QED
    BY <1>3, <2>1, CallReplaced
<1>4. CASE Return(t)
  <2>1. NoCall \in Calls /\ Books(NoCall)
    BY DEF NoCall, Calls, CallStages, Books, Counted, Blocks
  <2> QED
    BY <1>4, <2>1, CallReplaced DEF Return
<1> QED
  BY <1>2, <1>3, <1>4 DEF Check, XchgFails

LEMMA BooksStep == BooksKept /\ [Next]_vars => BooksKept'
<1> SUFFICES ASSUME BooksKept, [Next]_vars PROVE BooksKept'
  OBVIOUS
<1>1. CASE UNCHANGED call
  BY <1>1 DEF BooksKept, CallTypes
<1>2. Driver \/ Plug \/ Unplug \/ Start \/ Stop \/ UNCHANGED vars => UNCHANGED call
  BY DEF Driver, DriverEvent, DriverMagic, DriverHello, DriverEcho, DriverFails,
         Plug, Unplug, Start, Stop, vars
<1>3. ASSUME NEW t \in Threads, Ask(t) \/ Thread(t) PROVE BooksKept'
  BY <1>3, AskKeeps, CheckKeeps, HeadKeeps, ExtraKeeps, ReplyKeeps, DataKeeps DEF Thread
<1>4. Next => \/ Driver \/ Plug \/ Unplug \/ Start \/ Stop
              \/ \E t \in Threads : Ask(t) \/ Thread(t)
  BY DEF Next, Driver, Ask, Thread
<1> QED
  BY <1>1, <1>2, <1>3, <1>4

LEMMA BooksHold == Spec => []BooksKept
<1>1. Init => BooksKept
  <2>1. NoCall \in Calls /\ Books(NoCall)
    BY DEF NoCall, Calls, CallStages, Books, Counted, Blocks
  <2> QED
    BY <2>1 DEF Init, BooksKept, CallTypes
<1> QED
  BY <1>1, BooksStep, PTL DEF Spec

\* Accounted: whatever block an error, a short count or a lost link falls into, the count
\* of a read or a write is what the server moved (host_driver.c:147, :286), and that of an
\* async write what was sent (main.c:864).
THEOREM CountsAreTrue == Spec => []Accounted
<1>1. BooksKept => Accounted
  BY DEF BooksKept, Books, Settled, Accounted, Counted
<1> QED
  BY <1>1, BooksHold, PTL

-----------------------------------------------------------------------------
(* The semaphore's queue                                                    *)

LEMMA AppendIn ==
  ASSUME NEW S, NEW s \in Seq(S), NEW u \in S
  PROVE  /\ Append(s, u) \in Seq(S) /\ In(u, Append(s, u))
         /\ \A v : In(v, s) => In(v, Append(s, u))
         /\ s # <<>> => Append(s, u) # <<>> /\ Head(Append(s, u)) = Head(s)
<1>1. /\ Append(s, u) \in Seq(S) /\ Len(Append(s, u)) = Len(s) + 1 /\ Len(s) \in Nat
      /\ \A i \in 1 .. Len(s) : Append(s, u)[i] = s[i]
      /\ Append(s, u)[Len(s) + 1] = u
  OBVIOUS
<1>2. In(u, Append(s, u))
  BY <1>1 DEF In
<1>3. ASSUME NEW v, In(v, s) PROVE In(v, Append(s, u))
  BY <1>1, <1>3 DEF In
<1>4. s # <<>> => Append(s, u) # <<>> /\ Head(Append(s, u)) = Head(s)
  OBVIOUS
<1> QED
  BY <1>1, <1>2, <1>3, <1>4

LEMMA TailIn ==
  ASSUME NEW S, NEW s \in Seq(S), s # <<>>
  PROVE  /\ Tail(s) \in Seq(S)
         /\ \A v : In(v, s) /\ v # Head(s) => In(v, Tail(s))
<1>1. /\ Tail(s) \in Seq(S) /\ Len(s) \in Nat /\ Len(Tail(s)) = Len(s) - 1 /\ Len(s) > 0
      /\ \A i \in 1 .. Len(s) - 1 : Tail(s)[i] = s[i + 1]
      /\ Head(s) = s[1]
  OBVIOUS
<1>2. ASSUME NEW v, In(v, s), v # Head(s) PROVE In(v, Tail(s))
  <2>1. PICK i \in 1 .. Len(s) : s[i] = v
    BY <1>2 DEF In
  <2>2. i # 1
    BY <1>1, <1>2, <2>1
  <2>3. i - 1 \in 1 .. Len(s) - 1 /\ (i - 1) + 1 = i
    BY <1>1, <2>2
  <2>4. Tail(s)[i - 1] = v
    BY <1>1, <2>1, <2>3
  <2> QED
    BY <1>1, <2>3, <2>4 DEF In
<1> QED
  BY <1>1, <1>2

LEMMA LeaveIn ==
  ASSUME BusTypes, NEW u
  PROVE  /\ LeaveBus(u) \in Seq(Threads \cup {"driver"})
         /\ \A v : In(v, bus) /\ v # u => In(v, LeaveBus(u))
<1>1. CASE Turn(u)
  BY <1>1, TailIn DEF Turn, LeaveBus, BusTypes
<1>2. CASE ~Turn(u)
  BY <1>2 DEF LeaveBus, BusTypes
<1> QED
  BY <1>1, <1>2

-----------------------------------------------------------------------------
(* Every step keeps the exchanges apart                                     *)

PipeInv == BusInv /\ CallTypes

\* While the cable is in, whoever is in an exchange is the only one, and has its turn.
LEMMA Alone ==
  ASSUME PipeInv, plugged, NEW t \in Threads,
         call[t].at \in {"extra", "reply", "data"} \/ MayWrite(t)
  PROVE  /\ started /\ connected /\ dpc = "wait" /\ Turn(t)
         /\ call[t].at # "queue" => Holds(t)
         /\ call[t].at = "queue" => Between
         /\ \A u \in Threads \ {t} : call[u].at \in Engaged => call[u].at = "queue"
<1>1. call[t].at \in Engaged
  BY DEF Engaged, MayWrite
<1>2. connected
  BY <1>1 DEF PipeInv, BusInv, Exchanges
<1>3. started /\ dpc = "wait"
  BY <1>2 DEF PipeInv, BusInv, Session
<1>4. Between \/ \E u \in Threads : Holds(u)
  BY <1>2 DEF PipeInv, BusInv, Exchanges
<1>5. CASE Between
  <2>1. call[t].at = "queue"
    BY <1>1, <1>5 DEF Between
  <2> QED
    BY <1>2, <1>3, <1>5, <2>1 DEF Between, MayWrite
<1>6. ASSUME NEW u \in Threads, Holds(u)
      PROVE  /\ Turn(t) /\ Holds(t) /\ call[t].at # "queue"
             /\ \A v \in Threads \ {t} : call[v].at \in Engaged => call[v].at = "queue"
  <2>1. u = t
    BY <1>1, <1>6 DEF Holds, MayWrite, Turn
  <2> QED
    BY <1>6, <2>1 DEF Holds
<1> QED
  BY <1>2, <1>3, <1>4, <1>5, <1>6

\* A thread that leaves its exchange, or moves on in it, while the session lasts.
LEMMA SessionKept ==
  ASSUME PipeInv, plugged, started, connected, dpc = "wait", NEW t \in Threads, NEW d,
         UNCHANGED <<started, plugged, events, connected, dpc>>,
         call' = [call EXCEPT ![t] = d],
         bus' \in Seq(Threads \cup {"driver"}),
         \A v : In(v, bus) /\ v # t => In(v, bus'),
         d.at \in Engaged => In(t, bus'),
         (Between \/ \E u \in Threads : Holds(u))'
  PROVE  BusInv'
<1>1. \A u \in Threads : call'[u] = IF u = t THEN d ELSE call[u]
  BY DEF PipeInv, CallTypes
<1>2. \A u \in Threads : call'[u].at \in Engaged => In(u, bus')
  BY <1>1 DEF PipeInv, BusInv, Queued
<1>3. BusTypes' /\ Session'
  BY DEF PipeInv, BusInv, BusTypes, Session
<1>4. Queued'
  BY <1>2 DEF Queued
<1>5. Exchanges'
  BY DEF Exchanges
<1> QED
  BY <1>3, <1>4, <1>5 DEF BusInv

LEMMA HeadFrames == ASSUME PipeInv, NEW t \in Threads, WriteHead(t) PROVE BusInv'
<1> DEFINE c == call[t]
<1>1. plugged /\ MayWrite(t) /\ c.at = "queue" /\ Turn(t)
      /\ UNCHANGED <<started, plugged, events, connected, dpc>>
  BY DEF WriteHead, MayWrite
<1>2. /\ started /\ connected /\ dpc = "wait"
      /\ \A u \in Threads \ {t} : call[u].at \in Engaged => call[u].at = "queue"
  BY <1>1, Alone
<1>3. t \in Threads \cup {"driver"} /\ BusTypes /\ In(t, bus)
  BY <1>1, <1>2 DEF PipeInv, BusInv, Queued, Engaged
<1>4. CASE c.kind = "async"
  <2> DEFINE d == NextBlock([c EXCEPT !.moved = @ + Block(c)], Block(c))
  <2>1. /\ call' = [call EXCEPT ![t] = d] /\ host' = Expect("idle", "driver")
        /\ bus' = IF d.at = "queue" THEN Append(LeaveBus(t), t) ELSE LeaveBus(t)
    BY <1>4 DEF WriteHead
  <2>2. d.at \in {"queue", "done"}
    <3>1. c \in Calls
      BY DEF PipeInv, CallTypes
    <3> DEFINE e == [c EXCEPT !.moved = c.moved + Block(c)]
    <3>2. c.moved + Block(c) \in Nat /\ Block(c) \in Nat
      BY <3>1, CallFields, BlockTyped
    <3>3. e \in Calls /\ e.kind = "async"
      BY <1>4, <3>1, <3>2 DEF Calls
    <3> HIDE DEF e
    <3>4. NextBlock(e, Block(c)).at \in {"queue", "done"}
      BY <3>2, <3>3, NextDue
    <3> QED
      BY <3>4 DEF e
  <2> HIDE DEF d
  <2>3. /\ LeaveBus(t) \in Seq(Threads \cup {"driver"})
        /\ \A v : In(v, bus) /\ v # t => In(v, LeaveBus(t))
    BY <1>3, LeaveIn
  <2>4. /\ bus' \in Seq(Threads \cup {"driver"})
        /\ \A v : In(v, bus) /\ v # t => In(v, bus')
        /\ d.at \in Engaged => In(t, bus')
    <3>1. CASE d.at = "queue"
      BY <1>3, <2>1, <2>3, <3>1, AppendIn
    <3>2. CASE d.at = "done"
      BY <2>1, <2>3, <3>2 DEF Engaged
    <3> QED
      BY <2>2, <3>1, <3>2
  <2>5. Between'
    <3>1. ASSUME NEW u \in Threads, call'[u].at \in Engaged PROVE call'[u].at = "queue"
      BY <1>2, <2>1, <2>2, <3>1 DEF PipeInv, CallTypes, Engaged
    <3> QED
      BY <2>1, <3>1 DEF Between, Expect
  <2> QED
    BY <1>1, <1>2, <2>1, <2>4, <2>5, SessionKept
<1>5. CASE c.kind # "async"
  <2> DEFINE at == IF c.out THEN "extra" ELSE "reply"
             d == [c EXCEPT !.at = at]
  <2>1. /\ call' = [call EXCEPT ![t] = d] /\ UNCHANGED bus
        /\ host' = Expect(IF c.out THEN "extra" ELSE "answer", t)
    BY <1>5 DEF WriteHead, PipeInv, CallTypes
  <2>2. d.at = at
    BY DEF PipeInv, CallTypes, Calls
  <2> HIDE DEF d
  <2>3. call'[t].at = at /\ \A u \in Threads \ {t} : call'[u] = call[u]
    BY <2>1, <2>2 DEF PipeInv, CallTypes
  <2>4. Holds(t)'
    BY <1>1, <1>2, <2>1, <2>3 DEF Holds, Turn, Expect, Engaged
  <2> QED
    BY <1>1, <1>2, <1>3, <2>1, <2>4, SessionKept DEF BusTypes
<1> QED
  BY <1>4, <1>5

\* The holder ends its exchange.
LEMMA EndFrames ==
  ASSUME PipeInv, plugged, NEW t \in Threads, call[t].at \in {"extra", "reply", "data"}, NEW d,
         d.at \notin Engaged,
         UNCHANGED <<started, plugged, events, connected, dpc>>,
         call' = [call EXCEPT ![t] = d], bus' = LeaveBus(t), host' = Expect("idle", "driver")
  PROVE  BusInv'
<1>1. /\ started /\ connected /\ dpc = "wait"
      /\ \A u \in Threads \ {t} : call[u].at \in Engaged => call[u].at = "queue"
  BY Alone
<1>2. /\ bus' \in Seq(Threads \cup {"driver"})
      /\ \A v : In(v, bus) /\ v # t => In(v, bus')
  BY LeaveIn DEF PipeInv, BusInv
<1>3. \A u \in Threads : call'[u] = IF u = t THEN d ELSE call[u]
  BY DEF PipeInv, CallTypes
<1>4. Between'
  BY <1>1, <1>3 DEF Between, Expect
<1> QED
  BY <1>1, <1>2, <1>4, SessionKept

\* The holder goes on to the next transfer of its exchange.
LEMMA MoveFrames ==
  ASSUME PipeInv, plugged, NEW t \in Threads, call[t].at \in {"extra", "reply", "data"}, NEW d,
         \/ d.at = "reply" /\ host' = Expect("answer", t)
         \/ d.at = "data" /\ host' = Expect("data", t),
         UNCHANGED <<started, plugged, events, connected, dpc, bus>>,
         call' = [call EXCEPT ![t] = d]
  PROVE  BusInv'
<1>1. /\ started /\ connected /\ dpc = "wait" /\ Turn(t)
      /\ \A u \in Threads \ {t} : call[u].at \in Engaged => call[u].at = "queue"
  BY Alone
<1>2. \A u \in Threads : call'[u] = IF u = t THEN d ELSE call[u]
  BY DEF PipeInv, CallTypes
<1>3. Holds(t)'
  BY <1>1, <1>2 DEF Holds, Turn, Expect
<1>4. BusTypes /\ In(t, bus)
  BY <1>1 DEF PipeInv, BusInv, Queued, Engaged
<1> QED
  BY <1>1, <1>3, <1>4, SessionKept DEF BusTypes

LEMMA ExtraFrames == ASSUME PipeInv, NEW t \in Threads, WriteExtra(t) PROVE BusInv'
<1>1. /\ call[t].at = "extra" /\ plugged
      /\ UNCHANGED <<started, plugged, events, connected, dpc>>
      /\ call[t] \in Calls
  BY DEF WriteExtra, PipeInv, CallTypes
<1>2. CASE call[t].kind = "bulk"
  <2> DEFINE d == [call[t] EXCEPT !.at = "done"]
  <2>1. call' = [call EXCEPT ![t] = d] /\ bus' = LeaveBus(t) /\ host' = Expect("idle", "driver")
    BY <1>2 DEF WriteExtra
  <2>2. d.at \notin Engaged
    BY <1>1 DEF Engaged, Calls
  <2> QED
    BY <1>1, <2>1, <2>2, EndFrames
<1>3. CASE call[t].kind # "bulk"
  <2> DEFINE d == [call[t] EXCEPT !.at = "reply"]
  <2>1. call' = [call EXCEPT ![t] = d] /\ UNCHANGED bus /\ host' = Expect("answer", t)
    BY <1>3 DEF WriteExtra
  <2>2. d.at = "reply"
    BY <1>1 DEF Calls
  <2> QED
    BY <1>1, <2>1, <2>2, MoveFrames
<1> QED
  BY <1>2, <1>3

LEMMA ReplyFrames == ASSUME PipeInv, NEW t \in Threads, ReadReply(t) PROVE BusInv'
<1> DEFINE c == call[t]
<1>1. /\ c.at = "reply" /\ plugged /\ UNCHANGED <<started, plugged, events, connected, dpc>>
      /\ c \in Calls
  BY DEF ReadReply, PipeInv, CallTypes
<1> DEFINE Seen(n, res) == [c EXCEPT !.moved = @ + n,
                                     !.short = @ \/ (c.kind \in Blocks /\ res < Block(c))]
           Count(res) == IF c.kind \in Blocks /\ res > 0 THEN res ELSE 0
<1>2. PICK res \in Answers(c) :
        \/ /\ call' = [call EXCEPT ![t] = [Seen(Count(res), res) EXCEPT
                                             !.at = "data", !.ret = @ + Count(res)]]
           /\ host' = Expect("data", t) /\ UNCHANGED bus
        \/ /\ call' = [call EXCEPT ![t] = Answered(Seen(Count(res), res), res)]
           /\ host' = Expect("idle", "driver") /\ bus' = LeaveBus(t)
  BY DEF ReadReply
<1> DEFINE s == Seen(Count(res), res)
<1>3. s \in Calls /\ s.kind = c.kind /\ (c.kind \in Blocks => res \in Int)
  <2> DEFINE short == c.short \/ (c.kind \in Blocks /\ res < Block(c))
             moved == c.moved + Count(res)
  <2>1. Block(c) \in Nat /\ c.moved \in Nat /\ c.short \in BOOLEAN
    BY <1>1, BlockTyped, CallFields
  <2>2. c.kind \in Blocks => res \in Int
    BY <1>2, <2>1 DEF Answers
  <2>3. short \in BOOLEAN /\ moved \in Nat
    BY <2>1, <2>2
  <2>4. s = [c EXCEPT !.moved = moved, !.short = short]
    OBVIOUS
  <2> HIDE DEF s, short, moved
  <2> QED
    BY <1>1, <2>2, <2>3, <2>4 DEF Calls
<1>4. CASE call' = [call EXCEPT ![t] = [s EXCEPT !.at = "data", !.ret = @ + Count(res)]]
           /\ host' = Expect("data", t) /\ UNCHANGED bus
  <2> DEFINE d == [s EXCEPT !.at = "data", !.ret = @ + Count(res)]
  <2>1. d.at = "data"
    <3> HIDE DEF s
    <3> QED
      BY <1>3 DEF Calls
  <2> HIDE DEF d
  <2>2. call' = [call EXCEPT ![t] = d]
    BY <1>4 DEF d
  <2> QED
    BY <1>1, <1>4, <2>1, <2>2, MoveFrames
<1>5. CASE call' = [call EXCEPT ![t] = Answered(s, res)]
           /\ host' = Expect("idle", "driver") /\ bus' = LeaveBus(t)
  <2> HIDE DEF s
  <2>1. Answered(s, res).at \in {"check", "done"}
    <3>1. CASE s.kind \in Blocks /\ res > 0
      <4>1. NextBlock(s, res).at \in {"check", "done"}
        BY <1>3, <3>1, NextDue DEF Blocks
      <4> QED
        BY <3>1, <4>1 DEF Answered
    <3>2. CASE ~(s.kind \in Blocks /\ res > 0)
      BY <1>3, <3>2 DEF Answered, Finished, Calls
    <3> QED
      BY <3>1, <3>2
  <2>2. Answered(s, res).at \notin Engaged
    BY <2>1 DEF Engaged
  <2> QED
    BY <1>1, <1>5, <2>2, EndFrames
<1> QED
  BY <1>2, <1>4, <1>5

LEMMA DataFrames == ASSUME PipeInv, NEW t \in Threads, ReadExtra(t) PROVE BusInv'
<1> DEFINE c == call[t]
           d == IF c.kind \in Blocks THEN NextBlock(c, 0) ELSE [c EXCEPT !.at = "done"]
<1>1. /\ c.at = "data" /\ plugged /\ UNCHANGED <<started, plugged, events, connected, dpc>>
      /\ call' = [call EXCEPT ![t] = d] /\ bus' = LeaveBus(t) /\ host' = Expect("idle", "driver")
      /\ c \in Calls
  BY DEF ReadExtra, PipeInv, CallTypes
<1>2. d.at \in {"check", "done"}
  <2>1. CASE c.kind \in Blocks
    BY <1>1, <2>1, NextDue DEF Blocks
  <2>2. CASE c.kind \notin Blocks
    BY <1>1, <2>2 DEF Calls
  <2> QED
    BY <2>1, <2>2
<1> HIDE DEF d
<1>3. d.at \notin Engaged
  BY <1>2 DEF Engaged
<1> QED
  BY <1>1, <1>3, EndFrames

\* A thread outside an exchange comes, or returns.
LEMMA ApartFrames ==
  ASSUME PipeInv, NEW t \in Threads, NEW d, d.at \notin Engaged, call[t].at \notin Engaged,
         UNCHANGED <<started, plugged, events, connected, bus, dpc, host>>,
         call' = [call EXCEPT ![t] = d]
  PROVE  BusInv'
<1>1. \A u \in Threads : call'[u] = IF u = t THEN d ELSE call[u]
  BY DEF PipeInv, CallTypes
<1>2. BusTypes' /\ Session'
  BY DEF PipeInv, BusInv, BusTypes, Session
<1>3. Queued'
  BY <1>1 DEF PipeInv, BusInv, Queued
<1>4. Between => Between'
  BY <1>1 DEF Between
<1>5. ASSUME NEW u \in Threads, Holds(u) PROVE Holds(u)'
  <2>1. u # t
    BY <1>5 DEF Holds, Engaged
  <2> QED
    BY <1>1, <1>5, <2>1 DEF Holds, Turn
<1>6. Exchanges'
  BY <1>1, <1>4, <1>5 DEF PipeInv, BusInv, Exchanges
<1> QED
  BY <1>2, <1>3, <1>6 DEF BusInv

LEMMA BeginFrames == ASSUME PipeInv, NEW t \in Threads, Ask(t) PROVE BusInv'
<1>1. ASSUME NEW kind, NEW out, NEW in, NEW len, Begin(t, kind, out, in, len) PROVE BusInv'
  <2>1. PICK d : call' = [call EXCEPT ![t] = d] /\ d.at = "check"
    <3> DEFINE d == [NoCall EXCEPT
                       !.kind = kind, !.at = "check", !.out = out, !.in = in, !.want = len,
                       !.left = len \div MaxBlock, !.rest = len % MaxBlock]
    <3>1. call' = [call EXCEPT ![t] = d]
      BY <1>1 DEF Begin
    <3>2. d.at = "check"
      BY DEF NoCall
    <3> QED
      BY <3>1, <3>2
  <2>2. /\ call[t].at = "idle"
        /\ UNCHANGED <<started, plugged, events, connected, bus, dpc, host>>
    BY <1>1 DEF Begin
  <2> QED
    BY <2>1, <2>2, ApartFrames DEF Engaged
<1>2. CASE Read(t) \/ Write(t) \/ Async(t)
  BY <1>1, <1>2 DEF Read, Write, Async
<1>3. CASE \/ Open(t) \/ Close(t) \/ Lseek(t) \/ Remove(t) \/ Mkdir(t) \/ Rmdir(t)
           \/ Dopen(t) \/ Dclose(t) \/ Dread(t)
  BY <1>1, <1>3 DEF Open, Close, Lseek, Remove, Mkdir, Rmdir, Dopen, Dclose, Dread
<1>4. CASE \/ Getstat(t) \/ Chstat(t) \/ Rename(t) \/ Chdir(t) \/ Ioctl(t) \/ Devctl(t)
           \/ Bulk(t)
  BY <1>1, <1>4 DEF Getstat, Chstat, Rename, Chdir, Ioctl, Devctl, Bulk
<1> QED
  BY <1>2, <1>3, <1>4 DEF Ask

\* The wait for the semaphore, or the refusal.
LEMMA CheckFrames == ASSUME PipeInv, NEW t \in Threads, Check(t) PROVE BusInv'
<1>1. /\ call[t].at = "check" /\ ~DriverRunnable /\ call[t] \in Calls
      /\ UNCHANGED <<started, plugged, events, connected, dpc, host>>
  BY DEF Check, PipeInv, CallTypes
<1>2. CASE connected
  <2> DEFINE d == [call[t] EXCEPT !.at = "queue"]
  <2>1. call' = [call EXCEPT ![t] = d] /\ bus' = Append(bus, t)
    BY <1>2 DEF Check
  <2>2. d.at = "queue"
    BY <1>1 DEF Calls
  <2> HIDE DEF d
  <2>3. started /\ dpc = "wait" /\ plugged
    BY <1>1, <1>2 DEF PipeInv, BusInv, Session, DriverRunnable
  <2>4. BusTypes /\ t \in Threads \cup {"driver"}
    BY DEF PipeInv, BusInv
  <2>5. /\ bus' \in Seq(Threads \cup {"driver"}) /\ In(t, bus')
        /\ \A v : In(v, bus) => In(v, bus')
        /\ bus # <<>> => bus' # <<>> /\ Head(bus') = Head(bus)
    BY <2>1, <2>4, AppendIn DEF BusTypes
  <2>6. \A u \in Threads : call'[u] = IF u = t THEN d ELSE call[u]
    BY <2>1 DEF PipeInv, CallTypes
  <2>7. Between => Between'
    BY <1>1, <2>2, <2>6 DEF Between
  <2>8. ASSUME NEW u \in Threads, Holds(u) PROVE Holds(u)'
    <3>1. u # t
      BY <1>1, <2>8 DEF Holds
    <3>2. call'[u] = call[u] /\ Turn(u)'
      BY <2>5, <2>6, <2>8, <3>1 DEF Holds, Turn
    <3>3. \A v \in Threads \ {u} : call'[v].at \in Engaged => call'[v].at = "queue"
      BY <2>2, <2>6, <2>8 DEF Holds
    <3> QED
      BY <1>1, <2>8, <3>2, <3>3 DEF Holds
  <2>9. Between \/ \E u \in Threads : Holds(u)
    BY <1>2, <2>3 DEF PipeInv, BusInv, Exchanges
  <2> QED
    BY <1>1, <1>2, <2>1, <2>3, <2>5, <2>7, <2>8, <2>9, SessionKept
<1>3. CASE ~connected
  <2>1. call' = [call EXCEPT ![t] = Failed(call[t])] /\ UNCHANGED bus
    BY <1>3 DEF Check
  <2>2. Failed(call[t]).at = "done"
    BY <1>1 DEF Failed, Calls
  <2> QED
    BY <1>1, <2>1, <2>2, ApartFrames DEF Engaged
<1> QED
  BY <1>2, <1>3

LEMMA ReturnFrames == ASSUME PipeInv, NEW t \in Threads, Return(t) PROVE BusInv'
<1>1. NoCall.at = "idle"
  BY DEF NoCall
<1> QED
  BY <1>1, ApartFrames DEF Return, Engaged

LEMMA FailFrames == ASSUME PipeInv, NEW t \in Threads, XchgFails(t) PROVE BusInv'
<1>1. /\ ~started \/ (started /\ ~plugged /\ Turn(t))
      /\ UNCHANGED <<started, plugged, events, connected, dpc, host>>
      /\ call' = [call EXCEPT ![t] = Failed(call[t])] /\ bus' = LeaveBus(t)
      /\ call[t] \in Calls
  BY DEF XchgFails, PipeInv, CallTypes
<1>2. ~plugged
  BY <1>1 DEF PipeInv, BusInv, Session
<1>3. Failed(call[t]).at \notin Engaged
  BY <1>1 DEF Failed, Calls, Engaged
<1>4. \A u \in Threads : call'[u] = IF u = t THEN Failed(call[t]) ELSE call[u]
  BY <1>1 DEF PipeInv, CallTypes
<1>5. /\ bus' \in Seq(Threads \cup {"driver"})
      /\ \A v : In(v, bus) /\ v # t => In(v, bus')
  BY <1>1, LeaveIn DEF PipeInv, BusInv
<1>6. t # "driver"
  BY HostFsAssumption
<1>7. Queued'
  BY <1>1, <1>3, <1>4, <1>5, <1>6 DEF PipeInv, BusInv, Queued
<1>8. BusTypes' /\ Session'
  BY <1>1, <1>5 DEF PipeInv, BusInv, BusTypes, Session
<1>9. Exchanges'
  BY <1>1, <1>2 DEF Exchanges
<1> QED
  BY <1>7, <1>8, <1>9 DEF BusInv

\* usb_thread: nobody is in an exchange until its handshake is over.
LEMMA DriverFrames == ASSUME PipeInv, Driver PROVE BusInv'
<1> USE DEF PipeInv, BusInv
<1>1. UNCHANGED <<started, plugged, call>>
  BY DEF Driver, DriverEvent, DriverMagic, DriverHello, DriverEcho, DriverFails
<1>2. CASE DriverEvent
  <2>1. /\ started /\ dpc = "wait" /\ events # {} /\ events' = {} /\ connected' = FALSE
        /\ dpc' \in {"magic", "wait"} /\ UNCHANGED <<bus, host>>
    BY <1>2 DEF DriverEvent
  <2>2. plugged => ~connected
    BY <2>1 DEF Session
  <2>3. BusTypes' /\ Session'
    BY <1>1, <2>1 DEF BusTypes, Session
  <2>4. Queued' /\ Exchanges'
    BY <1>1, <2>1, <2>2 DEF Queued, Exchanges
  <2> QED
    BY <2>3, <2>4
<1>3. CASE DriverMagic
  <2>1. /\ dpc = "magic" /\ plugged /\ dpc' = "hello" /\ bus' = Append(bus, "driver")
        /\ host' = Expect("hello", "driver") /\ UNCHANGED <<events, connected>>
    BY <1>3 DEF DriverMagic
  <2>2. /\ bus' \in Seq(Threads \cup {"driver"}) /\ In("driver", bus')
        /\ \A v : In(v, bus) => In(v, bus')
    BY <2>1, AppendIn DEF BusTypes
  <2>3. BusTypes' /\ Session'
    BY <1>1, <2>1, <2>2 DEF BusTypes, Session
  <2>4. Queued'
    BY <1>1, <2>1, <2>2 DEF Queued
  <2>5. Exchanges'
    BY <1>1, <2>1 DEF Exchanges, Session, Expect
  <2> QED
    BY <2>3, <2>4, <2>5
<1>4. CASE DriverHello
  <2>1. /\ dpc = "hello" /\ dpc' = "echo" /\ host' = Expect("echo", "driver")
        /\ UNCHANGED <<events, connected, bus>>
    BY <1>4 DEF DriverHello
  <2> QED
    BY <1>1, <2>1 DEF BusTypes, Session, Queued, Exchanges, Expect
<1>5. CASE DriverEcho
  <2>1. /\ dpc = "echo" /\ plugged /\ dpc' = "wait" /\ connected' = TRUE
        /\ bus' = LeaveBus("driver") /\ host' = Expect("idle", "driver") /\ UNCHANGED events
    BY <1>5 DEF DriverEcho
  <2>2. ~connected /\ events = {} /\ started
    BY <2>1 DEF Session
  <2>3. \A t \in Threads : call[t].at \notin Engaged
    BY <2>1, <2>2 DEF Exchanges
  <2>4. bus' \in Seq(Threads \cup {"driver"})
    BY <2>1, LeaveIn
  <2>5. BusTypes' /\ Session' /\ Queued'
    BY <1>1, <2>1, <2>2, <2>3, <2>4 DEF BusTypes, Session, Queued
  <2>6. Exchanges'
    BY <1>1, <2>1, <2>3 DEF Exchanges, Between, Expect
  <2> QED
    BY <2>5, <2>6
<1>6. CASE DriverFails
  <2>1. /\ ~plugged /\ dpc \in {"magic", "hello", "echo"} /\ dpc' = "wait"
        /\ bus' = LeaveBus("driver") /\ UNCHANGED <<events, connected, host>>
    BY <1>6 DEF DriverFails
  <2>2. /\ bus' \in Seq(Threads \cup {"driver"})
        /\ \A v : In(v, bus) /\ v # "driver" => In(v, bus')
    BY <2>1, LeaveIn
  <2>3. ~connected /\ started
    BY <2>1 DEF Session
  <2>4. BusTypes' /\ Session' /\ Exchanges'
    BY <1>1, <2>1, <2>2, <2>3 DEF BusTypes, Session, Exchanges
  <2>5. Queued'
    BY <1>1, <2>1, <2>2, HostFsAssumption DEF Queued
  <2> QED
    BY <2>4, <2>5
<1> QED
  BY <1>2, <1>3, <1>4, <1>5, <1>6 DEF Driver

\* The cable and the application.
LEMMA CableFrames == ASSUME PipeInv, Plug \/ Unplug \/ Start \/ Stop PROVE BusInv'
<1> USE DEF PipeInv, BusInv
<1>1. CASE Plug
  <2>1. /\ started /\ ~plugged /\ ~DriverRunnable /\ bus = <<>>
        /\ plugged' = TRUE /\ events' = events \cup {"attach"}
        /\ UNCHANGED <<started, connected, bus, dpc, call, host>>
    BY <1>1 DEF Plug
  <2>2. \A v : ~In(v, bus)
    BY <2>1 DEF In
  <2>3. dpc = "wait" /\ \A t \in Threads : call[t].at \notin Engaged
    <3>1. dpc \notin {"hello", "echo"} /\ \A t \in Threads : call[t].at \notin Engaged
      BY <2>1, <2>2 DEF Queued
    <3>2. dpc # "none" /\ dpc # "magic"
      BY <2>1 DEF Session, DriverRunnable
    <3> QED
      BY <3>1, <3>2 DEF BusTypes
  <2>4. ~connected
    BY <2>1, <2>3 DEF Session, DriverRunnable
  <2> QED
    BY <2>1, <2>3, <2>4 DEF BusTypes, Session, Queued, Exchanges
<1>2. CASE Unplug
  <2>1. /\ plugged /\ plugged' = FALSE /\ events' = events \cup {"detach"}
        /\ UNCHANGED <<started, connected, bus, dpc, call>>
    BY <1>2 DEF Unplug
  <2> QED
    BY <2>1 DEF BusTypes, Session, Queued, Exchanges
<1>3. CASE Start
  <2>1. /\ ~started /\ \A t \in Threads : call[t].at \notin Engaged
        /\ started' = TRUE /\ dpc' = "wait" /\ bus' = <<>>
        /\ UNCHANGED <<plugged, connected, call, host>>
    BY <1>3 DEF Start, Engaged
  <2>2. ~plugged /\ ~connected
    BY <2>1 DEF Session
  <2> QED
    BY <2>1, <2>2 DEF BusTypes, Session, Queued, Exchanges
<1>4. CASE Stop
  <2>1. /\ started /\ ~plugged /\ ~DriverRunnable /\ started' = FALSE /\ dpc' = "none"
        /\ bus' = <<>> /\ UNCHANGED <<plugged, events, connected, call, host>>
    BY <1>4 DEF Stop
  <2>2. ~connected
    BY <2>1 DEF Session, DriverRunnable
  <2> QED
    BY <2>1, <2>2 DEF BusTypes, Session, Queued, Exchanges
<1> QED
  BY <1>1, <1>2, <1>3, <1>4

LEMMA PipeStep == BusInv /\ BooksKept /\ [Next]_vars => BusInv'
<1> SUFFICES ASSUME BusInv, BooksKept, [Next]_vars PROVE BusInv'
  OBVIOUS
<1>1. PipeInv
  BY DEF PipeInv, BooksKept
<1>2. ASSUME NEW t \in Threads, Ask(t) \/ Thread(t) PROVE BusInv'
  BY <1>1, <1>2, BeginFrames, CheckFrames, HeadFrames, ExtraFrames, ReplyFrames, DataFrames,
     FailFrames, ReturnFrames DEF Thread
<1>3. CASE UNCHANGED vars
  BY <1>3 DEF vars, BusInv, BusTypes, Session, Queued, Exchanges, Between, Holds, Turn
<1>4. Next => \/ Driver \/ Plug \/ Unplug \/ Start \/ Stop
              \/ \E t \in Threads : Ask(t) \/ Thread(t)
  BY DEF Next, Driver, Ask, Thread
<1> QED
  BY <1>1, <1>2, <1>3, <1>4, DriverFrames, CableFrames

LEMMA PipeHolds == Spec => []BusInv
<1>1. Init => BusInv
  <2> SUFFICES ASSUME Init PROVE BusTypes /\ Session /\ Queued /\ Exchanges
    BY DEF BusInv
  <2>1. /\ ~started /\ ~plugged /\ ~connected /\ dpc = "none" /\ bus = <<>>
        /\ plugged \in BOOLEAN /\ connected \in BOOLEAN
    BY DEF Init
  <2>2. BusTypes
    BY <2>1 DEF BusTypes
  <2> QED
    BY <2>1, <2>2 DEF Session, Queued, Exchanges
<1> QED
  BY <1>1, PipeStep, BooksHold, PTL DEF Spec

\* Framed: however many threads call, and whenever the cable is pulled or the driver
\* restarted, a command, its data and its answer come in one piece: nothing falls between
\* the transfers of command_xchg (main.c:510), of a bulk write (main.c:942) or of the hello
\* of a new connection (main.c:634), for usbLockBus is held from the first to the last.
THEOREM CommandsInOnePiece == Spec => []Framed
<1>1. BusInv /\ BooksKept => Framed
  <2> SUFFICES ASSUME PipeInv, plugged PROVE Framed
    BY DEF Framed, PipeInv, BooksKept
  <2>1. ASSUME NEW t \in Threads
        PROVE  /\ MayWrite(t) => host = Expect("idle", "driver")
               /\ call[t].at = "extra" => host = Expect("extra", t)
               /\ call[t].at = "reply" => host = Expect("answer", t)
               /\ call[t].at = "data" => host = Expect("data", t)
    <3>1. MayWrite(t) => host = Expect("idle", "driver")
      BY Alone DEF MayWrite, Between
    <3>2. call[t].at \in {"extra", "reply", "data"} => Holds(t)
      BY Alone
    <3> QED
      BY <3>1, <3>2 DEF Holds
  <2> QED
    BY <2>1 DEF Framed, PipeInv, BusInv, Exchanges
<1> QED
  BY <1>1, PipeHolds, BooksHold, PTL

-----------------------------------------------------------------------------
(* Types                                                                    *)

OtherTypes ==
  /\ started \in BOOLEAN /\ events \subseteq {"attach", "detach"}
  /\ handle \in [Threads -> Nat]
  /\ host \in [at : {"off", "hello", "echo", "idle", "extra", "answer", "data"},
               from : Threads \cup {"driver"}]

LEMMA TypesStep == OtherTypes /\ [Next]_vars => OtherTypes'
<1> SUFFICES ASSUME OtherTypes, [Next]_vars PROVE OtherTypes'
  OBVIOUS
<1>1. CASE UNCHANGED <<started, events, handle, host>>
  BY <1>1 DEF OtherTypes
<1>2. CASE Driver
  <2>1. events' \in {events, {}} /\ UNCHANGED <<started, handle>>
    BY <1>2 DEF Driver, DriverEvent, DriverMagic, DriverHello, DriverEcho, DriverFails
  <2>2. host' \in {host, Expect("hello", "driver"), Expect("echo", "driver"),
                   Expect("idle", "driver")}
    BY <1>2 DEF Driver, DriverEvent, DriverMagic, DriverHello, DriverEcho, DriverFails
  <2> QED
    BY <2>1, <2>2 DEF OtherTypes, Expect
<1>3. CASE Plug \/ Unplug \/ Start \/ Stop
  <2>1. /\ events' \in {events, {}, events \cup {"attach"}, events \cup {"detach"}}
        /\ host' \in {host, Expect("off", "driver")} /\ UNCHANGED handle
    BY <1>3 DEF Plug, Unplug, Start, Stop
  <2>2. started' \in BOOLEAN
    BY <1>3 DEF Plug, Unplug, Start, Stop, OtherTypes
  <2> QED
    BY <2>1, <2>2 DEF OtherTypes, Expect
<1>4. ASSUME NEW t \in Threads, WriteHead(t) \/ WriteExtra(t) \/ ReadExtra(t) PROVE OtherTypes'
  <2>1. UNCHANGED <<started, events, handle>>
    BY <1>4 DEF WriteHead, WriteExtra, ReadExtra
  <2>2. host' \in {Expect("idle", "driver"), Expect("extra", t), Expect("answer", t)}
    BY <1>4 DEF WriteHead, WriteExtra, ReadExtra
  <2> QED
    BY <2>1, <2>2 DEF OtherTypes, Expect
<1>5. ASSUME NEW t \in Threads, ReadReply(t) PROVE OtherTypes'
  <2>1. PICK res \in Answers(call[t]) :
          handle' = [handle EXCEPT ![t] = HandleAfter(call[t], res, handle[t])]
    BY <1>5 DEF ReadReply
  <2>2. HandleAfter(call[t], res, handle[t]) \in Nat
    <3>1. handle[t] \in Nat
      BY DEF OtherTypes
    <3>2. CASE call[t].kind \in {"open", "dopen"}
      BY <2>1, <3>1, <3>2 DEF HandleAfter, Answers, Blocks
    <3>3. CASE call[t].kind \notin {"open", "dopen"}
      BY <3>1, <3>3 DEF HandleAfter
    <3> QED
      BY <3>2, <3>3
  <2>3. host' \in {Expect("idle", "driver"), Expect("data", t)} /\ UNCHANGED <<started, events>>
    BY <1>5 DEF ReadReply
  <2> QED
    BY <2>1, <2>2, <2>3 DEF OtherTypes, Expect
<1>6. ASSUME NEW t \in Threads, Ask(t) PROVE UNCHANGED <<started, events, handle, host>>
  <2>1. ASSUME NEW kind, NEW out, NEW in, NEW len, Begin(t, kind, out, in, len)
        PROVE  UNCHANGED <<started, events, handle, host>>
    BY <2>1 DEF Begin
  <2>2. CASE Read(t) \/ Write(t) \/ Async(t)
    BY <2>1, <2>2 DEF Read, Write, Async
  <2>3. CASE \/ Open(t) \/ Close(t) \/ Lseek(t) \/ Remove(t) \/ Mkdir(t) \/ Rmdir(t)
             \/ Dopen(t) \/ Dclose(t) \/ Dread(t)
    BY <2>1, <2>3 DEF Open, Close, Lseek, Remove, Mkdir, Rmdir, Dopen, Dclose, Dread
  <2>4. CASE \/ Getstat(t) \/ Chstat(t) \/ Rename(t) \/ Chdir(t) \/ Ioctl(t) \/ Devctl(t)
             \/ Bulk(t)
    BY <2>1, <2>4 DEF Getstat, Chstat, Rename, Chdir, Ioctl, Devctl, Bulk
  <2> QED
    BY <1>6, <2>2, <2>3, <2>4 DEF Ask
<1>7. ASSUME NEW t \in Threads, Check(t) \/ XchgFails(t) \/ Return(t)
      PROVE  UNCHANGED <<started, events, handle, host>>
  BY <1>7 DEF Check, XchgFails, Return
<1>8. Next => \/ Driver \/ Plug \/ Unplug \/ Start \/ Stop
              \/ \E t \in Threads : Ask(t) \/ Thread(t)
  BY DEF Next, Driver, Ask, Thread
<1> QED
  BY <1>1, <1>2, <1>3, <1>4, <1>5, <1>6, <1>7, <1>8 DEF Thread, vars

\* TypeOK of the driver, its callers and the file server.
THEOREM TypeCorrect == Spec => []TypeOK
<1>1. Init => OtherTypes
  <2> SUFFICES ASSUME Init PROVE OtherTypes
    OBVIOUS
  <2>1. started = FALSE /\ events = {} /\ host = Expect("off", "driver")
    BY DEF Init
  <2>2. handle \in [Threads -> Nat]
    BY DEF Init
  <2> QED
    BY <2>1, <2>2 DEF OtherTypes, Expect
<1>2. OtherTypes /\ BusInv /\ BooksKept => TypeOK
  <2> SUFFICES ASSUME OtherTypes, BusInv, BooksKept PROVE TypeOK
    OBVIOUS
  <2>1. ASSUME NEW t \in Threads
        PROVE  /\ call[t].kind \in Kinds \cup {"none"} /\ call[t].at \in CallStages
               /\ call[t].ret \in Int /\ call[t].moved \in Nat /\ handle[t] \in Nat
    BY CallFields DEF BooksKept, CallTypes, OtherTypes
  <2>2. host.at \in {"off", "hello", "echo", "idle", "extra", "answer", "data"}
        /\ host.from \in Threads \cup {"driver"}
    BY DEF OtherTypes
  <2> QED
    BY <2>1, <2>2 DEF OtherTypes, BusInv, BusTypes, TypeOK
<1> QED
  BY <1>1, <1>2, TypesStep, PipeHolds, BooksHold, PTL DEF Spec
=============================================================================
