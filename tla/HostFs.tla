------------------------------- MODULE HostFs -------------------------------
(***************************************************************************)
(* The commands of the PSP's USB driver (usbhostfs): each io_* function of *)
(* host_driver.c is one exchange with a file server on the PC, reads and   *)
(* writes are one exchange per block, and shell output and bulk data go    *)
(* out through the same pipe.  Any number of threads call them, while the  *)
(* cable comes and goes and the driver is started and stopped.             *)
(*                                                                         *)
(* A transfer is a rendezvous: it ends when the PC takes or gives the      *)
(* bytes, and with an error when the bus goes down.  The file server is    *)
(* external, modelled from what the driver expects of it; the Linux host   *)
(* of this repository only ever answers the hello.                         *)
(***************************************************************************)
EXTENDS Integers, Sequences

CONSTANTS
  Threads,    \* application threads
  Repertoire, \* the calls each of them makes
  MaxBlock,   \* HOSTFS_MAX_BLOCK, and the data of one async packet
  Lens        \* bound: lengths of reads and writes

Named  == {"open", "dopen", "remove", "mkdir", "rmdir", "chstat", "rename", "chdir"}
Plain  == {"close", "dclose", "lseek"}
Blocks == {"read", "write"}
Kinds  == Named \cup Plain \cup Blocks
          \cup {"getstat", "dread", "ioctl", "devctl", "async", "bulk"}

ASSUME HostFsAssumption ==
  /\ Repertoire \in [Threads -> SUBSET Kinds]
  /\ MaxBlock \in Nat \ {0} /\ Lens \subseteq Nat \ {0}
  /\ "driver" \notin Threads

VARIABLES
  started,   \* between start_func and stop_func
  plugged,   \* the bus is up
  events,    \* pending bits of g_mainevent
  connected, \* g_connected
  bus,       \* g_mainsema: its holder, then those who wait, first come first served
  dpc,       \* usb_thread
  call,      \* each thread: the call it is in
  handle,    \* each thread's arg->arg, set by an open
  host       \* the file server: what it expects next, and from whom

vars == <<started, plugged, events, connected, bus, dpc, call, handle, host>>

\* out, in: the command is followed by data, the answer may be.
\* left, rest, ret: full blocks to go, the residual, the bytes counted so far.
\* History: moved is what the server read or wrote, want what was asked of it,
\* short that it did not do all of it, cut that an exchange failed.
NoCall == [kind |-> "none", at |-> "idle", out |-> FALSE, in |-> FALSE,
           left |-> 0, rest |-> 0, ret |-> 0,
           want |-> 0, moved |-> 0, short |-> FALSE, cut |-> FALSE]
Expect(at, from) == [at |-> at, from |-> from]

Init ==
  /\ started = FALSE /\ plugged = FALSE /\ events = {} /\ connected = FALSE
  /\ bus = <<>> /\ dpc = "none"
  /\ call = [t \in Threads |-> NoCall]
  /\ handle = [t \in Threads |-> 0]
  /\ host = Expect("off", "driver")

-----------------------------------------------------------------------------
(* What a caller asks for.  A NULL name, buffer or stat, a length that is   *)
(* negative or zero, a rename longer than its buffer, mount and umount      *)
(* return at once and change nothing.                                       *)

Begin(t, kind, out, in, len) ==
  /\ call[t].at = "idle" /\ kind \in Repertoire[t]
  /\ call' = [call EXCEPT ![t] = [NoCall EXCEPT
       !.kind = kind, !.at = "check", !.out = out, !.in = in, !.want = len,
       !.left = len \div MaxBlock, !.rest = len % MaxBlock]]
  /\ UNCHANGED <<started, plugged, events, connected, bus, dpc, handle, host>>

Open(t)    == Begin(t, "open", TRUE, FALSE, 0)
Close(t)   == Begin(t, "close", FALSE, FALSE, 0)
Lseek(t)   == Begin(t, "lseek", FALSE, FALSE, 0)
Remove(t)  == Begin(t, "remove", TRUE, FALSE, 0)
Mkdir(t)   == Begin(t, "mkdir", TRUE, FALSE, 0)
Rmdir(t)   == Begin(t, "rmdir", TRUE, FALSE, 0)
Dopen(t)   == Begin(t, "dopen", TRUE, FALSE, 0)
Dclose(t)  == Begin(t, "dclose", FALSE, FALSE, 0)
Dread(t)   == Begin(t, "dread", FALSE, TRUE, 0)
Getstat(t) == Begin(t, "getstat", TRUE, TRUE, 0)
Chstat(t)  == Begin(t, "chstat", TRUE, FALSE, 0)
Rename(t)  == Begin(t, "rename", TRUE, FALSE, 0)
Chdir(t)   == Begin(t, "chdir", TRUE, FALSE, 0)
\* Both buffers are optional.
Ioctl(t)   == \E out, in \in BOOLEAN : Begin(t, "ioctl", out, in, 0)
\* DEVCTL_GET_INFO turns its input into the output buffer: one of both then.
Devctl(t)  == \E out, in \in BOOLEAN : Begin(t, "devctl", out, in, 0)
Read(t)    == \E len \in Lens : Begin(t, "read", FALSE, TRUE, len)
Write(t)   == \E len \in Lens : Begin(t, "write", TRUE, FALSE, len)
\* usbAsyncWrite: packets of at most 504 bytes behind a header each.
Async(t)   == \E len \in Lens : Begin(t, "async", FALSE, FALSE, len)
\* usbWriteBulkData: a header, then the data as one transfer.
Bulk(t)    == Begin(t, "bulk", TRUE, FALSE, 0)

Ask(t) ==
  \/ Open(t) \/ Close(t) \/ Lseek(t) \/ Remove(t) \/ Mkdir(t) \/ Rmdir(t)
  \/ Dopen(t) \/ Dclose(t) \/ Dread(t) \/ Getstat(t) \/ Chstat(t) \/ Rename(t)
  \/ Chdir(t) \/ Ioctl(t) \/ Devctl(t) \/ Read(t) \/ Write(t) \/ Async(t) \/ Bulk(t)

-----------------------------------------------------------------------------
(* What becomes of an exchange.                                             *)

Block(c) == IF c.left > 0 THEN MaxBlock ELSE c.rest

\* Mutant: an error in the middle forgets the blocks before it.
ForgetfulFinished(c, res) == [c EXCEPT !.at = "done", !.ret = res]

\* The server moved nothing: the first error is the result, a later one is not.
Finished(c, res) == [c EXCEPT !.at = "done", !.ret = IF res < 0 /\ c.ret = 0 THEN res ELSE c.ret]

\* A block is through: the next full one, then the residual, then the return.
\* Async packets are sent without another look at g_connected.
NextBlock(c, n) ==
  LET left == IF c.left > 0 THEN c.left - 1 ELSE 0
      rest == IF c.left > 0 THEN c.rest ELSE 0
  IN  [c EXCEPT !.left = left, !.rest = rest, !.ret = @ + n,
                !.at = IF left = 0 /\ rest = 0 THEN "done"
                       ELSE IF c.kind = "async" THEN "queue" ELSE "check"]

Answered(c, res) ==
  IF c.kind \in Blocks
  THEN IF res > 0 THEN NextBlock(c, res) ELSE Finished(c, res)
  ELSE [c EXCEPT !.at = "done", !.ret = IF res >= 0 /\ c.kind # "lseek" THEN 0 ELSE res]

\* The exchange failed, or the PC is not connected: -1, except that an async
\* write reports the packets that went out.
Failed(c) ==
  [c EXCEPT !.at = "done", !.cut = TRUE,
            !.ret = IF c.kind = "async" /\ c.at # "check" THEN c.ret ELSE -1]

Turn(t) == bus # <<>> /\ Head(bus) = t

\* Mutant: the error path returns without giving the bus back.
KeptBus(t) == bus

\* sceKernelSignalSema: the first who waits is next.  A caller without the semaphore has
\* none to give back: its wait ended because stop_func deleted it.
LeaveBus(t) == IF Turn(t) THEN Tail(bus) ELSE bus

\* Mutant: async packets do not take the semaphore.
UnlockedMayWrite(t) == Turn(t) \/ (call[t].at = "queue" /\ call[t].kind = "async")

MayWrite(t) == call[t].at = "queue" /\ Turn(t)

-----------------------------------------------------------------------------
(* usb_thread; it has the highest priority of all threads involved.         *)

DriverRunnable ==
  /\ started
  /\ \/ dpc = "wait" /\ events # {}
     \/ ~plugged /\ dpc \in {"magic", "echo"}
     \/ ~plugged /\ dpc = "hello" /\ Turn("driver")

DriverEvent ==
  /\ started /\ dpc = "wait" /\ events # {}
  /\ events' = {} /\ connected' = FALSE
  /\ dpc' = IF "attach" \in events /\ plugged THEN "magic" ELSE "wait"
  /\ UNCHANGED <<started, plugged, bus, call, handle, host>>

\* The server's magic is in; send_hello_cmd waits for the bus.
DriverMagic ==
  /\ dpc = "magic" /\ plugged /\ host.at = "off"
  /\ dpc' = "hello" /\ bus' = Append(bus, "driver")
  /\ host' = Expect("hello", "driver")
  /\ UNCHANGED <<started, plugged, events, connected, call, handle>>

DriverHello ==
  /\ dpc = "hello" /\ Turn("driver") /\ plugged
  /\ dpc' = "echo" /\ host' = Expect("echo", "driver")
  /\ UNCHANGED <<started, plugged, events, connected, bus, call, handle>>

DriverEcho ==
  /\ dpc = "echo" /\ plugged
  /\ dpc' = "wait" /\ connected' = TRUE /\ bus' = LeaveBus("driver")
  /\ host' = Expect("idle", "driver")
  /\ UNCHANGED <<started, plugged, events, call, handle>>

DriverFails ==
  /\ ~plugged
  /\ \/ dpc \in {"magic", "echo"}
     \/ dpc = "hello" /\ Turn("driver")
  /\ dpc' = "wait" /\ bus' = LeaveBus("driver")
  /\ UNCHANGED <<started, plugged, events, connected, call, handle, host>>

Driver == DriverEvent \/ DriverMagic \/ DriverHello \/ DriverEcho \/ DriverFails

-----------------------------------------------------------------------------
(* A calling thread.                                                        *)

\* usb_connected, then sceKernelWaitSema.
Check(t) ==
  /\ call[t].at = "check" /\ ~DriverRunnable
  /\ IF connected
     THEN call' = [call EXCEPT ![t].at = "queue"] /\ bus' = Append(bus, t)
     ELSE call' = [call EXCEPT ![t] = Failed(@)] /\ UNCHANGED bus
  /\ UNCHANGED <<started, plugged, events, connected, dpc, handle, host>>

\* The command, the packet or the bulk header goes out, and the server reads
\* its header as one whatever it was waiting for.
WriteHead(t) ==
  /\ MayWrite(t) /\ plugged /\ started /\ ~DriverRunnable
  /\ LET c == call[t] IN
       /\ host' = IF c.kind = "async" THEN Expect("idle", "driver")
                  ELSE Expect(IF c.out THEN "extra" ELSE "answer", t)
       /\ IF c.kind = "async"
          THEN LET d == NextBlock([c EXCEPT !.moved = @ + Block(c)], Block(c)) IN
               /\ call' = [call EXCEPT ![t] = d]
               /\ bus' = IF d.at = "queue" THEN Append(LeaveBus(t), t) ELSE LeaveBus(t)
          ELSE /\ call' = [call EXCEPT ![t].at = IF c.out THEN "extra" ELSE "reply"]
               /\ UNCHANGED bus
  /\ UNCHANGED <<started, plugged, events, connected, dpc, handle>>

\* The data behind it; behind a bulk header there is no answer.
WriteExtra(t) ==
  /\ call[t].at = "extra" /\ plugged /\ started /\ ~DriverRunnable
  /\ IF call[t].kind = "bulk"
     THEN /\ call' = [call EXCEPT ![t].at = "done"] /\ bus' = LeaveBus(t)
          /\ host' = Expect("idle", "driver")
     ELSE /\ call' = [call EXCEPT ![t].at = "reply"] /\ UNCHANGED bus
          /\ host' = Expect("answer", t)
  /\ UNCHANGED <<started, plugged, events, connected, dpc, handle>>

\* What a server may say: a count or an error, a descriptor, or done.
Answers(c) == IF c.kind \in Blocks THEN -1 .. Block(c)
              ELSE IF c.kind \in {"open", "dopen"} THEN {-1, 1} ELSE {-1, 0}

\* arg->arg after an answer.
HandleAfter(c, res, old) == IF c.kind \in {"open", "dopen"} /\ res >= 0 THEN res ELSE old

\* The answer, with its data where the caller has room and the server some.
ReadReply(t) ==
  /\ call[t].at = "reply" /\ plugged /\ started /\ ~DriverRunnable
  /\ \E res \in Answers(call[t]) :
       LET c    == call[t]
           n    == IF c.kind \in Blocks /\ res > 0 THEN res ELSE 0
           seen == [c EXCEPT !.moved = @ + n,
                             !.short = @ \/ (c.kind \in Blocks /\ res < Block(c))]
       IN  /\ \/ /\ c.in /\ res # -1 /\ (c.kind = "read" => n > 0)
                 /\ call' = [call EXCEPT ![t] = [seen EXCEPT !.at = "data", !.ret = @ + n]]
                 /\ host' = Expect("data", t)
                 /\ UNCHANGED bus
              \/ /\ c.kind = "read" => n = 0
                 /\ call' = [call EXCEPT ![t] = Answered(seen, res)]
                 /\ host' = Expect("idle", "driver")
                 /\ bus' = LeaveBus(t)
           /\ handle' = [handle EXCEPT ![t] = HandleAfter(c, res, @)]
  /\ UNCHANGED <<started, plugged, events, connected, dpc>>

\* The data behind the answer; ret already counts it.
ReadExtra(t) ==
  /\ call[t].at = "data" /\ plugged /\ started /\ ~DriverRunnable
  /\ call' = [call EXCEPT ![t] = IF @.kind \in Blocks THEN NextBlock(@, 0)
                                 ELSE [@ EXCEPT !.at = "done"]]
  /\ host' = Expect("idle", "driver") /\ bus' = LeaveBus(t)
  /\ UNCHANGED <<started, plugged, events, connected, dpc, handle>>

\* The bus is down, or stop_func deleted the event flags and the semaphore.
XchgFails(t) ==
  /\ call[t].at \in {"queue", "extra", "reply", "data"} /\ ~DriverRunnable
  /\ ~started \/ (~plugged /\ Turn(t))
  /\ call' = [call EXCEPT ![t] = Failed(@)]
  /\ bus' = LeaveBus(t)
  /\ UNCHANGED <<started, plugged, events, connected, dpc, handle, host>>

Return(t) ==
  /\ call[t].at = "done"
  /\ call' = [call EXCEPT ![t] = NoCall]
  /\ UNCHANGED <<started, plugged, events, connected, bus, dpc, handle, host>>

Thread(t) == Check(t) \/ WriteHead(t) \/ WriteExtra(t) \/ ReadReply(t)
             \/ ReadExtra(t) \/ XchgFails(t) \/ Return(t)

-----------------------------------------------------------------------------
(* The cable and the application around the driver.                         *)

\* Enumeration takes longer than a thread on a dead bus takes to see it.
Plug ==
  /\ started /\ ~plugged /\ ~DriverRunnable /\ bus = <<>>
  /\ plugged' = TRUE /\ events' = events \cup {"attach"}
  /\ UNCHANGED <<started, connected, bus, dpc, call, handle, host>>

\* The cable is pulled or sceUsbDeactivate is called; the server starts over.
Unplug ==
  /\ plugged
  /\ plugged' = FALSE /\ events' = events \cup {"detach"}
  /\ host' = Expect("off", "driver")
  /\ UNCHANGED <<started, connected, bus, dpc, call, handle>>

\* start_func creates the flags, the semaphore and the thread; the application
\* starts the driver when none of its threads is left in a call.
Start ==
  /\ ~started /\ \A t \in Threads : call[t].at \in {"idle", "check", "done"}
  /\ started' = TRUE /\ dpc' = "wait" /\ events' = {} /\ bus' = <<>>
  /\ UNCHANGED <<plugged, connected, call, handle, host>>

\* stop_func, after usbTerm deactivated the bus: usb_thread is terminated
\* wherever it is, the semaphore and the event flags are deleted.
Stop ==
  /\ started /\ ~plugged /\ ~DriverRunnable
  /\ started' = FALSE /\ dpc' = "none" /\ bus' = <<>>
  /\ UNCHANGED <<plugged, events, connected, call, handle, host>>

Next ==
  \/ DriverEvent \/ DriverMagic \/ DriverHello \/ DriverEcho \/ DriverFails
  \/ \E t \in Threads :
       \/ Open(t) \/ Close(t) \/ Lseek(t) \/ Remove(t) \/ Mkdir(t) \/ Rmdir(t)
       \/ Dopen(t) \/ Dclose(t) \/ Dread(t) \/ Getstat(t) \/ Chstat(t) \/ Rename(t)
       \/ Chdir(t) \/ Ioctl(t) \/ Devctl(t) \/ Read(t) \/ Write(t) \/ Async(t) \/ Bulk(t)
       \/ Check(t) \/ WriteHead(t) \/ WriteExtra(t) \/ ReadReply(t) \/ ReadExtra(t)
       \/ XchgFails(t) \/ Return(t)
  \/ Plug \/ Unplug \/ Start \/ Stop

Spec == Init /\ [][Next]_vars

\* The threads run, and the server serves: its part of a transfer is in the
\* step of the thread that waits for it.  Strong fairness, because usb_thread
\* precedes the others, and the cable does not move as fast as they do.
FairSpec == Spec /\ WF_vars(Driver) /\ \A t \in Threads : SF_vars(Thread(t))

-----------------------------------------------------------------------------
CallStages == {"idle", "check", "queue", "extra", "reply", "data", "done"}

TypeOK ==
  /\ started \in BOOLEAN /\ plugged \in BOOLEAN /\ connected \in BOOLEAN
  /\ events \subseteq {"attach", "detach"}
  /\ bus \in Seq(Threads \cup {"driver"})
  /\ dpc \in {"none", "wait", "magic", "hello", "echo"}
  /\ \A t \in Threads :
       /\ call[t].kind \in Kinds \cup {"none"} /\ call[t].at \in CallStages
       /\ call[t].ret \in Int /\ call[t].moved \in Nat
       /\ handle[t] \in Nat
  /\ host.at \in {"off", "hello", "echo", "idle", "extra", "answer", "data"}
  /\ host.from \in Threads \cup {"driver"}

\* What the server waits for is what is being sent, and by whom it began: no
\* packet lands between a command and its data, no answer goes to another
\* thread, nothing precedes the hello of a session.
Framed ==
  plugged =>
    /\ \A t \in Threads :
         /\ MayWrite(t) => host = Expect("idle", "driver")
         /\ call[t].at = "extra" => host = Expect("extra", t)
         /\ call[t].at = "reply" => host = Expect("answer", t)
         /\ call[t].at = "data" => host = Expect("data", t)
    /\ dpc = "hello" => host.at = "hello"
    /\ dpc = "echo" => host.at = "echo"

\* A count that a read, a write or an async write returns is what the server
\* moved, less than asked for only if the server did less or the link failed,
\* and an error is never reported over blocks the server moved unless the link
\* failed.
Accounted ==
  \A t \in Threads :
    LET c == call[t] IN
      c.kind \in Blocks \cup {"async"} /\ c.at = "done" =>
        /\ c.ret >= 0 => c.ret = c.moved
        /\ c.ret >= 0 /\ c.ret < c.want => c.short \/ c.cut
        /\ c.ret < 0 => c.cut \/ (c.short /\ c.moved = 0)

\* Every call returns, whatever the cable, the other threads and the driver's
\* restarts do: no exchange that fails keeps the bus, no wake-up is lost.
CallsReturn ==
  \A t \in Threads : call[t].at # "idle" ~> call[t].at = "idle"
=============================================================================
