----------------------------- MODULE UsbSession -----------------------------
(***************************************************************************)
(* How a USB session comes up, goes down and stays in step: the host's     *)
(* transport (linux-host/transport_usb.c) under the loop of main.c, the    *)
(* driver thread and the raw bulk calls of the PSP driver (usbhostfs), and *)
(* the minimal app's frame loop above them.                                *)
(*                                                                         *)
(* A bulk pipe is a rendezvous: bytes move when the host writes and the    *)
(* PSP has a request posted, and neither side is told what the other one   *)
(* is in the middle of.  A host that starts while the driver still counts  *)
(* as connected therefore speaks its handshake -- 4 and 12 bytes -- into   *)
(* whatever the app is reading; the sum is the size of a frame header.     *)
(***************************************************************************)
EXTENDS Integers

CONSTANTS
  Payloads,  \* bound: the payload sizes a frame may have
  HostStops  \* the user may stop the host (SIGTERM, systemctl restart)

MagicBytes == 4      \* HOSTFS_MAGIC
HelloBytes == 12     \* HostFsHelloCmd, its echo, and the host's zero probe
HeaderBytes == 16    \* comFrameHeader
ResponseBytes == 90  \* comSettingsResponse

ASSUME SessionAssumption ==
  /\ Payloads \subseteq Nat
  /\ HostStops \in BOOLEAN

VARIABLES
  plugged,    \* the cable connects a powered bus
  events,     \* pending bits of g_mainevent: "attach", "detach"
  gConnected, \* g_connected
  sema,       \* holder of g_mainsema
  dpc,        \* the driver's usb_thread
  op, stage,  \* what the app does, and how far its raw bulk call got
  everUp,     \* comRun's connected
  late,       \* comRun's connect window is over
  posted,     \* owners of a bulk-out request in flight
  need,       \* bytes that request still wants
  tag,        \* which host write the request's first bytes came from
  size,       \* payload size announced by the header read last
  hpc,        \* the host process
  left,       \* bytes the host's current write still holds
  hsize       \* payload of the frame the host sends

deviceVars == <<events, gConnected, sema, dpc, posted, need, tag>>
appVars == <<op, stage, everUp, late, size>>
hostVars == <<hpc, left, hsize>>
vars == <<plugged, deviceVars, appVars, hostVars>>

Writes == {"magic", "probe", "echo", "header", "payload"}

Init ==
  /\ plugged = FALSE /\ events = {} /\ gConnected = FALSE /\ sema = "free"
  /\ dpc = "wait" /\ posted = {} /\ need = 0 /\ tag = "none"
  /\ op = "prompt" /\ stage = "check" /\ everUp = FALSE /\ late = FALSE /\ size = 0
  /\ hpc = "off" /\ left = 0 /\ hsize = 0

-----------------------------------------------------------------------------
(* Bulk requests.  Out is host to PSP.                                      *)

Post(who, bytes) == posted' = posted \cup {who} /\ need' = bytes /\ tag' = "none"
Unpost(who) == posted' = posted \ {who} /\ need' = 0 /\ tag' = "none"

\* Mutant: the probe is cut to the hello's header and no longer fills the rest
\* of a header read.
ShortProbeSizeOf(w) == CASE w = "magic" -> MagicBytes
                         [] w = "probe" -> HelloBytes - 4
                         [] w = "echo" -> HelloBytes
                         [] w = "header" -> HeaderBytes
                         [] w = "payload" -> hsize

SizeOf(w) == CASE w = "magic" -> MagicBytes
               [] w \in {"probe", "echo"} -> HelloBytes
               [] w = "header" -> HeaderBytes
               [] w = "payload" -> hsize

\* Mutant: a magic that was taken counts as a session.
TrustingAfterWrite(w) == CASE w \in {"magic", "probe", "echo"} -> "idle"
                           [] w = "header" -> IF hsize = 0 THEN "response" ELSE "payload"
                           [] w = "payload" -> "response"

\* Mutant: a poll's empty payload is written like any other.
EagerAfterWrite(w) == CASE w = "magic" -> "probe"
                        [] w \in {"probe", "echo"} -> "idle"
                        [] w = "header" -> "payload"
                        [] w = "payload" -> "response"

\* What the host writes once a write is complete.
AfterWrite(w) == CASE w = "magic" -> "probe"
                   [] w = "probe" -> "idle"     \* already connected
                   [] w = "echo" -> "idle"
                   [] w = "header" -> IF hsize = 0 THEN "response" ELSE "payload"
                   [] w = "payload" -> "response"

\* Bytes move; a finished write starts the next one.
Transfer ==
  /\ plugged /\ hpc \in Writes /\ posted # {} /\ need > 0
  /\ LET n    == IF left < need THEN left ELSE need
         next == IF n = left THEN AfterWrite(hpc) ELSE hpc
     IN  /\ need' = need - n
         /\ tag' = IF tag = "none" THEN hpc ELSE tag
         /\ hpc' = next
         /\ left' = IF n < left THEN left - n
                    ELSE IF next \in Writes THEN SizeOf(next) ELSE 0
  /\ UNCHANGED <<plugged, events, gConnected, sema, dpc, posted, appVars, hsize>>

-----------------------------------------------------------------------------
(* The driver's usb_thread.  It has the higher priority: the app does not   *)
(* run while it can.                                                        *)

DriverRunnable ==
  \/ dpc = "wait" /\ events # {}
  \/ dpc \in {"magic", "echo"} /\ need = 0 /\ "driver" \in posted
  \/ dpc \in {"magic", "echo"} /\ "driver" \notin posted
  \/ dpc = "lock" /\ sema = "free"
  \/ dpc = "hello" /\ ~plugged

\* Mutant: only a completed handshake touches g_connected.
StickyConnected == gConnected

\* g_connected after an attach or a detach.
Disconnected == FALSE

\* One pass over the event bits: a detach is handled before an attach.
DriverEvent ==
  /\ dpc = "wait" /\ events # {}
  /\ events' = {} /\ gConnected' = Disconnected
  /\ IF "attach" \in events /\ plugged
     THEN dpc' = "magic" /\ Post("driver", MagicBytes)
     ELSE UNCHANGED <<dpc, posted, need, tag>>
  /\ UNCHANGED <<plugged, sema, appVars, hostVars>>

\* read_data(&magic) returned.
DriverMagic ==
  /\ dpc = "magic" /\ ("driver" \in posted => need = 0)
  /\ dpc' = IF "driver" \in posted /\ tag = "magic" THEN "lock" ELSE "wait"
  /\ Unpost("driver")
  /\ UNCHANGED <<plugged, events, gConnected, sema, appVars, hostVars>>

\* command_xchg takes the bus and posts the hello.
DriverLock ==
  /\ dpc = "lock" /\ sema = "free"
  /\ IF plugged THEN dpc' = "hello" /\ sema' = "driver"
                ELSE dpc' = "wait" /\ UNCHANGED sema
  /\ UNCHANGED <<plugged, events, gConnected, posted, need, tag, appVars, hostVars>>

\* The host read the hello: read_data for its echo.
DriverHello ==
  /\ dpc = "hello" /\ plugged /\ hpc = "hello"
  /\ hpc' = "echo" /\ left' = HelloBytes
  /\ dpc' = "echo" /\ Post("driver", HelloBytes)
  /\ UNCHANGED <<plugged, events, gConnected, sema, appVars, hsize>>

\* The echo is in: async request armed, g_connected set.  Or the bus failed.
DriverEcho ==
  /\ \/ dpc = "echo" /\ ("driver" \in posted => need = 0)
     \/ dpc = "hello" /\ ~plugged
  /\ gConnected' = (gConnected \/ (dpc = "echo" /\ "driver" \in posted))
  /\ dpc' = "wait" /\ sema' = "free"
  /\ Unpost("driver")
  /\ UNCHANGED <<plugged, events, appVars, hostVars>>

Driver == DriverEvent \/ DriverMagic \/ DriverLock \/ DriverHello \/ DriverEcho

-----------------------------------------------------------------------------
(* The app.  Each raw bulk call checks g_connected, takes g_mainsema, posts *)
(* its request and waits without a timeout.                                 *)

\* Where a failed call leaves comRun: headers are retried until the window is
\* over (COM_TIMEOUT), the rest is LINK_LOST.
Failed == /\ op' = IF op = "header" /\ (everUp \/ ~late) THEN "header" ELSE "prompt"
          /\ stage' = "check"

PressCross ==
  /\ op = "prompt" /\ ~DriverRunnable
  /\ op' = "header" /\ stage' = "check" /\ everUp' = FALSE /\ late' = FALSE
  /\ UNCHANGED <<plugged, deviceVars, size, hostVars>>

AppCheck ==
  /\ op # "prompt" /\ stage = "check" /\ ~DriverRunnable
  /\ gConnected
  /\ stage' = "lock"
  /\ UNCHANGED <<plugged, deviceVars, op, everUp, late, size, hostVars>>

AppRefused ==
  /\ op # "prompt" /\ stage = "check" /\ ~DriverRunnable
  /\ ~gConnected
  /\ Failed
  /\ UNCHANGED <<plugged, deviceVars, everUp, late, size, hostVars>>

\* The 10 s that comRun grants a host that never sent a frame.  A host that runs
\* on a live cable opens, shakes hands and pumps within 2 s.
WindowEnds ==
  /\ op = "header" /\ ~late
  /\ ~plugged \/ hpc = "off"
  /\ late' = TRUE
  /\ UNCHANGED <<plugged, deviceVars, op, stage, everUp, size, hostVars>>

Wanted == IF op = "header" THEN HeaderBytes ELSE size

AppPost ==
  /\ stage = "lock" /\ sema = "free" /\ ~DriverRunnable
  /\ plugged
  /\ sema' = "app" /\ stage' = "xfer"
  /\ IF op = "response" THEN UNCHANGED <<posted, need, tag>>
                        ELSE Post("app", Wanted)
  /\ UNCHANGED <<plugged, events, gConnected, dpc, op, everUp, late, size, hostVars>>

\* The bus is gone: sceUsbbdReq* refuses, the semaphore is given back.
AppPostRefused ==
  /\ stage = "lock" /\ sema = "free" /\ ~DriverRunnable
  /\ ~plugged
  /\ Failed
  /\ UNCHANGED <<plugged, deviceVars, everUp, late, size, hostVars>>

\* A read came back: in full, or cut off by the bus.
AppRead ==
  /\ op \in {"header", "payload"} /\ stage = "xfer" /\ ~DriverRunnable
  /\ "app" \in posted => need = 0
  /\ sema' = "free" /\ Unpost("app")
  /\ LET whole == "app" \in posted
         valid == whole /\ (op = "payload" \/ tag = "header")
     IN  /\ IF valid
            THEN /\ op' = IF op = "header" /\ hsize # 0 THEN "payload" ELSE "response"
                 /\ stage' = "check"
            ELSE Failed
         /\ size' = IF valid /\ op = "header" THEN hsize ELSE size
         /\ everUp' = (everUp \/ valid)
  /\ UNCHANGED <<plugged, events, gConnected, dpc, late, hostVars>>

\* The response is out: the host has read it, next frame.  Or the bus failed.
AppResponded ==
  /\ op = "response" /\ stage = "xfer" /\ ~DriverRunnable
  /\ plugged /\ hpc = "response"
  /\ sema' = "free" /\ op' = "header" /\ stage' = "check"
  /\ hpc' = "idle"
  /\ UNCHANGED <<plugged, events, gConnected, dpc, posted, need, tag, everUp, late, size, left, hsize>>

AppResponseFails ==
  /\ op = "response" /\ stage = "xfer" /\ ~DriverRunnable
  /\ ~plugged
  /\ sema' = "free" /\ Failed
  /\ UNCHANGED <<plugged, events, gConnected, dpc, posted, need, tag, everUp, late, size, hostVars>>

App == AppCheck \/ AppRefused \/ AppPost \/ AppPostRefused \/ AppRead
       \/ AppResponded \/ AppResponseFails

-----------------------------------------------------------------------------
(* The host.                                                                *)

HostStart ==
  /\ hpc = "off" /\ hpc' = "closed"
  /\ UNCHANGED <<plugged, deviceVars, appVars, left, hsize>>

\* u_open: the device is there, the interface is ours, handshake begins.
HostOpen ==
  /\ hpc = "closed" /\ plugged
  /\ hpc' = "magic" /\ left' = MagicBytes
  /\ UNCHANGED <<plugged, deviceVars, appVars, hsize>>

\* One turn of loop(): a header and a payload of some size, zero for a poll.
HostPump ==
  /\ hpc = "idle"
  /\ hsize' \in Payloads
  /\ hpc' = "header" /\ left' = HeaderBytes
  /\ UNCHANGED <<plugged, deviceVars, appVars>>

\* The PSP will not serve the transfer by itself: every PSP step is far
\* shorter than the host's timeouts (500 ms, 1 s, 10 s).
PspQuiet ==
  /\ ~DriverRunnable
  /\ \/ op = "prompt"
     \/ stage = "check" /\ ~gConnected
     \/ stage = "xfer" /\ (op = "response" \/ need > 0)

\* The probe's 500 ms pass: not connected yet, read the hello.
ProbeTimeout ==
  /\ hpc = "probe" /\ plugged /\ posted = {} /\ PspQuiet
  /\ hpc' = "hello" /\ left' = 0
  /\ UNCHANGED <<plugged, deviceVars, appVars, hsize>>

\* A transfer times out or fails: close, sleep, open again.
HostFails ==
  /\ \/ ~plugged /\ hpc \notin {"off", "closed", "idle"}
     \/ hpc \in Writes \ {"probe"} /\ posted = {} /\ PspQuiet
     \/ hpc = "hello" /\ dpc # "hello" /\ PspQuiet
     \/ hpc = "response" /\ op # "response" /\ PspQuiet
  /\ hpc' = "closed" /\ left' = 0
  /\ UNCHANGED <<plugged, deviceVars, appVars, hsize>>

\* SIGTERM: run is looked at between two turns only, so no exchange is cut.
HostStop ==
  /\ HostStops /\ hpc \in {"closed", "idle"}
  /\ hpc' = "off"
  /\ UNCHANGED <<plugged, deviceVars, appVars, left, hsize>>

Host == HostOpen \/ HostPump \/ ProbeTimeout \/ HostFails \/ Transfer

-----------------------------------------------------------------------------
\* The cable: requests in flight complete with an error, the callback runs.
Unplug ==
  /\ plugged
  /\ plugged' = FALSE
  /\ events' = events \cup {"detach"}
  /\ IF need > 0 THEN posted' = {} /\ need' = 0 /\ tag' = "none"
                 ELSE UNCHANGED <<posted, need, tag>>
  /\ UNCHANGED <<gConnected, sema, dpc, appVars, hostVars>>

\* Enumeration takes longer than the app takes from its check to its request
\* or to see the drop, and than the host takes to see its handle fail.
Plug ==
  /\ ~plugged /\ op \in {"prompt", "header"} /\ stage = "check" /\ hpc \in {"off", "closed"} /\ ~DriverRunnable
  /\ plugged' = TRUE
  /\ events' = events \cup {"attach"}
  /\ UNCHANGED <<gConnected, sema, dpc, posted, need, tag, appVars, hostVars>>

Next ==
  \/ Transfer
  \/ DriverEvent \/ DriverMagic \/ DriverLock \/ DriverHello \/ DriverEcho
  \/ PressCross \/ AppCheck \/ AppRefused \/ WindowEnds \/ AppPost
  \/ AppPostRefused \/ AppRead \/ AppResponded \/ AppResponseFails
  \/ HostStart \/ HostOpen \/ HostPump \/ ProbeTimeout \/ HostFails \/ HostStop
  \/ Unplug \/ Plug

Spec == Init /\ [][Next]_vars

\* All threads, the host and the clock go on; the user and the cable owe nothing.
Fairness ==
  WF_vars(Driver) /\ WF_vars(App) /\ WF_vars(WindowEnds) /\ WF_vars(Host)

FairSpec == Spec /\ Fairness
\* The user presses X whenever the prompt asks for it.
AttendedSpec == FairSpec /\ WF_vars(PressCross)

-----------------------------------------------------------------------------
TypeOK ==
  /\ plugged \in BOOLEAN /\ gConnected \in BOOLEAN
  /\ events \subseteq {"attach", "detach"}
  /\ sema \in {"free", "app", "driver"}
  /\ dpc \in {"wait", "magic", "lock", "hello", "echo"}
  /\ op \in {"prompt", "header", "payload", "response"}
  /\ stage \in {"check", "lock", "xfer"}
  /\ everUp \in BOOLEAN
  /\ posted \subseteq {"app", "driver"}
  /\ need \in Nat /\ left \in Nat /\ size \in Nat /\ hsize \in Nat
  /\ tag \in Writes \cup {"none"}
  /\ hpc \in Writes \cup {"off", "closed", "idle", "hello", "response"}

\* g_bulkout_req, g_bulkin_req and tx_buf are shared and usb_thread reads the
\* magic without g_mainsema: still only one thread at a time is in a transfer.
BusExclusive ==
  /\ ~(dpc \in {"magic", "hello", "echo"} /\ stage = "xfer")
  /\ dpc \in {"hello", "echo"} => sema = "driver"
  /\ stage = "xfer" => sema = "app"

\* Both ends agree on what the bytes are: no payload is read as a header, no
\* frame as an echo.  The one overlap, a handshake spoken into a header read,
\* fills that read exactly.
InStep ==
  /\ "app" \in posted /\ op = "header" => tag \in {"none", "magic", "header"}
  /\ "app" \in posted /\ op = "payload" => tag \in {"none", "payload"}
  /\ "driver" \in posted => tag \in {"none", dpc}
  /\ hpc = "probe" /\ "app" \in posted => need = left

\* While the host pumps frames over a live cable, the PSP counts as connected:
\* a stale g_connected is only ever wrong in the other direction.
HostBelievesTruly ==
  /\ plugged /\ ~DriverRunnable
  /\ hpc \in {"idle", "header", "payload", "response"}
  => gConnected

\* With the cable in, the host running and somebody pressing X, exchanges go
\* on for ever, whatever drops, clean stops and half-finished frames came
\* before: no order of them leaves the two ends waiting for each other.
Recovers ==
  <>[](plugged /\ hpc # "off") => []<>(hpc = "response" /\ op = "response")

=============================================================================
