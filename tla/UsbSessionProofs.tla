-------------------------- MODULE UsbSessionProofs --------------------------
(***************************************************************************)
(* Theorems about UsbSession for every set of payload sizes: types, one    *)
(* thread in a transfer at a time, both ends in step, and the truth of     *)
(* what the host believes after its handshake.                             *)
(*                                                                         *)
(* usb_thread begins a handshake without g_mainsema.  It is safe because a *)
(* bus only comes up while the app is outside its calls, because           *)
(* usb_thread precedes the app until it has seen it, and because it clears *)
(* g_connected, at which the app looks first.                              *)
(*                                                                         *)
(* That both ends agree on the bytes needs to know, for every phase of a   *)
(* session, what either end waits for: Phases lists them, from the bus     *)
(* that came up over the handshake to the frames.                          *)
(***************************************************************************)
EXTENDS UsbSession, TLAPS

LEMMA SizesOfWrites ==
  ASSUME TypeOK, NEW w \in Writes PROVE SizeOf(w) \in Nat
BY DEF TypeOK, SizeOf, Writes, MagicBytes, HelloBytes, HeaderBytes

LEMMA WritesFollow ==
  ASSUME NEW w \in Writes PROVE AfterWrite(w) \in Writes \cup {"idle", "response"}
BY DEF AfterWrite, Writes

LEMMA TransferTypes == ASSUME TypeOK, Transfer PROVE TypeOK'
<1> DEFINE n == IF left < need THEN left ELSE need
           next == IF n = left THEN AfterWrite(hpc) ELSE hpc
<1>1. /\ need' = need - n /\ tag' = (IF tag = "none" THEN hpc ELSE tag) /\ hpc' = next
      /\ left' = IF n < left THEN left - n ELSE IF next \in Writes THEN SizeOf(next) ELSE 0
      /\ hpc \in Writes
      /\ UNCHANGED <<plugged, events, gConnected, sema, dpc, posted, appVars, hsize>>
  BY DEF Transfer
<1>2. n \in Nat /\ n <= need /\ n <= left
  BY DEF TypeOK
<1>3. next \in Writes \cup {"idle", "response"}
  BY <1>1, WritesFollow
<1> HIDE DEF n, next
<1>4. need' \in Nat /\ left' \in Nat
  <2>1. next \in Writes => SizeOf(next) \in Nat
    BY SizesOfWrites
  <2> QED
    BY <1>1, <1>2, <2>1 DEF TypeOK
<1> QED
  BY <1>1, <1>3, <1>4 DEF TypeOK, appVars

\* TypeOK in two parts: Boolean values, and the rest.
Flags == plugged \in BOOLEAN /\ gConnected \in BOOLEAN /\ everUp \in BOOLEAN

Places ==
  /\ events \subseteq {"attach", "detach"}
  /\ sema \in {"free", "app", "driver"}
  /\ dpc \in {"wait", "magic", "lock", "hello", "echo"}
  /\ op \in {"prompt", "header", "payload", "response"}
  /\ stage \in {"check", "lock", "xfer"}
  /\ posted \subseteq {"app", "driver"}
  /\ need \in Nat /\ left \in Nat /\ size \in Nat /\ hsize \in Nat
  /\ tag \in Writes \cup {"none"}
  /\ hpc \in Writes \cup {"off", "closed", "idle", "hello", "response"}

LEMMA TypeParts == TypeOK <=> Flags /\ Places
BY DEF TypeOK, Flags, Places

LEMMA StepFlags == TypeOK /\ [Next]_vars => Flags'
<1> SUFFICES ASSUME TypeOK, [Next]_vars PROVE Flags'
  OBVIOUS
<1> USE DEF TypeOK, Flags
<1>1. CASE Transfer
  BY <1>1, TransferTypes DEF TypeOK
<1>2. CASE DriverEvent
  BY <1>2, Zenon DEF DriverEvent, Disconnected, Post, MagicBytes, appVars, hostVars
<1>3. CASE DriverMagic
  BY <1>3, Zenon DEF DriverMagic, Unpost, appVars, hostVars
<1>4. CASE DriverLock
  BY <1>4, Zenon DEF DriverLock, appVars, hostVars
<1>5. CASE DriverHello
  BY <1>5, Zenon DEF DriverHello, Post, HelloBytes, appVars
<1>6. CASE DriverEcho
  BY <1>6, Zenon DEF DriverEcho, Unpost, appVars, hostVars
<1>7. CASE PressCross
  BY <1>7, Zenon DEF PressCross, deviceVars, hostVars
<1>8. CASE AppCheck
  BY <1>8, Zenon DEF AppCheck, deviceVars, hostVars
<1>9. CASE AppRefused
  BY <1>9, Zenon DEF AppRefused, Failed, deviceVars, hostVars
<1>10. CASE WindowEnds
  BY <1>10, Zenon DEF WindowEnds, deviceVars, hostVars
<1>11. CASE AppPost
  BY <1>11, Zenon DEF AppPost, Post, Wanted, HeaderBytes, hostVars
<1>12. CASE AppPostRefused
  BY <1>12, Zenon DEF AppPostRefused, Failed, deviceVars, hostVars
<1>13. CASE AppRead
  BY <1>13, Zenon DEF AppRead, Unpost, Failed, hostVars
<1>14. CASE AppResponded
  BY <1>14, Zenon DEF AppResponded
<1>15. CASE AppResponseFails
  BY <1>15, Zenon DEF AppResponseFails, Failed, hostVars
<1>16. CASE HostStart
  BY <1>16, Zenon DEF HostStart, deviceVars, appVars
<1>17. CASE HostOpen
  BY <1>17, Zenon DEF HostOpen, MagicBytes, deviceVars, appVars
<1>18. CASE HostPump
  BY <1>18, Zenon DEF HostPump, HeaderBytes, deviceVars, appVars
<1>19. CASE ProbeTimeout
  BY <1>19, Zenon DEF ProbeTimeout, deviceVars, appVars
<1>20. CASE HostFails
  BY <1>20, Zenon DEF HostFails, deviceVars, appVars
<1>21. CASE HostStop
  BY <1>21, Zenon DEF HostStop, deviceVars, appVars
<1>22. CASE Unplug
  BY <1>22, Zenon DEF Unplug, appVars, hostVars
<1>23. CASE Plug
  BY <1>23, Zenon DEF Plug, appVars, hostVars
<1>24. CASE UNCHANGED vars
  BY <1>24, Zenon DEF vars, deviceVars, appVars, hostVars
<1> QED
  BY <1>1, <1>2, <1>3, <1>4, <1>5, <1>6, <1>7, <1>8, <1>9, <1>10, <1>11, <1>12,
     <1>13, <1>14, <1>15, <1>16, <1>17, <1>18, <1>19, <1>20, <1>21, <1>22, <1>23, <1>24 DEF Next

LEMMA StepPlaces == TypeOK /\ [Next]_vars => Places'
<1> SUFFICES ASSUME TypeOK, [Next]_vars PROVE Places'
  OBVIOUS
<1> USE SessionAssumption DEF TypeOK, Places, Writes
<1>1. CASE Transfer
  BY <1>1, TransferTypes DEF TypeOK
<1>2. CASE DriverEvent
  <2>1. CASE "attach" \in events /\ plugged
    <3>1. /\ events' = {} /\ dpc' = "magic" /\ posted' = posted \cup {"driver"}
          /\ need' = 4 /\ tag' = "none"
          /\ UNCHANGED <<sema, op, stage, size, hpc, left, hsize>>
      BY <1>2, <2>1, Zenon DEF DriverEvent, Post, MagicBytes, appVars, hostVars
    <3> QED
      BY <3>1
  <2>2. CASE ~("attach" \in events /\ plugged)
    BY <1>2, <2>2 DEF DriverEvent, appVars, hostVars
  <2> QED
    BY <2>1, <2>2
<1>3. CASE DriverMagic
  BY <1>3 DEF DriverMagic, Unpost, appVars, hostVars
<1>4. CASE DriverLock
  BY <1>4 DEF DriverLock, appVars, hostVars
<1>5. CASE DriverHello
  BY <1>5 DEF DriverHello, Post, HelloBytes, appVars
<1>6. CASE DriverEcho
  BY <1>6 DEF DriverEcho, Unpost, appVars, hostVars
<1>7. CASE PressCross
  BY <1>7 DEF PressCross, deviceVars, hostVars
<1>8. CASE AppCheck
  BY <1>8 DEF AppCheck, deviceVars, hostVars
<1>9. CASE AppRefused
  BY <1>9 DEF AppRefused, Failed, deviceVars, hostVars
<1>10. CASE WindowEnds
  BY <1>10 DEF WindowEnds, deviceVars, hostVars
<1>11. CASE AppPost
  <2>1. CASE op = "response"
    BY <1>11, <2>1 DEF AppPost, hostVars
  <2>2. CASE op # "response"
    <3>1. Wanted \in Nat
      BY DEF Wanted, HeaderBytes
    <3>2. /\ sema' = "app" /\ stage' = "xfer" /\ posted' = posted \cup {"app"}
          /\ need' = Wanted /\ tag' = "none"
          /\ UNCHANGED <<events, dpc, op, size, hpc, left, hsize>>
      BY <1>11, <2>2 DEF AppPost, Post, hostVars
    <3> QED
      BY <3>1, <3>2
  <2> QED
    BY <2>1, <2>2
<1>12. CASE AppPostRefused
  BY <1>12 DEF AppPostRefused, Failed, deviceVars, hostVars
<1>13. CASE AppRead
  BY <1>13 DEF AppRead, Unpost, Failed, hostVars
<1>14. CASE AppResponded
  BY <1>14 DEF AppResponded
<1>15. CASE AppResponseFails
  BY <1>15 DEF AppResponseFails, Failed, hostVars
<1>16. CASE HostStart
  BY <1>16 DEF HostStart, deviceVars, appVars
<1>17. CASE HostOpen
  BY <1>17 DEF HostOpen, MagicBytes, deviceVars, appVars
<1>18. CASE HostPump
  BY <1>18 DEF HostPump, HeaderBytes, deviceVars, appVars
<1>19. CASE ProbeTimeout
  BY <1>19 DEF ProbeTimeout, deviceVars, appVars
<1>20. CASE HostFails
  BY <1>20 DEF HostFails, deviceVars, appVars
<1>21. CASE HostStop
  BY <1>21 DEF HostStop, deviceVars, appVars
<1>22. CASE Unplug
  <2>1. CASE need > 0
    BY <1>22, <2>1 DEF Unplug, appVars, hostVars
  <2>2. CASE ~(need > 0)
    <3>1. /\ events' = events \cup {"detach"}
          /\ UNCHANGED <<sema, dpc, op, stage, posted, need, tag, size, hpc, left, hsize>>
      BY <1>22, <2>2, Zenon DEF Unplug, appVars, hostVars
    <3> QED
      BY <3>1
  <2> QED
    BY <2>1, <2>2
<1>23. CASE Plug
  BY <1>23 DEF Plug, appVars, hostVars
<1>24. CASE UNCHANGED vars
  BY <1>24 DEF vars, deviceVars, appVars, hostVars
<1> QED
  BY <1>1, <1>2, <1>3, <1>4, <1>5, <1>6, <1>7, <1>8, <1>9, <1>10, <1>11, <1>12,
     <1>13, <1>14, <1>15, <1>16, <1>17, <1>18, <1>19, <1>20, <1>21, <1>22, <1>23, <1>24 DEF Next

LEMMA StepTypes == TypeOK /\ [Next]_vars => TypeOK'
BY StepFlags, StepPlaces, TypeParts DEF TypeOK, Flags, Places

LEMMA InitTypes == Init => TypeOK
<1>1. Init => Flags
  BY Zenon DEF Init, Flags
<1>2. Init => Places
  BY DEF Init, Places, Writes
<1> QED
  BY <1>1, <1>2, TypeParts

\* Types of the driver, the app, the host and the byte counts between them.
THEOREM TypeCorrect == Spec => []TypeOK
BY InitTypes, StepTypes, PTL DEF Spec
-----------------------------------------------------------------------------
(* One thread in a transfer *)

\* Who holds g_mainsema is in a transfer; at the prompt the app is in no call.
Holders ==
  /\ op = "prompt" => stage = "check"
  /\ sema = "app" <=> stage = "xfer"
  /\ sema = "driver" <=> dpc \in {"hello", "echo"}

\* A bus that came up has not been seen yet, or is being greeted: the app is
\* outside its calls, and stays out.
Greeting ==
  /\ "attach" \in events => dpc = "wait" /\ stage = "check"
  /\ dpc # "wait" => stage = "check" /\ ~gConnected
  /\ ~plugged => need = 0

BusInv == TypeOK /\ Holders /\ Greeting

\* While a bus that came up has not been seen, usb_thread can run.
LEMMA UnseenRuns == BusInv /\ "attach" \in events => DriverRunnable
BY DEF BusInv, Greeting, DriverRunnable

\* A bus only comes up under a driver that waits for it.
LEMMA PlugWaits == BusInv /\ Plug => dpc = "wait"
BY DEF BusInv, Greeting, Holders, Plug, DriverRunnable, TypeOK

LEMMA BusStep == BusInv /\ [Next]_vars => BusInv'
<1> SUFFICES ASSUME BusInv, [Next]_vars PROVE (Holders /\ Greeting)'
  BY StepTypes DEF BusInv
<1> USE DEF BusInv, Holders, Greeting
<1>1. CASE Transfer
  <2>1. UNCHANGED <<plugged, events, gConnected, sema, dpc, op, stage>> /\ plugged
    BY <1>1 DEF Transfer, appVars
  <2> QED
    BY <2>1
<1>2. CASE DriverEvent
  BY <1>2 DEF DriverEvent, Disconnected, Post, appVars
<1>3. CASE DriverMagic
  BY <1>3 DEF DriverMagic, Unpost, appVars
<1>4. CASE DriverLock
  BY <1>4 DEF DriverLock, appVars
<1>5. CASE DriverHello
  BY <1>5 DEF DriverHello, Post, appVars
<1>6. CASE DriverEcho
  BY <1>6 DEF DriverEcho, Unpost, appVars
<1>7. CASE PressCross \/ AppCheck \/ AppRefused \/ WindowEnds \/ AppPostRefused
  <2>1. UNCHANGED <<plugged, events, gConnected, sema, dpc, need>>
    BY <1>7 DEF PressCross, AppCheck, AppRefused, WindowEnds, AppPostRefused, deviceVars
  <2>2. CASE PressCross \/ AppRefused \/ AppPostRefused
    <3>1. stage' = "check"
      BY <2>2 DEF PressCross, AppRefused, AppPostRefused, Failed
    <3>2. stage # "xfer"
      BY <2>2 DEF PressCross, AppRefused, AppPostRefused
    <3> QED
      BY <2>1, <3>1, <3>2
  <2>3. CASE AppCheck
    BY <2>1, <2>3, UnseenRuns DEF AppCheck
  <2>4. CASE WindowEnds
    BY <2>1, <2>4 DEF WindowEnds
  <2> QED
    BY <1>7, <2>2, <2>3, <2>4
<1>8. CASE AppPost
  BY <1>8, UnseenRuns DEF AppPost, Post
<1>9. CASE AppRead
  BY <1>9, UnseenRuns DEF AppRead, Unpost, Failed
<1>10. CASE AppResponded \/ AppResponseFails
  BY <1>10, UnseenRuns DEF AppResponded, AppResponseFails, Failed
<1>11. CASE HostStart \/ HostOpen \/ HostPump \/ ProbeTimeout \/ HostFails \/ HostStop
  BY <1>11 DEF HostStart, HostOpen, HostPump, ProbeTimeout, HostFails, HostStop, deviceVars,
     appVars
<1>12. CASE Unplug
  BY <1>12 DEF Unplug, TypeOK, appVars
<1>13. CASE Plug
  BY <1>13, PlugWaits DEF Plug, appVars
<1>14. CASE UNCHANGED vars
  BY <1>14 DEF vars, deviceVars, appVars
<1> QED
  BY <1>1, <1>2, <1>3, <1>4, <1>5, <1>6, <1>7, <1>8, <1>9, <1>10, <1>11, <1>12,
     <1>13, <1>14 DEF Next

LEMMA InitBus == Init => BusInv
<1>1. Init => Holders /\ Greeting
  BY DEF Init, Holders, Greeting
<1> QED
  BY <1>1, InitTypes DEF BusInv

\* Only one thread at a time is in a transfer, and it holds g_mainsema, though
\* usb_thread reads the magic without it (usbhostfs/main.c:1024) and the app uses
\* its look at g_connected after it has waited for the semaphore (main.c:1250).
THEOREM OneTransfer == Spec => []BusExclusive
<1>1. BusInv => BusExclusive
  BY DEF BusInv, Holders, Greeting, BusExclusive
<1> QED
  BY InitBus, BusStep, <1>1, PTL DEF Spec
-----------------------------------------------------------------------------
(* Both ends in step *)

\* The place of the host while it owes the PSP nothing it has begun to send.
HostBetween == hpc \in {"off", "closed", "magic", "idle", "header"}
\* The app's raw calls, as the driver sees them.
AppOut == op \in {"prompt", "header"} /\ stage = "check"
AppReads(bytes, from) == stage = "xfer" /\ posted = {"app"} /\ need = bytes /\ tag = from
DriverReads(bytes, from) == posted = {"driver"} /\ need = bytes /\ tag = from

\* A bus that came up, until its session is established.
Unseen == AppOut /\ dpc = "wait" /\ posted = {} /\ hpc \in {"off", "closed", "magic"}
MagicDue ==
  /\ AppOut /\ dpc = "magic"
  /\ \/ DriverReads(MagicBytes, "none") /\ hpc \in {"off", "closed", "magic"}
     \/ DriverReads(0, "magic") /\ hpc = "probe"
HelloDue ==
  /\ AppOut /\ posted = {}
  /\ \/ dpc = "lock" /\ hpc = "probe"
     \/ dpc = "hello" /\ hpc \in {"probe", "hello"}
EchoDue ==
  /\ AppOut /\ dpc = "echo"
  /\ \/ DriverReads(HelloBytes, "none") /\ hpc = "echo"
     \/ DriverReads(0, "echo") /\ HostBetween

\* An established session, frame after frame.  A handshake that is spoken into
\* a header read leaves it in HeaderDue.
HeaderDue ==
  \/ /\ op \in {"prompt", "header"} /\ HostBetween
     /\ stage \in {"check", "lock"} /\ posted = {}
  \/ /\ op = "header" /\ HostBetween
     /\ AppReads(HeaderBytes, "none") \/ AppReads(0, "magic")
  \/ op = "header" /\ hpc = "probe" /\ AppReads(HelloBytes, "magic")
HeaderIn ==
  /\ op = "header" /\ AppReads(0, "header")
  /\ hpc = IF hsize = 0 THEN "response" ELSE "payload"
PayloadDue ==
  /\ op = "payload" /\ size = hsize /\ hsize > 0 /\ hpc = "payload"
  /\ \/ stage \in {"check", "lock"} /\ posted = {}
     \/ AppReads(size, "none")
PayloadIn == op = "payload" /\ AppReads(0, "payload") /\ hpc = "response"
ResponseDue == op = "response" /\ posted = {} /\ hpc = "response"
Exchanging == HeaderDue \/ HeaderIn \/ PayloadDue \/ PayloadIn \/ ResponseDue

\* Without a bus nothing is read any more; what was read whole stays read.
CutOff ==
  /\ "app" \in posted => /\ stage = "xfer" /\ hpc # "probe"
                         /\ \/ op = "header" /\ tag \in {"magic", "header"}
                            \/ op = "payload" /\ tag = "payload"
  /\ "driver" \in posted => dpc \in {"magic", "echo"} /\ tag = dpc

Phases ==
  /\ plugged /\ events # {} => events = {"attach"} /\ Unseen
  /\ plugged /\ events = {} => \/ dpc = "wait" /\ gConnected /\ Exchanging
                               \/ MagicDue \/ HelloDue \/ EchoDue
  /\ ~plugged => CutOff

\* The host never stops in the middle of a write.
WholeWrites == hpc \in Writes => left = SizeOf(hpc)

StepInv == Phases /\ WholeWrites

\* The inductive invariant of the whole session.
FullInv == BusInv /\ StepInv

\* What usb_thread does carries a session from one phase to the next.
LEMMA DriverKeeps == ASSUME FullInv, Driver PROVE Phases'
<1> USE DEF FullInv, StepInv, Phases, CutOff, BusInv, Greeting, Holders
<1>1. CASE DriverEvent
  BY <1>1 DEF DriverEvent, Disconnected, Post, Unseen, MagicDue, DriverReads, AppOut,
     appVars, hostVars
<1>2. CASE DriverMagic
  <2>1. UNCHANGED <<plugged, events, gConnected, sema, op, stage, hpc, size, hsize>>
    BY <1>2 DEF DriverMagic, appVars, hostVars
  <2>2. CASE plugged
    <3>1. events = {} /\ MagicDue
      BY <1>2, <2>2 DEF DriverMagic, Unseen, HelloDue, EchoDue
    <3>2. dpc' = "lock" /\ posted' = {} /\ hpc = "probe"
      BY <1>2, <3>1 DEF DriverMagic, Unpost, MagicDue, DriverReads, MagicBytes
    <3> QED
      BY <2>1, <2>2, <3>1, <3>2 DEF MagicDue, HelloDue, AppOut
  <2>3. CASE ~plugged
    BY <1>2, <2>1, <2>3 DEF DriverMagic, Unpost
  <2> QED
    BY <2>2, <2>3
<1>3. CASE DriverLock
  BY <1>3 DEF DriverLock, Unseen, MagicDue, HelloDue, EchoDue, Exchanging, DriverReads,
     AppOut, appVars, hostVars
<1>4. CASE DriverHello
  BY <1>4 DEF DriverHello, Post, Unseen, MagicDue, HelloDue, EchoDue, Exchanging,
     DriverReads, AppOut, appVars
<1>5. CASE DriverEcho
  <2>1. UNCHANGED <<plugged, events, op, stage, hpc, size, hsize>>
    BY <1>5 DEF DriverEcho, appVars, hostVars
  <2>2. CASE plugged
    <3>1. events = {} /\ EchoDue
      BY <1>5, <2>2 DEF DriverEcho, Unseen, HelloDue, MagicDue
    <3>2. dpc' = "wait" /\ posted' = {} /\ HostBetween
      BY <1>5, <2>2, <3>1 DEF DriverEcho, Unpost, EchoDue, DriverReads, HelloBytes
    <3>3. gConnected'
      BY <1>5, <2>2, <3>1 DEF DriverEcho, EchoDue, DriverReads
    <3> QED
      BY <2>1, <2>2, <3>1, <3>2, <3>3 DEF EchoDue, AppOut, Exchanging, HeaderDue,
         HostBetween
  <2>3. CASE ~plugged
    BY <1>5, <2>1, <2>3 DEF DriverEcho, Unpost
  <2> QED
    BY <2>2, <2>3
<1> QED
  BY <1>1, <1>2, <1>3, <1>4, <1>5 DEF Driver

\* The app is in a call, or past a header, only within an established session.
LEMMA CallsInSession ==
  ASSUME FullInv, plugged, stage # "check" \/ op \in {"payload", "response"}
  PROVE  events = {} /\ dpc = "wait" /\ gConnected /\ Exchanging
BY DEF FullInv, StepInv, Phases, Unseen, MagicDue, HelloDue, EchoDue, AppOut

\* A bus that is up and whose driver has nothing to do is in one of the phases
\* that wait for the host.
LEMMA QuietPhases ==
  ASSUME FullInv, plugged, ~DriverRunnable
  PROVE  /\ events = {}
         /\ \/ dpc = "wait" /\ gConnected /\ Exchanging
            \/ AppOut /\ ~gConnected /\ (MagicDue \/ HelloDue \/ EchoDue)
BY UnseenRuns DEF FullInv, StepInv, Phases, BusInv, Greeting, MagicDue, HelloDue, EchoDue

\* The app's calls stay within an established session, or are refused.
LEMMA AppKeeps ==
  ASSUME FullInv, PressCross \/ App \/ WindowEnds PROVE Phases'
<1> USE DEF FullInv, StepInv, Phases, CutOff, BusInv, Greeting, Holders
<1>1. CASE PressCross \/ AppCheck \/ AppRefused \/ WindowEnds
  <2>1. UNCHANGED <<plugged, events, gConnected, sema, dpc, posted, need, tag, hpc, size, hsize>>
    BY <1>1 DEF PressCross, AppCheck, AppRefused, WindowEnds, deviceVars, hostVars
  <2>2. CASE ~plugged
    <3>1. stage # "xfer" \/ (op' = op /\ stage' = stage)
      BY <1>1 DEF PressCross, AppCheck, AppRefused, WindowEnds
    <3> QED
      BY <2>1, <2>2, <3>1
  <2>3. CASE plugged /\ WindowEnds
    <3>1. op' = op /\ stage' = stage
      BY <2>3 DEF WindowEnds
    <3> QED
      BY <2>1, <2>3, <3>1 DEF Unseen, MagicDue, HelloDue, EchoDue, Exchanging, AppOut,
         HeaderDue, HeaderIn, PayloadDue, PayloadIn, ResponseDue, AppReads, DriverReads,
         HostBetween
  <2>4. CASE plugged /\ PressCross
    BY <2>1, <2>4, QuietPhases DEF PressCross, MagicDue, HelloDue, EchoDue, Exchanging,
       AppOut, HeaderDue, HeaderIn, PayloadDue, PayloadIn, ResponseDue, AppReads,
       DriverReads, HostBetween
  <2>5. CASE plugged /\ AppRefused
    BY <2>1, <2>5, QuietPhases DEF AppRefused, Failed, MagicDue, HelloDue, EchoDue, AppOut,
       DriverReads, HostBetween
  <2>6. CASE plugged /\ AppCheck
    BY <2>1, <2>6, QuietPhases DEF AppCheck, Exchanging, AppOut, HeaderDue, HeaderIn,
       PayloadDue, PayloadIn, ResponseDue, AppReads, HostBetween
  <2> QED
    BY <1>1, <2>2, <2>3, <2>4, <2>5, <2>6
<1>2. CASE AppPost
  BY <1>2, CallsInSession DEF AppPost, Post, Wanted, Exchanging, HeaderDue, HeaderIn,
     PayloadDue, PayloadIn, ResponseDue, AppReads, HostBetween, hostVars
<1>3. CASE AppPostRefused
  BY <1>3 DEF AppPostRefused, Failed, deviceVars, hostVars
<1>4. CASE AppRead
  <2>1. UNCHANGED <<plugged, events, gConnected, dpc, hpc, hsize>>
    BY <1>4 DEF AppRead, hostVars
  <2>2. CASE plugged
    <3>1. events = {} /\ dpc = "wait" /\ gConnected /\ Exchanging
      BY <1>4, <2>2, CallsInSession DEF AppRead
    <3>2. posted = {"app"} /\ need = 0 /\ posted' = {}
      BY <1>4, <2>2, <3>1 DEF AppRead, Unpost, Exchanging, HeaderDue, HeaderIn, PayloadDue,
         PayloadIn, ResponseDue, AppReads
    <3>3. CASE HeaderDue
      BY <1>4, <2>1, <2>2, <3>1, <3>2, <3>3 DEF AppRead, Failed, Exchanging, HeaderDue,
         AppReads, HostBetween, HeaderBytes, HelloBytes
    <3>4. CASE HeaderIn
      BY <1>4, <2>1, <2>2, <3>1, <3>2, <3>4, SessionAssumption DEF AppRead, Failed,
         Exchanging, HeaderIn, PayloadDue, ResponseDue, AppReads, TypeOK
    <3>5. CASE PayloadDue
      BY <3>2, <3>5 DEF PayloadDue, AppReads, TypeOK
    <3>6. CASE PayloadIn
      BY <1>4, <2>1, <2>2, <3>1, <3>2, <3>6 DEF AppRead, Exchanging, PayloadIn, ResponseDue,
         AppReads
    <3> QED
      BY <3>1, <3>2, <3>3, <3>4, <3>5, <3>6 DEF Exchanging, ResponseDue
  <2>3. CASE ~plugged
    BY <1>4, <2>1, <2>3 DEF AppRead, Unpost
  <2> QED
    BY <2>2, <2>3
<1>5. CASE AppResponded
  BY <1>5, CallsInSession DEF AppResponded, Exchanging, HeaderDue, HeaderIn, PayloadDue,
     PayloadIn, ResponseDue, AppReads, HostBetween
<1>6. CASE AppResponseFails
  BY <1>6 DEF AppResponseFails, Failed, hostVars
<1> QED
  BY <1>1, <1>2, <1>3, <1>4, <1>5, <1>6 DEF App

\* The host starts, stops, opens, pumps and gives up only where the phase lets it.
LEMMA HostKeeps ==
  ASSUME FullInv, HostStart \/ HostOpen \/ HostPump \/ ProbeTimeout \/ HostFails \/ HostStop
  PROVE  Phases'
<1> USE DEF FullInv, StepInv, Phases, CutOff, BusInv, Greeting, Holders
<1>1. UNCHANGED <<plugged, events, gConnected, sema, dpc, posted, need, tag, op, stage, size>>
  BY DEF HostStart, HostOpen, HostPump, ProbeTimeout, HostFails, HostStop, deviceVars,
     appVars
<1>2. CASE ~plugged
  <2>1. hpc' # "probe" \/ hpc' = hpc
    BY DEF HostStart, HostOpen, HostPump, ProbeTimeout, HostFails, HostStop
  <2> QED
    BY <1>1, <1>2, <2>1
<1>3. CASE plugged
  <2>1. CASE HostStart \/ HostOpen \/ HostStop
    BY <1>1, <1>3, <2>1 DEF HostStart, HostOpen, HostStop, Unseen, MagicDue, HelloDue,
       EchoDue, Exchanging, AppOut, HeaderDue, HeaderIn, PayloadDue, PayloadIn, ResponseDue,
       AppReads, DriverReads, HostBetween
  <2>2. CASE HostPump
    BY <1>1, <1>3, <2>2 DEF HostPump, Unseen, MagicDue, HelloDue, EchoDue, Exchanging,
       AppOut, HeaderDue, HeaderIn, PayloadDue, PayloadIn, ResponseDue, AppReads,
       DriverReads, HostBetween
  <2>3. CASE ProbeTimeout
    <3>1. hpc = "probe" /\ hpc' = "hello" /\ posted = {} /\ ~DriverRunnable
      BY <2>3 DEF ProbeTimeout, PspQuiet
    <3>2. AppOut /\ dpc = "lock" => sema = "free"
      BY DEF AppOut, TypeOK
    <3>3. HelloDue /\ dpc = "hello" /\ events = {}
      BY <1>3, <3>1, <3>2, QuietPhases DEF MagicDue, HelloDue, EchoDue, Exchanging,
         HeaderDue, HeaderIn, PayloadDue, PayloadIn, ResponseDue, AppReads, DriverReads,
         HostBetween, DriverRunnable
    <3> QED
      BY <1>1, <1>3, <3>1, <3>3 DEF HelloDue, AppOut
  <2>4. CASE HostFails
    BY <1>1, <1>3, <2>4, QuietPhases DEF HostFails, PspQuiet, MagicDue, HelloDue, EchoDue,
       Exchanging, AppOut, HeaderDue, HeaderIn, PayloadDue, PayloadIn, ResponseDue,
       AppReads, DriverReads, HostBetween, DriverRunnable, Writes
  <2> QED
    BY <2>1, <2>2, <2>3, <2>4
<1> QED
  BY <1>2, <1>3

\* A request is never smaller than the write that fills it.
LEMMA WritesFit == ASSUME FullInv, Transfer PROVE left <= need
BY DEF FullInv, StepInv, Phases, WholeWrites, Transfer, Unseen, MagicDue, HelloDue, EchoDue,
   Exchanging, HeaderDue, HeaderIn, PayloadDue, PayloadIn, ResponseDue, AppReads,
   DriverReads, HostBetween, SizeOf, Writes, MagicBytes, HelloBytes, HeaderBytes, BusInv,
   TypeOK

\* So a write moves as a whole, and the next one starts.
LEMMA TransferKeeps == ASSUME FullInv, Transfer PROVE StepInv'
<1> USE DEF FullInv, StepInv, Phases
<1>1. /\ plugged /\ posted # {} /\ need > 0 /\ hpc \in Writes
      /\ UNCHANGED <<plugged, events, gConnected, sema, dpc, posted, op, stage, size, hsize>>
  BY DEF Transfer, appVars
<1>2. left = SizeOf(hpc) /\ left <= need /\ left \in Nat /\ need \in Nat
  BY <1>1, WritesFit DEF WholeWrites, BusInv, TypeOK
<1>3. /\ need' = need - left /\ hpc' = AfterWrite(hpc)
      /\ tag' = (IF tag = "none" THEN hpc ELSE tag)
      /\ left' = IF hpc' \in Writes THEN SizeOf(hpc') ELSE 0
  BY <1>2 DEF Transfer
<1>4. WholeWrites'
  BY <1>1, <1>3 DEF WholeWrites, SizeOf
<1>5. Phases'
  BY <1>1, <1>2, <1>3 DEF AfterWrite, Unseen, MagicDue, HelloDue, EchoDue, Exchanging,
     AppOut, HeaderDue, HeaderIn, PayloadDue, PayloadIn, ResponseDue, AppReads, DriverReads,
     HostBetween, SizeOf, Writes, MagicBytes, HelloBytes, HeaderBytes
<1> QED
  BY <1>4, <1>5

\* A bus goes down anywhere and comes up under a PSP that has seen it go.
LEMMA CableKeeps == ASSUME FullInv, Unplug \/ Plug PROVE Phases'
<1> USE DEF FullInv, StepInv, Phases, CutOff, BusInv, Greeting, Holders
<1>1. UNCHANGED <<gConnected, sema, dpc, op, stage, hpc, size, hsize>>
  BY DEF Unplug, Plug, appVars, hostVars
<1>2. CASE Unplug
  <2>1. plugged /\ ~plugged' /\ (need > 0 => posted' = {})
    BY <1>2 DEF Unplug
  <2>2. CASE need > 0
    BY <2>1, <2>2
  <2>3. CASE ~(need > 0)
    <3>1. UNCHANGED <<posted, need, tag>>
      BY <1>2, <2>3 DEF Unplug
    <3> QED
      BY <1>1, <2>1, <2>3, <3>1 DEF TypeOK, Unseen, MagicDue, HelloDue, EchoDue, Exchanging,
         HeaderDue, HeaderIn, PayloadDue, PayloadIn, ResponseDue, AppReads, DriverReads,
         HostBetween, MagicBytes, HelloBytes, HeaderBytes
  <2> QED
    BY <2>2, <2>3
<1>3. CASE Plug
  BY <1>1, <1>3, PlugWaits DEF Plug, DriverRunnable, Unseen, AppOut, TypeOK
<1> QED
  BY <1>2, <1>3

LEMMA WholeWritesKept == ASSUME FullInv, [Next]_vars PROVE WholeWrites'
<1> USE DEF FullInv, StepInv, WholeWrites, SizeOf
<1>1. CASE Transfer
  BY <1>1, TransferKeeps
<1>2. CASE UNCHANGED <<hpc, left, hsize>>
  BY <1>2
<1>3. CASE DriverHello
  BY <1>3 DEF DriverHello
<1>4. CASE AppResponded
  BY <1>4 DEF AppResponded, Writes
<1>5. CASE HostStart \/ HostOpen \/ HostPump \/ ProbeTimeout \/ HostFails \/ HostStop
  BY <1>5 DEF HostStart, HostOpen, HostPump, ProbeTimeout, HostFails, HostStop, Writes
<1> QED
  BY <1>1, <1>2, <1>3, <1>4, <1>5 DEF Next, vars, hostVars, DriverEvent, DriverMagic,
     DriverLock, DriverEcho, PressCross, AppCheck, AppRefused, WindowEnds, AppPost,
     AppPostRefused, AppRead, AppResponseFails, Unplug, Plug

LEMMA FullStep == FullInv /\ [Next]_vars => FullInv'
<1> SUFFICES ASSUME FullInv, [Next]_vars PROVE Phases'
  BY BusStep, WholeWritesKept DEF FullInv, StepInv
<1>1. CASE UNCHANGED vars
  BY <1>1 DEF vars, deviceVars, appVars, hostVars, FullInv, StepInv, Phases, CutOff, Unseen,
     MagicDue, HelloDue, EchoDue, Exchanging, AppOut, HeaderDue, HeaderIn, PayloadDue,
     PayloadIn, ResponseDue, AppReads, DriverReads, HostBetween
<1> QED
  BY <1>1, DriverKeeps, AppKeeps, HostKeeps, TransferKeeps, CableKeeps DEF Next, Driver,
     App, StepInv

LEMMA InvariantHolds == Spec => []FullInv
<1>1. Init => FullInv
  BY InitBus DEF Init, FullInv, StepInv, Phases, CutOff, WholeWrites, Writes
<1> QED
  BY <1>1, FullStep, PTL DEF Spec

\* InStep: for every set of payload sizes, no payload is read as a header and no
\* frame as an echo; the handshake of a host that started again (transport_usb.c:38)
\* fills a header read exactly, as 4 and 12 bytes are the 16 of a header.
THEOREM EndsInStep == Spec => []InStep
<1>1. FullInv => InStep
  BY DEF FullInv, StepInv, Phases, CutOff, WholeWrites, InStep, BusInv, TypeOK, Holders,
     Greeting, Unseen, MagicDue, HelloDue, EchoDue, Exchanging, AppOut, HeaderDue, HeaderIn,
     PayloadDue, PayloadIn, ResponseDue, AppReads, DriverReads, HostBetween, SizeOf, Writes,
     MagicBytes, HelloBytes, HeaderBytes
<1> QED
  BY <1>1, InvariantHolds, PTL

\* HostBelievesTruly: the probe of transport_usb.c:44 tells the host the truth; while
\* it pumps over a live cable, the driver counts as connected.
THEOREM BeliefIsTrue == Spec => []HostBelievesTruly
<1>1. FullInv => HostBelievesTruly
  BY QuietPhases DEF HostBelievesTruly, MagicDue, HelloDue, EchoDue, DriverReads,
     DriverRunnable
<1> QED
  BY <1>1, InvariantHolds, PTL
=============================================================================
