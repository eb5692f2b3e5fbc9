------------------------- MODULE HostProcessProofs -------------------------
(***************************************************************************)
(* Theorems about HostProcess for every set of sizes and any number of     *)
(* outputs: one host per lock file, and what an announced virtual output   *)
(* leaves behind.                                                          *)
(***************************************************************************)
EXTENDS HostProcess, TLAPS

\* Steps that leave the desktop, the lock and what the process knows of them alone.
Quiet ==
  \/ InstallHandlers \/ ChooseBackend \/ LookUpOutput \/ StartScript \/ ScriptFails
  \/ XError \/ XGrab \/ WlrInfo \/ WlrCopy \/ WaitFrame \/ ReadDims \/ PortalGrab
  \/ CheckRun \/ Open \/ PspConnects \/ Encode \/ Pump \/ Close \/ Term
  \/ ParamChanged \/ Process

\* Steps that initialise the capture, and remove the output when that fails.
Initialises ==
  \/ XInit \/ WlrInit \/ PortalInit \/ CheckWidth
  \/ \E granted \in BOOLEAN : Answer(granted)

\* Signals and kills either count or end the process where it stands.
Signalled ==
  \/ /\ pc \in Working \cup {"lock"} /\ pc' \in {pc, "check"}
     /\ pc' = "check" => pc \in {"check", "accept"}
     /\ UNCHANGED <<procVars, deskVars>>
  \/ /\ pc \in Working \cup {"lock"} /\ pc' = "killed" /\ Gone
     /\ UNCHANGED <<told, outputs, strips>>

-----------------------------------------------------------------------------
(* The lock *)

\* The lock a run took is its own until its process is gone.
LockInv == locked => "main" \in lock /\ "other" \notin lock

LEMMA SignalOrKill == Signal \/ Kill => Signalled
BY DEF Signal, Kill, Signalled, Goto, Working

LEMMA LockStep == LockInv /\ [Next]_vars => LockInv'
<1> SUFFICES ASSUME LockInv, [Next]_vars PROVE LockInv'
  OBVIOUS
<1> USE DEF LockInv
<1>1. CASE UNCHANGED <<lock, locked>>
  BY <1>1
<1>2. CASE AcquireLock
  <2>1. CASE UNCHANGED <<lock, locked>>
    BY <2>1
  <2>2. CASE lock' = {"main"}
    BY <2>2
  <2> QED
    BY <1>2, <2>1, <2>2 DEF AcquireLock
<1>3. CASE Daemonize
  BY <1>3 DEF Daemonize
<1>4. CASE ParentExits
  BY <1>4 DEF ParentExits
<1>5. CASE OtherTakes \/ OtherExits
  BY <1>5 DEF OtherTakes, OtherExits
<1>6. CASE Exit \/ Signal \/ Kill
  <2>1. locked' = FALSE \/ UNCHANGED <<lock, locked>>
    BY <1>6, SignalOrKill DEF Exit, Signalled, Gone, procVars
  <2> QED
    BY <2>1
<1>7. Next => \/ UNCHANGED <<lock, locked>> \/ AcquireLock \/ Daemonize \/ ParentExits
              \/ OtherTakes \/ OtherExits \/ Exit \/ Signal \/ Kill
  <2>1. Quiet => UNCHANGED <<lock, locked>>
    BY DEF Quiet, InstallHandlers, ChooseBackend, LookUpOutput, StartScript, ScriptFails,
           XError, XGrab, WlrInfo, WlrCopy, WaitFrame, ReadDims, PortalGrab, CheckRun, Open,
           PspConnects, Encode, Pump, Close, Term, ParamChanged, Process, procVars
  <2>2. Initialises => UNCHANGED <<lock, locked>>
    BY DEF Initialises, XInit, WlrInit, PortalInit, CheckWidth, Answer, InitFails, procVars
  <2>3. Launch \/ Rest \/ (\E polled \in BOOLEAN : ScriptCreates(polled))
          => UNCHANGED <<lock, locked>>
    BY DEF Launch, Rest, ScriptCreates
  <2> QED
    BY <2>1, <2>2, <2>3 DEF Next, HostStep, Quiet, Initialises
<1>8. CASE UNCHANGED vars
  BY <1>8 DEF vars, procVars
<1> QED
  BY <1>1, <1>2, <1>3, <1>4, <1>5, <1>6, <1>7, <1>8

\* While a host that took the lock works, its process has the lock and no other host's
\* has: neither the parent that --background leaves (main.c:49) nor another start of the
\* program (main.c:28) takes it away.
THEOREM OneHostWorks == Spec => []OneHost
<1>1. Init => LockInv
  BY DEF Init, LockInv
<1>2. LockInv => OneHost
  BY DEF LockInv, OneHost
<1> QED
  BY <1>1, LockStep, <1>2, PTL DEF Spec
-----------------------------------------------------------------------------
(* The virtual output *)

\* Until the script has run the desktop is as the run found it.
Early == {"lock", "fork", "handlers", "backend", "region", "auto", "popen"}

DeskTypes ==
  /\ outputs \in Nat /\ strips \in Nat /\ orig \in Nat
  /\ before \in [outputs : Nat, strips : Nat]
  /\ created \in BOOLEAN /\ told \in BOOLEAN

\* What the process knows of an output is enough to remove it.
DisplayInv ==
  /\ pc \in Early => ~told /\ outputs = before.outputs /\ strips = before.strips
  /\ pc = "off" => ~told
  /\ created => told /\ pc \in Working
  /\ created /\ wm = "x11" => orig = before.strips
  /\ created /\ wm # "x11" => outputs = before.outputs + 1 /\ strips = before.strips
  /\ told /\ ~created /\ pc \in Working \cup {"ended"}
       => outputs <= before.outputs /\ strips <= before.strips

DeskInv == DeskTypes /\ DisplayInv

\* Quiet steps stay on their side of the script.
LEMMA QuietStays ==
  ASSUME Quiet
  PROVE  /\ UNCHANGED <<deskVars, told, wm>>
         /\ (pc \in Working /\ pc' \in Working) \/ pc' = pc
         /\ pc' \in Early => pc \in Early
<1>1. CASE InstallHandlers \/ ChooseBackend \/ LookUpOutput \/ StartScript \/ ScriptFails
  BY <1>1 DEF InstallHandlers, ChooseBackend, LookUpOutput, StartScript, ScriptFails,
              procVars, Goto, Working, Early
<1>2. CASE XError \/ XGrab \/ WlrInfo \/ WlrCopy \/ WaitFrame \/ ReadDims \/ PortalGrab
  BY <1>2 DEF XError, XGrab, WlrInfo, MakeBuffer, WlrCopy, WaitFrame, ReadDims, PortalGrab,
              procVars, Goto, Working, Early
<1>3. CASE CheckRun \/ Open \/ PspConnects \/ Encode \/ Pump \/ Close \/ Term
  BY <1>3 DEF CheckRun, Open, PspConnects, Encode, Pump, Close, Term,
              procVars, Goto, Working, Early
<1>4. CASE ParamChanged \/ Process
  BY <1>4 DEF ParamChanged, Process, procVars
<1> QED
  BY <1>1, <1>2, <1>3, <1>4 DEF Quiet

LEMMA QuietKeeps == ASSUME DeskInv, Quiet PROVE DeskInv'
<1>1. UNCHANGED <<outputs, strips, before, created, orig, told, wm>>
  BY QuietStays DEF deskVars
<1>2. (pc \in Working /\ pc' \in Working) \/ pc' = pc
  BY QuietStays
<1>3. pc' \in Early => pc \in Early
  BY QuietStays
<1>4. pc' = "off" => pc = "off"
  BY <1>2 DEF Working
<1> QED
  BY <1>1, <1>2, <1>3, <1>4 DEF DeskInv, DeskTypes, DisplayInv

LEMMA RemovedKeeps ==
  ASSUME DeskInv, UNCHANGED before, created' = FALSE, told' \in BOOLEAN, orig' \in Nat,
         pc' \notin Early, pc' # "off",
         outputs' \in 0 .. before.outputs, strips' \in 0 .. before.strips
  PROVE  DeskInv'
<1>1. before.outputs \in Nat /\ before.strips \in Nat
  BY DEF DeskInv, DeskTypes
<1>2. outputs' \in Nat /\ strips' \in Nat
  BY <1>1
<1>3. outputs' <= before'.outputs /\ strips' <= before'.strips
  BY <1>1
<1>4. DeskTypes'
  BY <1>2 DEF DeskInv, DeskTypes
<1> QED
  BY <1>3, <1>4 DEF DeskInv, DisplayInv

\* A capture that cannot be initialised takes the output with it.
LEMMA InitialisesKeeps == ASSUME DeskInv, Initialises PROVE DeskInv'
<1>1. /\ UNCHANGED <<told, wm, before, orig>>
      /\ pc \in Working \ Early /\ pc' \in Working \ Early
      /\ (pc' = "exit" /\ Destroyed) \/ UNCHANGED <<created, outputs, strips>>
  <2>1. CASE XInit
    BY <2>1 DEF XInit, InitFails, Goto, procVars, deskVars, Working, Early
  <2>2. CASE WlrInit
    BY <2>2 DEF WlrInit, InitFails, Goto, procVars, deskVars, Working, Early
  <2>3. CASE PortalInit
    BY <2>3 DEF PortalInit, InitFails, Goto, procVars, deskVars, Working, Early
  <2>4. CASE CheckWidth
    BY <2>4 DEF CheckWidth, InitFails, Goto, procVars, deskVars, Working, Early
  <2>5. ASSUME NEW granted \in BOOLEAN, Answer(granted)
        PROVE  /\ UNCHANGED <<told, wm, before, orig>>
               /\ pc \in Working \ Early /\ pc' \in Working \ Early
               /\ (pc' = "exit" /\ Destroyed) \/ UNCHANGED <<created, outputs, strips>>
    <3>1. pc \in {"create", "select", "start", "remote"}
      BY <2>5 DEF Answer, Handshake
    <3>2. CASE granted
      <4>1. pc' \in {"select", "start", "remote", "stream"}
        BY <2>5, <3>1, <3>2 DEF Answer, Handshake, Goto
      <4> QED
        BY <2>5, <3>1, <3>2, <4>1 DEF Answer, procVars, deskVars, Working, Early
    <3>3. CASE ~granted
      BY <2>5, <3>1, <3>3 DEF Answer, InitFails, Goto, procVars, Working, Early
    <3> QED
      BY <3>2, <3>3
  <2> QED
    BY <2>1, <2>2, <2>3, <2>4, <2>5 DEF Initialises
<1>2. pc' # "off" /\ pc' \notin Early /\ pc' \in Working
  BY <1>1 DEF Working
<1>3. CASE UNCHANGED <<created, outputs, strips>>
  BY <1>1, <1>2, <1>3 DEF DeskInv, DeskTypes, DisplayInv
<1>4. CASE Destroyed
  <2>1. created' = FALSE
    BY <1>4 DEF Destroyed
  <2>2. CASE ~created
    BY <1>1, <1>2, <1>4, <2>1, <2>2 DEF Destroyed, DeskInv, DeskTypes, DisplayInv
  <2>3. CASE created /\ wm = "x11"
    <3>1. outputs' = 0 /\ strips' = before.strips
      BY <1>4, <2>3 DEF Destroyed, DeskInv, DisplayInv
    <3>2. outputs' \in 0 .. before.outputs /\ strips' \in 0 .. before.strips
      BY <3>1 DEF DeskInv, DeskTypes
    <3>3. told' \in BOOLEAN /\ orig' \in Nat
      BY <1>1 DEF DeskInv, DeskTypes
    <3> QED
      BY <1>1, <1>2, <2>1, <3>2, <3>3, RemovedKeeps
  <2>4. CASE created /\ wm # "x11"
    <3>1. outputs' = before.outputs /\ strips' = before.strips
      BY <1>4, <2>4 DEF Destroyed, DeskInv, DeskTypes, DisplayInv
    <3>2. outputs' \in 0 .. before.outputs /\ strips' \in 0 .. before.strips
      BY <3>1 DEF DeskInv, DeskTypes
    <3>3. told' \in BOOLEAN /\ orig' \in Nat
      BY <1>1 DEF DeskInv, DeskTypes
    <3> QED
      BY <1>1, <1>2, <2>1, <3>2, <3>3, RemovedKeeps
  <2> QED
    BY <2>2, <2>3, <2>4 DEF DeskInv, DeskTypes
<1> QED
  BY <1>1, <1>3, <1>4

LEMMA CreatesKeeps ==
  ASSUME DeskInv, NEW polled \in BOOLEAN, ScriptCreates(polled) PROVE DeskInv'
<1> DEFINE named == ~eintr /\ (polled \/ wm = "x11")
<1>1. pc = "popen" /\ pc' = "init" /\ created' = named /\ told' = named
      /\ UNCHANGED <<wm, before>>
  BY DEF ScriptCreates, Goto
<1>2. ~told /\ ~created /\ outputs = before.outputs /\ strips = before.strips
  BY <1>1 DEF DeskInv, DisplayInv, Early
<1>3. created' \in BOOLEAN /\ told' \in BOOLEAN /\ pc' \in Working /\ pc' \notin Early
  BY <1>1 DEF Working, Early
<1>4. CASE wm = "x11"
  <2>1. /\ outputs' = 1 /\ strips' = strips + 1
        /\ orig' = IF named THEN strips ELSE orig
    BY <1>4 DEF ScriptCreates
  <2> HIDE DEF named
  <2>2. outputs' \in Nat /\ strips' \in Nat /\ orig' \in Nat
    BY <2>1 DEF DeskInv, DeskTypes
  <2>3. created' => orig' = before'.strips
    BY <1>1, <1>2, <2>1
  <2> QED
    BY <1>1, <1>3, <1>4, <2>2, <2>3 DEF DeskInv, DeskTypes, DisplayInv
<1>5. CASE wm # "x11"
  <2>1. outputs' = outputs + 1 /\ UNCHANGED <<strips, orig>>
    BY <1>5 DEF ScriptCreates
  <2> HIDE DEF named
  <2> QED
    BY <1>1, <1>2, <1>3, <1>5, <2>1 DEF DeskInv, DeskTypes, DisplayInv
<1> QED
  BY <1>4, <1>5

\* What atexit registered removes what is still there.
LEMMA ExitKeeps == ASSUME DeskInv, Exit PROVE DeskInv'
<1>1. /\ pc = "exit" /\ pc' = "ended" /\ UNCHANGED <<told, wm, before>>
      /\ created' = FALSE /\ orig' = 0
  BY DEF Exit, Goto, Gone
<1>2. CASE ~(told /\ created)
  <2>1. UNCHANGED <<outputs, strips>>
    BY <1>2 DEF Exit
  <2> QED
    BY <1>1, <1>2, <2>1 DEF DeskInv, DeskTypes, DisplayInv, Working, Early
<1>3. CASE told /\ created /\ wm = "x11"
  <2>1. outputs' = 0 /\ strips' = before.strips
    BY <1>3 DEF Exit, DeskInv, DisplayInv
  <2>2. outputs' \in 0 .. before.outputs /\ strips' \in 0 .. before.strips
    BY <2>1 DEF DeskInv, DeskTypes
  <2>3. told' \in BOOLEAN /\ orig' \in Nat /\ pc' \notin Early /\ pc' # "off"
    BY <1>1 DEF DeskInv, DeskTypes, Early
  <2> QED
    BY <1>1, <2>2, <2>3, RemovedKeeps
<1>4. CASE told /\ created /\ wm # "x11"
  <2>1. outputs' = before.outputs /\ strips' = before.strips
    BY <1>4 DEF Exit, DeskInv, DeskTypes, DisplayInv
  <2>2. outputs' \in 0 .. before.outputs /\ strips' \in 0 .. before.strips
    BY <2>1 DEF DeskInv, DeskTypes
  <2>3. told' \in BOOLEAN /\ orig' \in Nat /\ pc' \notin Early /\ pc' # "off"
    BY <1>1 DEF DeskInv, DeskTypes, Early
  <2> QED
    BY <1>1, <2>2, <2>3, RemovedKeeps
<1> QED
  BY <1>2, <1>3, <1>4

LEMMA SignalKeeps == ASSUME DeskInv, Signalled PROVE DeskInv'
<1>1. CASE UNCHANGED <<procVars, deskVars>> /\ pc' \in {pc, "check"}
           /\ (pc' = "check" => pc \in {"check", "accept"})
  BY <1>1 DEF DeskInv, DeskTypes, DisplayInv, procVars, deskVars, Working, Early
<1>2. CASE pc' = "killed" /\ Gone /\ UNCHANGED <<told, outputs, strips>>
  BY <1>2 DEF Gone, DeskInv, DeskTypes, DisplayInv, Working, Early
<1> QED
  BY <1>1, <1>2 DEF Signalled

LEMMA DeskStep == DeskInv /\ [Next]_vars => DeskInv'
<1> SUFFICES ASSUME DeskInv, [Next]_vars PROVE DeskInv'
  OBVIOUS
<1>1. CASE Launch
  BY <1>1 DEF Launch, Goto, DeskInv, DeskTypes, DisplayInv, Working, Early
<1>2. CASE AcquireLock \/ Daemonize
  <2>1. /\ pc \in Early /\ pc' \in {"fork", "handlers", "exit"}
        /\ UNCHANGED <<told, wm, outputs, strips, before, created, orig>>
    BY <1>2 DEF AcquireLock, Daemonize, Goto, Early, deskVars
  <2> QED
    BY <2>1 DEF DeskInv, DeskTypes, DisplayInv, Working, Early
<1>3. CASE ParentExits \/ OtherTakes \/ OtherExits
  BY <1>3 DEF ParentExits, OtherTakes, OtherExits, deskVars, DeskInv, DeskTypes, DisplayInv
<1>4. CASE Quiet
  BY <1>4, QuietKeeps
<1>5. CASE Initialises
  BY <1>5, InitialisesKeeps
<1>6. CASE \E polled \in BOOLEAN : ScriptCreates(polled)
  BY <1>6, CreatesKeeps
<1>7. CASE Exit
  BY <1>7, ExitKeeps
<1>8. CASE Rest
  <2>1. ~created
    BY <1>8 DEF Rest, DeskInv, DisplayInv, Working
  <2> QED
    BY <1>8, <2>1 DEF Rest, Goto, DeskInv, DeskTypes, DisplayInv, Working, Early
<1>9. CASE Signal \/ Kill
  BY <1>9, SignalOrKill, SignalKeeps
<1>10. CASE UNCHANGED vars
  BY <1>10 DEF vars, procVars, deskVars, DeskInv, DeskTypes, DisplayInv
<1> QED
  BY <1>1, <1>2, <1>3, <1>4, <1>5, <1>6, <1>7, <1>8, <1>9, <1>10
     DEF Next, HostStep, Quiet, Initialises

LEMMA InitDesk == Init => DeskInv
<1> SUFFICES ASSUME Init PROVE DeskTypes /\ DisplayInv
  BY DEF DeskInv
<1>1. DeskTypes
  BY DEF Init, DeskTypes
<1>2. pc = "off" /\ ~told /\ ~created
  BY DEF Init
<1>3. DisplayInv
  BY <1>2 DEF DisplayInv, Working, Early
<1> QED
  BY <1>1, <1>3

\* However the host ends but by SIGKILL, an output it announced is gone, and the X11
\* framebuffer is as wide as it was (display_auto.c:148, main.c:375), if the command that
\* removes it succeeds.
THEOREM AnnouncedIsRemoved == Spec => []DisplayRemoved
<1>1. Init => DeskInv
  BY InitDesk
<1>2. DeskInv => DisplayRemoved
  <2> SUFFICES ASSUME DeskInv, pc = "ended", told
               PROVE  outputs <= before.outputs /\ strips <= before.strips
    BY DEF DisplayRemoved
  <2> QED
    BY DEF DeskInv, DisplayInv, Working
<1> QED
  BY <1>1, DeskStep, <1>2, PTL DEF Spec
-----------------------------------------------------------------------------
(* The sizes the encoder scales from *)

Idle == {"off", "lock", "fork", "handlers", "backend", "ended", "killed"}
Prepares == {"region", "auto", "popen", "init"}
PortalSteps == {"create", "select", "start", "remote", "stream", "dims", "width"}
Serves == {"check", "open", "accept", "grab", "encode", "pump", "close"}

\* A step of one backend is not met by another.
OwnSteps ==
  /\ opt \in [cap : Backends, show : {"auto", "named", "plain"}, link : {"usb", "tcp"}]
  /\ pc = "copy" => opt.cap = "wlr"
  /\ pc \in PortalSteps => opt.cap = "portal"

\* wlr: the backend has the size of the buffer while there is one.
WlrSizes ==
  /\ pc \in Idle \cup Prepares => buf = None
  /\ opt.cap = "wlr" /\ (buf # None \/ pc \in {"copy", "encode"}) => dims = buf

\* X11: the region the backend copied is the one the image gets, unless a named output or
\* a new virtual one moved it in between.
XSizes ==
  opt.cap = "x11" /\ opt.show # "named" /\ ~told =>
    /\ pc \in Prepares => dims = region
    /\ pc \in Serves => dims = buf

\* Portal: the stream keeps the format p_init read, or has renegotiated it.
PortalSizes ==
  opt.cap = "portal" /\ ~renegotiated =>
    /\ pc \in Serves \cup {"width"} => dims = info
    /\ pc = "encode" => buf = info

SizeInv == OwnSteps /\ WlrSizes /\ XSizes /\ PortalSizes

Stages == SizeInv /\ DeskInv

LEMMA PreparesSizes ==
  ASSUME Stages,
         \/ Launch \/ AcquireLock \/ Daemonize \/ InstallHandlers \/ ChooseBackend
         \/ LookUpOutput \/ StartScript \/ ScriptFails
         \/ \E polled \in BOOLEAN : ScriptCreates(polled)
  PROVE  SizeInv'
<1> USE DEF Stages, SizeInv, OwnSteps, WlrSizes, XSizes, PortalSizes,
            Idle, Prepares, PortalSteps, Serves
<1>1. CASE Launch
  BY <1>1 DEF Launch, Goto, streamVars
<1>2. CASE AcquireLock \/ Daemonize \/ InstallHandlers
  BY <1>2 DEF AcquireLock, Daemonize, InstallHandlers, Goto, streamVars
<1>3. CASE ChooseBackend
  BY <1>3 DEF ChooseBackend, Goto, procVars, streamVars
<1>4. CASE LookUpOutput
  BY <1>4 DEF LookUpOutput, Goto, procVars, streamVars
<1>5. CASE StartScript \/ ScriptFails
  BY <1>5 DEF StartScript, ScriptFails, Goto, procVars, streamVars
<1>6. ASSUME NEW polled \in BOOLEAN, ScriptCreates(polled) PROVE SizeInv'
  <2>1. ~told
    BY <1>6 DEF ScriptCreates, DeskInv, DisplayInv, Early
  <2>2. /\ pc = "popen" /\ pc' = "init" /\ UNCHANGED <<opt, dims, buf, streamVars>>
        /\ told' \/ UNCHANGED region
    BY <1>6 DEF ScriptCreates, Goto
  <2> QED
    BY <2>1, <2>2 DEF streamVars
<1> QED
  BY <1>1, <1>2, <1>3, <1>4, <1>5, <1>6

LEMMA CaptureSizes ==
  ASSUME Stages,
         \/ XInit \/ WlrInit \/ XError \/ XGrab \/ WlrInfo \/ WlrCopy
         \/ PortalInit \/ WaitFrame \/ ReadDims \/ CheckWidth \/ PortalGrab
         \/ (\E granted \in BOOLEAN : Answer(granted)) \/ ParamChanged \/ Process
  PROVE  SizeInv'
<1> USE DEF Stages, SizeInv, OwnSteps, WlrSizes, XSizes, PortalSizes,
            Idle, Prepares, PortalSteps, Serves
<1>1. CASE XInit \/ WlrInit \/ PortalInit
  BY <1>1 DEF XInit, WlrInit, PortalInit, InitFails, Goto, procVars, streamVars
<1>2. CASE XError \/ XGrab
  BY <1>2 DEF XError, XGrab, Goto, procVars, streamVars
<1>3. CASE WlrInfo
  <2>1. pc = "grab" /\ opt.cap = "wlr" /\ pc' \in {"copy", "close"} /\ UNCHANGED opt
    BY <1>3 DEF WlrInfo, MakeBuffer, Goto, procVars
  <2>2. (buf' # None \/ pc' = "copy") => dims' = buf'
    BY <1>3 DEF WlrInfo, MakeBuffer, NeedsBuffer, Goto
  <2> QED
    BY <2>1, <2>2
<1>4. CASE WlrCopy
  BY <1>4 DEF WlrCopy, procVars, streamVars
<1>5. CASE WaitFrame \/ ReadDims \/ CheckWidth
  BY <1>5 DEF WaitFrame, ReadDims, CheckWidth, InitFails, Goto, procVars, streamVars
<1>6. CASE PortalGrab
  BY <1>6 DEF PortalGrab, Goto, procVars, streamVars
<1>7. ASSUME NEW granted \in BOOLEAN, Answer(granted) PROVE SizeInv'
  <2>1. pc \in {"create", "select", "start", "remote"}
    BY <1>7 DEF Answer, Handshake
  <2>2. pc' \in {"select", "start", "remote", "stream", "exit"}
    BY <1>7, <2>1 DEF Answer, Handshake, InitFails, Goto
  <2>3. UNCHANGED <<opt, told, dims, buf>>
    BY <1>7 DEF Answer, InitFails, procVars
  <2> QED
    BY <2>1, <2>2, <2>3
<1>8. CASE ParamChanged
  BY <1>8 DEF ParamChanged, procVars
<1>9. CASE Process
  BY <1>9 DEF Process, procVars
<1> QED
  BY <1>1, <1>2, <1>3, <1>4, <1>5, <1>6, <1>7, <1>8, <1>9

LEMMA ServesSizes ==
  ASSUME Stages,
         \/ CheckRun \/ Open \/ PspConnects \/ Encode \/ Pump \/ Close \/ Term
         \/ Exit \/ Rest \/ Signal \/ Kill \/ ParentExits \/ OtherTakes \/ OtherExits
  PROVE  SizeInv'
<1> USE DEF Stages, SizeInv, OwnSteps, WlrSizes, XSizes, PortalSizes,
            Idle, Prepares, PortalSteps, Serves
<1>1. CASE CheckRun \/ Open \/ PspConnects
  BY <1>1 DEF CheckRun, Open, PspConnects, Goto, procVars, streamVars
<1>2. CASE Encode \/ Pump \/ Close
  BY <1>2 DEF Encode, Pump, Close, Goto, procVars, streamVars
<1>3. CASE Term
  BY <1>3 DEF Term, CaptureTerm, Goto, procVars
<1>4. CASE Exit
  BY <1>4 DEF Exit, Gone, Goto
<1>5. CASE Rest
  BY <1>5 DEF Rest, NoOpt, Backends, Goto, streamVars
<1>6. CASE Signal
  BY <1>6 DEF Signal, Gone, Goto, procVars, streamVars
<1>7. CASE Kill
  BY <1>7 DEF Kill, Gone, Goto
<1>8. CASE ParentExits \/ OtherTakes \/ OtherExits
  BY <1>8 DEF ParentExits, OtherTakes, OtherExits, streamVars
<1> QED
  BY <1>1, <1>2, <1>3, <1>4, <1>5, <1>6, <1>7, <1>8

LEMMA SizeStep == Stages /\ [Next]_vars => Stages'
<1> SUFFICES ASSUME Stages, [Next]_vars PROVE SizeInv'
  BY DeskStep DEF Stages
<1>1. CASE UNCHANGED vars
  BY <1>1 DEF vars, procVars, deskVars, streamVars, Stages, SizeInv, OwnSteps, WlrSizes,
              XSizes, PortalSizes
<1> QED
  BY <1>1, PreparesSizes, CaptureSizes, ServesSizes DEF Next, HostStep

\* What is encoded has the size the encoder scales from (frame.c:16): make_buffer gives
\* wlr both at once, x_init sizes the image from the region the backend copied, and p_grab
\* takes the format p_init read.  Two cases are left out: X11 with a named (-o) or an
\* announced virtual output, whose region the backend copied too early (run host_corner
\* shows the announced one go wrong), and a portal stream that was renegotiated.
THEOREM EncodesWhatItGrabbed == Spec => []SizesAgree
<1>1. Init => Stages
  <2> SUFFICES ASSUME Init PROVE SizeInv /\ DeskInv
    BY DEF Stages
  <2>1. SizeInv
    BY DEF Init, NoOpt, Backends, SizeInv, OwnSteps, WlrSizes, XSizes, PortalSizes,
           Idle, Prepares, PortalSteps, Serves
  <2>2. DeskInv
    BY InitDesk
  <2> QED
    BY <2>1, <2>2
<1>2. Stages => SizesAgree
  <2> SUFFICES ASSUME Stages, pc = "encode",
                      ~(opt.cap = "x11" /\ (opt.show = "named" \/ told)),
                      ~(opt.cap = "portal" /\ renegotiated)
               PROVE  dims = buf
    BY DEF SizesAgree
  <2>1. opt.cap \in Backends
    BY DEF Stages, SizeInv, OwnSteps
  <2> QED
    BY <2>1 DEF Stages, SizeInv, WlrSizes, XSizes, PortalSizes, Backends, Serves
<1> QED
  BY <1>1, SizeStep, <1>2, PTL DEF Spec
=============================================================================
