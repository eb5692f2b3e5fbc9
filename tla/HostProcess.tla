---------------------------- MODULE HostProcess ----------------------------
(***************************************************************************)
(* One run after the other of the Linux host (main.c): its lock, its       *)
(* signals, the virtual output it creates and removes (display_auto.c) and *)
(* its capture backend with the sizes the encoder scales from              *)
(* (capture_wlr.c, capture_x11.c, capture_portal.c).  The frames and their *)
(* responses are FramePump; here a cycle is a grab, an encoding, a pump.   *)
(*                                                                         *)
(* A capture's size is all the model keeps of a picture.  The PipeWire     *)
(* thread is the portal backend's second thread.                           *)
(***************************************************************************)
EXTENDS Integers, FiniteSets

CONSTANTS
  Sizes,      \* bound: the sizes an output or a stream may have
  PspSize,    \* 480x272, the default of g_opt.w and g_opt.h
  DispSize,   \* g_opt.disp_w x disp_h, the virtual output's
  MaxOutputs  \* bound: virtual outputs on the desktop, those left behind included

ASSUME HostAssumption ==
  /\ PspSize \in Sizes /\ DispSize \in Sizes /\ PspSize # DispSize
  /\ MaxOutputs \in Nat \ {0}

None == "none"
Backends == {"wlr", "x11", "portal"}

VARIABLES
  pc, run,        \* the main thread; the flag on_sig clears
  opt,            \* the options: backend, what to show, transport
  lock,           \* who holds a descriptor of the locked file: "main", "parent", "other"
  locked,         \* this run took the lock
  sig,            \* on_sig is installed
  eintr,          \* a signal interrupted the read of the script's output
  wm,             \* what detect_wm finds
  outputs, strips,  \* the desktop: virtual outputs; strips the X11 framebuffer grew by
  before,         \* what of both the run found
  created,        \* created_name is set
  orig,           \* x11_orig_w: strips there were before ours
  told,           \* atexit is registered, the display is announced
  region,         \* g_opt.w x g_opt.h
  dims,           \* backend.width x backend.height
  buf,            \* size of the wlr buffer, the X11 image or the portal's read_buf
  info,           \* wlr: size announced for the frame; portal: f_w x f_h
  frameBuf, have, \* portal: frame_buf, have_frame
  pw,             \* portal: the PipeWire thread runs
  renegotiated    \* portal: the format changed after p_init read its size (history)

procVars == <<opt, lock, locked, sig, wm, told>>
deskVars == <<outputs, strips, before, created, orig>>
streamVars == <<info, frameBuf, have, pw, renegotiated>>
vars == <<pc, run, eintr, procVars, deskVars, region, dims, buf, streamVars>>

Working == {"fork", "handlers", "backend", "region", "auto", "popen", "init", "create", "select",
            "start", "remote", "stream", "dims", "width", "check", "open", "accept", "grab", "copy", "encode",
            "pump", "close", "term", "exit"}

NoOpt == [cap |-> "wlr", show |-> "auto", link |-> "usb"]

Init ==
  /\ pc = "off" /\ run = TRUE
  /\ opt = NoOpt
  /\ lock = {} /\ locked = FALSE /\ sig = FALSE /\ eintr = FALSE
  /\ wm \in {None, "sway", "x11"}
  /\ outputs = 0 /\ strips = 0 /\ before = [outputs |-> 0, strips |-> 0]
  /\ created = FALSE /\ orig = 0 /\ told = FALSE
  /\ region = PspSize /\ dims = PspSize /\ buf = None
  /\ info = None /\ frameBuf = None /\ have = FALSE /\ pw = FALSE /\ renegotiated = FALSE

Goto(p) == pc' = p

-----------------------------------------------------------------------------
(* Start: options, lock, background, handlers, backend (main.c). *)

\* show is "auto", "named" (-o) or "plain" (--no-display or a region).
Launch ==
  /\ pc = "off" /\ Goto("lock")
  /\ opt' \in [cap : Backends, show : {"auto", "named", "plain"}, link : {"usb", "tcp"}]
  /\ before' = [outputs |-> outputs, strips |-> strips]
  /\ UNCHANGED <<run, eintr, lock, locked, sig, wm, told, outputs, strips, created, orig,
                 region, dims, buf, streamVars>>

\* The file cannot be opened, is free, or is locked by another process.
AcquireLock ==
  /\ pc = "lock"
  /\ \/ Goto("fork") /\ UNCHANGED <<lock, locked>>
     \/ lock = {} /\ lock' = {"main"} /\ locked' = TRUE /\ Goto("fork")
     \/ lock # {} /\ Goto("exit") /\ UNCHANGED <<lock, locked>>
  /\ UNCHANGED <<run, eintr, opt, sig, wm, told, deskVars, region, dims, buf, streamVars>>

\* daemonize: the child goes on with a copy of the descriptor; or no -D; or fork fails.
Daemonize ==
  /\ pc = "fork"
  /\ \/ Goto("handlers") /\ lock' = IF locked THEN lock \cup {"parent"} ELSE lock
     \/ Goto("handlers") /\ UNCHANGED lock
     \/ Goto("exit") /\ UNCHANGED lock
  /\ UNCHANGED <<run, eintr, opt, locked, sig, wm, told, deskVars, region, dims, buf, streamVars>>

\* As ParentExits, but the lock is the process's that took it, not the descriptor's.
ParentUnlocks ==
  /\ "parent" \in lock /\ lock' = lock \ {"parent", "main"}
  /\ UNCHANGED <<pc, run, eintr, opt, locked, sig, wm, told, deskVars, region, dims, buf, streamVars>>

\* The parent that daemonize left prints and ends with _exit.
ParentExits ==
  /\ "parent" \in lock /\ lock' = lock \ {"parent"}
  /\ UNCHANGED <<pc, run, eintr, opt, locked, sig, wm, told, deskVars, region, dims, buf, streamVars>>

InstallHandlers ==
  /\ pc = "handlers" /\ sig' = TRUE /\ Goto("backend")
  /\ UNCHANGED <<run, eintr, opt, lock, locked, wm, told, deskVars, region, dims, buf, streamVars>>

\* capture_wlr and capture_x11 copy the region's size; a custom region has it by then.
ChooseBackend ==
  /\ pc = "backend" /\ Goto("region")
  /\ region' \in IF opt.show = "plain" THEN Sizes ELSE {PspSize}
  /\ dims' = IF opt.cap = "portal" THEN None ELSE region'
  /\ UNCHANGED <<run, eintr, procVars, deskVars, buf, streamVars>>

\* -o NAME on X11: the named monitor's geometry becomes the region.
LookUpOutput ==
  /\ pc = "region"
  /\ \/ opt.cap = "x11" /\ opt.show = "named" /\ region' \in Sizes /\ Goto("auto")
     \/ opt.cap = "x11" /\ opt.show = "named" /\ UNCHANGED region /\ Goto("exit")
     \/ (opt.cap # "x11" \/ opt.show # "named") /\ UNCHANGED region /\ Goto("auto")
  /\ UNCHANGED <<run, eintr, procVars, deskVars, dims, buf, streamVars>>

-----------------------------------------------------------------------------
(* The virtual output (display_auto.c).  A signal while the script's output *)
(* is read makes fgets fail; pclose still waits for the script.             *)

MayAuto == opt.cap \in {"wlr", "x11"} /\ opt.show = "auto"

StartScript ==
  /\ pc = "auto" /\ Goto(IF MayAuto /\ wm # None THEN "popen" ELSE "init")
  /\ UNCHANGED <<run, eintr, procVars, deskVars, region, dims, buf, streamVars>>

\* The script fails and leaves nothing behind.
ScriptFails ==
  /\ pc = "popen" /\ Goto("init") /\ eintr' = FALSE
  /\ UNCHANGED <<run, procVars, deskVars, region, dims, buf, streamVars>>

\* As ScriptCreates, but the width to restore is read after the framebuffer grew.
RecordsGrown(polled) ==
  LET named == ~eintr /\ (polled \/ wm = "x11") IN
  /\ pc = "popen" /\ Goto("init")
  /\ strips < MaxOutputs
  /\ IF wm = "x11"
     THEN outputs' = 1 /\ strips' = strips + 1 /\ orig' = IF named THEN strips + 1 ELSE orig
     ELSE outputs < MaxOutputs /\ outputs' = outputs + 1 /\ UNCHANGED <<strips, orig>>
  /\ created' = named /\ told' = named /\ eintr' = FALSE
  /\ region' = IF named /\ wm = "x11" THEN DispSize ELSE region
  /\ UNCHANGED <<run, opt, lock, locked, sig, wm, before, dims, buf, streamVars>>

\* The output exists; its name is printed unless five polls missed it.  atexit follows a
\* name, and on X11 the region becomes the strip.
ScriptCreates(polled) ==
  LET named == ~eintr /\ (polled \/ wm = "x11") IN
  /\ pc = "popen" /\ Goto("init")
  /\ strips < MaxOutputs
  /\ IF wm = "x11"
     THEN outputs' = 1 /\ strips' = strips + 1 /\ orig' = IF named THEN strips ELSE orig
     ELSE outputs < MaxOutputs /\ outputs' = outputs + 1 /\ UNCHANGED <<strips, orig>>
  /\ created' = named /\ told' = named /\ eintr' = FALSE
  /\ region' = IF named /\ wm = "x11" THEN DispSize ELSE region
  /\ UNCHANGED <<run, opt, lock, locked, sig, wm, before, dims, buf, streamVars>>

\* display_auto_destroy: drops the output whose name it knows.  The command is taken to
\* succeed: the code calls it best effort and looks at no result (display_auto.c:160).
Destroyed ==
  /\ created' = FALSE
  /\ outputs' = IF ~created THEN outputs ELSE IF wm = "x11" THEN 0 ELSE outputs - 1
  /\ strips' = IF created /\ wm = "x11" THEN orig ELSE strips

-----------------------------------------------------------------------------
(* Capture, wlr and X11. *)

\* cap->init failed: the output goes at once.
InitFails ==
  /\ Goto("exit") /\ Destroyed
  /\ UNCHANGED <<run, eintr, procVars, before, orig, region, dims, buf, info, frameBuf, have,
                 renegotiated>>

\* x_init takes the image's size from g_opt.
XInit ==
  /\ pc = "init" /\ opt.cap = "x11"
  /\ \/ InitFails /\ UNCHANGED pw
     \/ /\ Goto("check") /\ buf' = region
        /\ UNCHANGED <<run, eintr, procVars, deskVars, region, dims, streamVars>>

\* w_init: the compositor must offer screencopy and the named output.
WlrInit ==
  /\ pc = "init" /\ opt.cap = "wlr"
  /\ \/ InitFails /\ UNCHANGED pw
     \/ /\ Goto("check")
        /\ UNCHANGED <<run, eintr, procVars, deskVars, region, dims, buf, streamVars>>

\* Xlib's error handler ends the process when the region is no longer on the screen.
XError ==
  /\ pc = "grab" /\ opt.cap = "x11" /\ Goto("exit")
  /\ UNCHANGED <<run, eintr, procVars, deskVars, region, dims, buf, streamVars>>

XGrab ==
  /\ pc = "grab" /\ opt.cap = "x11" /\ Goto("encode")
  /\ UNCHANGED <<run, eintr, procVars, deskVars, region, dims, buf, streamVars>>

\* As NeedsBuffer, but a buffer that could not be had is not missed.
SizeChanged(size) == dims # size

\* w_grab needs a new buffer.
NeedsBuffer(size) == buf = None \/ dims # size

\* make_buffer destroys the old buffer first; only a new one changes backend's size.
MakeBuffer(size) ==
  \/ buf' = size /\ dims' = size /\ Goto("copy")
  \/ buf' = None /\ UNCHANGED dims /\ Goto("close")

\* w_grab up to the copy: the frame's size, and a new buffer when it takes one.
WlrInfo ==
  /\ pc = "grab" /\ opt.cap = "wlr"
  /\ \/ \E size \in Sizes :
          /\ info' = size
          /\ \/ NeedsBuffer(size) /\ MakeBuffer(size)
             \/ ~NeedsBuffer(size) /\ Goto("copy") /\ UNCHANGED <<buf, dims>>
     \/ Goto("close") /\ UNCHANGED <<info, buf, dims>>
  /\ UNCHANGED <<run, eintr, procVars, deskVars, region, frameBuf, have, pw, renegotiated>>

\* The compositor copies the frame, fails, or is gone.
WlrCopy ==
  /\ pc = "copy" /\ pc' \in {"encode", "close"}
  /\ UNCHANGED <<run, eintr, procVars, deskVars, region, dims, buf, streamVars>>

-----------------------------------------------------------------------------
(* Capture, portal: the D-Bus steps, the PipeWire thread, the snapshot. *)

\* p_init posts the first step and runs the handshake's main loop.
PortalInit ==
  /\ pc = "init" /\ opt.cap = "portal"
  /\ \/ InitFails /\ UNCHANGED pw
     \/ /\ Goto("create")
        /\ UNCHANGED <<run, eintr, procVars, deskVars, region, dims, buf, streamVars>>

\* CreateSession, SelectSources, Start, OpenPipeWireRemote, then start_pipewire.
Handshake == [create |-> "select", select |-> "start", start |-> "remote", remote |-> "stream"]

\* The answer to a step posts the next or ends the handshake.  Nothing else ends it: an
\* error of the call itself is ignored, and so is a signal.
Answer(granted) ==
  /\ pc \in DOMAIN Handshake
  /\ \/ /\ granted /\ Goto(Handshake[pc]) /\ pw' = (pc = "remote")
        /\ UNCHANGED <<run, eintr, procVars, deskVars, region, dims, buf, info, frameBuf, have,
                       renegotiated>>
     \/ ~granted /\ InitFails /\ UNCHANGED pw

\* on_param_changed, once the modifier is fixed: a new buffer without a frame.
ParamChanged ==
  /\ pw
  /\ \E size \in Sizes : info' = size /\ frameBuf' = size
  /\ have' = FALSE /\ renegotiated' = (pc \notin {"stream", "dims"})
  /\ UNCHANGED <<pc, run, eintr, procVars, deskVars, region, dims, buf, pw>>

\* on_process: a frame is copied, or the GPU could not read it back.
Process ==
  /\ pw /\ frameBuf # None /\ have' \in {have, TRUE}
  /\ UNCHANGED <<pc, run, eintr, procVars, deskVars, region, dims, buf,
                 info, frameBuf, pw, renegotiated>>

\* A first frame, or five seconds without one.
WaitFrame ==
  /\ pc = "stream" /\ Goto("dims")
  /\ UNCHANGED <<run, eintr, procVars, deskVars, region, dims, buf, streamVars>>

ReadDims ==
  /\ pc = "dims" /\ dims' = info /\ Goto("width")
  /\ UNCHANGED <<run, eintr, procVars, deskVars, region, buf, streamVars>>

\* f_w is read again, now without the lock.
CheckWidth ==
  /\ pc = "width"
  /\ \/ /\ info # None /\ Goto("check")
        /\ UNCHANGED <<run, eintr, procVars, deskVars, region, dims, buf, streamVars>>
     \/ info = None /\ InitFails /\ UNCHANGED pw

\* p_grab: the latest frame, with its layout, under the lock.
PortalGrab ==
  /\ pc = "grab" /\ opt.cap = "portal"
  /\ \/ have /\ frameBuf # None /\ buf' = info /\ Goto("encode")
     \/ ~(have /\ frameBuf # None) /\ Goto("close") /\ UNCHANGED buf
  /\ UNCHANGED <<run, eintr, procVars, deskVars, region, dims, streamVars>>

-----------------------------------------------------------------------------
(* Connections, frames, the end (main.c). *)

CheckRun ==
  /\ pc = "check" /\ Goto(IF run THEN "open" ELSE "term")
  /\ UNCHANGED <<run, eintr, procVars, deskVars, region, dims, buf, streamVars>>

\* USB finds the PSP or not; TCP blocks in accept.
Open ==
  /\ pc = "open"
  /\ \/ opt.link = "usb" /\ pc' \in {"grab", "check"}
     \/ opt.link = "tcp" /\ Goto("accept")
  /\ UNCHANGED <<run, eintr, procVars, deskVars, region, dims, buf, streamVars>>

\* A PSP connects, with the right password or not.
PspConnects ==
  /\ pc = "accept" /\ pc' \in {"grab", "check"}
  /\ UNCHANGED <<run, eintr, procVars, deskVars, region, dims, buf, streamVars>>

\* frame_hash and frame_encode read the capture through cap->pixel.
Encode ==
  /\ pc = "encode" /\ Goto("pump")
  /\ UNCHANGED <<run, eintr, procVars, deskVars, region, dims, buf, streamVars>>

Pump ==
  /\ pc = "pump"
  /\ \/ Goto(IF run THEN "grab" ELSE "close")
     \/ Goto("close")
  /\ UNCHANGED <<run, eintr, procVars, deskVars, region, dims, buf, streamVars>>

Close ==
  /\ pc = "close" /\ Goto("check")
  /\ UNCHANGED <<run, eintr, procVars, deskVars, region, dims, buf, streamVars>>

\* p_term stops the PipeWire thread before its buffer goes; the others have no thread.
CaptureTerm == pw' = FALSE /\ frameBuf' = None

Term ==
  /\ pc = "term" /\ Goto("exit") /\ CaptureTerm
  /\ UNCHANGED <<run, eintr, procVars, deskVars, region, dims, buf, info, have, renegotiated>>

\* The process's memory and descriptors are gone.
Gone ==
  /\ run' = TRUE /\ lock' = lock \ {"main"} /\ locked' = FALSE /\ sig' = FALSE
  /\ eintr' = FALSE /\ created' = FALSE /\ orig' = 0
  /\ region' = PspSize /\ dims' = PspSize /\ buf' = None
  /\ info' = None /\ frameBuf' = None /\ have' = FALSE /\ pw' = FALSE /\ renegotiated' = FALSE
  /\ UNCHANGED <<opt, wm, before>>

\* return from main, or exit: what atexit registered runs.
Exit ==
  /\ pc = "exit" /\ Goto("ended") /\ UNCHANGED told
  /\ LET removes == told /\ created IN
     /\ outputs' = IF ~removes THEN outputs ELSE IF wm = "x11" THEN 0 ELSE outputs - 1
     /\ strips' = IF removes /\ wm = "x11" THEN orig ELSE strips
  /\ Gone

\* The user may start it again.
Rest ==
  /\ pc \in {"ended", "killed"} /\ Goto("off") /\ told' = FALSE
  /\ opt' = NoOpt /\ before' = [outputs |-> 0, strips |-> 0]
  /\ UNCHANGED <<run, eintr, lock, locked, sig, wm, outputs, strips, created, orig,
                 region, dims, buf, streamVars>>

HostStep ==
  \/ AcquireLock \/ Daemonize \/ ParentExits \/ InstallHandlers \/ ChooseBackend \/ LookUpOutput
  \/ StartScript \/ ScriptFails \/ (\E polled \in BOOLEAN : ScriptCreates(polled))
  \/ XInit \/ WlrInit \/ XError \/ XGrab \/ WlrInfo \/ WlrCopy
  \/ PortalInit \/ WaitFrame \/ ReadDims \/ CheckWidth \/ PortalGrab
  \/ CheckRun \/ Open \/ Encode \/ Pump \/ Close \/ Term \/ Exit \/ Rest

-----------------------------------------------------------------------------
(* Signals and the other processes. *)

\* As Signal, with SA_RESTART: accept goes on.
SignalRestarts ==
  /\ pc \in Working \cup {"lock"}
  /\ \/ /\ sig /\ run' = FALSE
        /\ eintr' = (eintr \/ pc = "popen")
        /\ UNCHANGED <<pc, procVars, deskVars, region, dims, buf, streamVars>>
     \/ /\ ~sig /\ Goto("killed") /\ Gone /\ UNCHANGED <<told, outputs, strips>>

\* SIGTERM or SIGINT: on_sig, or the default action before it is installed.  accept
\* returns with EINTR; transfers do too, which Pump allows at any time.
Signal ==
  /\ pc \in Working \cup {"lock"}
  /\ \/ /\ sig /\ run' = FALSE
        /\ eintr' = (eintr \/ pc = "popen")
        /\ Goto(IF pc = "accept" THEN "check" ELSE pc)
        /\ UNCHANGED <<procVars, deskVars, region, dims, buf, streamVars>>
     \/ /\ ~sig /\ Goto("killed") /\ Gone /\ UNCHANGED <<told, outputs, strips>>

\* SIGKILL, a crash.
Kill ==
  /\ pc \in Working /\ Goto("killed") /\ Gone /\ UNCHANGED <<told, outputs, strips>>

\* Another pspdisp with the same lock file.
OtherTakes ==
  /\ lock = {} /\ lock' = {"other"}
  /\ UNCHANGED <<pc, run, eintr, opt, locked, sig, wm, told, deskVars, region, dims, buf, streamVars>>

OtherExits ==
  /\ "other" \in lock /\ lock' = {}
  /\ UNCHANGED <<pc, run, eintr, opt, locked, sig, wm, told, deskVars, region, dims, buf, streamVars>>

Next ==
  \/ HostStep \/ Launch \/ Signal \/ Kill \/ PspConnects
  \/ (\E granted \in BOOLEAN : Answer(granted)) \/ ParamChanged \/ Process
  \/ OtherTakes \/ OtherExits

Spec == Init /\ [][Next]_vars

\* The host is scheduled, the portal and its user answer, and who stopped the host
\* signals again while it still waits in accept.  No PSP needs to come.
FairSpec ==
  /\ Spec
  /\ WF_vars(HostStep)
  /\ WF_vars(\E granted \in BOOLEAN : Answer(granted))
  /\ WF_vars(pc = "accept" /\ ~run /\ Signal)

-----------------------------------------------------------------------------
\* Every variable has its type.
TypeOK ==
  /\ pc \in Working \cup {"off", "lock", "ended", "killed"} /\ run \in BOOLEAN
  /\ opt \in [cap : Backends, show : {"auto", "named", "plain"}, link : {"usb", "tcp"}]
  /\ lock \in SUBSET {"main", "parent", "other"} /\ locked \in BOOLEAN
  /\ sig \in BOOLEAN /\ eintr \in BOOLEAN /\ wm \in {None, "sway", "x11"}
  /\ outputs \in 0 .. MaxOutputs /\ strips \in 0 .. MaxOutputs
  /\ before \in [outputs : 0 .. MaxOutputs, strips : 0 .. MaxOutputs]
  /\ created \in BOOLEAN /\ orig \in 0 .. MaxOutputs /\ told \in BOOLEAN
  /\ region \in Sizes /\ dims \in Sizes \cup {None} /\ buf \in Sizes \cup {None}
  /\ info \in Sizes \cup {None} /\ frameBuf \in Sizes \cup {None}
  /\ have \in BOOLEAN /\ pw \in BOOLEAN /\ renegotiated \in BOOLEAN

\* No two hosts with the same lock file work at once: the lock outlives the parent that
\* --background leaves, and no other process gets it before this one is gone.
OneHost == pc \in Working /\ locked => lock \cap {"main", "other"} = {"main"}

\* A virtual output the host announced is gone after every end but a kill, however the end
\* came about, and with it the strip of the X11 framebuffer; an output without an
\* announcement (five polls that missed it, an interrupted read) may stay, and so does
\* one whose compositor refuses to drop it.
DisplayRemoved ==
  pc = "ended" /\ told => outputs <= before.outputs /\ strips <= before.strips

\* The encoder scales from the size of the picture that was grabbed, also after an output
\* changed its size or a buffer could not be had.  It does not when the X11 region changed
\* after capture_x11 copied it, or when the portal's stream changed its format after p_init.
SizesAgree ==
  pc = "encode" =>
    \/ dims = buf
    \/ opt.cap = "x11" /\ (opt.show = "named" \/ told)
    \/ opt.cap = "portal" /\ renegotiated

\* SIGTERM stops the host wherever it finds it, as main.c promises for its handlers,
\* though a signal that falls between the test of run and accept takes a second one.
StopWorks == (pc \in Working /\ ~run) ~> pc \in {"ended", "killed"}

\* The X11 picture of a virtual output is the whole output, downscaled.
Downscaled == pc = "encode" /\ opt.cap = "x11" /\ wm = "x11" /\ told => dims = buf
=============================================================================
