----------------------------- MODULE FramePump -----------------------------
(***************************************************************************)
(* The frame pump of the Linux host (linux-host/main.c) and the frame loop *)
(* of the minimal PSP app (psp/source-min) that answers it.                *)
(*                                                                         *)
(* The host grabs the screen, decides whether this cycle carries a picture *)
(* (screen changed, picture owed to the PSP, or nothing sent for two       *)
(* seconds), writes a header and a payload, and waits for one response.    *)
(* The PSP reads the frame, polls its buttons, answers, then draws.  Every *)
(* exchange can be cut by the cable; both sides then start over, and not   *)
(* at the same point of their programs.                                    *)
(*                                                                         *)
(* A picture is the version of the screen it shows.  The link is the       *)
(* established session: the bytes under it and the handshake that sets it  *)
(* up belong to UsbSession.                                                *)
(***************************************************************************)
EXTENDS Integers, Sequences

CONSTANTS
  MaxVersion,   \* bound: how often the mirrored screen changes
  RefreshTicks, \* g_opt.fps * 2, the image-less cycles before a refresh
  Hash,         \* what frame_hash makes of a version; it samples a sparse grid
  JpegSize,     \* how many bytes frame_encode makes of a version
  AudioOn,      \* g_opt.audio
  Undecodable,  \* versions the PSP's hardware decoder rejects
  Chords        \* bound: the sets of keys the user may hold

None == -1
Versions == 0 .. MaxVersion
BufferSize == 400 * 1024  \* COM_IMAGE_BUFFER_SIZE
ChunkBytes == 2240 * 2    \* one audio chunk, on both sides
Keys == {"HOME", "UP", "DOWN", "CIRCLE", "CROSS"}

ASSUME ConstantAssumption ==
  /\ MaxVersion \in Nat
  /\ RefreshTicks \in Nat
  /\ Hash \in [Versions -> Nat]
  /\ JpegSize \in [Versions -> Nat \ {0}]
  /\ AudioOn \in BOOLEAN
  /\ Undecodable \subseteq Versions
  /\ Chords \subseteq SUBSET Keys

VARIABLES
  screen,    \* version the monitor shows
  link,      \* "up" while cable and driver carry a session
  toPsp,     \* frames on their way to the PSP
  toHost,    \* responses on their way to the host
  hpc,       \* where main()'s loop stands
  lastHash,  \* loop()'s last_hash
  idle,      \* loop()'s idle
  forceNext, \* the global force_next
  out,       \* the frame pump() is about to write
  pad,       \* keys the uinput gamepad holds down
  ppc,       \* where the PSP app stands
  first,     \* comRun's first
  connected, \* comRun's connected
  recv,      \* l_recv and the header read with it
  menu, sel, prevKeys, homeArmed,  \* l_menu, l_sel, l_prevBtn, l_lastHome # 0
  display    \* what the PSP's screen shows

hostVars == <<hpc, lastHash, idle, forceNext, out, pad>>
inputVars == <<menu, sel, prevKeys, homeArmed>>
pspVars == <<ppc, first, connected, recv, inputVars, display>>
wireVars == <<link, toPsp, toHost>>
vars == <<screen, wireVars, hostVars, pspVars>>

\* img: the version encoded, or None for a poll; bytes: the payload written.
Frames == [img : Versions \cup {None}, imageSize : Nat, audio : BOOLEAN, bytes : Nat]
NoFrame == [img |-> None, imageSize |-> 0, audio |-> FALSE, bytes |-> 0]
Responses == [force : BOOLEAN, keys : SUBSET Keys]
Displays == [img : Versions \cup {None}, overlay : BOOLEAN]

Init ==
  /\ screen = 0
  /\ link = "up"
  /\ toPsp = <<>> /\ toHost = <<>>
  /\ hpc = "closed" /\ lastHash = None /\ idle = 0 /\ forceNext = FALSE
  /\ out = NoFrame /\ pad = {}
  /\ ppc = "prompt" /\ first = FALSE /\ connected = FALSE /\ recv = NoFrame
  /\ menu = FALSE /\ sel = 0 /\ prevKeys = {} /\ homeArmed = FALSE
  /\ display = [img |-> None, overlay |-> FALSE]

-----------------------------------------------------------------------------
(* The host *)

\* main(): tp->open succeeded; loop() starts with fresh statics.
HostOpen ==
  /\ hpc = "closed" /\ link = "up"
  /\ hpc' = "grab" /\ lastHash' = None /\ idle' = 0
  /\ UNCHANGED <<screen, wireVars, forceNext, out, pad, pspVars>>

\* Mutant: the PSP's request for a picture is forgotten.
SendUnforced == Hash[screen] # lastHash \/ idle + 1 >= RefreshTicks

\* send_image: changed || force_next || (++idle >= g_opt.fps * 2)
SendImage ==
  \/ Hash[screen] # lastHash
  \/ forceNext
  \/ idle + 1 >= RefreshTicks

\* Mutant: the header keeps announcing a picture that was dropped.
EncodeAnnouncing(withImage, audio) ==
  LET jsize == IF withImage THEN JpegSize[screen] ELSE 0
      asize == IF audio THEN ChunkBytes ELSE 0
      fits  == jsize + asize + 64 <= BufferSize
  IN  [img       |-> IF withImage /\ fits THEN screen ELSE None,
       imageSize |-> jsize,
       audio     |-> audio,
       bytes     |-> (IF fits THEN jsize ELSE 0) + asize]

\* pump() up to the first write: encode, fetch audio, drop what will not fit.
Encode(withImage, audio) ==
  LET jsize == IF withImage THEN JpegSize[screen] ELSE 0
      asize == IF audio THEN ChunkBytes ELSE 0
      fits  == jsize + asize + 64 <= BufferSize
  IN  [img       |-> IF withImage /\ fits THEN screen ELSE None,
       imageSize |-> IF fits THEN jsize ELSE 0,
       audio     |-> audio,
       bytes     |-> (IF fits THEN jsize ELSE 0) + asize]

\* Mutant: the force stays until a frame without a picture clears it.
ForceKept == forceNext

\* force_next after the encoding: a picture settles it.
ForceAfterEncode == forceNext /\ ~SendImage

\* Mutant: every frame starts the idle count over, not only a picture.
HostGrabForgetful ==
  /\ hpc = "grab"
  /\ \E audio \in {FALSE, AudioOn} : out' = Encode(SendImage, audio)
  /\ lastHash' = Hash[screen]
  /\ idle' = 0
  /\ forceNext' = ForceAfterEncode
  /\ hpc' = "send"
  /\ UNCHANGED <<screen, wireVars, pad, pspVars>>

\* One turn of loop() until the frame is ready; grab and hash see one screen.
HostGrab ==
  /\ hpc = "grab"
  /\ \E audio \in {FALSE, AudioOn} : out' = Encode(SendImage, audio)
  /\ lastHash' = Hash[screen]
  /\ idle' = IF SendImage THEN 0 ELSE idle + 1
  /\ forceNext' = ForceAfterEncode
  /\ hpc' = "send"
  /\ UNCHANGED <<screen, wireVars, pad, pspVars>>

\* cap->grab() or frame_encode() failed: loop() breaks and main() closes the
\* transport.  The PSP waits for a header at that point, so the session is simply
\* opened again.  A failed encoding has already taken the PSP's request.
GrabFails ==
  /\ hpc = "grab"
  /\ forceNext' \in {forceNext, ForceAfterEncode}
  /\ hpc' = "closed"
  /\ UNCHANGED <<screen, wireVars, lastHash, idle, out, pad, pspVars>>

\* Mutant: the next frame is not held back until the response is read.
HostSendAhead ==
  /\ hpc = "send" /\ link = "up" /\ ppc = "read"
  /\ toPsp' = Append(toPsp, out)
  /\ hpc' = IF toHost = <<>> THEN "grab" ELSE "await"
  /\ UNCHANGED <<screen, link, toHost, lastHash, idle, forceNext, out, pad, pspVars>>

\* The writes complete once the PSP has a read posted for them.
HostSend ==
  /\ hpc = "send" /\ link = "up" /\ ppc = "read"
  /\ toPsp' = Append(toPsp, out)
  /\ hpc' = "await"
  /\ UNCHANGED <<screen, link, toHost, lastHash, idle, forceNext, out, pad, pspVars>>

\* The rest of pump(): read_response, FORCE_UPDATE, input_update.
HostReceive ==
  /\ hpc = "await" /\ toHost # <<>>
  /\ forceNext' = (forceNext \/ Head(toHost).force)
  /\ pad' = Head(toHost).keys \ {"HOME"}
  /\ toHost' = Tail(toHost)
  /\ hpc' = "grab"
  /\ UNCHANGED <<screen, link, toPsp, lastHash, idle, out, pspVars>>

\* A transfer failed, or timed out against a PSP that left its frame loop.
HostLost ==
  /\ \/ hpc \in {"send", "await"} /\ link = "down"
     \/ hpc = "send" /\ ppc = "prompt"
  /\ hpc' = "closed"
  /\ UNCHANGED <<screen, wireVars, lastHash, idle, forceNext, out, pad, pspVars>>

-----------------------------------------------------------------------------
(* The PSP app *)

\* waitForCross saw X: comRun(true, 10 s) starts.  The menu keeps its state.
PressCross ==
  /\ ppc = "prompt"
  /\ ppc' = "read" /\ first' = TRUE /\ connected' = FALSE
  /\ display' = [img |-> None, overlay |-> FALSE]
  /\ UNCHANGED <<screen, wireVars, hostVars, recv, inputVars>>

\* No header for 10 s since comRun started: COM_TIMEOUT, back to the prompt.
ConnectTimeout ==
  /\ ppc = "read" /\ ~connected /\ toPsp = <<>>
  /\ ppc' = "prompt"
  /\ UNCHANGED <<screen, wireVars, hostVars, first, connected, recv, inputVars, display>>

\* readHeader: a valid header.  (A failed read is retried and changes nothing.)
PspHeader ==
  /\ ppc = "read" /\ toPsp # <<>>
  /\ ppc' = "payload" /\ connected' = TRUE
  /\ UNCHANGED <<screen, wireVars, hostVars, first, recv, inputVars, display>>

PayloadSize(h) == h.imageSize + (IF h.audio THEN ChunkBytes ELSE 0)

\* readExact of everything the header announces; too large or cut off: LINK_LOST.
PspPayload ==
  /\ ppc = "payload"
  /\ IF toPsp # <<>> /\ PayloadSize(Head(toPsp)) <= BufferSize
     THEN ppc' = "input" /\ recv' = Head(toPsp) /\ toPsp' = Tail(toPsp)
          /\ UNCHANGED display
     ELSE ppc' = "prompt" /\ display' = [img |-> None, overlay |-> FALSE]
          /\ UNCHANGED <<recv, toPsp>>
  /\ UNCHANGED <<screen, link, toHost, hostVars, first, connected, inputVars>>

\* handleInput on the keys held now; quick says the second HOME came in time.
MenuAfterHome(pressed, quick) ==
  IF "HOME" \in pressed /\ homeArmed /\ quick THEN ~menu ELSE menu

Cursor(open, pressed) ==
  IF open THEN (sel + (IF "UP" \in pressed THEN 1 ELSE 0)
                    + (IF "DOWN" \in pressed THEN 1 ELSE 0)) % 2
          ELSE sel

\* X on item 0 toggles the overlay and closes the menu, on item 1 it quits.
Selects(open, pressed, item) ==
  open /\ "CROSS" \in pressed /\ Cursor(open, pressed) = item

HandleInput(keys, pressed, quick) ==
  LET open == MenuAfterHome(pressed, quick)
  IN  /\ menu' = (open /\ "CIRCLE" \notin pressed /\ ~Selects(open, pressed, 0))
      /\ sel' = Cursor(open, pressed)
      /\ prevKeys' = keys
      /\ homeArmed' = IF "HOME" \in pressed THEN ~(homeArmed /\ quick) ELSE homeArmed

\* Mutant: the open menu sends the keys it uses.
LeakyResponse(open, keys) == [force |-> first \/ open, keys |-> keys]

\* The response sent with the menu in its new state.
Response(open, keys) ==
  [force |-> first \/ open, keys |-> IF open THEN {} ELSE keys]

\* From the pad peek to sendResponse; a failed write is LINK_LOST.
PspRespond ==
  /\ ppc = "input"
  /\ \E keys \in Chords, quick \in BOOLEAN :
       LET pressed == keys \ prevKeys
       IN  /\ ~Selects(MenuAfterHome(pressed, quick), pressed, 1)
           /\ HandleInput(keys, pressed, quick)
           /\ first' = FALSE
           /\ IF link = "up"
              THEN /\ toHost' = Append(toHost, Response(menu', keys))
                   /\ ppc' = "draw" /\ UNCHANGED display
              ELSE /\ ppc' = "prompt" /\ display' = [img |-> None, overlay |-> FALSE]
                   /\ UNCHANGED toHost
  /\ UNCHANGED <<screen, link, toPsp, hostVars, connected, recv>>

\* The menu's Quit: comRun returns without a response, main() stops the driver.
PspQuit ==
  /\ ppc = "input"
  /\ \E keys \in Chords, quick \in BOOLEAN :
       LET pressed == keys \ prevKeys
       IN  /\ Selects(MenuAfterHome(pressed, quick), pressed, 1)
           /\ HandleInput(keys, pressed, quick)
  /\ ppc' = "off" /\ link' = "down" /\ toPsp' = <<>> /\ toHost' = <<>>
  /\ UNCHANGED <<screen, hostVars, first, connected, recv, display>>

\* Double HOME at the prompt quits too.
PromptQuit ==
  /\ ppc = "prompt"
  /\ ppc' = "off" /\ link' = "down" /\ toPsp' = <<>> /\ toHost' = <<>>
  /\ UNCHANGED <<screen, hostVars, first, connected, recv, inputVars, display>>

\* The end of comRun's loop: decode, draw picture and menu, swap.
PspDraw ==
  /\ ppc = "draw"
  /\ display' = IF recv.img # None /\ recv.img \notin Undecodable
                THEN [img |-> recv.img, overlay |-> menu]
                ELSE display
  /\ ppc' = "read"
  /\ UNCHANGED <<screen, wireVars, hostVars, first, connected, recv, inputVars>>

-----------------------------------------------------------------------------
(* The environment *)

ScreenChange ==
  /\ screen < MaxVersion
  /\ screen' = screen + 1
  /\ UNCHANGED <<wireVars, hostVars, pspVars>>

\* The cable drops: what was under way is gone.
LinkDrop ==
  /\ link = "up" /\ ppc # "off"
  /\ link' = "down" /\ toPsp' = <<>> /\ toHost' = <<>>
  /\ UNCHANGED <<screen, hostVars, pspVars>>

\* A session needs a fresh device handle on the host, and enumeration takes
\* longer than the PSP takes to see its pending transfer fail.
LinkUp ==
  /\ link = "down" /\ hpc = "closed" /\ ppc \in {"prompt", "read"}
  /\ link' = "up"
  /\ UNCHANGED <<screen, toPsp, toHost, hostVars, pspVars>>

\* The user starts the app again: its statics are new.
Relaunch ==
  /\ ppc = "off"
  /\ ppc' = "prompt" /\ first' = FALSE /\ connected' = FALSE /\ recv' = NoFrame
  /\ menu' = FALSE /\ sel' = 0 /\ prevKeys' = {} /\ homeArmed' = FALSE
  /\ display' = [img |-> None, overlay |-> FALSE]
  /\ UNCHANGED <<screen, wireVars, hostVars>>

Host == HostOpen \/ HostGrab \/ HostSend \/ HostReceive \/ HostLost
PspLoop == PspHeader \/ PspPayload \/ PspRespond \/ PspDraw

Next ==
  \/ HostOpen \/ HostGrab \/ GrabFails \/ HostSend \/ HostReceive \/ HostLost
  \/ PressCross \/ ConnectTimeout \/ PspHeader \/ PspPayload
  \/ PspRespond \/ PspQuit \/ PromptQuit \/ PspDraw
  \/ ScreenChange \/ LinkDrop \/ LinkUp \/ Relaunch

Spec == Init /\ [][Next]_vars

\* Neither program stops between two steps of its loop; the user, the cable and
\* a failing capture owe nothing.
FairSpec == Spec /\ WF_vars(Host) /\ WF_vars(PspLoop)

-----------------------------------------------------------------------------
TypeOK ==
  /\ screen \in Versions
  /\ link \in {"up", "down"}
  /\ toPsp \in Seq(Frames)
  /\ toHost \in Seq(Responses)
  /\ hpc \in {"closed", "grab", "send", "await"}
  /\ lastHash \in Nat \cup {None}
  /\ idle \in Nat
  /\ forceNext \in BOOLEAN
  /\ out \in Frames
  /\ pad \in SUBSET Keys
  /\ ppc \in {"prompt", "read", "payload", "input", "draw", "off"}
  /\ first \in BOOLEAN /\ connected \in BOOLEAN
  /\ recv \in Frames
  /\ menu \in BOOLEAN /\ sel \in 0 .. 1
  /\ prevKeys \in SUBSET Keys /\ homeArmed \in BOOLEAN
  /\ display \in Displays

\* At most one frame or response is under way, and only a host that waits for
\* a response and a PSP inside that same exchange have one: the host never
\* writes ahead, the PSP never answers twice nor times out in the middle, across
\* every cut and reopening.
LockStep ==
  /\ Len(toPsp) + Len(toHost) <= 1
  /\ toPsp # <<>> => hpc = "await" /\ ppc \in {"read", "payload"}
  /\ toHost # <<>> => hpc = "await" /\ ppc \in {"draw", "read"}
  /\ link = "up" /\ ppc = "input" => hpc = "await"
  /\ link = "up" /\ ppc = "payload" => toPsp # <<>>
  /\ toHost # <<>> \/ ppc \in {"payload", "input", "draw"} => connected
  /\ link = "down" => toPsp = <<>> /\ toHost = <<>>

\* A forced refresh is decided once: with the frame ready, nothing is left of the
\* request it answers, so the next one the PSP makes is not taken for an old one.
ForceSpent == hpc \in {"send", "await"} => ~forceNext /\ lastHash # None

\* What the PSP computes from a header is what the host wrote behind it, and
\* never more than l_recv holds, whatever was dropped from the frame.
PayloadFits ==
  \A f \in {out, recv} \cup {toPsp[i] : i \in 1 .. Len(toPsp)} :
    PayloadSize(f) = f.bytes /\ f.bytes <= BufferSize

\* Once a frame is drawn, the popup is on screen only while the menu is open:
\* closing it never leaves the old picture with the popup standing.  It holds
\* because the open menu asks for the picture that will erase it.
NoGhostMenu == ppc = "read" /\ display.overlay => menu

\* While the PSP's menu is open the gamepad may release keys, never press one.
MenuKeysStayLocal == [][menu => pad' \in {pad, {}}]_pad

\* The session lasts, the PSP stays in its loop and the screen stays at v.
Steady(v) == screen = v /\ link = "up" /\ ppc \notin {"prompt", "off"}

Fits(v) == JpegSize[v] + (IF AudioOn THEN ChunkBytes ELSE 0) + 64 <= BufferSize

\* The capture fails only finitely often.
CaptureRecovers == <>[][~GrabFails]_vars

\* A version that stays on the monitor comes to stay on the PSP, even when
\* frame_hash missed the change: the forced refresh repairs it.
Converges ==
  CaptureRecovers =>
    \A v \in Versions \ Undecodable :
      Fits(v) => (<>[]Steady(v) => <>[](display.img = v))

\* A screen that never changes again is still sent again and again.
RefreshRecurs ==
  CaptureRecovers =>
    \A v \in Versions :
      Fits(v) => (<>[]Steady(v) => []<>(hpc = "await" /\ out.img = v))

-----------------------------------------------------------------------------
(* The pump implements the exchange.  The session is broken from the drop   *)
(* until both ends have started over; a request begins when loop() decides  *)
(* what it carries, and has been answered once the response is on its way.  *)

Broken == link = "down" \/ hpc = "closed"

AbstractPhase ==
  CASE Broken -> "broken"
    [] ~Broken /\ hpc = "grab" -> "idle"
    [] ~Broken /\ hpc # "grab" /\ toHost = <<>> -> "asked"
    [] OTHER -> "answered"

AbstractOwed ==
  \/ Broken
  \/ hpc = "grab" /\ (forceNext \/ lastHash = None)
  \/ hpc = "await" /\ toHost # <<>> /\ Head(toHost).force

AbstractFull == ~Broken /\ hpc # "grab" /\ out.img # None

\* The picture of this screen has no room in l_recv beside this frame's audio.
TooLarge == JpegSize[screen] + (IF out.audio THEN ChunkBytes ELSE 0) + 64 > BufferSize

E == INSTANCE Exchange WITH
       phase <- AbstractPhase,
       owed <- AbstractOwed,
       full <- AbstractFull,
       tooLarge <- TooLarge

\* The abstract promise: request and answer alternate across every cut, and a
\* picture the PSP asked for (FORCE_UPDATE), or that a new session needs, is in the
\* very next frame, unless pump() had to drop that very picture for its size.
ImplementsExchange == E!Spec

=============================================================================
