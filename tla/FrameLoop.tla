----------------------------- MODULE FrameLoop -----------------------------
(***************************************************************************)
(* The full PSP app in USB mode: comLoop and sendResponse (com.c), the     *)
(* decoding and drawing thread (compress.c), the in-game menu's thread and *)
(* the start and end of a session (main.c, usb.c).  The three threads      *)
(* share global flags without locks.                                       *)
(*                                                                         *)
(* Menu and decoder have a higher priority than the main thread and run    *)
(* until they block, so one step is what a thread does between two of its  *)
(* blocking calls; the main thread can be cut into anywhere, and its steps *)
(* end wherever that matters.  What the threads draw is reduced to what    *)
(* the two frame buffers hold.                                             *)
(***************************************************************************)
EXTENDS Integers

CONSTANT Chords  \* bound: the sets of buttons the user may hold

ASSUME ChordsAssumption == {} \in Chords /\ \A chord \in Chords : "character" \notin chord

VARIABLES
  mpc,         \* where the main thread stands
  npc,         \* where the menu thread stands
  dpc, job,    \* where the decoder thread stands, and what it was started for
  comRunning, menuRunning, menuActive,  \* the globals g_...
  force, update,  \* g_comForceScreenUpdate, g_comUpdateSettings
  onExit,      \* g_menuButtonsOnExit
  osk,         \* g_oskDanzeffActive
  front, back, \* the frame buffer on display and the one drawn to
  usb,         \* the driver is off, without a host, or in a session
  frame,       \* the frame the host has on its way
  host,        \* waits for a response, is quiet, or has gone
  sampled,     \* the buttons a response is being made of
  resp,        \* the response on its way
  unsent,      \* a setting changed in time for it has not gone out yet
  held,        \* the buttons the user holds
  carried      \* of those, the ones not changed since a menu closed, see CloseMenu

threadVars == <<mpc, npc, dpc, job>>
flagVars == <<comRunning, menuRunning, menuActive, force, update, onExit, osk>>
bufferVars == <<front, back>>
wireVars == <<usb, frame, host>>
userVars == <<held, carried>>
replyVars == <<sampled, resp, unsent>>
noResponse == [force |-> FALSE, settings |-> FALSE, keys |-> {}]
vars == <<threadVars, flagVars, bufferVars, wireVars, replyVars, userVars>>

\* The steps of the main thread inside comLoop.
InLoop == mpc \in {"read", "frame", "respond", "mask", "write", "vblank"}
Pictures == {"none", "picture", "clear"}
Images == {"frame", "menu", "other"}
Character == {"character"}  \* what the keyboard sends for buttons
Responses == [force : BOOLEAN, settings : BOOLEAN, keys : Chords \cup {Character}]

Init ==
  /\ mpc = "menu" /\ npc = "dormant" /\ dpc = "dormant" /\ job = "none"
  /\ comRunning = FALSE /\ menuRunning = FALSE /\ menuActive = FALSE
  /\ force = FALSE /\ update = FALSE /\ onExit = {} /\ osk = FALSE
  /\ front = "menu" /\ back = "other"
  /\ usb = "off" /\ frame = "no" /\ host = "quiet"
  /\ sampled = {} /\ resp = noResponse /\ unsent = FALSE
  /\ held = {} /\ carried = {}

\* Draw an image into the back buffer and swap.
Show(image) == front' = image /\ back' = front
Swap == front' = back /\ back' = front

-----------------------------------------------------------------------------
(* The main thread *)

\* enterComLoop: the menu thread starts, and first sets its flags.
EnterSession ==
  /\ mpc = "menu"
  /\ mpc' = "init" /\ npc' = "poll"
  /\ menuActive' = FALSE /\ menuRunning' = TRUE
  /\ UNCHANGED <<dpc, job, comRunning, force, update, onExit, osk, bufferVars, wireVars,
                 replyVars, userVars>>

\* usbInit failed; the error dialog waits for the user.
InitFails ==
  /\ mpc = "init"
  /\ mpc' = "error" /\ Show("other")
  /\ UNCHANGED <<npc, dpc, job, flagVars, wireVars, replyVars, userVars>>

ErrorDismissed ==
  /\ mpc = "error"
  /\ mpc' = "leave"
  /\ UNCHANGED <<npc, dpc, job, flagVars, bufferVars, wireVars, replyVars, userVars>>

\* The driver is up; "Waiting for data" unless the menu is open, then comLoop.
StartLoop ==
  /\ mpc = "init"
  /\ mpc' = "read" /\ comRunning' = TRUE /\ usb' = "waiting"
  /\ IF menuActive THEN UNCHANGED bufferVars ELSE Show("other")
  /\ UNCHANGED <<npc, dpc, job, menuRunning, menuActive, force, update, onExit, osk,
                 frame, host, replyVars, userVars>>

\* readFrameInformation has a valid header.
Header ==
  /\ mpc = "read" /\ usb = "session" /\ frame # "no"
  /\ mpc' = "frame"
  /\ UNCHANGED <<npc, dpc, job, flagVars, bufferVars, wireVars, replyVars, userVars>>

\* Without a session the read fails, after its pauses the loop goes round.
ReadFails ==
  /\ mpc = "read" /\ usb # "session"
  /\ mpc' = "vblank"
  /\ UNCHANGED <<npc, dpc, job, flagVars, bufferVars, wireVars, replyVars, userVars>>

\* sceKernelStartThread refuses a thread that has not ended: the picture is lost.
StartDecoder(picture) ==
  IF picture # "none" /\ dpc = "dormant"
  THEN dpc' = "decode" /\ job' = picture
  ELSE UNCHANGED <<dpc, job>>

\* readFrame, whose result is ignored: a frame cut off by the end of the session
\* is decoded as it is.
ReadFrame ==
  /\ mpc = "frame"
  /\ frame # "no" => StartDecoder(frame)
  /\ frame = "no" => usb # "session" /\ \E picture \in Pictures : StartDecoder(picture)
  /\ frame' = "no"
  /\ mpc' = "respond"
  /\ UNCHANGED <<npc, flagVars, bufferVars, usb, host, replyVars, userVars>>

\* The buttons, none for the menu, a character while the keyboard is up.
ButtonsNow(typing) == IF menuActive THEN {} ELSE IF typing THEN Character ELSE held

\* sendResponse reads the buttons.  SELECT, released, toggles the keyboard.
Sample ==
  /\ mpc = "respond"
  /\ \E typing \in BOOLEAN :
       /\ typing # osk => ~menuActive /\ carried = {}
       /\ osk' = typing
       /\ sampled' = ButtonsNow(typing)
  /\ mpc' = "mask"
  /\ UNCHANGED <<npc, dpc, job, comRunning, menuRunning, menuActive, force, update, onExit,
                 bufferVars, wireVars, resp, unsent, userVars>>

\* Takes away what is still held from the menu, until it first differs.
Compose ==
  /\ mpc = "mask"
  /\ resp' = [force |-> force, settings |-> update,
              keys |-> IF sampled = onExit THEN {} ELSE sampled]
  /\ onExit' = IF sampled = onExit THEN onExit ELSE {}
  /\ sampled' = {}
  /\ mpc' = "write"
  /\ UNCHANGED <<npc, dpc, job, comRunning, menuRunning, menuActive, force, update, osk,
                 bufferVars, wireVars, unsent, userVars>>

\* The response is gone, and the host has it if there is a session.
Sent ==
  /\ usb = "session" => host = "awaits"
  /\ host' = IF usb = "session" THEN "quiet" ELSE host
  /\ unsent' = (unsent /\ ~(usb = "session" /\ resp.settings))
  /\ resp' = noResponse

\* Mutant: the settings count as sent when the write failed.
WrittenRegardless ==
  /\ mpc = "write" /\ Sent
  /\ IF update THEN force' = FALSE /\ update' = FALSE ELSE UNCHANGED <<force, update>>
  /\ mpc' = "vblank"
  /\ UNCHANGED <<npc, dpc, job, comRunning, menuRunning, menuActive, onExit, osk, bufferVars,
                 usb, frame, sampled, userVars>>

\* The write returned; the flags are read again, and settle what went out.
Written ==
  /\ mpc = "write" /\ Sent
  /\ IF update
     THEN force' = FALSE /\ update' = (usb # "session")
     ELSE UNCHANGED <<force, update>>
  /\ mpc' = "vblank"
  /\ UNCHANGED <<npc, dpc, job, comRunning, menuRunning, menuActive, onExit, osk, bufferVars,
                 usb, frame, sampled, userVars>>

Vblank ==
  /\ mpc = "vblank"
  /\ mpc' = IF comRunning THEN "read" ELSE "leave"
  /\ UNCHANGED <<npc, dpc, job, flagVars, bufferVars, wireVars, replyVars, userVars>>

\* usbTerm and the rest of enterComLoop: the menu thread is told to end.
Leave ==
  /\ mpc = "leave"
  /\ mpc' = "join" /\ menuRunning' = FALSE
  /\ usb' = "off" /\ frame' = "no" /\ host' = "quiet"
  /\ UNCHANGED <<npc, dpc, job, comRunning, menuActive, force, update, onExit, osk,
                 bufferVars, replyVars, userVars>>

\* Mutant: nobody waits for the menu thread.
BackAtOnce ==
  /\ mpc = "join"
  /\ mpc' = "menu" /\ onExit' = {} /\ carried' = {} /\ Show("menu")
  /\ UNCHANGED <<npc, dpc, job, comRunning, menuRunning, menuActive, force, update, osk,
                 wireVars, replyVars, held>>

\* The menu thread has ended; the main menu opens.
BackToMenu ==
  /\ mpc = "join" /\ npc = "dormant"
  /\ mpc' = "menu" /\ onExit' = {} /\ carried' = {} /\ Show("menu")
  /\ UNCHANGED <<npc, dpc, job, comRunning, menuRunning, menuActive, force, update, osk,
                 wireVars, replyVars, held>>

-----------------------------------------------------------------------------
(* The menu thread *)

\* HOME, unless an error dialog is up.
OpenMenu ==
  /\ npc = "poll" /\ menuRunning /\ mpc # "error"
  /\ npc' = "menu" /\ menuActive' = TRUE /\ onExit' = {} /\ carried' = {} /\ Show("menu")
  /\ UNCHANGED <<mpc, dpc, job, comRunning, menuRunning, force, update, osk, wireVars,
                 replyVars, held>>

\* menuLoop draws again.
RedrawMenu ==
  /\ npc = "menu" /\ front # "menu"
  /\ Show("menu")
  /\ UNCHANGED <<threadVars, flagVars, wireVars, replyVars, userVars>>

\* A PC setting changes.  A change that finds a response on its way is settled
\* together with it, and may never go out.
ChangeSetting ==
  /\ npc = "menu"
  /\ update' = TRUE /\ unsent' = (unsent \/ mpc # "write")
  /\ UNCHANGED <<threadVars, comRunning, menuRunning, menuActive, force, onExit, osk,
                 bufferVars, wireVars, sampled, resp, userVars>>

\* menuLoop returns: resumed, or to toggle the keyboard.  The last frame appears,
\* a message over it.
ResumeMenu ==
  /\ npc = "menu"
  /\ npc' = "closing" /\ osk' \in BOOLEAN /\ Show("other")
  /\ UNCHANGED <<mpc, dpc, job, comRunning, menuRunning, menuActive, force, update, onExit,
                 wireVars, replyVars, userVars>>

\* Mutant: the buttons still down are not noted.
CloseUnread ==
  /\ npc = "closing"
  /\ npc' = "poll"
  /\ carried' = IF mpc = "mask" THEN {} ELSE held
  /\ menuActive' = FALSE /\ force' = TRUE
  /\ UNCHANGED <<mpc, dpc, job, comRunning, menuRunning, update, onExit, osk, bufferVars,
                 wireVars, replyVars, held>>

\* The buttons are sampled, then the menu is over.  A response that has seen the
\* menu active and not yet looked at onExit will clear it: then nothing is carried.
CloseMenu ==
  /\ npc = "closing"
  /\ npc' = "poll"
  /\ onExit' = held /\ carried' = IF mpc = "mask" THEN {} ELSE held
  /\ menuActive' = FALSE /\ force' = TRUE
  /\ UNCHANGED <<mpc, dpc, job, comRunning, menuRunning, update, osk, bufferVars,
                 wireVars, replyVars, held>>

\* "Quit to Main menu": the menu stays active until the main thread is done.
QuitMenu ==
  /\ npc = "menu"
  /\ npc' = "quitting" /\ comRunning' = FALSE /\ Show("other")
  /\ UNCHANGED <<mpc, dpc, job, menuRunning, menuActive, force, update, onExit, osk,
                 wireVars, replyVars, userVars>>

\* Mutant: a transfer that blocks is left alone.
WaitOn ==
  /\ npc = "quitting" /\ menuRunning
  /\ npc' = "waiting"
  /\ UNCHANGED <<mpc, dpc, job, flagVars, bufferVars, wireVars, replyVars, userVars>>

\* Two seconds later, once: usbDeactivate makes a blocked transfer return.
ForceDown ==
  /\ npc = "quitting" /\ menuRunning
  /\ npc' = "waiting"
  /\ usb' = "off" /\ frame' = "no" /\ host' = "quiet"
  /\ UNCHANGED <<mpc, dpc, job, flagVars, bufferVars, replyVars, userVars>>

MenuEnds ==
  /\ npc \in {"poll", "quitting", "waiting"} /\ ~menuRunning
  /\ npc' = "dormant" /\ menuActive' = FALSE
  /\ UNCHANGED <<mpc, dpc, job, comRunning, menuRunning, force, update, onExit, osk,
                 bufferVars, wireVars, replyVars, userVars>>

-----------------------------------------------------------------------------
(* The decoding and drawing thread *)

\* Decoded; drawn into the back buffer unless the menu is open by now.
Decode ==
  /\ dpc = "decode"
  /\ IF menuActive
     THEN dpc' = "dormant" /\ job' = "none" /\ UNCHANGED back
     ELSE /\ dpc' = "drawn" /\ UNCHANGED job
          /\ back' = IF job = "clear" THEN "other" ELSE "frame"
  /\ UNCHANGED <<mpc, npc, flagVars, front, wireVars, replyVars, userVars>>

\* Mutant: the buffers are swapped before the keyboard is drawn as well.
FinishSwapping ==
  /\ dpc = "drawn"
  /\ IF ~menuActive /\ osk
     THEN dpc' = "keys" /\ UNCHANGED job /\ Swap
     ELSE dpc' = "dormant" /\ job' = "none"
          /\ IF menuActive THEN UNCHANGED bufferVars ELSE Swap
  /\ UNCHANGED <<mpc, npc, flagVars, wireVars, replyVars, userVars>>

\* The drawing is done; nothing is shown over the menu.
Finish ==
  /\ dpc = "drawn"
  /\ IF ~menuActive /\ osk
     THEN dpc' = "keys" /\ UNCHANGED <<job, bufferVars>>
     ELSE dpc' = "dormant" /\ job' = "none"
          /\ IF menuActive THEN UNCHANGED bufferVars ELSE Swap
  /\ UNCHANGED <<mpc, npc, flagVars, wireVars, replyVars, userVars>>

\* The keyboard is drawn on top of the frame.
KeyboardDrawn ==
  /\ dpc = "keys"
  /\ dpc' = "dormant" /\ job' = "none" /\ Swap
  /\ UNCHANGED <<mpc, npc, flagVars, wireVars, replyVars, userVars>>

-----------------------------------------------------------------------------
(* The host, the cable and the user *)

HostSends ==
  /\ usb = "session" /\ host = "quiet" /\ frame = "no"
  /\ frame' \in Pictures /\ host' = "awaits"
  /\ UNCHANGED <<threadVars, flagVars, bufferVars, usb, replyVars, userVars>>

\* The host is killed with the cable in: transfers block from now on, a read of
\* what it had not sent yet among them.
HostGone ==
  /\ usb = "session" /\ host # "gone"
  /\ host' = "gone" /\ frame' = "no"
  /\ UNCHANGED <<threadVars, flagVars, bufferVars, usb, replyVars, userVars>>

LinkDrop ==
  /\ usb = "session"
  /\ usb' = "waiting" /\ frame' = "no" /\ host' = "quiet"
  /\ UNCHANGED <<threadVars, flagVars, bufferVars, replyVars, userVars>>

\* A new session finds no transfer of the old one pending.
LinkUp ==
  /\ usb = "waiting" /\ mpc \notin {"frame", "write"}
  /\ usb' = "session"
  /\ UNCHANGED <<threadVars, flagVars, bufferVars, frame, host, replyVars, userVars>>

Press ==
  /\ held' \in Chords \ {held} /\ carried' = {}
  /\ UNCHANGED <<threadVars, flagVars, bufferVars, wireVars, replyVars>>

Main == ErrorDismissed \/ StartLoop \/ Header \/ ReadFails \/ ReadFrame \/ Sample \/ Compose
        \/ Written \/ Vblank \/ Leave \/ BackToMenu
Menu == CloseMenu \/ ForceDown \/ MenuEnds
Decoder == Decode \/ Finish \/ KeyboardDrawn

Next ==
  \/ EnterSession \/ InitFails \/ ErrorDismissed \/ StartLoop \/ Header \/ ReadFails
  \/ ReadFrame \/ Sample \/ Compose \/ Written \/ Vblank \/ Leave \/ BackToMenu
  \/ OpenMenu \/ RedrawMenu \/ ChangeSetting \/ ResumeMenu
  \/ CloseMenu \/ QuitMenu \/ ForceDown \/ MenuEnds
  \/ Decode \/ Finish \/ KeyboardDrawn
  \/ HostSends \/ HostGone \/ LinkDrop \/ LinkUp \/ Press

Spec == Init /\ [][Next]_vars

\* The threads go on between their blocking calls.  The user need not press
\* anything but the error dialog's button, nor the host send anything.
FairSpec == Spec /\ WF_vars(Main) /\ WF_vars(Menu) /\ WF_vars(Decoder)

-----------------------------------------------------------------------------
TypeOK ==
  /\ mpc \in {"menu", "init", "error", "read", "frame", "respond", "mask", "write", "vblank",
              "leave", "join"}
  /\ npc \in {"dormant", "poll", "menu", "closing", "quitting", "waiting"}
  /\ dpc \in {"dormant", "decode", "drawn", "keys"}
  /\ job \in Pictures /\ (job = "none" <=> dpc = "dormant")
  /\ comRunning \in BOOLEAN /\ menuRunning \in BOOLEAN /\ menuActive \in BOOLEAN
  /\ force \in BOOLEAN /\ update \in BOOLEAN /\ osk \in BOOLEAN
  /\ onExit \in Chords
  /\ front \in Images /\ back \in Images
  /\ usb \in {"off", "waiting", "session"}
  /\ frame \in Pictures \cup {"no"}
  /\ host \in {"quiet", "awaits", "gone"}
  /\ sampled \in Chords \cup {Character} /\ resp \in Responses
  /\ unsent \in BOOLEAN
  /\ held \in Chords /\ carried \in Chords

\* In the main menu no session is left behind: its menu thread has ended, and
\* the flags that would hide pictures or eat buttons in the next one are down.
SessionsClean ==
  mpc = "menu" => npc = "dormant" /\ ~menuActive /\ ~menuRunning /\ onExit = {} /\ usb = "off"

\* Buttons the user still holds from the menu do not reach the PC (com.c:252),
\* however many responses go out meanwhile and whatever the keyboard does; except
\* when the menu closes between the two looks a response takes, see CloseMenu.
HeldMasked == [][mpc = "mask" /\ mpc' = "write" => resp'.keys \cap carried = {}]_vars

\* A changed setting stays due until a response that holds it has gone out whole,
\* through failed writes and new sessions.
SettingsStayDue == unsent => update

\* Quit, chosen while the frame loop runs, ends the session, even with the main
\* thread blocked in a transfer that no host will ever complete.
QuitEnds == InLoop /\ ~comRunning ~> mpc = "menu"

\* The picture is in view: no menu, and nobody opens one again.
InView == InLoop /\ ~menuActive

\* Whatever a closed menu, a lost start of the decoder or a toggled keyboard left
\* in the buffers, pictures that keep coming bring the picture back, for good.
PictureReturns ==
  /\ <>[](InView /\ job # "clear")
  /\ []<>(dpc = "decode")
  => <>[](front = "frame")

\* "Quit to Main menu" (menu.c:97) goes to the main menu.
QuitReturns == npc = "quitting" ~> mpc = "menu"

=============================================================================
