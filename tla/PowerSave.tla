----------------------------- MODULE PowerSave -----------------------------
(***************************************************************************)
(* Power saving in the full PSP app's USB mode (power.c): the idle thread  *)
(* counts seconds and turns the screen down, and the frame loop, the menu  *)
(* thread and itself turn it up again, without a lock.                     *)
(*                                                                         *)
(* The idle and the menu thread share a priority above the main thread's:  *)
(* they cut into its steps, and not into each other's but where these      *)
(* block.  An idle thread that cut in sleeps a second, and the main thread *)
(* goes on meanwhile.                                                      *)
(***************************************************************************)
EXTENDS Integers

CONSTANTS
  Limit,     \* bound: the counter is set back above it, 1000 in the code
  Timeouts   \* bound: the idle timeouts the user may choose, in seconds

\* The menu offers up to 3600 seconds: above the limit nothing is ever saved, at
\* the limit the idle thread never looks for a key.
ASSUME PowerAssumption == Limit \in Nat /\ Timeouts \subseteq 2 .. Limit - 1

VARIABLES
  main,       \* main thread: menu, wait (in comLoop's read), where in ending the saving,
              \* or over
  idle,       \* powerIdleThread: off, sleep, or term: it waits in audioTerm
  cutIn,  \* the idle thread had its turn while main ended the saving
  running,    \* g_comRunning; main waits for the idle thread once it is over
  counter,    \* g_idleCounter
  saving,     \* l_powerSaveModeEnabled
  screen,     \* on or dark
  previous,   \* l_previousBrightness
  audio,      \* the playback thread runs
  clock,      \* the mode's, the default, or a low one
  menuActive,  \* g_menuActive
  usbSave, timeout,  \* the settings
  key,        \* the user holds a key
  host        \* the host sends frames

lightVars == <<screen, previous, audio, clock>>
settingVars == <<usbSave, timeout>>
userVars == <<key, host>>
powerVars == <<main, idle, cutIn, running, counter, saving, lightVars, menuActive,
          settingVars, userVars>>

PowerInit ==
  /\ main = "menu" /\ idle = "off" /\ cutIn = FALSE /\ running = FALSE
  /\ counter = 0 /\ saving = FALSE
  /\ screen = "on" /\ previous = "on" /\ audio = FALSE /\ clock = "default"
  /\ menuActive = FALSE /\ usbSave = TRUE /\ timeout \in Timeouts
  /\ key = FALSE /\ host = FALSE

\* enterComLoop and usbEnterLoop: audio, the mode's clock, the idle thread.
EnterSession ==
  /\ main = "menu"
  /\ main' = "wait" /\ running' = TRUE
  /\ audio' = TRUE /\ clock' = "mode"
  /\ idle' = "sleep" /\ counter' = 0
  /\ UNCHANGED <<cutIn, saving, screen, previous, menuActive, settingVars, userVars>>

\* powerEnablePowerSaveMode(false), all of it.
Disable ==
  /\ IF saving
     THEN /\ clock' = "default" /\ audio' = TRUE /\ screen' = previous /\ saving' = FALSE
     ELSE UNCHANGED <<clock, audio, screen, saving>>
  /\ UNCHANGED previous

-----------------------------------------------------------------------------
(* The main thread: each frame ends the saving, in steps *)

Frame ==
  /\ main = "wait" /\ host
  /\ IF saving THEN main' = "tested" ELSE main' = "reset"
  /\ UNCHANGED <<idle, cutIn, running, counter, saving, lightVars, menuActive,
                 settingVars, userVars>>

AudioOn ==
  /\ main = "tested"
  /\ main' = "audio" /\ clock' = "default" /\ audio' = TRUE
  /\ UNCHANGED <<idle, cutIn, running, counter, saving, screen, previous, menuActive,
                 settingVars, userVars>>

\* Mutant: the mode is over before the screen is up again.
ForgetFirst ==
  /\ main = "audio"
  /\ main' = "lit" /\ saving' = FALSE
  /\ UNCHANGED <<idle, cutIn, running, counter, lightVars, menuActive, settingVars,
                 userVars>>

ScreenOn ==
  /\ main = "audio"
  /\ main' = "lit" /\ screen' = previous
  /\ UNCHANGED <<idle, cutIn, running, counter, saving, previous, audio, clock,
                 menuActive, settingVars, userVars>>

SavingOver ==
  /\ main = "lit"
  /\ main' = "reset" /\ saving' = FALSE
  /\ UNCHANGED <<idle, cutIn, running, counter, lightVars, menuActive, settingVars,
                 userVars>>

ResetCounter ==
  /\ main = "reset"
  /\ main' = IF running THEN "wait" ELSE "over"
  /\ counter' = 0 /\ cutIn' = FALSE
  /\ UNCHANGED <<idle, running, saving, lightVars, menuActive, settingVars, userVars>>

\* comLoop is over, and the idle thread has seen it: audioTerm, the default clock.
LeaveSession ==
  /\ main = "over" /\ idle = "off"
  /\ main' = "menu" /\ audio' = FALSE /\ clock' = "default" /\ menuActive' = FALSE
  /\ UNCHANGED <<idle, cutIn, running, counter, saving, screen, previous, settingVars,
                 userVars>>

-----------------------------------------------------------------------------
(* The idle thread, once a second *)

\* Mutant: the counter is not moved past the timeout.
SecondAtTimeout(c) == c

\* The counter is moved on, and set back above the limit.
Second(c) == IF c > Limit THEN 1 ELSE c + 1

\* The menu holds the counter down.
Count == IF menuActive THEN 0 ELSE counter

IdleTurn ==
  /\ idle = "sleep" /\ ~cutIn
  /\ cutIn' = (main \in {"tested", "audio", "lit", "reset"})

\* comLoop is over, at the latest when the USB driver is deactivated under its read.
IdleEnds ==
  /\ idle = "sleep" /\ main \in {"wait", "over"} /\ ~running
  /\ main' = "over" /\ idle' = "off"
  /\ UNCHANGED <<cutIn, running, counter, saving, lightVars, menuActive,
                 settingVars, userVars>>

\* A second without anything to do.
Tick ==
  /\ IdleTurn
  /\ usbSave => (Count = timeout => saving) /\ (Count > timeout => ~key)
  /\ counter' = IF usbSave /\ Count = timeout THEN Second(timeout + 1) ELSE Second(Count)
  /\ UNCHANGED <<main, idle, running, saving, lightVars, menuActive, settingVars, userVars>>

\* The timeout is reached: the saving starts, with audioTerm, which blocks.
Enable ==
  /\ IdleTurn /\ usbSave /\ Count = timeout /\ ~saving
  /\ idle' = "term" /\ counter' = Count
  /\ UNCHANGED <<main, running, saving, lightVars, menuActive, settingVars, userVars>>

\* The rest of it, as the settings say: clock and screen; then the mode counts.
Enabled ==
  /\ idle = "term"
  /\ idle' = "sleep" /\ audio' = FALSE
  /\ clock' \in {clock, "low"}
  /\ previous' = screen /\ screen' \in {screen, "dark"}
  /\ saving' = TRUE /\ counter' = Second(timeout + 1)
  /\ UNCHANGED <<main, cutIn, running, menuActive, settingVars, userVars>>

\* Mutant: a key is not looked for.
KeyIgnored ==
  /\ IdleTurn /\ usbSave /\ Count > timeout /\ key
  /\ counter' = Second(Count)
  /\ UNCHANGED <<main, idle, running, saving, lightVars, menuActive, settingVars, userVars>>

\* Beyond the timeout, a key ends the saving.
KeySeen ==
  /\ IdleTurn /\ usbSave /\ Count > timeout /\ key
  /\ Disable /\ counter' = Second(0)
  /\ UNCHANGED <<main, idle, running, menuActive, settingVars, userVars>>

-----------------------------------------------------------------------------
(* The menu thread, the user and the host *)

\* HOME ends the saving, then opens the menu.
OpenMenu ==
  /\ main # "menu" /\ ~menuActive /\ running
  /\ Disable /\ counter' = 0 /\ menuActive' = TRUE
  /\ UNCHANGED <<main, idle, cutIn, running, settingVars, userVars>>

ChangeSettings ==
  /\ menuActive
  /\ usbSave' \in BOOLEAN /\ timeout' \in Timeouts
  /\ UNCHANGED <<main, idle, cutIn, running, counter, saving, lightVars, menuActive,
                 userVars>>

CloseMenu ==
  /\ menuActive /\ running
  /\ menuActive' = FALSE
  /\ UNCHANGED <<main, idle, cutIn, running, counter, saving, lightVars, settingVars,
                 userVars>>

Quit ==
  /\ menuActive /\ running
  /\ running' = FALSE
  /\ UNCHANGED <<main, idle, cutIn, counter, saving, lightVars, menuActive,
                 settingVars, userVars>>

User ==
  /\ key' \in BOOLEAN /\ host' \in BOOLEAN
  /\ UNCHANGED <<main, idle, cutIn, running, counter, saving, lightVars, menuActive,
                 settingVars>>

Waking == AudioOn \/ ScreenOn \/ SavingOver \/ ResetCounter
Main == Waking \/ LeaveSession
Idle == IdleEnds \/ Tick \/ Enable \/ Enabled \/ KeySeen

PowerNext ==
  \/ EnterSession \/ Frame \/ LeaveSession
  \/ AudioOn \/ ScreenOn \/ SavingOver \/ ResetCounter
  \/ IdleEnds \/ Tick \/ Enable \/ Enabled \/ KeySeen
  \/ OpenMenu \/ ChangeSettings \/ CloseMenu \/ Quit \/ User

PowerSpec == PowerInit /\ [][PowerNext]_powerVars

\* The threads run when they are ready, and a second passes; audioTerm waits for a
\* playback thread that is told to end and outputs a tenth of a second.
PowerFairSpec == PowerSpec /\ WF_powerVars(Main) /\ WF_powerVars(Idle)

-----------------------------------------------------------------------------
\* A dark screen is never forgotten: the mode that a frame, a key or HOME ends is
\* on, and what it will restore is a lit screen; wherever the idle and the menu
\* thread cut into a frame that ends it.
DarkRemembered == (screen = "dark" => saving) /\ (saving => previous = "on")

\* Nobody has the menu open, and the session with power saving goes on.
Saving == main # "menu" /\ running /\ usbSave /\ ~menuActive

\* In power save mode the idle thread watches for a key (power.c:350): whatever
\* happened before, a key that is held lights the screen.
KeyWakes == <>[](Saving /\ key) => []<>(screen = "on")

\* Without frames or keys power saving starts, and stays: the counter, which is
\* compared for equality and reset from three threads, does reach the timeout.
IdleSaves == <>[](Saving /\ ~key /\ ~host) => <>[]saving

=============================================================================
