---------------------------- MODULE MenuMachine ----------------------------
(***************************************************************************)
(* The full PSP app's life as its user steers it: main's states, the menu  *)
(* (menu.c: menuLoop in the main thread, or in the menu thread while a     *)
(* session runs, and nested for the settings), the settings and their file *)
(* (config.c), through sessions that end, an exit at any time and crashes, *)
(* and how the WLAN loop learns of a changed server address.               *)
(*                                                                         *)
(* An iteration of menuLoop is one step: it reads the pad once and blocks  *)
(* nowhere else but in a nested menu.                                      *)
(***************************************************************************)
EXTENDS MenuTables, FiniteSets

CONSTANTS
  Followed,  \* bound: the settings that change; the others stay at their defaults
  Pads,      \* bound: the sets of buttons a read of the pad finds
  Typed,     \* bound: the numbers the user types
  Repeat,    \* bound: iterations until a held button repeats, 60 in the code
  Fast,      \* bound: how many of them a repeating button is spared, 50 in the code
  Kernel,    \* g_utilsKernelFunctionsAvailable
  System     \* the firmware's OK button

ASSUME MenuAssumption ==
  /\ Followed \subseteq Settings
  /\ Typed \subseteq Int
  /\ Repeat \in Nat \ {0} /\ Fast \in 0 .. Repeat - 1
  /\ Kernel \in BOOLEAN /\ System \in {"cross", "circle"}
  /\ \A b \in Pads : IsFiniteSet(b)

VARIABLES
  app,      \* where the app is: off (ended), dead, autostart, main, com, leaving, saving
  stack,    \* the menuLoops under way, the innermost last
  before,   \* l_previousMenuButtons
  ok,       \* l_okButton
  old,      \* the menu thread's oldButtons
  running,  \* g_menuThreadRunning
  net,      \* the session: none, usb, or where netStartWlanConnection is
  ipChanged,  \* g_netIpChanged
  values,   \* the settings
  file,     \* what the lines of pspdisp.cfg are found as, one cut short included
  doing,    \* history: the buttons the last step acted on
  spent,    \* history: buttons held since one of them closed a menu
  stale     \* history: the server's address changed since it was last read

menuVars == <<stack, before, ok>>
sessionVars == <<running, net, ipChanged, stale>>
vars == <<app, menuVars, old, sessionVars, values, file, doing, spent>>

Get(s) == IF s \in Followed THEN values[s] ELSE DefaultOf(Option[s])
OkFor(swap) == CASE swap = 1 -> "cross" [] swap = 2 -> "circle" [] OTHER -> System
menuSetOkButton(v) == OkFor(IF "buttonSwap" \in Followed THEN v["buttonSwap"] ELSE 0)
OtherOf(button) == IF button = "cross" THEN "circle" ELSE "cross"

Top == stack[Len(stack)]
EntryOf(f) == getMenuProperty[f.page][f.sel]
Entry == EntryOf(Top)

\* menuLoop begins: the first entry, the buttons read are to be ignored.
Opened(page) == [page |-> page, sel |-> 1, prev |-> {}, count |-> 0, fast |-> FALSE]
Open(under, page) ==
  /\ stack' = Append(under, Opened(page))
  /\ before' \in Pads
  /\ ok' = menuSetOkButton(values)

Off ==
  /\ stack' = <<>> /\ before' = {} /\ old' = {} /\ running' = FALSE /\ net' = "none"
  /\ ipChanged' = FALSE /\ stale' = FALSE /\ doing' = {} /\ spent' = {} /\ UNCHANGED ok

Init ==
  /\ app = "off" /\ stack = <<>> /\ before = {} /\ ok = System /\ old = {}
  /\ running = FALSE /\ net = "none" /\ ipChanged = FALSE
  /\ values = Defaults(Followed) /\ file = <<>>
  /\ doing = {} /\ spent = {} /\ stale = FALSE

-----------------------------------------------------------------------------
(* Reading the pad *)

\* Buttons still held from before are left out, until the first read that differs.
Now(b) == IF b = before THEN {} ELSE b
Was(b) == IF b = before THEN Top.prev \ before ELSE Top.prev

\* What the menu understands, what comes first wins.
Keys(okButton) ==
  <<{"ltrigger"}, {"rtrigger"}, {"up"}, {"down"}, {"right"}, {"left"}, {okButton},
    {OtherOf(okButton), "home"}, {"triangle"}>>
Commands ==
  <<"previous", "next", "up", "down", "more", "less", "ok", "cancel", "default">>

\* The command of newly pressed buttons, and which of them it is for.
Meaning ==
  [okButton \in {"cross", "circle"} |-> [new \in SUBSET UNION Pads |->
     LET hits == {i \in DOMAIN Commands : Keys(okButton)[i] \cap new # {}}
         first == CHOOSE i \in hits : \A j \in hits : i <= j IN
     IF hits = {} THEN [command |-> "none", keys |-> {}]
     ELSE [command |-> Commands[first], keys |-> Keys(okButton)[first] \cap new]]]

Command(b) == Meaning[ok][Now(b) \ Was(b)].command
ActedOn(b) == Meaning[ok][Now(b) \ Was(b)].keys

\* The end of an iteration: a button held long enough counts as let go once.
Counted(f, now, was) ==
  IF now = was THEN f.count + 1 ELSE IF f.fast THEN Fast ELSE 0
Repeats(f, now, was) == Counted(f, now, was) > Repeat
Settled(f, now, was) ==
  IF Repeats(f, now, was)
  THEN [f EXCEPT !.prev = {}, !.count = 0, !.fast = TRUE]
  ELSE [f EXCEPT !.prev = now, !.count = Counted(f, now, was),
               !.fast = (f.fast /\ now = was)]

\* One iteration that leaves the innermost menuLoop at f.
Stay(b, f) ==
  /\ before' = IF b = before THEN before ELSE {}
  /\ stack' = [stack EXCEPT ![Len(stack)] = Settled(f, Now(b), Was(b))]
  /\ doing' = ActedOn(b)
  /\ spent' = IF Repeats(f, Now(b), Was(b)) THEN {} ELSE spent \cap b

\* Mutant: the addresses signal nothing when they are drawn.
SignalsNothing(page) == ipChanged

\* The callback of the addresses is called to draw them, too, and signals whatever
\* it is called for; nothing is drawn over the network dialog.
Signals(page) == ipChanged \/ (page = "wlan_ip" /\ net # "dialog")
Drawn(page) == ipChanged' = Signals(page)

Server == {"wlanIPIndex"} \cup {Address(i) : i \in 1 .. Hosts}

\* The setting of entry e becomes x.
Assign(e, x) ==
  /\ values' = IF e.name \in Followed THEN [values EXCEPT ![e.name] = x] ELSE values
  /\ stale' = (stale \/ (net = "connect" /\ values' # values /\ e.name \in Server))

Rest == UNCHANGED <<app, old, running, net, file>>
Unset == UNCHANGED <<values, stale>>

-----------------------------------------------------------------------------
(* menuLoop *)

\* Nothing is pressed that does anything; the page may be drawn anew all the same.
Idle(b, k) ==
  /\ \/ k = "none"
     \/ k \in {"previous", "next"} /\ nextMenuId[Top.page] = Top.page
     \/ k = "ok" /\ Entry.kind = "number"
        /\ Entry.name \notin {"usbSaveTimeout", "autoTimeout", "presetIndex"}
     \/ k = "cancel" /\ Top.page = "main"
     \/ k = "default" /\ Entry.kind = "button"
  /\ Stay(b, Top)
  /\ ipChanged' \in {ipChanged, Signals(Top.page)}
  /\ UNCHANGED ok /\ Unset /\ Rest

Turn(b, k) ==
  LET page == IF k = "next" THEN nextMenuId[Top.page] ELSE previousMenuId[Top.page] IN
  /\ k \in {"previous", "next"} /\ nextMenuId[Top.page] # Top.page
  /\ Stay(b, [Top EXCEPT !.page = page, !.sel = 1])
  /\ Drawn(page)
  /\ UNCHANGED ok /\ Unset /\ Rest

Choose(b, k) ==
  LET count == Len(getMenuProperty[Top.page])
      sel == IF k = "down" THEN (Top.sel % count) + 1
             ELSE IF Top.sel = 1 THEN count ELSE Top.sel - 1 IN
  /\ k \in {"up", "down"}
  /\ Stay(b, [Top EXCEPT !.sel = sel])
  /\ Drawn(Top.page)
  /\ UNCHANGED ok /\ Unset /\ Rest

increaseValue(e, x) == IF x + e.step > e.max THEN e.min ELSE x + e.step
decreaseValue(e, x) == IF x - e.step < e.min THEN e.max ELSE x - e.step

\* Without the kernel module two settings cannot be changed.
Prohibited(e) == ~Kernel /\ e.name \in {"brightness", "wlanLedEnabled"}

\* The OK button follows its setting at once.
Swapped(e) == ok' = IF e.name = "buttonSwap" THEN menuSetOkButton(values') ELSE ok

\* The callbacks of the addresses are asked and told even if there is nothing to step.
Change(b, k) ==
  /\ k \in {"more", "less"}
  /\ Stay(b, Top)
  /\ IF Entry.kind = "number" /\ ~Prohibited(Entry)
     THEN /\ Assign(Entry, IF k = "more" THEN increaseValue(Entry, Get(Entry.name))
                                         ELSE decreaseValue(Entry, Get(Entry.name)))
          /\ Drawn(Top.page)
     ELSE /\ Unset
          /\ ipChanged' = (ipChanged \/ Entry.name \in Server)
  /\ Swapped(Entry) /\ Rest

\* TRIANGLE restores the default, strings through their callbacks.
Restore(b, k) ==
  /\ k = "default" /\ Entry.kind # "button"
  /\ Stay(b, Top)
  /\ IF Prohibited(Entry) THEN Unset ELSE Assign(Entry, DefaultOf(Entry))
  /\ Drawn(Top.page)
  /\ Swapped(Entry) /\ Rest

Within(e, x) == IF x < e.min THEN e.min ELSE IF x > e.max THEN e.max ELSE x

\* What the firmware's keyboard may return, if it is not cancelled: a string as it
\* is, a number brought into its range.
Keyboard(e) == IF e.kind = "word" THEN Words ELSE {Within(e, x) : x \in Typed}

Type(b, k) ==
  /\ k = "ok"
  /\ Entry.kind = "word" \/ Entry.name \in {"usbSaveTimeout", "autoTimeout"}
  /\ Stay(b, Top)
  /\ Unset \/ \E x \in Keyboard(Entry) : Assign(Entry, x)
  /\ Drawn(Top.page)
  /\ UNCHANGED ok /\ Rest

\* Mutant: the buttons are not read again when a nested menu returns.
KeepRead(f, b, c) == [f EXCEPT !.count = 1]

\* After an entry's callback: the buttons are read again, so that what closed a
\* nested menu does not act here too, and the iteration ends.
Refreshed(f, b, c) == [f EXCEPT !.prev = c, !.count = 1]

\* The preset's button tells the host; the presets belong to FrameLoop's settings.
Preset(b, k) ==
  /\ k = "ok" /\ Entry.name = "presetIndex"
  /\ before' = {} /\ doing' = {ok}
  /\ \E c \in Pads : /\ stack' = [stack EXCEPT ![Len(stack)] = Refreshed(Top, b, c)]
                     /\ spent' = spent \cap b \cap c
  /\ UNCHANGED <<ok, ipChanged>> /\ Unset /\ Rest

Nested(act) == IF act = "settings" THEN "general" ELSE "pc_screen"

OpenNested(b, k) ==
  /\ k = "ok" /\ Entry.name \in {"settings", "pcSettings"}
  /\ Open([stack EXCEPT ![Len(stack)] = [Top EXCEPT !.prev = {}, !.count = 0]],
          Nested(Entry.name))
  /\ doing' = {ok} /\ spent' = {}
  /\ UNCHANGED ipChanged /\ Unset /\ Rest

\* CANCEL or HOME in the settings: back to the menu they were opened from.
CloseNested(b, k) ==
  /\ k = "cancel" /\ Len(stack) > 1
  /\ before' = {}
  /\ \E c \in Pads :
       /\ stack' = [SubSeq(stack, 1, Len(stack) - 1)
                      EXCEPT ![Len(stack) - 1] = Refreshed(stack[Len(stack) - 1], b, c)]
       /\ spent' = ActedOn(b) \cap c
  /\ doing' = ActedOn(b) /\ ok' = menuSetOkButton(values)
  /\ UNCHANGED ipChanged /\ Unset /\ Rest

\* The in-game menu closes: cancelled, resumed or to toggle the keyboard.  The
\* menu thread reads the pad again before it looks out for HOME.
Resume(b, k) ==
  /\ Top.page = "ingame"
  /\ k = "cancel" \/ (k = "ok" /\ Entry.name \in {"resume", "keyboard"})
  /\ stack' = <<>> /\ before' = {}
  /\ old' \in Pads /\ spent' = ActedOn(b) \cap old'
  /\ doing' = ActedOn(b)
  /\ UNCHANGED <<app, ok, running, net, ipChanged, file>> /\ Unset

\* "Quit to Main menu".
QuitSession(b, k) ==
  /\ Top.page = "ingame" /\ k = "ok" /\ Entry.name = "quit"
  /\ app' = "leaving" /\ stack' = <<>> /\ before' = {} /\ old' = {}
  /\ doing' = {ok} /\ spent' = {}
  /\ UNCHANGED <<ok, running, net, ipChanged, file>> /\ Unset

\* "Quit" in the main menu: main saves the settings and ends.
Quit(b, k) ==
  /\ Top.page = "main" /\ k = "ok" /\ Entry.name = "quit"
  /\ app' = "saving" /\ Off /\ file' = <<>>
  /\ UNCHANGED values

\* enterComLoop: the menu thread starts, with no button seen yet.
Enter(mode) ==
  /\ app' = "com" /\ stack' = <<>> /\ before' = {} /\ old' = {} /\ running' = TRUE
  /\ IF mode = "usb" THEN net' = "usb" /\ UNCHANGED ipChanged
                     ELSE net' = "init" /\ ipChanged' = FALSE
  /\ spent' = {} /\ stale' = FALSE
  /\ UNCHANGED <<ok, values, file>>

StartSession(b, k) ==
  /\ Top.page = "main" /\ k = "ok" /\ Entry.name \in {"usb", "wlan"}
  /\ Enter(Entry.name) /\ doing' = {ok}

InMenu == stack # <<>> /\ app \in {"main", "com"}

-----------------------------------------------------------------------------
(* The menu thread between menus, and the session *)

\* HOME, newly pressed, opens the in-game menu.
PollOpens ==
  /\ app = "com" /\ running /\ stack = <<>>
  /\ \E b \in Pads : "home" \in b \ old /\ doing' = {"home"}
  /\ Open(<<>>, "ingame") /\ old' = {} /\ spent' = {}
  /\ UNCHANGED <<app, sessionVars, values, file>>

\* Another button, or HOME under an error dialog.
PollReads ==
  /\ app = "com" /\ running /\ stack = <<>>
  /\ old' \in Pads
  /\ spent' = spent \cap old' /\ doing' = {}
  /\ UNCHANGED <<app, menuVars, sessionVars, values, file>>

\* netDialog, then the address is read; while the loop tries to connect it looks
\* whether the address changed.  A lost connection begins with reading it again.
NetDialog ==
  /\ net = "init" /\ net' = "dialog"
  /\ UNCHANGED <<app, menuVars, old, running, ipChanged, stale, values, file, spent>>
  /\ doing' = {}
NetDialogEnds ==
  /\ net = "dialog" /\ net' = "read"
  /\ UNCHANGED <<app, menuVars, old, running, ipChanged, stale, values, file, spent>>
  /\ doing' = {}
ReadAddress ==
  /\ net = "read" /\ net' = "connect" /\ stale' = FALSE
  /\ UNCHANGED <<app, menuVars, old, running, ipChanged, values, file, spent>>
  /\ doing' = {}
CheckAddress ==
  /\ net = "connect" /\ ipChanged
  /\ net' = "read" /\ ipChanged' = FALSE
  /\ UNCHANGED <<app, menuVars, old, running, stale, values, file, spent>>
  /\ doing' = {}
ConnectionLost ==
  /\ net = "connect" /\ net' \in {"read", "init"} /\ stale' = FALSE
  /\ UNCHANGED <<app, menuVars, old, running, ipChanged, values, file, spent>>
  /\ doing' = {}

\* The session is over, by itself or after Quit; the menu thread is told to end.
SessionEnds ==
  /\ app \in {"com", "leaving"} /\ running
  /\ running' = FALSE /\ net' = "none" /\ stale' = FALSE /\ doing' = {}
  /\ UNCHANGED <<app, menuVars, old, ipChanged, values, file, spent>>

\* The menu thread has ended, and the main menu opens.
BackToMenu ==
  /\ app \in {"com", "leaving"} /\ ~running /\ stack = <<>>
  /\ app' = "main" /\ Open(<<>>, "main") /\ old' = {} /\ doing' = {} /\ spent' = {}
  /\ UNCHANGED <<sessionVars, values, file>>

-----------------------------------------------------------------------------
(* The file, the start and the end of the app *)

\* Mutant: the file's values are taken to be below their maximum.
InRangeStrictly(s, x) == FileNumbers[s].min <= x /\ x < FileNumbers[s].max

InRange(s, x) == FileNumbers[s].min <= x /\ x <= FileNumbers[s].max

\* A string ends at its first blank, and its last character is taken for the quote.
AsRead(w) == IF w = Spaced THEN "tw" ELSE w

\* Mutant: a number that is found is believed.
LoadedUnchecked(s) == {IF s \in DOMAIN file THEN file[s] ELSE FileNumbers[s].default}

\* A number that is found and believed, or the default.
LoadedNumbers(s) ==
  {IF s \in DOMAIN file /\ InRange(s, file[s]) THEN file[s] ELSE FileNumbers[s].default}

\* Of a line cut short: what foundValue held, which nothing initialized, without its
\* last character, unless it was too long to be believed.
LoadedStrings(s) ==
  IF s \notin DOMAIN file THEN {StringDefault(s)}
  ELSE IF file[s] = Garbage THEN {Garbage, StringDefault(s)}
  ELSE {AsRead(file[s])}

Loaded(s) ==
  IF s \in DOMAIN FileNumbers THEN LoadedNumbers(s)
  ELSE IF s \in FileStrings THEN LoadedStrings(s)
  ELSE {DefaultOf(Option[s])}

\* main: the settings are loaded, then the main menu or the autostart screen.
Boot ==
  /\ app \in {"off", "dead"}
  /\ values' \in {v \in [Followed -> UNION {Loaded(s) : s \in Followed}] :
                    \A s \in Followed : v[s] \in Loaded(s)}
  /\ ok' = menuSetOkButton(values')
  /\ \/ /\ "autoMode" \in Followed => values'["autoMode"] # 0
        /\ app' = "autostart" /\ UNCHANGED <<stack, before>>
     \/ /\ "autoMode" \in Followed => values'["autoMode"] = 0
        /\ app' = "main" /\ stack' = <<Opened("main")>> /\ before' \in Pads
  /\ UNCHANGED <<old, sessionVars, file, doing, spent>>

\* The countdown runs out, or CANCEL is held when the pad is read.
AutostartEnds ==
  /\ app = "autostart"
  /\ \E mode \in {"usb", "wlan"} :
       /\ "autoMode" \in Followed => (mode = "wlan" <=> values["autoMode"] = 1)
       /\ Enter(mode)
  /\ doing' = {}
AutostartCancelled ==
  /\ app = "autostart"
  /\ \E b \in Pads : OtherOf(ok) \in b
  /\ app' = "main" /\ Open(<<>>, "main")
  /\ UNCHANGED <<old, sessionVars, values, file, doing, spent>>

\* exit_callback, registered before the kernel module is looked for.
exit_callback ==
  /\ app \in {"autostart", "main", "com", "leaving"}
  /\ app' = "saving" /\ Off /\ file' = <<>>
  /\ UNCHANGED values

SaveEnds ==
  /\ app = "saving"
  /\ app' = "off"
  /\ file' = [s \in Followed \cap Saved |-> values[s]]
  /\ UNCHANGED <<menuVars, old, sessionVars, values, doing, spent>>

\* What is found of the line of s that says x and is cut short behind the name: a
\* number without its last digits, down to none (sscanf is then at the end, which
\* counts as found), or a text nobody wrote.
CutShort(s, x) ==
  IF s \in FileStrings THEN {Garbage} ELSE {x \div power : power \in {10, 100, 1000, 10000}}

\* Cut short in its name, a line is found, without a value, for every setting whose
\* name begins that way.
Nameless(s) == IF s \in FileStrings THEN Garbage ELSE 0

\* The lines of a save that lost power: those written, and the beginning of one.
Torn(lines) ==
  \E written \in SUBSET (Followed \cap Saved) :
    LET missing == (Followed \cap Saved) \ written IN
    \/ \E s \in missing : \E x \in CutShort(s, values[s]) :
         lines = [t \in written \cup {s} |-> IF t = s THEN x ELSE values[t]]
    \/ \E cut \in SUBSET missing :
         lines = [t \in written \cup cut |-> IF t \in cut THEN Nameless(t) ELSE values[t]]

\* The PSP loses power.
Crash ==
  /\ app \notin {"off", "dead"}
  /\ app' = "dead" /\ Off
  /\ IF app = "saving" THEN Torn(file') ELSE UNCHANGED file
  /\ UNCHANGED values

Next ==
  \/ /\ InMenu
     /\ \E b \in Pads : \E k \in {Command(b)} :
          \/ Idle(b, k) \/ Turn(b, k) \/ Choose(b, k) \/ Change(b, k) \/ Restore(b, k)
          \/ Type(b, k) \/ Preset(b, k) \/ OpenNested(b, k) \/ CloseNested(b, k)
          \/ Resume(b, k) \/ QuitSession(b, k) \/ Quit(b, k) \/ StartSession(b, k)
  \/ PollOpens \/ PollReads \/ NetDialog \/ NetDialogEnds \/ ReadAddress \/ CheckAddress
  \/ ConnectionLost \/ SessionEnds \/ BackToMenu
  \/ Boot \/ AutostartEnds \/ AutostartCancelled \/ exit_callback \/ SaveEnds \/ Crash

Spec == Init /\ [][Next]_vars

-----------------------------------------------------------------------------
\* What setting s may hold, and what its line in the file may be found as.
Held(s, x) == x \in Limits(Option[s]) \/ (s \in FileStrings /\ x = Garbage)
Found(s, x) == IF s \in FileStrings THEN Held(s, x) ELSE x \in Int

\* A text whose line was cut short.
Spoiled(s) == s \in FileStrings /\ values[s] = Garbage

Loops ==
  [page : Pages, sel : 1 .. 7, prev : SUBSET UNION Pads, count : 0 .. Repeat, fast : BOOLEAN]

\* Wherever a number comes from - steps, the keyboard, defaults, a whole, a torn or a
\* missing file - it is one its entry allows, and a selection is on an entry.  A string
\* is one the user may type, unless its line was cut short: then it may be anything.
TypeOK ==
  /\ app \in {"off", "dead", "autostart", "main", "com", "leaving", "saving"}
  /\ stack \in Seq(Loops) /\ Len(stack) <= 2
  /\ \A i \in DOMAIN stack : stack[i].sel \in DOMAIN getMenuProperty[stack[i].page]
  /\ \A i \in DOMAIN stack : (i = 1) <=> (stack[i].page \in {"main", "ingame"})
  /\ before \subseteq UNION Pads /\ old \subseteq UNION Pads
  /\ ok \in {"cross", "circle"}
  /\ net \in {"none", "usb", "init", "dialog", "read", "connect"}
  /\ {running, ipChanged, stale} \subseteq BOOLEAN
  /\ DOMAIN values \subseteq Settings /\ DOMAIN file \subseteq DOMAIN values \cap Saved
  /\ \A s \in DOMAIN values : Held(s, values[s])
  /\ \A s \in DOMAIN file : Found(s, file[s])
  /\ doing \subseteq UNION Pads /\ spent \subseteq UNION Pads

\* A press that closes the settings or the in-game menu does nothing else while it
\* lasts (menu.c:892): it neither acts in the menu underneath nor opens the menu
\* again, until the menu underneath repeats it as a held button.
OneLevelPerPress == [][doing' \cap spent = {}]_vars

\* While WLAN connects, an address changed since it was read has been signalled
\* (menu.c:1200), although the index has no callback and the keyboard calls none.
AddressSignalled == net = "connect" /\ stale => ipChanged

\* Settings survive a normal end of the app and a restart unchanged: whatever the
\* menu can set, the file holds and the loader believes, also after an earlier save was
\* cut short, but for a text which that left as garbage.
SettingsKept ==
  [][app = "off" /\ app' # "off" =>
       \A s \in DOMAIN values : ~Spoiled(s) => values'[s] = values[s]]_vars

=============================================================================
