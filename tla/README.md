# PSPdisp on Linux: verification models

PSPdisp turns a PlayStation Portable into a small second monitor. A Linux
program (`linux-host/`) grabs the desktop, encodes it as JPEG and pumps it to a
homebrew application on the PSP, over USB bulk transfers or TCP; the application
draws the picture and answers every frame with the state of its buttons, which
the host turns into a virtual gamepad. Two applications speak this protocol: a
minimal one (`psp/source-min/`) and the full one (`psp/source/`), both on top of
the same USB driver (`usbhostfs/`).

This directory models the parts of these programs whose correctness depends on
order, timing and failure, checks them with TLC on small instances, and proves
what can be proved for every instance with TLAPS.

## 1. Inventory

| Component | State it keeps | Operations | Talks to |
|---|---|---|---|
| Host frame pump (`linux-host/main.c`) | `force_next`, `last_hash`, `idle`, `run`, the open transport | `loop`, `pump`, `read_response` | transport, capture, encoder, audio, gamepad |
| Host USB transport (`transport_usb.c`) | the device handle | `u_open` with `handshake`, `u_write`, `u_read`, `u_close` | the PSP's driver, over bulk pipes without framing |
| Host TCP transport (`transport_tcp.c`) | listening and connected socket | `t_open`, `t_write`, `t_read`, `t_close` | the full app's `wlan.c` |
| Host process (`main.c`, `display_auto.c`) | the lock file, signal flag, the virtual output created | `acquire_lock`, `daemonize`, `on_sig`, `display_auto_create`/`destroy` | the compositor |
| Capture (`capture_wlr.c`, `capture_portal.c`, `capture_x11.c`) | a frame buffer, for the portal also a thread, a lock and a D-Bus state | `init`, `grab`, `pixel`, `term` | the compositor, PipeWire |
| USB driver (`usbhostfs/main.c`) | `g_connected`, `g_mainsema`, event flags, the shared bulk requests, the async rings | attach and detach, `usb_thread`, `command_xchg`, raw bulk calls, `usbAsync*` | both apps and the host |
| Minimal app (`source-min`) | the menu, the receive buffer, the last buttons | prompt, `comRun`, menu, draw | driver |
| Full app (`psp/source`) | five threads' worth of globals | `comLoop`, `compressDecodingAndDrawingThread`, `menuThread`, `audioPlaybackThread`, `powerIdleThread` | driver or WLAN |

### What each component does, and what makes it correct

**Host frame pump.** Each cycle of `loop` grabs the screen, computes `frame_hash`
over a sparse grid of pixels, and decides: a changed hash, a forced refresh or
`RefreshTicks` idle cycles put a picture into the frame, else a header alone goes
out. Then it waits for one response, whose flags may force the next picture. A
transport failure closes the session; the loop reopens it and owes a full
picture. Hard: the four pieces of state (`force_next`, `last_hash`, `idle`, the
open transport) are reset at different places; the hash is blind to changes
between its sample points; JPEG size, audio and the PSP's receive buffer
compete. Correct means: requests and answers alternate, an owed picture is in the
next frame, the screen of the PSP ends up showing the monitor.

**USB transport and the driver's session.** Bulk pipes carry no frames. The
handshake is 4 + 12 bytes (magic and hello), the frame header 16: a host that
starts while the driver still counts as connected fills one header read with its
handshake. Inside the driver, `usb_thread`, the raw bulk calls and the bus
callbacks share requests, event flags and `g_connected`, only partly under
`g_mainsema`. Correct means: nobody misreads bytes, one thread at a time is in a
transfer, and exchanges resume after every order of drops and restarts.

**Async channels.** `usb_thread` fills a ring per channel, application threads
drain it under an event flag with a bit per channel; a read takes the bit first
and copies later. Correct means: FIFO, no lost wake-up, no overrun.

**Minimal app.** One thread: prompt, `comRun` (header, payload, keys, response,
draw), a menu drawn over the frame. Correct means: the menu neither ghosts on the
screen nor acts on the PC.

**Full app.** Main thread (`comLoop`), decoder and drawing thread, menu thread,
playback thread, idle thread, and in WLAN mode two network threads. They share
globals without locks and two frame buffers; the main thread has the lowest
priority. Correct means: each thread's life is inside its session, buffers are
not overrun while headers resize them, a picture comes back after menus, a Quit
ends, changed settings go out, buttons for the menu stay local.

**HostFS commands.** Every `io_*` call of the driver's file system is one
exchange over `command_xchg` (command, data, answer, data), reads and writes one
per 64 KB block, under the semaphore `g_mainsema`; async packets and bulk data
use the same pipe. Hard: threads queue for the bus while the cable comes and goes
and `usb_thread` greets a new host. Correct means: the parts of an exchange are
never mixed, what a call returns is what was moved, and every call returns.

**WLAN and the TCP host.** The main thread resolves, connects with non-blocking
attempts that an alarm and a watchdog cut off by closing the socket, sends the
password and runs `comLoop`; net callbacks report a lost access point; the host
serves one connection and has a backlog. Correct means: nobody closes a socket
number that is somebody else's by now, the exchange resumes after any loss, Quit
leads back to the menu.

**Host process and capture.** Option handling, lock, `daemonize`, signals, a
virtual output that a script creates and the host must remove, three capture
backends, of which the portal's has a thread of its own and a user to ask.
Correct means: one host per lock, no announced output left behind, the encoder's
size is the picture's, SIGTERM stops it.

**Menu and configuration.** `menuLoop` reads the pad and runs in the main thread
or, during a session, in the menu thread, and nests for the settings; a settings
file is truncated and rewritten when the app ends. Correct means: a press acts
once, values stay where their entries allow, a changed address reaches a loop
that is connecting, settings survive a restart.

**Power saving.** An idle thread counts seconds and turns audio, clock and screen
down; the frame loop, the menu thread and the idle thread turn them up. Correct
means: no dark screen without a mode that somebody will end, a key lights it, an
unused PSP does get dark.

## 2. Modules

| Module | Models | Composes / refines |
|---|---|---|
| `FramePump` | host `loop`/`pump` x minimal app `comRun` over a link that drops | refines `Exchange` |
| `Exchange` | the abstract promise: ask, answer, and what the next request owes | |
| `MCFramePump` | hashes, picture sizes and chords for TLC | extends `FramePump` |
| `UsbSession` | host transport x driver thread x raw bulk calls x app, in bytes | the session `FramePump` takes as its link |
| `AsyncChannel` | the rings, their registration, readers and `usb_thread` | refines `AsyncFifo` |
| `AsyncFifo` | a bounded FIFO per endpoint | |
| `MCAsyncChannel` | symmetry for TLC | extends `AsyncChannel` |
| `AudioRing` | `comLoop`'s audio writes x playback thread x resizing | |
| `FrameLoop` | full app: main, decoder and menu thread over sessions | |
| `HostFs` | file commands, async and bulk writes of several threads x `usb_thread` x file server | the same driver as `UsbSession`, seen by its callers |
| `MCHostFs` | two threads and what they call | extends `HostFs` |
| `WlanSession` | `wlan.c` with alarm, watchdog and callback x `comLoop` x `transport_tcp.c` | host and PSP in one module |
| `HostProcess` | `main.c`, `display_auto.c` and the three backends, over restarts | `FramePump`'s `loop` is one cycle here |
| `MenuTables` | the tables of `menu.c` and of the settings file | |
| `MenuMachine` | the app as the user steers it: menus, sessions, saving, crashes | extends `MenuTables` |
| `MCMenuMachine` | pads and typed values for TLC | extends `MenuMachine` |
| `PowerSave` | idle thread x frame loop x menu thread | audio as a flag; `AudioRing` has the buffer. Its specification is `PowerSpec` and `WlanSession`'s `WlanSpec`, since a module of theorems extends each of them together with another one |
| `MenuWlanProofs`, `PowerAudioProofs` | the theorems about `MenuMachine` and `WlanSession`, about `PowerSave` and `AudioRing` | |
| other `*Proofs` | the theorems about the module they are named after | |

### How state and actions correspond to the code

*FramePump.* `hpc` is the place in the host's loop: `closed` (no transport),
`grab` (about to grab and decide), `send` (frame encoded), `await` (in
`read_response`). `HostGrab` is the body of `loop` up to and with the encoding,
with the three reasons to send a picture and the branch that drops a picture too
large for `COM_IMAGE_BUFFER_SIZE`; `HostSend` is `pump`'s writes; `HostReceive`
is the response with its gamepad events; `HostLost` every error path. `ppc` is
the place in `comRun`; `PspRespond` runs `handleInput` and writes the response,
`PspDraw` decodes and draws. A picture is the *version* of the screen it shows;
`Hash` and `JpegSize` are functions of versions. Capture failure is a choice of
the environment. `last_hash` uses 0 for "none" in the code; the model has a
separate `None`, so a real hash of 0 (once in 2^64) is not distinguished.

*UsbSession.* `need` and `left` count bytes on the two sides of a bulk-out
transfer; `Transfer` moves the smaller of both, which is what libusb and the
driver do; `tag` is a history variable that says which write the first bytes of
the PSP's request came from. `op`/`stage` is the application inside the raw bulk
calls, `dpc` the driver's thread, `hpc` the host inside `u_open`, the handshake
and `pump`.

*AsyncChannel.* Each operation that the driver runs with interrupts off is one
action; a read is two (`wait` took the bit, `copy` copies), because the code
enables interrupts between them. A channel unregistered between the two is a
null dereference, recorded in `crashed`.

*AudioRing.* `Store` and `Read` are split where the playback thread can cut in;
`Check` is `audioCheckIfResetIsNeeded` and `Resize` its second store. `target`
and `sum` are the values the main thread computed before it was interrupted.

*FrameLoop.* `mpc`, `npc`, `dpc` are the three threads; a step is what a thread
does between two blocking calls, except that `sendResponse` is split between its
look at `g_menuActive` (`Sample`) and its look at `g_menuButtonsOnExit`
(`Compose`), because the menu thread has the higher priority. The write blocks
between `Compose` and `Written`, which reads the flags again. `front` and `back`
are the two frame buffers. `carried` (buttons unchanged since a menu closed) and
`unsent` (a setting that has not gone out) are history variables.

*HostFs.* A call is a record: its kind, the stage of its exchange, the blocks
still to go and the bytes counted; `moved`, `want`, `short` and `cut` are history.
`bus` is `g_mainsema`, its holder first, then those who wait in order; `Stop` deletes
it and empties the queue. A transfer
is a rendezvous with the file server, which is external: it is what the driver
expects of it, and may answer less than asked or an error. The Linux host of this
repository answers only the hello. Requests on a dead bus come back with an error
through their callback, and ids, paths and stat records are left out.

*WlanSession.* `mpc` is the main thread between two blocking calls; the watchdog
has a higher priority and cuts in anywhere, the callback a lower one and may be
overtaken anywhere. Socket numbers are given out lowest first, as soon as they
are closed. A wrong password is a `Drop` by the host. `skew` is a response 76
bytes longer than its flags announce, after which the host reads on shifted.

*HostProcess.* `pc` is the place in `main`; one host is started again for ever,
another one with the same lock file comes and goes. A picture is its size. `lock`
is the set of processes with a descriptor of the locked file. Signals and kills
come anywhere; a signal during the script's output makes the read fail (`eintr`),
as its handler is installed without SA_RESTART. The portal's thread adds
`ParamChanged` and `Process`. X11 ends the process by an X error; SIGKILL leaves
the output.

*MenuMachine.* An iteration of `menuLoop` is one step: `Idle`, `Turn` (pages),
`Choose` (cursor), `Change`, `Restore`, `Type`, `Preset` or a button's own action.
`stack` has the nested loops. `Followed` names the settings that change; the
others stay at their defaults. `file` is what the lines of the settings file are
found as. A save that a crash cuts leaves some lines whole and at most one cut short:
behind its name a number has lost digits, or all of them and is found as 0; within it,
every setting whose name begins that way is found without a value. A text cut short is
`Garbage`, whatever the loader's uninitialized buffer held.
`exit_callback` comes at any time after the settings are loaded. `doing`, `spent`
and `stale` are history. A press is forgotten when a new `menuLoop` begins.

*PowerSave.* `main` walks through `powerEnablePowerSaveMode(false)` step by step
for a frame, because the idle and menu thread have the higher priority and cut
in; for these two it is one step. Enabling is two, around `audioTerm`, which
blocks. `overtaken` says that the idle thread has had its turn while a frame ends
the mode: it sleeps a second then. A second playback thread by an overlapping
`audioInit` is not modelled.

## 3. Runs

| Run | Question | Bounds |
|---|---|---|
| `pump` | lock step, payload sizes, forced refreshes, menu keys, refinement of `Exchange`; does the PSP end up showing the monitor, is a static screen refreshed | 4 versions in two hash classes, one too large by a byte beside audio, one the decoder rejects; 2 ticks; no key, HOME, X or DOWN at a time |
| `usb_session` | bytes in step, one thread in a transfer, recovery | payloads 0, 8 (below the 12 of a probe), 24 (above a header) |
| `async_ring` | ring arithmetic, wake-ups, refinement of `AsyncFifo` | 3-byte ring, packets and reads of up to 2, 2 readers, one endpoint, a user and a system channel |
| `audio_ring` | positions inside the buffer, one playback thread, termination | real sizes; one named rate and none, both chunk sizes and none |
| `frame_loop` | clean ends, settings, masked buttons, Quit, the picture's return | one chord and none |
| `frame_quit` | `menu.c:97`: "Quit to Main menu". **Violated** | no buttons |
| `hostfs` | framing, counts and termination of every call | 2 threads, one with every call and one with async and bulk writes; lengths 1, 3 and 4 with blocks of 2 |
| `wlan` | sockets, reconnection, Quit | 3 sockets, 2 attempts, a backlog of 1, an address that answers, one that does not, one by name |
| `host` | one host, outputs removed, sizes, stopping | 2 outputs, two sizes, every backend, output option and transport |
| `host_corner` | `main.c:229`: "virtual output, downscaled". **Violated** | the same |
| `menu` | types, signalled addresses, one action per press, settings kept | two users, each with one setting that changes: the server's index, of two, and the autostart's wait, 0 to 10; a held button repeats after 2 readings |
| `power` | dark screens, keys, idleness | counter limit 6, timeouts 2 and 5 |

Why the bounds are enough. Versions: a hash class with two members is what a
missed change needs, a third version what a change back needs. The ring of 3 wraps
with packets of 2 at every offset and fills to the brim. In `usb_session` the
payload sizes lie on both sides of every constant they could be mistaken for.
`audio_ring` has no reduced sizes at all. Lengths 1, 3 and 4 with blocks of 2
are a residual alone, a block with a residual, and full blocks. Three sockets are
one to lose, one to wake the PC with and one for the session. The counter's limit
of 6 leaves a timeout well below it, one just under it, and room to wrap. In
`menu` the first user's setting is the one that has no callback and feeds the WLAN
loop; it starts at 1, so that a line cut short (0) must not be believed. The second
user's setting is typed on the keyboard, too, and of 10 a cut leaves 1 or 0, which are
believed. The pads cover the commands, a chord and HOME; the second user ends sessions
without HOME. Setting and pads are all in which they differ; both take the same steps
(`MCMenuMachine` instantiates `MenuMachine` twice). `frame_loop` needs one chord to hold
across a menu and one moment without it. `async_ring` uses symmetry over
readers and values (no liveness is checked there) and does not check deadlock,
since `crashed` stops the PSP.

### Properties worth a second look

- `ImplementsExchange`: a picture that the PSP asked for, or that a new session needs,
  is in the *very next* frame, across cuts. `Exchange` excuses one case only: this very
  picture, on the screen now, has no room beside this frame's audio (`tooLarge`, an
  input of the abstract specification).
- `HostBelievesTruly`, `Recovers`: the host's belief after its handshake is true,
  and no order of drops and clean stops leaves both ends waiting.
- `NoLostWakeup`: bytes that are readable are announced by the bit or by a reader
  that took it and gives it back.
- `ReadInBuffer`: also in the one turn that sees the new frame size with the old
  ring.
- `HeldMasked`: buttons held since the menu closed do not go out, however long;
  the one order it excludes is stated at `CloseMenu`.
- `SettingsStayDue`, `PictureReturns`, `QuitEnds`: see section 4 for fairness.
- `Framed`, `Accounted`: whoever holds the bus, the file server gets the parts of
  one exchange only, and a count that is returned is what it moved.
- `ClosesOwn`, `Reconnects`: see the history of socket numbers; reconnection
  excepts connections that are only late, and an app that has run out of sockets.
- `DisplayRemoved`, `SizesAgree`: each says which ends, and which two backends, it
  does not cover (and the removing command is taken to succeed); these are the hazards at `display_auto.c:120` and
  `capture_x11.c:65`.
- `OneLevelPerPress`, `AddressSignalled`, `SettingsKept`: properties of presses and
  values across nested menus, threads and restarts.
- `DarkRemembered`: with three threads that end the mode and one that starts it,
  nothing but their priorities keeps it true.

A type invariant is checked in the run `menu`, where numbers come from steps, the
keyboard and a file that may be torn, and proved in section 5 for six modules; the
other modules state theirs.

### What the violated runs say

- `frame_quit`: a Quit while the USB driver starts is undone by
  `g_comRunning = true` at the top of `comLoop`; the menu thread then waits for an
  end that nobody can ask for again.
- `host_corner`: on X11 the backend copies 480x272 before the region becomes the
  virtual output, so the picture is its top left corner and not the whole of it.

### What the models show of the code without a run

- The press that closes the minimal app's menu goes out as gamepad input
  (`psp/source-min/com.c:193` says it does not).
- The 10 s connect window of `comRun` (`com.c:170`) is not looked at while a header
  read on a connected driver blocks.
- `netConnect` leaks the sockets of refused attempts, up to 14 per call; an app
  that waits for its host runs out of them (`wlan.c:248`: "Should not happen").
- Held buttons are masked after a menu opens only until the first change: HOME
  released while X is held makes X act (`menu.c:789` says it is ignored).
- A menu opened while the idle thread waits in `audioTerm` does get dark
  (`power.c:335`: "No power saving in the menu"); the wake-up sets the default clock
  and not the configured one; timeouts of 1000 seconds and more save nothing or
  ignore keys.
- A portal stream that changes its size after `p_init` is scaled by the old one.
- An interrupted or late `swaymsg` leaves a virtual output nobody removes.

## 4. Fairness

Weak fairness of each program's or thread's own steps: neither stops between two
statements, and a blocking call is a step that is disabled until its answer
exists. Nothing is assumed of the cable, the capture (beyond `CaptureRecovers`,
an assumption written into the properties), the host in `FrameLoop`, or the user;
two exceptions are named: `AttendedSpec` of `UsbSession` has a user who presses X
when the prompt asks for it, and in `FrameLoop` somebody dismisses the error
dialog. Steady conditions (`<>[](plugged ...)`, `Steady(v)`, `InView`) are
premises of the liveness properties and not fairness.

`HostFs` has strong fairness of the calling threads: `usb_thread` precedes them and
may cut into every attempt, but the cable does not move as fast as they run.
`WlanSession` has strong fairness of a name that resolves, an attempt that connects
and a password that is accepted: each may fail again and again, and sometime does
not, once everything is in order. `HostProcess` is scheduled, its portal and user
answer, and whoever stopped the host signals again while it still waits in accept;
no PSP needs to connect. `PowerSave` has the main and the idle thread go on.
`MenuMachine` has no liveness: its user owes nothing.

PSP threads are scheduled by strict priority. The main thread has priority 0x20,
the menu, decoder, playback and idle threads 0x18: `AudioRing` and `FrameLoop`
use this (a thread of 0x18 is not cut into between two blocking calls). `AudioRing`
also takes the playback thread to get at most one turn between the two stores of
new sizes, because one output lasts about 0.1 s.

## 5. Proofs

For all values of the constants, checked by TLAPS:

- **FramePumpProofs.** `PayloadsFit`: each frame in flight is sound by
  construction of `Encode` (lemma `EncodeFits`), and every step moves frames
  unchanged. `Alternates`, `ForceIsSpent`: `PumpInv = LockStep /\ ForceSpent` is
  inductive once types and payloads are known; `LockStep` is strengthened inside
  by its own clauses about `connected` and the link. `RefinesExchange`: one lemma
  per kind of step maps it to a step of `Exchange` or a stutter. *Ask* is the moment
  `loop` decides what the frame carries (`GrabStep`: what is owed makes `send_image`
  true, and what then is not in the frame was too large); writing it is a stutter.
  `ForceSpent` is what makes taking a response map to *Take*: only that response's flag
  is owed. `MenuNeverPresses` needs
  `MenuInv` (a response on its way while the menu is open is neutral). `NoGhost`
  needs `GhostInv` (the picture that erases the popup is owed, under way or
  received) and assumes that every picture fits and can be decoded.
- **AsyncChannelProofs.** Modular arithmetic of a ring (`WriteMoves`,
  `ReadMoves`), then `ChanInv` = types, aligned rings and one channel per
  endpoint; without the last, a read through one channel would empty the ring of
  another unannounced. `WakeupsKept`
  has a step for each action that empties, fills or takes a bit. `ChannelsAreFifos`
  is the refinement of `AsyncFifo`: the queue of an endpoint is what a read of all of
  its ring would return. `Contents` is a function of positions and not recursive, so
  that it needs no induction: `FilledAppends`, `DrainedTakes` and `EmptiedEmpty` say
  byte by byte what filling, reading and flushing a ring do to it, by cases of where
  a position wraps (`ModCases`), and `FifoStep` maps every step to one of the FIFO's
  or a stutter.
- **PowerAudioProofs**, the buffer. No comparison in the code guards the ends of the buffer.
  The invariant says that the positions are multiples of a tenth of the ring (the
  writer) and of a fifth (the player) and where each thread stands; lemma
  `MixedTurnFits` covers the turn with mixed sizes.
- **FrameLoopProofs.** `IInv` adds to the properties: the driver is off and the
  menu thread told to end from `Leave` on; `menuActive` is raised exactly while
  the menu thread is past its poll; a response on its way holds what is unsent;
  carried buttons equal the held ones and are behind `onExit`, or behind the
  on-screen keyboard.
- **UsbSessionProofs.** `OneTransfer` is `BusExclusive`. `usb_thread` reads the
  magic without the semaphore, so the semaphore alone does not carry it. `Holders`
  says who holds it; `Greeting` says that a bus that came up, until it is greeted,
  finds `usb_thread` waiting and the app outside its calls, where a cleared
  `g_connected` keeps it. The app cannot slip in between, as it has the lower
  priority (lemma `UnseenRuns`). `Plug`'s guard, that enumeration takes longer than
  the app needs to see the drop, is used. `EndsInStep` and `BeliefIsTrue` rest on
  `Phases`, which lists the places the two ends can be in together (magic, hello and
  echo due; header, payload and response due or under way; `CutOff` after a cable
  pull), with whose request is posted, how many bytes it still wants and from which
  write they come. No single write says whether it fits; the list does (lemma
  `WritesFit`: what is left of a write is never more than what is asked for).
- **HostProcessProofs.** `OneHostWorks` has `LockInv`: a lock once taken is
  the process's until it is gone. `AnnouncedIsRemoved` has `DisplayInv`: before the
  script the desktop is as it was found, after it one output more (on X11 the
  remembered width is the one before), until `destroy` takes it back.
  `EncodesWhatItGrabbed` has `SizeInv`, a clause for each backend: wlr's size is its
  buffer's while it has one, X11's is the region's until `x_init` and the image's
  from then on, the portal's is the stream's from `ReadDims` on. X11 with a named or
  announced output is left out, like a renegotiated portal. It needs `DeskInv` too: that a display is announced only by the script.
- **HostFsProofs.** `CountsAreTrue` has `BooksKept`: between two blocks the count and
  what is due make up what was asked for, or the server fell short (lemma `NextDue`:
  what is due shrinks by exactly the block that was counted).
  `CommandsInOnePiece` has `BusInv`. `connected` alone shows nothing, as it outlives
  the cable: `Session` says that on a live bus no event is pending then, and that a
  belief without a cable has one. `Queued` says that who is in an exchange is in the
  semaphore's queue, so that a turn belongs to one of them only; `Exchanges` that on a
  live bus either nobody is in one and the server expects a header (`Between`), or
  one thread whose turn it is (`Holds`).
- **PowerAudioProofs**, power saving. There is no lock, so the argument is about time. A menu that
  ended the mode has set the counter to 0, at least 2 s from the timeout, and the
  idle thread has at most one turn while a frame ends the mode. `EndedOnce` says
  this of the counter; without it the mode could start under a frame that then
  marks it as ended. Timeouts of 0 and 1 s are excluded by `PowerAssumption`.
- **MenuWlanProofs**, the WLAN mode. `SocketsStayOwn` has `OwnInv`. `SocketInv` says that the
  session's socket is the last attempt's and that this number is a TCP socket's or
  free, except while a wake-up packet may have taken it; `DogInv` that an alarm, and a
  woken watchdog, are only where somebody waits under one, or at the end. Both are
  needed: without the second, the watchdog could close a number in the wake-up
  packet's hands.

- **MenuWlanProofs**, the menu. Half of it is about the tables of `menu.c` and `config.c`:
  every entry's default is within its limits and so is every step from within them
  (`OptionsSound`, `StepsStayWithin`), every default and range of the loader is that of
  the menu's entry (`OptionsAgree`), which one would have to compare by hand in the code,
  and all that sets an address is on one page (`ServerPage`). `IInv` joins to the types:
  the stack's lowest menu is the main or the in-game one and each menu above it is
  nested, every value is within its entry's limits, or a text whose line was cut short,
  and `PressInv`, for `OnePressOneLevel`: what is still held of a press that closed a menu is
  among the buttons the next reader has seen already, be it the menu underneath (`prev`)
  or the menu thread (`old`). `ChangesAreSignalled` is inductive with types only.
  `SettingsSurvive` needs `Restored`: while the app is off, loading has one outcome for
  each setting, what it was at the end. Its premise `AllKept` says that the settings
  followed are in the file (those of the PC are not) and that no text has a blank, which
  the loader would cut; both are needed, see `AsRead`. Texts an earlier crash cut short
  are excepted in the property itself (`Spoiled`).

Assumptions are those of the constants, named in each module and evaluated by
TLC in every run.

Only model-checked: all liveness (`Converges`, `RefreshRecurs`, `Recovers`,
`TermEnds`, `QuitEnds`, `PictureReturns`, `CallsReturn`, `Reconnects`, `WlanQuitEnds`,
`StopWorks`, `KeyWakes`, `IdleSaves`), which is out of the prover's reach. Every
invariant and every action property of the passing runs, and both refinements, are
proved.

## 6. Limits

- Host stops in `UsbSession` are clean (SIGTERM between two frames). README.md:209
  of the repository tells users not to `kill -9`.
- A PSP that takes longer than the host's 1000 ms timeouts is outside the model.
- `AudioRing` has power saving off (`configUsbSave` = 0): with it, the idle thread
  would start and end the playback thread as well.
- `FrameLoop` is USB mode; drawing and swapping of a menu count as one step;
  received settings, pixels and decoders are left out.
- The driver appears twice in the repository (`psp/source/usbhostfs`,
  `psp/source-min/usbhostfs`), the same file: `UsbSession` maps the second,
  `AsyncChannel` and `HostFs` the first.
- `WlanSession`: `ChangeServer`, `ChangeSetting` and a second Quit may come more
  often than a menu allows. The bound of 14 stray responses is `Ahead`.
- `HostProcess`: the command that removes a virtual output succeeds; the code looks at
  no result (`display_auto.c:160`, best effort), and an output that `swaymsg` or
  `hyprctl` refuses to drop stays. p_init reads the portal's width a second time without the lock and
  may succeed with 0; the model has it. Forked scripts are one step.
- `MenuMachine`: two settings of the PC (its flags) are `FrameLoop`'s; the strings
  with blanks, which the loader cuts, are in the model and not in the runs, and so are texts whose line a crash cut short, of
  which the model says nothing: up to 32 characters from the stack, and if there are
  none the loader writes in front of its buffer; an exit
  in the moment before the settings are loaded, which would save zeros, is not.
- `PowerSave`: timeouts are below the counter's limit (`PowerAssumption`).

### Not modelled

Pixels, JPEG and the decoders; the contents of the receive buffer, which the
decoder reads while the next frame comes in (`compress.c:337`); PulseAudio and evdev
(library calls in a row); the D-Bus wire format of the portal; fonts, the Danzeff
keyboard's layout, character conversion and debug output (rendering without a
protocol); the kernel helper PRX (wrappers without state); the Windows host, which
the repository lacks and `FrameLoop` takes from `com.c`'s use of it.

## 7. Plan

The system's control is modelled, and the safety properties of its runs are proved.
What would tell more:

1. That `UsbSession` is a link as `FramePump` takes it: whole messages in order, or none.
2. The safety halves of the liveness properties: which steps bring `Recovers` and
   `QuitEnds` nearer, as invariants of who is waiting for whom.
