---------------------------- MODULE WlanSession ----------------------------
(***************************************************************************)
(* WLAN mode: the PSP's connection loop (wlan.c) with its timeout alarm,   *)
(* its watchdog thread and the network's callback, comLoop over the        *)
(* socket, and the host's TCP server (transport_tcp.c), through lost       *)
(* access points, restarted hosts, changed settings and the user's Quit.   *)
(*                                                                         *)
(* The watchdog precedes the main thread and does not block, the           *)
(* callback's thread has the lowest priority and can be overtaken anywhere.*)
(* Socket numbers are given out again as soon as they are closed.          *)
(***************************************************************************)
EXTENDS Integers, Sequences, FiniteSets

CONSTANTS
  Addresses, \* bound: the servers the user may choose
  Sockets,   \* bound: the socket numbers the network stack has
  Attempts,  \* bound: connection attempts of 100 ms in one netConnect, 15 in the code
  Backlog,   \* bound: connections that wait in the host's listening socket
  Ahead      \* bound: stray responses a response of the wrong size holds, 5 in the code

ASSUME WlanAssumption ==
  /\ Addresses \subseteq {"host", "dark", "name", "nobody"}
  /\ Sockets \in Nat \ {0} /\ Attempts \in Nat \ {0} /\ Backlog \in Nat \ {0}
  /\ Ahead \in Nat

VARIABLES
  mpc, loop, tries,  \* the main thread: where, wlanLoopRunning, attempts made
  comRunning, netConnected, netIpChanged, update,  \* the globals g_...
  addr,              \* the chosen server
  ip, resolved,      \* l_ip, l_ipIsResolved
  open,              \* what each socket number is in use for
  netSocket, temp,   \* g_netSocket, l_tempSocket
  dog, dogRunning, sema, alarm,  \* wlanWatchdogThread and what wakes it
  ap, callback,      \* the access point, net_callback
  flagged,           \* the response being composed announces settings
  peer,              \* the PSP's end of the connection
  host, client, backlog,  \* the server: where, whom it serves, who waits
  hello,             \* the password is on its way or there
  frames, resps,     \* frames and responses on their way
  skew, stray        \* the host reads responses shifted; the stray ones left

mainVars == <<mpc, loop, tries>>
flagVars == <<comRunning, netConnected, netIpChanged, update, flagged>>
nameVars == <<ip, resolved>>
sockVars == <<open, netSocket, temp>>
dogVars == <<dog, dogRunning, sema, alarm>>
apVars == <<ap, callback>>
connVars == <<peer, host, client, backlog>>
wireVars == <<hello, frames, resps, skew, stray>>
wlanVars == <<mainVars, flagVars, addr, nameVars, sockVars, dogVars, apVars, connVars,
              wireVars>>

None == 0  \* no socket, -1 in the code
Numbers == 1 .. Sockets

\* The host's address and one nobody answers; names are the host's or nobody's.
Literal == {"host", "dark"}

WlanInit ==
  /\ mpc = "menu" /\ loop = FALSE /\ tries = 0
  /\ comRunning = FALSE /\ netConnected = FALSE /\ netIpChanged = FALSE /\ update = FALSE
  /\ addr \in Addresses /\ flagged = FALSE
  /\ ip = "none" /\ resolved = FALSE
  /\ open = [s \in Numbers |-> "free"] /\ netSocket = None /\ temp = None
  /\ dog = "off" /\ dogRunning = FALSE /\ sema = FALSE /\ alarm = FALSE
  /\ ap = FALSE /\ callback = FALSE
  /\ peer = "none" /\ host = "off" /\ client = "none" /\ backlog = <<>>
  /\ hello = FALSE /\ frames = 0 /\ resps = 0 /\ skew = FALSE /\ stray = 0

\* The watchdog has been woken and runs first.
Preempted == sema /\ dog = "wait"
At(pc) == mpc = pc /\ ~Preempted
Goto(pc) == mpc' = pc /\ UNCHANGED <<loop, tries>>

\* The PSP's end of the connection closes: the host has, or will accept, a dead
\* one, and what is on the way no longer matters.
Hangup ==
  /\ peer' = "none"
  /\ client' = IF peer = "served" THEN "stale" ELSE client
  /\ backlog' = IF peer = "queued" THEN [i \in DOMAIN backlog |-> "stale"] ELSE backlog
  /\ hello' = FALSE /\ frames' = 0 /\ resps' = 0 /\ skew' = FALSE /\ stray' = 0
  /\ UNCHANGED host

Close(s) == open' = IF s = None THEN open ELSE [open EXCEPT ![s] = "free"]

\* The lowest free number.
Fresh(s) == s \in Numbers /\ open[s] = "free" /\ \A r \in 1 .. s - 1 : open[r] # "free"
NoSocket == \A s \in Numbers : open[s] # "free"

-----------------------------------------------------------------------------
(* wlan.c: up to the access point                                           *)

\* netStartWlanConnection
EnterSession ==
  /\ At("menu")
  /\ Goto("init")
  /\ comRunning' = TRUE /\ netIpChanged' = FALSE
  /\ UNCHANGED <<netConnected, update, flagged, addr, nameVars, sockVars, dogVars, apVars,
                 connVars, wireVars>>

NetInit ==
  /\ At("init")
  /\ netConnected' = FALSE /\ netSocket' = None
  /\ dog' = "wait" /\ dogRunning' = TRUE /\ sema' = FALSE
  /\ Goto("dialog")
  /\ UNCHANGED <<comRunning, netIpChanged, update, flagged, addr, nameVars, open, temp,
                 alarm,
                 apVars, connVars, wireVars>>

\* One of the modules does not start, or the user cancels the dialog.
GiveUp ==
  /\ \/ At("init") /\ netConnected' = FALSE /\ netSocket' = None
     \/ At("dialog") /\ ~ap /\ UNCHANGED <<netConnected, netSocket>>
  /\ comRunning' = FALSE
  /\ mpc' = "term" /\ loop' = FALSE /\ UNCHANGED tries
  /\ UNCHANGED <<netIpChanged, update, flagged, addr, nameVars, open, temp, dogVars, apVars,
                 connVars, wireVars>>

\* netDialog: the firmware connects to an access point.
ConnectAp ==
  /\ At("dialog")
  /\ ap' = TRUE
  /\ Goto("server")
  /\ UNCHANGED <<flagVars, addr, nameVars, sockVars, dogVars, callback, connVars, wireVars>>

-----------------------------------------------------------------------------
(* netConnectToServerLoop                                                   *)

\* netSetNewServerIp, of a name only with a resolver, see Resolve.
SetServerIp ==
  IF addr \in Literal THEN ip' = addr /\ resolved' = TRUE
                      ELSE resolved' = FALSE /\ UNCHANGED ip

ServerLoop ==
  /\ At("server")
  /\ SetServerIp
  /\ Goto("round")
  /\ UNCHANGED <<flagVars, addr, sockVars, dogVars, apVars, connVars, wireVars>>

\* Mutant: a changed address is not looked up again.
OnceResolved == ~resolved

MustResolve == ~resolved \/ netIpChanged

Round ==
  /\ At("round") /\ comRunning
  /\ netIpChanged' = FALSE
  /\ IF MustResolve
     THEN /\ SetServerIp
          /\ Goto(IF addr \in Literal THEN "wake" ELSE "resolve")
          /\ alarm' = (addr \notin Literal)
     ELSE Goto("wake") /\ UNCHANGED <<nameVars, alarm>>
  /\ UNCHANGED <<comRunning, netConnected, update, flagged, addr, sockVars,
                 dog, dogRunning, sema, apVars, connVars, wireVars>>

\* Quit was chosen: no socket, and no password can be sent.
RoundEnds ==
  /\ At("round") /\ ~comRunning
  /\ Goto("again")
  /\ UNCHANGED <<flagVars, addr, nameVars, sockVars, dogVars, apVars, connVars, wireVars>>

\* A name that does not resolve leaves l_ip as it was, and it is used.
Resolve ==
  /\ At("resolve")
  /\ \/ ap /\ addr = "name" /\ ip' = "host" /\ resolved' = TRUE
     \/ UNCHANGED nameVars
  /\ alarm' = FALSE
  /\ Goto("wake")
  /\ UNCHANGED <<flagVars, addr, sockVars, dog, dogRunning, sema, apVars, connVars,
                 wireVars>>

\* netSendWakeOnLanPacket, if configured and possible, has a socket of its own.
Wake ==
  /\ At("wake")
  /\ \/ mpc' = "socket" /\ UNCHANGED open
     \/ \E s \in Numbers : Fresh(s) /\ open' = [open EXCEPT ![s] = "wol"] /\ mpc' = "waking"
  /\ UNCHANGED <<loop, tries>>
  /\ UNCHANGED <<flagVars, addr, nameVars, netSocket, temp, dogVars, apVars, connVars,
                 wireVars>>

\* The packet is sent; a socket that cannot be connected stays open.
Woken ==
  /\ At("waking")
  /\ \E use \in {"free", "lost"} :
       open' = [s \in Numbers |-> IF open[s] = "wol" THEN use ELSE open[s]]
  /\ Goto("socket")
  /\ UNCHANGED <<flagVars, addr, nameVars, netSocket, temp, dogVars, apVars, connVars,
                 wireVars>>

-----------------------------------------------------------------------------
(* netConnect                                                               *)

\* A new socket for every attempt; the alarm is to close it after 100 ms.
NewSocket ==
  /\ At("socket")
  /\ \E s \in Numbers : Fresh(s) /\ temp' = s /\ open' = [open EXCEPT ![s] = "tcp"]
  /\ alarm' = TRUE
  /\ Goto("connect")
  /\ UNCHANGED <<flagVars, addr, nameVars, netSocket, dog, dogRunning, sema, apVars,
                 connVars, wireVars>>

\* NET_CONNECT_ERROR_FATAL: a message, and the app ends.
OutOfSockets ==
  /\ At("socket") /\ NoSocket
  /\ temp' = None
  /\ Goto("exited")
  /\ UNCHANGED <<flagVars, addr, nameVars, open, netSocket, dogVars, apVars, connVars,
                 wireVars>>

\* Mutant: the alarm of the attempt is not cancelled.
Uncancelled == alarm' = alarm

CancelAlarm == alarm' = FALSE

ConnectOk ==
  /\ At("connect") /\ open[temp] = "tcp"
  /\ ap /\ ip = "host" /\ host # "off" /\ Len(backlog) < Backlog
  /\ CancelAlarm
  /\ netSocket' = temp
  /\ tries' = 0 /\ mpc' = "password" /\ UNCHANGED loop
  /\ peer' = "queued" /\ backlog' = Append(backlog, "live") /\ UNCHANGED <<host, client>>
  /\ UNCHANGED <<flagVars, addr, nameVars, open, temp, dog, dogRunning, sema, apVars,
                 wireVars>>

\* Refused, no route, or the watchdog closed the socket.  Nobody closes the
\* others; only the last is closed after the last attempt.
ConnectFails ==
  /\ At("connect")
  /\ open[temp] # "tcp" \/ ~ap \/ (ip = "host" /\ host = "off")
  /\ CancelAlarm
  /\ UNCHANGED loop
  /\ IF tries + 1 < Attempts
     THEN tries' = tries + 1 /\ mpc' = "socket" /\ UNCHANGED <<open, resolved>>
     ELSE /\ tries' = 0 /\ Close(temp)
          /\ IF ap THEN mpc' = "round" /\ UNCHANGED resolved
                   ELSE mpc' = "again" /\ resolved' = FALSE
  /\ UNCHANGED <<flagVars, addr, ip, netSocket, temp, dog, dogRunning, sema, apVars,
                 connVars, wireVars>>

-----------------------------------------------------------------------------
(* The session: the password, comLoop, netDisconnect                        *)

Sends == open[netSocket] = "tcp" /\ peer # "gone"

\* g_netConnected and g_comRunning are set whatever happened meanwhile.
Password ==
  /\ At("password")
  /\ hello' = Sends
  /\ netConnected' = TRUE /\ comRunning' = TRUE
  /\ Goto("loop")
  /\ UNCHANGED <<netIpChanged, update, flagged, addr, nameVars, sockVars, dogVars, apVars,
                 connVars, frames, resps, skew, stray>>

\* The loop's test and readData's test of g_netConnected, then sceNetInetRecv.
Listen ==
  /\ At("loop")
  /\ IF comRunning /\ netConnected THEN Goto("recv") /\ alarm' = TRUE
                                   ELSE Goto("leave") /\ UNCHANGED alarm
  /\ UNCHANGED <<flagVars, addr, nameVars, sockVars, dog, dogRunning, sema, apVars,
                 connVars, wireVars>>

\* readFrameInformation and readFrame, then CHECK_WLAN_RESULT.
Recv ==
  /\ At("recv") /\ open[netSocket] = "tcp" /\ frames > 0
  /\ frames' = frames - 1
  /\ CancelAlarm
  /\ Goto(IF netConnected THEN "respond" ELSE "leave")
  /\ UNCHANGED <<flagVars, addr, nameVars, sockVars, dog, dogRunning, sema, apVars,
                 connVars, hello, resps, skew, stray>>

\* Closed, cut off, or a second without data: CHECK_WLAN_RESULT leaves comLoop.
RecvFails ==
  /\ At("recv")
  /\ open[netSocket] # "tcp" \/ peer = "gone" \/ ~ap \/ frames = 0
  /\ netConnected' = FALSE
  /\ CancelAlarm
  /\ Goto("leave")
  /\ UNCHANGED <<comRunning, netIpChanged, update, flagged, addr, nameVars, sockVars,
                 dog, dogRunning, sema, apVars, connVars, wireVars>>

\* sendResponse reads g_comUpdateSettings for the flags ...
Respond ==
  /\ At("respond")
  /\ flagged' = update
  /\ Goto("send")
  /\ UNCHANGED <<comRunning, netConnected, netIpChanged, update, addr, nameVars, sockVars,
                 dogVars, apVars, connVars, wireVars>>

\* ... and again for the size: a setting changed in between is sent unannounced.
Send ==
  /\ At("send") /\ netConnected /\ Sends
  /\ resps' = resps + 1
  /\ IF update # flagged THEN skew' = TRUE /\ stray' = Ahead ELSE UNCHANGED <<skew, stray>>
  /\ update' = FALSE /\ flagged' = FALSE
  /\ Goto("loop")
  /\ UNCHANGED <<comRunning, netConnected, netIpChanged, addr, nameVars, sockVars,
                 dogVars, apVars, connVars, hello, frames>>

SendFails ==
  /\ At("send") /\ (~netConnected \/ ~Sends \/ ~ap)
  /\ netConnected' = FALSE /\ flagged' = FALSE
  /\ Goto("leave")
  /\ UNCHANGED <<comRunning, netIpChanged, update, addr, nameVars, sockVars, dogVars,
                 apVars, connVars, wireVars>>

ForgetSocket == netSocket' = None

\* netDisconnect
Leave ==
  /\ At("leave")
  /\ Close(netSocket) /\ ForgetSocket /\ netConnected' = FALSE
  /\ Hangup
  /\ Goto("again")
  /\ UNCHANGED <<comRunning, netIpChanged, update, flagged, addr, nameVars, temp, dogVars,
                 apVars>>

-----------------------------------------------------------------------------
(* netStartWlanConnection: once more, or netTerm                            *)

Again ==
  /\ At("again")
  /\ loop' = comRunning
  /\ mpc' = IF comRunning /\ ap THEN "server" ELSE "term"
  /\ UNCHANGED tries
  /\ UNCHANGED <<flagVars, addr, nameVars, sockVars, dogVars, apVars, connVars, wireVars>>

\* Mutant: the watchdog is waited for without a signal.
WaitUnsignalled == sema' = sema

SignalDog == sema' = (dog # "off")

TermBegin ==
  /\ At("term")
  /\ netConnected' = FALSE /\ netSocket' = None
  /\ dogRunning' = FALSE /\ SignalDog
  /\ Goto("ending")
  /\ UNCHANGED <<comRunning, netIpChanged, update, flagged, addr, nameVars, open, temp,
                 dog, alarm, apVars, connVars, wireVars>>

\* The watchdog has ended; the network and what it has open goes down.
TermEnd ==
  /\ At("ending") /\ dog # "wait"
  /\ dog' = "off" /\ sema' = FALSE
  /\ ap' = FALSE /\ callback' = FALSE
  /\ open' = [s \in Numbers |-> "free"]
  /\ Hangup
  /\ mpc' = IF loop THEN "init" ELSE "menu"
  /\ loop' = FALSE /\ UNCHANGED tries
  /\ UNCHANGED <<flagVars, addr, nameVars, netSocket, temp, dogRunning, alarm>>

Main ==
  \/ EnterSession \/ NetInit \/ GiveUp \/ ConnectAp
  \/ ServerLoop \/ Round \/ RoundEnds \/ Resolve \/ Wake \/ Woken
  \/ NewSocket \/ OutOfSockets \/ ConnectOk \/ ConnectFails
  \/ Password \/ Listen \/ Recv \/ RecvFails
  \/ Respond \/ Send \/ SendFails \/ Leave
  \/ Again \/ TermBegin \/ TermEnd

-----------------------------------------------------------------------------
(* The alarm, the watchdog and the network's callback                       *)

AlarmFires ==
  /\ alarm
  /\ alarm' = FALSE /\ sema' = TRUE
  /\ UNCHANGED <<mainVars, flagVars, addr, nameVars, sockVars, dog, dogRunning, apVars,
                 connVars, wireVars>>

\* Aborts the session's socket, closes that of the last connection attempt.
Watchdog ==
  /\ Preempted
  /\ Close(temp) /\ Hangup
  /\ netConnected' = FALSE
  /\ sema' = FALSE /\ dog' = IF dogRunning THEN "wait" ELSE "ended"
  /\ UNCHANGED <<mainVars, comRunning, netIpChanged, update, flagged, addr, nameVars,
                 netSocket, temp,
                 dogRunning, alarm, apVars>>

ApLost ==
  /\ ap
  /\ ap' = FALSE /\ callback' = TRUE
  /\ UNCHANGED <<mainVars, flagVars, addr, nameVars, sockVars, dogVars, connVars, wireVars>>

\* net_callback
Callback ==
  /\ callback /\ ~Preempted
  /\ netConnected' = FALSE
  /\ Close(netSocket) /\ Hangup /\ callback' = FALSE
  /\ UNCHANGED <<mainVars, comRunning, netIpChanged, update, flagged, addr, nameVars,
                 netSocket, temp,
                 dogVars, ap>>

-----------------------------------------------------------------------------
(* The user, in the menu's thread                                           *)

MenuOpen == mpc \notin {"menu", "exited"}

\* Bound: away from servers that cannot answer, while the PSP still asks them.
ChangeServer ==
  /\ MenuOpen /\ mpc \in {"server", "round", "resolve", "wake", "waking", "socket",
                          "connect"}
  /\ addr \in {"dark", "nobody"}
  /\ addr' \in Addresses \ {addr} /\ netIpChanged' = TRUE
  /\ UNCHANGED <<mainVars, comRunning, netConnected, update, flagged, nameVars, sockVars,
                 dogVars, apVars, connVars, wireVars>>

\* Bound: only around the composition of a response, once shifted by that no more.
ChangeSetting ==
  /\ MenuOpen /\ mpc \in {"respond", "send"} /\ ~skew
  /\ update' = TRUE
  /\ UNCHANGED <<mainVars, comRunning, netConnected, netIpChanged, flagged, addr, nameVars,
                 sockVars, dogVars, apVars, connVars, wireVars>>

\* A second Quit, while the first waits, only adds behaviours.
QuitWlan ==
  /\ MenuOpen
  /\ comRunning' = FALSE
  /\ UNCHANGED <<mainVars, netConnected, netIpChanged, update, flagged, addr, nameVars,
                 sockVars,
                 dogVars, apVars, connVars, wireVars>>

-----------------------------------------------------------------------------
(* transport_tcp.c and the pump's side of the exchange                      *)

pspVars == <<mainVars, flagVars, addr, nameVars, sockVars, dogVars, apVars>>

HostStart ==
  /\ host = "off"
  /\ host' = "accept"
  /\ UNCHANGED <<pspVars, peer, client, backlog, wireVars>>

\* The process ends: the system closes its sockets.
HostQuit ==
  /\ host # "off"
  /\ host' = "off" /\ client' = "none" /\ backlog' = <<>>
  /\ peer' = IF peer = "none" THEN "none" ELSE "gone"
  /\ UNCHANGED <<pspVars, wireVars>>

\* t_open
Accept ==
  /\ host = "accept" /\ backlog # <<>>
  /\ host' = "auth" /\ client' = Head(backlog) /\ backlog' = Tail(backlog)
  /\ peer' = IF Head(backlog) = "live" THEN "served" ELSE peer
  /\ UNCHANGED <<pspVars, wireVars>>

\* The right password; a connection the PSP has left may hold one too.
Authenticate ==
  /\ host = "auth" /\ (client = "stale" \/ hello)
  /\ host' = "pump"
  /\ UNCHANGED <<pspVars, peer, client, backlog, wireVars>>

\* The PSP is gone, its password is wrong, or its response takes over a second:
\* t_close, and accept again.  The password itself never takes three.
Drop ==
  /\ \/ host \in {"auth", "pump", "await"} /\ (client = "stale" \/ ~ap)
     \/ host = "auth" /\ hello
     \/ host = "await"
  /\ host' = "accept" /\ client' = "none"
  /\ peer' = IF client = "live" THEN "gone" ELSE peer
  /\ UNCHANGED <<pspVars, backlog, wireVars>>

PumpFrame ==
  /\ host = "pump"
  /\ host' = "await"
  /\ frames' = IF client = "live" THEN frames + 1 ELSE frames
  /\ UNCHANGED <<pspVars, peer, client, backlog, hello, resps, skew, stray>>

\* read_response; once shifted, stray bytes are taken for responses too, or for
\* flags that announce settings, for which it waits in vain, see Drop.
ReadResponse ==
  /\ host = "await" /\ client = "live"
  /\ \/ resps > 0 /\ resps' = resps - 1 /\ UNCHANGED stray
     \/ stray > 0 /\ stray' = stray - 1 /\ UNCHANGED resps
  /\ host' = "pump"
  /\ UNCHANGED <<pspVars, peer, client, backlog, hello, frames, skew>>

Host == Accept \/ Authenticate \/ Drop \/ PumpFrame \/ ReadResponse

WlanNext ==
  \/ EnterSession \/ NetInit \/ GiveUp \/ ConnectAp
  \/ ServerLoop \/ Round \/ RoundEnds \/ Resolve \/ Wake \/ Woken
  \/ NewSocket \/ OutOfSockets \/ ConnectOk \/ ConnectFails
  \/ Password \/ Listen \/ Recv \/ RecvFails
  \/ Respond \/ Send \/ SendFails \/ Leave
  \/ Again \/ TermBegin \/ TermEnd
  \/ AlarmFires \/ Watchdog \/ ApLost \/ Callback
  \/ ChangeServer \/ ChangeSetting \/ QuitWlan
  \/ HostStart \/ HostQuit \/ Accept \/ Authenticate \/ Drop \/ PumpFrame \/ ReadResponse

WlanSpec == WlanInit /\ [][WlanNext]_wlanVars

\* The threads and the host run, and calls end or time out.  Strong fairness for
\* what may fail again and again: sometime the network and the password do.
WlanFairSpec ==
  /\ WlanSpec
  /\ WF_wlanVars(Main) /\ WF_wlanVars(Host) /\ WF_wlanVars(AlarmFires)
  /\ WF_wlanVars(Watchdog) /\ WF_wlanVars(Callback)
  /\ SF_wlanVars(Resolve /\ resolved') /\ SF_wlanVars(ConnectOk) /\ SF_wlanVars(Authenticate)

-----------------------------------------------------------------------------
WlanTypeOK ==
  /\ mpc \in {"menu", "init", "dialog", "server", "round", "resolve", "wake", "waking",
              "socket",
              "connect", "exited", "password", "loop", "recv", "respond", "send", "leave", "again", "term", "ending"}
  /\ loop \in BOOLEAN /\ tries \in 0 .. Attempts
  /\ {comRunning, netConnected, netIpChanged, update, flagged, resolved} \subseteq BOOLEAN
  /\ addr \in Addresses /\ ip \in Literal \cup {"none"}
  /\ open \in [Numbers -> {"free", "tcp", "wol", "lost"}]
  /\ netSocket \in {None, temp} /\ temp \in Numbers \cup {None}
  /\ dog \in {"off", "wait", "ended"} /\ {dogRunning, sema, alarm, ap, callback, skew,
              hello} \subseteq BOOLEAN
  /\ peer \in {"none", "queued", "served", "gone"}
  /\ host \in {"off", "accept", "auth", "pump", "await"} /\ client \in {"none", "live",
               "stale"}
  /\ backlog \in Seq({"live", "stale"}) /\ Len(backlog) <= Backlog
  /\ frames \in 0 .. 1 + Ahead /\ resps \in 0 .. 1 + Ahead /\ stray \in 0 .. Ahead

\* The watchdog and the callback only ever close the session's socket or the
\* one being connected: a number that was closed and given out again for the
\* wake-up packet is not closed under its new owner's hands.
ClosesOwn ==
  [][\A s \in Numbers :
       open[s] # "free" /\ open'[s] = "free" /\ mpc' = mpc
         => open[s] = "tcp" /\ mpc # "waking"]_wlanVars

\* Host, network and settings are in order.
InOrder == ap /\ host # "off" /\ addr \in {"host", "name"} /\ comRunning

\* The step is a timeout of a connection on which both ends still are.
Late ==
  \/ mpc = "recv" /\ mpc' = "leave" /\ open[netSocket] = "tcp" /\ peer # "gone"
  \/ mpc = "recv" /\ alarm /\ sema'
  \/ host = "await" /\ host' = "accept" /\ client = "live"

\* Once everything stays in order and nobody is late any more, frames are
\* exchanged for ever, however the last connection ended, unless the sockets
\* have run out.
Reconnects ==
  <>[]InOrder /\ <>[][~Late]_wlanVars => []<><<Send>>_wlanVars \/ <>(mpc = "exited")

\* A Quit that stays chosen ends the mode, whatever the main thread waits for.
WlanQuitEnds == <>[]~comRunning => <>[](mpc \in {"menu", "exited"})
=============================================================================
