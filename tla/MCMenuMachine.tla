--------------------------- MODULE MCMenuMachine ---------------------------
(* A small instance of MenuMachine: one or two buttons held at a time, and one of *)
(* two users, each with a setting that changes, the others at their defaults.  One *)
(* user chooses the server's address, the other how long the autostart waits: he   *)
(* steps it, types it, and a file cut short may hold a part of it.                 *)
EXTENDS MenuMachine

VARIABLE user

MCPads ==
  {{}, {"rtrigger"}, {"down"}, {"right"}, {"left"}, {"triangle"}, {"cross"}, {"home"},
   {"circle", "home"}}
MCTyped == {-1, 3, 99}
MCStrings == {"", "192.168.0.1", "00:00:00:00:00:00", "word"}

TimeoutPads ==
  {{}, {"rtrigger"}, {"down"}, {"right"}, {"left"}, {"triangle"}, {"cross"}, {"circle"}}

Timeout == INSTANCE MenuMachine WITH Followed <- {"autoTimeout"}, Pads <- TimeoutPads

MCInit == (user = "address" /\ Init) \/ (user = "timeout" /\ Timeout!Init)
MCNext ==
  \/ user = "address" /\ Next /\ UNCHANGED user
  \/ user = "timeout" /\ Timeout!Next /\ UNCHANGED user

MCSpec == MCInit /\ [][MCNext]_<<vars, user>>
=============================================================================
