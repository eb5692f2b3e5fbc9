------------------------------ MODULE Exchange ------------------------------
(***************************************************************************)
(* What the frame pump promises, without screens, hashes, timers or menus: *)
(* requests and answers strictly alternate, and a picture that is owed to  *)
(* the PSP -- because its last answer asked for one, or because the        *)
(* session is new -- is in the very next request.  The one excuse is that  *)
(* this very picture is too large for the PSP.                             *)
(***************************************************************************)
VARIABLES
  phase,    \* "broken", "idle", "asked" or "answered"
  owed,     \* the next request must carry a picture
  full,     \* the request under way carries one
  tooLarge  \* input: the picture there is to send with this request will not fit

exchangeVars == <<phase, owed, full>>

Init == phase = "broken" /\ owed = TRUE /\ full = FALSE

Establish == /\ phase = "broken" /\ phase' = "idle"
             /\ UNCHANGED <<owed, full>>

Ask == /\ phase = "idle" /\ phase' = "asked"
       /\ full' \in BOOLEAN
       /\ owed => full' \/ tooLarge'
       /\ owed' = FALSE

Answer == /\ phase = "asked" /\ phase' = "answered"
          /\ owed' \in BOOLEAN
          /\ UNCHANGED full

Take == /\ phase = "answered" /\ phase' = "idle"
        /\ full' = FALSE
        /\ UNCHANGED owed

Break == /\ phase' = "broken" /\ owed' = TRUE /\ full' = FALSE

Next == Establish \/ Ask \/ Answer \/ Take \/ Break

Spec == Init /\ [][Next]_exchangeVars

=============================================================================
