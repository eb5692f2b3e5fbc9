-------------------------- MODULE FrameLoopProofs --------------------------
(***************************************************************************)
(* What holds of the full app's frame loop for every set of chords: types, *)
(* clean ends of sessions, settings that stay due and masked buttons.      *)
(***************************************************************************)
EXTENDS FrameLoop, TLAPS

\* The menu thread and the session it belongs to begin and end together, and the
\* menu thread marks its menu.
Sessions ==
  /\ mpc = "menu" => npc = "dormant" /\ onExit = {}
  /\ mpc \in {"menu", "join"} => ~menuRunning /\ usb = "off"
  /\ menuActive <=> npc \notin {"dormant", "poll"}

\* A setting that waits to be sent is part of the response on its way.
Settings ==
  /\ unsent => update
  /\ mpc = "write" /\ unsent => resp.settings

\* Buttons carried over from the menu are all that is held; the mask is up for
\* them, or the keyboard stands between them and the PC.
Carrying ==
  carried # {} =>
    /\ carried = held /\ ~menuActive
    /\ onExit = held \/ osk
    /\ mpc = "mask" => (sampled = Character /\ osk) \/ (sampled = held /\ onExit = held)

IInv == TypeOK /\ Sessions /\ Settings /\ Carrying
-----------------------------------------------------------------------------
(* Each part of the invariant, step by step. *)

\* Every step keeps the types, and the decoder's job with its thread.
LEMMA TypeStep == TypeOK /\ [Next]_vars => TypeOK'
<1>. SUFFICES ASSUME TypeOK, Next \/ UNCHANGED vars PROVE TypeOK'
  OBVIOUS
<1>. USE ChordsAssumption DEF TypeOK, Pictures, Images, vars, threadVars, flagVars, bufferVars, wireVars, userVars, replyVars
<1>1. CASE EnterSession
  <2>1. menuActive' \in BOOLEAN
    BY <1>1, Zenon DEF EnterSession
  <2>. QED
    BY <2>1, <1>1 DEF EnterSession
<1>2. CASE InitFails
  BY <1>2 DEF InitFails, Show
<1>3. CASE ErrorDismissed
  BY <1>3 DEF ErrorDismissed
<1>4. CASE StartLoop
  BY <1>4 DEF StartLoop, Show
<1>5. CASE Header
  BY <1>5 DEF Header
<1>6. CASE ReadFails
  BY <1>6 DEF ReadFails
<1>7. CASE ReadFrame
  BY <1>7 DEF ReadFrame, StartDecoder
<1>8. CASE Sample
  BY <1>8 DEF Sample, ButtonsNow
<1>9. CASE Compose
  BY <1>9 DEF Compose, Responses, Character
<1>10. CASE Written
  <2>1. force' \in BOOLEAN /\ update' \in BOOLEAN
    BY <1>10, Zenon DEF Written
  <2>. QED
    BY <2>1, <1>10 DEF Written, Sent, Responses, noResponse
<1>11. CASE Vblank
  BY <1>11 DEF Vblank
<1>12. CASE Leave
  <2>1. menuRunning' \in BOOLEAN
    BY <1>12, Zenon DEF Leave
  <2>. QED
    BY <2>1, <1>12 DEF Leave
<1>13. CASE BackToMenu
  BY <1>13 DEF BackToMenu, Show
<1>14. CASE OpenMenu
  BY <1>14 DEF OpenMenu, Show
<1>15. CASE RedrawMenu
  BY <1>15 DEF RedrawMenu, Show
<1>16. CASE ChangeSetting
  BY <1>16 DEF ChangeSetting
<1>17. CASE ResumeMenu
  BY <1>17 DEF ResumeMenu, Show
<1>18. CASE CloseMenu
  <2>1. menuActive' \in BOOLEAN
    BY <1>18, Zenon DEF CloseMenu
  <2>. QED
    BY <2>1, <1>18 DEF CloseMenu
<1>19. CASE QuitMenu
  <2>1. comRunning' \in BOOLEAN
    BY <1>19, Zenon DEF QuitMenu
  <2>. QED
    BY <2>1, <1>19 DEF QuitMenu, Show
<1>20. CASE ForceDown
  BY <1>20 DEF ForceDown
<1>21. CASE MenuEnds
  <2>1. menuActive' \in BOOLEAN
    BY <1>21, Zenon DEF MenuEnds
  <2>. QED
    BY <2>1, <1>21 DEF MenuEnds
<1>22. CASE Decode
  BY <1>22 DEF Decode
<1>23. CASE Finish
  BY <1>23 DEF Finish, Swap
<1>24. CASE KeyboardDrawn
  BY <1>24 DEF KeyboardDrawn, Swap
<1>25. CASE HostSends
  BY <1>25 DEF HostSends
<1>26. CASE HostGone
  BY <1>26 DEF HostGone
<1>27. CASE LinkDrop
  BY <1>27 DEF LinkDrop
<1>28. CASE LinkUp
  BY <1>28 DEF LinkUp
<1>29. CASE Press
  BY <1>29 DEF Press
<1>30. CASE UNCHANGED vars
  BY <1>30
<1>. QED
    BY <1>1, <1>2, <1>3, <1>4, <1>5, <1>6, <1>7, <1>8, <1>9, <1>10, <1>11, <1>12, <1>13,
     <1>14, <1>15, <1>16, <1>17, <1>18, <1>19, <1>20, <1>21, <1>22, <1>23, <1>24, <1>25,
     <1>26, <1>27, <1>28, <1>29, <1>30 DEF Next

\* Every step keeps the menu thread inside its session.
LEMMA SessionsStep == TypeOK /\ Sessions /\ [Next]_vars => Sessions'
<1>. SUFFICES ASSUME TypeOK, Sessions, Next \/ UNCHANGED vars PROVE Sessions'
  OBVIOUS
<1>. USE DEF TypeOK, Sessions, vars, threadVars, flagVars, bufferVars, wireVars, userVars, replyVars
<1>1. CASE EnterSession
  BY <1>1 DEF EnterSession
<1>2. CASE InitFails
  BY <1>2 DEF InitFails, Show
<1>3. CASE ErrorDismissed
  BY <1>3 DEF ErrorDismissed
<1>4. CASE StartLoop
  BY <1>4 DEF StartLoop, Show
<1>5. CASE Header
  BY <1>5 DEF Header
<1>6. CASE ReadFails
  BY <1>6 DEF ReadFails
<1>7. CASE ReadFrame
  BY <1>7 DEF ReadFrame, StartDecoder
<1>8. CASE Sample
  BY <1>8 DEF Sample, ButtonsNow
<1>9. CASE Compose
  BY <1>9 DEF Compose
<1>10. CASE Written
  BY <1>10 DEF Written, Sent
<1>11. CASE Vblank
  BY <1>11 DEF Vblank
<1>12. CASE Leave
  BY <1>12 DEF Leave
<1>13. CASE BackToMenu
  BY <1>13 DEF BackToMenu, Show
<1>14. CASE OpenMenu
  BY <1>14 DEF OpenMenu, Show
<1>15. CASE RedrawMenu
  BY <1>15 DEF RedrawMenu, Show
<1>16. CASE ChangeSetting
  BY <1>16 DEF ChangeSetting
<1>17. CASE ResumeMenu
  BY <1>17 DEF ResumeMenu, Show
<1>18. CASE CloseMenu
  BY <1>18 DEF CloseMenu
<1>19. CASE QuitMenu
  BY <1>19 DEF QuitMenu, Show
<1>20. CASE ForceDown
  BY <1>20 DEF ForceDown
<1>21. CASE MenuEnds
  BY <1>21 DEF MenuEnds
<1>22. CASE Decode
  BY <1>22 DEF Decode
<1>23. CASE Finish
  BY <1>23 DEF Finish, Swap
<1>24. CASE KeyboardDrawn
  BY <1>24 DEF KeyboardDrawn, Swap
<1>25. CASE HostSends
  BY <1>25 DEF HostSends
<1>26. CASE HostGone
  BY <1>26 DEF HostGone
<1>27. CASE LinkDrop
  BY <1>27 DEF LinkDrop
<1>28. CASE LinkUp
  BY <1>28 DEF LinkUp
<1>29. CASE Press
  BY <1>29 DEF Press
<1>30. CASE UNCHANGED vars
  BY <1>30
<1>. QED
    BY <1>1, <1>2, <1>3, <1>4, <1>5, <1>6, <1>7, <1>8, <1>9, <1>10, <1>11, <1>12, <1>13,
     <1>14, <1>15, <1>16, <1>17, <1>18, <1>19, <1>20, <1>21, <1>22, <1>23, <1>24, <1>25,
     <1>26, <1>27, <1>28, <1>29, <1>30 DEF Next

\* Every step keeps unsent settings due.
LEMMA SettingsStep == TypeOK /\ Settings /\ [Next]_vars => Settings'
<1>. SUFFICES ASSUME TypeOK, Settings, Next \/ UNCHANGED vars PROVE Settings'
  OBVIOUS
<1>. USE DEF TypeOK, Settings, Responses, vars, threadVars, flagVars, bufferVars, wireVars, userVars, replyVars
<1>1. CASE EnterSession
  BY <1>1 DEF EnterSession
<1>2. CASE InitFails
  BY <1>2 DEF InitFails, Show
<1>3. CASE ErrorDismissed
  BY <1>3 DEF ErrorDismissed
<1>4. CASE StartLoop
  BY <1>4 DEF StartLoop, Show
<1>5. CASE Header
  BY <1>5 DEF Header
<1>6. CASE ReadFails
  BY <1>6 DEF ReadFails
<1>7. CASE ReadFrame
  BY <1>7 DEF ReadFrame, StartDecoder
<1>8. CASE Sample
  BY <1>8 DEF Sample, ButtonsNow
<1>9. CASE Compose
  BY <1>9 DEF Compose
<1>10. CASE Written
  BY <1>10 DEF Written, Sent
<1>11. CASE Vblank
  BY <1>11 DEF Vblank
<1>12. CASE Leave
  BY <1>12 DEF Leave
<1>13. CASE BackToMenu
  BY <1>13 DEF BackToMenu, Show
<1>14. CASE OpenMenu
  BY <1>14 DEF OpenMenu, Show
<1>15. CASE RedrawMenu
  BY <1>15 DEF RedrawMenu, Show
<1>16. CASE ChangeSetting
  BY <1>16 DEF ChangeSetting
<1>17. CASE ResumeMenu
  BY <1>17 DEF ResumeMenu, Show
<1>18. CASE CloseMenu
  BY <1>18 DEF CloseMenu
<1>19. CASE QuitMenu
  BY <1>19 DEF QuitMenu, Show
<1>20. CASE ForceDown
  BY <1>20 DEF ForceDown
<1>21. CASE MenuEnds
  BY <1>21 DEF MenuEnds
<1>22. CASE Decode
  BY <1>22 DEF Decode
<1>23. CASE Finish
  BY <1>23 DEF Finish, Swap
<1>24. CASE KeyboardDrawn
  BY <1>24 DEF KeyboardDrawn, Swap
<1>25. CASE HostSends
  BY <1>25 DEF HostSends
<1>26. CASE HostGone
  BY <1>26 DEF HostGone
<1>27. CASE LinkDrop
  BY <1>27 DEF LinkDrop
<1>28. CASE LinkUp
  BY <1>28 DEF LinkUp
<1>29. CASE Press
  BY <1>29 DEF Press
<1>30. CASE UNCHANGED vars
  BY <1>30
<1>. QED
    BY <1>1, <1>2, <1>3, <1>4, <1>5, <1>6, <1>7, <1>8, <1>9, <1>10, <1>11, <1>12, <1>13,
     <1>14, <1>15, <1>16, <1>17, <1>18, <1>19, <1>20, <1>21, <1>22, <1>23, <1>24, <1>25,
     <1>26, <1>27, <1>28, <1>29, <1>30 DEF Next

\* Every step keeps carried buttons behind the mask or the keyboard.
LEMMA CarryingStep == TypeOK /\ Sessions /\ Carrying /\ [Next]_vars => Carrying'
<1>. SUFFICES ASSUME TypeOK, Sessions, Carrying, Next \/ UNCHANGED vars PROVE Carrying'
  OBVIOUS
<1>. USE DEF TypeOK, Sessions, Carrying, vars, threadVars, flagVars, bufferVars, wireVars, userVars, replyVars
<1>1. CASE EnterSession
  BY <1>1 DEF EnterSession
<1>2. CASE InitFails
  BY <1>2 DEF InitFails, Show
<1>3. CASE ErrorDismissed
  BY <1>3 DEF ErrorDismissed
<1>4. CASE StartLoop
  BY <1>4 DEF StartLoop, Show
<1>5. CASE Header
  BY <1>5 DEF Header
<1>6. CASE ReadFails
  BY <1>6 DEF ReadFails
<1>7. CASE ReadFrame
  BY <1>7 DEF ReadFrame, StartDecoder
<1>8. CASE Sample
  BY <1>8 DEF Sample, ButtonsNow
<1>9. CASE Compose
  BY <1>9 DEF Compose
<1>10. CASE Written
  BY <1>10 DEF Written, Sent
<1>11. CASE Vblank
  BY <1>11 DEF Vblank
<1>12. CASE Leave
  BY <1>12 DEF Leave
<1>13. CASE BackToMenu
  BY <1>13 DEF BackToMenu, Show
<1>14. CASE OpenMenu
  BY <1>14 DEF OpenMenu, Show
<1>15. CASE RedrawMenu
  BY <1>15 DEF RedrawMenu, Show
<1>16. CASE ChangeSetting
  BY <1>16 DEF ChangeSetting
<1>17. CASE ResumeMenu
  BY <1>17 DEF ResumeMenu, Show
<1>18. CASE CloseMenu
  BY <1>18 DEF CloseMenu
<1>19. CASE QuitMenu
  BY <1>19 DEF QuitMenu, Show
<1>20. CASE ForceDown
  BY <1>20 DEF ForceDown
<1>21. CASE MenuEnds
  BY <1>21 DEF MenuEnds
<1>22. CASE Decode
  BY <1>22 DEF Decode
<1>23. CASE Finish
  BY <1>23 DEF Finish, Swap
<1>24. CASE KeyboardDrawn
  BY <1>24 DEF KeyboardDrawn, Swap
<1>25. CASE HostSends
  BY <1>25 DEF HostSends
<1>26. CASE HostGone
  BY <1>26 DEF HostGone
<1>27. CASE LinkDrop
  BY <1>27 DEF LinkDrop
<1>28. CASE LinkUp
  BY <1>28 DEF LinkUp
<1>29. CASE Press
  BY <1>29 DEF Press
<1>30. CASE UNCHANGED vars
  BY <1>30
<1>. QED
    BY <1>1, <1>2, <1>3, <1>4, <1>5, <1>6, <1>7, <1>8, <1>9, <1>10, <1>11, <1>12, <1>13,
     <1>14, <1>15, <1>16, <1>17, <1>18, <1>19, <1>20, <1>21, <1>22, <1>23, <1>24, <1>25,
     <1>26, <1>27, <1>28, <1>29, <1>30 DEF Next

-----------------------------------------------------------------------------
(* The theorems *)

\* The invariant of the frame loop: types, sessions, settings and carried buttons.
THEOREM LoopInvariant == Spec => []IInv
<1>1. Init => IInv
  <2>. SUFFICES ASSUME Init PROVE IInv
    OBVIOUS
  <2>1. /\ comRunning \in BOOLEAN /\ menuRunning \in BOOLEAN /\ menuActive \in BOOLEAN
        /\ force \in BOOLEAN /\ update \in BOOLEAN /\ osk \in BOOLEAN /\ unsent \in BOOLEAN
    BY Zenon DEF Init
  <2>2. resp \in Responses
    BY ChordsAssumption DEF Init, Responses, noResponse
  <2>3. TypeOK
    BY <2>1, <2>2, ChordsAssumption DEF Init, TypeOK, Pictures, Images
  <2>4. Sessions /\ Settings /\ Carrying
    BY DEF Init, Sessions, Settings, Carrying
  <2>. QED
    BY <2>3, <2>4 DEF IInv
<1>2. IInv /\ [Next]_vars => IInv'
  BY TypeStep, SessionsStep, SettingsStep, CarryingStep DEF IInv
<1>. QED
  BY <1>1, <1>2, PTL DEF Spec

\* Every variable keeps its type, and the decoder works exactly while it has a job.
THEOREM TypeCorrect == Spec => []TypeOK
<1>1. IInv => TypeOK
  BY DEF IInv
<1>. QED
  BY <1>1, LoopInvariant, PTL

\* No session leaves its menu thread, its flags or the driver behind in the main
\* menu (main.c:171-187), however it ended.
THEOREM CleanEnds == Spec => []SessionsClean
<1>1. IInv => SessionsClean
  BY DEF IInv, Sessions, SessionsClean
<1>. QED
  BY <1>1, LoopInvariant, PTL

\* A changed setting stays due until a response with it is through (com.c:283-289).
THEOREM StaysDue == Spec => []SettingsStayDue
<1>1. IInv => SettingsStayDue
  BY DEF IInv, Settings, SettingsStayDue
<1>. QED
  BY <1>1, LoopInvariant, PTL

\* What is still held from the menu does not reach the PC (com.c:255-261), but for
\* the order of steps that CloseMenu names.
THEOREM CarriedStaysLocal == Spec => HeldMasked
<1>1. IInv /\ Compose => resp'.keys \cap carried = {}
  <2>. SUFFICES ASSUME IInv, Compose, sampled # onExit PROVE resp'.keys \cap carried = {}
    BY DEF Compose
  <2>1. resp'.keys = sampled
    BY DEF Compose
  <2>2. carried = {} \/ sampled = Character
    BY DEF IInv, Carrying, Compose
  <2>3. Character \cap carried = {}
    BY ChordsAssumption DEF IInv, TypeOK, Character
  <2>. QED
    BY <2>1, <2>2, <2>3
<1>2. ASSUME Next, mpc = "mask", mpc' = "write"
      PROVE  Compose
  BY <1>2 DEF Next, EnterSession, InitFails, ErrorDismissed, StartLoop, Header, ReadFails,
     ReadFrame, Sample, Written, Vblank, Leave, BackToMenu, OpenMenu, RedrawMenu,
     ChangeSetting, ResumeMenu, CloseMenu, QuitMenu, ForceDown, MenuEnds, Decode, Finish,
     KeyboardDrawn, HostSends, HostGone, LinkDrop, LinkUp, Press, threadVars
<1>3. IInv /\ [Next]_vars
        => [mpc = "mask" /\ mpc' = "write" => resp'.keys \cap carried = {}]_vars
  BY <1>1, <1>2
<1>. QED
  BY <1>3, LoopInvariant, PTL DEF Spec, HeldMasked
=============================================================================
