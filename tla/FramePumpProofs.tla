--------------------------- MODULE FramePumpProofs ---------------------------
(* Theorems about FramePump, for every value of its constants.              *)
EXTENDS FramePump, TLAPS

\* What pump() builds is a frame whose header tells the payload's length and
\* whose payload fits l_recv, with a picture or without.
LEMMA EncodeFits ==
  ASSUME screen \in Versions, NEW withImage \in BOOLEAN, NEW audio \in BOOLEAN
  PROVE  /\ Encode(withImage, audio) \in Frames
         /\ PayloadSize(Encode(withImage, audio)) = Encode(withImage, audio).bytes
         /\ Encode(withImage, audio).bytes <= BufferSize
<1>1. JpegSize[screen] \in Nat
  BY ConstantAssumption
<1>2. Encode(withImage, audio) \in Frames
  BY <1>1, SMT DEF Encode, Frames, ChunkBytes, BufferSize
<1>3. /\ PayloadSize(Encode(withImage, audio)) = Encode(withImage, audio).bytes
      /\ Encode(withImage, audio).bytes <= BufferSize
  BY <1>1, SMT DEF Encode, PayloadSize, ChunkBytes, BufferSize
<1>4. QED
  BY <1>2, <1>3

\* The values both programs start from.
LEMMA Blank == NoFrame \in Frames /\ [img |-> None, overlay |-> FALSE] \in Displays
BY SMT DEF NoFrame, Frames, Displays

\* One pass over the PSP's buttons leaves the menu in one of its states.
LEMMA InputTyped ==
  ASSUME TypeOK, NEW keys \in SUBSET Keys, NEW quick \in BOOLEAN,
         HandleInput(keys, keys \ prevKeys, quick)
  PROVE  /\ menu' \in BOOLEAN /\ sel' \in 0 .. 1
         /\ prevKeys' \in SUBSET Keys /\ homeArmed' \in BOOLEAN
<1>1. menu' \in BOOLEAN /\ homeArmed' \in BOOLEAN
  BY Zenon DEF HandleInput, TypeOK
<1>2. prevKeys' \in SUBSET Keys
  BY DEF HandleInput
<1>3. \A open, pressed : Cursor(open, pressed) \in 0 .. 1
  BY SMT DEF Cursor, TypeOK
<1>4. sel' \in 0 .. 1
  BY <1>3 DEF HandleInput
<1>5. QED
  BY <1>1, <1>2, <1>4

\* The type invariant of the pump and of the app's loop, every action of both.
THEOREM TypeCorrect == Spec => []TypeOK
<1>1. Init => TypeOK
  <2> SUFFICES ASSUME Init PROVE TypeOK
    OBVIOUS
  <2>1. screen \in Versions /\ <<>> \in Seq(Frames) /\ <<>> \in Seq(Responses)
    BY ConstantAssumption DEF Init, Versions
  <2>2. lastHash \in Nat \cup {None} /\ idle \in Nat /\ sel \in 0 .. 1
    BY DEF Init
  <2>3. /\ forceNext \in BOOLEAN /\ first \in BOOLEAN /\ connected \in BOOLEAN
        /\ menu \in BOOLEAN /\ homeArmed \in BOOLEAN
    BY DEF Init
  <2>4. QED
    BY <2>1, <2>2, <2>3, Blank DEF Init, TypeOK
<1>2. TypeOK /\ [Next]_vars => TypeOK'
  <2> SUFFICES ASSUME TypeOK, [Next]_vars PROVE TypeOK'
    OBVIOUS
  <2> USE DEF TypeOK
  <2>1. CASE HostOpen
    BY <2>1 DEF HostOpen, wireVars, pspVars, inputVars, None
  <2>2. CASE HostGrab
    <3>1. SendImage \in BOOLEAN
      BY DEF SendImage
    <3>2. PICK audio \in BOOLEAN : out' = Encode(SendImage, audio)
      BY <2>2, ConstantAssumption DEF HostGrab
    <3>3. out' \in Frames
      BY <3>1, <3>2, EncodeFits
    <3>4. Hash[screen] \in Nat
      BY ConstantAssumption
    <3>5. forceNext' \in BOOLEAN
      BY <2>2, Zenon DEF HostGrab, ForceAfterEncode
    <3>6. QED
      BY <2>2, <3>1, <3>3, <3>4, <3>5 DEF HostGrab, wireVars, pspVars, inputVars
  <2>3. CASE GrabFails
    <3>1. forceNext' \in BOOLEAN
      BY <2>3, Zenon DEF GrabFails, ForceAfterEncode
    <3>2. UNCHANGED <<screen, wireVars, lastHash, idle, out, pad, pspVars>> /\ hpc' = "closed"
      BY <2>3 DEF GrabFails
    <3>3. QED
      BY <3>1, <3>2 DEF wireVars, pspVars, inputVars
  <2>4. CASE HostSend
    BY <2>4 DEF HostSend, pspVars, inputVars
  <2>5. CASE HostReceive
    <3>1. Head(toHost) \in Responses /\ Tail(toHost) \in Seq(Responses)
      BY <2>5 DEF HostReceive
    <3>2. QED
      BY <2>5, <3>1 DEF HostReceive, pspVars, inputVars, Responses
  <2>6. CASE HostLost
    BY <2>6 DEF HostLost, wireVars, pspVars, inputVars
  <2>7. CASE PressCross
    BY <2>7, Blank DEF PressCross, wireVars, hostVars, inputVars
  <2>8. CASE ConnectTimeout
    BY <2>8 DEF ConnectTimeout, wireVars, hostVars, inputVars
  <2>9. CASE PspHeader
    BY <2>9 DEF PspHeader, wireVars, hostVars, inputVars
  <2>10. CASE PspPayload
    <3>1. toPsp # <<>> => Head(toPsp) \in Frames /\ Tail(toPsp) \in Seq(Frames)
      OBVIOUS
    <3>2. toPsp' \in Seq(Frames) /\ recv' \in Frames /\ display' \in Displays
      BY <2>10, <3>1, Blank DEF PspPayload
    <3>3. QED
      BY <2>10, <3>2 DEF PspPayload, hostVars, inputVars
  <2>11. CASE PspRespond
    <3>1. PICK keys \in Chords, quick \in BOOLEAN :
            LET pressed == keys \ prevKeys
            IN  /\ HandleInput(keys, pressed, quick)
                /\ IF link = "up"
                   THEN /\ toHost' = Append(toHost, Response(menu', keys))
                        /\ ppc' = "draw" /\ UNCHANGED display
                   ELSE /\ ppc' = "prompt"
                        /\ display' = [img |-> None, overlay |-> FALSE]
                        /\ UNCHANGED toHost
      BY <2>11 DEF PspRespond
    <3>2. keys \in SUBSET Keys
      BY <3>1, ConstantAssumption
    <3>3. /\ menu' \in BOOLEAN /\ sel' \in 0 .. 1
          /\ prevKeys' \in SUBSET Keys /\ homeArmed' \in BOOLEAN
      BY <3>1, <3>2, InputTyped
    <3>4. Response(menu', keys) \in Responses
      BY <3>2, <3>3 DEF Response, Responses
    <3>5. /\ toHost' \in Seq(Responses) /\ display' \in Displays
          /\ ppc' \in {"draw", "prompt"}
      <4>1. CASE link = "up"
        <5>1. /\ toHost' = Append(toHost, Response(menu', keys))
              /\ ppc' = "draw" /\ display' = display
          BY <3>1, <4>1
        <5>2. QED
          BY <3>4, <5>1
      <4>2. CASE link # "up"
        BY <3>1, <4>2, Blank
      <4>3. QED
        BY <4>1, <4>2
    <3>6. /\ first' = FALSE
          /\ UNCHANGED <<screen, link, toPsp, hostVars, connected, recv>>
      BY <2>11, Zenon DEF PspRespond
    <3>7. QED
      BY <3>3, <3>5, <3>6 DEF hostVars
  <2>12. CASE PspQuit
    <3>1. PICK keys \in Chords, quick \in BOOLEAN : HandleInput(keys, keys \ prevKeys, quick)
      BY <2>12 DEF PspQuit
    <3>2. keys \in SUBSET Keys
      BY <3>1, ConstantAssumption
    <3>3. /\ menu' \in BOOLEAN /\ sel' \in 0 .. 1
          /\ prevKeys' \in SUBSET Keys /\ homeArmed' \in BOOLEAN
      BY <3>1, <3>2, InputTyped
    <3>4. QED
      BY <2>12, <3>3 DEF PspQuit, hostVars
  <2>13. CASE PromptQuit
    BY <2>13 DEF PromptQuit, hostVars, inputVars
  <2>14. CASE PspDraw
    BY <2>14 DEF PspDraw, wireVars, hostVars, inputVars, Displays, Frames
  <2>15. CASE ScreenChange
    BY <2>15, ConstantAssumption DEF ScreenChange, Versions, wireVars, hostVars, pspVars, inputVars
  <2>16. CASE LinkDrop
    BY <2>16 DEF LinkDrop, hostVars, pspVars, inputVars
  <2>17. CASE LinkUp
    BY <2>17 DEF LinkUp, hostVars, pspVars, inputVars
  <2>18. CASE Relaunch
    <3>1. recv' \in Frames /\ display' \in Displays /\ sel' \in 0 .. 1
      BY <2>18, Blank DEF Relaunch
    <3>2. QED
      BY <2>18, <3>1 DEF Relaunch, wireVars, hostVars
  <2>19. CASE UNCHANGED vars
    BY <2>19 DEF vars, wireVars, hostVars, pspVars, inputVars
  <2>20. QED
    BY <2>1, <2>2, <2>3, <2>4, <2>5, <2>6, <2>7, <2>8, <2>9, <2>10, <2>11,
       <2>12, <2>13, <2>14, <2>15, <2>16, <2>17, <2>18, <2>19 DEF Next
<1>3. QED
  BY <1>1, <1>2, PTL DEF Spec

-----------------------------------------------------------------------------
(* The payload and the alternation.  PayloadFits is what keeps the PSP from *)
(* bailing out of a frame it was sent in full, so LockStep rests on it.     *)

\* PayloadFits, frame by frame.
Sound(f) == PayloadSize(f) = f.bytes /\ f.bytes <= BufferSize

LEMMA Soundness ==
  ASSUME TypeOK
  PROVE  PayloadFits <=> /\ Sound(out) /\ Sound(recv)
                         /\ \A i \in 1 .. Len(toPsp) : Sound(toPsp[i])
BY DEF PayloadFits, Sound

\* What is written is what was announced and what l_recv holds, in every frame
\* under way, for every size of picture.
THEOREM PayloadsFit == Spec => []PayloadFits
<1>1. Init => PayloadFits
  BY SMT DEF Init, PayloadFits, PayloadSize, NoFrame, BufferSize
<1>2. TypeOK /\ PayloadFits /\ [Next]_vars => PayloadFits'
  <2> SUFFICES ASSUME TypeOK, PayloadFits, [Next]_vars
               PROVE  /\ Sound(out') /\ Sound(recv')
                      /\ \A i \in 1 .. Len(toPsp') : Sound(toPsp'[i])
    BY DEF PayloadFits, Sound
  <2>1. Sound(out) /\ Sound(recv) /\ \A i \in 1 .. Len(toPsp) : Sound(toPsp[i])
    BY Soundness
  <2>2. toPsp \in Seq(Frames)
    BY DEF TypeOK
  <2>3. CASE HostGrab
    <3>1. PICK audio \in BOOLEAN : out' = Encode(SendImage, audio)
      BY <2>3, ConstantAssumption DEF HostGrab
    <3>2. screen \in Versions /\ SendImage \in BOOLEAN
      BY DEF TypeOK, SendImage
    <3>3. Sound(out')
      BY <3>1, <3>2, EncodeFits DEF Sound
    <3>4. QED
      BY <2>1, <2>3, <3>3 DEF HostGrab, wireVars, pspVars
  <2>4. CASE HostSend
    <3>1. toPsp' = Append(toPsp, out) /\ UNCHANGED <<out, recv>>
      BY <2>4 DEF HostSend, pspVars
    <3>2. out \in Frames
      BY DEF TypeOK
    <3>3. QED
      BY <2>1, <2>2, <3>1, <3>2
  <2>5. CASE PspPayload
    <3>1. UNCHANGED out
      BY <2>5 DEF PspPayload, hostVars
    <3>2. CASE UNCHANGED <<recv, toPsp>>
      BY <2>1, <3>1, <3>2
    <3>3. CASE toPsp # <<>> /\ recv' = Head(toPsp) /\ toPsp' = Tail(toPsp)
      BY <2>1, <2>2, <3>1, <3>3
    <3>4. QED
      BY <2>5, <3>2, <3>3 DEF PspPayload
  <2>6. CASE Relaunch
    <3>1. recv' = NoFrame /\ UNCHANGED <<toPsp, out>>
      BY <2>6 DEF Relaunch, wireVars, hostVars
    <3>2. Sound(NoFrame)
      BY SMT DEF Sound, NoFrame, PayloadSize, BufferSize
    <3>3. QED
      BY <2>1, <3>1, <3>2
  <2>7. CASE PspQuit \/ PromptQuit \/ LinkDrop
    <3>1. toPsp' = <<>> /\ UNCHANGED <<out, recv>>
      BY <2>7 DEF PspQuit, PromptQuit, LinkDrop, hostVars, pspVars
    <3>2. QED
      BY <2>1, <3>1
  <2>8. CASE HostOpen \/ GrabFails \/ HostReceive \/ HostLost \/ PressCross
             \/ ConnectTimeout \/ PspHeader \/ PspRespond \/ PspDraw
             \/ ScreenChange \/ LinkUp \/ UNCHANGED vars
    <3>1. UNCHANGED <<toPsp, out, recv>>
      BY <2>8 DEF HostOpen, GrabFails, HostReceive, HostLost, PressCross,
           ConnectTimeout, PspHeader, PspRespond, PspDraw, ScreenChange, LinkUp,
           vars, wireVars, hostVars, pspVars
    <3>2. QED
      BY <2>1, <3>1
  <2>9. QED
    BY <2>3, <2>4, <2>5, <2>6, <2>7, <2>8 DEF Next
<1>3. QED
  BY <1>1, <1>2, TypeCorrect, PTL DEF Spec

-----------------------------------------------------------------------------
\* The inductive invariant of the pump: LockStep needs the payload to fit, the
\* refinement below needs ForceSpent.
PumpInv == LockStep /\ ForceSpent

\* When two wires hold at most one message, it fills the one it is on.
LEMMA OneUnderWay ==
  ASSUME NEW S, NEW T, NEW s \in Seq(S), NEW t \in Seq(T),
         Len(s) + Len(t) <= 1, s # <<>>
  PROVE  Len(s) = 1 /\ t = <<>>
<1>1. \A a, b \in Nat : a + b <= 1 /\ a >= 1 => a = 1 /\ b = 0
  OBVIOUS
<1>2. Len(s) \in Nat /\ Len(s) >= 1
  OBVIOUS
<1>3. Len(t) \in Nat
  OBVIOUS
<1>4. Len(s) = 1 /\ Len(t) = 0
  BY <1>1, <1>2, <1>3, Zenon
<1>5. QED
  BY <1>4

\* One step of either program keeps the pump's invariant.
LEMMA PumpInvStep ==
  ASSUME TypeOK, PayloadFits, PumpInv, [Next]_vars
  PROVE  PumpInv'
<1> USE DEF PumpInv, LockStep, ForceSpent
<1>1. toPsp \in Seq(Frames) /\ toHost \in Seq(Responses)
  BY DEF TypeOK
<1>2. CASE HostOpen
  BY <1>2, <1>1 DEF HostOpen, wireVars, pspVars, inputVars
<1>3. CASE HostGrab
  <2>1. Hash[screen] # None
    BY ConstantAssumption DEF TypeOK, None
  <2>2. forceNext' = FALSE
    <3>1. forceNext => SendImage
      BY DEF SendImage
    <3>2. QED
      BY <1>3, <3>1 DEF HostGrab, ForceAfterEncode
  <2>3. QED
    BY <1>1, <1>3, <2>1, <2>2 DEF HostGrab, wireVars, pspVars, inputVars
<1>4. CASE GrabFails
  BY <1>4, <1>1 DEF GrabFails, wireVars, pspVars, inputVars
<1>5. CASE HostSend
  <2>1. toPsp = <<>> /\ toHost = <<>>
    BY <1>5 DEF HostSend
  <2>2. Len(toPsp') + Len(toHost') <= 1
    BY <1>5, <2>1 DEF HostSend
  <2>3. QED
    BY <1>5, <2>1, <2>2 DEF HostSend, pspVars, inputVars
<1>6. CASE HostReceive
  <2>1. toPsp = <<>> /\ Len(toHost) = 1
    <3>1. toHost # <<>> /\ Len(toHost) + Len(toPsp) <= 1
      BY <1>1, <1>6 DEF HostReceive
    <3>2. QED
      BY <1>1, <3>1, OneUnderWay
  <2>2. toHost' = <<>>
    BY <1>1, <1>6, <2>1 DEF HostReceive
  <2>3. QED
    BY <1>6, <2>1, <2>2 DEF HostReceive, pspVars, inputVars
<1>7. CASE HostLost
  BY <1>7, <1>1 DEF HostLost, wireVars, pspVars, inputVars
<1>8. CASE PressCross
  BY <1>8, <1>1 DEF PressCross, wireVars, hostVars, inputVars
<1>9. CASE ConnectTimeout
  BY <1>9, <1>1 DEF ConnectTimeout, wireVars, hostVars, inputVars
<1>10. CASE PspHeader
  <2>1. toHost = <<>>
    BY <1>1, <1>10 DEF PspHeader
  <2>2. QED
    BY <1>10, <1>1, <2>1 DEF PspHeader, wireVars, hostVars, inputVars
<1>11. CASE PspPayload
  <2>1. CASE toPsp = <<>>
    BY <1>11, <1>1, <2>1 DEF PspPayload, hostVars, inputVars
  <2>2. CASE toPsp # <<>>
    <3>1. Len(toPsp) = 1 /\ toHost = <<>>
      BY <1>1, <2>2, OneUnderWay
    <3>2. PayloadSize(Head(toPsp)) <= BufferSize
      BY <1>1, <2>2, Soundness DEF Sound
    <3>3. toPsp' = <<>> /\ ppc' = "input"
      BY <1>1, <1>11, <2>2, <3>1, <3>2 DEF PspPayload
    <3>4. QED
      BY <1>11, <2>2, <3>1, <3>3 DEF PspPayload, hostVars, inputVars
  <2>3. QED
    BY <2>1, <2>2
<1>12. CASE PspRespond
  <2>1. toPsp = <<>> /\ toHost = <<>> /\ connected
    BY <1>12 DEF PspRespond
  <2>2. \/ ppc' = "draw" /\ link = "up" /\ Len(toHost') = 1
        \/ ppc' = "prompt" /\ link # "up" /\ toHost' = toHost
    BY <1>12, <2>1 DEF PspRespond
  <2>3. ppc = "input" /\ UNCHANGED <<screen, link, toPsp, hostVars, connected, recv>>
    BY <1>12, Zenon DEF PspRespond
  <2>4. UNCHANGED <<hpc, forceNext, lastHash>>
    BY <2>3 DEF hostVars
  <2>5. CASE ppc' = "draw" /\ link = "up" /\ Len(toHost') = 1
    BY <2>1, <2>3, <2>4, <2>5
  <2>6. CASE ppc' = "prompt" /\ link # "up" /\ toHost' = toHost
    BY <2>1, <2>3, <2>4, <2>6
  <2>7. QED
    BY <2>2, <2>5, <2>6
<1>13. CASE PspQuit
  BY <1>13, <1>1 DEF PspQuit, hostVars
<1>14. CASE PromptQuit
  BY <1>14, <1>1 DEF PromptQuit, hostVars, inputVars
<1>15. CASE PspDraw
  BY <1>15, <1>1 DEF PspDraw, wireVars, hostVars, inputVars
<1>16. CASE ScreenChange
  BY <1>16 DEF ScreenChange, wireVars, hostVars, pspVars, inputVars
<1>17. CASE LinkDrop
  BY <1>17 DEF LinkDrop, hostVars, pspVars, inputVars
<1>18. CASE LinkUp
  BY <1>18 DEF LinkUp, hostVars, pspVars, inputVars
<1>19. CASE Relaunch
  BY <1>19 DEF Relaunch, wireVars, hostVars
<1>20. CASE UNCHANGED vars
  BY <1>20 DEF vars, wireVars, hostVars, pspVars, inputVars
<1>21. QED
  BY <1>2, <1>3, <1>4, <1>5, <1>6, <1>7, <1>8, <1>9, <1>10, <1>11, <1>12,
     <1>13, <1>14, <1>15, <1>16, <1>17, <1>18, <1>19, <1>20 DEF Next

\* The whole invariant, for the theorems that need its parts together.
THEOREM PumpInvariant == Spec => [](TypeOK /\ PayloadFits /\ PumpInv)
<1>1. Init => PumpInv
  BY DEF Init, PumpInv, LockStep, ForceSpent
<1>2. TypeOK /\ PayloadFits /\ PumpInv /\ [Next]_vars => PumpInv'
  BY PumpInvStep
<1>3. QED
  BY <1>1, <1>2, TypeCorrect, PayloadsFit, PTL DEF Spec

\* Host and PSP alternate, whatever is cut off when: neither writes ahead.
THEOREM Alternates == Spec => []LockStep
BY PumpInvariant, PTL DEF PumpInv

\* A request for a full picture is never left over from the frame before.
THEOREM ForceIsSpent == Spec => []ForceSpent
BY PumpInvariant, PTL DEF PumpInv

-----------------------------------------------------------------------------
(* The refinement: every step of the pump is a step of the abstract         *)
(* exchange or changes nothing it knows of.                                  *)

abstractVars == <<AbstractPhase, AbstractOwed, AbstractFull>>

\* Any step into a broken session is the exchange's Break.
LEMMA BreakStep ==
  ASSUME Broken'
  PROVE  E!Break
<1>1. AbstractPhase' = "broken"
  BY DEF AbstractPhase, Broken
<1>2. AbstractOwed' = TRUE
  BY DEF AbstractOwed
<1>3. AbstractFull' = FALSE
  BY DEF AbstractFull
<1>4. QED
  BY <1>1, <1>2, <1>3 DEF E!Break

\* What the exchange sees of the pump.
LEMMA SeenVars ==
  ASSUME UNCHANGED <<link, hpc, toHost, forceNext, lastHash, out>>
  PROVE  UNCHANGED abstractVars
BY DEF abstractVars, AbstractPhase, AbstractOwed, AbstractFull, Broken

\* A new session owes a picture.
LEMMA OpenStep ==
  ASSUME HostOpen
  PROVE  E!Establish
<1>1. AbstractPhase = "broken" /\ AbstractPhase' = "idle"
  BY DEF HostOpen, AbstractPhase, Broken, wireVars
<1>2. AbstractOwed /\ AbstractOwed'
  BY DEF HostOpen, AbstractOwed, Broken, wireVars
<1>3. ~AbstractFull /\ ~AbstractFull'
  BY DEF HostOpen, AbstractFull, Broken
<1>4. UNCHANGED <<AbstractOwed, AbstractFull>>
  <2>1. AbstractOwed \in BOOLEAN /\ AbstractFull \in BOOLEAN
    BY DEF AbstractOwed, AbstractFull
  <2>2. AbstractOwed' \in BOOLEAN /\ AbstractFull' \in BOOLEAN
    BY DEF AbstractOwed, AbstractFull
  <2>3. QED
    BY <1>2, <1>3, <2>1, <2>2, Zenon
<1>5. QED
  BY <1>1, <1>4 DEF E!Establish

\* The request is decided: what is owed is in it, unless it is too large.
LEMMA GrabStep ==
  ASSUME TypeOK, PumpInv, HostGrab, ~Broken
  PROVE  E!Ask
<1>1. PICK audio \in BOOLEAN : out' = Encode(SendImage, audio)
  BY ConstantAssumption DEF HostGrab
<1>2. /\ hpc = "grab" /\ hpc' = "send" /\ lastHash' = Hash[screen]
      /\ UNCHANGED <<screen, link, toHost>> /\ toHost = <<>>
  BY DEF HostGrab, wireVars, PumpInv, LockStep
<1>3. Hash[screen] # None /\ screen # None /\ JpegSize[screen] \in Nat
  BY ConstantAssumption DEF TypeOK, None, Versions
<1>4. ~Broken'
  BY <1>2 DEF Broken
<1>5. AbstractPhase = "idle" /\ AbstractPhase' = "asked"
  BY <1>2, <1>4 DEF AbstractPhase
<1>6. AbstractFull' \in BOOLEAN /\ AbstractOwed' = FALSE
  BY <1>2, <1>4 DEF AbstractFull, AbstractOwed
<1>7. ASSUME AbstractOwed, ~TooLarge' PROVE AbstractFull'
  <2>1. forceNext \/ lastHash = None
    BY <1>2, <1>7 DEF AbstractOwed
  <2>2. SendImage
    BY <1>3, <2>1 DEF SendImage
  <2>3. out'.audio = audio
    BY <1>1 DEF Encode
  <2>4. JpegSize[screen] + (IF audio THEN ChunkBytes ELSE 0) + 64 <= BufferSize
    BY <1>2, <1>3, <1>7, <2>3, SMT DEF TooLarge, ChunkBytes, BufferSize
  <2>5. out'.img = screen
    BY <1>1, <2>2, <2>4 DEF Encode
  <2>6. QED
    BY <1>2, <1>3, <1>4, <2>5 DEF AbstractFull
<1>8. QED
  BY <1>5, <1>6, <1>7 DEF E!Ask

\* Writing the frame is part of the request.
LEMMA SendStep ==
  ASSUME PumpInv, HostSend
  PROVE  UNCHANGED abstractVars
<1>1. /\ hpc = "send" /\ hpc' = "await" /\ toHost = <<>>
      /\ UNCHANGED <<link, toHost, out>>
  BY DEF HostSend, PumpInv, LockStep
<1>2. UNCHANGED <<AbstractPhase, AbstractFull>>
  BY <1>1 DEF AbstractPhase, AbstractFull, Broken
<1>3. UNCHANGED AbstractOwed
  BY <1>1 DEF AbstractOwed, Broken
<1>4. QED
  BY <1>2, <1>3 DEF abstractVars

\* The host keeps what the answer asked for.
LEMMA ReceiveStep ==
  ASSUME TypeOK, PumpInv, HostReceive
  PROVE  E!Take
<1>1. /\ hpc = "await" /\ hpc' = "grab" /\ toHost # <<>> /\ link = "up"
      /\ forceNext' = (forceNext \/ Head(toHost).force)
      /\ UNCHANGED <<link, lastHash>>
  BY DEF HostReceive, PumpInv, LockStep, TypeOK
<1>2. ~Broken /\ ~Broken'
  BY <1>1 DEF Broken
<1>3. AbstractPhase = "answered" /\ AbstractPhase' = "idle"
  BY <1>1, <1>2 DEF AbstractPhase
<1>4. forceNext = FALSE /\ lastHash # None
  BY <1>1 DEF PumpInv, ForceSpent, TypeOK
<1>5. AbstractOwed = Head(toHost).force
  <2>1. Head(toHost).force \in BOOLEAN
    <3>1. Head(toHost) \in Responses
      BY <1>1 DEF TypeOK
    <3>2. QED
      BY <3>1 DEF Responses
  <2>2. AbstractOwed <=> Head(toHost).force
    BY <1>1, <1>2 DEF AbstractOwed
  <2>3. AbstractOwed \in BOOLEAN
    BY DEF AbstractOwed
  <2>4. QED
    BY <2>1, <2>2, <2>3, Zenon
<1>6. AbstractOwed' = Head(toHost).force
  <2>1. Head(toHost).force \in BOOLEAN
    <3>1. Head(toHost) \in Responses
      BY <1>1 DEF TypeOK
    <3>2. QED
      BY <3>1 DEF Responses
  <2>2. AbstractOwed' <=> Head(toHost).force
    BY <1>1, <1>2, <1>4 DEF AbstractOwed
  <2>3. AbstractOwed' \in BOOLEAN
    BY DEF AbstractOwed
  <2>4. QED
    BY <2>1, <2>2, <2>3, Zenon
<1>7. AbstractFull' = FALSE
  BY <1>1 DEF AbstractFull
<1>8. QED
  BY <1>3, <1>5, <1>6, <1>7 DEF E!Take

\* The answer comes once, and with the session still up.
LEMMA RespondStep ==
  ASSUME TypeOK, PumpInv, PspRespond, ~Broken
  PROVE  E!Answer
<1>1. hpc = "await" /\ link = "up" /\ toHost = <<>> /\ ppc = "input"
  BY DEF PspRespond, PumpInv, LockStep, Broken, TypeOK
<1>2. UNCHANGED <<hpc, link, out>>
  BY Zenon DEF PspRespond, hostVars
<1>3. toHost' # <<>>
  <2>1. PICK r : toHost' = Append(toHost, r)
    BY <1>1 DEF PspRespond
  <2>2. QED
    BY <1>1, <2>1
<1>4. ~Broken'
  BY <1>2 DEF Broken
<1>5. AbstractPhase = "asked" /\ AbstractPhase' = "answered"
  BY <1>1, <1>2, <1>3, <1>4 DEF AbstractPhase
<1>6. AbstractOwed' \in BOOLEAN
  BY DEF AbstractOwed
<1>7. AbstractFull' = AbstractFull
  BY <1>2, <1>4 DEF AbstractFull
<1>8. QED
  BY <1>5, <1>6, <1>7 DEF E!Answer

\* Every step of the pump is a step of the exchange.
LEMMA RefinementStep ==
  ASSUME TypeOK, PumpInv, [Next]_vars
  PROVE  [E!Next]_abstractVars
<1>1. CASE Broken'
  BY <1>1, BreakStep DEF E!Next
<1>2. CASE HostOpen
  BY <1>2, OpenStep DEF E!Next
<1>3. CASE ~Broken' /\ ~HostOpen
  <2>1. CASE HostGrab
    <3>1. ~Broken
      BY <1>3, <2>1 DEF HostGrab, Broken, wireVars
    <3>2. QED
      BY <2>1, <3>1, GrabStep DEF E!Next
  <2>2. CASE HostSend
    BY <2>2, SendStep
  <2>3. CASE HostReceive
    BY <2>3, ReceiveStep DEF E!Next
  <2>4. CASE PspRespond
    <3>1. UNCHANGED <<hpc, link>>
      BY <2>4, Zenon DEF PspRespond, hostVars
    <3>2. ~Broken
      BY <1>3, <3>1 DEF Broken
    <3>3. QED
      BY <2>4, <3>2, RespondStep DEF E!Next
  <2>5. CASE GrabFails \/ HostLost \/ PspQuit \/ PromptQuit \/ LinkDrop \/ LinkUp
    <3>1. Broken'
      BY <2>5 DEF GrabFails, HostLost, PspQuit, PromptQuit, LinkDrop, LinkUp,
           Broken, hostVars
    <3>2. QED
      BY <1>3, <3>1
  <2>6. CASE PressCross \/ ConnectTimeout \/ PspHeader \/ PspPayload \/ PspDraw
             \/ ScreenChange \/ Relaunch \/ UNCHANGED vars
    <3>1. UNCHANGED <<link, hpc, toHost, forceNext, lastHash, out>>
      BY <2>6 DEF PressCross, ConnectTimeout, PspHeader, PspPayload, PspDraw,
           ScreenChange, Relaunch, vars, wireVars, hostVars
    <3>2. QED
      BY <3>1, SeenVars
  <2>7. QED
    BY <1>3, <2>1, <2>2, <2>3, <2>4, <2>5, <2>6 DEF Next
<1>4. QED
  BY <1>1, <1>2, <1>3

\* The pump implements the exchange: requests and answers alternate, and the
\* picture the PSP is owed is in the very next request.
THEOREM RefinesExchange == Spec => ImplementsExchange
<1>1. Init => E!Init
  <2>1. ASSUME Init PROVE E!Init
    <3>1. Broken
      BY <2>1 DEF Init, Broken
    <3>2. AbstractPhase = "broken" /\ AbstractOwed = TRUE /\ AbstractFull = FALSE
      BY <3>1 DEF AbstractPhase, AbstractOwed, AbstractFull
    <3>3. QED
      BY <3>2 DEF E!Init
  <2>2. QED
    BY <2>1
<1>2. TypeOK /\ PumpInv /\ [Next]_vars => [E!Next]_(E!exchangeVars)
  BY RefinementStep DEF E!exchangeVars, abstractVars
<1>3. QED
  BY <1>1, <1>2, PumpInvariant, PTL DEF Spec, ImplementsExchange, E!Spec

-----------------------------------------------------------------------------
(* The menu.  Its keys and its popup cross several steps of both programs.  *)

\* Neutral: what the PSP sends, and what the host would press, with the menu
\* open.  The menu changes only between two responses.
MenuInv == menu /\ toHost # <<>> => Head(toHost).keys = {}

\* While the menu is open the gamepad may let go of keys but presses none.
THEOREM MenuNeverPresses == Spec => MenuKeysStayLocal
<1>1. Init => MenuInv
  BY DEF Init, MenuInv
<1>2. TypeOK /\ PumpInv /\ MenuInv /\ [Next]_vars => MenuInv'
  <2> SUFFICES ASSUME TypeOK, PumpInv, MenuInv, [Next]_vars PROVE MenuInv'
    OBVIOUS
  <2>1. CASE PspRespond
    <3>1. toHost = <<>>
      BY <2>1 DEF PspRespond, PumpInv, LockStep
    <3>2. PICK keys \in Chords :
            \/ toHost' = Append(toHost, Response(menu', keys))
            \/ toHost' = toHost
      BY <2>1 DEF PspRespond
    <3>3. ASSUME toHost' = Append(toHost, Response(menu', keys)), menu'
          PROVE  Head(toHost').keys = {}
      <4>1. toHost' = <<Response(menu', keys)>>
        BY <3>1, <3>3
      <4>2. Response(menu', keys).keys = {}
        BY <3>3 DEF Response
      <4>3. QED
        BY <4>1, <4>2
    <3>4. QED
      BY <3>1, <3>2, <3>3 DEF MenuInv
  <2>2. CASE HostReceive
    <3>1. toHost # <<>> /\ Len(toHost) + Len(toPsp) <= 1
      BY <2>2 DEF HostReceive, PumpInv, LockStep, TypeOK
    <3>2. Len(toHost) = 1
      BY <3>1, OneUnderWay DEF TypeOK
    <3>3. toHost' = <<>>
      BY <2>2, <3>1, <3>2 DEF HostReceive, TypeOK
    <3>4. QED
      BY <3>3 DEF MenuInv
  <2>3. CASE PspQuit \/ PromptQuit \/ LinkDrop
    BY <2>3 DEF PspQuit, PromptQuit, LinkDrop, MenuInv
  <2>4. CASE Relaunch
    BY <2>4 DEF Relaunch, MenuInv
  <2>5. CASE HostOpen \/ HostGrab \/ GrabFails \/ HostSend \/ HostLost
             \/ PressCross \/ ConnectTimeout \/ PspHeader \/ PspPayload
             \/ PspDraw \/ ScreenChange \/ LinkUp \/ UNCHANGED vars
    <3>1. UNCHANGED <<menu, toHost>>
      BY <2>5 DEF HostOpen, HostGrab, GrabFails, HostSend, HostLost, PressCross,
           ConnectTimeout, PspHeader, PspPayload, PspDraw, ScreenChange, LinkUp,
           vars, wireVars, pspVars, inputVars
    <3>2. QED
      BY <3>1 DEF MenuInv
  <2>6. QED
    BY <2>1, <2>2, <2>3, <2>4, <2>5 DEF Next
<1>3. MenuInv /\ [Next]_vars => [menu => pad' \in {pad, {}}]_pad
  <2> SUFFICES ASSUME MenuInv, [Next]_vars, menu, pad' # pad PROVE pad' = {}
    OBVIOUS
  <2>1. HostReceive
    BY DEF Next, HostOpen, HostGrab, GrabFails, HostSend, HostLost, PressCross,
       ConnectTimeout, PspHeader, PspPayload, PspRespond, PspQuit, PromptQuit,
       PspDraw, ScreenChange, LinkDrop, LinkUp, Relaunch, vars, hostVars
  <2>2. QED
    BY <2>1 DEF HostReceive, MenuInv
<1>4. QED
  BY <1>1, <1>2, <1>3, PumpInvariant, PTL DEF Spec, MenuKeysStayLocal

\* A picture is owed, or ready to be written.
Pending == AbstractOwed \/ (~Broken /\ hpc = "send" /\ out.img # None)

\* It stays so until it is written, when every picture fits.
LEMMA OwedKept ==
  ASSUME TypeOK, PumpInv, [Next]_vars, Pending, ~HostSend,
         \A v \in Versions : Fits(v)
  PROVE  Pending'
<1>1. CASE Broken'
  BY <1>1 DEF Pending, AbstractOwed
<1>2. CASE HostOpen
  BY <1>2 DEF HostOpen, Pending, AbstractOwed
<1>3. CASE HostGrab /\ ~Broken'
  <2>1. ~Broken
    BY <1>3 DEF HostGrab, Broken, wireVars
  <2>2. AbstractOwed /\ hpc' = "send"
    BY <1>3 DEF HostGrab, Pending
  <2>3. ~TooLarge'
    <3>1. PICK audio \in {FALSE, AudioOn} : out' = Encode(SendImage, audio)
      BY <1>3 DEF HostGrab
    <3>2. out'.audio = audio /\ screen' = screen
      BY <1>3, <3>1 DEF HostGrab, Encode
    <3>3. Fits(screen) /\ JpegSize[screen] \in Nat
      BY ConstantAssumption DEF TypeOK
    <3>4. CASE audio = AudioOn
      BY <3>2, <3>3, <3>4, SMT DEF TooLarge, Fits, ChunkBytes, BufferSize
    <3>5. CASE audio = FALSE
      <4>1. (IF AudioOn THEN ChunkBytes ELSE 0) \in Nat
        BY SMT DEF ChunkBytes
      <4>2. JpegSize[screen] + 64 <= BufferSize
        BY <3>3, <4>1, SMT DEF Fits, BufferSize
      <4>3. QED
        BY <3>2, <3>3, <3>5, <4>2, SMT DEF TooLarge, BufferSize
    <3>6. QED
      BY <3>1, <3>4, <3>5
  <2>4. AbstractFull'
    BY <1>3, <2>1, <2>2, <2>3, GrabStep DEF E!Ask
  <2>5. QED
    BY <2>2, <2>4 DEF AbstractFull, Pending
<1>4. CASE HostReceive
  <2>1. AbstractOwed' = AbstractOwed
    BY <1>4, ReceiveStep DEF E!Take
  <2>2. AbstractOwed
    BY <1>4 DEF HostReceive, Pending
  <2>3. QED
    BY <2>1, <2>2 DEF Pending
<1>5. CASE PspRespond /\ ~Broken'
  <2>1. UNCHANGED <<hpc, link>>
    BY <1>5, Zenon DEF PspRespond, hostVars
  <2>2. hpc = "await" /\ toHost = <<>> /\ ~Broken
    BY <1>5, <2>1 DEF PspRespond, PumpInv, LockStep, Broken, TypeOK
  <2>3. QED
    BY <2>2 DEF Pending, AbstractOwed
<1>6. CASE (PspQuit \/ PromptQuit \/ LinkDrop \/ LinkUp \/ GrabFails \/ HostLost) /\ ~Broken'
  BY <1>6 DEF PspQuit, PromptQuit, LinkDrop, LinkUp, GrabFails, HostLost, Broken, hostVars
<1>7. CASE PressCross \/ ConnectTimeout \/ PspHeader \/ PspPayload \/ PspDraw
           \/ ScreenChange \/ Relaunch \/ UNCHANGED vars
  <2>1. UNCHANGED <<link, hpc, toHost, forceNext, lastHash, out>>
    BY <1>7 DEF PressCross, ConnectTimeout, PspHeader, PspPayload, PspDraw,
         ScreenChange, Relaunch, vars, wireVars, hostVars
  <2>2. QED
    BY <2>1 DEF Pending, AbstractOwed, Broken
<1>8. QED
  BY <1>1, <1>2, <1>3, <1>4, <1>5, <1>6, <1>7 DEF Next

\* The popup on the PSP's screen is always followed by the picture that will
\* erase it: owed, under way, or about to be drawn.
GhostInv ==
  /\ ppc = "read" /\ display.overlay =>
       menu /\ (Pending \/ (toPsp # <<>> /\ Head(toPsp).img # None))
  /\ ppc = "payload" /\ display.overlay /\ toPsp # <<>> => Head(toPsp).img # None
  /\ ppc \in {"input", "draw"} /\ display.overlay => recv.img # None
  /\ ppc = "draw" /\ menu => Pending

\* One step of either program keeps it so.
LEMMA GhostStep ==
  ASSUME TypeOK, PayloadFits, PumpInv, GhostInv, [Next]_vars,
         \A v \in Versions : Fits(v), Undecodable = {}
  PROVE  GhostInv'
<1> USE DEF GhostInv
<1>1. CASE HostSend
  <2>1. /\ ppc = "read" /\ toPsp = <<>> /\ hpc = "send" /\ link = "up"
        /\ toPsp' = Append(toPsp, out)
        /\ UNCHANGED <<ppc, menu, display, recv>>
    BY <1>1 DEF HostSend, PumpInv, LockStep, pspVars, inputVars
  <2>2. toPsp' # <<>> /\ Head(toPsp') = out
    BY <2>1 DEF TypeOK
  <2>3. Pending => out.img # None
    BY <2>1 DEF Pending, AbstractOwed, Broken
  <2>4. QED
    BY <2>1, <2>2, <2>3
<1>2. CASE PspHeader
  <2>1. /\ ppc = "read" /\ toPsp # <<>> /\ hpc = "await" /\ link = "up"
        /\ ppc' = "payload" /\ UNCHANGED <<menu, display, recv, toPsp>>
    BY <1>2 DEF PspHeader, PumpInv, LockStep, TypeOK, wireVars, inputVars
  <2>2. toHost = <<>>
    BY <2>1, OneUnderWay DEF TypeOK, PumpInv, LockStep
  <2>3. ~Pending
    BY <2>1, <2>2 DEF Pending, AbstractOwed, Broken
  <2>4. QED
    BY <2>1, <2>3
<1>3. CASE PspPayload
  <2>1. \/ ppc' = "input" /\ toPsp # <<>> /\ recv' = Head(toPsp) /\ UNCHANGED display
        \/ ppc' = "prompt" /\ display' = [img |-> None, overlay |-> FALSE]
    BY <1>3 DEF PspPayload
  <2>2. ppc = "payload" /\ UNCHANGED menu
    BY <1>3 DEF PspPayload, inputVars
  <2>3. QED
    BY <2>1, <2>2
<1>4. CASE PspRespond
  <2>1. PICK keys \in Chords :
          \/ /\ ppc' = "draw" /\ link = "up" /\ UNCHANGED display
             /\ toHost' = Append(toHost, Response(menu', keys))
          \/ ppc' = "prompt"
    BY <1>4 DEF PspRespond
  <2>2. ppc = "input" /\ UNCHANGED <<recv, link, hpc>>
    BY <1>4, Zenon DEF PspRespond, hostVars
  <2>3. CASE ppc' = "prompt"
    BY <2>3
  <2>4. CASE ppc' # "prompt"
    <3>1. toHost = <<>> /\ hpc = "await"
      BY <2>1, <2>2, <2>4 DEF PumpInv, LockStep
    <3>2. toHost' = <<Response(menu', keys)>>
      <4>1. toHost' = Append(toHost, Response(menu', keys))
        BY <2>1, <2>4
      <4>2. QED
        BY <3>1, <4>1
    <3>3. menu' => Head(toHost').force
      <4>1. Head(toHost') = Response(menu', keys)
        BY <3>2
      <4>2. Response(menu', keys).force = (first \/ menu')
        BY DEF Response
      <4>3. QED
        BY <4>1, <4>2
    <3>4. menu' => Pending'
      BY <2>2, <3>1, <3>2, <3>3 DEF Pending, AbstractOwed
    <3>5. QED
      BY <2>1, <2>2, <2>4, <3>4
  <2>5. QED
    BY <2>3, <2>4
<1>5. CASE PspDraw
  <2>1. /\ ppc = "draw" /\ ppc' = "read" /\ UNCHANGED <<menu, toPsp>>
        /\ display' = IF recv.img # None /\ recv.img \notin Undecodable
                      THEN [img |-> recv.img, overlay |-> menu] ELSE display
    BY <1>5 DEF PspDraw, wireVars, inputVars
  <2>2. ~HostSend
    BY <1>5 DEF HostSend, PspDraw
  <2>3. Pending => Pending'
    BY <2>2, OwedKept
  <2>4. CASE recv.img # None
    BY <2>1, <2>3, <2>4
  <2>5. CASE recv.img = None
    BY <2>1, <2>5
  <2>6. QED
    BY <2>4, <2>5
<1>6. CASE PressCross \/ ConnectTimeout \/ PspQuit \/ PromptQuit \/ Relaunch
  BY <1>6 DEF PressCross, ConnectTimeout, PspQuit, PromptQuit, Relaunch
<1>7. CASE HostOpen \/ HostGrab \/ GrabFails \/ HostReceive \/ HostLost
           \/ ScreenChange \/ LinkUp \/ UNCHANGED vars
  <2>1. UNCHANGED <<ppc, menu, display, recv, toPsp>>
    BY <1>7 DEF HostOpen, HostGrab, GrabFails, HostReceive, HostLost,
         ScreenChange, LinkUp, vars, wireVars, pspVars, inputVars
  <2>2. ~HostSend \/ UNCHANGED vars
    BY <1>7 DEF HostOpen, HostGrab, GrabFails, HostReceive, HostLost,
         ScreenChange, LinkUp, HostSend, hostVars
  <2>3. Pending => Pending'
    <3>1. CASE UNCHANGED vars
      BY <3>1 DEF vars, wireVars, hostVars, Pending, AbstractOwed, Broken
    <3>2. QED
      BY <2>2, <3>1, OwedKept
  <2>4. QED
    BY <2>1, <2>3
<1>8. CASE LinkDrop
  <2>1. toPsp' = <<>> /\ link' = "down" /\ UNCHANGED <<ppc, menu, display, recv>>
    BY <1>8 DEF LinkDrop, pspVars, inputVars
  <2>2. Pending'
    BY <2>1 DEF Pending, AbstractOwed, Broken
  <2>3. QED
    BY <2>1, <2>2
<1>9. QED
  BY <1>1, <1>2, <1>3, <1>4, <1>5, <1>6, <1>7, <1>8 DEF Next

\* Closing the menu never leaves its popup standing on the picture, provided
\* every picture can be sent and decoded.
THEOREM NoGhost ==
  ASSUME \A v \in Versions : Fits(v), Undecodable = {}
  PROVE  Spec => []NoGhostMenu
<1>1. Init => GhostInv
  BY DEF Init, GhostInv
<1>2. TypeOK /\ PayloadFits /\ PumpInv /\ GhostInv /\ [Next]_vars => GhostInv'
  BY GhostStep
<1>3. GhostInv => NoGhostMenu
  BY DEF GhostInv, NoGhostMenu
<1>4. QED
  BY <1>1, <1>2, <1>3, PumpInvariant, PTL DEF Spec

=============================================================================
