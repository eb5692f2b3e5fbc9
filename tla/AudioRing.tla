----------------------------- MODULE AudioRing -----------------------------
(***************************************************************************)
(* The playback buffer of the full PSP app (psp/source/audio.c, filled by  *)
(* comLoop in com.c): the frame loop copies each frame's audio to its      *)
(* write position, the playback thread takes chunks from its own, and      *)
(* neither takes a lock.  Headers may change the chunk size at any time,   *)
(* and with it the size of the ring, while the other thread is in it.      *)
(*                                                                         *)
(* The playback thread has the higher priority: it runs from one blocking  *)
(* output to the next without the frame loop getting in between, and cuts  *)
(* into the frame loop between any two of its accesses.  An output lasts a *)
(* tenth of a second, so it gets at most one turn between two stores.      *)
(***************************************************************************)
EXTENDS Integers

CONSTANT Rates  \* bound: the sample rates a header may name

ASSUME RatesAssumption == "none" \in Rates

BufferBytes == 20 * 2688  \* COM_AUDIO_BUFFER_SIZE
ChunkSizes == {2240, 2688}
\* The bits of COM_FLAGS_AUDIO_SAMPLE_RATE_MASK: chunk 0 when neither bit is set.
Masks == [rate : Rates, chunk : ChunkSizes \cup {0}]
NoMask == [rate |-> "none", chunk |-> 0]
\* What readFrame, and the host, take a frame's audio to be.
AudioFrameSize(mask) == IF mask.chunk = 2240 THEN 2240 * 2 ELSE 2688 * 2
NoHeader == [mask |-> NoMask, audio |-> FALSE]

VARIABLES
  cpc,        \* the main thread: main menu, waiting, in a frame, in audioTerm
  player,     \* the playback thread: none, created, or blocked in its output
  overtaken,  \* it had a turn between the stores of the two new sizes
  run,        \* l_runAudioThread
  header,     \* the header of the frame in work
  target,     \* the address readFrame was given
  sum,        \* what comLoop is about to store to the write position
  writePos,   \* g_comAudioWritePosition
  playPos,    \* g_audioPlaybackPosition
  lastPos,    \* l_lastPlaybackPosition
  frameSize,  \* g_audioCurrentFrameSize
  bufferSize, \* g_audioCurrentBufferSize
  chunk,      \* l_currentChunkSize
  reserved,   \* samples the SRC channel takes per output
  lastAudio,  \* l_lastFrameContainedAudio
  lastMask    \* l_lastFrameSampleRate

comVars == <<header, target, sum, lastAudio, lastMask>>
sizeVars == <<frameSize, bufferSize, chunk, reserved>>
posVars == <<writePos, playPos, lastPos>>
vars == <<cpc, player, overtaken, run, comVars, sizeVars, posVars>>

\* As the program starts: the chunk size has a value, the sizes do not.
Init ==
  /\ cpc = "menu" /\ player = "none" /\ overtaken = FALSE /\ run = FALSE
  /\ header = NoHeader /\ target = 0 /\ sum = 0
  /\ lastAudio = FALSE /\ lastMask = NoMask
  /\ frameSize = 0 /\ bufferSize = 0 /\ chunk = 2240 /\ reserved = 2240
  /\ writePos = 0 /\ playPos = 0 /\ lastPos = 0

\* audioResetPlaybackBuffer
Half(size) == size \div 2
Reset == writePos' = Half(bufferSize) /\ playPos' = 0

-----------------------------------------------------------------------------
(* The frame loop.                                                          *)

\* enterComLoop: audioInit finds a valid chunk size and keeps the sizes.
StartSession ==
  /\ cpc = "menu"
  /\ cpc' = "enter" /\ run' = TRUE /\ player' = "created" /\ reserved' = chunk
  /\ Reset
  /\ UNCHANGED <<overtaken, comVars, frameSize, bufferSize, chunk, lastPos>>

\* comLoop starts, once the driver or the network is up.
EnterLoop ==
  /\ cpc = "enter"
  /\ cpc' = "wait" /\ writePos' = 0
  /\ UNCHANGED <<overtaken, player, run, comVars, sizeVars, playPos, lastPos>>

\* Mutant: the position is not wrapped at the end of the ring.
Unwrapped(pos) == pos

Wrapped(pos) == IF pos >= bufferSize THEN 0 ELSE pos

\* A header is in: wrap, and fix the address the audio will be copied to.
Header ==
  /\ cpc = "wait"
  /\ \E mask \in Masks, audio \in BOOLEAN : header' = [mask |-> mask, audio |-> audio]
  /\ writePos' = Wrapped(writePos)
  /\ target' = Wrapped(writePos)
  /\ cpc' = "read"
  /\ UNCHANGED <<overtaken, player, run, sum, lastAudio, lastMask, sizeVars, playPos, lastPos>>

\* readFrame has copied the audio; the write position is loaded and added to.
Read ==
  /\ cpc = "read"
  /\ sum' = writePos + frameSize
  /\ cpc' = "store"
  /\ UNCHANGED <<overtaken, player, run, header, target, lastAudio, lastMask, sizeVars, posVars>>

Store ==
  /\ cpc = "store"
  /\ writePos' = sum
  /\ cpc' = "check"
  /\ UNCHANGED <<overtaken, player, run, comVars, sizeVars, playPos, lastPos>>

FrameOf(size) == 2 * size

\* audioCheckIfResetIsNeeded: audio that stops clears the ring, new rate bits
\* give it new sizes, one after the other, and stop the playback thread.
Check ==
  /\ cpc = "check"
  /\ lastAudio' = header.audio
  /\ IF lastAudio /\ ~header.audio THEN Reset ELSE UNCHANGED <<writePos, playPos>>
  /\ IF header.mask # lastMask
     THEN /\ chunk' = IF header.mask.chunk = 0 THEN chunk ELSE header.mask.chunk
          /\ frameSize' = FrameOf(chunk')
          /\ cpc' = "resize"
     ELSE cpc' = "wait" /\ UNCHANGED <<chunk, frameSize>>
  /\ UNCHANGED <<player, overtaken, run, header, target, sum, lastMask, bufferSize, reserved, lastPos>>

\* Mutant: the playback thread is waited for without being told to stop.
ResizeRunning ==
  /\ cpc = "resize"
  /\ bufferSize' = 10 * frameSize
  /\ cpc' = "term" /\ overtaken' = FALSE
  /\ UNCHANGED <<player, run, comVars, frameSize, chunk, reserved, posVars>>

Resize ==
  /\ cpc = "resize"
  /\ bufferSize' = 10 * frameSize
  /\ run' = FALSE /\ cpc' = "term" /\ overtaken' = FALSE
  /\ UNCHANGED <<player, comVars, frameSize, chunk, reserved, posVars>>

\* The wait for the playback thread is over: audioInit with the new sizes.
Restart ==
  /\ cpc = "term" /\ player = "none"
  /\ Reset
  /\ reserved' = chunk /\ run' = TRUE /\ player' = "created"
  /\ lastMask' = header.mask
  /\ cpc' = "wait"
  /\ UNCHANGED <<overtaken, header, target, sum, lastAudio, frameSize, bufferSize, chunk, lastPos>>

\* g_comRunning was cleared or the driver did not start: enterComLoop stops the
\* playback.
Leave ==
  /\ cpc \in {"enter", "wait"}
  /\ run' = FALSE /\ cpc' = "left"
  /\ UNCHANGED <<overtaken, player, comVars, sizeVars, posVars>>

\* Mutant: the session is over without a wait for the playback thread.
EndAtOnce ==
  /\ cpc = "left"
  /\ cpc' = "menu"
  /\ UNCHANGED <<overtaken, player, run, comVars, sizeVars, posVars>>

EndSession ==
  /\ cpc = "left" /\ player = "none"
  /\ cpc' = "menu"
  /\ UNCHANGED <<overtaken, player, run, comVars, sizeVars, posVars>>

-----------------------------------------------------------------------------
(* The playback thread.                                                     *)

\* Mutant: the ring wraps only after its end was passed.
LateWrap(pos) == IF pos > bufferSize THEN 0 ELSE pos

\* A chunk of audio is two frames; one that would pass the end starts over.
PlayFrom(pos) == IF pos + frameSize * 2 > bufferSize THEN 0 ELSE pos

Underrun(last, pos) == last <= writePos /\ pos >= writePos

\* One turn of the loop up to the blocking output.
Turn(last, pos) ==
  /\ run /\ ~overtaken
  /\ player' = "output" /\ overtaken' = (cpc = "resize")
  /\ lastPos' = last
  /\ IF Underrun(last, pos)
     THEN writePos' = Half(bufferSize) /\ playPos' = PlayFrom(0)
     ELSE writePos' = writePos /\ playPos' = PlayFrom(pos)

PlayerStarts ==
  /\ player = "created"
  /\ Turn(0, playPos)
  /\ UNCHANGED <<cpc, run, comVars, sizeVars>>

\* The output returns; next turn.
PlayerGoesOn ==
  /\ player = "output"
  /\ Turn(playPos, playPos + frameSize * 2)
  /\ UNCHANGED <<cpc, run, comVars, sizeVars>>

PlayerEnds ==
  /\ player \in {"created", "output"} /\ ~run
  /\ player' = "none"
  /\ IF player = "created"
     THEN lastPos' = 0 /\ UNCHANGED playPos
     ELSE lastPos' = playPos /\ playPos' = playPos + frameSize * 2
  /\ UNCHANGED <<overtaken, cpc, run, comVars, sizeVars, writePos>>

Player == PlayerStarts \/ PlayerGoesOn \/ PlayerEnds
Com == StartSession \/ EnterLoop \/ Header \/ Read \/ Store \/ Check \/ Resize
       \/ Restart \/ Leave \/ EndSession

Next == Player \/ Com

Spec == Init /\ [][Next]_vars
FairSpec == Spec /\ WF_vars(Player) /\ WF_vars(EndSession \/ Restart)

-----------------------------------------------------------------------------
TypeOK ==
  /\ cpc \in {"menu", "enter", "wait", "read", "store", "check", "resize", "term", "left"}
  /\ player \in {"none", "created", "output"}
  /\ run \in BOOLEAN /\ overtaken \in BOOLEAN
  /\ header \in [mask : Masks, audio : BOOLEAN]
  /\ target \in Nat /\ sum \in Nat
  /\ writePos \in Nat /\ playPos \in Nat /\ lastPos \in Nat
  /\ chunk \in ChunkSizes /\ reserved \in ChunkSizes
  /\ \/ frameSize = 0
     \/ frameSize = 2 * chunk
  /\ cpc # "resize" => bufferSize = 10 * frameSize
  /\ lastAudio \in BOOLEAN /\ lastMask \in Masks

\* readFrame's copy ends inside g_comAudioReceiveBuffer: its length follows the
\* header's flags, its start the sizes of an earlier header, and the playback
\* thread may have moved the write position since.
WriteInBuffer ==
  cpc = "read" => target + AudioFrameSize(header.mask) <= BufferBytes

\* What the audio hardware reads is inside the buffer too, also while the sizes
\* in the globals are already those of the next chunk size.
ReadInBuffer ==
  player = "output" => playPos + 4 * reserved <= BufferBytes

\* A playback thread runs between audioInit and the end of audioTerm, and only
\* then: two would share the position, none would leave the frames unplayed.
PlayerInSession ==
  /\ cpc = "menu" => player = "none"
  /\ cpc \in {"enter", "wait", "read", "store", "check", "resize"} => player # "none" /\ run

\* The frame loop never waits for ever for the playback thread.
TermEnds == cpc \in {"term", "left"} ~> cpc \in {"wait", "menu"}

=============================================================================
