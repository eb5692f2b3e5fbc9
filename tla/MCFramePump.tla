---------------------------- MODULE MCFramePump ----------------------------
(* Instances of FramePump for TLC.                                         *)
EXTENDS FramePump

\* Versions 0 and 1 differ only between frame_hash's sample points.
SparseHash == [v \in Versions |-> v \div 2]

\* One byte too many: 1 is dropped whenever a chunk comes with it.
TightSizes == [v \in Versions |-> IF v = 1 THEN BufferSize - 63 - ChunkBytes ELSE 20000]

\* One key at a time, as a thumb on the pad would.
ThumbKeys == {{}, {"HOME"}, {"CROSS"}, {"DOWN"}}
=============================================================================
