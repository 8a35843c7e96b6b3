------------------------- MODULE MCTranscriptCursor -------------------------
(* TranscriptCursor on small instances.                                    *)
EXTENDS TranscriptCursor, TLC
=============================================================================
