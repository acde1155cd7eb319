----------------------------- MODULE MCRecorder -----------------------------
(* Small instances of the recorder: more records than the buffer and the  *)
(* workers together can take, and two overlapping calls of Close.          *)
EXTENDS Recorder

=============================================================================
