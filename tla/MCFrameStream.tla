---------------------------- MODULE MCFrameStream ----------------------------
(* FrameStream with empty messages, messages of the limit, and past it. *)
EXTENDS FrameStream

MCSizes == 0..4
=============================================================================
