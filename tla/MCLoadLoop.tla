----------------------------- MODULE MCLoadLoop -----------------------------
(* LoadLoop on every file of up to eight bytes: colons, newlines and two letters. *)
EXTENDS LoadLoop

MCLetters == {Colon, 97, 98}
=============================================================================
