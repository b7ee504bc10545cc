----------------------------- MODULE MCClientApp -----------------------------
(* ClientApp with two programs and answers around both limits. *)
EXTENDS ClientApp

CONSTANTS Prog1, Prog2

TwoProgs   == {Prog1, Prog2}
MCAnswers  == {-1, 0, 1, 100, 101}
=============================================================================
