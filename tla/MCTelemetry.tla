----------------------------- MODULE MCTelemetry -----------------------------
(* Telemetry over four messages of two sizes in 300 ms. *)
EXTENDS Telemetry

MCPayloads == {1, 3}
MCRtts     == {0, 2, 5}
=============================================================================
