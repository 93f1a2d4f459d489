----------------------------- MODULE MCPipeline -----------------------------
(***************************************************************************)
(* Instances of RooferPipeline for TLC.                                    *)
(***************************************************************************)
EXTENDS RooferPipeline

CONSTANTS w1, w2
TwoWorkers == {w1, w2}
OneWorker == {w1}

TwoAndOne == <<2, 1>>
=============================================================================
