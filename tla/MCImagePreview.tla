--------------------------- MODULE MCImagePreview ----------------------------
(* Two previews share one decoder and a queue of one job: the first is     *)
(* pointed at another uri once, so that three loads can meet in the queue. *)
EXTENDS ImagePreview, TLC

CONSTANTS p1, p2

MCMaxEpoch == (p1 :> 2) @@ (p2 :> 1)
=============================================================================
