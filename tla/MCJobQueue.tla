---------------------------- MODULE MCJobQueue ----------------------------
(* Small instances of JobQueue for TLC. *)
EXTENDS JobQueue, TLC

(* Two independent steps and a third that waits for both; and a list with a *)
(* forward edge, which enqueueBatch refuses.                                *)
FanIn == {<<{}, {}, {1, 2}>>, <<{2}, {}>>}

FanInOnly == {<<{}, {}, {1, 2}>>}

NoBatches == {}

AnyWorker == Permutations(Workers)
=============================================================================
