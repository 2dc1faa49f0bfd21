---------------------------- MODULE MCTaskQueue ----------------------------
(* Small instances of TaskQueue for TLC. *)
EXTENDS TaskQueue, TLC

CONSTANTS i1, i2, w1, w2, c1, c2, s1, s2

TwoWorkers == s1 :> w1 @@ s2 :> w2
OneWorker == s1 :> w1

TaskSymmetry == Permutations({i1, i2})
============================================================================
