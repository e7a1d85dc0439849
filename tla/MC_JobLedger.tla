---------------------------- MODULE MC_JobLedger ----------------------------
(* One mapping, because the fences are per mapping: a create and a revise  *)
(* of it, in one job.                                                      *)
EXTENDS JobLedger, TLC

CONSTANTS i1, i2, j1, m1

OneJob == i1 :> j1 @@ i2 :> j1
OneMapping == i1 :> m1 @@ i2 :> m1
CreateAndRevise == i1 :> "create" @@ i2 :> "revise"
ReviseWaits == i1 :> None @@ i2 :> m1

\* A single item, for the temporal properties.
Job1 == i1 :> j1
Map1 == i1 :> m1
OneCreate == i1 :> "create"
Waits1 == i1 :> None

AttemptSymmetry == Permutations(Attempts)
=============================================================================
