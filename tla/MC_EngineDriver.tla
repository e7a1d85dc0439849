-------------------------- MODULE MC_EngineDriver --------------------------
(* One mapping; the answers are those of each adapter's submit.            *)
EXTENDS EngineDriver, TLC

CONSTANTS i1, i2, j1, m1

Job1 == i1 :> j1
Map1 == i1 :> m1
OneCreate == i1 :> "create"
TwoEdits == i1 :> "revise" @@ i2 :> "remove"
OneRevise == i1 :> "revise"
OneJob == i1 :> j1 @@ i2 :> j1
OneMapping == i1 :> m1 @@ i2 :> m1
Waits1 == i1 :> None
NothingWaits == i1 :> None @@ i2 :> None

Symmetry == Permutations(Attempts) \cup Permutations(Devices)
=============================================================================
