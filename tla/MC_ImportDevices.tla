--------------------------- MODULE MC_ImportDevices ---------------------------
(* One device. Two occupancies of its slot may overlap; with one of them a *)
(* shop of two listings is small enough to walk twice.                     *)
EXTENDS ImportDevices, TLC

CONSTANTS d1, h1, h2

OfOneDevice == [h \in Hands |-> d1]
\* Bound: a third claim is explored where nothing failed and nobody pressed.
ThirdClaimIsUndisturbed == run.attempt < 3 \/ events = 0
Symmetry == Permutations(Hands)
===============================================================================
