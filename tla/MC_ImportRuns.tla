---------------------------- MODULE MC_ImportRuns ----------------------------
(* One listing, the two phones that may read it and two passes that may      *)
(* commit it at once.                                                        *)
EXTENDS ImportRuns

CONSTANTS phone, tablet, listing, other, pass1, pass2, r1
=============================================================================
