------------------------- MODULE MC_SyncMachineRuns -------------------------
EXTENDS SyncMachineRuns

\* From no room for one transition's effects to room for three round trips.
MCStartBudgets == 1..9
=============================================================================
