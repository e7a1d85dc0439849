------------------------ MODULE EngineDriver_proofs ------------------------
(***************************************************************************)
(* The driver implements the ledger's specification: whatever its runs do, *)
(* in whatever order and however they die, the ledger sees steps of its    *)
(* own, so that what is proved of the ledger holds of the driver.          *)
(***************************************************************************)
EXTENDS EngineDriver, JobLedger_proofs

(* A run is for an item, which is all a step of the ledger needs of it.    *)
ForItem(r) == "item" \in DOMAIN r /\ r.item \in Items
RunsForItems ==
  /\ run = [d \in Devices |-> run[d]]
  /\ \A d \in Devices : run[d] # None => ForItem(run[d])

-----------------------------------------------------------------------------
(* What the run operators preserve.                                        *)

LEMMA NewRunForItem ==
  ASSUME NEW i \in Items, NEW e, NEW a
  PROVE  ForItem(NewRun(i, e, a))
  BY DEF ForItem, NewRun

LEMMA TodoForItem ==
  ASSUME NEW r, ForItem(r), NEW t
  PROVE  ForItem([r EXCEPT !.todo = t])
  BY DEF ForItem

LEMMA PendingForItem ==
  ASSUME NEW r, ForItem(r), NEW t
  PROVE  ForItem([r EXCEPT !.pending = t])
  BY DEF ForItem

LEMMA OwningForItem ==
  ASSUME NEW r, ForItem(r), NEW a
  PROVE  ForItem(Owning(r, a))
  BY DEF ForItem, Owning

LEMMA AbandonedForItem ==
  ASSUME NEW r, ForItem(r)
  PROVE  ForItem(Abandoned(r))
<1>1. r.item \in Items
  BY DEF ForItem
<1>2. ForItem(NewRun(r.item, r.epoch, None))
  BY <1>1, NewRunForItem
<1> QED  BY <1>2, TodoForItem DEF Abandoned

LEMMA AnsweredForItem ==
  ASSUME NEW r, ForItem(r), NEW in
  PROVE  ForItem(Passed(r)) /\ ForItem(Answered(r, in))
<1>1. ForItem(Passed(r))
  BY DEF ForItem, Passed
<1> QED  BY <1>1, PendingForItem DEF Answered

LEMMA LoopTopForItem ==
  ASSUME NEW r, ForItem(r), NEW t, NEW x \in LoopTop(r, t)
  PROVE  ForItem(x)
<1> DEFINE At1(y) == [r EXCEPT !.m = y.next, !.todo = y.effects, !.pending = NoInput]
<1>1. \A y : ForItem(At1(y))
  BY DEF ForItem
<1>2. ForItem([At1(t) EXCEPT !.todo = <<"settle_unsent", "hand_back">>])
  BY <1>1, TodoForItem
<1>3. ForItem(Abandoned(r))
  BY AbandonedForItem
<1> HIDE DEF At1
<1> QED  BY <1>1, <1>2, <1>3 DEF LoopTop, At1

-----------------------------------------------------------------------------
(* Every step of the driver replaces at most one run, by a run for the     *)
(* same item, or takes it away.                                            *)

LEMMA BecomesForItem ==
  ASSUME RunsForItems, NEW d \in Devices, NEW r, ForItem(r) \/ r = None, Becomes(d, r)
  PROVE  RunsForItems'
  BY DEF RunsForItems, Becomes

LEMMA ThenForItem ==
  ASSUME RunsForItems, NEW d \in Devices, NEW r, ForItem(r), ForItem(run[d]), Then(d, r)
  PROVE  RunsForItems'
<1>1. ForItem(Abandoned(run[d]))
  BY AbandonedForItem
<1>2. CASE Becomes(d, r)
  BY <1>2, BecomesForItem
<1>3. CASE Becomes(d, Abandoned(run[d]))
  BY <1>1, <1>3, BecomesForItem
<1> QED  BY <1>2, <1>3 DEF Then

LEMMA FollowForItem ==
  ASSUME RunsForItems, NEW d \in Devices, NEW r, ForItem(r), NEW T, Follow(d, r, T)
  PROVE  RunsForItems'
<1>1. CASE Becomes(d, Abandoned(r))
  BY <1>1, AbandonedForItem, BecomesForItem
<1>2. CASE \E t \in T : \E x \in LoopTop(r, t) : Becomes(d, x)
  <2>1. PICK t \in T : \E x \in LoopTop(r, t) : Becomes(d, x)
    BY <1>2
  <2>2. PICK x \in LoopTop(r, t) : Becomes(d, x)
    BY <2>1
  <2>3. ForItem(x)
    BY <2>2, LoopTopForItem
  <2> QED  BY <2>2, <2>3, BecomesForItem
<1> QED  BY <1>1, <1>2 DEF Follow

(* Ledger steps an action of the driver may take.                          *)
LedgerStep == [Next]_vars

LEMMA ItemSteps ==
  ASSUME NEW i \in Items
  PROVE  /\ Renewed(i) => LedgerStep
         /\ \A g \in ParkGates : park(i, g) => LedgerStep
         /\ \A o \in Outcomes : settle(i, o) => LedgerStep
         /\ \A a \in Attempts : open_attempt(i, a) => LedgerStep
         /\ hand_back(i) => LedgerStep
  BY DEF LedgerStep, Next, LeaseStep, AttemptStep, Renewed

LEMMA ClaimSteps ==
  ASSUME NEW i \in Items, NEW d \in Devices
  PROVE  (claim_for_device(d, i) \/ claim_refused(d, i)) => LedgerStep
  BY DEF LedgerStep, Next, LeaseStep

LEMMA AttemptSteps ==
  ASSUME NEW a \in Attempts, NEW v \in Verdicts,
         NEW l \in {"none", "landed", "refused", "severed"}, settle_attempt(a, v, l)
  PROVE  LedgerStep
  BY DEF LedgerStep, Next, AttemptStep

LEMMA ItemVerdicts == \A o : outcome_to_item(o) \in Outcomes
<1> SUFFICES ASSUME NEW o PROVE outcome_to_item(o) \in Outcomes
  OBVIOUS
<1>1. outcome_to_item(o) \in {"succeeded", "failed", "ambiguous", "skipped", "blocked"}
  BY DEF outcome_to_item
<1> QED  BY <1>1, DriverAssumption

LEMMA AttemptVerdicts == \A o : outcome_to_attempt_state(o) \in Verdicts
  BY DriverAssumption DEF outcome_to_attempt_state

LEMMA RefusalGates == \A i : Refusals(i) \subseteq ParkGates
<1> SUFFICES ASSUME NEW i PROVE Refusals(i) \subseteq PreparationGates
  BY DriverAssumption
<1> QED  BY DEF Refusals, PreparationGates

-----------------------------------------------------------------------------
(* The steps.                                                              *)

LEMMA ClaimingSteps ==
  ASSUME RunsForItems, NEW d \in Devices,
         \/ \E i \in Items : Claim(d, i) \/ ClaimRefused(d, i)
         \/ Prepare(d) \/ Start(d)
  PROVE  LedgerStep /\ RunsForItems'
<1>1. ASSUME NEW i \in Items, Claim(d, i) PROVE LedgerStep /\ RunsForItems'
  <2>1. PICK a : Becomes(d, NewRun(i, item[i].epoch, a))
    BY <1>1 DEF Claim
  <2>2. claim_for_device(d, i)
    BY <1>1 DEF Claim
  <2> QED  BY <2>1, <2>2, NewRunForItem, BecomesForItem, ClaimSteps
<1>2. ASSUME NEW i \in Items, ClaimRefused(d, i) PROVE LedgerStep /\ RunsForItems'
  <2>1. claim_refused(d, i) /\ run' = run
    BY <1>2 DEF ClaimRefused
  <2> QED  BY <2>1, ClaimSteps DEF RunsForItems
<1>3. ASSUME Prepare(d) PROVE LedgerStep /\ RunsForItems'
  <2>1. ForItem(run[d])
    BY <1>3 DEF Prepare, At, RunsForItems
  <2>2. run[d].item \in Items
    BY <2>1 DEF ForItem
  <2>3. CASE Becomes(d, [run[d] EXCEPT !.todo = <<"start">>]) /\ UNCHANGED vars
    BY <2>1, <2>3, TodoForItem, BecomesForItem DEF LedgerStep
  <2>4. CASE \E g \in Refusals(run[d].item) : park(run[d].item, g) /\ Becomes(d, None)
    BY <2>2, <2>4, RefusalGates, ItemSteps, BecomesForItem
  <2> QED  BY <1>3, <2>3, <2>4 DEF Prepare
<1>4. ASSUME Start(d) PROVE LedgerStep /\ RunsForItems'
  <2>1. ForItem(run[d])
    BY <1>4 DEF Start, At, RunsForItems
  <2>2. UNCHANGED vars /\ \E T : Follow(d, run[d], T)
    BY <1>4 DEF Start
  <2> QED  BY <2>1, <2>2, FollowForItem DEF LedgerStep
<1> QED  BY <1>1, <1>2, <1>3, <1>4

LEMMA TodoAtForItem ==
  \A d \in Devices : \A s : RunsForItems /\ At(d, s) => ForItem(run[d])
  BY DEF RunsForItems, At

LEMMA IdleSteps == UNCHANGED vars => LedgerStep
  BY DEF LedgerStep

LEMMA EffectSteps ==
  ASSUME RunsForItems, NEW d \in Devices, EffectStep(d)
  PROVE  LedgerStep /\ RunsForItems'
<1>1. ASSUME AssertForm(d) PROVE LedgerStep /\ RunsForItems'
  <2>1. ForItem(run[d]) /\ run[d].item \in Items
    BY <1>1, TodoAtForItem DEF AssertForm, ForItem
  <2>2. LedgerStep
    BY <1>1, <2>1, ItemSteps DEF AssertForm
  <2>3. \/ \E a : Then(d, Answered(run[d], M!In("preflight", a)))
        \/ \E t : Then(d, [run[d] EXCEPT !.todo = t])
    BY <1>1 DEF AssertForm
  <2> QED  BY <2>1, <2>2, <2>3, AnsweredForItem, TodoForItem, ThenForItem
<1>2. ASSUME RecordIntent(d) PROVE LedgerStep /\ RunsForItems'
  <2>1. ForItem(run[d]) /\ run[d].item \in Items
    BY <1>2, TodoAtForItem DEF RecordIntent, ForItem
  <2>2. ASSUME NEW a \in Attempts, open_attempt(run[d].item, a),
               Then(d, Owning(Answered(run[d], M!InOn("intent", a)), a))
        PROVE  LedgerStep /\ RunsForItems'
    BY <2>1, <2>2, ItemSteps, AnsweredForItem, OwningForItem, ThenForItem
  <2>3. CASE Becomes(d, [run[d] EXCEPT !.todo = <<"settle_skipped">>]) /\ UNCHANGED vars
    BY <2>1, <2>3, TodoForItem, BecomesForItem, IdleSteps
  <2> QED  BY <1>2, <2>2, <2>3 DEF RecordIntent
<1>3. ASSUME Permit(d) PROVE LedgerStep /\ RunsForItems'
  <2>1. ForItem(run[d]) /\ run[d].item \in Items
    BY <1>3 DEF Permit, RunsForItems, ForItem
  <2>2. CASE Renewed(run[d].item) /\ Then(d, [run[d] EXCEPT !.todo[1] = "send"])
    BY <2>1, <2>2, ItemSteps, TodoForItem, ThenForItem
  <2>3. CASE /\ Becomes(d, [run[d] EXCEPT !.todo = <<"settle_unsent", "hand_back">>])
             /\ UNCHANGED vars
    BY <2>1, <2>3, TodoForItem, BecomesForItem, IdleSteps
  <2> QED  BY <1>3, <2>2, <2>3 DEF Permit
<1>4. ASSUME Send(d) PROVE LedgerStep /\ RunsForItems'
  <2>1. ForItem(run[d])
    BY <1>4, TodoAtForItem DEF Send
  <2>2. PICK a, b : Becomes(d, [Answered(run[d], M!In("submit", a)) EXCEPT
                                  !.blocked_mid_write = b])
    BY <1>4 DEF Send
  <2>3. ForItem([Answered(run[d], M!In("submit", a)) EXCEPT !.blocked_mid_write = b])
    BY <2>1, AnsweredForItem DEF ForItem
  <2> QED  BY <1>4, <2>2, <2>3, BecomesForItem, IdleSteps DEF Send
<1>5. ASSUME ReadBack(d) PROVE LedgerStep /\ RunsForItems'
  <2>1. ForItem(run[d]) /\ run[d].item \in Items
    BY <1>5, TodoAtForItem DEF ReadBack, ForItem
  <2>2. LedgerStep
    BY <1>5, <2>1, ItemSteps DEF ReadBack
  <2>3. \/ \E a : Then(d, Answered(run[d], M!In("read_back", a)))
        \/ Becomes(d, [run[d] EXCEPT !.todo = <<"settle_unread", "hand_back">>])
        \/ Becomes(d, Abandoned(run[d]))
    BY <1>5 DEF ReadBack
  <2> QED  BY <2>1, <2>2, <2>3, AnsweredForItem, TodoForItem, AbandonedForItem,
              ThenForItem, BecomesForItem
<1>6. ASSUME Reconcile(d) PROVE LedgerStep /\ RunsForItems'
  <2>1. ForItem(run[d]) /\ run[d].item \in Items
    BY <1>6, TodoAtForItem DEF Reconcile, ForItem
  <2>2. LedgerStep
    BY <1>6, <2>1, ItemSteps DEF Reconcile
  <2>3. \/ Then(d, Owning(Answered(run[d], M!In("reconcile", "found")), run[d].m.attempt))
        \/ \E a : Then(d, Answered(run[d], M!In("reconcile", a)))
        \/ Becomes(d, Abandoned(run[d]))
    BY <1>6 DEF Reconcile
  <2> QED  BY <2>1, <2>2, <2>3, AnsweredForItem, OwningForItem, AbandonedForItem,
              ThenForItem, BecomesForItem
<1>7. ASSUME ParkItem(d) PROVE LedgerStep /\ RunsForItems'
  <2>1. ForItem(run[d]) /\ run[d].item \in Items
    BY <1>7, TodoAtForItem DEF ParkItem, ForItem
  <2> QED  BY <1>7, <2>1, DriverAssumption, ItemSteps, AnsweredForItem, ThenForItem DEF ParkItem
<1>8. ASSUME RequeueBehindGate(d) PROVE LedgerStep /\ RunsForItems'
  <2>1. ForItem(run[d])
    BY <1>8, TodoAtForItem DEF RequeueBehindGate
  <2>2. LedgerStep
    BY <1>8, IdleSteps DEF RequeueBehindGate, LedgerStep, Next
  <2> QED  BY <1>8, <2>1, <2>2, AnsweredForItem, ThenForItem DEF RequeueBehindGate
<1>9. ASSUME Record(d) PROVE LedgerStep /\ RunsForItems'
  <2>1. ForItem(run[d])
    BY <1>9, TodoAtForItem DEF Record
  <2> QED  BY <1>9, <2>1, IdleSteps, AnsweredForItem, BecomesForItem DEF Record
<1>10. ASSUME HaltThisTenant(d) PROVE LedgerStep /\ RunsForItems'
  <2>1. ForItem(run[d])
    BY <1>10, TodoAtForItem DEF HaltThisTenant
  <2>2. LedgerStep
    BY <1>10, IdleSteps DEF HaltThisTenant, LedgerStep, Next
  <2> QED  BY <1>10, <2>1, <2>2, AnsweredForItem, ThenForItem DEF HaltThisTenant
<1> QED  BY <1>1, <1>2, <1>3, <1>4, <1>5, <1>6, <1>7, <1>8, <1>9, <1>10 DEF EffectStep

LEMMA TerminalForItem ==
  \A d \in Devices : RunsForItems /\ EffectsDone(d) => ForItem(run[d]) /\ run[d].item \in Items
  BY DEF RunsForItems, EffectsDone, ForItem

LEMMA ClosingSteps ==
  ASSUME RunsForItems, NEW d \in Devices, ClosingStep(d)
  PROVE  LedgerStep /\ RunsForItems'
<1>1. ASSUME SettleAttempt(d) PROVE LedgerStep /\ RunsForItems'
  <2>1. ForItem(run[d])
    BY <1>1, TerminalForItem DEF SettleAttempt, Terminal
  <2>2. PICK a \in Attempts, l \in {"none", "landed", "refused", "severed"} :
          settle_attempt(a, outcome_to_attempt_state(run[d].m.outcome), l)
    BY <1>1 DEF SettleAttempt
  <2>3. LedgerStep
    BY <2>2, AttemptVerdicts, AttemptSteps
  <2> QED  BY <1>1, <2>1, <2>3, TodoForItem, ThenForItem DEF SettleAttempt
<1>2. ASSUME SettleItem(d) PROVE LedgerStep /\ RunsForItems'
  <2>1. ForItem(run[d]) /\ run[d].item \in Items
    BY <1>2, TodoAtForItem, TerminalForItem DEF SettleItem, Terminal, ForItem
  <2> QED  BY <1>2, <2>1, ItemVerdicts, ItemSteps, BecomesForItem DEF SettleItem
<1>3. ASSUME SettleOutright(d) PROVE LedgerStep /\ RunsForItems'
  <2>1. ForItem(run[d]) /\ run[d].item \in Items
    BY <1>3, TodoAtForItem DEF SettleOutright, ForItem
  <2> QED  BY <1>3, <2>1, DriverAssumption, ItemSteps, BecomesForItem DEF SettleOutright
<1>4. ASSUME SettleOpenAttempt(d) PROVE LedgerStep /\ RunsForItems'
  <2>1. PICK a \in Attempts :
          \/ At(d, "settle_unsent") /\ settle_attempt(a, "abandoned", "none")
          \/ At(d, "settle_unread") /\ settle_attempt(a, Unverified, "none")
    BY <1>4 DEF SettleOpenAttempt
  <2>2. ForItem(run[d])
    BY <2>1, TodoAtForItem
  <2>3. LedgerStep
    BY <2>1, DriverAssumption, AttemptSteps DEF Unverified
  <2> QED  BY <1>4, <2>2, <2>3, AbandonedForItem, BecomesForItem DEF SettleOpenAttempt
<1>5. ASSUME Resume(d) PROVE LedgerStep /\ RunsForItems'
  <2>1. ForItem(run[d]) /\ run[d].item \in Items
    BY <1>5, TerminalForItem DEF Resume
  <2>2. ForItem([run[d] EXCEPT !.resumed = TRUE])
    BY <2>1 DEF ForItem
  <2>3. LedgerStep
    BY <1>5, <2>1, ItemSteps, IdleSteps DEF Resume
  <2>4. \/ \E T : Follow(d, [run[d] EXCEPT !.resumed = TRUE], T)
        \/ Becomes(d, Abandoned(run[d]))
    BY <1>5 DEF Resume
  <2> QED  BY <2>1, <2>2, <2>3, <2>4, FollowForItem, AbandonedForItem, BecomesForItem
<1>6. ASSUME Advance(d) PROVE LedgerStep /\ RunsForItems'
  <2>1. ForItem(run[d])
    BY <1>6, TerminalForItem DEF Advance
  <2>2. (\E T : Follow(d, run[d], T)) \/ Becomes(d, Abandoned(run[d]))
    BY <1>6 DEF Advance
  <2> QED  BY <1>6, <2>1, <2>2, IdleSteps, FollowForItem, AbandonedForItem, BecomesForItem
           DEF Advance
<1>7. ASSUME HandBack(d) PROVE LedgerStep /\ RunsForItems'
  <2>1. run[d].item \in Items
    BY <1>7, TodoAtForItem DEF HandBack, ForItem
  <2> QED  BY <1>7, <2>1, ItemSteps, BecomesForItem DEF HandBack
<1>8. ASSUME CallFails(d) PROVE LedgerStep /\ RunsForItems'
  <2>1. ForItem(run[d])
    BY <1>8 DEF CallFails, Calls, Terminal, EffectsDone, RunsForItems
  <2>2. Becomes(d, None) \/ Becomes(d, Abandoned(run[d]))
    BY <1>8 DEF CallFails
  <2> QED  BY <1>8, <2>1, <2>2, IdleSteps, AbandonedForItem, BecomesForItem DEF CallFails
<1>9. ASSUME Crash(d) PROVE LedgerStep /\ RunsForItems'
  BY <1>9, IdleSteps, BecomesForItem DEF Crash
<1> QED  BY <1>1, <1>2, <1>3, <1>4, <1>5, <1>6, <1>7, <1>8, <1>9 DEF ClosingStep

LEMMA EnvironmentSteps == RunsForItems /\ Environment => LedgerStep /\ RunsForItems'
  BY DEF Environment, LedgerStep, Next, RunsForItems

-----------------------------------------------------------------------------
(* The theorems.                                                           *)

LEMMA DriverSteps ==
  ASSUME RunsForItems, [DriverNext]_driverVars
  PROVE  LedgerStep /\ RunsForItems'
<1>1. CASE UNCHANGED driverVars
  BY <1>1, IdleSteps DEF driverVars, RunsForItems
<1>2. CASE Environment
  BY <1>2, EnvironmentSteps
<1>3. ASSUME NEW d \in Devices,
             \/ \E i \in Items : Claim(d, i) \/ ClaimRefused(d, i)
             \/ Prepare(d) \/ Start(d) \/ EffectStep(d) \/ ClosingStep(d)
      PROVE  LedgerStep /\ RunsForItems'
  BY <1>3, ClaimingSteps, EffectSteps, ClosingSteps
<1> QED  BY <1>1, <1>2, <1>3 DEF DriverNext

\* The driver implements the ledger's specification: every call a run makes of
\* the ledger, in whatever state of the run and however late, is one the
\* ledger's model already lets some holder make, with a gate, an outcome or a
\* verdict it allows (drive_item, outcome_to_item, outcome_to_attempt_state).
THEOREM DriverImplementsLedger == DriverSpec => Spec
<1>1. DriverInit => Init /\ RunsForItems
  BY DEF DriverInit, RunsForItems
<1>2. RunsForItems /\ [DriverNext]_driverVars => [Next]_vars /\ RunsForItems'
  BY DriverSteps DEF LedgerStep
<1> QED  BY <1>1, <1>2, PTL DEF DriverSpec, Spec

\* A job that answered `deleted` is quiet in every behaviour of the driver: no
\* run that was mid-way when Delete was pressed leaves it an unsettled item or
\* an undecided attempt.
THEOREM DriverKeepsDeletedQuiet == DriverSpec => []DeletedIsQuiet
  BY DriverImplementsLedger, DeletedJobIsQuiet, PTL

\* No step of a run takes back a `deleted` answer or touches what it covers.
THEOREM DriverKeepsDeletedFinal == DriverSpec => DeletedIsFinal
  BY DriverImplementsLedger, DeletedForEver, PTL
=============================================================================
