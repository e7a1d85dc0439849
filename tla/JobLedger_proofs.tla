-------------------------- MODULE JobLedger_proofs --------------------------
(***************************************************************************)
(* Proofs about the job ledger, for every number of items, jobs, mappings, *)
(* devices and attempts.                                                   *)
(***************************************************************************)
EXTENDS JobLedger, TLAPS

Row(r) == r \in Rows /\ WellFormed(r)
LedgerOutcomes == {"succeeded", "degraded", "failed", "ambiguous", "skipped",
                   "blocked", "cancelled"}

-----------------------------------------------------------------------------
(* What the row operators preserve.                                        *)

LEMMA ParkedRow ==
  ASSUME NEW r, Row(r), r.state # "settled", NEW g \in Gates,
         NEW p \in {"none", "running"}
  PROVE  Row(Parked(r, g, p))
  BY NoneAssumption DEF Row, Rows, WellFormed, Parked, Freed

LEMMA RequeuedRow ==
  ASSUME NEW r, Row(r), r.state # "settled"
  PROVE  Row(Requeued(r)) /\ Requeued(r).count = r.count
  BY DEF Row, Rows, WellFormed, Requeued, Freed

LEMMA SettledRow ==
  ASSUME NEW r, Row(r), NEW o \in LedgerOutcomes
  PROVE  Row(Settled(r, o))
  BY DEF Row, Rows, WellFormed, Settled, Freed, LedgerOutcomes

LEMMA BumpedRow ==
  ASSUME NEW r, Row(r)
  PROVE  Row(Bumped(r))
  BY DEF Row, Rows, WellFormed, Bumped

LEMMA ChargedRow ==
  ASSUME NEW r, Row(r), r.count < MaxCount
  PROVE  Row(Charged(r))
  BY BudgetAssumption DEF Row, Rows, WellFormed, Charged

LEMMA ChargedBackRow ==
  ASSUME NEW r, Row(r), r.state # "settled", ~attempt_budget_spent(r)
  PROVE  Row(ChargedBack(r))
<1>1. r.count \in Nat /\ r.count < MaxCount
  BY BudgetAssumption DEF Row, Rows, WellFormed, attempt_budget_spent
<1>2. Row(Requeued(r)) /\ Requeued(r).count < MaxCount
  BY <1>1, RequeuedRow
<1>3. Row(Charged(Requeued(r)))
  BY <1>2, ChargedRow
<1> QED  BY <1>3, BumpedRow DEF ChargedBack

-----------------------------------------------------------------------------
(* What the ledger-wide operators preserve.                                *)

Ledger(it) == it \in [Items -> Rows] /\ \A i \in Items : WellFormed(it[i])

LEMMA LedgerRows == \A it : Ledger(it) => \A i \in Items : Row(it[i])
  BY DEF Ledger, Row

LEMMA LedgerWith ==
  ASSUME NEW it, Ledger(it), NEW i \in Items, NEW r, Row(r)
  PROVE  Ledger([it EXCEPT ![i] = r])
  BY DEF Ledger, Row

LEMMA LedgerOf ==
  ASSUME NEW it, it = [i \in Items |-> it[i]], \A i \in Items : Row(it[i])
  PROVE  Ledger(it)
  BY DEF Ledger, Row

LEMMA MarketplaceGate == "awaiting_marketplace_answer" \in Gates
  BY DEF Gates

LEMMA ParkedStopped ==
  ASSUME NEW it, Ledger(it), NEW att, NEW j
  PROVE  Ledger(park_stopped_writes(it, att, j))
<1> DEFINE ps == park_stopped_writes(it, att, j)
<1>1. ps = [i \in Items |-> ps[i]]
  BY DEF park_stopped_writes
<1>2. ASSUME NEW i \in Items PROVE Row(ps[i])
  <2>1. Row(it[i])
    BY LedgerRows
  <2>2. Lapsed(it[i]) => Row(Parked(it[i], "awaiting_marketplace_answer", "none"))
    BY <2>1, ParkedRow, MarketplaceGate DEF Lapsed
  <2> QED  BY <2>1, <2>2 DEF park_stopped_writes
<1> HIDE DEF ps
<1>3. Ledger(ps)
  BY <1>1, <1>2, LedgerOf
<1> QED  BY <1>3 DEF ps

LEMMA Cancelled ==
  ASSUME NEW it, Ledger(it), NEW att, NEW j
  PROVE  Ledger(cancel_unstarted_items(it, att, j))
<1> DEFINE ci == cancel_unstarted_items(it, att, j)
<1>1. ci = [i \in Items |-> ci[i]]
  BY DEF cancel_unstarted_items
<1>2. ASSUME NEW i \in Items PROVE Row(ci[i])
  <2>1. Row(it[i])
    BY LedgerRows
  <2>2. Row(Bumped(Settled(it[i], "cancelled")))
    BY <2>1, SettledRow, BumpedRow DEF LedgerOutcomes
  <2> QED  BY <2>1, <2>2 DEF cancel_unstarted_items
<1> HIDE DEF ci
<1>3. Ledger(ci)
  BY <1>1, <1>2, LedgerOf
<1> QED  BY <1>3 DEF ci

LEMMA FencedLedger ==
  ASSUME NEW it, Ledger(it), NEW att, NEW j
  PROVE  Ledger(Fenced(it, att, j))
  BY ParkedStopped, Cancelled DEF Fenced

LEMMA Classified ==
  ASSUME NEW it, NEW att, NEW j
  PROVE  classify_deletion(it, att, j) \in {"stopping", "needs_review", "deleted"}
  BY DEF classify_deletion

-----------------------------------------------------------------------------
(* Type correctness: first the rows, action by action, then the rest.      *)

LEMMA TypedLedger == TypeOK => Ledger(item)
  BY DEF TypeOK, Ledger

LEMMA FenceTyped ==
  ASSUME NEW it, Ledger(it), NEW att, NEW j,
         fence_and_classify(it, att, j) \/ reconcile_job_deletion(it, att, j)
  PROVE  Ledger(item')
  BY FencedLedger DEF fence_and_classify, reconcile_job_deletion

LEMMA ClaimedTyped ==
  ASSUME TypeOK, NEW i \in Items, NEW d \in Devices, Claimable(i)
  PROVE  Ledger(Claimed(d, i)) /\ Claimed(d, i)[i].state = "leased"
<1>1. Ledger(item) /\ Row(item[i])
  BY TypedLedger, LedgerRows
<1> DEFINE r == [item[i] EXCEPT !.state = "leased", !.owner = d, !.lapsed = FALSE,
                                !.gate = None, !.park = "none"]
<1>2. item[i].state # "settled"
  BY DEF Claimable, Reconcilable
<1>3. Row(r) /\ r.state = "leased"
  BY <1>1, <1>2, NoneAssumption DEF Row, Rows, WellFormed
<1>4. Claimed(d, i) = [item EXCEPT ![i] = r]
  BY <1>1 DEF Claimed, Ledger, Rows
<1> HIDE DEF r
<1>5. Ledger([item EXCEPT ![i] = r]) /\ [item EXCEPT ![i] = r][i] = r
  BY <1>1, <1>3, LedgerWith DEF Ledger
<1> QED  BY <1>3, <1>4, <1>5

LEMMA ChargeTyped ==
  ASSUME NEW it, Ledger(it), NEW i \in Items, it[i].state # "settled",
         charge_and_requeue(it, i)
  PROVE  Ledger(item')
<1> DEFINE r == IF attempt_budget_spent(it[i]) THEN Bumped(Settled(it[i], "failed"))
                                               ELSE ChargedBack(it[i])
<1>1. Row(it[i])
  BY LedgerRows
<1>2. Row(Bumped(Settled(it[i], "failed")))
  BY <1>1, SettledRow, BumpedRow DEF LedgerOutcomes
<1>3. ~attempt_budget_spent(it[i]) => Row(ChargedBack(it[i]))
  BY <1>1, ChargedBackRow
<1>4. Row(r)
  BY <1>2, <1>3
<1>5. reconcile_job_deletion([it EXCEPT ![i] = r], attempt, JobOf[i])
  BY DEF charge_and_requeue
<1> HIDE DEF r
<1>6. Ledger([it EXCEPT ![i] = r])
  BY <1>4, LedgerWith
<1> QED  BY <1>5, <1>6, FenceTyped

LEMMA RevivedTyped ==
  ASSUME TypeOK, NEW g, NEW M
  PROVE  Ledger(Revived(g, M))
<1> DEFINE rv == Revived(g, M)
<1>1. rv = [i \in Items |-> rv[i]]
  BY DEF Revived
<1>2. ASSUME NEW i \in Items PROVE Row(rv[i])
  <2>1. Row(item[i])
    BY TypedLedger, LedgerRows
  <2>2. Awaits(i, g, M) => Row(Requeued(item[i]))
    BY <2>1, RequeuedRow DEF Awaits
  <2> QED  BY <2>1, <2>2 DEF Revived
<1> HIDE DEF rv
<1>3. Ledger(rv)
  BY <1>1, <1>2, LedgerOf
<1> QED  BY <1>3 DEF rv

LEMMA LeaseStepTyped ==
  ASSUME TypeOK, NEW i \in Items, LeaseStep(i)
  PROVE  Ledger(item')
<1>1. Ledger(item) /\ Row(item[i])
  BY TypedLedger, LedgerRows
<1>2. ASSUME NEW d \in Devices, claim_for_device(d, i) PROVE Ledger(item')
  BY <1>2, ClaimedTyped DEF claim_for_device
<1>3. ASSUME NEW d \in Devices, claim_refused(d, i) PROVE Ledger(item')
  <2>1. Ledger(Claimed(d, i)) /\ Claimed(d, i)[i].state = "leased"
    BY <1>3, ClaimedTyped DEF claim_refused
  <2>2. charge_and_requeue(Claimed(d, i), i)
    BY <1>3 DEF claim_refused
  <2> QED  BY <2>1, <2>2, ChargeTyped
<1>4. CASE renew(i)
  <2> DEFINE r == [item[i] EXCEPT !.lapsed = FALSE]
  <2>1. Row(r)
    BY <1>1 DEF Row, Rows, WellFormed
  <2>2. item' = [item EXCEPT ![i] = r]
    BY <1>4 DEF renew
  <2> HIDE DEF r
  <2> QED  BY <1>1, <2>1, <2>2, LedgerWith
<1>5. ASSUME NEW o \in Outcomes, settle(i, o) PROVE Ledger(item')
  <2>1. Row(Settled(item[i], o))
    BY <1>1, SettledRow, HolderAssumption DEF LedgerOutcomes
  <2>2. Ledger([item EXCEPT ![i] = Settled(item[i], o)])
    BY <1>1, <2>1, LedgerWith
  <2>3. reconcile_job_deletion([item EXCEPT ![i] = Settled(item[i], o)], attempt, JobOf[i])
    BY <1>5 DEF settle
  <2> QED  BY <2>2, <2>3, FenceTyped
<1>6. ASSUME NEW g \in ParkGates, park(i, g) PROVE Ledger(item')
  <2>1. Row(Parked(item[i], g, "running"))
    BY <1>1, <1>6, ParkedRow, ItemsAssumption DEF park, Leased
  <2> QED  BY <1>1, <1>6, <2>1, LedgerWith DEF park
<1>7. CASE hand_back(i)
  <2>1. item[i].state # "settled"
    BY <1>7 DEF hand_back, Leased
  <2>2. Row(Parked(item[i], "awaiting_marketplace_answer", "none"))
    BY <1>1, <2>1, ParkedRow, MarketplaceGate
  <2>3. Ledger([item EXCEPT ![i] = Parked(item[i], "awaiting_marketplace_answer", "none")])
    BY <1>1, <2>2, LedgerWith
  <2>4. CASE charge_and_requeue(item, i)
    BY <1>1, <2>1, <2>4, ChargeTyped
  <2> QED  BY <1>7, <2>3, <2>4 DEF hand_back
<1> QED  BY <1>2, <1>3, <1>4, <1>5, <1>6, <1>7 DEF LeaseStep

\* The arms of revive_expired match disjoint rows, so their order is free.
LEMMA GateArmsAreDisjoint ==
  ASSUME NEW i
  PROVE  /\ FallsBack(i) \/ Relinked(i) => ~GivesUp(item[i]) /\ ~ReGated(i)
         /\ ReGated(i) => ~GivesUp(item[i])
  BY DEF FallsBack, Relinked, ReGated, GivesUp, REVIVABLE_GATES

LEMMA ReaperTyped ==
  ASSUME TypeOK, Reaper
  PROVE  Ledger(item')
<1>1. Ledger(item) /\ \A i \in Items : Row(item[i])
  BY TypedLedger, LedgerRows
<1>2. ASSUME NEW i \in Items, Leased(item[i])
      PROVE  /\ Row(Parked(item[i], "awaiting_marketplace_answer", "none"))
             /\ Row(Bumped(Settled(item[i], "failed")))
             /\ ~attempt_budget_spent(item[i]) => Row(ChargedBack(item[i]))
  <2>1. Row(item[i]) /\ item[i].state # "settled"
    BY <1>1, <1>2 DEF Leased
  <2>2. Row(Settled(item[i], "failed"))
    BY <2>1, SettledRow DEF LedgerOutcomes
  <2> QED  BY <2>1, <2>2, ParkedRow, MarketplaceGate, BumpedRow, ChargedBackRow
<1>3. CASE expire_park
  <2>1. item' = [i \in Items |-> item'[i]]
    BY <1>3 DEF expire_park
  <2>2. ASSUME NEW i \in Items PROVE Row(item'[i])
    BY <1>1, <1>2, <1>3 DEF expire_park, Lapsed, Leased
  <2> QED  BY <2>1, <2>2, LedgerOf
<1>4. CASE expire_steal
  <2>1. item' = [i \in Items |-> item'[i]]
    BY <1>4 DEF expire_steal
  <2>2. ASSUME NEW i \in Items PROVE Row(item'[i])
    <3>1. \/ item'[i] = item[i]
          \/ Leased(item[i]) /\ item'[i] = Bumped(Settled(item[i], "failed"))
          \/ /\ Leased(item[i]) /\ ~attempt_budget_spent(item[i])
             /\ item'[i] = ChargedBack(item[i])
      BY <1>4 DEF expire_steal, Stealable, Lapsed, Leased
    <3> QED  BY <1>1, <1>2, <3>1
  <2> QED  BY <2>1, <2>2, LedgerOf
<1>5. CASE revive_expired
  <2>1. item' = [i \in Items |-> item'[i]]
    BY <1>5 DEF revive_expired
  <2>2. ASSUME NEW i \in Items PROVE Row(item'[i])
    <3>1. \/ item'[i] = item[i]
          \/ item'[i] = Settled(item[i], "skipped")
          \/ /\ FallsBack(i) \/ Relinked(i)
             /\ item'[i] = Charged(Requeued(item[i]))
          \/ ReGated(i) /\ item'[i] = [item[i] EXCEPT !.gate = "awaiting_seller_signin",
                                                      !.park = "none"]
      <4>1. item'[i] = Revival(i)
        BY <1>5 DEF revive_expired
      <4>2. CASE GivesUp(item[i]) /\ ~(FallsBack(i) \/ Relinked(i)) /\ ~ReGated(i)
        BY <4>1, <4>2 DEF Revival
      <4>3. CASE FallsBack(i) \/ Relinked(i)
        BY <4>1, <4>3, GateArmsAreDisjoint DEF Revival
      <4>4. CASE ReGated(i)
        BY <4>1, <4>4, GateArmsAreDisjoint DEF Revival
      <4>5. CASE ~GivesUp(item[i]) /\ ~(FallsBack(i) \/ Relinked(i)) /\ ~ReGated(i)
        BY <4>1, <4>5 DEF Revival
      <4> QED  BY <4>2, <4>3, <4>4, <4>5
    <3>2. Row(item[i])
      BY <1>1
    <3>3. CASE FallsBack(i) \/ Relinked(i)
      <4>1. item[i].state # "settled" /\ item[i].count < MaxCount
        BY <3>2, <3>3, BudgetAssumption
        DEF FallsBack, Relinked, attempt_budget_spent, Row, Rows, WellFormed
      <4>2. Row(Requeued(item[i])) /\ Requeued(item[i]).count < MaxCount
        BY <3>2, <4>1, RequeuedRow
      <4>3. Row(Charged(Requeued(item[i])))
        BY <4>2, ChargedRow
      <4>4. ~ReGated(i)
        BY <3>3 DEF FallsBack, Relinked, ReGated, REVIVABLE_GATES
      <4> QED  BY <3>1, <3>2, <4>3, <4>4, SettledRow DEF LedgerOutcomes
    <3>4. CASE ReGated(i)
      <4>1. Row([item[i] EXCEPT !.gate = "awaiting_seller_signin", !.park = "none"])
        BY <3>2, <3>4, NoneAssumption DEF ReGated, Row, Rows, WellFormed, Gates
      <4>2. ~FallsBack(i) /\ ~Relinked(i)
        BY <3>4 DEF FallsBack, Relinked, ReGated, REVIVABLE_GATES
      <4> QED  BY <3>1, <3>2, <4>1, <4>2, SettledRow DEF LedgerOutcomes
    <3> QED  BY <3>1, <3>2, <3>3, <3>4, SettledRow DEF LedgerOutcomes
  <2> QED  BY <2>1, <2>2, LedgerOf
<1> QED  BY <1>3, <1>4, <1>5 DEF Reaper

LEMMA ClockTyped ==
  ASSUME TypeOK, NEW i \in Items, LeaseLapses(i) \/ ParkFallsDue(i)
  PROVE  Ledger(item')
<1>1. Ledger(item) /\ Row(item[i])
  BY TypedLedger, LedgerRows
<1>2. CASE LeaseLapses(i)
  <2>1. Row([item[i] EXCEPT !.lapsed = TRUE])
    BY <1>1, <1>2 DEF LeaseLapses, Leased, Row, Rows, WellFormed
  <2>2. item' = [item EXCEPT ![i] = [item[i] EXCEPT !.lapsed = TRUE]]
    BY <1>2 DEF LeaseLapses
  <2> QED  BY <1>1, <2>1, <2>2, LedgerWith
<1>3. CASE ParkFallsDue(i)
  <2>1. Row([item[i] EXCEPT !.park = "due"])
    BY <1>1, <1>3 DEF ParkFallsDue, Row, Rows, WellFormed
  <2>2. item' = [item EXCEPT ![i] = [item[i] EXCEPT !.park = "due"]]
    BY <1>3 DEF ParkFallsDue
  <2> QED  BY <1>1, <2>1, <2>2, LedgerWith
<1> QED  BY <1>2, <1>3

LEMMA RowsStayTyped ==
  ASSUME TypeOK, [Next]_vars
  PROVE  Ledger(item')
<1>1. Ledger(item)
  BY TypedLedger
<1>2. ASSUME NEW i \in Items, LeaseStep(i) PROVE Ledger(item')
  BY <1>2, LeaseStepTyped
<1>3. ASSUME NEW a \in Attempts, AttemptStep(a) PROVE Ledger(item')
  <2>1. \/ item' = item
        \/ item' = Revived("awaiting_counterpart", {MappingOf[attempt[a].item]})
    BY <1>3 DEF AttemptStep, open_attempt, settle_attempt
  <2> QED  BY <1>1, <2>1, RevivedTyped
<1>4. CASE SellerStep
  <2>1. ASSUME NEW j \in Jobs, delete(j) PROVE Ledger(item')
    BY <1>1, <2>1, FenceTyped DEF delete
  <2>2. ASSUME NEW g, NEW M, seller_answers(g, M) PROVE Ledger(item')
    BY <2>2, RevivedTyped DEF seller_answers
  <2>3. CASE Relink
    BY <1>1, <2>3 DEF Relink
  <2>4. ASSUME NEW m \in Mappings, bind_pasted(m) PROVE Ledger(item')
    BY <1>1, <2>4 DEF bind_pasted
  <2> QED  BY <1>4, <2>1, <2>2, <2>3, <2>4 DEF SellerStep
<1>5. CASE Reaper
  BY <1>5, ReaperTyped
<1>6. CASE Sweep
  BY <1>1, <1>6, FenceTyped DEF Sweep, finalise_deletion
<1>7. CASE Clock
  BY <1>7, ClockTyped DEF Clock
<1>8. CASE gate_connection \/ \E h \in Halts : raise_org_inventory(h) \/ OperatorLiftsHalt(h)
  BY <1>1, <1>8 DEF gate_connection, raise_org_inventory, OperatorLiftsHalt
<1>9. CASE UNCHANGED vars
  BY <1>1, <1>9 DEF vars
<1> QED  BY <1>2, <1>3, <1>4, <1>5, <1>6, <1>7, <1>8, <1>9 DEF Next

AttemptsTyped ==
  /\ attempt \in [Attempts -> AttemptRows]
  /\ \A a \in Attempts : attempt[a].item = None <=> attempt[a].state = "none"
OthersTyped ==
  /\ binding \in [Mappings -> {"unbound", "bound", "severed"}]
  /\ linked \in BOOLEAN /\ halts \subseteq Halts
  /\ deletion \in [Jobs -> {"none", "stopping", "needs_review", "deleted"}]
  /\ announced \in [Jobs -> BOOLEAN]
  /\ reaping \subseteq Items

LEMMA OpenedTyped ==
  ASSUME TypeOK, NEW i \in Items, NEW a \in Attempts, open_attempt(i, a)
  PROVE  AttemptsTyped'
<1>1. AttemptsTyped /\ item[i].epoch \in Nat /\ i # None
  BY NoneAssumption DEF TypeOK, Rows, AttemptsTyped
<1> DEFINE r == [state |-> "in_flight", item |-> i, epoch |-> item[i].epoch]
<1>2. r \in AttemptRows /\ r.item # None /\ r.state # "none"
  BY <1>1 DEF AttemptRows
<1>3. attempt' = [attempt EXCEPT ![a] = r]
  BY DEF open_attempt
<1> HIDE DEF r
<1> QED  BY <1>1, <1>2, <1>3 DEF AttemptsTyped

LEMMA VerdictTyped ==
  ASSUME TypeOK, NEW a \in Attempts, attempt[a].state = "in_flight",
         NEW v \in {"committed", "failed", "ambiguous", "abandoned"}
  PROVE  LET r == [attempt[a] EXCEPT !.state = v] IN
           r \in AttemptRows /\ r.item # None /\ r.state # "none"
  BY DEF TypeOK, AttemptRows

LEMMA AttemptsStayTyped ==
  ASSUME TypeOK, [Next]_vars
  PROVE  AttemptsTyped'
<1>1. AttemptsTyped
  BY DEF TypeOK, AttemptsTyped
<1>2. CASE UNCHANGED attempt
  BY <1>1, <1>2 DEF AttemptsTyped
<1>3. CASE revive_expired
  <2>1. attempt' = [a \in Attempts |-> Released(a)]
    BY <1>3 DEF revive_expired
  <2>2. ASSUME NEW a \in Attempts
        PROVE  /\ Released(a) \in AttemptRows
               /\ Released(a).item = None <=> Released(a).state = "none"
    BY <1>1, VerdictTyped DEF Released, AttemptsTyped
  <2> QED  BY <2>1, <2>2 DEF AttemptsTyped
<1>4. ASSUME NEW a \in Attempts, AttemptStep(a) PROVE AttemptsTyped'
  <2>1. ASSUME NEW v \in Verdicts, NEW landing, settle_attempt(a, v, landing)
        PROVE  AttemptsTyped'
    <3> DEFINE r == [attempt[a] EXCEPT !.state = v]
    <3>1. r \in AttemptRows /\ r.item # None /\ r.state # "none"
      BY <2>1, VerdictTyped, HolderAssumption DEF settle_attempt
    <3>2. attempt' = [attempt EXCEPT ![a] = r]
      BY <2>1 DEF settle_attempt
    <3> HIDE DEF r
    <3> QED  BY <1>1, <3>1, <3>2 DEF AttemptsTyped
  <2> QED  BY <1>4, <2>1, OpenedTyped DEF AttemptStep
<1>5. ASSUME NEW i \in Items, LeaseStep(i) PROVE UNCHANGED attempt
  BY <1>5 DEF LeaseStep, claim_for_device, claim_refused, charge_and_requeue, renew,
              settle, park, hand_back
<1>6. SellerStep \/ Sweep \/ Clock => UNCHANGED attempt
  BY DEF SellerStep, Sweep, Clock, seller_answers, bind_pasted, delete, Relink, finalise_deletion,
         LeaseLapses, ParkFallsDue
<1>7. expire_park \/ expire_steal \/ gate_connection => UNCHANGED attempt
  BY DEF expire_park, expire_steal, gate_connection
<1>8. (\E h \in Halts : raise_org_inventory(h) \/ OperatorLiftsHalt(h)) => UNCHANGED attempt
  BY DEF raise_org_inventory, OperatorLiftsHalt
<1> QED  BY <1>2, <1>3, <1>4, <1>5, <1>6, <1>7, <1>8 DEF Next, Reaper, vars

LEMMA AnnouncedTyped ==
  ASSUME TypeOK, NEW it, NEW J, settle_if_complete(it, J)
  PROVE  announced' \in [Jobs -> BOOLEAN]
  BY DEF TypeOK, settle_if_complete

LEMMA DeletionTyped ==
  ASSUME TypeOK, NEW it, NEW att, NEW j \in Jobs,
         fence_and_classify(it, att, j) \/ reconcile_job_deletion(it, att, j)
  PROVE  deletion' \in [Jobs -> {"none", "stopping", "needs_review", "deleted"}]
  BY Classified DEF TypeOK, fence_and_classify, reconcile_job_deletion

LEMMA ChargeKeepsOthers ==
  ASSUME TypeOK, NEW it, NEW i \in Items, charge_and_requeue(it, i)
  PROVE  OthersTyped'
<1>1. announced' \in [Jobs -> BOOLEAN]
  BY AnnouncedTyped DEF charge_and_requeue
<1>2. deletion' \in [Jobs -> {"none", "stopping", "needs_review", "deleted"}]
  BY DeletionTyped, ItemsAssumption DEF charge_and_requeue
<1> QED  BY <1>1, <1>2 DEF OthersTyped, TypeOK, charge_and_requeue

LEMMA OthersStayTyped ==
  ASSUME TypeOK, [Next]_vars
  PROVE  OthersTyped'
<1>1. ASSUME NEW i \in Items, LeaseStep(i) PROVE OthersTyped'
  <2>1. ASSUME NEW o \in Outcomes, settle(i, o) PROVE OthersTyped'
    <3>1. announced' \in [Jobs -> BOOLEAN]
      BY <2>1, AnnouncedTyped DEF settle
    <3>2. deletion' \in [Jobs -> {"none", "stopping", "needs_review", "deleted"}]
      BY <2>1, DeletionTyped, ItemsAssumption DEF settle
    <3> QED  BY <2>1, <3>1, <3>2 DEF OthersTyped, TypeOK, settle
  <2>2. ASSUME NEW d \in Devices, claim_refused(d, i) PROVE OthersTyped'
    BY <2>2, ChargeKeepsOthers DEF claim_refused
  <2>3. CASE hand_back(i)
    BY <2>3, ChargeKeepsOthers DEF hand_back, OthersTyped, TypeOK
  <2>4. CASE \/ \E d \in Devices : claim_for_device(d, i)
             \/ renew(i)
             \/ \E g \in ParkGates : park(i, g)
    BY <2>4 DEF claim_for_device, renew, park, OthersTyped, TypeOK
  <2> QED  BY <1>1, <2>1, <2>2, <2>3, <2>4 DEF LeaseStep
<1>2. ASSUME NEW a \in Attempts, AttemptStep(a) PROVE OthersTyped'
  <2>1. ASSUME NEW i \in Items, open_attempt(i, a) PROVE OthersTyped'
    BY <2>1 DEF open_attempt, OthersTyped, TypeOK
  <2>2. ASSUME NEW v \in Verdicts, NEW landing, settle_attempt(a, v, landing)
        PROVE  OthersTyped'
    <3>1. binding' \in [Mappings -> {"unbound", "bound", "severed"}]
      <4> DEFINE m == MappingOf[attempt[a].item]
      <4>1. \/ binding' = binding
            \/ binding' = [binding EXCEPT ![m] = "bound"]
            \/ binding' = [binding EXCEPT ![m] = "severed"]
        BY <2>2 DEF settle_attempt
      <4> QED  BY <4>1 DEF TypeOK
    <3> QED  BY <2>2, <3>1 DEF settle_attempt, OthersTyped, TypeOK
  <2> QED  BY <1>2, <2>1, <2>2 DEF AttemptStep
<1>3. CASE SellerStep
  <2>1. ASSUME NEW j \in Jobs, delete(j) PROVE OthersTyped'
    <3>1. deletion' \in [Jobs -> {"none", "stopping", "needs_review", "deleted"}]
      BY <2>1, DeletionTyped DEF delete
    <3> QED  BY <2>1, <3>1 DEF delete, OthersTyped, TypeOK
  <2>2. ASSUME NEW m \in Mappings, bind_pasted(m) PROVE OthersTyped'
    BY <2>2 DEF bind_pasted, OthersTyped, TypeOK
  <2> QED  BY <1>3, <2>1, <2>2 DEF SellerStep, seller_answers, Relink, OthersTyped, TypeOK
<1>4. CASE Sweep
  <2>1. deletion' \in [Jobs -> {"none", "stopping", "needs_review", "deleted"}]
    BY <1>4, DeletionTyped DEF Sweep, finalise_deletion
  <2> QED  BY <1>4, <2>1 DEF Sweep, finalise_deletion, OthersTyped, TypeOK
<1>5. CASE Reaper
  <2>1. CASE expire_park
    BY <2>1 DEF expire_park, OthersTyped, TypeOK
  <2>2. CASE expire_steal
    BY <2>2, AnnouncedTyped DEF expire_steal, OthersTyped, TypeOK
  <2>3. CASE revive_expired
    BY <2>3, AnnouncedTyped DEF revive_expired, OthersTyped, TypeOK
  <2> QED  BY <1>5, <2>1, <2>2, <2>3 DEF Reaper
<1>6. CASE \/ Clock \/ gate_connection
           \/ \E h \in Halts : raise_org_inventory(h) \/ OperatorLiftsHalt(h)
  BY <1>6 DEF Clock, LeaseLapses, ParkFallsDue, gate_connection, raise_org_inventory,
              OperatorLiftsHalt, OthersTyped, TypeOK
<1>7. CASE UNCHANGED vars
  BY <1>7 DEF vars, OthersTyped, TypeOK
<1> QED  BY <1>1, <1>2, <1>3, <1>4, <1>5, <1>6, <1>7 DEF Next

\* Every row of the ledger keeps its shape in every reachable state: an owner
\* exactly while leased, a gate exactly while parked, an outcome exactly once
\* settled, and a charge count within the budget (jobs.rs, every UPDATE).
THEOREM TypeCorrect == Spec => []TypeOK
<1>1. Init => TypeOK
  BY NoneAssumption, BudgetAssumption
  DEF Init, TypeOK, Rows, WellFormed, AttemptRows, NewRow
<1>2. TypeOK /\ [Next]_vars => TypeOK'
  <2> SUFFICES ASSUME TypeOK, [Next]_vars PROVE TypeOK'
    OBVIOUS
  <2> QED  BY RowsStayTyped, AttemptsStayTyped, OthersStayTyped
           DEF TypeOK, Ledger, AttemptsTyped, OthersTyped
<1> QED  BY <1>1, <1>2, PTL DEF Spec

-----------------------------------------------------------------------------
(* A settled row is history.                                               *)

LEMMA FenceKeepsSettled ==
  ASSUME NEW it, NEW att, NEW j, NEW i \in Items, it[i].state = "settled",
         fence_and_classify(it, att, j) \/ reconcile_job_deletion(it, att, j)
  PROVE  item'[i] = it[i]
<1>1. park_stopped_writes(it, att, j)[i] = it[i]
  BY DEF park_stopped_writes, Lapsed
<1>2. Fenced(it, att, j)[i] = it[i]
  BY <1>1 DEF Fenced, cancel_unstarted_items, Cancellable
<1> QED  BY <1>2 DEF fence_and_classify, reconcile_job_deletion

LEMMA LeaseStepKeepsSettled ==
  ASSUME TypeOK, NEW k \in Items, LeaseStep(k), NEW i \in Items, item[i].state = "settled"
  PROVE  item'[i] = item[i]
<1>1. Ledger(item)
  BY TypedLedger
<1>2. ASSUME NEW d \in Devices, claim_for_device(d, k) \/ claim_refused(d, k)
      PROVE  k # i /\ Ledger(Claimed(d, k)) /\ Claimed(d, k)[i] = item[i]
  <2>1. Claimable(k)
    BY <1>2 DEF claim_for_device, claim_refused
  <2>2. k # i
    BY <2>1 DEF Claimable, Reconcilable
  <2>3. Ledger(Claimed(d, k))
    BY <2>1, ClaimedTyped
  <2>4. DOMAIN item = Items
    BY <1>1 DEF Ledger
  <2>5. Claimed(d, k)[i] = item[i]
    BY <2>2, <2>4 DEF Claimed
  <2> QED  BY <2>2, <2>3, <2>5
<1>3. ASSUME NEW it, Ledger(it), charge_and_requeue(it, k), k # i, it[i] = item[i]
      PROVE  item'[i] = item[i]
  <2> DEFINE r == IF attempt_budget_spent(it[k]) THEN Bumped(Settled(it[k], "failed"))
                                                 ELSE ChargedBack(it[k])
  <2>1. reconcile_job_deletion([it EXCEPT ![k] = r], attempt, JobOf[k])
    BY <1>3 DEF charge_and_requeue
  <2> HIDE DEF r
  <2>2. [it EXCEPT ![k] = r][i] = item[i]
    BY <1>3 DEF Ledger
  <2> QED  BY <2>1, <2>2, FenceKeepsSettled
<1>4. ASSUME NEW o, settle(k, o) PROVE item'[i] = item[i]
  <2>1. [item EXCEPT ![k] = Settled(item[k], o)][i] = item[i]
    BY <1>1, <1>4 DEF settle, Leased, Ledger
  <2>2. reconcile_job_deletion([item EXCEPT ![k] = Settled(item[k], o)], attempt, JobOf[k])
    BY <1>4 DEF settle
  <2> QED  BY <2>1, <2>2, FenceKeepsSettled
<1>5. CASE hand_back(k)
  <2>1. k # i
    BY <1>5 DEF hand_back, Leased
  <2> QED  BY <1>1, <1>3, <1>5, <2>1 DEF hand_back, Ledger
<1>6. CASE renew(k) \/ \E g \in ParkGates : park(k, g)
  BY <1>1, <1>6 DEF renew, park, Lapsed, Leased, Ledger
<1>7. ASSUME NEW d \in Devices, claim_for_device(d, k) PROVE item'[i] = item[i]
  BY <1>2, <1>7 DEF claim_for_device
<1>8. ASSUME NEW d \in Devices, claim_refused(d, k) PROVE item'[i] = item[i]
  BY <1>2, <1>3, <1>8 DEF claim_refused
<1> QED  BY <1>4, <1>5, <1>6, <1>7, <1>8 DEF LeaseStep

LEMMA ReaperKeepsSettled ==
  ASSUME Reaper, NEW i \in Items, item[i].state = "settled"
  PROVE  item'[i] = item[i]
<1>1. CASE expire_park
  BY <1>1 DEF expire_park, Lapsed
<1>2. CASE expire_steal
  BY <1>2 DEF expire_steal, Stealable, Lapsed
<1>3. CASE revive_expired
  <2>1. ~GivesUp(item[i]) /\ ~(FallsBack(i) \/ Relinked(i)) /\ ~ReGated(i)
    BY DEF GivesUp, FallsBack, Relinked, ReGated
  <2>2. item'[i] = Revival(i)
    BY <1>3 DEF revive_expired
  <2> QED  BY <2>1, <2>2 DEF Revival
<1> QED  BY <1>1, <1>2, <1>3 DEF Reaper

LEMMA SettledStays ==
  ASSUME TypeOK, [Next]_vars, NEW i \in Items, item[i].state = "settled"
  PROVE  item'[i] = item[i]
<1>1. \A g, M : Revived(g, M)[i] = item[i]
  BY DEF Revived, Awaits
<1>2. ASSUME NEW a \in Attempts, AttemptStep(a) PROVE item'[i] = item[i]
  BY <1>1, <1>2 DEF AttemptStep, open_attempt, settle_attempt
<1>3. SellerStep \/ Sweep => item'[i] = item[i]
  <2>1. ASSUME NEW j, delete(j) \/ finalise_deletion(j) PROVE item'[i] = item[i]
    BY <2>1, FenceKeepsSettled DEF delete, finalise_deletion
  <2>2. ASSUME NEW g, NEW M, seller_answers(g, M) PROVE item'[i] = item[i]
    BY <1>1, <2>2 DEF seller_answers
  <2> QED  BY <2>1, <2>2 DEF SellerStep, Sweep, Relink, bind_pasted
<1>4. Clock => item'[i] = item[i]
  BY DEF Clock, LeaseLapses, ParkFallsDue, Leased, TypeOK
<1>5. gate_connection \/ (\E h \in Halts : raise_org_inventory(h) \/ OperatorLiftsHalt(h))
        => item'[i] = item[i]
  BY DEF gate_connection, raise_org_inventory, OperatorLiftsHalt
<1> QED  BY <1>2, <1>3, <1>4, <1>5, LeaseStepKeepsSettled, ReaperKeepsSettled DEF Next, vars

\* Once an item settles, nothing changes its row: not the reaper, a revival,
\* a deletion's cancellation, nor a holder that lost it (jobs.rs, the state
\* test of every UPDATE).
THEOREM SettledForEver == Spec => SettledIsFinal
<1>1. TypeOK /\ [Next]_vars
        => [\A i \in Items : item[i].state = "settled" => item'[i] = item[i]]_vars
  BY SettledStays
<1> QED  BY <1>1, TypeCorrect, PTL DEF Spec, SettledIsFinal

-----------------------------------------------------------------------------
(* A deleted job is quiet, and stays so.                                   *)

QuietIn(it, att, j) ==
  \A i \in ItemsOf(j) :
    /\ it[i].state = "settled" /\ it[i].outcome # "ambiguous"
    /\ ~Holds(att, i, {"in_flight", "ambiguous"})

LEMMA QuietIsDeleted ==
  ASSUME NEW it, NEW att, NEW j
  PROVE  classify_deletion(it, att, j) = "deleted" <=> QuietIn(it, att, j)
<1>1. Undecided(it, att, j) <=> ~QuietIn(it, att, j)
  BY DEF Undecided, QuietIn
<1>2. QuietIn(it, att, j) => ~\E i \in ItemsOf(j) : Leased(it[i]) /\ ~it[i].lapsed
  BY DEF QuietIn, Leased
<1> QED  BY <1>1, <1>2 DEF classify_deletion

LEMMA FenceClassifies ==
  ASSUME TypeOK, NEW it, NEW att, NEW k \in Jobs, NEW j \in Jobs,
         fence_and_classify(it, att, k) \/ reconcile_job_deletion(it, att, k)
  PROVE  deletion'[j] = deletion[j] \/ deletion'[j] = classify_deletion(item', att, j)
  BY DEF TypeOK, fence_and_classify, reconcile_job_deletion

LEMMA DeletionIsReclassified ==
  ASSUME TypeOK, [Next]_vars, NEW j \in Jobs
  PROVE  \/ deletion'[j] = deletion[j]
         \/ deletion'[j] = classify_deletion(item', attempt, j)
<1> DEFINE Answer == \/ deletion'[j] = deletion[j]
                     \/ deletion'[j] = classify_deletion(item', attempt, j)
<1>1. ASSUME NEW it, NEW i \in Items, charge_and_requeue(it, i) PROVE Answer
  BY <1>1, FenceClassifies, ItemsAssumption DEF charge_and_requeue
<1>2. ASSUME NEW i \in Items, NEW o, settle(i, o) PROVE Answer
  BY <1>2, FenceClassifies, ItemsAssumption DEF settle
<1>3. ASSUME NEW i \in Items, LeaseStep(i) PROVE Answer
  <2>1. ASSUME NEW d, claim_for_device(d, i) \/ claim_refused(d, i) PROVE Answer
    BY <1>1, <2>1 DEF claim_for_device, claim_refused
  <2>2. CASE hand_back(i)
    BY <1>1, <2>2 DEF hand_back
  <2> HIDE DEF Answer
  <2>3. renew(i) \/ (\E g \in ParkGates : park(i, g)) => Answer
    BY DEF renew, park, Answer
  <2> QED  BY <1>2, <1>3, <2>1, <2>2, <2>3 DEF LeaseStep
<1>4. ASSUME NEW k \in Jobs, delete(k) \/ finalise_deletion(k) PROVE Answer
  BY <1>4, FenceClassifies DEF delete, finalise_deletion
<1>5. ASSUME NEW a \in Attempts, AttemptStep(a) PROVE UNCHANGED deletion
  BY <1>5 DEF AttemptStep, open_attempt, settle_attempt
<1>6. ASSUME NEW g, NEW M, NEW m, seller_answers(g, M) \/ bind_pasted(m)
      PROVE  UNCHANGED deletion
  BY <1>6 DEF seller_answers, bind_pasted
<1>7. Relink \/ Reaper \/ Clock \/ gate_connection => UNCHANGED deletion
  BY DEF Relink, Reaper, expire_park, expire_steal, revive_expired, Clock, LeaseLapses,
         ParkFallsDue, gate_connection
<1>8. (\E h \in Halts : raise_org_inventory(h) \/ OperatorLiftsHalt(h)) => UNCHANGED deletion
  BY DEF raise_org_inventory, OperatorLiftsHalt
<1>9. SellerStep \/ Sweep => Answer
  BY <1>4, <1>6, <1>7 DEF SellerStep, Sweep
<1> QED  BY <1>3, <1>5, <1>7, <1>8, <1>9 DEF Next, vars

LEMMA AttemptOfASettledItem ==
  ASSUME TypeOK, [Next]_vars, NEW a \in Attempts, item[attempt'[a].item].state = "settled",
         attempt'[a].item \in Items
  PROVE  \/ attempt'[a] = attempt[a]
         \/ attempt[a].state = "in_flight" /\ attempt[a].item = attempt'[a].item
<1> DEFINE Same == \/ attempt'[a] = attempt[a]
                   \/ attempt[a].state = "in_flight" /\ attempt[a].item = attempt'[a].item
<1>1. ASSUME NEW b \in Attempts, AttemptStep(b) PROVE Same
  <2>1. ASSUME NEW i \in Items, open_attempt(i, b) PROVE Same
    BY <2>1 DEF open_attempt, Admissible, Leased, TypeOK
  <2>2. ASSUME NEW v, NEW landing, settle_attempt(b, v, landing) PROVE Same
    BY <2>2 DEF settle_attempt, TypeOK, AttemptRows
  <2> HIDE DEF Same
  <2> QED  BY <1>1, <2>1, <2>2 DEF AttemptStep
<1>2. CASE revive_expired
  BY <1>2 DEF revive_expired, Released, TypeOK, AttemptRows
<1>3. CASE UNCHANGED attempt
  BY <1>3
<1>4. ASSUME NEW i \in Items, LeaseStep(i) PROVE UNCHANGED attempt
  BY <1>4 DEF LeaseStep, claim_for_device, claim_refused, charge_and_requeue, renew,
              settle, park, hand_back
<1>5. SellerStep \/ Sweep \/ Clock => UNCHANGED attempt
  BY DEF SellerStep, Sweep, Clock, seller_answers, bind_pasted, delete, Relink, finalise_deletion,
         LeaseLapses, ParkFallsDue
<1>6. expire_park \/ expire_steal \/ gate_connection => UNCHANGED attempt
  BY DEF expire_park, expire_steal, gate_connection
<1>7. (\E h \in Halts : raise_org_inventory(h) \/ OperatorLiftsHalt(h)) => UNCHANGED attempt
  BY DEF raise_org_inventory, OperatorLiftsHalt
<1>8. UNCHANGED attempt \/ revive_expired \/ \E b \in Attempts : AttemptStep(b)
  BY <1>4, <1>5, <1>6, <1>7 DEF Next, Reaper, vars
<1> QED  BY <1>1, <1>2, <1>3, <1>8

LEMMA DeletionMovesAlone ==
  ASSUME [Next]_vars, NEW j, deletion'[j] # deletion[j]
  PROVE  UNCHANGED attempt
<1>1. ASSUME NEW a \in Attempts, AttemptStep(a) PROVE UNCHANGED deletion
  BY <1>1 DEF AttemptStep, open_attempt, settle_attempt
<1>2. Reaper \/ Clock \/ gate_connection => UNCHANGED deletion
  BY DEF Reaper, expire_park, expire_steal, revive_expired, Clock, LeaseLapses,
         ParkFallsDue, gate_connection
<1>3. (\E h \in Halts : raise_org_inventory(h) \/ OperatorLiftsHalt(h)) => UNCHANGED deletion
  BY DEF raise_org_inventory, OperatorLiftsHalt
<1>4. ASSUME NEW i \in Items, LeaseStep(i) PROVE UNCHANGED attempt
  BY <1>4 DEF LeaseStep, claim_for_device, claim_refused, charge_and_requeue, renew,
              settle, park, hand_back
<1>5. SellerStep \/ Sweep => UNCHANGED attempt
  BY DEF SellerStep, Sweep, seller_answers, bind_pasted, delete, Relink, finalise_deletion
<1> QED  BY <1>1, <1>2, <1>3, <1>4, <1>5 DEF Next, vars

\* The step a quiet deleted job takes: none.
LEMMA DeletedStep ==
  ASSUME TypeOK, DeletedIsQuiet, [Next]_vars, NEW j \in Jobs, deletion[j] = "deleted"
  PROVE  /\ deletion'[j] = "deleted"
         /\ \A i \in ItemsOf(j) : item'[i] = item[i]
         /\ \A a \in Attempts : attempt'[a].item \in ItemsOf(j) => attempt'[a] = attempt[a]
<1>1. \A i \in ItemsOf(j) : /\ i \in Items /\ item[i].state = "settled"
                            /\ item[i].outcome # "ambiguous"
                            /\ ~Holds(attempt, i, {"in_flight", "ambiguous"})
  BY DEF DeletedIsQuiet, Quiet, ItemsOf
<1>2. \A i \in ItemsOf(j) : item'[i] = item[i]
  BY <1>1, SettledStays
<1>3. ASSUME NEW a \in Attempts, attempt'[a].item \in ItemsOf(j)
      PROVE  attempt'[a] = attempt[a]
  BY <1>1, <1>3, AttemptOfASettledItem DEF Holds
<1>4. QuietIn(item', attempt, j)
  BY <1>1, <1>2 DEF QuietIn
<1>5. deletion'[j] = "deleted"
  BY <1>4, QuietIsDeleted, DeletionIsReclassified
<1> QED  BY <1>2, <1>3, <1>5

LEMMA QuietStays ==
  ASSUME TypeOK, DeletedIsQuiet, [Next]_vars
  PROVE  DeletedIsQuiet'
<1> SUFFICES ASSUME NEW j \in Jobs, deletion'[j] = "deleted" PROVE Quiet(j)'
  BY DEF DeletedIsQuiet
<1>1. CASE deletion[j] = "deleted"
  <2>1. \A i \in ItemsOf(j) : /\ item[i].state = "settled" /\ item[i].outcome # "ambiguous"
                              /\ ~Holds(attempt, i, {"in_flight", "ambiguous"})
    BY <1>1 DEF DeletedIsQuiet, Quiet
  <2>2. /\ \A i \in ItemsOf(j) : item'[i] = item[i]
        /\ \A a \in Attempts : attempt'[a].item \in ItemsOf(j) => attempt'[a] = attempt[a]
    BY <1>1, DeletedStep
  <2> QED  BY <2>1, <2>2 DEF Quiet, Holds, ItemsOf
<1>2. CASE deletion[j] # "deleted"
  <2>1. QuietIn(item', attempt, j)
    BY <1>2, DeletionIsReclassified, QuietIsDeleted
  <2>2. ASSUME NEW i \in ItemsOf(j) PROVE ~Holds(attempt', i, {"in_flight", "ambiguous"})
    <3>1. ~Holds(attempt, i, {"in_flight", "ambiguous"})
      BY <2>1 DEF QuietIn
    <3>2. UNCHANGED attempt
      BY <1>2, DeletionMovesAlone
    <3> QED  BY <3>1, <3>2
  <2> QED  BY <2>1, <2>2 DEF QuietIn, Quiet, ItemsOf
<1> QED  BY <1>1, <1>2

\* A job that answers `deleted` has no item waiting, running or undecided and
\* no attempt in flight (jobs.rs, classify_deletion).  Beside the row shapes
\* it needs no strengthening: what makes it inductive is that settled rows
\* never move and that an admission needs a lease.
THEOREM DeletedJobIsQuiet == Spec => []DeletedIsQuiet
<1>1. Init => DeletedIsQuiet
  BY DEF Init, DeletedIsQuiet
<1>2. TypeOK /\ DeletedIsQuiet /\ [Next]_vars => DeletedIsQuiet'
  BY QuietStays
<1> QED  BY <1>1, <1>2, TypeCorrect, PTL DEF Spec

\* "There is no schedule in which a job answers `deleted` and an in-flight
\* attempt appears afterwards" (jobs.rs, assert_admissible_lease).
THEOREM DeletedForEver == Spec => DeletedIsFinal
<1> DEFINE Stays == \A j \in Jobs : deletion[j] = "deleted" =>
             /\ deletion'[j] = "deleted"
             /\ \A i \in ItemsOf(j) : item'[i] = item[i]
             /\ \A a \in Attempts :
                  attempt'[a].item \in ItemsOf(j) => attempt'[a] = attempt[a]
<1>1. TypeOK /\ DeletedIsQuiet /\ [Next]_vars => Stays
  BY DeletedStep
<1>2. Spec => [][Stays]_vars
  <2> HIDE DEF Stays
  <2> QED  BY <1>1, TypeCorrect, DeletedJobIsQuiet, PTL DEF Spec
<1> QED  BY <1>2 DEF DeletedIsFinal

-----------------------------------------------------------------------------
(* The fence of a mapping.                                                 *)

\* What a step does to the attempts and the bindings, with the rest left out.
LEMMA WriteSteps ==
  ASSUME TypeOK, [Next]_vars
  PROVE  \/ UNCHANGED <<attempt, binding>>
         \/ attempt' = [a \in Attempts |-> Released(a)] /\ UNCHANGED binding
         \/ \E m \in Mappings : bind_pasted(m)
         \/ \E i \in Items, a \in Attempts : open_attempt(i, a)
         \/ \E a \in Attempts, v \in Verdicts,
                landing \in {"none", "landed", "refused", "severed"} :
                   settle_attempt(a, v, landing)
<1>1. ASSUME NEW i \in Items, LeaseStep(i) PROVE UNCHANGED <<attempt, binding>>
  BY <1>1 DEF LeaseStep, claim_for_device, claim_refused, charge_and_requeue, renew,
              settle, park, hand_back
<1>2. SellerStep \/ Sweep \/ Clock
        => UNCHANGED <<attempt, binding>> \/ \E m \in Mappings : bind_pasted(m)
  BY DEF SellerStep, Sweep, Clock, seller_answers, delete, Relink, finalise_deletion,
         LeaseLapses, ParkFallsDue
<1>3. expire_park \/ expire_steal \/ gate_connection => UNCHANGED <<attempt, binding>>
  BY DEF expire_park, expire_steal, gate_connection
<1>4. (\E h \in Halts : raise_org_inventory(h) \/ OperatorLiftsHalt(h))
        => UNCHANGED <<attempt, binding>>
  BY DEF raise_org_inventory, OperatorLiftsHalt
<1>5. revive_expired => attempt' = [a \in Attempts |-> Released(a)] /\ UNCHANGED binding
  BY DEF revive_expired
<1>6. UNCHANGED vars => UNCHANGED <<attempt, binding>>
  BY DEF vars
<1>7. \/ UNCHANGED <<attempt, binding>> \/ revive_expired
      \/ \E m \in Mappings : bind_pasted(m)
      \/ \E a \in Attempts : AttemptStep(a)
  BY <1>1, <1>2, <1>3, <1>4, <1>6 DEF Next, Reaper
<1> QED  BY <1>5, <1>7 DEF AttemptStep

\* The inductive form of the unique index.
OneInFlight ==
  \A a, b \in Attempts :
    /\ attempt[a].state = "in_flight" /\ attempt[b].state = "in_flight"
    /\ MappingOf[attempt[a].item] = MappingOf[attempt[b].item]
    => a = b

LEMMA OneInFlightStays ==
  ASSUME TypeOK, OneInFlight, [Next]_vars
  PROVE  OneInFlight'
<1>1. CASE UNCHANGED attempt
  BY <1>1 DEF OneInFlight
<1>2. CASE attempt' = [b \in Attempts |-> Released(b)]
  <2>1. \A b \in Attempts : /\ attempt'[b].item = attempt[b].item
                            /\ attempt'[b].state = "in_flight" => attempt[b].state = "in_flight"
    BY <1>2 DEF Released, TypeOK, AttemptRows
  <2> QED  BY <2>1 DEF OneInFlight
<1>3. ASSUME NEW i \in Items, NEW c \in Attempts, open_attempt(i, c) PROVE OneInFlight'
  <2>1. /\ \A b \in Attempts : b # c => attempt'[b] = attempt[b]
        /\ attempt'[c].item = i
        /\ \A b \in Attempts : attempt[b].state = "in_flight"
                                => MappingOf[attempt[b].item] # MappingOf[i]
    BY <1>3 DEF open_attempt, InFlightOn, TypeOK
  <2> QED  BY <2>1 DEF OneInFlight
<1>4. ASSUME NEW c \in Attempts, NEW v \in Verdicts, NEW landing, settle_attempt(c, v, landing)
      PROVE  OneInFlight'
  <2>1. /\ \A b \in Attempts : b # c => attempt'[b] = attempt[b]
        /\ attempt'[c].state # "in_flight"
    BY <1>4, HolderAssumption DEF settle_attempt, TypeOK, AttemptRows
  <2> QED  BY <2>1 DEF OneInFlight
<1> QED  BY <1>1, <1>2, <1>3, <1>4, WriteSteps DEF bind_pasted

\* A binding moves by the seller's paste, or by the landing of the one write
\* in flight on its mapping.
LEMMA BindingStep ==
  ASSUME TypeOK, OneInFlight, [Next]_vars, NEW m \in Mappings, binding'[m] # binding[m]
  PROVE  \/ binding[m] = "unbound" /\ attempt' = attempt
         \/ \E a \in Attempts :
              /\ attempt[a].state = "in_flight" /\ attempt'[a].state = "committed"
              /\ \A b \in Attempts :
                   attempt[b].state = "in_flight" /\ MappingOf[attempt[b].item] = m => b = a
<1>1. ASSUME NEW n \in Mappings, bind_pasted(n) PROVE binding[m] = "unbound" /\ attempt' = attempt
  BY <1>1 DEF bind_pasted, TypeOK
<1>2. ASSUME NEW a \in Attempts, NEW v \in Verdicts, NEW landing, settle_attempt(a, v, landing)
      PROVE  /\ attempt[a].state = "in_flight" /\ attempt'[a].state = "committed"
             /\ \A b \in Attempts :
                  attempt[b].state = "in_flight" /\ MappingOf[attempt[b].item] = m => b = a
  <2>1. landing # "none"
    BY <1>2 DEF settle_attempt
  <2>2. v = "committed"
    BY <1>2, <2>1 DEF settle_attempt, Landings
  <2>3. attempt[a].state = "in_flight" /\ attempt'[a].state = "committed"
    BY <1>2, <2>2 DEF settle_attempt, TypeOK, AttemptRows
  <2>4. m = MappingOf[attempt[a].item]
    BY <1>2 DEF settle_attempt, TypeOK
  <2> QED  BY <2>3, <2>4 DEF OneInFlight
<1> QED  BY <1>1, <1>2, WriteSteps DEF open_attempt

\* No write in flight is overtaken on its mapping by another item's landing or
\* removal, whatever jobs and epochs the two belong to
\* (write_attempt_one_in_flight and WriteAttemptRepo::settle).
THEOREM BindingIsFenced == Spec => BindingFollowsItsFence
<1>1. Init => OneInFlight
  BY DEF Init, OneInFlight
<1>2. TypeOK /\ OneInFlight /\ [Next]_vars => OneInFlight'
  BY OneInFlightStays
<1>3. Spec => []OneInFlight
  BY <1>1, <1>2, TypeCorrect, PTL DEF Spec
<1>4. TypeOK /\ OneInFlight /\ [Next]_vars
        => [\A m \in Mappings : binding'[m] # binding[m] =>
              \/ binding[m] = "unbound" /\ attempt' = attempt
              \/ \E a \in Attempts :
                   /\ attempt[a].state = "in_flight" /\ attempt'[a].state = "committed"
                   /\ \A b \in Attempts :
                        attempt[b].state = "in_flight" /\ MappingOf[attempt[b].item] = m
                          => b = a]_vars
  BY BindingStep
<1> QED  BY <1>3, <1>4, TypeCorrect, PTL DEF Spec, BindingFollowsItsFence

-----------------------------------------------------------------------------
(* What a step may do to one row: the deletion's fence, and the rest.      *)

LEMMA FenceRow ==
  ASSUME NEW it, Ledger(it), NEW att, NEW j, NEW i \in Items,
         fence_and_classify(it, att, j) \/ reconcile_job_deletion(it, att, j)
  PROVE  /\ it[i].outcome # "cancelled" /\ item'[i].outcome = "cancelled"
              => ~Holds(att, i, Evidence)
         /\ item'[i].state = "queued" => item'[i] = it[i]
<1>1. Row(it[i])
  BY LedgerRows
<1> DEFINE p == park_stopped_writes(it, att, j)
<1>2. p[i] = it[i] \/ p[i] = Parked(it[i], "awaiting_marketplace_answer", "none")
  BY DEF park_stopped_writes
<1>3. /\ Parked(it[i], "awaiting_marketplace_answer", "none").outcome = it[i].outcome
      /\ Parked(it[i], "awaiting_marketplace_answer", "none").state = "parked_live"
  BY <1>1 DEF Row, Rows, Parked, Freed
<1>4. Ledger(p)
  BY ParkedStopped
<1> HIDE DEF p
<1>5. Row(p[i])
  BY <1>4, LedgerRows
<1>6. Bumped(Settled(p[i], "cancelled")).state = "settled"
  BY <1>5 DEF Row, Rows, Bumped, Settled, Freed
<1>7. \/ Fenced(it, att, j)[i] = p[i]
      \/ /\ ~Holds(att, i, Evidence)
         /\ Fenced(it, att, j)[i] = Bumped(Settled(p[i], "cancelled"))
  BY DEF Fenced, cancel_unstarted_items, Cancellable, p
<1>8. item'[i] = it[i] \/ item'[i] = Fenced(it, att, j)[i]
  BY DEF fence_and_classify, reconcile_job_deletion
<1> QED  BY <1>2, <1>3, <1>6, <1>7, <1>8

LEMMA PlainRow ==
  ASSUME NEW r, Row(r)
  PROVE  /\ Requeued(r).outcome = r.outcome /\ Requeued(r).epoch = r.epoch
         /\ \A o : Settled(r, o).outcome = o /\ Settled(r, o).state = "settled"
         /\ \A o : Bumped(Settled(r, o)).outcome = o /\ Bumped(Settled(r, o)).state = "settled"
         /\ \A g, p : Parked(r, g, p).outcome = r.outcome /\ Parked(r, g, p).state = "parked_live"
         /\ Charged(Requeued(r)).outcome = r.outcome
         /\ ChargedBack(r).outcome = r.outcome /\ ChargedBack(r).epoch = r.epoch + 1
  BY DEF Row, Rows, Requeued, Settled, Parked, Freed, Bumped, Charged, ChargedBack

(* A row is cancelled by a deletion's fence alone, and taken back from its *)
(* lease to the queue under a new epoch alone.                             *)
Careful(i) ==
  /\ item[i].outcome # "cancelled" /\ item'[i].outcome = "cancelled"
       => ~Holds(attempt, i, Evidence)
  /\ Leased(item[i]) /\ item'[i].state = "queued" => item'[i].epoch > item[i].epoch

LEMMA ChargeIsCareful ==
  ASSUME TypeOK, NEW it, Ledger(it), NEW k \in Items, charge_and_requeue(it, k),
         NEW i \in Items, it[i].outcome = item[i].outcome, it[i].epoch = item[i].epoch,
         i # k => it[i] = item[i], it[k].state # "settled"
  PROVE  Careful(i)
<1> DEFINE r == IF attempt_budget_spent(it[k]) THEN Bumped(Settled(it[k], "failed"))
                                               ELSE ChargedBack(it[k])
           new == [it EXCEPT ![k] = r]
<1>1. Row(it[k]) /\ it \in [Items -> Rows] /\ it[i].epoch \in Nat
  BY LedgerRows DEF Ledger, Rows
<1>2. reconcile_job_deletion(new, attempt, JobOf[k])
  BY DEF charge_and_requeue
<1>3. r.outcome # "cancelled" \/ r.outcome = it[k].outcome
  BY <1>1, PlainRow
<1>4. r.state = "settled" \/ r.epoch = it[k].epoch + 1
  BY <1>1, PlainRow
<1>5. Row(r)
  BY <1>1, SettledRow, BumpedRow, ChargedBackRow DEF LedgerOutcomes
<1> HIDE DEF r
<1>6. Ledger(new)
  BY <1>5, LedgerWith
<1>7. new[i] = IF i = k THEN r ELSE it[i]
  BY <1>1
<1> HIDE DEF new
<1>8. /\ new[i].outcome # "cancelled" /\ item'[i].outcome = "cancelled"
           => ~Holds(attempt, i, Evidence)
      /\ item'[i].state = "queued" => item'[i] = new[i]
  BY <1>2, <1>6, FenceRow
<1>9. item[i].outcome # "cancelled" => new[i].outcome # "cancelled"
  BY <1>3, <1>7
<1>10. Leased(item[i]) /\ new[i].state = "queued" => new[i].epoch > item[i].epoch
  BY <1>1, <1>4, <1>7 DEF Leased
<1> QED  BY <1>8, <1>9, <1>10 DEF Careful

LEMMA LeaseStepIsCareful ==
  ASSUME TypeOK, NEW k \in Items, LeaseStep(k), NEW i \in Items
  PROVE  Careful(i)
<1>1. Ledger(item) /\ \A n \in Items : Row(item[n])
  BY TypedLedger, LedgerRows
<1>2. ASSUME NEW d \in Devices, Claimable(k)
      PROVE  /\ Ledger(Claimed(d, k)) /\ Claimed(d, k)[k].state = "leased"
             /\ \A n \in Items : /\ n # k => Claimed(d, k)[n] = item[n]
                                 /\ Claimed(d, k)[n].outcome = item[n].outcome
                                 /\ Claimed(d, k)[n].epoch = item[n].epoch
  <2>1. Ledger(Claimed(d, k)) /\ Claimed(d, k)[k].state = "leased"
    BY <1>2, ClaimedTyped
  <2>2. ASSUME NEW n \in Items
        PROVE  /\ n # k => Claimed(d, k)[n] = item[n]
               /\ Claimed(d, k)[n].outcome = item[n].outcome
               /\ Claimed(d, k)[n].epoch = item[n].epoch
    BY <1>1 DEF Claimed, Ledger, Rows
  <2> QED  BY <2>1, <2>2
<1>3. ASSUME NEW d \in Devices, claim_for_device(d, k) PROVE Careful(i)
  BY <1>2, <1>3 DEF claim_for_device, Careful, Claimable, Reconcilable, Leased
<1>4. ASSUME NEW d \in Devices, claim_refused(d, k) PROVE Careful(i)
  <2>1. Claimable(k) /\ charge_and_requeue(Claimed(d, k), k)
    BY <1>4 DEF claim_refused
  <2> QED  BY <1>2, <2>1, ChargeIsCareful
<1>5. CASE renew(k)
  BY <1>1, <1>5 DEF renew, Careful, Leased, Ledger, Rows
<1>6. ASSUME NEW o \in Outcomes, settle(k, o) PROVE Careful(i)
  <2> DEFINE new == [item EXCEPT ![k] = Settled(item[k], o)]
  <2>1. Row(Settled(item[k], o)) /\ o # "cancelled"
    BY <1>1, SettledRow, HolderAssumption DEF LedgerOutcomes
  <2>2. Ledger(new)
    BY <1>1, <2>1, LedgerWith
  <2>3. reconcile_job_deletion(new, attempt, JobOf[k])
    BY <1>6 DEF settle
  <2>4. new[i] = IF i = k THEN Settled(item[k], o) ELSE item[i]
    BY <1>1 DEF Ledger
  <2>5. Settled(item[k], o).outcome = o /\ Settled(item[k], o).state = "settled"
    BY <1>1, PlainRow
  <2> HIDE DEF new
  <2>6. /\ new[i].outcome # "cancelled" /\ item'[i].outcome = "cancelled"
             => ~Holds(attempt, i, Evidence)
        /\ item'[i].state = "queued" => item'[i] = new[i]
    BY <2>2, <2>3, FenceRow
  <2> QED  BY <2>1, <2>4, <2>5, <2>6 DEF Careful, Leased
<1>7. ASSUME NEW g, NEW p, item' = [item EXCEPT ![k] = Parked(@, g, p)] PROVE Careful(i)
  <2>1. item'[i] = item[i] \/ item'[i] = Parked(item[i], g, p)
    BY <1>1, <1>7 DEF Ledger
  <2> QED  BY <1>1, <2>1, PlainRow DEF Careful, Leased
<1>8. CASE hand_back(k)
  <2>1. CASE Leased(item[k]) /\ charge_and_requeue(item, k)
    BY <1>1, <2>1, ChargeIsCareful DEF Leased
  <2> QED  BY <1>7, <1>8, <2>1 DEF hand_back
<1>9. ASSUME NEW g \in ParkGates, park(k, g) PROVE Careful(i)
  BY <1>7, <1>9 DEF park
<1> QED  BY <1>3, <1>4, <1>5, <1>6, <1>8, <1>9 DEF LeaseStep

LEMMA ReaperIsCareful ==
  ASSUME TypeOK, Reaper, NEW i \in Items
  PROVE  Careful(i)
<1>1. Row(item[i]) /\ item[i].epoch \in Nat
  BY TypedLedger, LedgerRows DEF Row, Rows
<1>2. CASE expire_park
  <2>1. item'[i] = item[i] \/ item'[i] = Parked(item[i], "awaiting_marketplace_answer", "none")
    BY <1>2 DEF expire_park
  <2> QED  BY <1>1, <2>1, PlainRow DEF Careful, Leased
<1>3. CASE expire_steal
  <2>1. \/ item'[i] = item[i] \/ item'[i] = Bumped(Settled(item[i], "failed"))
        \/ item'[i] = ChargedBack(item[i])
    BY <1>3 DEF expire_steal
  <2> QED  BY <1>1, <2>1, PlainRow DEF Careful, Leased
<1>4. CASE revive_expired
  <2>1. item'[i] = Revival(i)
    BY <1>4 DEF revive_expired
  <2>2. Leased(item[i]) => Revival(i) = item[i]
    BY DEF Revival, GivesUp, FallsBack, Relinked, ReGated, Leased
  <2>3. [item[i] EXCEPT !.gate = "awaiting_seller_signin", !.park = "none"].outcome
          = item[i].outcome
    BY <1>1 DEF Row, Rows
  <2>4. Revival(i).outcome = item[i].outcome \/ Revival(i).outcome = "skipped"
    BY <1>1, <2>3, PlainRow DEF Revival
  <2> QED  BY <1>1, <2>1, <2>2, <2>4 DEF Careful, Leased
<1> QED  BY <1>2, <1>3, <1>4 DEF Reaper

LEMMA RevivedIsCareful ==
  ASSUME TypeOK, NEW g, NEW M, item' = Revived(g, M), NEW i \in Items
  PROVE  Careful(i)
<1>1. Row(item[i])
  BY TypedLedger, LedgerRows
<1>2. \/ item'[i] = item[i]
      \/ item[i].state = "parked_live" /\ item'[i] = Requeued(item[i])
  BY DEF Revived, Awaits
<1> QED  BY <1>1, <1>2, PlainRow DEF Careful, Leased

LEMMA StepIsCareful ==
  ASSUME TypeOK, [Next]_vars, NEW i \in Items
  PROVE  Careful(i)
<1>1. UNCHANGED item => Careful(i)
  BY DEF Careful, Leased
<1>2. ASSUME NEW a \in Attempts, AttemptStep(a) PROVE Careful(i)
  BY <1>1, <1>2, RevivedIsCareful DEF AttemptStep, open_attempt, settle_attempt
<1>3. ASSUME NEW j \in Jobs, delete(j) \/ finalise_deletion(j) PROVE Careful(i)
  <2>1. fence_and_classify(item, attempt, j)
    BY <1>3 DEF delete, finalise_deletion
  <2> QED  BY <2>1, TypedLedger, FenceRow DEF Careful, Leased
<1>4. SellerStep \/ Sweep => Careful(i)
  BY <1>1, <1>3, RevivedIsCareful DEF SellerStep, Sweep, seller_answers, Relink, bind_pasted
<1>5. Clock => Careful(i)
  <2>1. Clock => item'[i].outcome = item[i].outcome /\ item'[i].state = item[i].state
    BY DEF Clock, LeaseLapses, ParkFallsDue, TypeOK, Rows
  <2> QED  BY <2>1 DEF Careful, Leased
<1>6. gate_connection \/ (\E h \in Halts : raise_org_inventory(h) \/ OperatorLiftsHalt(h))
        => Careful(i)
  BY <1>1 DEF gate_connection, raise_org_inventory, OperatorLiftsHalt
<1> QED  BY <1>1, <1>2, <1>4, <1>5, <1>6, LeaseStepIsCareful, ReaperIsCareful DEF Next, vars

\* A row taken back from its lease to the queue leaves under a new epoch,
\* whether a hand-back, a refused claim or the steal took it
\* (charge_and_requeue, expire_and_steal).
THEOREM TakenUnderANewEpoch == Spec => TakenIsFenced
<1>1. TypeOK /\ [Next]_vars
        => [\A i \in Items : Leased(item[i]) /\ item'[i].state = "queued"
                                => item'[i].epoch > item[i].epoch]_vars
  BY StepIsCareful DEF Careful
<1> QED  BY <1>1, TypeCorrect, PTL DEF Spec, TakenIsFenced

LEMMA CancellationMovesAlone ==
  ASSUME TypeOK, [Next]_vars, NEW i \in Items, item[i].state # "settled",
         item'[i].outcome = "cancelled"
  PROVE  UNCHANGED attempt
<1>1. Row(item[i]) /\ item[i].outcome # "cancelled"
  BY TypedLedger, LedgerRows DEF Row, WellFormed
<1>2. \A g, M : Revived(g, M)[i].outcome = item[i].outcome
  BY <1>1, PlainRow DEF Revived
<1>3. ASSUME NEW a \in Attempts, AttemptStep(a) PROVE FALSE
  BY <1>1, <1>2, <1>3 DEF AttemptStep, open_attempt, settle_attempt
<1>4. CASE revive_expired
  <2>1. item'[i] = Revival(i)
    BY <1>4 DEF revive_expired
  <2>2. [item[i] EXCEPT !.gate = "awaiting_seller_signin", !.park = "none"].outcome
          = item[i].outcome
    BY <1>1 DEF Row, Rows
  <2>3. Revival(i).outcome = item[i].outcome \/ Revival(i).outcome = "skipped"
    BY <1>1, <2>2, PlainRow DEF Revival
  <2> QED  BY <1>1, <2>1, <2>3
<1>5. ASSUME NEW k \in Items, LeaseStep(k) PROVE UNCHANGED attempt
  BY <1>5 DEF LeaseStep, claim_for_device, claim_refused, charge_and_requeue, renew,
              settle, park, hand_back
<1>6. SellerStep \/ Sweep \/ Clock => UNCHANGED attempt
  BY DEF SellerStep, Sweep, Clock, seller_answers, bind_pasted, delete, Relink, finalise_deletion,
         LeaseLapses, ParkFallsDue
<1>7. expire_park \/ expire_steal \/ gate_connection => UNCHANGED attempt
  BY DEF expire_park, expire_steal, gate_connection
<1>8. (\E h \in Halts : raise_org_inventory(h) \/ OperatorLiftsHalt(h)) => UNCHANGED attempt
  BY DEF raise_org_inventory, OperatorLiftsHalt
<1> QED  BY <1>3, <1>4, <1>5, <1>6, <1>7, <1>8 DEF Next, Reaper, vars

LEMMA CancelledStays ==
  ASSUME TypeOK, CancelledSentNothing, [Next]_vars
  PROVE  CancelledSentNothing'
<1> SUFFICES ASSUME NEW i \in Items, item'[i].outcome = "cancelled"
             PROVE  ~Holds(attempt', i, Evidence)
  BY DEF CancelledSentNothing, Holds
<1>1. Row(item[i])
  BY TypedLedger, LedgerRows
<1>2. CASE item[i].state = "settled"
  <2>1. item[i].outcome = "cancelled"
    BY <1>2, SettledStays
  <2>2. ~Holds(attempt, i, Evidence)
    BY <2>1 DEF CancelledSentNothing
  <2> QED  BY <1>2, <2>2, AttemptOfASettledItem DEF Holds, Evidence
<1>3. CASE item[i].state # "settled"
  <2>1. item[i].outcome # "cancelled"
    BY <1>1, <1>3 DEF Row, WellFormed
  <2>2. ~Holds(attempt, i, Evidence)
    BY <2>1, StepIsCareful DEF Careful
  <2> QED  BY <1>3, <2>2, CancellationMovesAlone
<1> QED  BY <1>2, <1>3

\* An item the deletion reports as never run has no attempt that may have
\* reached the marketplace, and never acquires one (cancel_unstarted_items):
\* the classification reads the attempts in the transaction that cancels, and
\* an admission needs a lease the cancelled row no longer has.
THEOREM CancelledStaysUnsent == Spec => []CancelledSentNothing
<1>1. Init => CancelledSentNothing
  BY DEF Init, NewRow, CancelledSentNothing
<1>2. TypeOK /\ CancelledSentNothing /\ [Next]_vars => CancelledSentNothing'
  BY CancelledStays
<1> QED  BY <1>1, <1>2, TypeCorrect, PTL DEF Spec

-----------------------------------------------------------------------------
(* A job is announced when its last item settles.                          *)

Done(it, i) == it[i].state = "settled"
\* Item i is settled by this step, of a job whose deletion is not requested.
NewlyDone(i) == /\ Done(item', i) /\ ~Done(item, i)
                /\ deletion'[JobOf[i]] = "none"

LEMMA FenceSettlesTheDeleted ==
  ASSUME TypeOK, NEW it, NEW att, NEW j \in Jobs, NEW i \in Items,
         fence_and_classify(it, att, j) \/ reconcile_job_deletion(it, att, j)
  PROVE  /\ Done(it, i) => Done(item', i)
         /\ Done(item', i) /\ deletion'[JobOf[i]] = "none" => Done(it, i)
<1>1. Done(it, i) => Done(item', i)
  BY FenceKeepsSettled DEF Done
<1>2. CASE fence_and_classify(it, att, j)
  <2>1. JobOf[i] = j => deletion'[JobOf[i]] # "none"
    BY <1>2, Classified DEF fence_and_classify, TypeOK
  <2>2. JobOf[i] # j => Fenced(it, att, j)[i] = it[i]
    BY DEF Fenced, cancel_unstarted_items, park_stopped_writes, ItemsOf
  <2> QED  BY <1>1, <1>2, <2>1, <2>2 DEF fence_and_classify, Done
<1>3. CASE item' = it
  BY <1>3 DEF Done
<1> QED  BY <1>1, <1>2, <1>3 DEF reconcile_job_deletion

(* What a step does about the announcement of job j: nothing, or it reads  *)
(* the ledger `it` of a settle, whose settled rows are those the step      *)
(* leaves behind.                                                          *)
Read(it, J, j) ==
  /\ settle_if_complete(it, J)
  /\ \A i \in ItemsOf(j) : /\ Done(it, i) => Done(item', i)
                           /\ NewlyDone(i) => j \in J
                           /\ Done(item', i) /\ deletion'[j] = "none" => Done(it, i)
Rolled(j) ==
  \/ UNCHANGED announced /\ \A i \in ItemsOf(j) : ~NewlyDone(i)
  \/ \E it, J : Read(it, J, j)

LEMMA SettleIsRead ==
  ASSUME TypeOK, NEW it, NEW r, NEW k \in Items, NEW j \in Jobs, NEW J,
         \A i \in Items : i # k => it[i] = item[i],
         it \in [Items -> Rows],
         settle_if_complete([it EXCEPT ![k] = r], J),
         reconcile_job_deletion([it EXCEPT ![k] = r], attempt, JobOf[k]),
         r.state = "settled" => JobOf[k] \in J
  PROVE  Rolled(j)
<1> DEFINE new == [it EXCEPT ![k] = r]
<1>1. \A i \in Items : new[i] = IF i = k THEN r ELSE item[i]
  OBVIOUS
<1>2. JobOf[k] \in Jobs
  BY ItemsAssumption
<1> HIDE DEF new
<1>3. settle_if_complete(new, J) /\ reconcile_job_deletion(new, attempt, JobOf[k])
  BY DEF new
<1>4. \A i \in Items : /\ Done(new, i) => Done(item', i)
                       /\ Done(item', i) /\ deletion'[JobOf[i]] = "none" => Done(new, i)
  BY <1>2, <1>3, FenceSettlesTheDeleted
<1>5. ASSUME NEW i \in ItemsOf(j), NewlyDone(i) PROVE j \in J
  <2>1. i \in Items /\ JobOf[i] = j
    BY DEF ItemsOf
  <2>2. Done(new, i)
    BY <1>4, <1>5, <2>1 DEF NewlyDone
  <2>3. i = k /\ r.state = "settled"
    BY <1>1, <1>5, <2>1, <2>2 DEF NewlyDone, Done
  <2> QED  BY <2>1, <2>3
<1>6. Read(new, J, j)
  BY <1>3, <1>4, <1>5 DEF Read, ItemsOf
<1> QED  BY <1>6 DEF Rolled

LEMMA ChargeIsRead ==
  ASSUME TypeOK, NEW it \in [Items -> Rows], NEW k \in Items, NEW j \in Jobs,
         Row(it[k]), it[k].state # "settled",
         \A i \in Items : i # k => it[i] = item[i],
         charge_and_requeue(it, k)
  PROVE  Rolled(j)
<1> DEFINE spent == attempt_budget_spent(it[k])
           r == IF spent THEN Bumped(Settled(it[k], "failed")) ELSE ChargedBack(it[k])
           J == IF spent THEN {JobOf[k]} ELSE {}
<1>1. /\ settle_if_complete([it EXCEPT ![k] = r], J)
      /\ reconcile_job_deletion([it EXCEPT ![k] = r], attempt, JobOf[k])
  BY DEF charge_and_requeue
<1>2. r.state = "settled" => JobOf[k] \in J
  BY DEF ChargedBack, Bumped, Charged, Requeued, Freed, Row, Rows
<1> HIDE DEF r, J
<1> QED  BY <1>1, <1>2, SettleIsRead

LEMMA LeaseStepRolls ==
  ASSUME TypeOK, NEW k \in Items, LeaseStep(k), NEW j \in Jobs
  PROVE  Rolled(j)
<1>1. Ledger(item) /\ Row(item[k]) /\ item \in [Items -> Rows]
  BY TypedLedger, LedgerRows DEF Ledger
<1>2. ASSUME NEW d \in Devices, Claimable(k)
      PROVE  /\ Claimed(d, k) \in [Items -> Rows] /\ Row(Claimed(d, k)[k])
             /\ Claimed(d, k)[k].state = "leased"
             /\ \A i \in Items : i # k => Claimed(d, k)[i] = item[i]
  <2>1. Ledger(Claimed(d, k)) /\ Claimed(d, k)[k].state = "leased"
    BY <1>2, ClaimedTyped
  <2> QED  BY <1>1, <2>1, LedgerRows DEF Ledger, Claimed
<1>3. ASSUME NEW d \in Devices, claim_for_device(d, k) PROVE Rolled(j)
  <2>1. UNCHANGED announced
    BY <1>3 DEF claim_for_device
  <2>2. \A i \in Items : ~NewlyDone(i)
    BY <1>2, <1>3 DEF claim_for_device, NewlyDone, Done
  <2> QED  BY <2>1, <2>2 DEF Rolled, ItemsOf
<1>4. ASSUME NEW d \in Devices, claim_refused(d, k) PROVE Rolled(j)
  <2>1. Claimable(k) /\ charge_and_requeue(Claimed(d, k), k)
    BY <1>4 DEF claim_refused
  <2> QED  BY <1>2, <2>1, ChargeIsRead
<1>5. ASSUME NEW o \in Outcomes, settle(k, o) PROVE Rolled(j)
  <2>1. /\ settle_if_complete([item EXCEPT ![k] = Settled(item[k], o)], {JobOf[k]})
        /\ reconcile_job_deletion([item EXCEPT ![k] = Settled(item[k], o)], attempt, JobOf[k])
    BY <1>5 DEF settle
  <2> QED  BY <1>1, <2>1, SettleIsRead
<1>6. ASSUME NEW r, item' = [item EXCEPT ![k] = r], UNCHANGED announced,
             r.state # "settled"
      PROVE  Rolled(j)
  <2>1. \A i \in Items : ~NewlyDone(i)
    BY <1>1, <1>6 DEF NewlyDone, Done
  <2> QED  BY <1>6, <2>1 DEF Rolled, ItemsOf
<1>7. CASE renew(k)
  <2>1. [item[k] EXCEPT !.lapsed = FALSE].state # "settled"
    BY <1>1, <1>7 DEF renew, Lapsed, Row, Rows
  <2>2. item' = [item EXCEPT ![k] = [item[k] EXCEPT !.lapsed = FALSE]] /\ UNCHANGED announced
    BY <1>7 DEF renew
  <2> QED  BY <1>6, <2>1, <2>2
<1>8. \A g, p : Parked(item[k], g, p).state # "settled"
  BY <1>1, PlainRow
<1>9. ASSUME NEW g \in ParkGates, park(k, g) PROVE Rolled(j)
  <2>1. item' = [item EXCEPT ![k] = Parked(item[k], g, "running")] /\ UNCHANGED announced
    BY <1>9 DEF park
  <2>2. Parked(item[k], g, "running").state # "settled"
    BY <1>8
  <2> QED  BY <1>6, <2>1, <2>2
<1>10. CASE hand_back(k)
  <2>1. CASE Leased(item[k]) /\ charge_and_requeue(item, k)
    BY <1>1, <2>1, ChargeIsRead DEF Leased
  <2> QED  BY <1>6, <1>8, <1>10, <2>1 DEF hand_back
<1> QED  BY <1>3, <1>4, <1>5, <1>7, <1>9, <1>10 DEF LeaseStep

LEMMA ReaperRolls ==
  ASSUME TypeOK, Reaper, NEW j \in Jobs
  PROVE  Rolled(j)
<1>1. Ledger(item) /\ \A i \in Items : Row(item[i])
  BY TypedLedger, LedgerRows
<1>2. CASE expire_park
  <2>1. \A i \in Items : ~NewlyDone(i)
    BY <1>1, <1>2, PlainRow DEF expire_park, NewlyDone, Done
  <2> QED  BY <1>2, <2>1 DEF expire_park, Rolled, ItemsOf
<1> DEFINE spent == {i \in {k \in reaping : Stealable(k)} : attempt_budget_spent(item[i])}
<1>3. CASE expire_steal
  <2>1. settle_if_complete(item', {JobOf[i] : i \in spent})
    BY <1>3 DEF expire_steal
  <2>2. \A i \in Items : NewlyDone(i) => i \in spent
    BY <1>1, <1>3 DEF expire_steal, NewlyDone, Done, ChargedBack, Bumped, Charged,
                      Requeued, Freed, Row, Rows
  <2> HIDE DEF spent
  <2>3. Read(item', {JobOf[i] : i \in spent}, j)
    BY <2>1, <2>2 DEF Read, ItemsOf
  <2> QED  BY <2>3 DEF Rolled
<1>4. CASE revive_expired
  <2>1. settle_if_complete(item', {JobOf[i] : i \in {k \in Items : GivesUp(item[k])}})
    BY <1>4 DEF revive_expired
  <2>2. ASSUME NEW i \in Items, NewlyDone(i) PROVE GivesUp(item[i])
    <3>1. item'[i] = Revival(i)
      BY <1>4 DEF revive_expired
    <3>2. Charged(Requeued(item[i])).state # "settled"
      BY <1>1 DEF Charged, Requeued, Freed, Row, Rows
    <3>3. [item[i] EXCEPT !.gate = "awaiting_seller_signin", !.park = "none"].state = item[i].state
      BY <1>1 DEF Row, Rows
    <3>4. Revival(i).state = "settled" /\ item[i].state # "settled" => GivesUp(item[i])
      BY <3>2, <3>3 DEF Revival
    <3> QED  BY <2>2, <3>1, <3>4 DEF NewlyDone, Done
  <2>3. Read(item', {JobOf[i] : i \in {k \in Items : GivesUp(item[k])}}, j)
    BY <2>1, <2>2 DEF Read, ItemsOf
  <2> QED  BY <2>3 DEF Rolled
<1> QED  BY <1>2, <1>3, <1>4 DEF Reaper

LEMMA StepRolls ==
  ASSUME TypeOK, [Next]_vars, NEW j \in Jobs
  PROVE  Rolled(j)
<1>1. ASSUME UNCHANGED announced,
             \A i \in Items : item'[i].state = "settled" => item[i].state = "settled"
      PROVE  Rolled(j)
  BY <1>1 DEF Rolled, NewlyDone, Done, ItemsOf
<1>2. \A i \in Items : Row(item[i])
  BY TypedLedger, LedgerRows
<1>3. \A g, M : \A i \in Items : Revived(g, M)[i].state = "settled" => item[i].state = "settled"
  BY <1>2 DEF Revived, Requeued, Freed, Row, Rows
<1>4. ASSUME NEW a \in Attempts, AttemptStep(a) PROVE Rolled(j)
  BY <1>1, <1>3, <1>4 DEF AttemptStep, open_attempt, settle_attempt
<1>5. ASSUME NEW k \in Jobs, delete(k) \/ finalise_deletion(k) PROVE Rolled(j)
  <2>1. fence_and_classify(item, attempt, k) /\ UNCHANGED announced
    BY <1>5 DEF delete, finalise_deletion
  <2>2. \A i \in Items : ~NewlyDone(i)
    BY <2>1, FenceSettlesTheDeleted DEF NewlyDone
  <2> QED  BY <2>1, <2>2 DEF Rolled, ItemsOf
<1>6. SellerStep \/ Sweep => Rolled(j)
  BY <1>1, <1>3, <1>5 DEF SellerStep, Sweep, seller_answers, Relink, bind_pasted
<1>7. Clock => Rolled(j)
  <2>1. Clock => UNCHANGED announced /\ \A i \in Items : item'[i].state = item[i].state
    BY DEF Clock, LeaseLapses, ParkFallsDue, TypeOK, Rows
  <2> QED  BY <1>1, <2>1
<1>8. gate_connection \/ (\E h \in Halts : raise_org_inventory(h) \/ OperatorLiftsHalt(h))
        => Rolled(j)
  BY <1>1 DEF gate_connection, raise_org_inventory, OperatorLiftsHalt
<1>9. UNCHANGED vars => Rolled(j)
  BY <1>1 DEF vars
<1> QED  BY <1>4, <1>6, <1>7, <1>8, <1>9, LeaseStepRolls, ReaperRolls DEF Next

LEMMA CompletionStays ==
  ASSUME TypeOK, CompletionIsAnnounced, [Next]_vars
  PROVE  CompletionIsAnnounced'
<1> SUFFICES ASSUME NEW j \in Jobs, ItemsOf(j) # {}
             PROVE  /\ announced'[j] => \A i \in ItemsOf(j) : Done(item', i)
                    /\ (\A i \in ItemsOf(j) : Done(item', i)) /\ deletion'[j] = "none"
                         => announced'[j]
  BY DEF CompletionIsAnnounced, DeletionRequested, Done
<1>1. /\ announced[j] => \A i \in ItemsOf(j) : Done(item, i)
      /\ (\A i \in ItemsOf(j) : Done(item, i)) /\ deletion[j] = "none" => announced[j]
  BY DEF CompletionIsAnnounced, DeletionRequested, Done
<1>2. \A i \in ItemsOf(j) : i \in Items /\ JobOf[i] = j
  BY DEF ItemsOf
<1>3. \A i \in ItemsOf(j) : Done(item, i) => Done(item', i)
  BY <1>2, SettledStays DEF Done
<1>4. deletion'[j] = "none" => deletion[j] = "none"
  BY DeletionIsReclassified, Classified
<1>5. CASE UNCHANGED announced /\ \A i \in ItemsOf(j) : ~NewlyDone(i)
  BY <1>1, <1>2, <1>3, <1>4, <1>5 DEF NewlyDone
<1>6. ASSUME NEW it, NEW J, Read(it, J, j)
      PROVE  /\ announced'[j] => \A i \in ItemsOf(j) : Done(item', i)
             /\ (\A i \in ItemsOf(j) : Done(item', i)) /\ deletion'[j] = "none"
                  => announced'[j]
  <2>1. announced'[j] <=> announced[j] \/ (j \in J /\ \A i \in ItemsOf(j) : Done(it, i))
    BY <1>6 DEF Read, settle_if_complete, Done, TypeOK
  <2>2. \A i \in ItemsOf(j) : /\ Done(it, i) => Done(item', i)
                              /\ NewlyDone(i) => j \in J
                              /\ Done(item', i) /\ deletion'[j] = "none" => Done(it, i)
    BY <1>6 DEF Read
  <2>3. announced'[j] => \A i \in ItemsOf(j) : Done(item', i)
    <3>1. CASE announced[j]
      BY <1>1, <1>3, <3>1
    <3>2. CASE \A i \in ItemsOf(j) : Done(it, i)
      BY <2>2, <3>2 DEF Done
    <3>3. announced'[j] => announced[j] \/ \A i \in ItemsOf(j) : Done(it, i)
      BY <2>1, Zenon
    <3> QED  BY <3>1, <3>2, <3>3, Zenon
  <2>4. ASSUME \A i \in ItemsOf(j) : Done(item', i), deletion'[j] = "none"
        PROVE  announced'[j]
    <3>1. CASE \A i \in ItemsOf(j) : Done(item, i)
      <4>1. announced[j]
        BY <1>1, <1>4, <2>4, <3>1
      <4> QED  BY <2>1, <4>1, Zenon
    <3>2. CASE \E i \in ItemsOf(j) : NewlyDone(i)
      <4>1. j \in J
        BY <2>2, <3>2
      <4>2. \A i \in ItemsOf(j) : Done(it, i)
        BY <2>2, <2>4
      <4> QED  BY <2>1, <4>1, <4>2, Zenon
    <3> QED  BY <1>2, <2>4, <3>1, <3>2 DEF NewlyDone
  <2> QED  BY <2>3, <2>4
<1> QED  BY <1>5, <1>6, StepRolls DEF Rolled

\* A job nobody deleted is announced exactly when its last item settles, on
\* each of the paths that settle one (settle_if_complete): a settle, the
\* charge of a spent item, the steal, and the revival that gives up.
THEOREM EveryCompletionIsAnnounced == Spec => []CompletionIsAnnounced
<1>1. Init => CompletionIsAnnounced
  BY DEF Init, NewRow, CompletionIsAnnounced, ItemsOf
<1>2. TypeOK /\ CompletionIsAnnounced /\ [Next]_vars => CompletionIsAnnounced'
  BY CompletionStays
<1> QED  BY <1>1, <1>2, TypeCorrect, PTL DEF Spec
=============================================================================
