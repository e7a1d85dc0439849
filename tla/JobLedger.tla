----------------------------- MODULE JobLedger -----------------------------
(***************************************************************************)
(* The job ledger of one tenant and one marketplace account                *)
(* (tam-storage/src/jobs.rs): job items and their leases, write attempts,  *)
(* the binding of each mapping, the connection, the halts, and the         *)
(* deletion of a job.                                                      *)
(*                                                                         *)
(* Every method is one action, and every action may be taken by anyone who *)
(* was ever handed a lease: a call that names an epoch the item has left   *)
(* answers StaleLease and changes nothing, so an action names only the     *)
(* item and means "some holder, however late, presents the epoch the item  *)
(* carries now".  Time is the two bits that SQL computes from now(): an    *)
(* item's lease has lapsed, its park has fallen due.                       *)
(***************************************************************************)
EXTENDS Naturals, FiniteSets

CONSTANTS
  Items, Jobs, Mappings, Devices, Attempts,
  None,
  JobOf, MappingOf,   \* the job and the mapping an item belongs to
  Op,                 \* job_item.operation
  WaitsFor,           \* requires_bound_on, resolved to a mapping, or None
  ParkGates,          \* the gates a holder parks on
  Outcomes,           \* the outcomes a holder settles an item with
  Verdicts,           \* the verdicts a holder settles an attempt with
  Halts,              \* the halts that can cover this marketplace
  AttemptsMax,        \* tam_limits::job::ATTEMPTS_MAX
  MaxCount            \* bound: a re-link charges without the budget test

Operations == {"create", "revise", "remove"}   \* the ledger treats a publish as a revise
REVIVABLE_GATES == {"reconciliation", "election", "awaiting_counterpart", "binding"}
Gates == REVIVABLE_GATES \cup {"ReauthRequired", "awaiting_seller_signin",
                               "awaiting_marketplace_answer"}

ASSUME ItemsAssumption ==
  /\ JobOf \in [Items -> Jobs]
  /\ MappingOf \in [Items -> Mappings]
  /\ Op \in [Items -> Operations]
  /\ WaitsFor \in [Items -> Mappings \cup {None}]
  /\ ParkGates \subseteq Gates
ASSUME HolderAssumption ==
  /\ Outcomes \subseteq {"succeeded", "degraded", "failed", "ambiguous", "skipped", "blocked"}
  /\ Verdicts \subseteq {"committed", "failed", "ambiguous", "abandoned"}
ASSUME BudgetAssumption ==
  AttemptsMax \in Nat \ {0} /\ MaxCount \in Nat /\ MaxCount + 1 >= AttemptsMax
ASSUME NoneAssumption ==
  None \notin Items \cup Jobs \cup Mappings \cup Devices \cup Attempts \cup Gates

VARIABLES
  item,       \* job_item, one row per item
  attempt,    \* write_attempt; state "none" is a row not yet inserted
  binding,    \* mapping.binding_state
  linked,     \* connection.state = 'linked'
  halts,      \* the halts standing over this marketplace
  deletion,   \* job.deletion_state; "none" where no deletion was requested
  announced,  \* the job's JobSettled event exists
  reaping     \* lapsed items a running expire_and_steal has still to take

vars == <<item, attempt, binding, linked, halts, deletion, announced, reaping>>

Rows == [state : {"queued", "leased", "parked_live", "settled"},
         owner : Devices \cup {None}, lapsed : BOOLEAN, epoch : Nat, count : Nat,
         gate : Gates \cup {None}, park : {"none", "running", "due"},
         \* "cancelled" is 'skipped' with the detail DELETED_BEFORE_IT_RAN
         outcome : {"none", "succeeded", "degraded", "failed", "ambiguous",
                    "skipped", "blocked", "cancelled"}]
AttemptRows == [state : {"none", "in_flight", "committed", "failed", "ambiguous", "abandoned"},
                item : Items \cup {None}, epoch : Nat]

ItemsOf(j) == {i \in Items : JobOf[i] = j}
DeletionRequested(j) == deletion[j] # "none"

-----------------------------------------------------------------------------
(* What an UPDATE does to one row.                                         *)

\* Mutant: a row that leaves its lease keeps the owner it had.
Freed_mutant(r) == [r EXCEPT !.lapsed = FALSE]
Freed(r) == [r EXCEPT !.owner = None, !.lapsed = FALSE]
Parked(r, g, park) == [Freed(r) EXCEPT !.state = "parked_live", !.gate = g, !.park = park]
Requeued(r) == [Freed(r) EXCEPT !.state = "queued", !.gate = None, !.park = "none"]
Settled(r, o) == [Freed(r) EXCEPT !.state = "settled", !.outcome = o,
                                  !.gate = None, !.park = "none"]
Bumped(r) == [r EXCEPT !.epoch = @ + 1]
Charged(r) == [r EXCEPT !.count = @ + 1]

attempt_budget_spent(r) == r.count + 1 >= AttemptsMax

Leased(r) == r.state = "leased"
Lapsed(r) == r.state = "leased" /\ r.lapsed

(* Attempt rows of item i in one of these states; at the item's own epoch. *)
Holds(att, i, S) == \E a \in Attempts : att[a].item = i /\ att[a].state \in S
HoldsNow(it, att, i, S) ==
  \E a \in Attempts : att[a].item = i /\ att[a].state \in S /\ att[a].epoch = it[i].epoch

\* A write may have reached the marketplace: every state but 'abandoned',
\* which records that nothing was sent, and 'failed', which a refusal writes.
Evidence == {"in_flight", "ambiguous", "committed"}

\* The predicate hand_back and expire_and_steal share.
\* Mutant: the attempt may be of an epoch the item has left.
StrandedCreate_mutant(i) ==
  Op[i] = "create" /\ Holds(attempt, i, {"in_flight"}) /\ binding[MappingOf[i]] # "bound"
StrandedCreate(i) ==
  /\ Op[i] = "create"
  /\ HoldsNow(item, attempt, i, {"in_flight"})
  /\ binding[MappingOf[i]] # "bound"

-----------------------------------------------------------------------------
(* A deletion re-read against the ledger: fence_and_classify.              *)

park_stopped_writes(it, att, j) ==
  [i \in Items |->
     IF i \in ItemsOf(j) /\ Lapsed(it[i]) /\ HoldsNow(it, att, i, Evidence)
     THEN Parked(it[i], "awaiting_marketplace_answer", "none") ELSE it[i]]

\* Mutant: only an attempt still in flight counts as a write.
Cancellable_mutant(it, att, i) ==
  /\ it[i].state # "settled"
  /\ Leased(it[i]) => it[i].lapsed
  /\ ~Holds(att, i, {"in_flight"})
\* Mutant: a settled item is cancelled over the outcome it earned.
Cancellable_overwriting_mutant(it, att, i) ==
  /\ Leased(it[i]) => it[i].lapsed
  /\ ~Holds(att, i, Evidence)
Cancellable(it, att, i) ==
  /\ it[i].state # "settled"
  /\ Leased(it[i]) => it[i].lapsed
  /\ ~Holds(att, i, Evidence)

cancel_unstarted_items(it, att, j) ==
  [i \in Items |->
     IF i \in ItemsOf(j) /\ Cancellable(it, att, i)
     THEN Bumped(Settled(it[i], "cancelled")) ELSE it[i]]

\* Mutant: an in-flight attempt is taken for decided once its item settled.
Undecided_mutant(it, att, j) == \E i \in ItemsOf(j) : it[i].state # "settled"
Undecided(it, att, j) ==
  \E i \in ItemsOf(j) :
     \/ Holds(att, i, {"in_flight", "ambiguous"})
     \/ it[i].state # "settled"
     \/ it[i].outcome = "ambiguous"

\* Mutant: a lease counts as executing whether or not it has lapsed.
classify_deletion_mutant(it, att, j) ==
  IF \E i \in ItemsOf(j) : Leased(it[i]) THEN "stopping"
  ELSE IF Undecided(it, att, j) THEN "needs_review"
  ELSE "deleted"
classify_deletion(it, att, j) ==
  IF \E i \in ItemsOf(j) : Leased(it[i]) /\ ~it[i].lapsed THEN "stopping"
  ELSE IF Undecided(it, att, j) THEN "needs_review"
  ELSE "deleted"

Fenced(it, att, j) == cancel_unstarted_items(park_stopped_writes(it, att, j), att, j)

fence_and_classify(it, att, j) ==
  /\ item' = Fenced(it, att, j)
  /\ deletion' = [deletion EXCEPT ![j] = classify_deletion(Fenced(it, att, j), att, j)]

reconcile_job_deletion(it, att, j) ==
  IF DeletionRequested(j) THEN fence_and_classify(it, att, j)
  ELSE item' = it /\ UNCHANGED deletion

\* JobSettled is appended by whoever settles the last item of a job in J.
\* Mutant: the rollup reads the ledger as it stood before the settle.
settle_if_complete_mutant(it, J) ==
  announced' = [j \in Jobs |-> announced[j] \/
                  (j \in J /\ ItemsOf(j) # {} /\ \A i \in ItemsOf(j) : item[i].state = "settled")]
settle_if_complete(it, J) ==
  announced' = [j \in Jobs |-> announced[j] \/
                  (j \in J /\ ItemsOf(j) # {} /\ \A i \in ItemsOf(j) : it[i].state = "settled")]

-----------------------------------------------------------------------------
(* Leases.                                                                 *)

Reconcilable(i) ==
  /\ Op[i] = "create"
  /\ item[i].state = "parked_live"
  /\ item[i].gate \in {"awaiting_seller_signin", "awaiting_marketplace_answer"}
  /\ Holds(attempt, i, {"in_flight"})

Claimable(i) ==
  \/ item[i].state = "queued" /\ ~DeletionRequested(JobOf[i])
  \/ Reconcilable(i)

(* The candidate filter of the claim and its UPDATE.  Which candidate is   *)
(* first is left open: SKIP LOCKED passes over a row another claim holds.  *)
SlotIsFree == linked /\ halts = {} /\ \A k \in Items : ~Leased(item[k])
Claimed(d, i) ==
  [item EXCEPT ![i].state = "leased", ![i].owner = d, ![i].lapsed = FALSE,
               ![i].gate = None, ![i].park = "none"]

claim_for_device(d, i) ==
  /\ Claimable(i) /\ SlotIsFree
  /\ item' = Claimed(d, i)
  /\ UNCHANGED <<attempt, binding, linked, halts, deletion, announced, reaping>>

renew(i) ==
  /\ Lapsed(item[i])   \* renewing an unlapsed lease changes nothing modelled
  /\ item' = [item EXCEPT ![i].lapsed = FALSE]
  /\ UNCHANGED <<attempt, binding, linked, halts, deletion, announced, reaping>>

settle(i, o) ==
  /\ Leased(item[i])
  /\ LET it == [item EXCEPT ![i] = Settled(@, o)] IN
       /\ settle_if_complete(it, {JobOf[i]})
       /\ reconcile_job_deletion(it, attempt, JobOf[i])
  /\ UNCHANGED <<attempt, binding, linked, halts, reaping>>

park(i, g) ==
  /\ Leased(item[i])
  /\ item' = [item EXCEPT ![i] = Parked(@, g, "running")]
  /\ UNCHANGED <<attempt, binding, linked, halts, deletion, announced, reaping>>

\* Mutant: the requeue leaves the epoch alone, as a revival does.
ChargedBack_mutant(r) == Charged(Requeued(r))
ChargedBack(r) == Bumped(Charged(Requeued(r)))

charge_and_requeue(it, i) ==
  /\ LET spent == attempt_budget_spent(it[i])
         charged == [it EXCEPT ![i] = IF spent THEN Bumped(Settled(@, "failed"))
                                      ELSE ChargedBack(@)]
     IN /\ settle_if_complete(charged, IF spent THEN {JobOf[i]} ELSE {})
        /\ reconcile_job_deletion(charged, attempt, JobOf[i])
  /\ UNCHANGED <<attempt, binding, linked, halts, reaping>>

(* The claim route (tam-api/src/work.rs) charges a claim it could not      *)
(* prepare an order for.  Nobody else learns of the lease in between, so   *)
(* the two transactions are one step; a route that dies between them is a  *)
(* claim_for_device nobody follows up.                                     *)
claim_refused(d, i) ==
  /\ Claimable(i) /\ SlotIsFree
  /\ charge_and_requeue(Claimed(d, i), i)

(* hand_back: a stranded create parks, keeping its epoch and its fence;    *)
(* anything else is charge_and_requeue.  LeaseRepo::release, which would   *)
(* requeue under the epoch the item has, is called by no program of the    *)
(* repository, only by a test of its own, and is no action here.           *)
hand_back(i) ==
  \/ /\ Leased(item[i]) /\ StrandedCreate(i)
     /\ item' = [item EXCEPT ![i] = Parked(@, "awaiting_marketplace_answer", "none")]
     /\ UNCHANGED <<attempt, binding, linked, halts, deletion, announced, reaping>>
  \/ Leased(item[i]) /\ ~StrandedCreate(i) /\ charge_and_requeue(item, i)

(* expire_and_steal is three statements under READ COMMITTED, each with a  *)
(* snapshot of its own; now() is the transaction's, so the lapsed items    *)
(* are fixed when it begins.  The first parks stranded creates; the other  *)
(* two read nothing that moves between them and are one action.            *)
expire_park ==
  /\ reaping = {}
  /\ LET due == {i \in Items : Lapsed(item[i])}
         stranded == {i \in due : StrandedCreate(i)}
     IN /\ due # {}
        /\ item' = [i \in Items |-> IF i \in stranded
                      THEN Parked(item[i], "awaiting_marketplace_answer", "none") ELSE item[i]]
        /\ reaping' = due \ stranded
  /\ UNCHANGED <<attempt, binding, linked, halts, deletion, announced>>

\* Mutant: the arm that settles an exhausted item is lost.
Stealable_mutant(i) ==
  Lapsed(item[i]) /\ ~DeletionRequested(JobOf[i]) /\ ~attempt_budget_spent(item[i])
Stealable(i) == Lapsed(item[i]) /\ ~DeletionRequested(JobOf[i])

expire_steal ==
  /\ reaping # {}
  /\ LET taken == {i \in reaping : Stealable(i)}
         spent == {i \in taken : attempt_budget_spent(item[i])}
         it == [i \in Items |-> CASE i \in spent -> Bumped(Settled(item[i], "failed"))
                                  [] i \in taken \ spent -> ChargedBack(item[i])
                                  [] OTHER -> item[i]]
     IN /\ item' = it
        /\ settle_if_complete(it, {JobOf[i] : i \in spent})
  /\ reaping' = {}
  /\ UNCHANGED <<attempt, binding, linked, halts, deletion>>

(* revive_expired: give up on a spent park, revive a due one, re-gate a    *)
(* create whose sign-in park aged out, and requeue what a re-link cleared, *)
(* releasing its attempt.  The arms match disjoint rows.                   *)
GivesUp(r) == /\ r.state = "parked_live" /\ r.park = "due"
              /\ r.gate \in REVIVABLE_GATES /\ attempt_budget_spent(r)
FallsBack(i) == /\ item[i].state = "parked_live" /\ item[i].park = "due"
                /\ item[i].gate \in REVIVABLE_GATES
                /\ ~attempt_budget_spent(item[i]) /\ ~DeletionRequested(JobOf[i])
ReGated(i) == /\ item[i].state = "parked_live" /\ item[i].park = "due"
              /\ item[i].gate = "ReauthRequired" /\ Op[i] = "create"
Relinked(i) == /\ item[i].state = "parked_live" /\ item[i].gate = "ReauthRequired"
               /\ Op[i] # "create" /\ ~DeletionRequested(JobOf[i])
               /\ linked /\ item[i].count < MaxCount

Revival(i) ==
  CASE GivesUp(item[i]) -> Settled(item[i], "skipped")
    [] FallsBack(i) \/ Relinked(i) -> Charged(Requeued(item[i]))
    [] ReGated(i) -> [item[i] EXCEPT !.gate = "awaiting_seller_signin", !.park = "none"]
    [] OTHER -> item[i]
Released(a) ==
  IF attempt[a].state = "in_flight" /\ Relinked(attempt[a].item)
  THEN [attempt[a] EXCEPT !.state = "abandoned"] ELSE attempt[a]

revive_expired ==
  LET it == [i \in Items |-> Revival(i)] IN
  /\ \E i \in Items : GivesUp(item[i]) \/ FallsBack(i) \/ Relinked(i) \/ ReGated(i)
  /\ item' = it
  /\ attempt' = [a \in Attempts |-> Released(a)]
  /\ settle_if_complete(it, {JobOf[i] : i \in {k \in Items : GivesUp(item[k])}})
  /\ UNCHANGED <<binding, linked, halts, deletion, reaping>>

(* revive_by_gap (every mapping), revive_on (one) and revive_counterparts: *)
(* the parks on gate g that an answer about the mappings in M clears.      *)
Awaits(i, g, M) ==
  /\ item[i].state = "parked_live" /\ item[i].gate = g
  /\ IF g = "awaiting_counterpart" THEN WaitsFor[i] \in M ELSE MappingOf[i] \in M
  /\ ~DeletionRequested(JobOf[i])
Revived(g, M) == [i \in Items |-> IF Awaits(i, g, M) THEN Requeued(item[i]) ELSE item[i]]

seller_answers(g, M) ==
  /\ \E i \in Items : Awaits(i, g, M)
  /\ item' = Revived(g, M)
  /\ UNCHANGED <<attempt, binding, linked, halts, deletion, announced, reaping>>

-----------------------------------------------------------------------------
(* Write attempts.                                                         *)

\* assert_admissible_lease; the lease need not be unlapsed.
Admissible(i) == Leased(item[i]) /\ ~DeletionRequested(JobOf[i])

\* Mutant: the unique index reads the bound mappings alone.
InFlightOn_mutant(m) ==
  {a \in Attempts : attempt[a].state = "in_flight" /\ MappingOf[attempt[a].item] = m
                      /\ binding[m] = "bound"}
InFlightOn(m) == {a \in Attempts : attempt[a].state = "in_flight" /\ MappingOf[attempt[a].item] = m}

open_attempt(i, a) ==
  /\ Admissible(i)
  /\ attempt[a].state = "none"   \* re-offering an id changes nothing
  /\ InFlightOn(MappingOf[i]) = {}   \* write_attempt_one_in_flight
  /\ ~(Op[i] = "create" /\ binding[MappingOf[i]] = "bound")   \* admit
  /\ attempt' = [attempt EXCEPT ![a] = [state |-> "in_flight", item |-> i, epoch |-> item[i].epoch]]
  /\ UNCHANGED <<item, binding, linked, halts, deletion, announced, reaping>>

(* settle: epoch-fenced, whatever state the item is in.  A landing binds   *)
(* an unbound or severed mapping or confirms the listing a bound one       *)
(* already names, and either requeues what waited for it; a sever releases *)
(* a bound one.  "refused" is the fence that matched no row: the listing   *)
(* is another mapping's, or this mapping is bound to another listing.      *)
Landings(verdict, i) ==
  IF verdict # "committed" THEN {"none"}
  ELSE IF Op[i] = "remove" THEN {"severed", "refused"}
  ELSE {"landed", "refused"}

settle_attempt(a, verdict, landing) ==
  LET i == attempt[a].item
      m == MappingOf[i]
  IN /\ attempt[a].state = "in_flight"
     /\ attempt[a].epoch = item[i].epoch   \* assert_current_epoch
     /\ landing \in Landings(verdict, i)
     /\ attempt' = [attempt EXCEPT ![a].state = verdict]
     /\ binding' = CASE landing = "landed" -> [binding EXCEPT ![m] = "bound"]
                     [] landing = "severed" /\ binding[m] = "bound" ->
                          [binding EXCEPT ![m] = "severed"]
                     [] OTHER -> binding
     /\ item' = IF landing = "landed" THEN Revived("awaiting_counterpart", {m}) ELSE item
     /\ UNCHANGED <<linked, halts, deletion, announced, reaping>>

(* The seller names a listing of their own for a mapping (mapping.rs): no  *)
(* lease, attempt or waiting item is looked at.                            *)
bind_pasted(m) ==
  /\ binding[m] = "unbound"
  /\ binding' = [binding EXCEPT ![m] = "bound"]
  /\ UNCHANGED <<item, attempt, linked, halts, deletion, announced, reaping>>

-----------------------------------------------------------------------------
(* Deletion, the connection, the halts and the clock.                      *)

delete(j) ==
  /\ fence_and_classify(item, attempt, j)
  /\ UNCHANGED <<attempt, binding, linked, halts, announced, reaping>>

finalise_deletion(j) ==
  /\ deletion[j] \in {"stopping", "needs_review"}
  /\ fence_and_classify(item, attempt, j)
  /\ UNCHANGED <<attempt, binding, linked, halts, announced, reaping>>

gate_connection ==
  /\ linked /\ linked' = FALSE
  /\ UNCHANGED <<item, attempt, binding, halts, deletion, announced, reaping>>

Relink ==
  /\ ~linked /\ linked' = TRUE
  /\ UNCHANGED <<item, attempt, binding, halts, deletion, announced, reaping>>

raise_org_inventory(h) ==
  /\ h \notin halts /\ halts' = halts \cup {h}
  /\ UNCHANGED <<item, attempt, binding, linked, deletion, announced, reaping>>

OperatorLiftsHalt(h) ==
  /\ h \in halts /\ halts' = halts \ {h}
  /\ UNCHANGED <<item, attempt, binding, linked, deletion, announced, reaping>>

LeaseLapses(i) ==
  /\ Leased(item[i]) /\ ~item[i].lapsed
  /\ i \notin reaping   \* a renewed lease outlives the pass it was renewed under
  /\ item' = [item EXCEPT ![i].lapsed = TRUE]
  /\ UNCHANGED <<attempt, binding, linked, halts, deletion, announced, reaping>>

ParkFallsDue(i) ==
  /\ item[i].state = "parked_live" /\ item[i].park = "running"
  /\ item' = [item EXCEPT ![i].park = "due"]
  /\ UNCHANGED <<attempt, binding, linked, halts, deletion, announced, reaping>>

-----------------------------------------------------------------------------
NewRow == [state |-> "queued", owner |-> None, lapsed |-> FALSE, epoch |-> 0, count |-> 0,
           gate |-> None, park |-> "none", outcome |-> "none"]

Init ==
  /\ item = [i \in Items |-> NewRow]
  /\ attempt = [a \in Attempts |-> [state |-> "none", item |-> None, epoch |-> 0]]
  /\ binding \in [Mappings -> {"unbound", "bound"}]
  /\ linked = TRUE
  /\ halts = {}
  /\ deletion = [j \in Jobs |-> "none"]
  /\ announced = [j \in Jobs |-> FALSE]
  /\ reaping = {}


LeaseStep(i) ==
  \/ \E d \in Devices : claim_for_device(d, i) \/ claim_refused(d, i)
  \/ renew(i)
  \/ \E o \in Outcomes : settle(i, o)
  \/ \E g \in ParkGates : park(i, g)
  \/ hand_back(i)

AttemptStep(a) ==
  \/ \E i \in Items : open_attempt(i, a)
  \/ \E verdict \in Verdicts, landing \in {"none", "landed", "refused", "severed"} :
        settle_attempt(a, verdict, landing)

SellerStep ==
  \/ seller_answers("reconciliation", Mappings)
  \/ \E m \in Mappings : seller_answers("election", {m}) \/ bind_pasted(m)
  \/ \E j \in Jobs : delete(j)
  \/ Relink

Reaper == expire_park \/ expire_steal \/ revive_expired
Sweep == \E j \in Jobs : finalise_deletion(j)
Clock == \E i \in Items : LeaseLapses(i) \/ ParkFallsDue(i)

Next ==
  \/ \E i \in Items : LeaseStep(i)
  \/ \E a \in Attempts : AttemptStep(a)
  \/ SellerStep \/ Reaper \/ Sweep \/ Clock
  \/ gate_connection
  \/ \E h \in Halts : raise_org_inventory(h) \/ OperatorLiftsHalt(h)

Spec == Init /\ [][Next]_vars

-----------------------------------------------------------------------------
(* Safety.                                                                 *)

WellFormed(r) ==
  /\ r.owner # None <=> r.state = "leased"
  /\ r.gate # None <=> r.state = "parked_live"
  /\ r.outcome # "none" <=> r.state = "settled"
  /\ r.park # "none" => r.state = "parked_live"
  /\ r.lapsed => r.state = "leased"
  /\ r.count <= MaxCount

\* Every row keeps its shape: an owner exactly while leased, a gate and a
\* park exactly while parked, an outcome exactly once settled, an item on
\* every attempt that was inserted, and never more charges than the budget
\* and the re-links allow.
TypeOK ==
  /\ item \in [Items -> Rows] /\ \A i \in Items : WellFormed(item[i])
  /\ attempt \in [Attempts -> AttemptRows]
  /\ \A a \in Attempts : attempt[a].item = None <=> attempt[a].state = "none"
  /\ binding \in [Mappings -> {"unbound", "bound", "severed"}]
  /\ linked \in BOOLEAN /\ halts \subseteq Halts
  /\ deletion \in [Jobs -> {"none", "stopping", "needs_review", "deleted"}]
  /\ announced \in [Jobs -> BOOLEAN]
  /\ reaping \subseteq Items

\* What a job answering `deleted` promises the seller: nothing of it is
\* running, waiting or undecided (classify_deletion).  The claim, the
\* admission, the cancellation and the classification have to agree for it
\* to survive a holder that was mid-run when Delete was pressed.
Quiet(j) ==
  \A i \in ItemsOf(j) :
    /\ item[i].state = "settled" /\ item[i].outcome # "ambiguous"
    /\ ~Holds(attempt, i, {"in_flight", "ambiguous"})
DeletedIsQuiet == \A j \in Jobs : deletion[j] = "deleted" => Quiet(j)

\* "There is no schedule in which a job answers `deleted` and an in-flight
\* attempt appears afterwards" (jobs.rs, assert_admissible_lease): no step
\* after the answer gives the job an attempt, changes one it has, touches
\* an item of it or takes the answer back.
DeletedIsFinal ==
  [][\A j \in Jobs : deletion[j] = "deleted" =>
       /\ deletion'[j] = "deleted"
       /\ \A i \in ItemsOf(j) : item'[i] = item[i]
       /\ \A a \in Attempts :
            attempt'[a].item \in ItemsOf(j) => attempt'[a] = attempt[a]]_vars

\* An item the deletion reports as never run has no attempt that may have
\* reached the marketplace, and never acquires one, however late the holder
\* that lost it calls (cancel_unstarted_items).
CancelledSentNothing ==
  \A i \in Items : item[i].outcome = "cancelled" => ~Holds(attempt, i, Evidence)

\* A job nobody deleted is announced exactly when its last item settles,
\* whichever of the five settling paths that was (settle_if_complete).
CompletionIsAnnounced ==
  \A j \in Jobs : ItemsOf(j) # {} =>
    LET complete == \A i \in ItemsOf(j) : item[i].state = "settled" IN
      /\ announced[j] => complete
      /\ complete /\ ~DeletionRequested(j) => announced[j]

\* A settled row is history: no reaper pass, revival, cancellation or late
\* holder changes its outcome or its epoch.
SettledIsFinal ==
  [][\A i \in Items : item[i].state = "settled" => item'[i] = item[i]]_vars

\* An item taken from its holder back to the queue leaves under a new epoch,
\* so the former holder's calls answer StaleLease to the end.
TakenIsFenced ==
  [][\A i \in Items : Leased(item[i]) /\ item'[i].state = "queued"
                         => item'[i].epoch > item[i].epoch]_vars

\* A mapping's binding is changed by the seller's paste or by the landing of
\* the one write that held its fence: no write in flight is ever overtaken on
\* its mapping by another's landing or removal, whatever jobs and epochs the
\* two belong to (write_attempt_one_in_flight, admit).
BindingFollowsItsFence ==
  [][\A m \in Mappings : binding'[m] # binding[m] =>
       \/ binding[m] = "unbound" /\ attempt' = attempt
       \/ \E a \in Attempts :
            /\ attempt[a].state = "in_flight" /\ attempt'[a].state = "committed"
            /\ \A b \in Attempts : attempt[b].state = "in_flight" /\ MappingOf[attempt[b].item] = m
                                    => b = a]_vars

-----------------------------------------------------------------------------
(* Liveness.  The maintenance loop of tam-worker runs both reapers for     *)
(* ever, and the deletion sweep of tam-api's scheduler re-reads every open *)
(* deletion; nothing is assumed of holders, sellers or the clock.          *)

LiveSpec ==
  /\ Spec
  /\ WF_vars(expire_park) /\ WF_vars(expire_steal) /\ WF_vars(revive_expired)
  /\ \A j \in Jobs : WF_vars(finalise_deletion(j))

\* A lapsed lease of a job nobody deleted leaves the one lease slot of its
\* connection, or is renewed.
LapsedIsTaken ==
  \A i \in Items : Lapsed(item[i]) /\ ~DeletionRequested(JobOf[i])
                      ~> ~Lapsed(item[i]) \/ DeletionRequested(JobOf[i])

\* A deletion does not read `stopping` for ever once no holder is left to
\* stop: the sweep answers needs_review or deleted.
Executing(j) == \E i \in ItemsOf(j) : Leased(item[i]) /\ ~item[i].lapsed
StoppingIsResolved ==
  \A j \in Jobs : <>[]~Executing(j) => (deletion[j] = "stopping" ~> deletion[j] # "stopping")

-----------------------------------------------------------------------------
(* What comments of the repository say of the ledger and it does not do.   *)

\* hand_back and expire_and_steal both say that a create whose attempt is in
\* flight under its epoch, its mapping unbound, "must reach neither" the
\* settle nor the steal, because requeueing it would create the listing again.
StrandedCreateIsNotRequeued ==
  [][\A i \in Items : StrandedCreate(i) => item'[i].state # "queued"]_vars
=============================================================================
