---------------------------- MODULE EngineDriver ----------------------------
(***************************************************************************)
(* The runs of the devices (tam-engine-driver/src/driver.rs) over the job  *)
(* ledger, each interpreting the effects of a sync machine one call at a   *)
(* time, against a marketplace that remembers which writes landed.         *)
(*                                                                         *)
(* A call to the ledger passes the held_by check of the work API; a call   *)
(* to the marketplace passes nothing.  Any ledger call may be refused, or  *)
(* fail, or take effect and lose its answer: the run abandons and hands    *)
(* its lease back.  A device may die between any two calls.                *)
(***************************************************************************)
EXTENDS JobLedger, Sequences

CONSTANTS
  StepBudget,     \* ACTIONS_PER_ITEM of tam-engine's seed.rs
  EarlyAnswers,   \* what the adapter may answer with nothing on the marketplace,
  LateAnswers     \* and although the write landed

M == INSTANCE SyncMachine WITH NoAttempt <- None

PreparationGates == {"binding", "awaiting_counterpart", "reconciliation", "election"}

ASSUME DriverAssumption ==
  /\ StepBudget \in Nat
  /\ EarlyAnswers \cup LateAnswers \subseteq M!AdapterErrors
  /\ PreparationGates \cup {"ReauthRequired"} \subseteq ParkGates
  /\ {"succeeded", "failed", "ambiguous", "skipped", "blocked"} \subseteq Outcomes
  /\ Verdicts = {"committed", "failed", "ambiguous", "abandoned"}

VARIABLES
  run,      \* each device's run, or None
  landed    \* the attempts whose write the marketplace carried out

driverVars == <<vars, run, landed>>

-----------------------------------------------------------------------------
(* A run: the lease it was handed, its machine, the effects still to be    *)
(* interpreted (todo), the machine's next input (pending), the attempt it  *)
(* answers for (current_attempt), and whether it has searched for its      *)
(* strand and was challenged in mid-write.                                 *)

NoInput == M!In("none", "none")
\* Mutant: every order is taken for a reconcile.
StrandedInput_mutant(a) == M!InOn("resume", a)
StrandedInput(a) == IF a = None THEN NoInput ELSE M!InOn("resume", a)

NewRun(i, e, a) ==
  [item |-> i, epoch |-> e, m |-> M!Machine(Op[i], "draft", TRUE, StepBudget),
   todo |-> <<"prepare">>, pending |-> StrandedInput(a), current_attempt |-> None,
   resumed |-> FALSE, blocked_mid_write |-> FALSE]

Abandoned(r) == [NewRun(r.item, r.epoch, None) EXCEPT !.todo = <<"hand_back">>]

\* The machine's effects, and what the driver does before and after them.
Tasks == M!Effects \cup {"prepare", "start", "send", "settle_item", "settle_blocked",
                         "settle_skipped", "settle_unsent", "settle_unread", "hand_back"}
Runs == [item : Items, epoch : Nat, m : M!Machines, todo : Seq(Tasks),
         pending : M!Inputs \cup {NoInput}, current_attempt : Attempts \cup {None},
         resumed : BOOLEAN, blocked_mid_write : BOOLEAN]

Becomes(d, r) == run' = [run EXCEPT ![d] = r]
At(d, step) == run[d] # None /\ run[d].todo # <<>> /\ Head(run[d].todo) = step
EffectsDone(d) == run[d] # None /\ run[d].todo = <<>>
Passed(r) == [r EXCEPT !.todo = Tail(@)]
Answered(r, in) == [Passed(r) EXCEPT !.pending = in]
Owning(r, a) == [r EXCEPT !.current_attempt = a]

Held(d) ==
  /\ run[d] # None
  /\ LET r == run[d] IN
       Leased(item[r.item]) /\ item[r.item].owner = d /\ item[r.item].epoch = r.epoch

(* A ledger call that took effect: its answer arrives, or is lost.         *)
Then(d, r) == Becomes(d, r) \/ Becomes(d, Abandoned(run[d]))
Renewed(i) == renew(i) \/ (~Lapsed(item[i]) /\ UNCHANGED vars)

(* The head of the loop, where alone the stop flag and the deadline are    *)
(* read: what a transition becomes if the run is not, or is, stopping.     *)
LoopTop(r, t) ==
  LET at(x) == [r EXCEPT !.m = x.next, !.todo = x.effects, !.pending = NoInput]
      stopped == CASE t.next.at \in {"awaiting_preflight", "preflight_asserted"} -> {Abandoned(r)}
                   [] t.next.at = "intent_recorded" ->
                        {[at(t) EXCEPT !.todo = <<"settle_unsent", "hand_back">>]}
                   [] t.next.at = "awaiting_read_back" ->
                        {at(x) : x \in M!step(t.next, M!In("budget_exhausted", "ok"))}
                   [] OTHER -> {at(t)}
  IN {at(t)} \cup stopped

Follow(d, r, T) ==
  \/ T = {} /\ Becomes(d, Abandoned(r))   \* Err(MachineError)
  \/ \E t \in T : \E x \in LoopTop(r, t) : Becomes(d, x)

-----------------------------------------------------------------------------
(* Claiming and preparing.                                                 *)

StrandedAttempt(i) ==
  IF item[i].state = "parked_live"
  THEN {a \in Attempts : attempt[a].item = i /\ attempt[a].state = "in_flight"
                           /\ attempt[a].epoch = item[i].epoch}
  ELSE {}

Claim(d, i) ==
  /\ run[d] = None
  /\ claim_for_device(d, i)
  /\ \E a \in IF StrandedAttempt(i) = {} THEN {None} ELSE StrandedAttempt(i) :
       Becomes(d, NewRun(i, item[i].epoch, a))
  /\ UNCHANGED landed

ClaimRefused(d, i) ==
  run[d] = None /\ claim_refused(d, i) /\ UNCHANGED <<run, landed>>

(* prepare_item: the counterpart, the binding, and the projection, which a *)
(* removal skips.  A counterpart that can never bind is a binding state    *)
(* nothing writes, so CounterpartLost has no case here.                    *)
Waiting(i) == WaitsFor[i] # None /\ binding[WaitsFor[i]] # "bound"
Misbound(i) == (Op[i] = "create") <=> (binding[MappingOf[i]] = "bound")
Diverges(i) == Op[i] # "create"   \* the listing, or its state, is not the stated one
Refusals(i) ==
  CASE Waiting(i) -> {"awaiting_counterpart"}
    [] ~Waiting(i) /\ Misbound(i) -> {"binding"}
    [] OTHER -> (IF Diverges(i) THEN {"binding"} ELSE {})
                  \cup (IF Op[i] = "remove" THEN {} ELSE {"reconciliation", "election"})

Prepare(d) ==
  LET r == run[d] IN
  /\ At(d, "prepare")
  /\ \/ ~Waiting(r.item) /\ ~Misbound(r.item)
        /\ Becomes(d, [r EXCEPT !.todo = <<"start">>]) /\ UNCHANGED vars
     \/ \E g \in Refusals(r.item) : Held(d) /\ park(r.item, g) /\ Becomes(d, None)
  /\ UNCHANGED landed

(* drive_item up to its loop.  A reconcile is stepped into its resumption  *)
(* in place of the entry row.                                              *)
Start(d) ==
  LET r == run[d] IN
  /\ At(d, "start") /\ Held(d) /\ linked
  /\ Follow(d, r, IF r.pending = NoInput THEN M!entry_row(r.m) ELSE M!step(r.m, r.pending))
  /\ UNCHANGED <<vars, landed>>

-----------------------------------------------------------------------------
(* The effects.                                                            *)

(* An indeterminate preflight abandons, as a failed call does, or blocks   *)
(* the item once its streak or its budget is spent, behind the gate where  *)
(* the seller's sign-in is to blame.                                       *)
AssertForm(d) ==
  LET r == run[d] IN
  /\ At(d, "assert_form") /\ Held(d) /\ Renewed(r.item)
  /\ \/ \E a \in {"ok", "drift"} : Then(d, Answered(r, M!In("preflight", a)))
     \/ \E blocks \in {<<"requeue", "settle_blocked">>, <<"settle_blocked">>} :
          Then(d, [r EXCEPT !.todo = blocks])
  /\ UNCHANGED landed

(* The in-flight index answers before admit does, so a bound mapping       *)
(* settles the item only where nothing is in flight on it.                 *)
RecordIntent(d) ==
  LET r == run[d] IN
  /\ At(d, "record_intent") /\ Held(d)
  /\ \/ \E a \in Attempts :
          /\ open_attempt(r.item, a)
          /\ Then(d, Owning(Answered(r, M!InOn("intent", a)), a))
     \/ /\ Admissible(r.item) /\ InFlightOn(MappingOf[r.item]) = {}
        /\ Op[r.item] = "create" /\ binding[MappingOf[r.item]] = "bound"
        /\ Becomes(d, [r EXCEPT !.todo = <<"settle_skipped">>])
        /\ UNCHANGED vars
  /\ UNCHANGED landed

SettleOutright(d) ==
  LET r == run[d] IN
  /\ Held(d)
  /\ \/ At(d, "settle_blocked") /\ settle(r.item, "blocked")
     \/ At(d, "settle_skipped") /\ settle(r.item, "skipped")
  /\ Becomes(d, None)
  /\ UNCHANGED landed

(* Before a write: the grant, the renewal and the recorded action.         *)
Permit(d) ==
  LET r == run[d] IN
  /\ run[d] # None /\ r.todo # <<>> /\ Head(r.todo) \in M!Writes
  /\ Held(d)
  /\ \/ Renewed(r.item) /\ Then(d, [r EXCEPT !.todo[1] = "send"])
     \/ Becomes(d, [r EXCEPT !.todo = <<"settle_unsent", "hand_back">>]) /\ UNCHANGED vars
  /\ UNCHANGED landed

(* The write itself, which nothing fences.                                 *)
Send(d) ==
  LET r == run[d]
      creates == Op[r.item] = "create"
      sent(a) == [Answered(r, M!In("submit", a)) EXCEPT
                    !.blocked_mid_write = creates /\ a \in M!Challenges \cup {"expired"}]
  IN /\ At(d, "send")
     /\ \/ \E a \in {"landed"} \cup LateAnswers :
             /\ Becomes(d, sent(a))
             /\ landed' = landed \cup {r.m.attempt}
        \/ \E a \in EarlyAnswers : Becomes(d, sent(a)) /\ UNCHANGED landed
     /\ UNCHANGED vars

Listings(m) == {a \in landed : MappingOf[attempt[a].item] = m /\ Op[attempt[a].item] = "create"}

may_settle_unverified(i) == Op[i] # "create"

(* verify_with_backoff.  A seen listing is one that stands; a poll that    *)
(* stopped (cut, rate window, any condition but an ambiguity) walks away.  *)
ReadBack(d) ==
  LET r == run[d] IN
  /\ At(d, "read_back") /\ Held(d) /\ Renewed(r.item)
  /\ \/ \E a \in {"seen", "unproved", "ambiguous"} :
          /\ a = "seen" /\ Op[r.item] = "create" => Listings(MappingOf[r.item]) # {}
          /\ Then(d, Answered(r, M!In("read_back", a)))
     \/ /\ may_settle_unverified(r.item) /\ r.current_attempt # None
        /\ Becomes(d, [r EXCEPT !.todo = <<"settle_unread", "hand_back">>])
     \/ Becomes(d, Abandoned(r))
  /\ UNCHANGED landed

(* reconcile_with_backoff: a walk finds a listing by its recorded title if *)
(* exactly one stands; absence may also be the catalogue's lag.            *)
Reconcile(d) ==
  LET r == run[d] IN
  /\ At(d, "reconcile") /\ Held(d) /\ Renewed(r.item)
  /\ \/ /\ \E a \in Listings(MappingOf[r.item]) : Listings(MappingOf[r.item]) = {a}
        /\ Then(d, Owning(Answered(r, M!In("reconcile", "found")), r.m.attempt))
     \/ \E a \in {"none", "error"} : Then(d, Answered(r, M!In("reconcile", a)))
     \/ Becomes(d, Abandoned(r))
  /\ UNCHANGED landed

ParkItem(d) ==
  LET r == run[d] IN
  /\ At(d, "park") /\ Held(d) /\ park(r.item, "ReauthRequired")
  /\ Then(d, Passed(r))
  /\ UNCHANGED landed

RequeueBehindGate(d) ==
  /\ At(d, "requeue") /\ Held(d)
  /\ gate_connection \/ (~linked /\ UNCHANGED vars)
  /\ Then(d, Passed(run[d]))
  /\ UNCHANGED landed

Record(d) ==   \* CaptureDiagnostics and Notify leave the modelled state alone
  /\ At(d, "capture") \/ At(d, "notify")
  /\ Held(d) /\ Becomes(d, Passed(run[d]))
  /\ UNCHANGED <<vars, landed>>

HaltThisTenant(d) ==
  /\ At(d, "halt") /\ Held(d)
  /\ \E h \in Halts : raise_org_inventory(h) \/ (h \in halts /\ UNCHANGED vars)
  /\ Then(d, Passed(run[d]))
  /\ UNCHANGED landed

-----------------------------------------------------------------------------
(* The end of a transition's effects.                                      *)

\* Mutant: an item that had nothing left to do is told as done.
outcome_to_item_mutant(o) ==
  CASE o \in {"committed", "skipped"} -> "succeeded"
    [] o = "rejected" -> "failed"
    [] o \in {"ambiguous", "blocked"} -> o
outcome_to_item(o) ==
  CASE o = "committed" -> "succeeded"
    [] o = "rejected" -> "failed"
    [] o \in {"ambiguous", "blocked"} -> o
    [] OTHER -> "skipped"

\* Mutant: whatever is neither committed nor refused was not written.
outcome_to_attempt_state_mutant(o) ==
  CASE o = "committed" -> "committed" [] o = "rejected" -> "failed" [] OTHER -> "abandoned"
outcome_to_attempt_state(o) ==
  CASE o = "committed" -> "committed"
    [] o = "rejected" -> "failed"
    [] o = "ambiguous" -> "ambiguous"
    [] OTHER -> "abandoned"

Terminal(d) == EffectsDone(d) /\ run[d].m.at = "terminal"

\* Mutant: a run that searched for its strand has no attempt to settle.
SettlesAttempt_mutant(r) == r.current_attempt # None /\ ~r.resumed
SettlesAttempt(r) == r.current_attempt # None

SettleAttempt(d) ==
  LET r == run[d] IN
  /\ Terminal(d) /\ SettlesAttempt(r) /\ Held(d)
  /\ \E a \in Attempts, landing \in {"none", "landed", "refused", "severed"} :
       /\ a = r.current_attempt
       /\ landing = "refused" => binding[MappingOf[r.item]] # "unbound"
       /\ settle_attempt(a, outcome_to_attempt_state(r.m.outcome), landing)
  /\ Then(d, [r EXCEPT !.todo = <<"settle_item">>])
  /\ UNCHANGED landed

SettleItem(d) ==
  LET r == run[d] IN
  /\ At(d, "settle_item") \/ (Terminal(d) /\ ~SettlesAttempt(r))
  /\ Held(d) /\ settle(r.item, outcome_to_item(r.m.outcome))
  /\ Becomes(d, None)
  /\ UNCHANGED landed

(* settle_open_attempt: an attempt settled on the way out of a run.        *)
\* Mutant: a write nobody could verify is recorded as never sent.
Unverified_mutant == "abandoned"
Unverified == "ambiguous"

SettleOpenAttempt(d) ==
  LET r == run[d] IN
  /\ Held(d)
  /\ \E a \in Attempts :
       /\ a = r.current_attempt
       /\ \/ At(d, "settle_unsent") /\ settle_attempt(a, "abandoned", "none")
          \/ At(d, "settle_unread") /\ settle_attempt(a, Unverified, "none")
  /\ Becomes(d, Abandoned(r))
  /\ UNCHANGED landed

(* A stranded create is searched for once, unless the edge challenged it;  *)
(* the renewal may fail, and the wait in front of the search may be cut.   *)
Resume(d) ==
  LET r == run[d] IN
  /\ EffectsDone(d) /\ r.m.at = "stranded"
  /\ \/ /\ ~r.resumed /\ ~r.blocked_mid_write /\ Held(d) /\ Renewed(r.item)
        /\ \/ Follow(d, [r EXCEPT !.resumed = TRUE], M!step(r.m, M!InOn("resume", r.m.attempt)))
           \/ Becomes(d, Abandoned(r))
     \/ Becomes(d, Abandoned(r)) /\ UNCHANGED vars
  /\ UNCHANGED landed

Advance(d) ==
  LET r == run[d] IN
  /\ EffectsDone(d) /\ r.m.at \notin {"terminal", "parked", "stranded"}
  /\ \/ r.pending # NoInput /\ Follow(d, r, M!step(r.m, r.pending))
     \/ r.pending = NoInput /\ Becomes(d, Abandoned(r))
  /\ UNCHANGED <<vars, landed>>

HandBack(d) ==
  /\ At(d, "hand_back") /\ Held(d) /\ hand_back(run[d].item)
  /\ Becomes(d, None)
  /\ UNCHANGED landed

(* A ledger call refused, failed, out of grant or not linked.              *)
Calls(d) == Terminal(d) \/ (run[d] # None /\ run[d].todo # <<>>
                              /\ Head(run[d].todo) \notin {"prepare", "send"})
CallFails(d) ==
  /\ Calls(d)
  /\ Becomes(d, IF At(d, "hand_back") THEN None ELSE Abandoned(run[d]))
  /\ UNCHANGED <<vars, landed>>

(* The device dies, or never learns of the claim the server answered.      *)
Crash(d) ==
  run[d] # None /\ Becomes(d, None) /\ UNCHANGED <<vars, landed>>

-----------------------------------------------------------------------------
DriverInit == Init /\ run = [d \in Devices |-> None] /\ landed = {}

EffectStep(d) ==
  \/ AssertForm(d) \/ RecordIntent(d) \/ Permit(d) \/ Send(d) \/ ReadBack(d)
  \/ Reconcile(d) \/ ParkItem(d) \/ RequeueBehindGate(d) \/ Record(d) \/ HaltThisTenant(d)

ClosingStep(d) ==
  \/ SettleAttempt(d) \/ SettleItem(d) \/ SettleOutright(d) \/ SettleOpenAttempt(d)
  \/ Resume(d) \/ Advance(d) \/ HandBack(d) \/ CallFails(d) \/ Crash(d)

Environment ==
  /\ SellerStep \/ Reaper \/ Sweep \/ Clock \/ \E h \in Halts : OperatorLiftsHalt(h)
  /\ UNCHANGED <<run, landed>>

DriverNext ==
  \/ \E d \in Devices :
       \/ \E i \in Items : Claim(d, i) \/ ClaimRefused(d, i)
       \/ Prepare(d) \/ Start(d) \/ EffectStep(d) \/ ClosingStep(d)
  \/ Environment

DriverSpec == DriverInit /\ [][DriverNext]_driverVars

-----------------------------------------------------------------------------
(* Safety.                                                                 *)

\* A run's machine, effects and attempt stay within their types.
DriverTypeOK ==
  /\ run \in [Devices -> Runs \cup {None}]
  /\ landed \subseteq {a \in Attempts : attempt[a].state # "none"}

\* 'abandoned' is read by the deletion, and by the release of a parked item,
\* as no write at all: the write of an attempt that says so has not landed, and
\* no run, however late, is about to send it.
AbandonedSentNothing ==
  \A a \in Attempts : attempt[a].state = "abandoned" =>
    a \notin landed /\ \A d \in Devices : At(d, "send") => run[d].m.attempt # a

\* Of the listings a mapping's creates left on the marketplace, all but one
\* are of a fate the seller was told is unknown: no crash, steal, late holder
\* or reconcile leads to a second create behind a first that is in flight,
\* committed or written off.  Of mappings no item removes: Listings goes on
\* counting what a removal took down, and after one a create is due again.
NeverRemoved(m) == \A i \in Items : MappingOf[i] = m => Op[i] # "remove"
OneStandingListing ==
  \A m \in Mappings : NeverRemoved(m) =>
    \A a, b \in Listings(m) :
      attempt[a].state # "ambiguous" /\ attempt[b].state # "ambiguous" => a = b

\* A create parked until the marketplace or the seller answers can be asked
\* about: its attempt is in flight at the item's epoch, so the next claim is a
\* reconcile (claim_for_device) and not a second create.
AnswerParkCanBeAsked ==
  \A i \in Items :
    item[i].gate \in {"awaiting_seller_signin", "awaiting_marketplace_answer"}
      /\ ~DeletionRequested(JobOf[i])
    => HoldsNow(item, attempt, i, {"in_flight"})

\* An item the seller sees succeed has its attempt committed, under the very
\* lease that settled it, and a create has a listing on the marketplace: the
\* two rows are written in two calls, and the machine, the read-back and a
\* reconcile that adopts an attempt have to agree.
SucceededIsCommitted ==
  \A i \in Items : item[i].outcome = "succeeded" =>
    /\ HoldsNow(item, attempt, i, {"committed"})
    /\ Op[i] = "create" => Listings(MappingOf[i]) # {}

-----------------------------------------------------------------------------
(* What the repository says of the driver and it does not do.              *)

\* engine-driver-split.md: "Create is at-most-once, fenced by the standing
\* in-flight attempt".
CreateIsAtMostOnce == \A m \in Mappings : \A a, b \in Listings(m) : a = b
=============================================================================
