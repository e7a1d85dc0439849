-------------------------- MODULE SyncMachineRuns --------------------------
(***************************************************************************)
(* One SyncMachine under every sequence of inputs, as the crate's property *)
(* suite drives it: any input may arrive in any state, and the only        *)
(* promise made by the interpreter is that a recorded intent names a fresh *)
(* attempt.  The suite samples two thousand walks; TLC visits all of them. *)
(***************************************************************************)
EXTENDS SyncMachine, FiniteSets

CONSTANT StartBudgets   \* the allowances a run may start with

ASSUME StartBudgetsAssumption == StartBudgets \subseteq Nat \ {0}

VARIABLES m,         \* the machine
          start,     \* the allowance the run started with
          issued,    \* attempts named by a recorded intent so far
          writes,    \* write effects emitted, per attempt
          total,     \* write effects emitted, whatever attempt they name
          intents,   \* RecordIntent effects emitted
          retries,   \* NotSent and ChallengeCleared inputs taken
          looked,    \* a ReadBack or a Reconcile has been asked for
          resumed,   \* a ResumeStranded has been taken
          emitted    \* effects emitted

vars == <<m, start, issued, writes, total, intents, retries, looked, resumed, emitted>>

Count(fx, S) == Cardinality({k \in DOMAIN fx : fx[k] \in S})

Init ==
  /\ start \in StartBudgets
  /\ \E op \in Operations, strategy \in Strategies, titled \in BOOLEAN :
       \E t \in entry_row(Machine(op, strategy, titled, start)) :
          /\ m = t.next
          /\ intents = Count(t.effects, {"record_intent"})
  /\ issued = {}
  /\ writes = [a \in Attempts |-> 0]
  /\ total = 0
  /\ retries = 0
  /\ looked = FALSE
  /\ resumed = FALSE
  /\ emitted = 1

(* Machine::step with one input, and what the effects of that step add to  *)
(* the run's history.                                                      *)
Take(in) ==
  /\ in.kind = "intent" => in.attempt \notin issued
  /\ \E t \in step(m, in) :
       /\ m' = t.next
       /\ writes' = [a \in Attempts |->
                       writes[a] + (IF a = t.next.attempt THEN Count(t.effects, Writes) ELSE 0)]
       /\ total' = total + Count(t.effects, Writes)
       /\ intents' = intents + Count(t.effects, {"record_intent"})
       /\ looked' = (looked \/ Count(t.effects, {"read_back", "reconcile"}) > 0)
       /\ emitted' = emitted + Len(t.effects)
  /\ issued' = IF in.kind = "intent" THEN issued \cup {in.attempt} ELSE issued
  /\ retries' = IF in \in {In("challenge_cleared", "ok"), In("submit", "not_sent")}
                THEN retries + 1 ELSE retries
  /\ resumed' = (resumed \/ in.kind = "resume")
  /\ UNCHANGED start

Next == \E in \in Inputs : Take(in)

Spec == Init /\ [][Next]_vars

-----------------------------------------------------------------------------
TypeOK ==
  /\ m \in Machines
  /\ start \in StartBudgets
  /\ issued \subseteq Attempts
  /\ writes \in [Attempts -> Nat]
  /\ total \in Nat /\ intents \in Nat /\ retries \in Nat /\ emitted \in Nat
  /\ looked \in BOOLEAN /\ resumed \in BOOLEAN

\* No attempt authorises two writes, whatever order answers, parks, clears
\* and resumes arrive in (`no_attempt_is_ever_submitted_twice`).
NoAttemptIsSubmittedTwice == \A a \in Attempts : writes[a] <= 1

\* Every write has an intent of its own recorded before it, so a crash after
\* it leaves a row to reconcile; and a run writes again only after an answer
\* that proves the request never left, or a challenge the seller cleared.
WritesAreAccountedFor ==
  /\ total <= intents
  /\ total <= 1 + retries

\* An ambiguity is always about a write whose intent was recorded, by this
\* run or, on a resume, by the run that stranded it
\* (`every_ambiguous_terminal_follows_a_recorded_intent`).
AmbiguityIsReconcilable ==
  m.outcome = "ambiguous" =>
     /\ m.attempt # NoAttempt
     /\ resumed \/ writes[m.attempt] = 1

\* A commit was read: no path reaches it on the strength of the write's own
\* answer (`every_committed_terminal_follows_a_read`).
CommitFollowsARead == m.outcome = "committed" => looked

\* The allowance and what was emitted account for each other exactly, but for
\* the one unbilled diagnostic of an exhausted run
\* (`the_allowance_never_grows`).
AllowanceIsSpentExactly ==
  IF emitted <= start
  THEN m.budget = start - emitted
  ELSE emitted = start + 1 /\ m.budget = 0 /\ m.at = "terminal"

=============================================================================
