---------------------------- MODULE SyncMachine ----------------------------
(***************************************************************************)
(* The transition table of tam-domain's SyncMachine: a pure function from  *)
(* a machine and an input to the next machine and the effects it asks for. *)
(*                                                                         *)
(* A machine is a record.  Titles, schemas, identifiers and diagnostics    *)
(* are abstracted to what decides a row: whether a title exists, whether a *)
(* locator is durable, a marker or a recorded title, and which attempt a   *)
(* state owns.  A step is a SET of transitions: empty where the code       *)
(* answers Err(MachineError), a singleton everywhere else.                 *)
(***************************************************************************)
EXTENDS Naturals, Sequences

CONSTANTS Attempts,   \* write-attempt identifiers
          NoAttempt   \* Option::None

ASSUME NoAttemptAssumption == NoAttempt \notin Attempts

Operations == {"create", "publish", "revise", "remove"}
Strategies == {"marker", "draft", "halt"}   \* CreateStrategy
Challenges == {"reauth", "otp", "captcha", "interstitial"}
AdapterErrors == {"ambiguous", "rejected", "expired", "drift", "rate_limited",
                  "uncaptured", "not_sent"} \cup Challenges
StateNames == {"awaiting_preflight", "preflight_asserted", "intent_recorded",
               "stranded", "awaiting_read_back", "parked", "terminal"}
MachineOutcomes == {"committed", "rejected", "ambiguous", "blocked", "skipped"}
Writes == {"submit", "revise", "remove"}
Effects == Writes \cup {"assert_form", "record_intent", "read_back", "reconcile",
                        "park", "requeue", "capture", "halt", "notify"}

(* Inputs.  A result input carries its answer; only a recorded intent and  *)
(* a resume name an attempt.                                               *)
In(kind, answer) == [kind |-> kind, answer |-> answer, attempt |-> NoAttempt]
InOn(kind, a) == [kind |-> kind, answer |-> "ok", attempt |-> a]

Inputs ==
  {In("preflight", r) : r \in {"ok", "drift"}}
  \cup {InOn("intent", a) : a \in Attempts}
  \cup {In("submit", r) : r \in {"landed", "unidentified"} \cup AdapterErrors}
  \* "seen": the read proves the operation (verification_settles); "unproved":
  \* it answered and proves nothing.
  \cup {In("read_back", r) : r \in {"seen", "unproved"} \cup AdapterErrors}
  \cup {In("reconcile", r) : r \in {"found", "none", "error"}}
  \cup {InOn("resume", a) : a \in Attempts}
  \cup {In(k, "ok") : k \in {"challenge_cleared", "park_expired", "budget_exhausted"}}

Machine(op, strategy, titled, budget) ==
  [op |-> op, strategy |-> strategy, titled |-> titled, budget |-> budget,
   at |-> "awaiting_preflight", attempt |-> NoAttempt, locator |-> "none",
   outcome |-> "none"]

seller_clears(challenge) == challenge \in {"reauth", "otp"}

(* The allowance: a transition costs its effects, all of them or none; the *)
(* one unbilled transition saturates instead.                              *)
charged_mutant(budget, cost) == budget - cost
charged(budget, cost) == IF cost > budget THEN 0 ELSE budget - cost

affordable_mutant(m, fx) == m.budget > 0
affordable(m, fx) == Len(fx) <= m.budget

Move(m, at, a, locator, outcome, fx) ==
  [next |-> [m EXCEPT !.at = at, !.attempt = a, !.locator = locator,
                      !.outcome = outcome, !.budget = charged(m.budget, Len(fx))],
   effects |-> fx]

advance(m, at, a, locator, fx) ==
  IF affordable(m, fx) THEN {Move(m, at, a, locator, "none", fx)} ELSE {}

finish(m, a, outcome, fx) ==
  IF affordable(m, fx) THEN {Move(m, "terminal", a, "none", outcome, fx)} ELSE {}

\* Mutant: an edit or a removal goes straight to its write.
entry_row_mutant(m) ==
  advance(m, IF m.op = "create" THEN "awaiting_preflight" ELSE "preflight_asserted",
          NoAttempt, "none", <<"assert_form">>)
entry_row(m) ==
  IF m.op = "create"
  THEN advance(m, "awaiting_preflight", NoAttempt, "none", <<"assert_form">>)
  ELSE advance(m, "preflight_asserted", NoAttempt, "none", <<"record_intent">>)

halt_ambiguous(m, a, captured) ==
  finish(m, a, "ambiguous",
         IF captured THEN <<"capture", "halt", "notify">> ELSE <<"halt", "notify">>)

\* Mutant: an identifier in the write's answer is taken as proof it landed.
await_read_back_mutant(m, a, identified) ==
  IF identified THEN finish(m, a, "committed", <<>>) ELSE halt_ambiguous(m, a, TRUE)
await_read_back(m, a, identified) ==
  IF identified \/ m.strategy = "marker"
  THEN advance(m, "awaiting_read_back", a,
               IF identified THEN "durable" ELSE "marker", <<"read_back">>)
  ELSE halt_ambiguous(m, a, TRUE)

HasSubject(m) == m.op \in {"revise", "remove"}

reconcile(m, a) ==
  IF HasSubject(m)
  THEN advance(m, "awaiting_read_back", a, "durable", <<"read_back", "capture">>)
  ELSE IF m.strategy = "marker"
  THEN advance(m, "awaiting_read_back", a, "marker", <<"reconcile", "capture">>)
  ELSE halt_ambiguous(m, a, TRUE)

ambiguous_submit(m, a) ==
  IF HasSubject(m) \/ m.strategy # "draft" THEN reconcile(m, a)
  ELSE IF m.titled THEN advance(m, "stranded", a, "recorded", <<"capture">>)
  ELSE halt_ambiguous(m, a, TRUE)

challenged(m, a, challenge) ==
  IF seller_clears(challenge)
  THEN advance(m, "parked", a, "none", <<"park", "requeue", "notify">>)
  ELSE IF m.op = "create" THEN ambiguous_submit(m, a)
  ELSE finish(m, a, "blocked", <<>>)

resume_stranded(m, a) ==
  CASE m.op # "create" -> {}
    [] m.op = "create" /\ m.strategy = "halt" ->
         finish(m, a, "ambiguous", <<"notify">>)
    [] OTHER ->
         advance(m, "awaiting_read_back", a,
                 IF m.strategy = "marker" THEN "marker" ELSE "recorded",
                 <<"reconcile">>)

write_effect(m) == IF m.op = "create" THEN "submit" ELSE m.op

awaiting_preflight_rows(m, in) ==
  CASE in.kind = "resume" -> resume_stranded(m, in.attempt)
    [] in.kind = "preflight" /\ in.answer = "ok" ->
         advance(m, "preflight_asserted", NoAttempt, "none", <<"record_intent">>)
    [] in.kind = "preflight" /\ in.answer = "drift" ->
         finish(m, NoAttempt, "rejected", <<"capture", "halt", "notify">>)
    [] OTHER -> {}

preflight_asserted_rows(m, in) ==
  IF in.kind = "intent" /\ m.op # "publish"   \* an unlowered publish is refused
  THEN advance(m, "intent_recorded", in.attempt, "none", <<write_effect(m)>>)
  ELSE {}

\* Mutant: a never-sent write is re-issued at once, under the same attempt.
never_sent_mutant(m) ==
  advance(m, "intent_recorded", m.attempt, "none", <<"record_intent", write_effect(m)>>)
never_sent(m) ==
  advance(m, "preflight_asserted", NoAttempt, "none", <<"record_intent">>)

intent_recorded_rows(m, in) ==
  LET a == m.attempt IN
  IF in.kind # "submit" THEN {}
  ELSE CASE in.answer \in {"landed", "unidentified"} ->
              await_read_back(m, a, in.answer = "landed")
         [] in.answer = "ambiguous" -> ambiguous_submit(m, a)
         [] in.answer = "rejected" -> finish(m, a, "rejected", <<>>)
         [] in.answer \in Challenges -> challenged(m, a, in.answer)
         [] in.answer = "expired" -> challenged(m, a, "reauth")
         [] in.answer = "drift" -> finish(m, a, "rejected", <<"capture", "halt">>)
         [] in.answer \in {"rate_limited", "uncaptured"} -> finish(m, a, "skipped", <<>>)
         [] in.answer = "not_sent" -> never_sent(m)

observed_rows(m, proved) ==
  CASE proved -> finish(m, m.attempt, "committed", <<>>)
    [] ~proved /\ m.op = "remove" -> finish(m, m.attempt, "rejected", <<>>)
    [] OTHER -> halt_ambiguous(m, m.attempt, TRUE)

awaiting_read_back_rows(m, in) ==
  CASE in.kind = "read_back" /\ in.answer \in {"seen", "unproved"} ->
         observed_rows(m, in.answer = "seen")
    [] in.kind = "read_back" /\ in.answer = "ambiguous" ->
         halt_ambiguous(m, m.attempt, TRUE)
    [] in.kind = "reconcile" /\ in.answer = "found" ->
         await_read_back(m, m.attempt, TRUE)
    [] in.kind = "reconcile" /\ in.answer # "found" ->
         halt_ambiguous(m, m.attempt, FALSE)
    [] OTHER -> {}

parked_rows(m, in) ==
  CASE in.kind = "challenge_cleared" -> entry_row(m)
    [] in.kind = "park_expired" -> finish(m, NoAttempt, "blocked", <<"notify">>)
    [] OTHER -> {}

stranded_rows(m, in) ==
  IF in.kind = "resume" /\ in.attempt = m.attempt
  THEN resume_stranded(m, in.attempt) ELSE {}

(* BudgetExhausted, from every state but a terminal one: Skipped where no  *)
(* submit was possible, Ambiguous where one was, and never refused.        *)
NothingSent_mutant(m) == m.at \in {"awaiting_preflight", "parked"}
NothingSent(m) == m.at \in {"awaiting_preflight", "preflight_asserted", "parked"}

exhaust_budget(m) ==
  {Move(m, "terminal", m.attempt, "none",
        IF NothingSent(m) THEN "skipped" ELSE "ambiguous", <<"capture">>)}

(* attempt_conflict: a state that owns an attempt takes no recorded intent. *)
attempt_conflict(m, in) == in.kind = "intent" /\ m.attempt # NoAttempt

step(m, in) ==
  IF m.at = "terminal" \/ attempt_conflict(m, in) THEN {}
  ELSE IF in.kind = "budget_exhausted" THEN exhaust_budget(m)
  ELSE CASE m.at = "awaiting_preflight" -> awaiting_preflight_rows(m, in)
         [] m.at = "preflight_asserted" -> preflight_asserted_rows(m, in)
         [] m.at = "intent_recorded" -> intent_recorded_rows(m, in)
         [] m.at = "awaiting_read_back" -> awaiting_read_back_rows(m, in)
         [] m.at = "parked" -> parked_rows(m, in)
         [] m.at = "stranded" -> stranded_rows(m, in)

Machines == [op : Operations, strategy : Strategies, titled : BOOLEAN,
             budget : Nat, at : StateNames, attempt : Attempts \cup {NoAttempt},
             locator : {"none", "durable", "marker", "recorded"},
             outcome : MachineOutcomes \cup {"none"}]
=============================================================================
