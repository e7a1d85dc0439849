--------------------- MODULE EngineDriverSafety_proofs ---------------------
(***************************************************************************)
(* What the driver's runs keep true of the ledger and of the marketplace:  *)
(* an item told as done has its write committed, a parked create can be    *)
(* asked about, a write said never to have been sent was never sent, and   *)
(* one listing stands per mapping.                                         *)
(*                                                                         *)
(* The shape of a run says which effects, which input and which attempt go *)
(* with which state of its machine; it is local to the run and is proved   *)
(* from the transition table.  Every step of the driver is then one of a   *)
(* few kinds, by what it does to the ledger and to one run, and each       *)
(* invariant is proved once per kind.                                      *)
(***************************************************************************)
EXTENDS EngineDriver_proofs

-----------------------------------------------------------------------------
(* Where a run can be: its effects, its input and its attempt agree with   *)
(* the state of its machine.                                               *)

NoAttemptYet(r) == r.m.attempt = None
OnAttempt(r) == r.m.attempt \in Attempts /\ r.current_attempt = r.m.attempt

Waits(r) ==
  /\ r.m.at = "awaiting_preflight" /\ NoAttemptYet(r) /\ r.current_attempt = None
  /\ \/ /\ r.todo \in {<<"prepare">>, <<"start">>}
        /\ r.pending \in {NoInput} \cup {M!InOn("resume", a) : a \in Attempts}
     \/ /\ r.todo \in {<<"hand_back">>, <<"assert_form">>, <<"requeue", "settle_blocked">>,
                       <<"settle_blocked">>}
        /\ r.pending = NoInput
     \/ r.todo = <<>> /\ r.pending \in {M!In("preflight", "ok"), M!In("preflight", "drift")}

Asserted(r) ==
  /\ r.m.at = "preflight_asserted" /\ NoAttemptYet(r)
  /\ \/ /\ r.todo \in {<<"record_intent">>, <<"settle_skipped">>} /\ r.pending = NoInput
        /\ r.current_attempt \in Attempts \cup {None}
     \/ /\ r.todo = <<>> /\ r.current_attempt \in Attempts
        /\ r.pending = M!InOn("intent", r.current_attempt)

SubmitAnswers == {"landed"} \cup EarlyAnswers \cup LateAnswers
Intended(r) ==
  /\ r.m.at = "intent_recorded" /\ OnAttempt(r)
  /\ \/ /\ r.todo \in {<<"submit">>, <<"revise">>, <<"remove">>, <<"send">>,
                       <<"settle_unsent", "hand_back">>}
        /\ r.pending = NoInput
     \/ r.todo = <<>> /\ r.pending \in {M!In("submit", a) : a \in SubmitAnswers}

Strands(r) ==
  /\ r.m.at = "stranded" /\ OnAttempt(r) /\ r.m.op = "create"
  /\ r.todo \in {<<"capture">>, <<>>} /\ r.pending = NoInput

ReadAnswers == {"seen", "unproved", "ambiguous"}
Reads(r) ==
  /\ r.m.at = "awaiting_read_back" /\ r.m.attempt \in Attempts
  /\ \/ /\ r.m.op = "create" /\ r.current_attempt \in {None, r.m.attempt}
        /\ \/ r.todo = <<"reconcile">> /\ r.pending = NoInput
           \/ /\ r.todo = <<>>
              /\ r.pending \in {M!In("reconcile", "none"), M!In("reconcile", "error")}
     \/ /\ OnAttempt(r)
        /\ \/ /\ r.todo \in {<<"read_back">>, <<"read_back", "capture">>}
              /\ r.pending = NoInput
           \/ /\ r.todo \in {<<"capture">>, <<>>}
              /\ r.pending \in {M!In("read_back", a) : a \in ReadAnswers}
           \/ r.todo = <<>> /\ r.pending = M!In("reconcile", "found")
           \/ r.todo = <<"settle_unread", "hand_back">> /\ r.pending = NoInput

Parks(r) ==
  /\ r.m.at = "parked" /\ OnAttempt(r) /\ r.pending = NoInput
  /\ r.todo \in {<<"park", "requeue", "notify">>, <<"requeue", "notify">>, <<"notify">>, <<>>}

Ends(r) ==
  /\ r.m.at = "terminal" /\ r.pending = NoInput /\ r.current_attempt \in Attempts \cup {None}
  /\ r.m.outcome = "committed" => OnAttempt(r)
  /\ \/ r.todo \in {<<"capture", "halt", "notify">>, <<"halt", "notify">>, <<"notify">>, <<>>,
                    <<"capture">>, <<"capture", "halt">>, <<"halt">>}
     \/ r.todo = <<"settle_item">> /\ r.current_attempt \in Attempts

Draft(m) == m \in M!Machines /\ m.strategy = "draft" /\ m.titled /\ m.op \in Operations

Shape(r) ==
  /\ r \in Runs /\ Draft(r.m) /\ r.m.op = Op[r.item]
  /\ r.m.outcome # "none" <=> r.m.at = "terminal"
  /\ \/ Waits(r) \/ Asserted(r) \/ Intended(r) \/ Strands(r) \/ Reads(r) \/ Parks(r) \/ Ends(r)

-----------------------------------------------------------------------------
(* The rows of the transition table a run of the driver can reach.         *)

Became(m, t, at, a, o, fx) ==
  /\ Draft(t.next) /\ t.next.op = m.op
  /\ t.next.at = at /\ t.next.attempt = a /\ t.next.outcome = o /\ t.effects = fx

LEMMA MoveFields ==
  ASSUME NEW m, Draft(m), NEW at \in M!StateNames, NEW a \in Attempts \cup {None},
         NEW l \in {"none", "durable", "marker", "recorded"},
         NEW o \in M!MachineOutcomes \cup {"none"}, NEW fx \in Seq(M!Effects)
  PROVE  Became(m, M!Move(m, at, a, l, o, fx), at, a, o, fx)
<1>1. Len(fx) \in Nat /\ m.budget \in Nat
  BY DEF Draft, M!Machines
<1>2. M!charged(m.budget, Len(fx)) \in Nat
  BY <1>1 DEF M!charged
<1> QED  BY <1>2 DEF Became, M!Move, Draft, M!Machines

LEMMA EffectLists ==
  {<<>>, <<"assert_form">>, <<"record_intent">>, <<"reconcile">>, <<"submit">>, <<"revise">>,
   <<"remove">>, <<"read_back">>, <<"read_back", "capture">>, <<"capture">>,
   <<"park", "requeue", "notify">>, <<"capture", "halt", "notify">>, <<"capture", "halt">>,
   <<"halt", "notify">>} \subseteq Seq(M!Effects)
<1> DEFINE E == M!Effects
<1>1. /\ "assert_form" \in E /\ "record_intent" \in E /\ "reconcile" \in E /\ "submit" \in E
      /\ "revise" \in E /\ "remove" \in E /\ "read_back" \in E /\ "capture" \in E
      /\ "park" \in E /\ "requeue" \in E /\ "notify" \in E /\ "halt" \in E
  BY DEF M!Effects, M!Writes
<1> HIDE DEF E
<1>2. \A x \in E : <<x>> \in Seq(E)
  OBVIOUS
<1>3. \A x, y \in E : <<x, y>> \in Seq(E)
  OBVIOUS
<1>4. \A x, y, z \in E : <<x, y, z>> \in Seq(E)
  OBVIOUS
<1>5. <<>> \in Seq(E)
  OBVIOUS
<1> QED  BY <1>1, <1>2, <1>3, <1>4, <1>5 DEF E

Lists == {<<>>, <<"assert_form">>, <<"record_intent">>, <<"reconcile">>, <<"submit">>,
   <<"revise">>, <<"remove">>, <<"read_back">>, <<"read_back", "capture">>, <<"capture">>,
   <<"park", "requeue", "notify">>, <<"capture", "halt", "notify">>, <<"capture", "halt">>,
   <<"halt", "notify">>}

LEMMA Advanced ==
  ASSUME NEW m, Draft(m), NEW at \in M!StateNames, NEW a \in Attempts \cup {None},
         NEW l \in {"none", "durable", "marker", "recorded"}, NEW fx \in Lists,
         NEW t \in M!advance(m, at, a, l, fx)
  PROVE  Became(m, t, at, a, "none", fx)
<1>1. t = M!Move(m, at, a, l, "none", fx)
  BY DEF M!advance
<1>2. fx \in Seq(M!Effects)
  BY EffectLists DEF Lists
<1> QED  BY <1>1, <1>2, MoveFields

LEMMA Finished ==
  ASSUME NEW m, Draft(m), NEW a \in Attempts \cup {None}, NEW o \in M!MachineOutcomes,
         NEW fx \in Lists, NEW t \in M!finish(m, a, o, fx)
  PROVE  Became(m, t, "terminal", a, o, fx)
<1>1. t = M!Move(m, "terminal", a, "none", o, fx)
  BY DEF M!finish
<1>2. fx \in Seq(M!Effects) /\ "terminal" \in M!StateNames
  BY EffectLists DEF Lists, M!StateNames
<1> QED  BY <1>1, <1>2, MoveFields

LEMMA EntryRow ==
  ASSUME NEW m, Draft(m), NEW t \in M!entry_row(m)
  PROVE  \/ Became(m, t, "awaiting_preflight", None, "none", <<"assert_form">>)
         \/ Became(m, t, "preflight_asserted", None, "none", <<"record_intent">>)
<1>1. \/ t \in M!advance(m, "awaiting_preflight", None, "none", <<"assert_form">>)
      \/ t \in M!advance(m, "preflight_asserted", None, "none", <<"record_intent">>)
  BY DEF M!entry_row
<1> QED  BY <1>1, Advanced DEF Lists, M!StateNames

LEMMA HaltRow ==
  ASSUME NEW m, Draft(m), NEW a \in Attempts \cup {None}, NEW c \in BOOLEAN,
         NEW t \in M!halt_ambiguous(m, a, c)
  PROVE  \/ Became(m, t, "terminal", a, "ambiguous", <<"capture", "halt", "notify">>)
         \/ Became(m, t, "terminal", a, "ambiguous", <<"halt", "notify">>)
<1>1. \/ t \in M!finish(m, a, "ambiguous", <<"capture", "halt", "notify">>)
      \/ t \in M!finish(m, a, "ambiguous", <<"halt", "notify">>)
  BY DEF M!halt_ambiguous
<1> QED  BY <1>1, Finished DEF Lists, M!MachineOutcomes

LEMMA ResumeRow ==
  ASSUME NEW m, Draft(m), NEW a \in Attempts, NEW t \in M!resume_stranded(m, a)
  PROVE  m.op = "create" /\ Became(m, t, "awaiting_read_back", a, "none", <<"reconcile">>)
<1>1. m.op = "create"
  BY DEF M!resume_stranded
<1>2. t \in M!advance(m, "awaiting_read_back", a, "recorded", <<"reconcile">>)
  BY <1>1 DEF M!resume_stranded, Draft
<1> QED  BY <1>1, <1>2, Advanced DEF Lists, M!StateNames

LEMMA PreflightRow ==
  ASSUME NEW m, Draft(m), m.at = "awaiting_preflight", m.attempt = None
  PROVE  /\ \A t \in M!step(m, M!In("preflight", "ok")) :
              Became(m, t, "preflight_asserted", None, "none", <<"record_intent">>)
         /\ \A t \in M!step(m, M!In("preflight", "drift")) :
              Became(m, t, "terminal", None, "rejected", <<"capture", "halt", "notify">>)
         /\ \A a \in Attempts : \A t \in M!step(m, M!InOn("resume", a)) :
              m.op = "create" /\ Became(m, t, "awaiting_read_back", a, "none", <<"reconcile">>)
<1>1. \A in : in.kind # "budget_exhausted" =>
         M!step(m, in) = M!awaiting_preflight_rows(m, in) \/ M!step(m, in) = {}
  BY DEF M!step
<1>2. ASSUME NEW t \in M!step(m, M!In("preflight", "ok"))
      PROVE  Became(m, t, "preflight_asserted", None, "none", <<"record_intent">>)
  <2>1. t \in M!awaiting_preflight_rows(m, M!In("preflight", "ok"))
    BY <1>1, <1>2 DEF M!In
  <2>2. t \in M!advance(m, "preflight_asserted", None, "none", <<"record_intent">>)
    BY <2>1 DEF M!awaiting_preflight_rows, M!In
  <2> QED  BY <2>2, Advanced DEF Lists, M!StateNames
<1>3. ASSUME NEW t \in M!step(m, M!In("preflight", "drift"))
      PROVE  Became(m, t, "terminal", None, "rejected", <<"capture", "halt", "notify">>)
  <2>1. t \in M!awaiting_preflight_rows(m, M!In("preflight", "drift"))
    BY <1>1, <1>3 DEF M!In
  <2>2. t \in M!finish(m, None, "rejected", <<"capture", "halt", "notify">>)
    BY <2>1 DEF M!awaiting_preflight_rows, M!In
  <2> QED  BY <2>2, Finished DEF Lists, M!MachineOutcomes
<1>4. ASSUME NEW a \in Attempts, NEW t \in M!step(m, M!InOn("resume", a))
      PROVE  m.op = "create" /\ Became(m, t, "awaiting_read_back", a, "none", <<"reconcile">>)
  <2>1. t \in M!awaiting_preflight_rows(m, M!InOn("resume", a))
    BY <1>1, <1>4 DEF M!InOn
  <2>2. t \in M!resume_stranded(m, a)
    BY <2>1 DEF M!awaiting_preflight_rows, M!InOn
  <2> QED  BY <2>2, ResumeRow
<1> QED  BY <1>2, <1>3, <1>4

LEMMA IntentRow ==
  ASSUME NEW m, Draft(m), m.at = "preflight_asserted", NEW a \in Attempts,
         NEW t \in M!step(m, M!InOn("intent", a))
  PROVE  \E w \in M!Writes : Became(m, t, "intent_recorded", a, "none", <<w>>)
<1>1. t \in M!preflight_asserted_rows(m, M!InOn("intent", a))
  BY DEF M!step, M!InOn
<1>2. t \in M!advance(m, "intent_recorded", a, "none", <<M!write_effect(m)>>)
  BY <1>1 DEF M!preflight_asserted_rows, M!InOn
<1>3. M!write_effect(m) \in M!Writes /\ <<M!write_effect(m)>> \in Lists
  BY DEF M!write_effect, M!Writes, Draft, Operations, Lists
<1>4. Became(m, t, "intent_recorded", a, "none", <<M!write_effect(m)>>)
  BY <1>2, <1>3, Advanced DEF M!StateNames
<1> QED  BY <1>3, <1>4

\* What the machine makes of the answer to its write.
AfterSubmit(m, t, x) ==
  LET a == m.attempt IN
  \/ x = "landed" /\ Became(m, t, "awaiting_read_back", a, "none", <<"read_back">>)
  \/ /\ x = "ambiguous" /\ m.op # "create"
     /\ Became(m, t, "awaiting_read_back", a, "none", <<"read_back", "capture">>)
  \/ /\ x \in {"ambiguous", "captcha", "interstitial"} /\ m.op = "create"
     /\ Became(m, t, "stranded", a, "none", <<"capture">>)
  \/ x = "rejected" /\ Became(m, t, "terminal", a, "rejected", <<>>)
  \/ /\ x \in {"reauth", "otp", "expired"}
     /\ Became(m, t, "parked", a, "none", <<"park", "requeue", "notify">>)
  \/ x \in {"captcha", "interstitial"} /\ Became(m, t, "terminal", a, "blocked", <<>>)
  \/ x = "drift" /\ Became(m, t, "terminal", a, "rejected", <<"capture", "halt">>)
  \/ x \in {"rate_limited", "uncaptured"} /\ Became(m, t, "terminal", a, "skipped", <<>>)
  \/ x = "not_sent" /\ Became(m, t, "preflight_asserted", None, "none", <<"record_intent">>)

LEMMA AmbiguousRow ==
  ASSUME NEW m, Draft(m), m.attempt \in Attempts, NEW t \in M!ambiguous_submit(m, m.attempt)
  PROVE  \/ /\ m.op # "create"
            /\ Became(m, t, "awaiting_read_back", m.attempt, "none", <<"read_back", "capture">>)
         \/ m.op = "create" /\ Became(m, t, "stranded", m.attempt, "none", <<"capture">>)
<1>1. CASE m.op # "create"
  <2>1. M!HasSubject(m)
    BY <1>1 DEF M!HasSubject, Draft, Operations
  <2>2. t \in M!advance(m, "awaiting_read_back", m.attempt, "durable", <<"read_back", "capture">>)
    BY <2>1 DEF M!ambiguous_submit, M!reconcile
  <2> QED  BY <1>1, <2>2, Advanced DEF Lists, M!StateNames
<1>2. CASE m.op = "create"
  <2>1. ~M!HasSubject(m)
    BY <1>2 DEF M!HasSubject
  <2>2. t \in M!advance(m, "stranded", m.attempt, "recorded", <<"capture">>)
    BY <2>1 DEF M!ambiguous_submit, Draft
  <2> QED  BY <1>2, <2>2, Advanced DEF Lists, M!StateNames
<1> QED  BY <1>1, <1>2

LEMMA ChallengedRow ==
  ASSUME NEW m, Draft(m), m.attempt \in Attempts, NEW x \in M!Challenges,
         NEW t \in M!challenged(m, m.attempt, x)
  PROVE  \/ /\ x \in {"reauth", "otp"}
            /\ Became(m, t, "parked", m.attempt, "none", <<"park", "requeue", "notify">>)
         \/ /\ x \in {"captcha", "interstitial"} /\ m.op = "create"
            /\ Became(m, t, "stranded", m.attempt, "none", <<"capture">>)
         \/ /\ x \in {"captcha", "interstitial"}
            /\ Became(m, t, "terminal", m.attempt, "blocked", <<>>)
<1>1. CASE x \in {"reauth", "otp"}
  <2>1. t \in M!advance(m, "parked", m.attempt, "none", <<"park", "requeue", "notify">>)
    BY <1>1 DEF M!challenged, M!seller_clears
  <2> QED  BY <1>1, <2>1, Advanced DEF Lists, M!StateNames
<1>2. CASE x \in {"captcha", "interstitial"} /\ m.op = "create"
  <2>1. t \in M!ambiguous_submit(m, m.attempt)
    BY <1>2 DEF M!challenged, M!seller_clears
  <2> QED  BY <1>2, <2>1, AmbiguousRow
<1>3. CASE x \in {"captcha", "interstitial"} /\ m.op # "create"
  <2>1. t \in M!finish(m, m.attempt, "blocked", <<>>)
    BY <1>3 DEF M!challenged, M!seller_clears
  <2> QED  BY <1>3, <2>1, Finished DEF Lists, M!MachineOutcomes
<1> QED  BY <1>1, <1>2, <1>3 DEF M!Challenges

LEMMA SubmitRow ==
  ASSUME NEW m, Draft(m), m.at = "intent_recorded", m.attempt \in Attempts,
         NEW x \in SubmitAnswers, NEW t \in M!step(m, M!In("submit", x))
  PROVE  AfterSubmit(m, t, x)
<1>1. t \in M!intent_recorded_rows(m, M!In("submit", x))
  BY DEF M!step, M!attempt_conflict, M!In
<1>2. x = "landed" \/ x \in M!AdapterErrors
  BY DriverAssumption DEF SubmitAnswers
<1>3. CASE x = "landed"
  <2>1. t \in M!await_read_back(m, m.attempt, TRUE)
    BY <1>1, <1>3 DEF M!intent_recorded_rows, M!In, M!Challenges
  <2>2. t \in M!advance(m, "awaiting_read_back", m.attempt, "durable", <<"read_back">>)
    BY <2>1 DEF M!await_read_back
  <2> QED  BY <1>3, <2>2, Advanced DEF Lists, M!StateNames, AfterSubmit
<1>4. CASE x = "ambiguous"
  <2>1. t \in M!ambiguous_submit(m, m.attempt)
    BY <1>1, <1>4 DEF M!intent_recorded_rows, M!In, M!Challenges
  <2> QED  BY <1>4, <2>1, AmbiguousRow DEF AfterSubmit
<1>5. CASE x = "rejected"
  <2>1. t \in M!finish(m, m.attempt, "rejected", <<>>)
    BY <1>1, <1>5 DEF M!intent_recorded_rows, M!In, M!Challenges
  <2> QED  BY <1>5, <2>1, Finished DEF Lists, M!MachineOutcomes, AfterSubmit
<1>6. CASE x \in M!Challenges
  <2>1. t \in M!challenged(m, m.attempt, x)
    BY <1>1, <1>6 DEF M!intent_recorded_rows, M!In, M!Challenges
  <2> QED  BY <1>6, <2>1, ChallengedRow DEF AfterSubmit
<1>7. CASE x = "expired"
  <2>1. t \in M!challenged(m, m.attempt, "reauth")
    BY <1>1, <1>7 DEF M!intent_recorded_rows, M!In, M!Challenges
  <2>2. "reauth" \in M!Challenges /\ "reauth" \notin {"captcha", "interstitial"}
    BY DEF M!Challenges
  <2>3. Became(m, t, "parked", m.attempt, "none", <<"park", "requeue", "notify">>)
    BY <2>1, <2>2, ChallengedRow
  <2> QED  BY <1>7, <2>3 DEF AfterSubmit
<1>8. CASE x = "drift"
  <2>1. t \in M!finish(m, m.attempt, "rejected", <<"capture", "halt">>)
    BY <1>1, <1>8 DEF M!intent_recorded_rows, M!In, M!Challenges
  <2> QED  BY <1>8, <2>1, Finished DEF Lists, M!MachineOutcomes, AfterSubmit
<1>9. CASE x \in {"rate_limited", "uncaptured"}
  <2>1. t \in M!finish(m, m.attempt, "skipped", <<>>)
    BY <1>1, <1>9 DEF M!intent_recorded_rows, M!In, M!Challenges
  <2> QED  BY <1>9, <2>1, Finished DEF Lists, M!MachineOutcomes, AfterSubmit
<1>10. CASE x = "not_sent"
  <2>1. t \in M!advance(m, "preflight_asserted", None, "none", <<"record_intent">>)
    BY <1>1, <1>10 DEF M!intent_recorded_rows, M!In, M!Challenges, M!never_sent
  <2> QED  BY <1>10, <2>1, Advanced DEF Lists, M!StateNames, AfterSubmit
<1> QED  BY <1>2, <1>3, <1>4, <1>5, <1>6, <1>7, <1>8, <1>9, <1>10 DEF M!AdapterErrors

LEMMA ReadRow ==
  ASSUME NEW m, Draft(m), m.at = "awaiting_read_back", m.attempt \in Attempts,
         NEW x \in ReadAnswers, NEW t \in M!step(m, M!In("read_back", x))
  PROVE  \/ x = "seen" /\ Became(m, t, "terminal", m.attempt, "committed", <<>>)
         \/ m.op = "remove" /\ Became(m, t, "terminal", m.attempt, "rejected", <<>>)
         \/ Became(m, t, "terminal", m.attempt, "ambiguous", <<"capture", "halt", "notify">>)
         \/ Became(m, t, "terminal", m.attempt, "ambiguous", <<"halt", "notify">>)
<1>1. t \in M!awaiting_read_back_rows(m, M!In("read_back", x))
  BY DEF M!step, M!attempt_conflict, M!In
<1>2. CASE x = "ambiguous"
  <2>1. t \in M!halt_ambiguous(m, m.attempt, TRUE)
    BY <1>1, <1>2 DEF M!awaiting_read_back_rows, M!In
  <2> QED  BY <2>1, HaltRow
<1>3. CASE x \in {"seen", "unproved"}
  <2>1. t \in M!observed_rows(m, x = "seen")
    BY <1>1, <1>3 DEF M!awaiting_read_back_rows, M!In
  <2>2. CASE x = "seen"
    <3>1. t \in M!finish(m, m.attempt, "committed", <<>>)
      BY <2>1, <2>2 DEF M!observed_rows
    <3> QED  BY <2>2, <3>1, Finished DEF Lists, M!MachineOutcomes
  <2>3. CASE x # "seen" /\ m.op = "remove"
    <3>1. t \in M!finish(m, m.attempt, "rejected", <<>>)
      BY <2>1, <2>3 DEF M!observed_rows
    <3> QED  BY <2>3, <3>1, Finished DEF Lists, M!MachineOutcomes
  <2>4. CASE x # "seen" /\ m.op # "remove"
    <3>1. t \in M!halt_ambiguous(m, m.attempt, TRUE)
      BY <2>1, <2>4 DEF M!observed_rows
    <3> QED  BY <3>1, HaltRow
  <2> QED  BY <2>2, <2>3, <2>4
<1> QED  BY <1>2, <1>3 DEF ReadAnswers

LEMMA SearchRow ==
  ASSUME NEW m, Draft(m), m.at = "awaiting_read_back", m.attempt \in Attempts
  PROVE  /\ \A t \in M!step(m, M!In("reconcile", "found")) :
              Became(m, t, "awaiting_read_back", m.attempt, "none", <<"read_back">>)
         /\ \A x \in {"none", "error"} : \A t \in M!step(m, M!In("reconcile", x)) :
              \/ Became(m, t, "terminal", m.attempt, "ambiguous", <<"capture", "halt", "notify">>)
              \/ Became(m, t, "terminal", m.attempt, "ambiguous", <<"halt", "notify">>)
         /\ \A t \in M!step(m, M!In("budget_exhausted", "ok")) :
              Became(m, t, "terminal", m.attempt, "ambiguous", <<"capture">>)
<1>1. ASSUME NEW t \in M!step(m, M!In("reconcile", "found"))
      PROVE  Became(m, t, "awaiting_read_back", m.attempt, "none", <<"read_back">>)
  <2>1. t \in M!awaiting_read_back_rows(m, M!In("reconcile", "found"))
    BY <1>1 DEF M!step, M!attempt_conflict, M!In
  <2>2. t \in M!await_read_back(m, m.attempt, TRUE)
    BY <2>1 DEF M!awaiting_read_back_rows, M!In
  <2>3. t \in M!advance(m, "awaiting_read_back", m.attempt, "durable", <<"read_back">>)
    BY <2>2 DEF M!await_read_back
  <2> QED  BY <2>3, Advanced DEF Lists, M!StateNames
<1>2. ASSUME NEW x \in {"none", "error"}, NEW t \in M!step(m, M!In("reconcile", x))
      PROVE  \/ Became(m, t, "terminal", m.attempt, "ambiguous", <<"capture", "halt", "notify">>)
             \/ Became(m, t, "terminal", m.attempt, "ambiguous", <<"halt", "notify">>)
  <2>1. t \in M!awaiting_read_back_rows(m, M!In("reconcile", x))
    BY <1>2 DEF M!step, M!attempt_conflict, M!In
  <2>2. t \in M!halt_ambiguous(m, m.attempt, FALSE)
    BY <2>1 DEF M!awaiting_read_back_rows, M!In
  <2> QED  BY <2>2, HaltRow
<1>3. ASSUME NEW t \in M!step(m, M!In("budget_exhausted", "ok"))
      PROVE  Became(m, t, "terminal", m.attempt, "ambiguous", <<"capture">>)
  <2>1. t \in M!exhaust_budget(m)
    BY <1>3 DEF M!step, M!attempt_conflict, M!In
  <2>2. t = M!Move(m, "terminal", m.attempt, "none", "ambiguous", <<"capture">>)
    BY <2>1 DEF M!exhaust_budget, M!NothingSent
  <2>3. <<"capture">> \in Seq(M!Effects)
    BY EffectLists DEF Lists
  <2> QED  BY <2>2, <2>3, MoveFields DEF M!StateNames, M!MachineOutcomes
<1> QED  BY <1>1, <1>2, <1>3

LEMMA StrandedRow ==
  ASSUME NEW m, Draft(m), m.at = "stranded", m.attempt \in Attempts,
         NEW t \in M!step(m, M!InOn("resume", m.attempt))
  PROVE  /\ m.op = "create"
         /\ Became(m, t, "awaiting_read_back", m.attempt, "none", <<"reconcile">>)
<1>1. t \in M!stranded_rows(m, M!InOn("resume", m.attempt))
  BY DEF M!step, M!attempt_conflict, M!InOn
<1>2. t \in M!resume_stranded(m, m.attempt)
  BY <1>1 DEF M!stranded_rows, M!InOn
<1> QED  BY <1>2, ResumeRow

-----------------------------------------------------------------------------
(* What a run becomes.  Nearly every step leaves a run in its shape, with  *)
(* no attempt it did not have, no write about to be sent, and no proof of  *)
(* a listing or of an unsent write it did not have.                        *)

Own(r) == {r.m.attempt, r.current_attempt, r.pending.attempt} \ {None}
Decided(r) == r.todo = <<"settle_item">>
SawListing(r) == r.pending = M!In("read_back", "seen") \/ r.m.outcome = "committed"

\* No adapter denies a write that landed: of what may come back although the
\* marketplace carried the write out, nothing is read as a refusal, a block, a
\* challenge the seller clears, or a write not made.  ("not_sent" may come back:
\* the machine asks for a second attempt and the first stays in flight.)
TruthfulDenials ==
  LateAnswers \cap (M!Challenges \cup {"expired", "rate_limited", "uncaptured", "rejected",
                                       "drift"}) = {}

\* The attempt of such a run has not been carried out: its write is still to be
\* sent, or was answered by what a write that landed is not answered by.
Unsent(r) ==
  \/ r.m.at = "preflight_asserted" /\ r.todo = <<>>
  \/ /\ r.m.at = "intent_recorded"
     /\ r.todo # <<>> \/ r.pending.answer \notin LateAnswers \cup {"landed"}
  \/ r.m.at = "parked"
  \/ /\ r.m.at = "terminal" /\ r.current_attempt # None /\ ~Decided(r)
     /\ r.m.outcome \in {"skipped", "blocked"} \/ (r.m.outcome = "rejected" /\ r.m.op = "create")

Continues(r, x) ==
  /\ Shape(x) /\ x.item = r.item /\ x.epoch = r.epoch
  /\ Own(x) \subseteq Own(r) /\ (Decided(r) => Own(x) = {})
  /\ ~Decided(x) /\ x.todo # <<"send">>
  /\ TruthfulDenials /\ Unsent(x) => Unsent(r) /\ x.current_attempt = r.current_attempt
Keeps(r, x) == Continues(r, x) /\ (SawListing(x) => SawListing(r))

LEMMA Inputs ==
  /\ NoInput.attempt = None /\ NoInput.kind = "none"
  /\ \A k, x : /\ M!In(k, x).kind = k /\ M!In(k, x).answer = x /\ M!In(k, x).attempt = None
               /\ M!In(k, x) # NoInput \/ k = "none"
  /\ \A k, a : /\ M!InOn(k, a).kind = k /\ M!InOn(k, a).attempt = a
               /\ M!InOn(k, a).answer = "ok"
  BY DEF NoInput, M!In, M!InOn

LEMMA InputsTyped ==
  /\ \A x \in {"ok", "drift"} : M!In("preflight", x) \in M!Inputs
  /\ \A x \in SubmitAnswers : M!In("submit", x) \in M!Inputs
  /\ \A x \in ReadAnswers : M!In("read_back", x) \in M!Inputs
  /\ \A x \in {"found", "none", "error"} : M!In("reconcile", x) \in M!Inputs
  /\ \A a \in Attempts : M!InOn("resume", a) \in M!Inputs /\ M!InOn("intent", a) \in M!Inputs
<1>1. \A x \in SubmitAnswers : x \in {"landed", "unidentified"} \cup M!AdapterErrors
  BY DriverAssumption DEF SubmitAnswers
<1>2. \A x \in ReadAnswers : x \in {"seen", "unproved"} \cup M!AdapterErrors
  BY DEF ReadAnswers, M!AdapterErrors
<1> HIDE DEF SubmitAnswers, ReadAnswers
<1> QED  BY <1>1, <1>2 DEF M!Inputs

LEMMA TaskLists ==
  /\ \A x \in Tasks : <<x>> \in Seq(Tasks)
  /\ \A x, y \in Tasks : <<x, y>> \in Seq(Tasks)
  /\ Seq(M!Effects) \subseteq Seq(Tasks)
<1>1. M!Effects \subseteq Tasks
  BY DEF Tasks
<1>2. \A S, T : S \subseteq T => Seq(S) \subseteq Seq(T)
  OBVIOUS
<1> HIDE DEF Tasks
<1> QED  BY <1>1, <1>2

\* Every field of a run but its machine, effects, input and attempt is kept by
\* the operators that change those.
LEMMA RunFields ==
  ASSUME NEW r \in Runs
  PROVE  /\ \A t \in Seq(Tasks) :
              LET x == [r EXCEPT !.todo = t] IN
              /\ x \in Runs /\ x.item = r.item /\ x.epoch = r.epoch /\ x.m = r.m
              /\ x.todo = t /\ x.pending = r.pending /\ x.current_attempt = r.current_attempt
              /\ x.blocked_mid_write = r.blocked_mid_write
         /\ \A in \in M!Inputs \cup {NoInput} :
              LET x == [r EXCEPT !.pending = in] IN
              /\ x \in Runs /\ x.item = r.item /\ x.epoch = r.epoch /\ x.m = r.m
              /\ x.todo = r.todo /\ x.pending = in /\ x.current_attempt = r.current_attempt
              /\ x.blocked_mid_write = r.blocked_mid_write
         /\ \A a \in Attempts :
              LET x == [r EXCEPT !.current_attempt = a] IN
              /\ x \in Runs /\ x.item = r.item /\ x.epoch = r.epoch /\ x.m = r.m
              /\ x.todo = r.todo /\ x.pending = r.pending /\ x.current_attempt = a
              /\ x.blocked_mid_write = r.blocked_mid_write
         /\ \A m \in M!Machines :
              LET x == [r EXCEPT !.m = m] IN
              /\ x \in Runs /\ x.item = r.item /\ x.epoch = r.epoch /\ x.m = m
              /\ x.todo = r.todo /\ x.pending = r.pending
              /\ x.current_attempt = r.current_attempt
              /\ x.blocked_mid_write = r.blocked_mid_write
         /\ \A b \in BOOLEAN :
              LET x == [r EXCEPT !.resumed = b] IN
              /\ x \in Runs /\ x.item = r.item /\ x.epoch = r.epoch /\ x.m = r.m
              /\ x.todo = r.todo /\ x.pending = r.pending
              /\ x.current_attempt = r.current_attempt
         /\ \A b \in BOOLEAN :
              LET x == [r EXCEPT !.blocked_mid_write = b] IN
              /\ x \in Runs /\ x.item = r.item /\ x.epoch = r.epoch /\ x.m = r.m
              /\ x.todo = r.todo /\ x.pending = r.pending
              /\ x.current_attempt = r.current_attempt
<1>1. \A t \in Seq(Tasks) :
              LET x == [r EXCEPT !.todo = t] IN
              /\ x \in Runs /\ x.item = r.item /\ x.epoch = r.epoch /\ x.m = r.m
              /\ x.todo = t /\ x.pending = r.pending /\ x.current_attempt = r.current_attempt
              /\ x.blocked_mid_write = r.blocked_mid_write
  BY DEF Runs
<1> QED  BY <1>1 DEF Runs

LEMMA NewRunShape ==
  ASSUME NEW i \in Items, NEW e \in Nat, NEW a \in Attempts \cup {None}
  PROVE  LET x == NewRun(i, e, a) IN
         /\ Shape(x) /\ x.item = i /\ x.epoch = e /\ x.todo = <<"prepare">>
         /\ x.current_attempt = None /\ x.m.attempt = None /\ x.m.at = "awaiting_preflight"
         /\ x.m.outcome = "none" /\ x.pending = StrandedInput(a)
<1> DEFINE x == NewRun(i, e, a)
<1>1. Draft(x.m) /\ x.m.op = Op[i] /\ x.m.at = "awaiting_preflight" /\ x.m.attempt = None
      /\ x.m.outcome = "none"
  BY ItemsAssumption, DriverAssumption
  DEF NewRun, M!Machine, Draft, M!Machines, M!Operations, M!Strategies, M!StateNames, Operations
<1>2. StrandedInput(a) \in {NoInput} \cup {M!InOn("resume", b) : b \in Attempts}
  BY DEF StrandedInput
<1>3. StrandedInput(a) \in M!Inputs \cup {NoInput}
  BY <1>2, InputsTyped
<1>4. <<"prepare">> \in Seq(Tasks)
  BY TaskLists DEF Tasks
<1>5. /\ x.item = i /\ x.epoch = e /\ x.todo = <<"prepare">> /\ x.current_attempt = None
      /\ x.pending = StrandedInput(a)
  BY DEF NewRun
<1>6. x \in Runs
  BY <1>1, <1>3, <1>4 DEF NewRun, Runs, Draft
<1>7. Waits(x)
  BY <1>1, <1>2, <1>5 DEF Waits, NoAttemptYet
<1> HIDE DEF x
<1>8. Shape(x)
  BY <1>1, <1>5, <1>6, <1>7 DEF Shape
<1> QED  BY <1>1, <1>5, <1>8 DEF x

LEMMA AbandonedKeeps ==
  ASSUME NEW r, r \in Runs
  PROVE  Keeps(r, Abandoned(r)) /\ Abandoned(r).todo = <<"hand_back">>
<1> DEFINE n == NewRun(r.item, r.epoch, None)
           x == Abandoned(r)
<1>1. r.item \in Items /\ r.epoch \in Nat
  BY DEF Runs
<1>2. /\ Shape(n) /\ n.item = r.item /\ n.epoch = r.epoch /\ n.current_attempt = None
      /\ n.m.attempt = None /\ n.m.at = "awaiting_preflight" /\ n.m.outcome = "none"
      /\ n.pending = NoInput
  BY <1>1, NewRunShape DEF StrandedInput
<1>3. n \in Runs
  BY <1>2 DEF Shape
<1>4. <<"hand_back">> \in Seq(Tasks)
  BY TaskLists DEF Tasks
<1>5. x = [n EXCEPT !.todo = <<"hand_back">>]
  BY DEF Abandoned
<1> HIDE DEF n, x
<1>6. /\ x \in Runs /\ x.item = r.item /\ x.epoch = r.epoch /\ x.m = n.m
      /\ x.todo = <<"hand_back">> /\ x.pending = NoInput /\ x.current_attempt = None
  BY <1>2, <1>3, <1>4, <1>5, RunFields
<1>7. Shape(x)
  BY <1>2, <1>6 DEF Shape, Waits, NoAttemptYet
<1>8. Own(x) = {}
  BY <1>2, <1>6, Inputs DEF Own
<1>9. ~SawListing(x) /\ ~Unsent(x) /\ ~Decided(x) /\ x.todo # <<"send">>
  BY <1>2, <1>6, Inputs DEF SawListing, Unsent, Decided
<1>10. Keeps(r, x)
  BY <1>6, <1>7, <1>8, <1>9 DEF Keeps, Continues
<1> QED  BY <1>6, <1>10 DEF x

\* What the head of the loop makes of a run whose machine moved.
Stepped(r, x, at, a, o, fx) ==
  /\ x \in Runs /\ x.item = r.item /\ x.epoch = r.epoch
  /\ x.current_attempt = r.current_attempt /\ x.pending = NoInput /\ x.todo = fx
  /\ Draft(x.m) /\ x.m.op = r.m.op /\ x.m.at = at /\ x.m.attempt = a /\ x.m.outcome = o

Fits(r, at, a, o, fx) ==
  /\ a \in Own(r) \cup {None}
  /\ \/ /\ at = "awaiting_preflight" /\ a = None /\ r.current_attempt = None /\ o = "none"
        /\ fx = <<"assert_form">>
     \/ at = "preflight_asserted" /\ a = None /\ o = "none" /\ fx = <<"record_intent">>
     \/ /\ at = "intent_recorded" /\ a \in Attempts /\ a = r.current_attempt /\ o = "none"
        /\ Unsent(r)
        /\ fx \in {<<"submit">>, <<"revise">>, <<"remove">>, <<"settle_unsent", "hand_back">>}
     \/ /\ at = "stranded" /\ a \in Attempts /\ a = r.current_attempt /\ o = "none"
        /\ r.m.op = "create" /\ fx = <<"capture">>
     \/ /\ at = "awaiting_read_back" /\ a \in Attempts /\ o = "none"
        /\ \/ /\ r.m.op = "create" /\ r.current_attempt \in {None, a} /\ fx = <<"reconcile">>
           \/ a = r.current_attempt /\ fx \in {<<"read_back">>, <<"read_back", "capture">>}
     \/ /\ at = "parked" /\ a \in Attempts /\ a = r.current_attempt /\ o = "none"
        /\ fx = <<"park", "requeue", "notify">>
        /\ TruthfulDenials => Unsent(r)
     \/ /\ at = "terminal" /\ o \in M!MachineOutcomes
        /\ fx \in {<<"capture", "halt", "notify">>, <<"halt", "notify">>, <<>>, <<"capture">>,
                   <<"capture", "halt">>}
        /\ o = "committed" => a \in Attempts /\ a = r.current_attempt /\ SawListing(r)
        /\ TruthfulDenials /\ r.current_attempt # None
             /\ (o \in {"skipped", "blocked"} \/ (o = "rejected" /\ r.m.op = "create"))
           => Unsent(r)

LEMMA FitsKeeps ==
  ASSUME NEW r, Shape(r), ~Decided(r), NEW x, NEW at, NEW a, NEW o, NEW fx,
         Stepped(r, x, at, a, o, fx), Fits(r, at, a, o, fx)
  PROVE  Keeps(r, x)
<1>1. /\ x \in Runs /\ x.item = r.item /\ x.epoch = r.epoch
      /\ x.current_attempt = r.current_attempt /\ x.pending = NoInput /\ x.todo = fx
      /\ Draft(x.m) /\ x.m.op = r.m.op /\ x.m.at = at /\ x.m.attempt = a /\ x.m.outcome = o
  BY DEF Stepped
<1>2. r.current_attempt \in Attempts \cup {None} /\ r.m.op = Op[r.item]
  BY DEF Shape, Runs
<1>3. "none" \notin M!MachineOutcomes
  BY DEF M!MachineOutcomes
<1>4. o # "none" <=> at = "terminal"
  BY <1>3 DEF Fits
<1>5. at = "awaiting_preflight" => Waits(x)
  BY <1>1 DEF Fits, Waits, NoAttemptYet
<1>6. at = "preflight_asserted" => Asserted(x)
  BY <1>1, <1>2 DEF Fits, Asserted, NoAttemptYet
<1>7. at = "intent_recorded" => Intended(x)
  BY <1>1 DEF Fits, Intended, OnAttempt
<1>8. at = "stranded" => Strands(x)
  BY <1>1 DEF Fits, Strands, OnAttempt
<1>9. at = "awaiting_read_back" => Reads(x)
  BY <1>1 DEF Fits, Reads, OnAttempt
<1>10. at = "parked" => Parks(x)
  BY <1>1 DEF Fits, Parks, OnAttempt
<1>11. at = "terminal" => Ends(x)
  BY <1>1, <1>2 DEF Fits, Ends, OnAttempt
<1>12. Shape(x)
  <2>1. Waits(x) \/ Asserted(x) \/ Intended(x) \/ Strands(x) \/ Reads(x) \/ Parks(x) \/ Ends(x)
    BY <1>5, <1>6, <1>7, <1>8, <1>9, <1>10, <1>11 DEF Fits
  <2> QED  BY <1>1, <1>2, <1>4, <2>1 DEF Shape
<1>13. Own(x) \subseteq Own(r)
  BY <1>1, Inputs DEF Own, Fits
<1>14. fx # <<"settle_item">> /\ fx # <<"send">>
  BY DEF Fits
<1>15. SawListing(x) => SawListing(r)
  BY <1>1, Inputs DEF SawListing, Fits
<1>16. TruthfulDenials /\ Unsent(x) => Unsent(r)
  <2> SUFFICES ASSUME TruthfulDenials, Unsent(x) PROVE Unsent(r)
    OBVIOUS
  <2>1. CASE at = "preflight_asserted"
    BY <1>1, <2>1 DEF Unsent, Fits
  <2>2. CASE at = "intent_recorded" \/ at = "parked"
    BY <2>2 DEF Fits
  <2>3. CASE at = "terminal"
    BY <1>1, <2>3 DEF Unsent, Fits
  <2> QED  BY <1>1, <2>1, <2>2, <2>3 DEF Unsent
<1> QED  BY <1>1, <1>12, <1>13, <1>14, <1>15, <1>16 DEF Keeps, Continues, Decided

\* A row of the table fits the run it is taken in.
Moved(r, t) ==
  \E at, a, o, fx : Became(r.m, t, at, a, o, fx) /\ fx \in Lists /\ Fits(r, at, a, o, fx)

LEMMA SubmitFits ==
  ASSUME NEW r, Shape(r), Intended(r), r.todo = <<>>, NEW t \in M!step(r.m, r.pending)
  PROVE  Moved(r, t)
<1>1. /\ r.m.at = "intent_recorded" /\ r.m.attempt \in Attempts
      /\ r.current_attempt = r.m.attempt /\ Draft(r.m)
  BY DEF Shape, Intended, OnAttempt
<1>2. PICK x \in SubmitAnswers : r.pending = M!In("submit", x)
  BY DEF Intended
<1>3. AfterSubmit(r.m, t, x)
  BY <1>1, <1>2, SubmitRow
<1>4. r.m.attempt \in Own(r) \cup {None}
  BY <1>1 DEF Own
<1>5. x \in {"captcha", "interstitial", "reauth", "otp", "expired", "rejected", "drift",
             "rate_limited", "uncaptured"} /\ TruthfulDenials => Unsent(r)
  BY <1>1, <1>2, Inputs DEF Unsent, TruthfulDenials, M!Challenges
<1>6. Became(r.m, t, "awaiting_read_back", r.m.attempt, "none", <<"read_back">>) => Moved(r, t)
  BY <1>1, <1>4 DEF Moved, Fits, Lists
<1>7. Became(r.m, t, "awaiting_read_back", r.m.attempt, "none", <<"read_back", "capture">>)
        => Moved(r, t)
  BY <1>1, <1>4 DEF Moved, Fits, Lists
<1>8. r.m.op = "create" /\ Became(r.m, t, "stranded", r.m.attempt, "none", <<"capture">>)
        => Moved(r, t)
  BY <1>1, <1>4 DEF Moved, Fits, Lists
<1>9. (TruthfulDenials => Unsent(r))
        /\ Became(r.m, t, "parked", r.m.attempt, "none", <<"park", "requeue", "notify">>)
        => Moved(r, t)
  BY <1>1, <1>4 DEF Moved, Fits, Lists
<1>10. ASSUME TruthfulDenials => Unsent(r), NEW o \in {"rejected", "blocked", "skipped"},
              NEW fx \in {<<>>, <<"capture", "halt">>},
              Became(r.m, t, "terminal", r.m.attempt, o, fx)
       PROVE  Moved(r, t)
  <2>1. fx \in Lists
    BY DEF Lists
  <2>2. Fits(r, "terminal", r.m.attempt, o, fx)
    BY <1>4, <1>10 DEF Fits, M!MachineOutcomes
  <2> QED  BY <1>10, <2>1, <2>2 DEF Moved
<1>11. Became(r.m, t, "preflight_asserted", None, "none", <<"record_intent">>) => Moved(r, t)
  BY DEF Moved, Fits, Lists
<1> QED  BY <1>3, <1>5, <1>6, <1>7, <1>8, <1>9, <1>10, <1>11 DEF AfterSubmit

LEMMA ReadFits ==
  ASSUME NEW r, Shape(r), Reads(r), r.todo = <<>>, NEW t \in M!step(r.m, r.pending)
  PROVE  Moved(r, t)
<1>1. r.m.at = "awaiting_read_back" /\ r.m.attempt \in Attempts /\ Draft(r.m)
  BY DEF Shape, Reads
<1>2. r.m.attempt \in Own(r) \cup {None}
  BY <1>1 DEF Own
<1>3. ASSUME NEW fx \in {<<"capture", "halt", "notify">>, <<"halt", "notify">>},
             Became(r.m, t, "terminal", r.m.attempt, "ambiguous", fx)
      PROVE  Moved(r, t)
  <2>1. fx \in Lists
    BY DEF Lists
  <2>2. Fits(r, "terminal", r.m.attempt, "ambiguous", fx)
    BY <1>2 DEF Fits, M!MachineOutcomes
  <2> QED  BY <1>3, <2>1, <2>2 DEF Moved
<1>4. CASE \E x \in {"none", "error"} : r.pending = M!In("reconcile", x)
  BY <1>1, <1>3, <1>4, SearchRow
<1>5. CASE r.pending = M!In("reconcile", "found") /\ OnAttempt(r)
  <2>1. Became(r.m, t, "awaiting_read_back", r.m.attempt, "none", <<"read_back">>)
    BY <1>1, <1>5, SearchRow
  <2>2. Fits(r, "awaiting_read_back", r.m.attempt, "none", <<"read_back">>)
    BY <1>1, <1>2, <1>5 DEF Fits, OnAttempt
  <2>3. <<"read_back">> \in Lists
    BY DEF Lists
  <2> QED  BY <2>1, <2>2, <2>3 DEF Moved
<1>6. CASE OnAttempt(r) /\ \E x \in ReadAnswers : r.pending = M!In("read_back", x)
  <2>1. PICK x \in ReadAnswers : r.pending = M!In("read_back", x)
    BY <1>6
  <2>2. \/ x = "seen" /\ Became(r.m, t, "terminal", r.m.attempt, "committed", <<>>)
        \/ r.m.op = "remove" /\ Became(r.m, t, "terminal", r.m.attempt, "rejected", <<>>)
        \/ Became(r.m, t, "terminal", r.m.attempt, "ambiguous", <<"capture", "halt", "notify">>)
        \/ Became(r.m, t, "terminal", r.m.attempt, "ambiguous", <<"halt", "notify">>)
    BY <1>1, <2>1, ReadRow
  <2>3. <<>> \in Lists
    BY DEF Lists
  <2>4. x = "seen" => Fits(r, "terminal", r.m.attempt, "committed", <<>>)
    BY <1>1, <1>2, <1>6, <2>1 DEF Fits, OnAttempt, SawListing, M!MachineOutcomes
  <2>5. r.m.op = "remove" => Fits(r, "terminal", r.m.attempt, "rejected", <<>>)
    BY <1>2 DEF Fits, M!MachineOutcomes
  <2> QED  BY <1>3, <2>2, <2>3, <2>4, <2>5 DEF Moved
<1>7. r.todo = <<>> /\ <<>> # <<"reconcile">> /\ <<>> # <<"settle_unread", "hand_back">>
      /\ <<>> \notin {<<"read_back">>, <<"read_back", "capture">>}
  OBVIOUS
<1> QED  BY <1>4, <1>5, <1>6, <1>7 DEF Reads

LEMMA EarlyFits ==
  ASSUME NEW r, Shape(r), r.todo = <<>>, Waits(r) \/ Asserted(r),
         NEW t \in M!step(r.m, r.pending)
  PROVE  Moved(r, t)
<1>1. Draft(r.m) /\ r.m.attempt = None
  BY DEF Shape, Waits, Asserted, NoAttemptYet
<1>2. CASE Waits(r)
  <2>1. r.pending \in {M!In("preflight", "ok"), M!In("preflight", "drift")}
    BY <1>2 DEF Waits
  <2>2. r.m.at = "awaiting_preflight" /\ r.current_attempt = None
    BY <1>2 DEF Waits
  <2>3. \/ Became(r.m, t, "preflight_asserted", None, "none", <<"record_intent">>)
        \/ Became(r.m, t, "terminal", None, "rejected", <<"capture", "halt", "notify">>)
    BY <1>1, <2>1, <2>2, PreflightRow
  <2>4. /\ Fits(r, "preflight_asserted", None, "none", <<"record_intent">>)
        /\ Fits(r, "terminal", None, "rejected", <<"capture", "halt", "notify">>)
    BY <2>2 DEF Fits, M!MachineOutcomes
  <2>5. <<"record_intent">> \in Lists /\ <<"capture", "halt", "notify">> \in Lists
    BY DEF Lists
  <2> QED  BY <2>3, <2>4, <2>5 DEF Moved
<1>3. CASE Asserted(r)
  <2>1. /\ r.current_attempt \in Attempts /\ r.pending = M!InOn("intent", r.current_attempt)
        /\ r.m.at = "preflight_asserted"
    BY <1>3 DEF Asserted
  <2>2. PICK w \in M!Writes :
          Became(r.m, t, "intent_recorded", r.current_attempt, "none", <<w>>)
    BY <1>1, <2>1, IntentRow
  <2>3. /\ <<w>> \in {<<"submit">>, <<"revise">>, <<"remove">>, <<"settle_unsent", "hand_back">>}
        /\ <<w>> \in Lists
    BY DEF M!Writes, Lists
  <2>4. Unsent(r) /\ r.current_attempt \in Own(r)
    BY <2>1, NoneAssumption DEF Unsent, Own
  <2>5. Fits(r, "intent_recorded", r.current_attempt, "none", <<w>>)
    BY <2>1, <2>3, <2>4 DEF Fits
  <2> QED  BY <2>2, <2>3, <2>5 DEF Moved
<1> QED  BY <1>2, <1>3

LEMMA StartFits ==
  ASSUME NEW r, Shape(r), r.todo = <<"start">>,
         NEW t \in IF r.pending = NoInput THEN M!entry_row(r.m) ELSE M!step(r.m, r.pending)
  PROVE  Moved(r, t)
<1>1. Waits(r)
  BY DEF Shape, Asserted, Intended, Strands, Reads, Parks, Ends
<1>2. /\ Draft(r.m) /\ r.m.attempt = None /\ r.current_attempt = None
      /\ r.m.at = "awaiting_preflight"
      /\ r.pending \in {NoInput} \cup {M!InOn("resume", a) : a \in Attempts}
  BY <1>1 DEF Shape, Waits, NoAttemptYet
<1>3. <<"assert_form">> \in Lists /\ <<"record_intent">> \in Lists /\ <<"reconcile">> \in Lists
  BY DEF Lists
<1>4. CASE r.pending = NoInput
  <2>1. \/ Became(r.m, t, "awaiting_preflight", None, "none", <<"assert_form">>)
        \/ Became(r.m, t, "preflight_asserted", None, "none", <<"record_intent">>)
    BY <1>2, <1>4, EntryRow
  <2>2. /\ Fits(r, "awaiting_preflight", None, "none", <<"assert_form">>)
        /\ Fits(r, "preflight_asserted", None, "none", <<"record_intent">>)
    BY <1>2 DEF Fits
  <2> QED  BY <1>3, <2>1, <2>2 DEF Moved
<1>5. CASE r.pending # NoInput
  <2>1. PICK a \in Attempts : r.pending = M!InOn("resume", a)
    BY <1>2, <1>5
  <2>2. r.m.op = "create" /\ Became(r.m, t, "awaiting_read_back", a, "none", <<"reconcile">>)
    BY <1>2, <1>5, <2>1, PreflightRow
  <2>3. a \in Own(r)
    BY <2>1, Inputs, NoneAssumption DEF Own
  <2>4. Fits(r, "awaiting_read_back", a, "none", <<"reconcile">>)
    BY <1>2, <2>2, <2>3 DEF Fits
  <2> QED  BY <1>3, <2>2, <2>4 DEF Moved
<1> QED  BY <1>4, <1>5

LEMMA StrandFits ==
  ASSUME NEW r, Shape(r), r.m.at = "stranded",
         NEW t \in M!step(r.m, M!InOn("resume", r.m.attempt))
  PROVE  Moved(r, t)
<1>1. Strands(r) /\ Draft(r.m)
  BY DEF Shape, Waits, Asserted, Intended, Reads, Parks, Ends
<1>2. /\ r.m.op = "create"
      /\ Became(r.m, t, "awaiting_read_back", r.m.attempt, "none", <<"reconcile">>)
  BY <1>1, StrandedRow DEF Strands, OnAttempt
<1>3. Fits(r, "awaiting_read_back", r.m.attempt, "none", <<"reconcile">>)
  BY <1>1, <1>2, NoneAssumption DEF Fits, Own, Strands, OnAttempt
<1>4. <<"reconcile">> \in Lists
  BY DEF Lists
<1> QED  BY <1>2, <1>3, <1>4 DEF Moved

LEMMA LoopTopSteps ==
  ASSUME NEW r \in Runs, NEW t, NEW at, NEW a, NEW o, NEW fx \in Seq(Tasks),
         Became(r.m, t, at, a, o, fx)
  PROVE  LET x == [r EXCEPT !.m = t.next, !.todo = t.effects, !.pending = NoInput] IN
         /\ Stepped(r, x, at, a, o, fx)
         /\ Stepped(r, [x EXCEPT !.todo = <<"settle_unsent", "hand_back">>], at, a, o,
                    <<"settle_unsent", "hand_back">>)
<1> DEFINE x == [r EXCEPT !.m = t.next, !.todo = t.effects, !.pending = NoInput]
<1>1. /\ Draft(t.next) /\ t.next.op = r.m.op /\ t.next.at = at /\ t.next.attempt = a
      /\ t.next.outcome = o /\ t.effects = fx /\ t.next \in M!Machines
  BY DEF Became, Draft
<1>2. /\ x \in Runs /\ x.item = r.item /\ x.epoch = r.epoch /\ x.m = t.next /\ x.todo = fx
      /\ x.pending = NoInput /\ x.current_attempt = r.current_attempt
  BY <1>1 DEF Runs
<1>3. <<"settle_unsent", "hand_back">> \in Seq(Tasks)
  BY TaskLists DEF Tasks
<1> HIDE DEF x
<1>4. Stepped(r, x, at, a, o, fx)
  BY <1>1, <1>2 DEF Stepped
<1>5. Stepped(r, [x EXCEPT !.todo = <<"settle_unsent", "hand_back">>], at, a, o,
              <<"settle_unsent", "hand_back">>)
  BY <1>1, <1>2, <1>3, RunFields DEF Stepped
<1> QED  BY <1>4, <1>5 DEF x

LEMMA LoopTopKeeps ==
  ASSUME NEW r, Shape(r), ~Decided(r), NEW t, Moved(r, t), NEW x \in LoopTop(r, t)
  PROVE  Keeps(r, x)
<1> DEFINE At1(y) == [r EXCEPT !.m = y.next, !.todo = y.effects, !.pending = NoInput]
<1>1. PICK at, a, o, fx : Became(r.m, t, at, a, o, fx) /\ fx \in Lists /\ Fits(r, at, a, o, fx)
  BY DEF Moved
<1>2. fx \in Seq(Tasks) /\ r \in Runs
  BY <1>1, EffectLists, TaskLists DEF Lists, Shape
<1>3. /\ Stepped(r, At1(t), at, a, o, fx)
      /\ Stepped(r, [At1(t) EXCEPT !.todo = <<"settle_unsent", "hand_back">>], at, a, o,
                 <<"settle_unsent", "hand_back">>)
  BY <1>1, <1>2, LoopTopSteps
<1>4. t.next.at = at /\ Draft(t.next) /\ t.next.attempt = a /\ t.next.op = r.m.op
  BY <1>1 DEF Became
<1>5. \/ x = At1(t) \/ x = Abandoned(r)
      \/ /\ t.next.at = "intent_recorded"
         /\ x = [At1(t) EXCEPT !.todo = <<"settle_unsent", "hand_back">>]
      \/ /\ t.next.at = "awaiting_read_back"
         /\ \E y \in M!step(t.next, M!In("budget_exhausted", "ok")) : x = At1(y)
  BY DEF LoopTop
<1> HIDE DEF At1
<1>6. CASE x = At1(t)
  BY <1>1, <1>3, <1>6, FitsKeeps
<1>7. CASE x = Abandoned(r)
  BY <1>2, <1>7, AbandonedKeeps
<1>8. CASE /\ t.next.at = "intent_recorded"
           /\ x = [At1(t) EXCEPT !.todo = <<"settle_unsent", "hand_back">>]
  <2>1. Fits(r, at, a, o, <<"settle_unsent", "hand_back">>)
    BY <1>1, <1>4, <1>8 DEF Fits
  <2> QED  BY <1>3, <1>8, <2>1, FitsKeeps
<1>9. ASSUME t.next.at = "awaiting_read_back",
             NEW y \in M!step(t.next, M!In("budget_exhausted", "ok")), x = At1(y)
      PROVE  Keeps(r, x)
  <2>1. a \in Attempts /\ a \in Own(r) \cup {None}
    BY <1>1, <1>4, <1>9 DEF Fits
  <2>2. Became(t.next, y, "terminal", a, "ambiguous", <<"capture">>)
    BY <1>4, <1>9, <2>1, SearchRow
  <2>3. Became(r.m, y, "terminal", a, "ambiguous", <<"capture">>)
    BY <1>4, <2>2 DEF Became
  <2>4. <<"capture">> \in Seq(Tasks)
    BY EffectLists, TaskLists DEF Lists
  <2>5. Stepped(r, At1(y), "terminal", a, "ambiguous", <<"capture">>)
    BY <1>2, <2>3, <2>4, LoopTopSteps DEF At1
  <2>6. Fits(r, "terminal", a, "ambiguous", <<"capture">>)
    BY <2>1 DEF Fits, M!MachineOutcomes
  <2> QED  BY <1>9, <2>5, <2>6, FitsKeeps
<1> QED  BY <1>5, <1>6, <1>7, <1>8, <1>9

\* A step of the machine keeps its run, however the loop takes it.
LEMMA FollowKeeps ==
  ASSUME NEW d \in Devices, NEW r, Shape(r), ~Decided(r), NEW T, \A t \in T : Moved(r, t),
         Follow(d, r, T)
  PROVE  \E x : Becomes(d, x) /\ Keeps(r, x)
<1>1. r \in Runs
  BY DEF Shape
<1>2. CASE Becomes(d, Abandoned(r))
  BY <1>1, <1>2, AbandonedKeeps
<1>3. CASE \E t \in T : \E x \in LoopTop(r, t) : Becomes(d, x)
  BY <1>3, LoopTopKeeps
<1> QED  BY <1>2, <1>3 DEF Follow

-----------------------------------------------------------------------------
(* The effects, seen from their run.                                       *)

Todos == {<<>>, <<"prepare">>, <<"start">>, <<"hand_back">>, <<"assert_form">>,
          <<"requeue", "settle_blocked">>, <<"settle_blocked">>, <<"record_intent">>,
          <<"settle_skipped">>, <<"submit">>, <<"revise">>, <<"remove">>, <<"send">>,
          <<"settle_unsent", "hand_back">>, <<"capture">>, <<"reconcile">>, <<"read_back">>,
          <<"read_back", "capture">>, <<"settle_unread", "hand_back">>,
          <<"park", "requeue", "notify">>, <<"requeue", "notify">>, <<"notify">>,
          <<"capture", "halt", "notify">>, <<"halt", "notify">>, <<"capture", "halt">>,
          <<"halt">>, <<"settle_item">>}

LEMMA ShapeTodo == \A r : Shape(r) => r.todo \in Todos
  BY DEF Shape, Waits, Asserted, Intended, Strands, Reads, Parks, Ends, Todos

LEMMA Heads ==
  ASSUME NEW t \in Todos, t # <<>>
  PROVE  /\ Head(t) = "prepare" => t = <<"prepare">>
         /\ Head(t) = "start" => t = <<"start">>
         /\ Head(t) = "hand_back" => t = <<"hand_back">>
         /\ Head(t) = "assert_form" => t = <<"assert_form">>
         /\ Head(t) = "settle_blocked" => t = <<"settle_blocked">>
         /\ Head(t) = "record_intent" => t = <<"record_intent">>
         /\ Head(t) = "settle_skipped" => t = <<"settle_skipped">>
         /\ Head(t) \in M!Writes => t \in {<<"submit">>, <<"revise">>, <<"remove">>}
         /\ Head(t) = "send" => t = <<"send">>
         /\ Head(t) = "settle_unsent" => t = <<"settle_unsent", "hand_back">>
         /\ Head(t) = "settle_unread" => t = <<"settle_unread", "hand_back">>
         /\ Head(t) = "reconcile" => t = <<"reconcile">>
         /\ Head(t) = "read_back" => t \in {<<"read_back">>, <<"read_back", "capture">>}
         /\ Head(t) = "park" => t = <<"park", "requeue", "notify">>
         /\ Head(t) = "requeue" => t \in {<<"requeue", "settle_blocked">>, <<"requeue", "notify">>}
         /\ Head(t) = "notify" => t = <<"notify">>
         /\ Head(t) = "halt" => t \in {<<"halt">>, <<"halt", "notify">>}
         /\ Head(t) = "capture" => t \in {<<"capture">>, <<"capture", "halt">>,
                                          <<"capture", "halt", "notify">>}
         /\ Head(t) = "settle_item" => t = <<"settle_item">>
  BY DEF Todos, M!Writes

LEMMA Tails ==
  /\ \A s : Tail(<<s>>) = <<>>
  /\ Tail(<<"requeue", "settle_blocked">>) = <<"settle_blocked">>
  /\ Tail(<<"read_back", "capture">>) = <<"capture">>
  /\ Tail(<<"park", "requeue", "notify">>) = <<"requeue", "notify">>
  /\ Tail(<<"requeue", "notify">>) = <<"notify">>
  /\ Tail(<<"halt", "notify">>) = <<"notify">>
  /\ Tail(<<"capture", "halt">>) = <<"halt">>
  /\ Tail(<<"capture", "halt", "notify">>) = <<"halt", "notify">>
  OBVIOUS

LEMMA TodosTyped == Todos \subseteq Seq(Tasks)
<1>1. /\ \A w \in M!Writes : w \in Tasks
      /\ "prepare" \in Tasks /\ "start" \in Tasks /\ "hand_back" \in Tasks
      /\ "assert_form" \in Tasks /\ "settle_blocked" \in Tasks /\ "record_intent" \in Tasks
      /\ "settle_skipped" \in Tasks /\ "send" \in Tasks /\ "settle_unsent" \in Tasks
      /\ "settle_unread" \in Tasks /\ "reconcile" \in Tasks /\ "read_back" \in Tasks
      /\ "park" \in Tasks /\ "requeue" \in Tasks /\ "notify" \in Tasks /\ "halt" \in Tasks
      /\ "capture" \in Tasks /\ "settle_item" \in Tasks
      /\ "submit" \in Tasks /\ "revise" \in Tasks /\ "remove" \in Tasks
  BY DEF Tasks, M!Effects, M!Writes
<1>2. \A x, y, z \in Tasks : <<x, y, z>> \in Seq(Tasks)
  OBVIOUS
<1>3. <<>> \in Seq(Tasks)
  OBVIOUS
<1> QED  BY <1>1, <1>2, <1>3, TaskLists DEF Todos

\* A run that goes on to what it does next, with its machine and its attempt.
Onward(r, x, t, in) ==
  /\ x \in Runs /\ x.item = r.item /\ x.epoch = r.epoch /\ x.m = r.m
  /\ x.current_attempt = r.current_attempt /\ x.todo = t /\ x.pending = in

LEMMA OnwardFields ==
  ASSUME NEW r \in Runs, NEW in \in M!Inputs \cup {NoInput}
  PROVE  /\ \A t \in Todos : Onward(r, [r EXCEPT !.todo = t], t, r.pending)
         /\ Tail(r.todo) \in Todos => /\ Onward(r, Passed(r), Tail(r.todo), r.pending)
                                      /\ Onward(r, Answered(r, in), Tail(r.todo), in)
<1>1. \A t \in Todos : Onward(r, [r EXCEPT !.todo = t], t, r.pending)
  BY TodosTyped, RunFields DEF Onward
<1>2. ASSUME Tail(r.todo) \in Todos
      PROVE  /\ Onward(r, Passed(r), Tail(r.todo), r.pending)
             /\ Onward(r, Answered(r, in), Tail(r.todo), in)
  <2>1. Onward(r, Passed(r), Tail(r.todo), r.pending)
    BY <1>1, <1>2 DEF Passed
  <2>2. Passed(r) \in Runs
    BY <2>1 DEF Onward
  <2> QED  BY <2>1, <2>2, RunFields DEF Onward, Answered
<1> QED  BY <1>1, <1>2

\* What of Continues a step that leaves the machine and the attempt alone does
\* not keep by itself.
LEMMA OnwardContinues ==
  ASSUME NEW r, Shape(r), ~Decided(r), NEW x, NEW t, NEW in, Onward(r, x, t, in),
         t # <<"settle_item">>, t # <<"send">>, in = r.pending \/ in.attempt = None,
         Waits(x) \/ Asserted(x) \/ Intended(x) \/ Strands(x) \/ Reads(x) \/ Parks(x) \/ Ends(x),
         t # <<>> \/ r.m.at \notin {"preflight_asserted", "intent_recorded"},
         t # <<>> /\ r.todo = <<>> => r.m.at # "intent_recorded"
  PROVE  Continues(r, x)
<1>1. /\ x \in Runs /\ x.item = r.item /\ x.epoch = r.epoch /\ x.m = r.m
      /\ x.current_attempt = r.current_attempt /\ x.todo = t /\ x.pending = in
  BY DEF Onward
<1>2. Shape(x)
  BY <1>1 DEF Shape
<1>3. Own(x) \subseteq Own(r)
  BY <1>1 DEF Own
<1>4. Unsent(x) => Unsent(r)
  BY <1>1 DEF Unsent, Decided
<1> QED  BY <1>1, <1>2, <1>3, <1>4 DEF Continues, Decided

LEMMA SaysNothingNew ==
  \A r, x, t, in : /\ Onward(r, x, t, in)
                   /\ in = r.pending \/ in # M!In("read_back", "seen")
                   => (SawListing(x) => SawListing(r))
  BY DEF Onward, SawListing

\* A run prepares, is refused its form or finds its mapping bound.
LEMMA TaskDone ==
  ASSUME NEW r, Shape(r), NEW x
  PROVE  /\ r.todo = <<"prepare">> /\ Onward(r, x, <<"start">>, r.pending) => Keeps(r, x)
         /\ \A t \in {<<"requeue", "settle_blocked">>, <<"settle_blocked">>} :
              r.todo = <<"assert_form">> /\ Onward(r, x, t, r.pending) => Keeps(r, x)
         /\ r.todo = <<"record_intent">> /\ Onward(r, x, <<"settle_skipped">>, r.pending)
              => Keeps(r, x)
<1>1. ASSUME r.todo = <<"prepare">>, Onward(r, x, <<"start">>, r.pending) PROVE Keeps(r, x)
  <2>1. Waits(r)
    BY <1>1 DEF Shape, Asserted, Intended, Strands, Reads, Parks, Ends
  <2>2. Waits(x)
    BY <1>1, <2>1 DEF Waits, Onward, NoAttemptYet
  <2> QED  BY <1>1, <2>1, <2>2, OnwardContinues, SaysNothingNew DEF Keeps, Decided
<1>2. ASSUME NEW t \in {<<"requeue", "settle_blocked">>, <<"settle_blocked">>},
             r.todo = <<"assert_form">>, Onward(r, x, t, r.pending)
      PROVE  Keeps(r, x)
  <2>1. Waits(r)
    BY <1>2 DEF Shape, Asserted, Intended, Strands, Reads, Parks, Ends
  <2>2. Waits(x)
    BY <1>2, <2>1 DEF Waits, Onward, NoAttemptYet
  <2> QED  BY <1>2, <2>1, <2>2, OnwardContinues, SaysNothingNew DEF Keeps, Decided
<1>3. ASSUME r.todo = <<"record_intent">>, Onward(r, x, <<"settle_skipped">>, r.pending)
      PROVE  Keeps(r, x)
  <2>1. Asserted(r)
    BY <1>3 DEF Shape, Waits, Intended, Strands, Reads, Parks, Ends
  <2>2. Asserted(x)
    BY <1>3, <2>1 DEF Asserted, Onward, NoAttemptYet
  <2> QED  BY <1>3, <2>1, <2>2, OnwardContinues, SaysNothingNew DEF Keeps, Decided
<1> QED  BY <1>1, <1>2, <1>3

\* A run about to write is in mid-write, whichever write it is.
LEMMA AboutToWrite ==
  ASSUME NEW r, Shape(r), NEW w \in M!Writes \cup {"send"}, r.todo = <<w>>
  PROVE  Intended(r) /\ OnAttempt(r) /\ r.m.at = "intent_recorded" /\ r.pending = NoInput
<1>1. w \notin {"prepare", "start", "hand_back", "assert_form", "settle_blocked", "record_intent",
                "settle_skipped", "capture", "reconcile", "read_back", "notify", "halt",
                "settle_item"}
  BY DEF M!Writes
<1>2. ~Waits(r) /\ ~Asserted(r) /\ ~Strands(r)
  BY <1>1 DEF Waits, Asserted, Strands
<1>3. ~Reads(r) /\ ~Parks(r) /\ ~Ends(r)
  BY <1>1 DEF Reads, Parks, Ends
<1>4. Intended(r)
  BY <1>2, <1>3 DEF Shape
<1>5. r.todo # <<>>
  OBVIOUS
<1> QED  BY <1>4, <1>5 DEF Intended

\* A write that was not permitted is settled as never sent.
LEMMA TaskRefused ==
  ASSUME NEW r, Shape(r), NEW w \in M!Writes, r.todo = <<w>>, NEW x,
         Onward(r, x, <<"settle_unsent", "hand_back">>, r.pending)
  PROVE  Keeps(r, x)
<1>1. r.m.at = "intent_recorded" /\ OnAttempt(r) /\ r.pending = NoInput
  BY AboutToWrite
<1>2. Intended(x)
  BY <1>1 DEF Intended, Onward, OnAttempt
<1>3. ~Decided(r) /\ r.todo # <<>>
  BY DEF Decided, M!Writes
<1> QED  BY <1>1, <1>2, <1>3, OnwardContinues, SaysNothingNew DEF Keeps

\* An edit nobody could verify is settled on the way out.
LEMMA TaskUnread ==
  ASSUME NEW r, Shape(r), r.todo \in {<<"read_back">>, <<"read_back", "capture">>}, NEW x,
         Onward(r, x, <<"settle_unread", "hand_back">>, r.pending)
  PROVE  Keeps(r, x)
<1>1. Reads(r)
  <2>1. ~Waits(r) /\ ~Asserted(r)
    BY DEF Waits, Asserted
  <2>2. ~Strands(r) /\ ~Intended(r)
    BY DEF Strands, Intended
  <2>3. ~Parks(r) /\ ~Ends(r)
    BY DEF Parks, Ends
  <2> QED  BY <2>1, <2>2, <2>3 DEF Shape
<1>2. r.m.at = "awaiting_read_back" /\ OnAttempt(r) /\ r.pending = NoInput
  <2>1. /\ r.todo \notin {<<>>, <<"reconcile">>, <<"settle_unread", "hand_back">>}
        /\ r.todo \notin {<<"capture">>, <<>>}
    OBVIOUS
  <2> QED  BY <1>1, <2>1 DEF Reads
<1>3. Reads(x)
  BY <1>2 DEF Reads, Onward, OnAttempt
<1> QED  BY <1>2, <1>3, OnwardContinues, SaysNothingNew DEF Keeps, Decided

\* A run passes over what leaves the machine alone.
LEMMA TaskPassed ==
  ASSUME NEW r, Shape(r), r.todo # <<>>,
         Head(r.todo) \in {"park", "requeue", "capture", "notify", "halt"},
         NEW x, Tail(r.todo) \in Todos => Onward(r, x, Tail(r.todo), r.pending)
  PROVE  Keeps(r, x)
<1>1. r.todo \in {<<"requeue", "settle_blocked">>, <<"park", "requeue", "notify">>,
                  <<"requeue", "notify">>, <<"notify">>, <<"capture">>, <<"halt">>,
                  <<"halt", "notify">>, <<"capture", "halt">>, <<"capture", "halt", "notify">>}
  BY ShapeTodo, Heads
<1>2. Onward(r, x, Tail(r.todo), r.pending)
  BY <1>1, Tails DEF Todos
<1>3. Waits(r) \/ Strands(r) \/ Reads(r) \/ Parks(r) \/ Ends(r)
  BY <1>1 DEF Shape, Asserted, Intended
<1>4. Waits(r) => Waits(x)
  <2>1. Waits(r) => r.todo = <<"requeue", "settle_blocked">> /\ r.pending = NoInput
    BY <1>1 DEF Waits
  <2> QED  BY <1>2, <2>1, Tails DEF Waits, Onward, NoAttemptYet
<1>5. Strands(r) => Strands(x)
  <2>1. Strands(r) => r.todo = <<"capture">>
    BY <1>1 DEF Strands
  <2> QED  BY <1>2, <2>1, Tails DEF Strands, Onward, OnAttempt
<1>6. Reads(r) => Reads(x)
  <2>1. Reads(r) => /\ r.todo = <<"capture">> /\ OnAttempt(r)
                    /\ r.pending \in {M!In("read_back", a) : a \in ReadAnswers}
    BY <1>1 DEF Reads
  <2> QED  BY <1>2, <2>1, Tails DEF Reads, Onward, OnAttempt
<1>7. Parks(r) => Parks(x)
  <2>1. Parks(r) => r.todo \in {<<"park", "requeue", "notify">>, <<"requeue", "notify">>,
                                 <<"notify">>}
    BY <1>1 DEF Parks
  <2> QED  BY <1>2, <2>1, Tails DEF Parks, Onward, OnAttempt
<1>8. Ends(r) => Ends(x)
  <2>1. Ends(r) => r.todo \in {<<"notify">>, <<"capture">>, <<"halt">>, <<"halt", "notify">>,
                               <<"capture", "halt">>, <<"capture", "halt", "notify">>}
    BY <1>1 DEF Ends
  <2> QED  BY <1>2, <2>1, Tails DEF Ends, Onward, OnAttempt
<1>9. Tail(r.todo) # <<"settle_item">> /\ Tail(r.todo) # <<"send">>
  <2>1. Tail(r.todo) \in {<<>>, <<"settle_blocked">>, <<"requeue", "notify">>, <<"notify">>,
                          <<"halt">>, <<"halt", "notify">>}
    BY <1>1, Tails
  <2>2. \A t \in {<<>>, <<"settle_blocked">>, <<"requeue", "notify">>, <<"notify">>,
                  <<"halt">>, <<"halt", "notify">>} : t # <<"settle_item">>
    OBVIOUS
  <2>3. \A t \in {<<>>, <<"settle_blocked">>, <<"requeue", "notify">>, <<"notify">>,
                  <<"halt">>, <<"halt", "notify">>} : t # <<"send">>
    OBVIOUS
  <2> QED  BY <2>1, <2>2, <2>3
<1>10. r.m.at \notin {"preflight_asserted", "intent_recorded"}
  BY <1>3 DEF Waits, Strands, Reads, Parks, Ends
<1>11. ~Decided(r)
  BY <1>1 DEF Decided
<1> QED  BY <1>2, <1>3, <1>4, <1>5, <1>6, <1>7, <1>8, <1>9, <1>10, <1>11,
            OnwardContinues, SaysNothingNew DEF Keeps

\* An answer reaches the machine with nothing else changed.
LEMMA TaskAnswered ==
  ASSUME NEW r, Shape(r)
  PROVE  /\ \A a \in {"ok", "drift"} : r.todo = <<"assert_form">>
              => Keeps(r, Answered(r, M!In("preflight", a)))
         /\ \A a \in ReadAnswers : r.todo \in {<<"read_back">>, <<"read_back", "capture">>}
              => /\ Continues(r, Answered(r, M!In("read_back", a)))
                 /\ a # "seen" => Keeps(r, Answered(r, M!In("read_back", a)))
                 /\ Answered(r, M!In("read_back", a)).m = r.m
                 /\ r.m.outcome = "none"
         /\ \A a \in {"none", "error"} : r.todo = <<"reconcile">>
              => Keeps(r, Answered(r, M!In("reconcile", a)))
         /\ r.todo = <<"reconcile">>
              => Keeps(r, Owning(Answered(r, M!In("reconcile", "found")), r.m.attempt))
<1>1. r \in Runs
  BY DEF Shape
<1>2. ASSUME NEW a \in {"ok", "drift"}, r.todo = <<"assert_form">>
      PROVE  Keeps(r, Answered(r, M!In("preflight", a)))
  <2> DEFINE x == Answered(r, M!In("preflight", a))
  <2>1. Waits(r)
    BY <1>2 DEF Shape, Asserted, Intended, Strands, Reads, Parks, Ends
  <2>2. Tail(r.todo) = <<>> /\ Tail(r.todo) \in Todos
    BY <1>2, Tails DEF Todos
  <2>3. Onward(r, x, <<>>, M!In("preflight", a))
    BY <1>1, <2>2, InputsTyped, OnwardFields
  <2> HIDE DEF x
  <2>4. Waits(x)
    BY <2>1, <2>3 DEF Waits, Onward, NoAttemptYet
  <2>5. M!In("preflight", a) # M!In("read_back", "seen")
    BY Inputs
  <2> QED  BY <1>2, <2>1, <2>3, <2>4, <2>5, Inputs, OnwardContinues, SaysNothingNew
           DEF Keeps, Decided, Waits, x
<1>3. ASSUME NEW a \in ReadAnswers, r.todo \in {<<"read_back">>, <<"read_back", "capture">>}
      PROVE  /\ Continues(r, Answered(r, M!In("read_back", a)))
             /\ a # "seen" => Keeps(r, Answered(r, M!In("read_back", a)))
             /\ Answered(r, M!In("read_back", a)).m = r.m
             /\ r.m.outcome = "none"
  <2> DEFINE x == Answered(r, M!In("read_back", a))
  <2>1. Reads(r)
    BY <1>3 DEF Shape, Waits, Asserted, Intended, Strands, Parks, Ends
  <2>2. OnAttempt(r) /\ r.m.at = "awaiting_read_back" /\ r.m.outcome = "none"
    BY <1>3, <2>1 DEF Reads, Shape
  <2>3. Tail(r.todo) \in {<<>>, <<"capture">>} /\ Tail(r.todo) \in Todos
    BY <1>3, Tails DEF Todos
  <2>4. Onward(r, x, Tail(r.todo), M!In("read_back", a))
    BY <1>1, <2>3, InputsTyped, OnwardFields
  <2> HIDE DEF x
  <2>5. Reads(x)
    BY <2>2, <2>3, <2>4 DEF Reads, Onward, OnAttempt
  <2>6. a # "seen" => M!In("read_back", a) # M!In("read_back", "seen")
    BY Inputs
  <2>7. \A t \in {<<>>, <<"capture">>} : t # <<"settle_item">> /\ t # <<"send">>
    OBVIOUS
  <2>8. Continues(r, x)
    <3>1. ~Decided(r)
      BY <1>3 DEF Decided
    <3>2. M!In("read_back", a).attempt = None
      BY Inputs
    <3>3. r.m.at \notin {"preflight_asserted", "intent_recorded"}
      BY <2>2
    <3> DEFINE t == Tail(r.todo)
    <3>4. t # <<"settle_item">> /\ t # <<"send">>
      BY <2>3, <2>7
    <3> HIDE DEF t
    <3> QED  BY <2>4, <2>5, <3>1, <3>2, <3>3, <3>4, OnwardContinues DEF t
  <2>9. a # "seen" => Keeps(r, x)
    BY <2>4, <2>6, <2>8, SaysNothingNew DEF Keeps
  <2>10. x.m = r.m
    BY <2>4 DEF Onward
  <2> QED  BY <2>2, <2>8, <2>9, <2>10 DEF x
<1>4. ASSUME r.todo = <<"reconcile">>
      PROVE  /\ r.m.at = "awaiting_read_back" /\ r.m.op = "create" /\ r.m.attempt \in Attempts
             /\ r.current_attempt \in {None, r.m.attempt}
             /\ \A a \in {"none", "error", "found"} :
                  Onward(r, Answered(r, M!In("reconcile", a)), <<>>, M!In("reconcile", a))
             /\ ~Decided(r)
  <2>1. Reads(r)
    BY <1>4 DEF Shape, Waits, Asserted, Intended, Strands, Parks, Ends
  <2>2. Tail(r.todo) = <<>> /\ Tail(r.todo) \in Todos
    BY <1>4, Tails DEF Todos
  <2>3. /\ r.m.at = "awaiting_read_back" /\ r.m.op = "create" /\ r.m.attempt \in Attempts
        /\ r.current_attempt \in {None, r.m.attempt}
    BY <1>4, <2>1 DEF Reads
  <2>4. \A a \in {"none", "error", "found"} :
                  Onward(r, Answered(r, M!In("reconcile", a)), <<>>, M!In("reconcile", a))
    BY <1>1, <2>2, InputsTyped, OnwardFields
  <2> QED  BY <1>4, <2>3, <2>4 DEF Decided
<1>5. ASSUME NEW a \in {"none", "error"}, r.todo = <<"reconcile">>
      PROVE  Keeps(r, Answered(r, M!In("reconcile", a)))
  <2> DEFINE x == Answered(r, M!In("reconcile", a))
  <2>1. Onward(r, x, <<>>, M!In("reconcile", a))
    BY <1>4, <1>5
  <2> HIDE DEF x
  <2>2. Reads(x)
    BY <1>4, <1>5, <2>1 DEF Reads, Onward
  <2>3. M!In("reconcile", a) # M!In("read_back", "seen")
    BY Inputs
  <2> QED  BY <1>4, <1>5, <2>1, <2>2, <2>3, Inputs, OnwardContinues, SaysNothingNew DEF Keeps, x
<1>6. ASSUME r.todo = <<"reconcile">>
      PROVE  Keeps(r, Owning(Answered(r, M!In("reconcile", "found")), r.m.attempt))
  <2> DEFINE y == Answered(r, M!In("reconcile", "found"))
             x == Owning(y, r.m.attempt)
  <2>1. Onward(r, y, <<>>, M!In("reconcile", "found"))
    BY <1>4, <1>6
  <2>2. y \in Runs
    BY <2>1 DEF Onward
  <2> HIDE DEF y
  <2>3. /\ x \in Runs /\ x.item = r.item /\ x.epoch = r.epoch /\ x.m = r.m /\ x.todo = <<>>
        /\ x.pending = M!In("reconcile", "found") /\ x.current_attempt = r.m.attempt
    BY <1>4, <1>6, <2>1, <2>2, RunFields DEF Onward, Owning
  <2> HIDE DEF x
  <2>4. Reads(x)
    BY <1>4, <1>6, <2>3 DEF Reads, OnAttempt
  <2>5. Shape(x)
    BY <2>3, <2>4 DEF Shape
  <2>6. Own(x) \subseteq Own(r)
    BY <2>3, Inputs DEF Own
  <2>7. ~Unsent(x)
    BY <1>4, <1>6, <2>3 DEF Unsent
  <2>8. SawListing(x) => SawListing(r)
    BY <2>3, Inputs DEF SawListing
  <2> QED  BY <1>4, <1>6, <2>3, <2>5, <2>6, <2>7, <2>8 DEF Keeps, Continues, Decided, x, y
<1>7. /\ \A a \in {"ok", "drift"} : r.todo = <<"assert_form">>
              => Keeps(r, Answered(r, M!In("preflight", a)))
      /\ \A a \in {"none", "error"} : r.todo = <<"reconcile">>
              => Keeps(r, Answered(r, M!In("reconcile", a)))
  BY <1>2, <1>5
<1> QED  BY <1>3, <1>6, <1>7

\* The three steps that add something: an intent is recorded, a write is
\* permitted, a write is sent.
LEMMA IntentOpened ==
  ASSUME NEW r, Shape(r), r.todo = <<"record_intent">>, NEW a \in Attempts
  PROVE  LET x == Owning(Answered(r, M!InOn("intent", a)), a) IN
         /\ Shape(x) /\ x.item = r.item /\ x.epoch = r.epoch /\ x.current_attempt = a
         /\ Own(x) = {a} /\ ~Decided(x) /\ x.todo # <<"send">>
         /\ ~SawListing(x)
<1> DEFINE y == Answered(r, M!InOn("intent", a))
           x == Owning(y, a)
<1>1. r \in Runs /\ Asserted(r)
  BY DEF Shape, Waits, Intended, Strands, Reads, Parks, Ends
<1>2. Tail(r.todo) = <<>> /\ Tail(r.todo) \in Todos
  BY Tails DEF Todos
<1>3. Onward(r, y, <<>>, M!InOn("intent", a))
  BY <1>1, <1>2, InputsTyped, OnwardFields
<1>4. y \in Runs
  BY <1>3 DEF Onward
<1> HIDE DEF y
<1>5. /\ x \in Runs /\ x.item = r.item /\ x.epoch = r.epoch /\ x.m = r.m /\ x.todo = <<>>
      /\ x.pending = M!InOn("intent", a) /\ x.current_attempt = a
  BY <1>3, <1>4, RunFields DEF Onward, Owning
<1> HIDE DEF x
<1>6. r.m.at = "preflight_asserted" /\ r.m.attempt = None /\ r.m.outcome = "none"
  BY <1>1 DEF Asserted, NoAttemptYet, Shape
<1>7. Asserted(x)
  BY <1>5, <1>6 DEF Asserted, NoAttemptYet
<1>8. Shape(x)
  BY <1>5, <1>7 DEF Shape
<1>9. Own(x) = {a}
  BY <1>5, <1>6, Inputs, NoneAssumption DEF Own
<1>10. ~SawListing(x)
  BY <1>5, <1>6, Inputs DEF SawListing
<1> QED  BY <1>5, <1>8, <1>9, <1>10 DEF Decided, x, y

LEMMA WritePermitted ==
  ASSUME NEW r, Shape(r), NEW w \in M!Writes, r.todo = <<w>>
  PROVE  LET x == [r EXCEPT !.todo[1] = "send"] IN
         /\ Shape(x) /\ Onward(r, x, <<"send">>, r.pending) /\ Own(x) = Own(r)
         /\ SawListing(x) => SawListing(r)
         /\ Unsent(r) /\ OnAttempt(r)
<1> DEFINE x == [r EXCEPT !.todo[1] = "send"]
<1>1. /\ r.m.at = "intent_recorded" /\ OnAttempt(r) /\ r.pending = NoInput /\ r \in Runs
  BY AboutToWrite DEF Shape
<1>2. x = [r EXCEPT !.todo = <<"send">>]
  <2>1. [r.todo EXCEPT ![1] = "send"] = <<"send">>
    OBVIOUS
  <2> QED  BY <1>1, <2>1 DEF Runs
<1>3. Onward(r, x, <<"send">>, r.pending)
  BY <1>1, <1>2, OnwardFields DEF Todos
<1> HIDE DEF x
<1>4. Intended(x)
  BY <1>1, <1>3 DEF Intended, OnAttempt, Onward
<1>5. Shape(x)
  BY <1>3, <1>4 DEF Shape, Onward
<1>6. Own(x) = Own(r)
  BY <1>3 DEF Own, Onward
<1>7. Unsent(r)
  BY <1>1 DEF Unsent
<1> QED  BY <1>1, <1>3, <1>5, <1>6, <1>7, SaysNothingNew DEF x

LEMMA WriteSent ==
  ASSUME NEW r, Shape(r), r.todo = <<"send">>, NEW a \in SubmitAnswers, NEW b \in BOOLEAN
  PROVE  LET x == [Answered(r, M!In("submit", a)) EXCEPT !.blocked_mid_write = b] IN
         /\ Shape(x) /\ Onward(r, x, <<>>, M!In("submit", a)) /\ Own(x) \subseteq Own(r)
         /\ ~SawListing(x) /\ Unsent(r) /\ OnAttempt(r)
         /\ Unsent(x) => a \notin LateAnswers \cup {"landed"}
<1> DEFINE y == Answered(r, M!In("submit", a))
           x == [y EXCEPT !.blocked_mid_write = b]
<1>1. /\ r.m.at = "intent_recorded" /\ OnAttempt(r) /\ r.pending = NoInput /\ r \in Runs
      /\ r.m.outcome = "none"
  BY AboutToWrite DEF Shape
<1>2. Tail(r.todo) = <<>> /\ Tail(r.todo) \in Todos
  BY Tails DEF Todos
<1>3. Onward(r, y, <<>>, M!In("submit", a))
  BY <1>1, <1>2, InputsTyped, OnwardFields
<1>4. y \in Runs
  BY <1>3 DEF Onward
<1> HIDE DEF y
<1>5. Onward(r, x, <<>>, M!In("submit", a))
  BY <1>3, <1>4, RunFields DEF Onward
<1> HIDE DEF x
<1>6. Intended(x)
  BY <1>1, <1>5 DEF Intended, OnAttempt, Onward
<1>7. Shape(x)
  BY <1>5, <1>6 DEF Shape, Onward
<1>8. Own(x) \subseteq Own(r)
  BY <1>5, Inputs DEF Own, Onward
<1>9. ~SawListing(x)
  BY <1>1, <1>5, Inputs DEF SawListing, Onward
<1>10. Unsent(r)
  BY <1>1 DEF Unsent
<1>11. Unsent(x) => a \notin LateAnswers \cup {"landed"}
  BY <1>1, <1>5, Inputs DEF Unsent, Onward
<1> QED  BY <1>1, <1>5, <1>7, <1>8, <1>9, <1>10, <1>11 DEF x, y

-----------------------------------------------------------------------------
(* What the steps of the ledger do to a row, those of a claim and of a     *)
(* holder's park or success left out.                                      *)

Asked(i, e) ==
  Op[i] = "create" /\ \E a \in Attempts : /\ attempt[a].item = i /\ attempt[a].epoch = e
                                          /\ attempt[a].state = "in_flight"

RowMoves(i, x) ==
  LET r == item[i] IN
  \/ x = r
  \/ Leased(r) /\ Leased(x) /\ x.owner = r.owner /\ x.epoch = r.epoch
  \/ x.state = "queued"
  \/ x.state = "settled" /\ x.outcome # "succeeded"
  \/ /\ r.state = "parked_live" /\ x.state = "parked_live" /\ x.epoch = r.epoch
     /\ \/ x.gate = r.gate
        \/ r.gate = "ReauthRequired" /\ Op[i] = "create" /\ x.gate = "awaiting_seller_signin"
  \/ /\ x.state = "parked_live" /\ x.gate = "awaiting_marketplace_answer"
     /\ Asked(i, x.epoch) \/ deletion'[JobOf[i]] # "none"

LEMMA RowForms ==
  ASSUME NEW r, Row(r)
  PROVE  /\ Requeued(r).state = "queued" /\ ChargedBack(r).state = "queued"
         /\ Charged(Requeued(r)).state = "queued"
         /\ \A o : Settled(r, o).state = "settled" /\ Settled(r, o).outcome = o
         /\ \A o : Bumped(Settled(r, o)).state = "settled" /\ Bumped(Settled(r, o)).outcome = o
         /\ \A g, p : LET x == Parked(r, g, p) IN
              x.state = "parked_live" /\ x.gate = g /\ x.epoch = r.epoch
  BY DEF Row, Rows, Requeued, Settled, Parked, Freed, Bumped, Charged, ChargedBack

LEMMA FenceMoves ==
  ASSUME TypeOK, NEW it, Ledger(it), NEW j \in Jobs, NEW i \in Items,
         fence_and_classify(it, attempt, j) \/ reconcile_job_deletion(it, attempt, j)
  PROVE  \/ item'[i] = it[i]
         \/ item'[i].state = "settled" /\ item'[i].outcome = "cancelled"
         \/ /\ item'[i].state = "parked_live"
            /\ item'[i].gate = "awaiting_marketplace_answer" /\ deletion'[JobOf[i]] # "none"
<1> DEFINE p == park_stopped_writes(it, attempt, j)
<1>1. Row(it[i])
  BY LedgerRows
<1>2. CASE fence_and_classify(it, attempt, j)
  <2>1. item' = Fenced(it, attempt, j)
    BY <1>2 DEF fence_and_classify
  <2>2. deletion'[j] # "none"
    BY <1>2 DEF fence_and_classify, classify_deletion, TypeOK
  <2>3. \/ p[i] = it[i]
        \/ p[i] = Parked(it[i], "awaiting_marketplace_answer", "none") /\ JobOf[i] = j
    BY DEF park_stopped_writes, ItemsOf
  <2>4. Ledger(p)
    BY ParkedStopped
  <2> HIDE DEF p
  <2>5. Row(p[i])
    BY <2>4, LedgerRows
  <2>6. Fenced(it, attempt, j)[i] \in {p[i], Bumped(Settled(p[i], "cancelled"))}
    BY DEF Fenced, cancel_unstarted_items, p
  <2> QED  BY <1>1, <2>1, <2>2, <2>3, <2>5, <2>6, RowForms
<1>3. CASE ~DeletionRequested(j) /\ item' = it
  BY <1>3
<1> QED  BY <1>2, <1>3 DEF reconcile_job_deletion

LEMMA FencedMoves ==
  ASSUME TypeOK, NEW it, Ledger(it), NEW j \in Jobs, NEW i \in Items, RowMoves(i, it[i]),
         fence_and_classify(it, attempt, j) \/ reconcile_job_deletion(it, attempt, j)
  PROVE  RowMoves(i, item'[i])
<1>1. \/ item'[i] = it[i]
      \/ item'[i].state = "settled" /\ item'[i].outcome = "cancelled"
      \/ /\ item'[i].state = "parked_live"
         /\ item'[i].gate = "awaiting_marketplace_answer" /\ deletion'[JobOf[i]] # "none"
  BY FenceMoves
<1>2. CASE item'[i] = it[i]
  BY <1>2
<1>3. CASE item'[i] # it[i]
  BY <1>1, <1>3 DEF RowMoves
<1> QED  BY <1>2, <1>3

LEMMA ChargeMoves ==
  ASSUME TypeOK, NEW it, Ledger(it), NEW k \in Items, charge_and_requeue(it, k),
         it[k].state # "settled", NEW i \in Items, i # k => it[i] = item[i]
  PROVE  RowMoves(i, item'[i])
<1> DEFINE r == IF attempt_budget_spent(it[k]) THEN Bumped(Settled(it[k], "failed"))
                                               ELSE ChargedBack(it[k])
           new == [it EXCEPT ![k] = r]
<1>1. Row(it[k]) /\ it \in [Items -> Rows] /\ JobOf[k] \in Jobs
  BY LedgerRows, ItemsAssumption DEF Ledger
<1>2. reconcile_job_deletion(new, attempt, JobOf[k])
  BY DEF charge_and_requeue
<1>3. r.state = "queued" \/ (r.state = "settled" /\ r.outcome = "failed")
  BY <1>1, RowForms
<1>4. Row(r)
  <2>1. attempt_budget_spent(it[k]) => Row(Bumped(Settled(it[k], "failed")))
    BY <1>1, SettledRow, BumpedRow DEF LedgerOutcomes
  <2>2. ~attempt_budget_spent(it[k]) => Row(ChargedBack(it[k]))
    BY <1>1, ChargedBackRow
  <2> QED  BY <2>1, <2>2
<1> HIDE DEF r
<1>5. Ledger(new)
  BY <1>4, LedgerWith
<1>6. new[i] = IF i = k THEN r ELSE item[i]
  BY <1>1
<1> HIDE DEF new
<1>7. RowMoves(i, new[i])
  BY <1>3, <1>6 DEF RowMoves
<1> QED  BY <1>1, <1>2, <1>5, <1>7, FencedMoves

LEMMA HolderMoves ==
  ASSUME TypeOK, NEW k \in Items, NEW i \in Items
  PROVE  /\ renew(k) => RowMoves(i, item'[i])
         /\ hand_back(k) => RowMoves(i, item'[i])
         /\ \A d \in Devices : claim_refused(d, k) => RowMoves(i, item'[i])
         /\ \A o \in Outcomes : settle(k, o) => RowMoves(i, item'[i])
              \/ (i = k /\ o = "succeeded" /\ item'[i] = Settled(item[i], o))
<1>1. Ledger(item) /\ Row(item[k]) /\ Row(item[i]) /\ JobOf[k] \in Jobs /\ item \in [Items -> Rows]
  BY TypedLedger, LedgerRows, ItemsAssumption DEF Ledger
<1>2. ASSUME renew(k) PROVE RowMoves(i, item'[i])
  <2>1. item'[i] = item[i] \/ (i = k /\ item'[i] = [item[k] EXCEPT !.lapsed = FALSE])
    BY <1>1, <1>2 DEF renew
  <2>2. Leased(item[k])
    BY <1>2 DEF renew, Lapsed, Leased
  <2> QED  BY <1>1, <2>1, <2>2 DEF RowMoves, Leased, Row, Rows
<1>3. ASSUME hand_back(k) PROVE RowMoves(i, item'[i])
  <2>1. CASE Leased(item[k]) /\ ~StrandedCreate(k) /\ charge_and_requeue(item, k)
    BY <1>1, <2>1, ChargeMoves DEF Leased
  <2>2. CASE /\ Leased(item[k]) /\ StrandedCreate(k)
             /\ item' = [item EXCEPT ![k] = Parked(@, "awaiting_marketplace_answer", "none")]
    <3>1. \/ item'[i] = item[i]
          \/ i = k /\ item'[i] = Parked(item[k], "awaiting_marketplace_answer", "none")
      BY <1>1, <2>2
    <3>2. Asked(k, item[k].epoch)
      BY <2>2 DEF StrandedCreate, HoldsNow, Asked
    <3> QED  BY <1>1, <3>1, <3>2, RowForms DEF RowMoves
  <2> QED  BY <1>3, <2>1, <2>2 DEF hand_back
<1>4. ASSUME NEW d \in Devices, claim_refused(d, k) PROVE RowMoves(i, item'[i])
  <2>1. Claimable(k) /\ charge_and_requeue(Claimed(d, k), k)
    BY <1>4 DEF claim_refused
  <2>2. Ledger(Claimed(d, k)) /\ Claimed(d, k)[k].state = "leased"
    BY <2>1, ClaimedTyped
  <2>3. i # k => Claimed(d, k)[i] = item[i]
    BY <1>1 DEF Claimed
  <2> QED  BY <2>1, <2>2, <2>3, ChargeMoves
<1>5. ASSUME NEW o \in Outcomes, settle(k, o)
      PROVE  \/ RowMoves(i, item'[i])
             \/ i = k /\ o = "succeeded" /\ item'[i] = Settled(item[i], o)
  <2> DEFINE new == [item EXCEPT ![k] = Settled(item[k], o)]
  <2>1. Row(Settled(item[k], o)) /\ o # "cancelled"
    BY <1>1, SettledRow, HolderAssumption DEF LedgerOutcomes
  <2>2. Ledger(new)
    BY <1>1, <2>1, LedgerWith
  <2>3. reconcile_job_deletion(new, attempt, JobOf[k])
    BY <1>5 DEF settle
  <2>4. new[i] = IF i = k THEN Settled(item[k], o) ELSE item[i]
    BY <1>1
  <2>5. Settled(item[k], o).outcome = o /\ Settled(item[k], o).state = "settled"
    BY <1>1, RowForms
  <2> HIDE DEF new
  <2>6. CASE i # k \/ o # "succeeded"
    <3>1. RowMoves(i, new[i])
      BY <2>4, <2>5, <2>6 DEF RowMoves
    <3> QED  BY <1>1, <2>2, <2>3, <3>1, FencedMoves
  <2>7. CASE i = k /\ o = "succeeded"
    <3>1. item'[i] = new[i]
      <4>1. new[i].state = "settled"
        BY <2>4, <2>5, <2>7
      <4> QED  BY <2>2, <2>3, <4>1, FenceKeepsSettled DEF reconcile_job_deletion, fence_and_classify
    <3> QED  BY <2>4, <2>5, <2>7, <3>1
  <2> QED  BY <2>6, <2>7
<1> QED  BY <1>2, <1>3, <1>4, <1>5

LEMMA RevivedMoves ==
  ASSUME TypeOK, NEW g, NEW ms, item' = Revived(g, ms), NEW i \in Items
  PROVE  RowMoves(i, item'[i])
<1>1. Row(item[i])
  BY TypedLedger, LedgerRows
<1>2. item'[i] = item[i] \/ item'[i] = Requeued(item[i])
  BY DEF Revived
<1> QED  BY <1>1, <1>2, RowForms DEF RowMoves

LEMMA ReaperMoves ==
  ASSUME TypeOK, Reaper, NEW i \in Items
  PROVE  RowMoves(i, item'[i])
<1>1. Row(item[i])
  BY TypedLedger, LedgerRows
<1>2. CASE expire_park
  <2>1. \/ item'[i] = item[i]
        \/ /\ item'[i] = Parked(item[i], "awaiting_marketplace_answer", "none")
           /\ StrandedCreate(i)
    BY <1>2 DEF expire_park
  <2>2. StrandedCreate(i) => Asked(i, item[i].epoch)
    BY DEF StrandedCreate, HoldsNow, Asked
  <2> QED  BY <1>1, <2>1, <2>2, RowForms DEF RowMoves
<1>3. CASE expire_steal
  <2>1. \/ item'[i] = item[i] \/ item'[i] = Bumped(Settled(item[i], "failed"))
        \/ item'[i] = ChargedBack(item[i])
    BY <1>3 DEF expire_steal
  <2> QED  BY <1>1, <2>1, RowForms DEF RowMoves
<1>4. CASE revive_expired
  <2>1. item'[i] = Revival(i)
    BY <1>4 DEF revive_expired
  <2> DEFINE x == [item[i] EXCEPT !.gate = "awaiting_seller_signin", !.park = "none"]
  <2>2. \/ Revival(i) = item[i]
        \/ Revival(i) = Settled(item[i], "skipped")
        \/ Revival(i) = Charged(Requeued(item[i]))
        \/ ReGated(i) /\ Revival(i) = x
    BY DEF Revival
  <2>3. /\ x.state = item[i].state /\ x.epoch = item[i].epoch
        /\ x.gate = "awaiting_seller_signin"
    BY <1>1 DEF Row, Rows
  <2> HIDE DEF x
  <2>4. ReGated(i) /\ Revival(i) = x => RowMoves(i, item'[i])
    BY <2>1, <2>3 DEF ReGated, RowMoves
  <2>5. Revival(i) = Settled(item[i], "skipped") => RowMoves(i, item'[i])
    BY <1>1, <2>1, RowForms DEF RowMoves
  <2>6. Revival(i) = Charged(Requeued(item[i])) => RowMoves(i, item'[i])
    BY <1>1, <2>1, RowForms DEF RowMoves
  <2>7. Revival(i) = item[i] => RowMoves(i, item'[i])
    BY <2>1 DEF RowMoves
  <2> QED  BY <2>2, <2>4, <2>5, <2>6, <2>7
<1> QED  BY <1>2, <1>3, <1>4 DEF Reaper

\* What happens to the ledger while no run calls it.
LEMMA EnvironmentMoves ==
  ASSUME TypeOK, SellerStep \/ Reaper \/ Sweep \/ Clock \/ \E h \in Halts : OperatorLiftsHalt(h),
         NEW i \in Items
  PROVE  RowMoves(i, item'[i])
<1>1. Row(item[i]) /\ Ledger(item)
  BY TypedLedger, LedgerRows
<1>2. UNCHANGED item => RowMoves(i, item'[i])
  BY DEF RowMoves
<1>3. ASSUME NEW j \in Jobs, delete(j) \/ finalise_deletion(j) PROVE RowMoves(i, item'[i])
  <2>1. fence_and_classify(item, attempt, j)
    BY <1>3 DEF delete, finalise_deletion
  <2>2. RowMoves(i, item[i])
    BY DEF RowMoves
  <2> QED  BY <1>1, <2>1, <2>2, FencedMoves
<1>4. SellerStep \/ Sweep => RowMoves(i, item'[i])
  BY <1>2, <1>3, RevivedMoves DEF SellerStep, Sweep, seller_answers, Relink, bind_pasted
<1>5. Clock => RowMoves(i, item'[i])
  <2>1. ASSUME NEW k \in Items, LeaseLapses(k) PROVE RowMoves(i, item'[i])
    <3>1. item'[i] = item[i] \/ (Leased(item[i]) /\ item'[i] = [item[i] EXCEPT !.lapsed = TRUE])
      BY <2>1 DEF LeaseLapses, TypeOK
    <3> QED  BY <1>1, <3>1 DEF RowMoves, Leased, Row, Rows
  <2>2. ASSUME NEW k \in Items, ParkFallsDue(k) PROVE RowMoves(i, item'[i])
    <3>1. \/ item'[i] = item[i]
          \/ item[i].state = "parked_live" /\ item'[i] = [item[i] EXCEPT !.park = "due"]
      BY <2>2 DEF ParkFallsDue, TypeOK
    <3> QED  BY <1>1, <3>1 DEF RowMoves, Row, Rows
  <2> QED  BY <2>1, <2>2 DEF Clock
<1>6. (\E h \in Halts : OperatorLiftsHalt(h)) => RowMoves(i, item'[i])
  BY <1>2 DEF OperatorLiftsHalt
<1> QED  BY <1>4, <1>5, <1>6, ReaperMoves

-----------------------------------------------------------------------------
(* The kinds of step a device takes with a run in hand.                    *)

RowsMove == \A i \in Items : RowMoves(i, item'[i])
GoesOn(d) == \E x : Becomes(d, x) /\ (x = None \/ Keeps(run[d], x))

Plain(d) == UNCHANGED <<attempt, binding, landed>> /\ RowsMove /\ GoesOn(d)

Parking(d) ==
  /\ Held(d) /\ UNCHANGED landed /\ GoesOn(d)
  /\ \E g \in PreparationGates \cup {"ReauthRequired"} :
       park(run[d].item, g) /\ (g = "ReauthRequired" => Parks(run[d]))

Opening(d) ==
  /\ Held(d) /\ UNCHANGED landed /\ run[d].todo = <<"record_intent">>
  /\ \E a \in Attempts :
       /\ open_attempt(run[d].item, a)
       /\ Then(d, Owning(Answered(run[d], M!InOn("intent", a)), a))

Permitting(d) ==
  /\ Held(d) /\ UNCHANGED <<attempt, binding, landed>> /\ RowsMove
  /\ \E w \in M!Writes : run[d].todo = <<w>>
  /\ Becomes(d, [run[d] EXCEPT !.todo[1] = "send"])

Sending(d) ==
  /\ UNCHANGED vars /\ run[d].todo = <<"send">>
  /\ \E a \in SubmitAnswers, b \in BOOLEAN :
       /\ Becomes(d, [Answered(run[d], M!In("submit", a)) EXCEPT !.blocked_mid_write = b])
       /\ \/ landed' = landed \cup {run[d].m.attempt} /\ a \in LateAnswers \cup {"landed"}
          \/ landed' = landed

Seeing(d) ==
  /\ UNCHANGED <<attempt, binding, landed>> /\ RowsMove
  /\ run[d].todo \in {<<"read_back">>, <<"read_back", "capture">>}
  /\ Op[run[d].item] = "create" => Listings(MappingOf[run[d].item]) # {}
  /\ Becomes(d, Answered(run[d], M!In("read_back", "seen")))

Settling(d) ==
  LET r == run[d] IN
  /\ Held(d) /\ UNCHANGED landed /\ r.current_attempt \in Attempts /\ ~Decided(r)
  /\ \E v \in Verdicts, landing \in {"none", "landed", "refused", "severed"} :
       /\ settle_attempt(r.current_attempt, v, landing)
       /\ landing = "refused" => binding[MappingOf[r.item]] # "unbound"
       /\ v = "abandoned" \/ (v = "failed" /\ Op[r.item] = "create")
            => (TruthfulDenials => Unsent(r))
       /\ \/ Becomes(d, Abandoned(r))
          \/ /\ Becomes(d, [r EXCEPT !.todo = <<"settle_item">>])
             /\ Ends(r) /\ v = outcome_to_attempt_state(r.m.outcome)

Finishing(d) ==
  LET r == run[d] IN
  /\ Held(d) /\ UNCHANGED landed /\ Decided(r) /\ r.m.outcome = "committed"
  /\ settle(r.item, "succeeded") /\ Becomes(d, None)

Turn(d) == \/ Plain(d) \/ Parking(d) \/ Opening(d) \/ Permitting(d) \/ Sending(d)
           \/ Seeing(d) \/ Settling(d) \/ Finishing(d)

\* A call to the ledger whose answer arrives or is lost.
LEMMA ThenGoesOn ==
  ASSUME NEW d \in Devices, Shape(run[d]), NEW x, Keeps(run[d], x), Then(d, x)
  PROVE  GoesOn(d)
<1>1. Keeps(run[d], Abandoned(run[d]))
  BY AbandonedKeeps DEF Shape
<1> QED  BY <1>1 DEF Then, GoesOn

LEMMA PlainCalls ==
  ASSUME TypeOK, NEW k \in Items
  PROVE  /\ UNCHANGED vars => UNCHANGED <<attempt, binding>> /\ RowsMove
         /\ Renewed(k) => UNCHANGED <<attempt, binding>> /\ RowsMove
         /\ hand_back(k) => UNCHANGED <<attempt, binding>> /\ RowsMove
         /\ \A o \in Outcomes : settle(k, o) => UNCHANGED <<attempt, binding>>
         /\ \A o \in Outcomes \ {"succeeded"} : settle(k, o) => RowsMove
         /\ gate_connection => UNCHANGED <<attempt, binding>> /\ RowsMove
         /\ \A h \in Halts : raise_org_inventory(h) => UNCHANGED <<attempt, binding>> /\ RowsMove
<1>1. UNCHANGED item => RowsMove
  BY DEF RowsMove, RowMoves
<1>2. UNCHANGED vars => UNCHANGED <<attempt, binding>> /\ RowsMove
  BY <1>1 DEF vars
<1>3. renew(k) => UNCHANGED <<attempt, binding>> /\ RowsMove
  BY HolderMoves DEF renew, RowsMove
<1>4. hand_back(k) => UNCHANGED <<attempt, binding>> /\ RowsMove
  BY HolderMoves DEF hand_back, charge_and_requeue, RowsMove
<1>5. \A o \in Outcomes : settle(k, o) => UNCHANGED <<attempt, binding>>
  BY DEF settle
<1>6. \A o \in Outcomes \ {"succeeded"} : settle(k, o) => RowsMove
  BY HolderMoves DEF RowsMove
<1>7. gate_connection => UNCHANGED <<attempt, binding>> /\ RowsMove
  BY <1>1 DEF gate_connection
<1>8. \A h \in Halts : raise_org_inventory(h) => UNCHANGED <<attempt, binding>> /\ RowsMove
  BY <1>1 DEF raise_org_inventory
<1> QED  BY <1>2, <1>3, <1>4, <1>5, <1>6, <1>7, <1>8 DEF Renewed

LEMMA HeadTodo ==
  ASSUME NEW d \in Devices, run[d] # None => Shape(run[d]), NEW s, At(d, s)
  PROVE  /\ Shape(run[d]) /\ run[d] \in Runs /\ run[d].item \in Items
         /\ run[d].todo \in Todos /\ run[d].todo # <<>> /\ Head(run[d].todo) = s
         /\ run[d] # None
<1>1. Shape(run[d]) /\ run[d].todo # <<>> /\ Head(run[d].todo) = s /\ run[d] # None
  BY DEF At
<1> QED  BY <1>1, ShapeTodo DEF Shape, Runs

LEMMA PreparingTurns ==
  ASSUME TypeOK, NEW d \in Devices, run[d] # None => Shape(run[d]), Prepare(d) \/ Start(d)
  PROVE  Turn(d)
<1>1. ASSUME Prepare(d) PROVE Turn(d)
  <2>1. Shape(run[d]) /\ run[d].item \in Items /\ run[d] \in Runs /\ run[d].todo = <<"prepare">>
    BY <1>1, HeadTodo, Heads DEF Prepare
  <2>2. ASSUME Becomes(d, [run[d] EXCEPT !.todo = <<"start">>]), UNCHANGED vars
        PROVE  Turn(d)
    <3>1. Onward(run[d], [run[d] EXCEPT !.todo = <<"start">>], <<"start">>, run[d].pending)
      <4>1. run[d].pending \in M!Inputs \cup {NoInput}
        BY <2>1 DEF Runs
      <4> QED  BY <2>1, <4>1, OnwardFields DEF Todos
    <3>2. Keeps(run[d], [run[d] EXCEPT !.todo = <<"start">>])
      BY <2>1, <3>1, TaskDone
    <3> QED  BY <1>1, <2>1, <2>2, <3>2, PlainCalls DEF Prepare, Turn, Plain, GoesOn
  <2>3. ASSUME NEW g \in Refusals(run[d].item), Held(d), park(run[d].item, g), Becomes(d, None)
        PROVE  Turn(d)
    <3>1. g \in PreparationGates /\ g \in ParkGates
      BY RefusalGates DEF Refusals, PreparationGates
    <3> QED  BY <1>1, <2>3, <3>1 DEF Prepare, Turn, Parking, GoesOn, PreparationGates
  <2> QED  BY <1>1, <2>2, <2>3 DEF Prepare
<1>2. ASSUME Start(d) PROVE Turn(d)
  <2>1. Shape(run[d]) /\ run[d].item \in Items /\ run[d].todo = <<"start">>
    BY <1>2, HeadTodo, Heads DEF Start
  <2> DEFINE T == IF run[d].pending = NoInput THEN M!entry_row(run[d].m)
                  ELSE M!step(run[d].m, run[d].pending)
  <2>2. \A t \in T : Moved(run[d], t)
    BY <2>1, StartFits
  <2>3. Follow(d, run[d], T) /\ UNCHANGED vars /\ UNCHANGED landed
    BY <1>2 DEF Start
  <2> HIDE DEF T
  <2>4. ~Decided(run[d])
    BY <2>1 DEF Decided
  <2>5. GoesOn(d)
    BY <2>1, <2>2, <2>3, <2>4, FollowKeeps DEF GoesOn
  <2> QED  BY <2>1, <2>3, <2>5, PlainCalls DEF Turn, Plain
<1> QED  BY <1>1, <1>2

LEMMA PassedKeeps ==
  ASSUME NEW r, Shape(r), r.todo # <<>>,
         Head(r.todo) \in {"park", "requeue", "capture", "notify", "halt"}
  PROVE  Keeps(r, Passed(r))
<1>1. r \in Runs /\ r.pending \in M!Inputs \cup {NoInput}
  BY DEF Shape, Runs
<1>2. Tail(r.todo) \in Todos => Onward(r, Passed(r), Tail(r.todo), r.pending)
  BY <1>1, OnwardFields
<1> QED  BY <1>2, TaskPassed

LEMMA WritingTurns ==
  ASSUME TypeOK, NEW d \in Devices, run[d] # None => Shape(run[d]),
         AssertForm(d) \/ RecordIntent(d) \/ Permit(d) \/ Send(d)
  PROVE  Turn(d)
<1>1. ASSUME AssertForm(d) PROVE Turn(d)
  <2>1. Shape(run[d]) /\ run[d].item \in Items /\ run[d] \in Runs /\ run[d].todo = <<"assert_form">>
    BY <1>1, HeadTodo, Heads DEF AssertForm
  <2>2. UNCHANGED <<attempt, binding, landed>> /\ RowsMove
    BY <1>1, <2>1, PlainCalls DEF AssertForm
  <2>3. ASSUME NEW a \in {"ok", "drift"}, Then(d, Answered(run[d], M!In("preflight", a)))
        PROVE  GoesOn(d)
    BY <2>1, <2>3, TaskAnswered, ThenGoesOn
  <2>4. ASSUME NEW t \in {<<"requeue", "settle_blocked">>, <<"settle_blocked">>},
               Then(d, [run[d] EXCEPT !.todo = t])
        PROVE  GoesOn(d)
    <3>1. t \in Todos /\ run[d].pending \in M!Inputs \cup {NoInput}
      BY <2>1 DEF Todos, Runs
    <3>2. Onward(run[d], [run[d] EXCEPT !.todo = t], t, run[d].pending)
      BY <2>1, <3>1, OnwardFields
    <3>3. Keeps(run[d], [run[d] EXCEPT !.todo = t])
      BY <2>1, <3>2, TaskDone
    <3> QED  BY <2>1, <2>4, <3>3, ThenGoesOn
  <2>5. GoesOn(d)
    BY <1>1, <2>3, <2>4 DEF AssertForm
  <2> QED  BY <2>2, <2>5 DEF Turn, Plain
<1>2. ASSUME RecordIntent(d) PROVE Turn(d)
  <2>1. /\ Shape(run[d]) /\ run[d].item \in Items /\ run[d] \in Runs
        /\ run[d].todo = <<"record_intent">>
    BY <1>2, HeadTodo, Heads DEF RecordIntent
  <2>2. ASSUME NEW a \in Attempts, open_attempt(run[d].item, a),
               Then(d, Owning(Answered(run[d], M!InOn("intent", a)), a))
        PROVE  Turn(d)
    BY <1>2, <2>1, <2>2 DEF RecordIntent, Turn, Opening
  <2>3. ASSUME Becomes(d, [run[d] EXCEPT !.todo = <<"settle_skipped">>]), UNCHANGED vars
        PROVE  Turn(d)
    <3>1. <<"settle_skipped">> \in Todos /\ run[d].pending \in M!Inputs \cup {NoInput}
      BY <2>1 DEF Todos, Runs
    <3>2. Onward(run[d], [run[d] EXCEPT !.todo = <<"settle_skipped">>], <<"settle_skipped">>,
                 run[d].pending)
      BY <2>1, <3>1, OnwardFields
    <3>3. Keeps(run[d], [run[d] EXCEPT !.todo = <<"settle_skipped">>])
      BY <2>1, <3>2, TaskDone
    <3>4. UNCHANGED <<attempt, binding, landed>> /\ RowsMove
      BY <1>2, <2>1, <2>3, PlainCalls DEF RecordIntent
    <3> QED  BY <2>3, <3>3, <3>4 DEF Turn, Plain, GoesOn
  <2> QED  BY <1>2, <2>2, <2>3 DEF RecordIntent
<1>3. ASSUME Permit(d) PROVE Turn(d)
  <2>1. /\ Shape(run[d]) /\ run[d].item \in Items /\ run[d] \in Runs /\ Held(d)
        /\ run[d].todo \in {<<"submit">>, <<"revise">>, <<"remove">>}
        /\ UNCHANGED landed
    BY <1>3, ShapeTodo, Heads DEF Permit, Shape, Runs
  <2>2. PICK w \in M!Writes : run[d].todo = <<w>>
    BY <2>1 DEF M!Writes
  <2>3. ASSUME Renewed(run[d].item), Then(d, [run[d] EXCEPT !.todo[1] = "send"])
        PROVE  Turn(d)
    <3>1. UNCHANGED <<attempt, binding>> /\ RowsMove
      BY <2>1, <2>3, PlainCalls
    <3>2. CASE Becomes(d, [run[d] EXCEPT !.todo[1] = "send"])
      BY <2>1, <2>2, <3>1, <3>2 DEF Turn, Permitting
    <3>3. CASE Becomes(d, Abandoned(run[d]))
      <4>1. GoesOn(d)
        BY <2>1, <3>3, AbandonedKeeps DEF GoesOn
      <4> QED  BY <2>1, <3>1, <4>1 DEF Turn, Plain
    <3> QED  BY <2>3, <3>2, <3>3 DEF Then
  <2>4. ASSUME Becomes(d, [run[d] EXCEPT !.todo = <<"settle_unsent", "hand_back">>]), UNCHANGED vars
        PROVE  Turn(d)
    <3>1. <<"settle_unsent", "hand_back">> \in Todos /\ run[d].pending \in M!Inputs \cup {NoInput}
      BY <2>1 DEF Todos, Runs
    <3>2. Onward(run[d], [run[d] EXCEPT !.todo = <<"settle_unsent", "hand_back">>],
                 <<"settle_unsent", "hand_back">>, run[d].pending)
      BY <2>1, <3>1, OnwardFields
    <3>3. Keeps(run[d], [run[d] EXCEPT !.todo = <<"settle_unsent", "hand_back">>])
      BY <2>1, <2>2, <3>2, TaskRefused
    <3>4. UNCHANGED <<attempt, binding, landed>> /\ RowsMove
      BY <2>1, <2>4, PlainCalls
    <3> QED  BY <2>4, <3>3, <3>4 DEF Turn, Plain, GoesOn
  <2> QED  BY <1>3, <2>3, <2>4 DEF Permit
<1>4. ASSUME Send(d) PROVE Turn(d)
  <2>1. Shape(run[d]) /\ run[d].todo = <<"send">>
    BY <1>4, HeadTodo, Heads DEF Send
  <2>2. PICK a \in SubmitAnswers, b \in BOOLEAN :
          /\ Becomes(d, [Answered(run[d], M!In("submit", a)) EXCEPT !.blocked_mid_write = b])
          /\ \/ landed' = landed \cup {run[d].m.attempt} /\ a \in LateAnswers \cup {"landed"}
             \/ landed' = landed
    BY <1>4 DEF Send, SubmitAnswers
  <2>3. UNCHANGED vars
    BY <1>4 DEF Send
  <2> QED  BY <2>1, <2>2, <2>3 DEF Turn, Sending
<1> QED  BY <1>1, <1>2, <1>3, <1>4

LEMMA ReadingTurns ==
  ASSUME TypeOK, NEW d \in Devices, run[d] # None => Shape(run[d]),
         ReadBack(d) \/ Reconcile(d)
  PROVE  Turn(d)
<1>1. ASSUME ReadBack(d) PROVE Turn(d)
  <2>1. /\ Shape(run[d]) /\ run[d].item \in Items /\ run[d] \in Runs
        /\ run[d].todo \in {<<"read_back">>, <<"read_back", "capture">>}
    BY <1>1, HeadTodo, Heads DEF ReadBack
  <2>2. UNCHANGED <<attempt, binding, landed>> /\ RowsMove
    BY <1>1, <2>1, PlainCalls DEF ReadBack
  <2>3. ASSUME NEW a \in {"unproved", "ambiguous"},
               Then(d, Answered(run[d], M!In("read_back", a)))
        PROVE  Turn(d)
    <3>1. GoesOn(d)
      BY <2>1, <2>3, TaskAnswered, ThenGoesOn DEF ReadAnswers
    <3> QED  BY <2>2, <3>1 DEF Turn, Plain
  <2>4. ASSUME Op[run[d].item] = "create" => Listings(MappingOf[run[d].item]) # {},
               Becomes(d, Answered(run[d], M!In("read_back", "seen")))
        PROVE  Turn(d)
    BY <2>1, <2>2, <2>4 DEF Turn, Seeing
  <2>5. ASSUME Becomes(d, [run[d] EXCEPT !.todo = <<"settle_unread", "hand_back">>])
        PROVE  Turn(d)
    <3>1. <<"settle_unread", "hand_back">> \in Todos /\ run[d].pending \in M!Inputs \cup {NoInput}
      BY <2>1 DEF Todos, Runs
    <3>2. Onward(run[d], [run[d] EXCEPT !.todo = <<"settle_unread", "hand_back">>],
                 <<"settle_unread", "hand_back">>, run[d].pending)
      BY <2>1, <3>1, OnwardFields
    <3>3. Keeps(run[d], [run[d] EXCEPT !.todo = <<"settle_unread", "hand_back">>])
      BY <2>1, <3>2, TaskUnread
    <3> QED  BY <2>2, <2>5, <3>3 DEF Turn, Plain, GoesOn
  <2>6. ASSUME Becomes(d, Abandoned(run[d])) PROVE Turn(d)
    BY <2>1, <2>2, <2>6, AbandonedKeeps DEF Turn, Plain, GoesOn
  <2> QED  BY <1>1, <2>3, <2>4, <2>5, <2>6 DEF ReadBack, Then
<1>2. ASSUME Reconcile(d) PROVE Turn(d)
  <2>1. /\ Shape(run[d]) /\ run[d].item \in Items /\ run[d] \in Runs
        /\ run[d].todo = <<"reconcile">>
    BY <1>2, HeadTodo, Heads DEF Reconcile
  <2>2. UNCHANGED <<attempt, binding, landed>> /\ RowsMove
    BY <1>2, <2>1, PlainCalls DEF Reconcile
  <2>3. ASSUME Then(d, Owning(Answered(run[d], M!In("reconcile", "found")), run[d].m.attempt))
        PROVE  GoesOn(d)
    BY <2>1, <2>3, TaskAnswered, ThenGoesOn
  <2>4. ASSUME NEW a \in {"none", "error"}, Then(d, Answered(run[d], M!In("reconcile", a)))
        PROVE  GoesOn(d)
    BY <2>1, <2>4, TaskAnswered, ThenGoesOn
  <2>5. ASSUME Becomes(d, Abandoned(run[d])) PROVE GoesOn(d)
    BY <2>1, <2>5, AbandonedKeeps DEF GoesOn
  <2>6. GoesOn(d)
    BY <1>2, <2>3, <2>4, <2>5 DEF Reconcile
  <2> QED  BY <2>2, <2>6 DEF Turn, Plain
<1> QED  BY <1>1, <1>2

LEMMA NotingTurns ==
  ASSUME TypeOK, NEW d \in Devices, run[d] # None => Shape(run[d]),
         ParkItem(d) \/ RequeueBehindGate(d) \/ Record(d) \/ HaltThisTenant(d)
  PROVE  Turn(d)
<1>1. ASSUME NEW s \in {"park", "requeue", "capture", "notify", "halt"}, At(d, s)
      PROVE  Shape(run[d]) /\ run[d].item \in Items /\ Keeps(run[d], Passed(run[d]))
  BY <1>1, HeadTodo, PassedKeeps
<1>2. ASSUME ParkItem(d) PROVE Turn(d)
  <2>1. Shape(run[d]) /\ run[d].todo = <<"park", "requeue", "notify">>
    BY <1>2, HeadTodo, Heads DEF ParkItem
  <2>2. Parks(run[d])
    BY <2>1 DEF Shape, Waits, Asserted, Intended, Strands, Reads, Ends
  <2>3. GoesOn(d)
    BY <1>1, <1>2, ThenGoesOn DEF ParkItem
  <2> QED  BY <1>2, <2>2, <2>3, DriverAssumption DEF ParkItem, Turn, Parking
<1>3. ASSUME RequeueBehindGate(d) PROVE Turn(d)
  <2>1. GoesOn(d) /\ run[d].item \in Items
    BY <1>1, <1>3, ThenGoesOn DEF RequeueBehindGate
  <2>2. UNCHANGED <<attempt, binding, landed>> /\ RowsMove
    BY <1>3, <2>1, PlainCalls DEF RequeueBehindGate
  <2> QED  BY <2>1, <2>2 DEF Turn, Plain
<1>4. ASSUME Record(d) PROVE Turn(d)
  <2>1. GoesOn(d) /\ run[d].item \in Items
    BY <1>1, <1>4 DEF Record, GoesOn
  <2>2. UNCHANGED <<attempt, binding, landed>> /\ RowsMove
    BY <1>4, <2>1, PlainCalls DEF Record
  <2> QED  BY <2>1, <2>2 DEF Turn, Plain
<1>5. ASSUME HaltThisTenant(d) PROVE Turn(d)
  <2>1. GoesOn(d) /\ run[d].item \in Items
    BY <1>1, <1>5, ThenGoesOn DEF HaltThisTenant
  <2>2. UNCHANGED <<attempt, binding, landed>> /\ RowsMove
    BY <1>5, <2>1, PlainCalls DEF HaltThisTenant
  <2> QED  BY <2>1, <2>2 DEF Turn, Plain
<1> QED  BY <1>2, <1>3, <1>4, <1>5

LEMMA DoneTodo ==
  ASSUME NEW d \in Devices, run[d] # None => Shape(run[d]), EffectsDone(d)
  PROVE  /\ Shape(run[d]) /\ run[d] \in Runs /\ run[d].item \in Items /\ run[d] # None
         /\ run[d].todo = <<>> /\ ~Decided(run[d])
         /\ Draft(run[d].m) /\ run[d].m.op = Op[run[d].item]
         /\ (run[d].m.at = "terminal" => Ends(run[d]) /\ run[d].m.outcome \in M!MachineOutcomes)
<1>1. Shape(run[d]) /\ run[d].todo = <<>> /\ run[d] # None
  BY DEF EffectsDone
<1>2. run[d].m.outcome \in M!MachineOutcomes \cup {"none"}
  BY <1>1 DEF Shape, Draft, M!Machines
<1>3. run[d].m.at = "terminal" => Ends(run[d])
  BY <1>1 DEF Shape, Waits, Asserted, Intended, Strands, Reads, Parks
<1> QED  BY <1>1, <1>2, <1>3 DEF Shape, Runs, Decided

LEMMA SettlingTurns ==
  ASSUME TypeOK, NEW d \in Devices, run[d] # None => Shape(run[d]),
         SettleAttempt(d) \/ SettleItem(d) \/ SettleOutright(d) \/ SettleOpenAttempt(d)
  PROVE  Turn(d)
<1> DEFINE r == run[d]
<1>1. ASSUME SettleAttempt(d) PROVE Turn(d)
  <2>1. /\ Shape(r) /\ r.todo = <<>> /\ ~Decided(r) /\ Draft(r.m) /\ r.m.op = Op[r.item]
        /\ Ends(r) /\ r.m.outcome \in M!MachineOutcomes /\ r.m.at = "terminal"
    BY <1>1, DoneTodo DEF SettleAttempt, Terminal
  <2> DEFINE v == outcome_to_attempt_state(r.m.outcome)
  <2>2. PICK landing \in {"none", "landed", "refused", "severed"} :
          /\ r.current_attempt \in Attempts
          /\ landing = "refused" => binding[MappingOf[r.item]] # "unbound"
          /\ settle_attempt(r.current_attempt, v, landing)
    BY <1>1 DEF SettleAttempt
  <2>3. v = "abandoned" \/ (v = "failed" /\ Op[r.item] = "create") => Unsent(r)
    <3>1. v = "abandoned" => r.m.outcome \in {"skipped", "blocked"}
      BY <2>1 DEF outcome_to_attempt_state, M!MachineOutcomes
    <3>2. v = "failed" => r.m.outcome = "rejected"
      BY <2>1 DEF outcome_to_attempt_state, M!MachineOutcomes
    <3> QED  BY <2>1, <2>2, <3>1, <3>2, NoneAssumption DEF Unsent
  <2>4. v \in Verdicts
    BY AttemptVerdicts
  <2>5. Held(d) /\ UNCHANGED landed /\ Then(d, [r EXCEPT !.todo = <<"settle_item">>])
    BY <1>1 DEF SettleAttempt
  <2> HIDE DEF v
  <2>6. Settling(d)
    BY <2>1, <2>2, <2>3, <2>4, <2>5 DEF Settling, Then, v
  <2> QED  BY <2>6 DEF Turn
<1>2. ASSUME SettleItem(d) PROVE Turn(d)
  <2>1. Shape(r) /\ r.item \in Items /\ Ends(r) /\ r.m.at = "terminal"
    <3>1. CASE At(d, "settle_item")
      <4>1. Shape(r) /\ r.item \in Items /\ r.todo = <<"settle_item">>
        BY <3>1, HeadTodo, Heads
      <4>2. Ends(r)
        BY <4>1 DEF Shape, Waits, Asserted, Intended, Strands, Reads, Parks
      <4> QED  BY <4>1, <4>2 DEF Ends
    <3>2. CASE Terminal(d)
      BY <3>2, DoneTodo DEF Terminal
    <3> QED  BY <1>2, <3>1, <3>2 DEF SettleItem
  <2>2. At(d, "settle_item") => Decided(r)
    BY HeadTodo, Heads DEF Decided
  <2>3. /\ Held(d) /\ settle(r.item, outcome_to_item(r.m.outcome)) /\ Becomes(d, None)
        /\ UNCHANGED landed
    BY <1>2 DEF SettleItem
  <2>4. CASE r.m.outcome = "committed"
    <3>1. Decided(r)
      BY <1>2, <2>1, <2>2, <2>4, NoneAssumption DEF SettleItem, SettlesAttempt, Ends, OnAttempt
    <3>2. outcome_to_item(r.m.outcome) = "succeeded"
      BY <2>4 DEF outcome_to_item
    <3> QED  BY <2>3, <2>4, <3>1, <3>2 DEF Turn, Finishing
  <2>5. CASE r.m.outcome # "committed"
    <3>1. outcome_to_item(r.m.outcome) \in Outcomes \ {"succeeded"}
      <4>1. outcome_to_item(r.m.outcome) # "succeeded"
        BY <2>5 DEF outcome_to_item
      <4> QED  BY <4>1, ItemVerdicts
    <3>2. UNCHANGED <<attempt, binding>> /\ RowsMove
      BY <2>1, <2>3, <3>1, PlainCalls
    <3> QED  BY <2>3, <3>2 DEF Turn, Plain, GoesOn
  <2> QED  BY <2>4, <2>5
<1>3. ASSUME SettleOutright(d) PROVE Turn(d)
  <2>1. run[d].item \in Items
    BY <1>3, HeadTodo DEF SettleOutright
  <2>2. {"blocked", "skipped"} \subseteq Outcomes \ {"succeeded"}
    BY DriverAssumption
  <2>3. UNCHANGED <<attempt, binding>> /\ RowsMove
    BY <1>3, <2>1, <2>2, PlainCalls DEF SettleOutright
  <2> QED  BY <1>3, <2>3 DEF SettleOutright, Turn, Plain, GoesOn
<1>4. ASSUME SettleOpenAttempt(d) PROVE Turn(d)
  <2>1. /\ Held(d) /\ r.current_attempt \in Attempts /\ UNCHANGED landed
        /\ Becomes(d, Abandoned(r))
        /\ \/ At(d, "settle_unsent") /\ settle_attempt(r.current_attempt, "abandoned", "none")
           \/ At(d, "settle_unread") /\ settle_attempt(r.current_attempt, "ambiguous", "none")
    BY <1>4 DEF SettleOpenAttempt, Unverified
  <2>2. CASE At(d, "settle_unsent") /\ settle_attempt(r.current_attempt, "abandoned", "none")
    <3>1. Shape(r) /\ r.todo = <<"settle_unsent", "hand_back">>
      BY <2>2, HeadTodo, Heads
    <3>2. Intended(r)
      BY <3>1 DEF Shape, Waits, Asserted, Strands, Reads, Parks, Ends
    <3>3. Unsent(r) /\ ~Decided(r)
      BY <3>1, <3>2 DEF Unsent, Intended, Decided
    <3>4. "abandoned" \in Verdicts
      BY DriverAssumption
    <3> QED  BY <2>1, <2>2, <3>3, <3>4 DEF Turn, Settling
  <2>3. CASE At(d, "settle_unread") /\ settle_attempt(r.current_attempt, "ambiguous", "none")
    <3>1. Shape(r) /\ r.todo = <<"settle_unread", "hand_back">>
      BY <2>3, HeadTodo, Heads
    <3>2. ~Decided(r) /\ "ambiguous" \in Verdicts
      BY <3>1, DriverAssumption DEF Decided
    <3> QED  BY <2>1, <2>3, <3>2 DEF Turn, Settling
  <2> QED  BY <2>1, <2>2, <2>3
<1> QED  BY <1>1, <1>2, <1>3, <1>4

\* Whether the run has searched for its strand is no matter of what it keeps.
LEMMA ResumedKeeps ==
  ASSUME NEW r, Shape(r), ~Decided(r)
  PROVE  LET y == [r EXCEPT !.resumed = TRUE] IN
         Shape(y) /\ ~Decided(y) /\ y.m = r.m /\ \A x : Keeps(y, x) => Keeps(r, x)
<1> DEFINE y == [r EXCEPT !.resumed = TRUE]
<1>1. r \in Runs
  BY DEF Shape
<1>2. /\ y \in Runs /\ y.item = r.item /\ y.epoch = r.epoch /\ y.m = r.m
      /\ y.todo = r.todo /\ y.pending = r.pending /\ y.current_attempt = r.current_attempt
  BY <1>1, RunFields
<1> HIDE DEF y
<1>3. /\ Waits(r) => Waits(y)
      /\ Asserted(r) => Asserted(y)
      /\ Intended(r) => Intended(y)
      /\ Strands(r) => Strands(y)
  BY <1>2 DEF Waits, Asserted, Intended, Strands, NoAttemptYet, OnAttempt
<1>4. /\ Reads(r) => Reads(y)
      /\ Parks(r) => Parks(y)
      /\ Ends(r) => Ends(y)
  BY <1>2 DEF Reads, Parks, Ends, NoAttemptYet, OnAttempt
<1>5. Shape(y)
  BY <1>2, <1>3, <1>4 DEF Shape
<1>6. Own(y) = Own(r) /\ ~Decided(y) /\ (SawListing(y) => SawListing(r))
      /\ (Unsent(y) => Unsent(r))
  BY <1>2 DEF Own, Decided, SawListing, Unsent
<1>7. \A x : Keeps(y, x) => Keeps(r, x)
  BY <1>2, <1>6 DEF Keeps, Continues
<1> QED  BY <1>2, <1>5, <1>6, <1>7 DEF y

LEMMA LeavingTurns ==
  ASSUME TypeOK, NEW d \in Devices, run[d] # None => Shape(run[d]),
         Resume(d) \/ Advance(d) \/ HandBack(d) \/ CallFails(d) \/ Crash(d)
  PROVE  Turn(d)
<1>1. ASSUME run[d] \in Runs, Becomes(d, Abandoned(run[d])) PROVE GoesOn(d)
  BY <1>1, AbandonedKeeps DEF GoesOn
<1>2. Becomes(d, None) => GoesOn(d)
  BY DEF GoesOn
<1>3. ASSUME Resume(d) PROVE Turn(d)
  <2> DEFINE y == [run[d] EXCEPT !.resumed = TRUE]
  <2>1. /\ Shape(run[d]) /\ run[d] \in Runs /\ run[d].item \in Items /\ ~Decided(run[d])
        /\ run[d].m.at = "stranded"
    BY <1>3, DoneTodo DEF Resume
  <2>2. UNCHANGED <<attempt, binding, landed>> /\ RowsMove
    BY <1>3, <2>1, PlainCalls DEF Resume
  <2>3. Shape(y) /\ ~Decided(y) /\ y.m = run[d].m /\ \A x : Keeps(y, x) => Keeps(run[d], x)
    BY <2>1, ResumedKeeps
  <2> HIDE DEF y
  <2>4. \A t \in M!step(run[d].m, M!InOn("resume", run[d].m.attempt)) : Moved(y, t)
    BY <2>1, <2>3, StrandFits
  <2>5. ASSUME Follow(d, y, M!step(run[d].m, M!InOn("resume", run[d].m.attempt)))
        PROVE  GoesOn(d)
    BY <2>3, <2>4, <2>5, FollowKeeps DEF GoesOn
  <2>6. GoesOn(d)
    BY <1>1, <1>3, <2>1, <2>5 DEF Resume, y
  <2> QED  BY <2>2, <2>6 DEF Turn, Plain
<1>4. ASSUME Advance(d) PROVE Turn(d)
  <2>1. /\ Shape(run[d]) /\ run[d] \in Runs /\ run[d].item \in Items /\ ~Decided(run[d])
        /\ run[d].todo = <<>> /\ run[d].m.at \notin {"terminal", "parked", "stranded"}
    BY <1>4, DoneTodo DEF Advance
  <2>2. UNCHANGED <<attempt, binding, landed>> /\ RowsMove
    BY <1>4, <2>1, PlainCalls DEF Advance
  <2>3. Waits(run[d]) \/ Asserted(run[d]) \/ Intended(run[d]) \/ Reads(run[d])
    BY <2>1 DEF Shape, Strands, Parks, Ends
  <2>4. \A t \in M!step(run[d].m, run[d].pending) : Moved(run[d], t)
    BY <2>1, <2>3, EarlyFits, SubmitFits, ReadFits
  <2>5. ASSUME Follow(d, run[d], M!step(run[d].m, run[d].pending)) PROVE GoesOn(d)
    BY <2>1, <2>4, <2>5, FollowKeeps DEF GoesOn
  <2>6. GoesOn(d)
    BY <1>1, <1>4, <2>1, <2>5 DEF Advance
  <2> QED  BY <2>2, <2>6 DEF Turn, Plain
<1>5. ASSUME HandBack(d) PROVE Turn(d)
  <2>1. run[d].item \in Items
    BY <1>5, HeadTodo DEF HandBack
  <2>2. UNCHANGED <<attempt, binding, landed>> /\ RowsMove
    BY <1>5, <2>1, PlainCalls DEF HandBack
  <2> QED  BY <1>2, <1>5, <2>2 DEF HandBack, Turn, Plain
<1>6. ASSUME UNCHANGED <<vars, landed>>, GoesOn(d) PROVE Turn(d)
  <2>1. UNCHANGED <<attempt, binding, landed>> /\ RowsMove
    BY <1>6 DEF vars, RowsMove, RowMoves
  <2> QED  BY <1>6, <2>1 DEF Turn, Plain
<1>7. ASSUME CallFails(d) PROVE Turn(d)
  <2>1. run[d] \in Runs
    BY <1>7 DEF CallFails, Calls, Terminal, EffectsDone, Shape
  <2> QED  BY <1>1, <1>2, <1>6, <1>7, <2>1 DEF CallFails
<1>8. ASSUME Crash(d) PROVE Turn(d)
  BY <1>2, <1>6, <1>8 DEF Crash
<1> QED  BY <1>3, <1>4, <1>5, <1>7, <1>8

\* Whatever a device does with a run in hand is one of those kinds.
LEMMA EveryTurn ==
  ASSUME TypeOK, NEW d \in Devices, run[d] # None => Shape(run[d]),
         Prepare(d) \/ Start(d) \/ EffectStep(d) \/ ClosingStep(d)
  PROVE  Turn(d) /\ run[d] # None
<1>1. Turn(d)
  BY PreparingTurns, WritingTurns, ReadingTurns, NotingTurns, SettlingTurns, LeavingTurns
  DEF EffectStep, ClosingStep
<1>2. run[d] # None
  <2>1. Prepare(d) \/ Start(d) => run[d] # None
    BY DEF Prepare, Start, At
  <2>2. EffectStep(d) => run[d] # None
    BY DEF EffectStep, AssertForm, RecordIntent, Permit, Send, ReadBack, Reconcile, ParkItem,
           RequeueBehindGate, Record, HaltThisTenant, At
  <2>3. ClosingStep(d) => run[d] # None
    BY DEF ClosingStep, SettleAttempt, SettleItem, SettleOutright, SettleOpenAttempt, Resume,
           Advance, HandBack, CallFails, Calls, Crash, Terminal, EffectsDone, At, Held
  <2> QED  BY <2>1, <2>2, <2>3
<1> QED  BY <1>1, <1>2

-----------------------------------------------------------------------------
(* The steps taken with no run in hand: a claim, and what the rest of the  *)
(* system does around the runs.                                            *)

Around ==
  /\ UNCHANGED <<run, landed>> /\ RowsMove
  /\ \/ UNCHANGED <<attempt, binding>>
     \/ UNCHANGED attempt /\ \E m \in Mappings : bind_pasted(m)
     \/ attempt' = [a \in Attempts |-> Released(a)] /\ UNCHANGED binding

LEMMA AroundSteps ==
  ASSUME TypeOK
  PROVE  /\ Environment => Around
         /\ \A d \in Devices, i \in Items : ClaimRefused(d, i) => Around
         /\ UNCHANGED driverVars => Around
<1>1. Environment => Around
  <2> SUFFICES ASSUME Environment PROVE Around
    OBVIOUS
  <2>1. RowsMove /\ UNCHANGED <<run, landed>>
    BY EnvironmentMoves DEF Environment, RowsMove
  <2>2. SellerStep \/ Sweep \/ Clock
          => \/ UNCHANGED <<attempt, binding>>
             \/ UNCHANGED attempt /\ \E m \in Mappings : bind_pasted(m)
    BY DEF SellerStep, Sweep, Clock, seller_answers, delete, Relink, finalise_deletion,
           LeaseLapses, ParkFallsDue, bind_pasted
  <2>3. Reaper => \/ UNCHANGED <<attempt, binding>>
                  \/ (attempt' = [a \in Attempts |-> Released(a)] /\ UNCHANGED binding)
    BY DEF Reaper, expire_park, expire_steal, revive_expired
  <2>4. (\E h \in Halts : OperatorLiftsHalt(h)) => UNCHANGED <<attempt, binding>>
    BY DEF OperatorLiftsHalt
  <2> QED  BY <2>1, <2>2, <2>3, <2>4 DEF Environment, Around
<1>2. ASSUME NEW d \in Devices, NEW i \in Items, ClaimRefused(d, i) PROVE Around
  <2>1. claim_refused(d, i) /\ UNCHANGED <<run, landed>>
    BY <1>2 DEF ClaimRefused
  <2>2. RowsMove
    BY <2>1, HolderMoves DEF RowsMove
  <2>3. UNCHANGED <<attempt, binding>>
    BY <2>1 DEF claim_refused, charge_and_requeue
  <2> QED  BY <2>1, <2>2, <2>3 DEF Around
<1>3. UNCHANGED driverVars => Around
  BY DEF driverVars, vars, Around, RowsMove, RowMoves
<1> QED  BY <1>1, <1>2, <1>3

Shapes == \A d \in Devices : run[d] # None => Shape(run[d])

\* A step is a claim, a turn of a device with a run in hand, or goes on around
\* the runs.
LEMMA StepKinds ==
  ASSUME TypeOK, Shapes, [DriverNext]_driverVars
  PROVE  \/ Around
         \/ \E d \in Devices, i \in Items : Claim(d, i)
         \/ \E d \in Devices : Turn(d) /\ run[d] # None
<1>1. ASSUME NEW d \in Devices, Prepare(d) \/ Start(d) \/ EffectStep(d) \/ ClosingStep(d)
      PROVE  Turn(d) /\ run[d] # None
  BY <1>1, EveryTurn DEF Shapes
<1> QED  BY <1>1, AroundSteps DEF DriverNext

-----------------------------------------------------------------------------
(* What a turn does to the rows, the attempts, the listings and its run.   *)

Changes(d, x) == run' = [run EXCEPT ![d] = x]

\* A row moves as a step of the ledger moves it, or its holder parks it or
\* settles it as done.
LEMMA RowsOfATurn ==
  ASSUME TypeOK, NEW d \in Devices, Turn(d), run[d] # None, Shape(run[d]), NEW i \in Items
  PROVE  \/ RowMoves(i, item'[i])
         \/ Parking(d) /\ i = run[d].item
         \/ Finishing(d) /\ i = run[d].item /\ item'[i] = Settled(item[i], "succeeded")
<1>1. run[d].item \in Items
  BY DEF Shape, Runs
<1>2. Plain(d) \/ Permitting(d) \/ Seeing(d) => RowMoves(i, item'[i])
  BY DEF Plain, Permitting, Seeing, RowsMove
<1>3. Opening(d) \/ Sending(d) => RowMoves(i, item'[i])
  BY DEF Opening, Sending, open_attempt, vars, RowMoves
<1>4. Parking(d) => RowMoves(i, item'[i]) \/ i = run[d].item
  BY <1>1 DEF Parking, park, RowMoves, TypeOK
<1>5. Settling(d) => RowMoves(i, item'[i])
  <2>1. UNCHANGED item => RowMoves(i, item'[i])
    BY DEF RowMoves
  <2> QED  BY <2>1, RevivedMoves DEF Settling, settle_attempt
<1>6. Finishing(d) => \/ RowMoves(i, item'[i])
                      \/ i = run[d].item /\ item'[i] = Settled(item[i], "succeeded")
  <2>1. "succeeded" \in Outcomes
    BY DriverAssumption
  <2> QED  BY <1>1, <2>1, HolderMoves DEF Finishing
<1> QED  BY <1>2, <1>3, <1>4, <1>5, <1>6 DEF Turn

\* No step but a claim gives a lease or changes whose it is.
LEMMA LeasesOfAStep ==
  ASSUME TypeOK, Shapes, [DriverNext]_driverVars, TypeOK', NEW i \in Items, Leased(item'[i])
  PROVE  \/ /\ Leased(item[i]) /\ item'[i].owner = item[i].owner
            /\ item'[i].epoch = item[i].epoch
         \/ \E d \in Devices : Claim(d, i) /\ item'[i].owner = d
<1>1. ASSUME RowMoves(i, item'[i])
      PROVE  /\ Leased(item[i]) /\ item'[i].owner = item[i].owner
             /\ item'[i].epoch = item[i].epoch
  BY <1>1 DEF RowMoves, Leased
<1>2. ASSUME NEW d \in Devices, NEW k \in Items, Claim(d, k)
      PROVE  \/ Leased(item[i]) /\ item'[i] = item[i]
             \/ i = k /\ item'[i].owner = d
  <2>1. item' = Claimed(d, k)
    BY <1>2 DEF Claim, claim_for_device
  <2> QED  BY <2>1 DEF Claimed, TypeOK, Rows
<1>3. ASSUME NEW d \in Devices, Turn(d), run[d] # None PROVE RowMoves(i, item'[i])
  <2>1. Parking(d) /\ i = run[d].item => ~Leased(item'[i])
    <3>1. Row(item[i])
      BY TypedLedger, LedgerRows
    <3>2. Parking(d) /\ i = run[d].item => \E g : item'[i] = Parked(item[i], g, "running")
      BY DEF Parking, park, TypeOK
    <3> QED  BY <3>1, <3>2, RowForms DEF Leased
  <2>2. item'[i] = Settled(item[i], "succeeded") => ~Leased(item'[i])
    BY TypedLedger, LedgerRows, RowForms DEF Leased
  <2> QED  BY <1>3, <2>1, <2>2, RowsOfATurn DEF Shapes
<1>4. Around => RowMoves(i, item'[i])
  BY DEF Around, RowsMove
<1> QED  BY <1>1, <1>2, <1>3, <1>4, StepKinds

\* A run that did not move holds its lease only if it held it before.
LEMMA HeldBefore ==
  ASSUME TypeOK, Shapes, [DriverNext]_driverVars, TypeOK', NEW e \in Devices, run[e] # None,
         Held(e)', run'[e].item = run[e].item, run'[e].epoch = run[e].epoch
  PROVE  Held(e)
<1>1. run[e].item \in Items
  BY DEF Shapes, Shape, Runs
<1>2. /\ Leased(item'[run[e].item]) /\ item'[run[e].item].owner = e
      /\ item'[run[e].item].epoch = run[e].epoch
  BY DEF Held, Leased
<1>3. ~\E d \in Devices : Claim(d, run[e].item) /\ item'[run[e].item].owner = d
  BY <1>2 DEF Claim
<1> QED  BY <1>1, <1>2, <1>3, LeasesOfAStep DEF Held

\* An attempt that was inserted keeps its item and its epoch, and one that was
\* decided keeps its verdict.
LEMMA AttemptsStay ==
  ASSUME TypeOK, [Next]_vars, NEW a \in Attempts, attempt[a].state # "none"
  PROVE  /\ attempt'[a].item = attempt[a].item /\ attempt'[a].epoch = attempt[a].epoch
         /\ attempt'[a].state # "none"
         /\ attempt[a].state # "in_flight" => attempt'[a] = attempt[a]
<1>1. CASE UNCHANGED attempt
  BY <1>1
<1>2. CASE attempt' = [b \in Attempts |-> Released(b)]
  BY <1>2 DEF Released, TypeOK, AttemptRows
<1>3. ASSUME NEW i \in Items, NEW b \in Attempts, open_attempt(i, b)
      PROVE  attempt'[a] = attempt[a]
  BY <1>3 DEF open_attempt, TypeOK
<1>4. ASSUME NEW b \in Attempts, NEW v \in Verdicts, NEW landing, settle_attempt(b, v, landing)
      PROVE  /\ attempt'[a].item = attempt[a].item /\ attempt'[a].epoch = attempt[a].epoch
             /\ attempt'[a].state # "none"
             /\ attempt[a].state # "in_flight" => attempt'[a] = attempt[a]
  <2>1. v # "none"
    BY HolderAssumption
  <2> QED  BY <1>4, <2>1 DEF settle_attempt, TypeOK, AttemptRows
<1> QED  BY <1>1, <1>2, <1>3, <1>4, WriteSteps DEF bind_pasted

\* An attempt the turn inserted, and one it settled.
Opened(d, a) ==
  /\ Held(d) /\ attempt[a].state = "none"
  /\ attempt'[a] = [state |-> "in_flight", item |-> run[d].item, epoch |-> run[d].epoch]
Judged(d, a, x) ==
  /\ Held(d) /\ ~Decided(run[d]) /\ a = run[d].current_attempt
  /\ x # None /\ ~Decided(x) => Own(x) = {}

Carries(d, x) ==
  /\ Shape(x) /\ x.item = run[d].item /\ x.epoch = run[d].epoch
  /\ \A a \in Own(x) : Opened(d, a) \/ (a \in Own(run[d]) /\ (~Decided(run[d])))
  /\ Decided(x) => attempt'[x.current_attempt].state = outcome_to_attempt_state(x.m.outcome)
  /\ SawListing(x) => \/ SawListing(run[d])
                      \/ Op[x.item] = "create" => Listings(MappingOf[x.item]) # {}

LEMMA KeptIsCarried ==
  ASSUME NEW d \in Devices, NEW x, Keeps(run[d], x)
  PROVE  Carries(d, x)
  BY DEF Keeps, Continues, Carries

LEMMA DecidedRun ==
  ASSUME NEW r, Shape(r), Ends(r), r.current_attempt \in Attempts
  PROVE  LET x == [r EXCEPT !.todo = <<"settle_item">>] IN
         /\ Shape(x) /\ Onward(r, x, <<"settle_item">>, r.pending) /\ Own(x) = Own(r)
         /\ Decided(x) /\ (SawListing(x) => SawListing(r))
<1> DEFINE x == [r EXCEPT !.todo = <<"settle_item">>]
<1>1. <<"settle_item">> \in Todos /\ r \in Runs /\ r.pending \in M!Inputs \cup {NoInput}
  BY DEF Todos, Shape, Runs
<1>2. Onward(r, x, <<"settle_item">>, r.pending)
  BY <1>1, OnwardFields
<1> HIDE DEF x
<1>3. Ends(x)
  BY <1>2 DEF Ends, Onward, OnAttempt
<1>4. Shape(x)
  BY <1>2, <1>3 DEF Shape, Onward
<1> QED  BY <1>2, <1>4 DEF Onward, Own, Decided, SawListing, x

LEMMA RunOfATurn ==
  ASSUME TypeOK, NEW d \in Devices, Turn(d), run[d] # None, Shape(run[d])
  PROVE  \E x : /\ Changes(d, x) /\ (x # None => Carries(d, x))
                /\ \A a \in Attempts : \/ attempt'[a] = attempt[a]
                                       \/ Opened(d, a) \/ Judged(d, a, x)
<1> DEFINE r == run[d]
<1>1. ASSUME GoesOn(d), UNCHANGED attempt
      PROVE  \E x : /\ Changes(d, x) /\ (x # None => Carries(d, x))
                    /\ \A a \in Attempts : attempt'[a] = attempt[a]
  BY <1>1, KeptIsCarried DEF GoesOn, Becomes, Changes
<1>2. Plain(d) => GoesOn(d) /\ UNCHANGED attempt
  BY DEF Plain
<1>3. Parking(d) => GoesOn(d) /\ UNCHANGED attempt
  BY DEF Parking, park
<1>4. Finishing(d) => GoesOn(d) /\ UNCHANGED attempt
  BY DEF Finishing, settle, GoesOn
<1>5. ASSUME Opening(d)
      PROVE  \E x : /\ Changes(d, x) /\ (x # None => Carries(d, x))
                    /\ \A a \in Attempts : attempt'[a] = attempt[a] \/ Opened(d, a)
  <2>1. PICK c \in Attempts :
          /\ open_attempt(r.item, c)
          /\ Then(d, Owning(Answered(r, M!InOn("intent", c)), c))
    BY <1>5 DEF Opening
  <2>2. Held(d) /\ r.todo = <<"record_intent">> /\ item[r.item].epoch = r.epoch
    BY <1>5 DEF Opening, Held
  <2>3. Opened(d, c) /\ \A a \in Attempts : a # c => attempt'[a] = attempt[a]
    BY <2>1, <2>2 DEF open_attempt, Opened, TypeOK
  <2> DEFINE x == Owning(Answered(r, M!InOn("intent", c)), c)
  <2>4. /\ Shape(x) /\ x.item = r.item /\ x.epoch = r.epoch
        /\ Own(x) = {c} /\ ~Decided(x) /\ ~SawListing(x)
    BY <2>2, IntentOpened
  <2>5. Becomes(d, x) \/ Becomes(d, Abandoned(r))
    BY <2>1 DEF Then
  <2> HIDE DEF x
  <2>6. Carries(d, x)
    BY <2>3, <2>4 DEF Carries
  <2>7. Carries(d, Abandoned(r))
    BY AbandonedKeeps, KeptIsCarried DEF Shape
  <2> QED  BY <2>3, <2>5, <2>6, <2>7 DEF Becomes, Changes
<1>6. ASSUME Permitting(d)
      PROVE  \E x : /\ Changes(d, x) /\ (x # None => Carries(d, x))
                    /\ \A a \in Attempts : attempt'[a] = attempt[a]
  <2> DEFINE x == [r EXCEPT !.todo[1] = "send"]
  <2>1. PICK w \in M!Writes : r.todo = <<w>>
    BY <1>6 DEF Permitting
  <2>2. /\ Shape(x) /\ Onward(r, x, <<"send">>, r.pending) /\ Own(x) = Own(r)
        /\ SawListing(x) => SawListing(r)
    BY <2>1, WritePermitted
  <2>3. ~Decided(r)
    BY <2>1 DEF Decided, M!Writes
  <2>4. Becomes(d, x) /\ UNCHANGED attempt
    BY <1>6 DEF Permitting
  <2> HIDE DEF x
  <2>5. Carries(d, x)
    BY <2>2, <2>3 DEF Carries, Onward, Decided
  <2> QED  BY <2>4, <2>5 DEF Becomes, Changes
<1>7. ASSUME Sending(d)
      PROVE  \E x : /\ Changes(d, x) /\ (x # None => Carries(d, x))
                    /\ \A a \in Attempts : attempt'[a] = attempt[a]
  <2>1. PICK a \in SubmitAnswers, b \in BOOLEAN :
          Becomes(d, [Answered(r, M!In("submit", a)) EXCEPT !.blocked_mid_write = b])
    BY <1>7 DEF Sending
  <2> DEFINE x == [Answered(r, M!In("submit", a)) EXCEPT !.blocked_mid_write = b]
  <2>2. r.todo = <<"send">> /\ UNCHANGED attempt
    BY <1>7 DEF Sending, vars
  <2>3. /\ Shape(x) /\ Onward(r, x, <<>>, M!In("submit", a)) /\ Own(x) \subseteq Own(r)
        /\ ~SawListing(x)
    BY <2>2, WriteSent
  <2> HIDE DEF x
  <2>4. Carries(d, x)
    BY <2>2, <2>3 DEF Carries, Onward, Decided
  <2> QED  BY <2>1, <2>2, <2>4 DEF Becomes, Changes, x
<1>8. ASSUME Seeing(d)
      PROVE  \E x : /\ Changes(d, x) /\ (x # None => Carries(d, x))
                    /\ \A a \in Attempts : attempt'[a] = attempt[a]
  <2> DEFINE x == Answered(r, M!In("read_back", "seen"))
  <2>1. Continues(r, x)
    BY <1>8, TaskAnswered DEF Seeing, ReadAnswers
  <2>2. /\ Becomes(d, x) /\ UNCHANGED attempt
        /\ Op[r.item] = "create" => Listings(MappingOf[r.item]) # {}
    BY <1>8 DEF Seeing
  <2> HIDE DEF x
  <2>3. Carries(d, x)
    BY <2>1, <2>2 DEF Carries, Continues
  <2> QED  BY <2>2, <2>3 DEF Becomes, Changes
<1>9. ASSUME Settling(d)
      PROVE  \E x : /\ Changes(d, x) /\ (x # None => Carries(d, x))
                    /\ \A a \in Attempts : attempt'[a] = attempt[a] \/ Judged(d, a, x)
  <2>1. PICK v \in Verdicts, landing \in {"none", "landed", "refused", "severed"} :
          /\ settle_attempt(r.current_attempt, v, landing)
          /\ \/ Becomes(d, Abandoned(r))
             \/ /\ Becomes(d, [r EXCEPT !.todo = <<"settle_item">>])
                /\ Ends(r) /\ v = outcome_to_attempt_state(r.m.outcome)
    BY <1>9 DEF Settling
  <2>2. Held(d) /\ r.current_attempt \in Attempts /\ ~Decided(r)
    BY <1>9 DEF Settling
  <2>3. /\ \A a \in Attempts : a # r.current_attempt => attempt'[a] = attempt[a]
        /\ attempt'[r.current_attempt].state = v
    BY <2>1, <2>2 DEF settle_attempt, TypeOK, AttemptRows
  <2>4. CASE Becomes(d, Abandoned(r))
    <3>1. Keeps(r, Abandoned(r)) /\ Own(Abandoned(r)) = {}
      <4>1. Keeps(r, Abandoned(r)) /\ r.item \in Items /\ r.epoch \in Nat
        BY AbandonedKeeps DEF Shape, Runs
      <4>2. /\ NewRun(r.item, r.epoch, None).m.attempt = None
            /\ NewRun(r.item, r.epoch, None).current_attempt = None
            /\ NewRun(r.item, r.epoch, None).pending = NoInput
        BY <4>1, NewRunShape DEF StrandedInput
      <4>3. /\ Abandoned(r).m.attempt = None /\ Abandoned(r).current_attempt = None
            /\ Abandoned(r).pending = NoInput
        BY <4>2 DEF Abandoned, NewRun
      <4> QED  BY <4>1, <4>3, Inputs DEF Own
    <3>2. Carries(d, Abandoned(r))
      BY <3>1, KeptIsCarried
    <3>3. \A a \in Attempts : attempt'[a] = attempt[a] \/ Judged(d, a, Abandoned(r))
      BY <2>2, <2>3, <3>1 DEF Judged
    <3> QED  BY <2>4, <3>2, <3>3 DEF Becomes, Changes
  <2>5. CASE /\ Becomes(d, [r EXCEPT !.todo = <<"settle_item">>])
             /\ Ends(r) /\ v = outcome_to_attempt_state(r.m.outcome)
    <3> DEFINE x == [r EXCEPT !.todo = <<"settle_item">>]
    <3>1. /\ Shape(x) /\ Onward(r, x, <<"settle_item">>, r.pending) /\ Own(x) = Own(r)
          /\ Decided(x) /\ (SawListing(x) => SawListing(r))
      BY <2>2, <2>5, DecidedRun
    <3> HIDE DEF x
    <3>2. Carries(d, x)
      BY <2>2, <2>3, <2>5, <3>1 DEF Carries, Onward
    <3>3. \A a \in Attempts : attempt'[a] = attempt[a] \/ Judged(d, a, x)
      BY <2>2, <2>3, <3>1 DEF Judged
    <3> QED  BY <2>5, <3>2, <3>3 DEF Becomes, Changes, x
  <2> QED  BY <2>1, <2>4, <2>5
<1> QED  BY <1>1, <1>2, <1>3, <1>4, <1>5, <1>6, <1>7, <1>8, <1>9 DEF Turn

-----------------------------------------------------------------------------
(* What a run and the ledger say of each other, step by step.              *)

Named(r) == \A a \in Own(r) :
  attempt[a].state # "none" /\ attempt[a].item = r.item /\ attempt[a].epoch = r.epoch
AllNamed == \A d \in Devices : run[d] # None => Named(run[d])

\* The holder of a lease answers for attempts still in flight.
AllInFlight == \A d \in Devices : Held(d) /\ ~Decided(run[d]) =>
  \A a \in Own(run[d]) : attempt[a].state = "in_flight"
AllDecided == \A d \in Devices : run[d] # None /\ Decided(run[d]) =>
  attempt[run[d].current_attempt].state = outcome_to_attempt_state(run[d].m.outcome)
AllSeen == \A d \in Devices :
  run[d] # None /\ SawListing(run[d]) /\ Op[run[d].item] = "create" =>
    Listings(MappingOf[run[d].item]) # {}
LandedInserted == landed \subseteq {a \in Attempts : attempt[a].state # "none"}

\* An item parked for an answer about a create has that create in flight, at
\* the epoch a claim will search for; a sign-in park is re-gated so.
AskGates(i) == {"awaiting_seller_signin", "awaiting_marketplace_answer"}
                 \cup (IF Op[i] = "create" THEN {"ReauthRequired"} ELSE {})
AsksCanBeAnswered == \A i \in Items :
  item[i].gate \in AskGates(i) /\ ~DeletionRequested(JobOf[i])
    => HoldsNow(item, attempt, i, {"in_flight"})

Linked ==
  /\ Shapes /\ AllNamed /\ AllInFlight /\ AllDecided /\ AllSeen /\ LandedInserted
  /\ AsksCanBeAnswered /\ SucceededIsCommitted

\* What is known of a step taken in a state of which all that is known.
Steps ==
  /\ TypeOK /\ TypeOK' /\ RunsForItems /\ [Next]_vars /\ [DriverNext]_driverVars

LEMMA OwnTyped == \A r : Shape(r) => Own(r) \subseteq Attempts
<1> SUFFICES ASSUME NEW r, Shape(r) PROVE Own(r) \subseteq Attempts
  OBVIOUS
<1>1. r.m.attempt \in Attempts \cup {None} /\ r.current_attempt \in Attempts \cup {None}
  BY DEF Shape, Runs, M!Machines
<1>2. r.pending.attempt \in Attempts \cup {None}
  BY Inputs DEF Shape, Waits, Asserted, Intended, Strands, Reads, Parks, Ends
<1> QED  BY <1>1, <1>2 DEF Own

LEMMA RunsOfAStep ==
  ASSUME Steps, Shapes, NEW e \in Devices, run'[e] # None
  PROVE  \/ run'[e] = run[e]
         \/ \E i \in Items : Claim(e, i) /\ \E a \in {None} \cup StrandedAttempt(i) :
              run'[e] = NewRun(i, item[i].epoch, a)
         \/ Turn(e) /\ run[e] # None /\ Carries(e, run'[e])
<1>1. Around => run'[e] = run[e]
  BY DEF Around
<1>2. ASSUME NEW d \in Devices, NEW i \in Items, Claim(d, i)
      PROVE  \/ run'[e] = run[e]
             \/ d = e /\ \E a \in {None} \cup StrandedAttempt(i) :
                  run'[e] = NewRun(i, item[i].epoch, a)
  <2>1. PICK a \in {None} \cup StrandedAttempt(i) : Becomes(d, NewRun(i, item[i].epoch, a))
    BY <1>2 DEF Claim
  <2> QED  BY <2>1 DEF Becomes, Steps, RunsForItems
<1>3. ASSUME NEW d \in Devices, Turn(d), run[d] # None
      PROVE  run'[e] = run[e] \/ (d = e /\ Carries(e, run'[e]))
  <2>1. PICK x : Changes(d, x) /\ (x # None => Carries(d, x))
    BY <1>3, RunOfATurn DEF Shapes, Steps
  <2>2. run'[e] = IF e = d THEN x ELSE run[e]
    BY <2>1 DEF Changes, Steps, RunsForItems
  <2> QED  BY <2>1, <2>2
<1> QED  BY <1>1, <1>2, <1>3, StepKinds DEF Steps

LEMMA ShapesStay == Steps /\ Shapes => Shapes'
<1> SUFFICES ASSUME Steps, Shapes, NEW e \in Devices, run'[e] # None PROVE Shape(run'[e])
  BY DEF Shapes, Shape, Waits, Asserted, Intended, Strands, Reads, Parks, Ends, Draft,
         NoAttemptYet, OnAttempt
<1>1. ASSUME NEW i \in Items, NEW a \in {None} \cup StrandedAttempt(i)
      PROVE  Shape(NewRun(i, item[i].epoch, a))
  <2>1. item[i].epoch \in Nat /\ a \in Attempts \cup {None}
    BY DEF Steps, TypeOK, Rows, StrandedAttempt
  <2> QED  BY <2>1, NewRunShape
<1>2. Carries(e, run'[e]) => Shape(run'[e])
  BY DEF Carries
<1> QED  BY <1>1, <1>2, RunsOfAStep DEF Shapes

LEMMA NewRunOwns ==
  ASSUME NEW i \in Items, NEW e \in Nat, NEW a \in Attempts \cup {None}
  PROVE  LET x == NewRun(i, e, a) IN
         /\ Own(x) \subseteq {a} /\ None \notin Own(x) /\ ~Decided(x) /\ ~SawListing(x)
         /\ ~Unsent(x) /\ x.todo # <<"send">>
<1> DEFINE x == NewRun(i, e, a)
<1>1. /\ x.todo = <<"prepare">> /\ x.current_attempt = None /\ x.m.attempt = None
      /\ x.m.at = "awaiting_preflight" /\ x.m.outcome = "none" /\ x.pending = StrandedInput(a)
  BY NewRunShape
<1>2. x.pending.attempt \in {a, None} /\ x.pending # M!In("read_back", "seen")
  BY <1>1, Inputs DEF StrandedInput
<1> HIDE DEF x
<1> QED  BY <1>1, <1>2 DEF Own, Decided, SawListing, Unsent, x

LEMMA StrandedIsNamed ==
  ASSUME TypeOK, NEW i \in Items, NEW a \in StrandedAttempt(i)
  PROVE  /\ a \in Attempts /\ attempt[a].state = "in_flight" /\ attempt[a].item = i
         /\ attempt[a].epoch = item[i].epoch /\ item[i].epoch \in Nat
  BY DEF StrandedAttempt, TypeOK, Rows

LEMMA NamedStays == Steps /\ Shapes /\ AllNamed => AllNamed'
<1> SUFFICES ASSUME Steps, Shapes, AllNamed, NEW e \in Devices, run'[e] # None,
                    NEW a \in Own(run'[e])
             PROVE  /\ attempt'[a].state # "none" /\ attempt'[a].item = run'[e].item
                    /\ attempt'[a].epoch = run'[e].epoch
  BY DEF AllNamed, Named, Own
<1>1. ASSUME a \in Attempts, attempt[a].state # "none"
      PROVE  /\ attempt'[a].item = attempt[a].item /\ attempt'[a].epoch = attempt[a].epoch
             /\ attempt'[a].state # "none"
  BY <1>1, AttemptsStay DEF Steps
<1>2. CASE run'[e] = run[e]
  <2>1. a \in Attempts
    BY <1>2, OwnTyped DEF Shapes
  <2> QED  BY <1>1, <1>2, <2>1 DEF AllNamed, Named
<1>3. ASSUME NEW i \in Items, NEW b \in {None} \cup StrandedAttempt(i),
             run'[e] = NewRun(i, item[i].epoch, b)
      PROVE  /\ attempt'[a].state # "none" /\ attempt'[a].item = run'[e].item
             /\ attempt'[a].epoch = run'[e].epoch
  <2>1. item[i].epoch \in Nat /\ b \in Attempts \cup {None}
    BY DEF Steps, TypeOK, Rows, StrandedAttempt
  <2>2. a = b /\ a # None /\ run'[e].item = i /\ run'[e].epoch = item[i].epoch
    BY <1>3, <2>1, NewRunOwns, NewRunShape
  <2> QED  BY <1>1, <2>2, StrandedIsNamed DEF Steps
<1>4. CASE run[e] # None /\ Carries(e, run'[e])
  <2>1. run'[e].item = run[e].item /\ run'[e].epoch = run[e].epoch
    BY <1>4 DEF Carries
  <2>2. CASE Opened(e, a)
    BY <2>1, <2>2 DEF Opened
  <2>3. CASE a \in Own(run[e])
    <3>1. a \in Attempts
      BY <1>4, <2>3, OwnTyped DEF Shapes
    <3> QED  BY <1>1, <1>4, <2>1, <2>3, <3>1 DEF AllNamed, Named
  <2> QED  BY <1>4, <2>2, <2>3 DEF Carries
<1> QED  BY <1>2, <1>3, <1>4, RunsOfAStep

\* The attempts of a run that holds its lease are settled by nobody else.
LEMMA OwnOfOthers ==
  ASSUME Steps, Shapes, AllNamed, NEW e \in Devices, Held(e), NEW a \in Own(run[e]),
         attempt[a].state = "in_flight", attempt'[a].state # "in_flight"
  PROVE  /\ Turn(e) /\ ~Decided(run[e])
         /\ run'[e] # None /\ ~Decided(run'[e]) => Own(run'[e]) = {}
<1>1. run[e] # None /\ Leased(item[run[e].item]) /\ item[run[e].item].owner = e
  BY DEF Held
<1>2. a \in Attempts /\ attempt[a].item = run[e].item
  BY <1>1, OwnTyped DEF Shapes, AllNamed, Named
<1>3. ~Around
  <2>1. Around => attempt'[a] = attempt[a] \/ attempt'[a] = Released(a)
    BY <1>2 DEF Around
  <2>2. ~Relinked(attempt[a].item)
    BY <1>1, <1>2 DEF Relinked, Leased
  <2> QED  BY <2>1, <2>2 DEF Released
<1>4. \A d \in Devices, i \in Items : ~Claim(d, i)
  BY DEF Claim, claim_for_device
<1>5. PICK d \in Devices : Turn(d) /\ run[d] # None
  BY <1>3, <1>4, StepKinds DEF Steps
<1>6. PICK x : /\ Changes(d, x)
               /\ \A b \in Attempts : attempt'[b] = attempt[b] \/ Opened(d, b) \/ Judged(d, b, x)
  BY <1>5, RunOfATurn DEF Shapes, Steps
<1>7. Judged(d, a, x)
  BY <1>2, <1>6 DEF Opened
<1>8. a \in Own(run[d])
  BY <1>2, <1>7, NoneAssumption DEF Judged, Own
<1>9. d = e
  <2>1. attempt[a].item = run[d].item
    BY <1>5, <1>8 DEF AllNamed, Named
  <2> QED  BY <1>1, <1>2, <1>7, <2>1 DEF Judged, Held
<1>10. run'[e] = x
  BY <1>6, <1>9 DEF Changes, Steps, RunsForItems
<1> QED  BY <1>5, <1>7, <1>9, <1>10 DEF Judged

LEMMA InFlightStays == Steps /\ Shapes /\ AllNamed /\ AllInFlight => AllInFlight'
<1> SUFFICES ASSUME Steps, Shapes, AllNamed, AllInFlight, NEW e \in Devices, Held(e)',
                    ~Decided(run'[e]), NEW a \in Own(run'[e])
             PROVE  attempt'[a].state = "in_flight"
  BY DEF AllInFlight, Own, Decided
<1>1. run'[e] # None
  BY DEF Held
<1>2. ASSUME run[e] # None, Held(e), ~Decided(run[e]), a \in Own(run[e])
      PROVE  attempt'[a].state = "in_flight"
  <2>1. attempt[a].state = "in_flight"
    BY <1>2 DEF AllInFlight
  <2> QED  BY <1>1, <1>2, <2>1, OwnOfOthers
<1>3. CASE run'[e] = run[e]
  <2>1. Held(e)
    BY <1>1, <1>3, HeldBefore DEF Steps
  <2> QED  BY <1>1, <1>2, <1>3, <2>1
<1>4. ASSUME NEW i \in Items, Claim(e, i), NEW b \in {None} \cup StrandedAttempt(i),
             run'[e] = NewRun(i, item[i].epoch, b)
      PROVE  attempt'[a].state = "in_flight"
  <2>1. item[i].epoch \in Nat /\ b \in Attempts \cup {None}
    BY DEF Steps, TypeOK, Rows, StrandedAttempt
  <2>2. a = b /\ a # None
    BY <1>4, <2>1, NewRunOwns
  <2>3. attempt[a].state = "in_flight"
    BY <1>4, <2>2, StrandedIsNamed DEF Steps
  <2>4. UNCHANGED attempt
    BY <1>4 DEF Claim, claim_for_device
  <2> QED  BY <2>3, <2>4
<1>5. CASE run[e] # None /\ Carries(e, run'[e])
  <2>1. Held(e)
    BY <1>5, HeldBefore DEF Carries, Steps
  <2>2. CASE Opened(e, a)
    BY <2>2 DEF Opened
  <2> QED  BY <1>2, <1>5, <2>1, <2>2 DEF Carries
<1> QED  BY <1>1, <1>3, <1>4, <1>5, RunsOfAStep

LEMMA DecidedStays == Steps /\ Shapes /\ AllDecided => AllDecided'
<1> SUFFICES ASSUME Steps, Shapes, AllDecided, NEW e \in Devices, run'[e] # None,
                    Decided(run'[e])
             PROVE  attempt'[run'[e].current_attempt].state
                      = outcome_to_attempt_state(run'[e].m.outcome)
  BY DEF AllDecided, Decided, outcome_to_attempt_state
<1>1. CASE run'[e] = run[e]
  <2> DEFINE c == run[e].current_attempt
  <2>1. attempt[c].state = outcome_to_attempt_state(run[e].m.outcome)
    BY <1>1 DEF AllDecided
  <2>2. c \in Attempts
    <3>1. Shape(run[e]) /\ run[e].todo = <<"settle_item">>
      BY <1>1 DEF Shapes, Decided
    <3> QED  BY <3>1 DEF Shape, Waits, Asserted, Intended, Strands, Reads, Parks, Ends
  <2>3. outcome_to_attempt_state(run[e].m.outcome) \notin {"none", "in_flight"}
    BY DEF outcome_to_attempt_state
  <2> QED  BY <1>1, <2>1, <2>2, <2>3, AttemptsStay DEF Steps
<1>2. ASSUME NEW i \in Items, NEW b \in {None} \cup StrandedAttempt(i),
             run'[e] = NewRun(i, item[i].epoch, b)
      PROVE  FALSE
  <2>1. item[i].epoch \in Nat /\ b \in Attempts \cup {None}
    BY DEF Steps, TypeOK, Rows, StrandedAttempt
  <2> QED  BY <1>2, <2>1, NewRunOwns
<1> QED  BY <1>1, <1>2, RunsOfAStep DEF Carries

\* Listings stay on the marketplace.
LEMMA LandedGrows ==
  ASSUME Steps, Shapes, AllNamed
  PROVE  /\ landed \subseteq landed'
         /\ \A a \in landed' : a \in landed
              \/ \E d \in Devices : /\ Sending(d) /\ run[d] # None /\ a = run[d].current_attempt
                                    /\ a \in Own(run[d]) /\ a \in Attempts
<1>1. Around => landed' = landed
  BY DEF Around
<1>2. \A d \in Devices, i \in Items : Claim(d, i) => landed' = landed
  BY DEF Claim
<1>3. ASSUME NEW d \in Devices, Turn(d), run[d] # None
      PROVE  \/ landed' = landed
             \/ /\ landed' = landed \cup {run[d].current_attempt} /\ Sending(d)
                /\ run[d].current_attempt \in Own(run[d]) /\ run[d].current_attempt \in Attempts
  <2>1. Plain(d) \/ Parking(d) \/ Opening(d) \/ Permitting(d) \/ Seeing(d) \/ Settling(d)
          \/ Finishing(d) => landed' = landed
    BY DEF Plain, Parking, Opening, Permitting, Seeing, Settling, Finishing
  <2>2. ASSUME Sending(d)
        PROVE  /\ landed' = landed \/ landed' = landed \cup {run[d].current_attempt}
               /\ run[d].current_attempt \in Own(run[d])
               /\ run[d].current_attempt \in Attempts
    <3>1. OnAttempt(run[d])
      BY <1>3, <2>2, AboutToWrite DEF Sending, Shapes
    <3> QED  BY <2>2, <3>1, NoneAssumption DEF Sending, OnAttempt, Own
  <2> QED  BY <1>3, <2>1, <2>2 DEF Turn
<1> QED  BY <1>1, <1>2, <1>3, StepKinds DEF Steps

LEMMA LandedStays == Steps /\ Shapes /\ AllNamed /\ LandedInserted => LandedInserted'
<1> SUFFICES ASSUME Steps, Shapes, AllNamed, LandedInserted, NEW a \in landed'
             PROVE  a \in Attempts /\ attempt'[a].state # "none"
  BY DEF LandedInserted
<1>1. a \in Attempts /\ attempt[a].state # "none"
  BY LandedGrows DEF LandedInserted, AllNamed, Named
<1> QED  BY <1>1, AttemptsStay DEF Steps

LEMMA ListingsStay ==
  ASSUME Steps, Shapes, AllNamed, LandedInserted, NEW m
  PROVE  Listings(m) \subseteq Listings(m)'
<1> SUFFICES ASSUME NEW a \in landed, MappingOf[attempt[a].item] = m,
                    Op[attempt[a].item] = "create"
             PROVE  /\ a \in landed' /\ MappingOf[attempt'[a].item] = m
                    /\ Op[attempt'[a].item] = "create"
  BY DEF Listings
<1>1. a \in Attempts /\ attempt[a].state # "none"
  BY DEF LandedInserted
<1>2. attempt'[a].item = attempt[a].item
  BY <1>1, AttemptsStay DEF Steps
<1> QED  BY <1>2, LandedGrows

LEMMA SeenStays ==
  Steps /\ Shapes /\ AllNamed /\ LandedInserted /\ AllSeen => AllSeen'
<1> SUFFICES ASSUME Steps, Shapes, AllNamed, LandedInserted, AllSeen, NEW e \in Devices,
                    run'[e] # None, SawListing(run'[e]), NEW k, k = run'[e].item,
                    Op[k] = "create"
             PROVE  Listings(MappingOf[k])' # {}
  BY DEF AllSeen, SawListing
<1>1. CASE run'[e] = run[e]
  BY <1>1, ListingsStay DEF AllSeen
<1>2. ASSUME NEW i \in Items, NEW b \in {None} \cup StrandedAttempt(i),
             run'[e] = NewRun(i, item[i].epoch, b)
      PROVE  FALSE
  <2>1. item[i].epoch \in Nat /\ b \in Attempts \cup {None}
    BY DEF Steps, TypeOK, Rows, StrandedAttempt
  <2> QED  BY <1>2, <2>1, NewRunOwns
<1>3. CASE run[e] # None /\ Carries(e, run'[e])
  <2>1. run[e].item = k
    BY <1>3 DEF Carries
  <2>2. Listings(MappingOf[k]) # {}
    BY <1>3, <2>1 DEF Carries, AllSeen
  <2> QED  BY <2>2, ListingsStay
<1> QED  BY <1>1, <1>2, <1>3, RunsOfAStep

-----------------------------------------------------------------------------
(* A parked create can be asked about.                                     *)

LEMMA ParksUndecided == \A r : Parks(r) => ~Decided(r)
<1>1. \A t \in {<<"park", "requeue", "notify">>, <<"requeue", "notify">>, <<"notify">>, <<>>} :
        t # <<"settle_item">>
  OBVIOUS
<1> QED  BY <1>1 DEF Parks, Decided

\* A row parked after a step was moved by the ledger or parked by its holder.
LEMMA ParkedRows ==
  ASSUME Steps, Shapes, NEW i \in Items, item'[i].state = "parked_live"
  PROVE  \/ RowMoves(i, item'[i])
         \/ \E d \in Devices : Parking(d) /\ run[d] # None /\ i = run[d].item
<1>1. ASSUME NEW d \in Devices, Turn(d), run[d] # None
      PROVE  RowMoves(i, item'[i]) \/ (Parking(d) /\ i = run[d].item)
  <2>1. item'[i] # Settled(item[i], "succeeded")
    BY TypedLedger, LedgerRows, RowForms DEF Steps
  <2> QED  BY <1>1, <2>1, RowsOfATurn DEF Shapes, Steps
<1>2. ASSUME NEW d \in Devices, NEW k \in Items, Claim(d, k) PROVE RowMoves(i, item'[i])
  <2>1. item' = Claimed(d, k)
    BY <1>2 DEF Claim, claim_for_device
  <2>2. item'[i] = item[i] \/ item'[i].state = "leased"
    BY <2>1 DEF Claimed, Steps, TypeOK, Rows
  <2> QED  BY <2>2 DEF RowMoves
<1>3. Around => RowMoves(i, item'[i])
  BY DEF Around, RowsMove
<1> QED  BY <1>1, <1>2, <1>3, StepKinds DEF Steps

\* Before the step, the attempt of an item whose gate asks was in flight at the
\* epoch the item has after it.
LEMMA AskedBefore ==
  ASSUME Steps, Shapes, AllNamed, AllInFlight, AsksCanBeAnswered, NEW i \in Items,
         item'[i].gate \in AskGates(i), deletion'[JobOf[i]] = "none"
  PROVE  \E a \in Attempts : /\ attempt[a].state = "in_flight" /\ attempt[a].item = i
                             /\ attempt[a].epoch = item'[i].epoch
<1>1. item'[i].state = "parked_live" /\ item'[i].gate # None
  <2>1. item'[i].gate # None
    BY NoneAssumption DEF AskGates, Gates, REVIVABLE_GATES
  <2> QED  BY <2>1 DEF Steps, TypeOK, WellFormed
<1>2. deletion[JobOf[i]] = "none"
  BY DeletionIsReclassified, Classified, ItemsAssumption DEF Steps
<1>3. ASSUME item[i].gate \in AskGates(i), item'[i].epoch = item[i].epoch
      PROVE  \E a \in Attempts : /\ attempt[a].state = "in_flight" /\ attempt[a].item = i
                                 /\ attempt[a].epoch = item'[i].epoch
  BY <1>2, <1>3 DEF AsksCanBeAnswered, DeletionRequested, HoldsNow
<1>4. ASSUME RowMoves(i, item'[i])
      PROVE  \E a \in Attempts : /\ attempt[a].state = "in_flight" /\ attempt[a].item = i
                                 /\ attempt[a].epoch = item'[i].epoch
  <2>1. CASE item'[i] = item[i]
    BY <1>3, <2>1
  <2>2. CASE /\ item'[i].epoch = item[i].epoch
             /\ item'[i].gate = item[i].gate
    BY <1>3, <2>2
  <2>3. CASE /\ item'[i].epoch = item[i].epoch
             /\ item[i].gate = "ReauthRequired" /\ Op[i] = "create"
    BY <1>3, <2>3 DEF AskGates
  <2>4. CASE Asked(i, item'[i].epoch)
    BY <2>4 DEF Asked
  <2> QED  BY <1>1, <1>4, <2>1, <2>2, <2>3, <2>4 DEF RowMoves, Leased
<1>5. ASSUME NEW d \in Devices, Parking(d), run[d] # None, i = run[d].item
      PROVE  \E a \in Attempts : /\ attempt[a].state = "in_flight" /\ attempt[a].item = i
                                 /\ attempt[a].epoch = item'[i].epoch
  <2>1. PICK g \in PreparationGates \cup {"ReauthRequired"} :
          park(i, g) /\ (g = "ReauthRequired" => Parks(run[d]))
    BY <1>5 DEF Parking
  <2>2. item'[i].gate = g /\ item'[i].epoch = item[i].epoch
    <3>1. item'[i] = Parked(item[i], g, "running")
      BY <2>1 DEF park, Steps, TypeOK
    <3> QED  BY <3>1, TypedLedger, LedgerRows, RowForms DEF Steps
  <2>3. g = "ReauthRequired"
    BY <2>2 DEF AskGates, PreparationGates
  <2>4. Parks(run[d])
    BY <2>1, <2>3
  <2>5. /\ Held(d) /\ ~Decided(run[d])
        /\ run[d].current_attempt \in Attempts /\ run[d].current_attempt \in Own(run[d])
    <3>1. Held(d) /\ OnAttempt(run[d])
      BY <1>5, <2>4 DEF Parking, Parks
    <3>2. ~Decided(run[d])
      BY <2>4, ParksUndecided
    <3>3. run[d].current_attempt # None
      BY <3>1, NoneAssumption DEF OnAttempt
    <3> QED  BY <3>1, <3>2, <3>3 DEF OnAttempt, Own
  <2>6. /\ attempt[run[d].current_attempt].state = "in_flight"
        /\ attempt[run[d].current_attempt].item = i
        /\ attempt[run[d].current_attempt].epoch = run[d].epoch
    BY <1>5, <2>5 DEF AllInFlight, AllNamed, Named
  <2>7. item[i].epoch = run[d].epoch
    BY <1>5, <2>5 DEF Held
  <2> QED  BY <2>2, <2>5, <2>6, <2>7
<1> QED  BY <1>1, <1>4, <1>5, ParkedRows

\* A settlement leaves the rows it does not requeue as they were.
LEMMA SettlingRows ==
  ASSUME TypeOK, NEW d \in Devices, Settling(d), NEW i \in Items
  PROVE  item'[i] = item[i] \/ item'[i].state = "queued"
<1>1. item'[i] = item[i] \/ item'[i] = Requeued(item[i])
  BY DEF Settling, settle_attempt, Revived
<1> QED  BY <1>1, TypedLedger, LedgerRows, RowForms

LEMMA AsksStay ==
  Steps /\ Shapes /\ AllNamed /\ AllInFlight /\ AsksCanBeAnswered => AsksCanBeAnswered'
<1> SUFFICES ASSUME Steps, Shapes, AllNamed, AllInFlight, AsksCanBeAnswered, NEW i \in Items,
                    item'[i].gate \in AskGates(i), deletion'[JobOf[i]] = "none"
             PROVE  \E a \in Attempts : /\ attempt'[a].item = i /\ attempt'[a].state = "in_flight"
                                        /\ attempt'[a].epoch = item'[i].epoch
  BY DEF AsksCanBeAnswered, DeletionRequested, HoldsNow, AskGates
<1>1. PICK a \in Attempts : /\ attempt[a].state = "in_flight" /\ attempt[a].item = i
                            /\ attempt[a].epoch = item'[i].epoch
  BY AskedBefore
<1>2. item'[i].state = "parked_live"
  BY NoneAssumption DEF AskGates, Gates, REVIVABLE_GATES, Steps, TypeOK, WellFormed
<1>3. ASSUME NEW d \in Devices, Turn(d), run[d] # None PROVE attempt'[a] = attempt[a]
  <2>1. Plain(d) \/ Parking(d) \/ Permitting(d) \/ Sending(d) \/ Seeing(d) \/ Finishing(d)
          => UNCHANGED attempt
    BY DEF Plain, Parking, park, Permitting, Sending, vars, Seeing, Finishing, settle
  <2>2. Opening(d) => attempt'[a] = attempt[a]
    BY <1>1 DEF Opening, open_attempt, Steps, TypeOK
  <2>3. ASSUME Settling(d) PROVE attempt'[a] = attempt[a]
    <3>1. a = run[d].current_attempt \/ attempt'[a] = attempt[a]
      BY <2>3 DEF Settling, settle_attempt, Steps, TypeOK
    <3>2. ASSUME a = run[d].current_attempt PROVE FALSE
      <4>1. a \in Own(run[d])
        BY <3>2, NoneAssumption DEF Own
      <4>2. run[d].item = i
        BY <1>1, <1>3, <4>1 DEF AllNamed, Named
      <4>3. item[i].state = "leased"
        BY <2>3, <4>2 DEF Settling, Held, Leased
      <4> QED  BY <1>2, <2>3, <4>3, SettlingRows DEF Steps
    <3> QED  BY <3>1, <3>2
  <2> QED  BY <1>3, <2>1, <2>2, <2>3 DEF Turn
<1>4. \A d \in Devices, k \in Items : Claim(d, k) => UNCHANGED attempt
  BY DEF Claim, claim_for_device
<1>5. ASSUME Around PROVE attempt'[a] = attempt[a]
  <2>1. attempt'[a] = attempt[a] \/ attempt'[a] = Released(a)
    BY <1>5 DEF Around
  <2>2. ASSUME Relinked(i) PROVE FALSE
    <3>1. item[i].gate = "ReauthRequired" /\ Op[i] # "create" /\ item[i].state = "parked_live"
      BY <2>2 DEF Relinked
    <3>2. RowMoves(i, item'[i])
      BY <1>5 DEF Around, RowsMove
    <3>3. item'[i].gate # "ReauthRequired"
      BY <3>1 DEF AskGates
    <3>4. ~Asked(i, item'[i].epoch)
      BY <3>1 DEF Asked
    <3> QED  BY <1>2, <3>1, <3>2, <3>3, <3>4 DEF RowMoves, Leased
  <2> QED  BY <1>1, <2>1, <2>2 DEF Released
<1> QED  BY <1>1, <1>3, <1>4, <1>5, StepKinds DEF Steps

-----------------------------------------------------------------------------
(* What is told as done was done.                                          *)

\* A row that comes to say succeeded was settled so by a run that had settled
\* its attempt first.
LEMMA SuccessIsFinished ==
  ASSUME Steps, Shapes, NEW i \in Items, item[i].state # "settled",
         item'[i].state = "settled", item'[i].outcome = "succeeded"
  PROVE  \E d \in Devices : /\ Finishing(d) /\ run[d] # None /\ i = run[d].item
                            /\ item'[i] = Settled(item[i], "succeeded")
<1>1. ~RowMoves(i, item'[i])
  <2>1. Leased(item'[i]) => FALSE
    BY DEF Leased
  <2> QED  BY <2>1 DEF RowMoves
<1>2. ~Around
  BY <1>1 DEF Around, RowsMove
<1>3. ASSUME NEW d \in Devices, NEW k \in Items, Claim(d, k) PROVE FALSE
  <2>1. item' = Claimed(d, k)
    BY <1>3 DEF Claim, claim_for_device
  <2>2. item'[i] = item[i] \/ item'[i].state = "leased"
    BY <2>1 DEF Claimed, Steps, TypeOK, Rows
  <2> QED  BY <1>1, <2>2 DEF RowMoves
<1>4. ASSUME NEW d \in Devices, Turn(d), run[d] # None
      PROVE  /\ Finishing(d) /\ i = run[d].item
             /\ item'[i] = Settled(item[i], "succeeded")
  <2>1. ASSUME Parking(d), i = run[d].item PROVE FALSE
    <3>1. PICK g : park(i, g)
      BY <2>1 DEF Parking
    <3>2. item'[i] = Parked(item[i], g, "running")
      BY <3>1 DEF park, Steps, TypeOK
    <3> QED  BY <3>2, TypedLedger, LedgerRows, RowForms DEF Steps
  <2> QED  BY <1>1, <1>4, <2>1, RowsOfATurn DEF Shapes, Steps
<1> QED  BY <1>2, <1>3, <1>4, StepKinds DEF Steps

LEMMA FinishedIsCommitted ==
  ASSUME Steps, Shapes, AllNamed, AllDecided, AllSeen, NEW d \in Devices, Finishing(d),
         run[d] # None, NEW i \in Items, i = run[d].item
  PROVE  /\ \E a \in Attempts : /\ attempt'[a].item = i /\ attempt'[a].state = "committed"
                                /\ attempt'[a].epoch = item[i].epoch
         /\ Op[i] = "create" => Listings(MappingOf[i]) # {}
<1> DEFINE c == run[d].current_attempt
<1>1. Held(d) /\ Decided(run[d]) /\ run[d].m.outcome = "committed" /\ UNCHANGED attempt
  BY DEF Finishing, settle
<1>2. c \in Attempts
  <2>1. Shape(run[d]) /\ run[d].todo = <<"settle_item">>
    BY <1>1 DEF Shapes, Decided
  <2> QED  BY <2>1 DEF Shape, Waits, Asserted, Intended, Strands, Reads, Parks, Ends
<1>3. c \in Own(run[d])
  BY <1>2, NoneAssumption DEF Own
<1>4. attempt[c].item = i /\ attempt[c].epoch = run[d].epoch
  BY <1>3 DEF AllNamed, Named
<1>5. attempt[c].state = "committed"
  BY <1>1 DEF AllDecided, outcome_to_attempt_state
<1>6. item[i].epoch = run[d].epoch
  BY <1>1 DEF Held
<1>7. Op[i] = "create" => Listings(MappingOf[i]) # {}
  BY <1>1 DEF AllSeen, SawListing
<1> QED  BY <1>1, <1>2, <1>4, <1>5, <1>6, <1>7

LEMMA SucceededStays ==
  Steps /\ Linked => SucceededIsCommitted'
<1> SUFFICES ASSUME Steps, Linked, NEW i \in Items, item'[i].outcome = "succeeded"
             PROVE  /\ \E a \in Attempts : /\ attempt'[a].item = i
                                           /\ attempt'[a].state = "committed"
                                           /\ attempt'[a].epoch = item'[i].epoch
                    /\ Op[i] = "create" => Listings(MappingOf[i])' # {}
  BY DEF SucceededIsCommitted, HoldsNow, Linked
<1>1. item'[i].state = "settled"
  BY DEF Steps, TypeOK, WellFormed
<1>2. Listings(MappingOf[i]) # {} => Listings(MappingOf[i])' # {}
  BY ListingsStay DEF Linked
<1>3. CASE item[i].state = "settled"
  <2>1. item'[i] = item[i]
    BY <1>3, SettledStays DEF Steps
  <2>2. PICK a \in Attempts : /\ attempt[a].item = i /\ attempt[a].state = "committed"
                              /\ attempt[a].epoch = item[i].epoch
    BY <2>1 DEF Linked, SucceededIsCommitted, HoldsNow
  <2>3. attempt'[a] = attempt[a]
    BY <2>2, AttemptsStay DEF Steps
  <2>4. Op[i] = "create" => Listings(MappingOf[i]) # {}
    BY <2>1 DEF Linked, SucceededIsCommitted
  <2> QED  BY <1>2, <2>1, <2>2, <2>3, <2>4
<1>4. CASE item[i].state # "settled"
  <2>1. PICK d \in Devices : /\ Finishing(d) /\ run[d] # None /\ i = run[d].item
                             /\ item'[i] = Settled(item[i], "succeeded")
    BY <1>1, <1>4, SuccessIsFinished DEF Linked
  <2>2. item'[i].epoch = item[i].epoch
    <3>1. item[i] \in Rows
      BY DEF Steps, TypeOK
    <3> QED  BY <2>1, <3>1 DEF Settled, Freed, Rows
  <2> QED  BY <1>2, <2>1, <2>2, FinishedIsCommitted DEF Linked
<1> QED  BY <1>3, <1>4

LEMMA LinkedStays == Steps /\ Linked => Linked'
  BY ShapesStay, NamedStays, InFlightStays, DecidedStays, SeenStays, LandedStays, AsksStay,
     SucceededStays
  DEF Linked

-----------------------------------------------------------------------------
(* A write said never to have been sent was never sent, where no adapter   *)
(* denies a write that landed.                                             *)

\* The attempt of a run with its write still to come, or denied, has not landed,
\* and no other run has a write of it to come.
UnsentIsAlone == \A d \in Devices : run[d] # None /\ Unsent(run[d]) =>
  /\ run[d].current_attempt \notin landed
  /\ \A e \in Devices : run[e] # None /\ Unsent(run[e])
                          /\ run[e].current_attempt = run[d].current_attempt => e = d

NeverSent(a) ==
  a \notin landed /\ \A d \in Devices : At(d, "send") => run[d].m.attempt # a

\* What reads as no write at all: a refused create, as the abandoned attempt.
WrittenOff(a) ==
  \/ attempt[a].state = "abandoned"
  \/ attempt[a].state = "failed" /\ Op[attempt[a].item] = "create"
WrittenOffIsUnsent == \A a \in Attempts : WrittenOff(a) => NeverSent(a)

\* What a re-link would release.
SignInParksUnsent == \A i \in Items, a \in Attempts :
  item[i].gate = "ReauthRequired" /\ attempt[a].item = i /\ attempt[a].state = "in_flight"
    => NeverSent(a)

LEMMA UnsentAttempt ==
  ASSUME NEW r, Shape(r), Unsent(r)
  PROVE  r.current_attempt \in Attempts /\ r.current_attempt \in Own(r)
<1>1. CASE r.m.at = "preflight_asserted" /\ r.todo = <<>>
  <2>1. Asserted(r)
    BY <1>1 DEF Shape, Waits, Intended, Strands, Reads, Parks, Ends
  <2>2. r.todo \notin {<<"record_intent">>, <<"settle_skipped">>}
    BY <1>1
  <2> QED  BY <2>1, <2>2, NoneAssumption DEF Asserted, Own
<1>2. CASE r.m.at = "intent_recorded"
  BY <1>2, NoneAssumption DEF Shape, Waits, Asserted, Intended, Strands, Reads, Parks, Ends,
                             OnAttempt, Own
<1>3. CASE r.m.at = "parked"
  BY <1>3, NoneAssumption DEF Shape, Waits, Asserted, Intended, Strands, Reads, Parks, Ends,
                             OnAttempt, Own
<1>4. CASE r.m.at = "terminal" /\ r.current_attempt # None
  BY <1>4, NoneAssumption DEF Shape, Waits, Asserted, Intended, Strands, Reads, Parks, Ends, Own
<1> QED  BY <1>1, <1>2, <1>3, <1>4 DEF Unsent

LEMMA AtSend ==
  ASSUME NEW d \in Devices, At(d, "send"), Shape(run[d])
  PROVE  /\ run[d] # None /\ run[d].todo = <<"send">> /\ Unsent(run[d])
         /\ OnAttempt(run[d]) /\ run[d].m.attempt \in Own(run[d])
<1>1. run[d] # None /\ run[d].todo # <<>> /\ Head(run[d].todo) = "send"
  BY DEF At
<1>2. run[d].todo = <<"send">>
  BY <1>1, ShapeTodo, Heads
<1>3. OnAttempt(run[d]) /\ run[d].m.at = "intent_recorded"
  BY <1>2, AboutToWrite
<1> QED  BY <1>1, <1>2, <1>3, NoneAssumption DEF Unsent, OnAttempt, Own

LEMMA AbandonedIsIdle ==
  ASSUME NEW r, Shape(r)
  PROVE  ~Unsent(Abandoned(r)) /\ Abandoned(r).todo # <<"send">>
<1>1. r.item \in Items /\ r.epoch \in Nat /\ Abandoned(r).todo = <<"hand_back">>
  BY AbandonedKeeps DEF Shape, Runs
<1>2. NewRun(r.item, r.epoch, None).m.at = "awaiting_preflight"
  BY <1>1, NewRunShape
<1>3. Abandoned(r).m.at = "awaiting_preflight"
  BY <1>2 DEF Abandoned, NewRun
<1> QED  BY <1>1, <1>3 DEF Unsent

\* What a turn leaves of a write to come: it was to come before, and nothing
\* landed meanwhile, or its attempt was opened by this very turn.
LEMMA UnsentOfATurn ==
  ASSUME TruthfulDenials, TypeOK, NEW d \in Devices, Turn(d), run[d] # None, Shape(run[d])
  PROVE  \E x : /\ Changes(d, x)
                /\ x # None /\ Unsent(x) =>
                     \/ /\ Unsent(run[d]) /\ x.current_attempt = run[d].current_attempt
                        /\ landed' = landed
                     \/ Opened(d, x.current_attempt)
                /\ x # None /\ x.todo = <<"send">> =>
                     Permitting(d) /\ x.m.attempt = run[d].m.attempt
<1> DEFINE r == run[d]
<1> DEFINE P(x) == /\ Changes(d, x)
                   /\ x # None /\ Unsent(x) =>
                        \/ /\ Unsent(run[d]) /\ x.current_attempt = run[d].current_attempt
                           /\ landed' = landed
                        \/ Opened(d, x.current_attempt)
                   /\ x # None /\ x.todo = <<"send">> =>
                        Permitting(d) /\ x.m.attempt = run[d].m.attempt
<1>1. ASSUME Plain(d) \/ Parking(d) PROVE \E x : P(x)
  BY <1>1 DEF Plain, Parking, GoesOn, Keeps, Continues, Becomes, Changes
<1>2. ASSUME Finishing(d) PROVE \E x : P(x)
  BY <1>2 DEF Finishing, Becomes, Changes
<1>3. ASSUME Opening(d) PROVE \E x : P(x)
  <2>1. PICK c \in Attempts :
          /\ open_attempt(r.item, c)
          /\ Then(d, Owning(Answered(r, M!InOn("intent", c)), c))
    BY <1>3 DEF Opening
  <2>2. Held(d) /\ r.todo = <<"record_intent">> /\ item[r.item].epoch = r.epoch
    BY <1>3 DEF Opening, Held
  <2>3. Opened(d, c)
    BY <2>1, <2>2 DEF open_attempt, Opened, TypeOK
  <2> DEFINE x == Owning(Answered(r, M!InOn("intent", c)), c)
  <2>4. x.current_attempt = c /\ x.todo # <<"send">>
    BY <2>2, IntentOpened
  <2>5. Becomes(d, x) \/ Becomes(d, Abandoned(r))
    BY <2>1 DEF Then
  <2> HIDE DEF x
  <2>6. P(x) \/ P(Abandoned(r))
    BY <2>3, <2>4, <2>5, AbandonedIsIdle DEF Becomes, Changes
  <2> QED  BY <2>6
<1>4. ASSUME Permitting(d) PROVE \E x : P(x)
  <2> DEFINE x == [r EXCEPT !.todo[1] = "send"]
  <2>1. PICK w \in M!Writes : r.todo = <<w>>
    BY <1>4 DEF Permitting
  <2>2. Onward(r, x, <<"send">>, r.pending) /\ Unsent(r)
    BY <2>1, WritePermitted
  <2>3. Becomes(d, x) /\ landed' = landed
    BY <1>4 DEF Permitting
  <2> HIDE DEF x
  <2>4. P(x)
    BY <1>4, <2>2, <2>3 DEF Onward, Becomes, Changes
  <2> QED  BY <2>4
<1>5. ASSUME Sending(d) PROVE \E x : P(x)
  <2>1. PICK a \in SubmitAnswers, b \in BOOLEAN :
          /\ Becomes(d, [Answered(r, M!In("submit", a)) EXCEPT !.blocked_mid_write = b])
          /\ landed' = landed \/ a \in LateAnswers \cup {"landed"}
    BY <1>5 DEF Sending
  <2> DEFINE x == [Answered(r, M!In("submit", a)) EXCEPT !.blocked_mid_write = b]
  <2>2. r.todo = <<"send">>
    BY <1>5 DEF Sending
  <2>3. /\ Onward(r, x, <<>>, M!In("submit", a)) /\ Unsent(r)
        /\ Unsent(x) => a \notin LateAnswers \cup {"landed"}
    BY <2>2, WriteSent
  <2>4. Becomes(d, x)
    BY <2>1
  <2> HIDE DEF x
  <2>5. x.todo # <<"send">>
    BY <2>3 DEF Onward
  <2>6. P(x)
    BY <2>1, <2>3, <2>4, <2>5 DEF Onward, Becomes, Changes
  <2> QED  BY <2>6
<1>6. ASSUME Seeing(d) PROVE \E x : P(x)
  <2> DEFINE x == Answered(r, M!In("read_back", "seen"))
  <2>1. Continues(r, x)
    BY <1>6, TaskAnswered DEF Seeing, ReadAnswers
  <2>2. Becomes(d, x) /\ landed' = landed
    BY <1>6 DEF Seeing
  <2> HIDE DEF x
  <2>3. P(x)
    BY <2>1, <2>2 DEF Continues, Becomes, Changes
  <2> QED  BY <2>3
<1>7. ASSUME Settling(d) PROVE \E x : P(x)
  <2>1. CASE Becomes(d, Abandoned(r))
    <3>1. P(Abandoned(r))
      BY <2>1, AbandonedIsIdle DEF Becomes, Changes
    <3> QED  BY <3>1
  <2>2. CASE /\ Becomes(d, [r EXCEPT !.todo = <<"settle_item">>])
             /\ Ends(r)
    <3> DEFINE x == [r EXCEPT !.todo = <<"settle_item">>]
    <3>1. /\ Onward(r, x, <<"settle_item">>, r.pending) /\ Decided(x)
      BY <1>7, <2>2, DecidedRun DEF Settling
    <3>2. Becomes(d, x)
      BY <2>2
    <3> HIDE DEF x
    <3>3. ~Unsent(x) /\ x.todo # <<"send">>
      <4>1. x.m.at = "terminal" /\ x.todo = <<"settle_item">>
        BY <2>2, <3>1 DEF Ends, Onward
      <4> QED  BY <3>1, <4>1 DEF Unsent
    <3>4. P(x)
      BY <3>2, <3>3 DEF Becomes, Changes
    <3> QED  BY <3>4
  <2> QED  BY <1>7, <2>1, <2>2 DEF Settling
<1> QED  BY <1>1, <1>2, <1>3, <1>4, <1>5, <1>6, <1>7 DEF Turn

LEMMA RunOfAStep ==
  ASSUME TruthfulDenials, Steps, Shapes, NEW e \in Devices, run'[e] # None
  PROVE  \/ run'[e] = run[e]
         \/ ~Unsent(run'[e]) /\ run'[e].todo # <<"send">>
         \/ /\ run[e] # None
            /\ Unsent(run'[e]) =>
                 \/ /\ Unsent(run[e]) /\ run'[e].current_attempt = run[e].current_attempt
                    /\ landed' = landed
                 \/ Opened(e, run'[e].current_attempt)
            /\ run'[e].todo = <<"send">> =>
                 Permitting(e) /\ run'[e].m.attempt = run[e].m.attempt
<1>1. Around => run'[e] = run[e]
  BY DEF Around
<1>2. ASSUME NEW d \in Devices, NEW i \in Items, Claim(d, i)
      PROVE  run'[e] = run[e] \/ (~Unsent(run'[e]) /\ run'[e].todo # <<"send">>)
  <2>1. PICK b \in {None} \cup StrandedAttempt(i) : Becomes(d, NewRun(i, item[i].epoch, b))
    BY <1>2 DEF Claim
  <2>2. item[i].epoch \in Nat /\ b \in Attempts \cup {None}
    BY DEF Steps, TypeOK, Rows, StrandedAttempt
  <2> DEFINE n == NewRun(i, item[i].epoch, b)
  <2>3. ~Unsent(n) /\ n.todo # <<"send">>
    BY <2>2, NewRunOwns
  <2> HIDE DEF n
  <2>4. run'[e] = run[e] \/ run'[e] = n
    BY <2>1 DEF Becomes, Steps, RunsForItems, n
  <2> QED  BY <2>3, <2>4
<1>3. ASSUME NEW d \in Devices, Turn(d), run[d] # None
      PROVE  \/ run'[e] = run[e]
             \/ /\ run[e] # None
                /\ Unsent(run'[e]) =>
                     \/ /\ Unsent(run[e]) /\ run'[e].current_attempt = run[e].current_attempt
                        /\ landed' = landed
                     \/ Opened(e, run'[e].current_attempt)
                /\ run'[e].todo = <<"send">> =>
                     Permitting(e) /\ run'[e].m.attempt = run[e].m.attempt
  <2>1. PICK x : /\ Changes(d, x)
                 /\ x # None /\ Unsent(x) =>
                      \/ /\ Unsent(run[d]) /\ x.current_attempt = run[d].current_attempt
                         /\ landed' = landed
                      \/ Opened(d, x.current_attempt)
                 /\ x # None /\ x.todo = <<"send">> =>
                      Permitting(d) /\ x.m.attempt = run[d].m.attempt
    BY <1>3, UnsentOfATurn DEF Shapes, Steps
  <2>2. run'[e] = IF e = d THEN x ELSE run[e]
    BY <2>1 DEF Changes, Steps, RunsForItems
  <2>3. CASE e = d
    BY <1>3, <2>1, <2>2, <2>3
  <2> QED  BY <2>2, <2>3
<1> QED  BY <1>1, <1>2, <1>3, StepKinds DEF Steps

\* An attempt opened by the step was nobody's.
LEMMA OpenedIsFresh ==
  ASSUME Shapes, AllNamed, LandedInserted, NEW d \in Devices, NEW a, Opened(d, a)
  PROVE  a \notin landed /\ \A e \in Devices : run[e] # None => a \notin Own(run[e])
  BY DEF Opened, AllNamed, Named, LandedInserted

\* A run that moves is the only one of the step.
LEMMA OneRunMoves ==
  ASSUME Steps, Shapes, NEW d \in Devices, NEW e \in Devices, run'[d] # run[d], run'[e] # run[e]
  PROVE  d = e
<1>1. Around => run' = run
  BY DEF Around
<1>2. \A c \in Devices, i \in Items : Claim(c, i) => \E x : Changes(c, x)
  BY DEF Claim, Becomes, Changes
<1>3. ASSUME NEW c \in Devices, Turn(c), run[c] # None PROVE \E x : Changes(c, x)
  BY <1>3, RunOfATurn DEF Shapes, Steps
<1>4. \/ run' = run
      \/ \E c \in Devices : \E x : Changes(c, x)
  BY <1>1, <1>2, <1>3, StepKinds DEF Steps
<1> QED  BY <1>4 DEF Changes, Steps, RunsForItems

LEMMA AloneStays ==
  ASSUME TruthfulDenials, Steps, Shapes, AllNamed, LandedInserted, UnsentIsAlone
  PROVE  UnsentIsAlone'
<1> SUFFICES ASSUME NEW d \in Devices, run'[d] # None, Unsent(run'[d])
             PROVE  /\ run'[d].current_attempt \notin landed'
                    /\ \A e \in Devices : run'[e] # None /\ Unsent(run'[e])
                         /\ run'[e].current_attempt = run'[d].current_attempt => e = d
  BY DEF UnsentIsAlone, Unsent, Decided
<1> DEFINE c == run'[d].current_attempt
\* Before the step the same holds of every run that was not given its attempt by it.
<1>1. ASSUME NEW e \in Devices, run'[e] # None, Unsent(run'[e])
      PROVE  \/ /\ run[e] # None /\ Unsent(run[e])
                /\ run'[e].current_attempt = run[e].current_attempt
                /\ run'[e] = run[e] \/ landed' = landed
             \/ Opened(e, run'[e].current_attempt) /\ run'[e] # run[e]
  BY <1>1, RunOfAStep
<1>2. ASSUME NEW e \in Devices, run'[e] # None, Unsent(run'[e]),
             run'[e].current_attempt = c
      PROVE  e = d
  <2>1. CASE Unsent(run[d]) /\ run[d] # None /\ run[d].current_attempt = c
    <3>1. CASE Unsent(run[e]) /\ run[e] # None /\ run[e].current_attempt = c
      BY <2>1, <3>1 DEF UnsentIsAlone
    <3>2. CASE Opened(e, c)
      BY <2>1, <3>2, OpenedIsFresh, UnsentAttempt DEF Shapes
    <3> QED  BY <1>1, <1>2, <3>1, <3>2
  <2>2. CASE Opened(d, c) /\ run'[d] # run[d]
    <3>1. CASE Unsent(run[e]) /\ run[e] # None /\ run[e].current_attempt = c
      BY <2>2, <3>1, OpenedIsFresh, UnsentAttempt DEF Shapes
    <3>2. CASE run'[e] # run[e]
      BY <2>2, <3>2, OneRunMoves
    <3> QED  BY <1>1, <1>2, <3>1, <3>2
  <2> QED  BY <1>1, <2>1, <2>2
<1>3. ASSUME c \in landed' PROVE FALSE
  <2>1. CASE c \in landed
    <3>1. ~Opened(d, c)
      BY <2>1, OpenedIsFresh
    <3> QED  BY <1>1, <2>1, <3>1 DEF UnsentIsAlone
  <2>2. ASSUME c \notin landed,
               NEW e \in Devices, Sending(e), run[e] # None, c = run[e].current_attempt,
               c \in Own(run[e])
        PROVE  FALSE
    <3>1. ~Opened(d, c)
      BY <2>2, OpenedIsFresh
    <3>2. /\ run[d] # None /\ Unsent(run[d]) /\ run[d].current_attempt = c
          /\ run'[d] = run[d]
      BY <1>1, <1>3, <2>2, <3>1
    <3>3. Unsent(run[e]) /\ run[e].todo = <<"send">>
      BY <2>2, WriteSent, AboutToWrite DEF Sending, Unsent, Shapes
    <3>4. d = e
      BY <2>2, <3>2, <3>3 DEF UnsentIsAlone
    <3>5. run'[e] # run[e]
      <4>1. PICK a \in SubmitAnswers, b \in BOOLEAN :
              Becomes(e, [Answered(run[e], M!In("submit", a)) EXCEPT !.blocked_mid_write = b])
        BY <2>2 DEF Sending
      <4> DEFINE x == [Answered(run[e], M!In("submit", a)) EXCEPT !.blocked_mid_write = b]
      <4>2. Onward(run[e], x, <<>>, M!In("submit", a))
        BY <2>2, <3>3, WriteSent DEF Shapes
      <4> HIDE DEF x
      <4>3. run'[e] = x
        BY <4>1 DEF Becomes, Steps, RunsForItems, x
      <4>4. x.todo = <<>>
        BY <4>2 DEF Onward
      <4>5. run'[e].todo = <<>>
        BY <4>3, <4>4
      <4>6. run[e].todo # <<>>
        BY <3>3
      <4> QED  BY <4>5, <4>6
    <3> QED  BY <3>2, <3>4, <3>5
  <2> QED  BY <1>3, <2>1, <2>2, LandedGrows
<1> QED  BY <1>2, <1>3

LEMMA AtSendAfter ==
  ASSUME Steps, Shapes, NEW e \in Devices, At(e, "send")'
  PROVE  run'[e] # None /\ run'[e].todo = <<"send">> /\ (run'[e] = run[e] => At(e, "send"))
<1>1. run'[e] # None /\ run'[e].todo # <<>> /\ Head(run'[e].todo) = "send"
  BY DEF At
<1>2. Shape(run'[e])
  BY <1>1, ShapesStay DEF Shapes, Shape, Waits, Asserted, Intended, Strands, Reads, Parks, Ends,
                          Draft, NoAttemptYet, OnAttempt
<1> QED  BY <1>1, <1>2, ShapeTodo, Heads DEF At

\* A write not sent stays unsent while no write of its attempt is permitted.
LEMMA NeverSentStays ==
  ASSUME TruthfulDenials, Steps, Shapes, AllNamed, NEW a \in Attempts, NeverSent(a),
         \A d \in Devices : Permitting(d) /\ run[d] # None => run[d].m.attempt # a
  PROVE  NeverSent(a)'
<1>1. a \notin landed'
  <2>1. ASSUME NEW d \in Devices, Sending(d), run[d] # None, a = run[d].current_attempt
        PROVE  FALSE
    <3>1. run[d].todo = <<"send">>
      BY <2>1 DEF Sending
    <3>2. At(d, "send")
      BY <2>1, <3>1 DEF At
    <3>3. run[d].m.attempt = a
      BY <2>1, <3>2, AtSend DEF Shapes, OnAttempt
    <3> QED  BY <3>2, <3>3 DEF NeverSent
  <2> QED  BY <2>1, LandedGrows DEF NeverSent
<1>2. ASSUME NEW e \in Devices, At(e, "send")' PROVE run'[e].m.attempt # a
  <2>1. run'[e] # None /\ run'[e].todo = <<"send">> /\ (run'[e] = run[e] => At(e, "send"))
    BY <1>2, AtSendAfter
  <2>2. CASE run'[e] = run[e]
    BY <2>1, <2>2 DEF NeverSent
  <2>3. CASE run[e] # None /\ Permitting(e) /\ run'[e].m.attempt = run[e].m.attempt
    BY <2>3
  <2> QED  BY <2>1, <2>2, <2>3, RunOfAStep
<1> QED  BY <1>1, <1>2 DEF NeverSent

\* A write is permitted under a lease, for an attempt in flight on the item.
LEMMA PermittedIsInFlight ==
  ASSUME Shapes, AllNamed, AllInFlight, NEW d \in Devices, Permitting(d), run[d] # None
  PROVE  LET a == run[d].m.attempt IN
         /\ attempt[a].state = "in_flight" /\ attempt[a].item = run[d].item
         /\ Leased(item[run[d].item])
<1>1. PICK w \in M!Writes : run[d].todo = <<w>>
  BY DEF Permitting
<1>2. OnAttempt(run[d])
  BY <1>1, WritePermitted DEF Shapes
<1>3. run[d].m.attempt \in Own(run[d])
  BY <1>2, NoneAssumption DEF OnAttempt, Own
<1>4. ~Decided(run[d])
  BY <1>1 DEF Decided, M!Writes
<1>5. Held(d)
  BY DEF Permitting
<1> QED  BY <1>3, <1>4, <1>5 DEF AllInFlight, AllNamed, Named, Held

\* The step that writes an attempt off.
LEMMA WrittenOffNow ==
  ASSUME Steps, Shapes, AllNamed, NEW a \in Attempts, ~WrittenOff(a), WrittenOff(a)'
  PROVE  \/ Around /\ attempt[a].state = "in_flight" /\ Relinked(attempt[a].item)
         \/ \E d \in Devices : /\ Settling(d) /\ run[d] # None /\ a = run[d].current_attempt
                               /\ TruthfulDenials => Unsent(run[d])
<1>1. attempt'[a] # attempt[a]
  BY DEF WrittenOff
<1>2. CASE Around
  BY <1>1, <1>2 DEF Around, Released
<1>3. \A d \in Devices, i \in Items : ~Claim(d, i)
  BY <1>1 DEF Claim, claim_for_device
<1>4. ASSUME NEW d \in Devices, Turn(d), run[d] # None
      PROVE  /\ Settling(d) /\ a = run[d].current_attempt
             /\ TruthfulDenials => Unsent(run[d])
  <2>1. ~(Plain(d) \/ Parking(d) \/ Permitting(d) \/ Sending(d) \/ Seeing(d) \/ Finishing(d))
    BY <1>1 DEF Plain, Parking, park, Permitting, Sending, vars, Seeing, Finishing, settle
  <2>2. ~Opening(d)
    BY <1>1 DEF Opening, open_attempt, Steps, TypeOK, WrittenOff
  <2>3. Settling(d)
    BY <1>4, <2>1, <2>2 DEF Turn
  <2>4. PICK v \in Verdicts, landing \in {"none", "landed", "refused", "severed"} :
          /\ settle_attempt(run[d].current_attempt, v, landing)
          /\ v = "abandoned" \/ (v = "failed" /\ Op[run[d].item] = "create")
               => (TruthfulDenials => Unsent(run[d]))
    BY <2>3 DEF Settling
  <2>5. /\ a = run[d].current_attempt
        /\ attempt'[a].state = v /\ attempt'[a].item = attempt[a].item
    <3>1. attempt \in [Attempts -> AttemptRows]
      BY DEF Steps, TypeOK
    <3>2. attempt' = [attempt EXCEPT ![run[d].current_attempt].state = v]
      BY <2>4 DEF settle_attempt
    <3>3. a = run[d].current_attempt
      BY <1>1, <3>1, <3>2
    <3> QED  BY <3>1, <3>2, <3>3 DEF AttemptRows
  <2>6. attempt[a].item = run[d].item
    <3>1. a \in Own(run[d])
      BY <2>5, NoneAssumption DEF Own
    <3> QED  BY <1>4, <3>1 DEF AllNamed, Named
  <2> QED  BY <2>3, <2>4, <2>5, <2>6 DEF WrittenOff
<1> QED  BY <1>2, <1>3, <1>4, StepKinds DEF Steps

LEMMA WrittenOffStays ==
  ASSUME TruthfulDenials, Steps, Linked, UnsentIsAlone, UnsentIsAlone', WrittenOffIsUnsent,
         SignInParksUnsent
  PROVE  WrittenOffIsUnsent'
<1> USE DEF Linked
<1> SUFFICES ASSUME NEW a \in Attempts, WrittenOff(a)' PROVE NeverSent(a)'
  BY DEF WrittenOffIsUnsent, WrittenOff, NeverSent, At
<1>1. CASE WrittenOff(a)
  <2>1. NeverSent(a)
    BY <1>1 DEF WrittenOffIsUnsent
  <2>2. \A d \in Devices : Permitting(d) /\ run[d] # None => run[d].m.attempt # a
    BY <1>1, PermittedIsInFlight DEF WrittenOff
  <2> QED  BY <2>1, <2>2, NeverSentStays
<1>2. CASE /\ ~WrittenOff(a) /\ Around
           /\ attempt[a].state = "in_flight" /\ Relinked(attempt[a].item)
  <2>1. attempt[a].item \in Items
    BY <1>2 DEF Steps, TypeOK, AttemptRows
  <2>2. NeverSent(a)
    BY <1>2, <2>1 DEF SignInParksUnsent, Relinked
  <2> QED  BY <1>2, <2>2 DEF Around, NeverSent, At
<1>3. ASSUME NEW d \in Devices, Settling(d), run[d] # None, a = run[d].current_attempt,
             Unsent(run[d]), ~WrittenOff(a)
      PROVE  NeverSent(a)'
  <2>1. a \notin landed'
    BY <1>3 DEF Settling, UnsentIsAlone
  <2>2. ASSUME NEW e \in Devices, At(e, "send")', run'[e].m.attempt = a PROVE FALSE
    <3>1. run'[e] # None /\ run'[e].todo = <<"send">> /\ (run'[e] = run[e] => At(e, "send"))
      BY <2>2, AtSendAfter
    <3>2. ~Permitting(e)
      BY <1>3 DEF Permitting, WrittenOff
    <3>3. run'[e] = run[e]
      BY <3>1, <3>2, RunOfAStep
    <3>4. Unsent(run[e]) /\ run[e].current_attempt = a /\ run[e] # None
      BY <2>2, <3>1, <3>3, AtSend DEF Shapes, OnAttempt
    <3>5. e = d
      BY <1>3, <3>4 DEF UnsentIsAlone
    <3>6. \/ run'[d] = Abandoned(run[d])
          \/ run'[d] = [run[d] EXCEPT !.todo = <<"settle_item">>] /\ Ends(run[d])
      BY <1>3 DEF Settling, Becomes, Steps, RunsForItems
    <3>7. run'[d].todo # <<"send">>
      <4>1. Shape(run[d]) /\ run[d].current_attempt \in Attempts
        BY <1>3 DEF Shapes
      <4>2. CASE run'[d] = Abandoned(run[d])
        BY <4>1, <4>2, AbandonedIsIdle
      <4> DEFINE x == [run[d] EXCEPT !.todo = <<"settle_item">>]
      <4>3. CASE run'[d] = x /\ Ends(run[d])
        <5>1. Onward(run[d], x, <<"settle_item">>, run[d].pending)
          BY <4>1, <4>3, DecidedRun
        <5> HIDE DEF x
        <5>2. x.todo = <<"settle_item">>
          BY <5>1 DEF Onward
        <5> QED  BY <4>3, <5>2
      <4> QED  BY <3>6, <4>2, <4>3
    <3> QED  BY <3>1, <3>5, <3>7
  <2> QED  BY <2>1, <2>2 DEF NeverSent
<1> QED  BY <1>1, <1>2, <1>3, WrittenOffNow

\* An attempt in flight was so before, unless the step opened it.
LEMMA InFlightBefore ==
  ASSUME Steps, Shapes, NEW a \in Attempts, attempt'[a].state = "in_flight",
         ~\E d \in Devices : Opened(d, a)
  PROVE  attempt'[a] = attempt[a]
<1>1. Around => attempt'[a] = attempt[a]
  BY DEF Around, Released, Steps, TypeOK, AttemptRows
<1>2. \A d \in Devices, i \in Items : Claim(d, i) => attempt'[a] = attempt[a]
  BY DEF Claim, claim_for_device
<1>3. ASSUME NEW d \in Devices, Turn(d), run[d] # None PROVE attempt'[a] = attempt[a]
  <2>1. Plain(d) \/ Parking(d) \/ Permitting(d) \/ Sending(d) \/ Seeing(d) \/ Finishing(d)
          => UNCHANGED attempt
    BY DEF Plain, Parking, park, Permitting, Sending, vars, Seeing, Finishing, settle
  <2>2. ASSUME Opening(d) PROVE attempt'[a] = attempt[a]
    <3>1. PICK c \in Attempts : open_attempt(run[d].item, c)
      BY <2>2 DEF Opening
    <3>2. Opened(d, c)
      BY <2>2, <3>1 DEF Opening, Held, Opened, open_attempt, Steps, TypeOK
    <3> QED  BY <3>1, <3>2 DEF open_attempt, Steps, TypeOK
  <2>3. ASSUME Settling(d) PROVE attempt'[a] = attempt[a]
    <3>1. PICK c \in Attempts, v \in Verdicts :
            attempt' = [attempt EXCEPT ![c].state = v]
      BY <2>3 DEF Settling, settle_attempt
    <3>2. v # "in_flight"
      BY HolderAssumption
    <3>3. attempt \in [Attempts -> AttemptRows]
      BY DEF Steps, TypeOK
    <3>4. c # a
      <4> SUFFICES ASSUME c = a PROVE FALSE
        OBVIOUS
      <4>1. attempt'[a].state = v
        BY <3>1, <3>3 DEF AttemptRows
      <4> QED  BY <3>2, <4>1
    <3> QED  BY <3>1, <3>3, <3>4
  <2> QED  BY <1>3, <2>1, <2>2, <2>3 DEF Turn
<1> QED  BY <1>1, <1>2, <1>3, StepKinds DEF Steps

LEMMA SignInParksStay ==
  ASSUME TruthfulDenials, Steps, Linked, OneInFlight, UnsentIsAlone, SignInParksUnsent
  PROVE  SignInParksUnsent'
<1> USE DEF Linked
<1> SUFFICES ASSUME NEW i \in Items, NEW a \in Attempts, item'[i].gate = "ReauthRequired",
                    attempt'[a].item = i, attempt'[a].state = "in_flight"
             PROVE  NeverSent(a)'
  BY DEF SignInParksUnsent, NeverSent, At
<1>1. item'[i].state = "parked_live"
  BY NoneAssumption DEF Gates, Steps, TypeOK, WellFormed
\* The item was in nobody's hands, or in those of the run that parks it.
<1>2. ASSUME RowMoves(i, item'[i]) PROVE item[i].gate = "ReauthRequired" /\ ~Leased(item[i])
  BY <1>1, <1>2 DEF RowMoves, Leased
<1>3. ASSUME RowMoves(i, item'[i]) PROVE NeverSent(a)'
  <2>1. item[i].gate = "ReauthRequired" /\ ~Leased(item[i])
    BY <1>2, <1>3
  <2>2. ASSUME NEW d \in Devices, Opened(d, a) PROVE FALSE
    <3>1. run[d].item = i
      BY <2>2 DEF Opened
    <3>2. Leased(item[run[d].item])
      BY <2>2 DEF Opened, Held
    <3> QED  BY <2>1, <3>1, <3>2
  <2>3. attempt[a].state = "in_flight" /\ attempt[a].item = i
    BY <2>2, InFlightBefore
  <2>4. NeverSent(a)
    BY <2>1, <2>3 DEF SignInParksUnsent
  <2>5. \A d \in Devices : Permitting(d) /\ run[d] # None => run[d].m.attempt # a
    BY <2>1, <2>3, PermittedIsInFlight
  <2> QED  BY <2>4, <2>5, NeverSentStays
<1>4. ASSUME NEW d \in Devices, Parking(d), run[d] # None, i = run[d].item
      PROVE  NeverSent(a)'
  <2>1. PICK g \in PreparationGates \cup {"ReauthRequired"} :
          park(i, g) /\ (g = "ReauthRequired" => Parks(run[d]))
    BY <1>4 DEF Parking
  <2>2. item'[i].gate = g
    <3>1. item'[i] = Parked(item[i], g, "running")
      BY <2>1 DEF park, Steps, TypeOK
    <3> QED  BY <3>1, TypedLedger, LedgerRows, RowForms DEF Steps
  <2>3. Parks(run[d]) /\ Held(d) /\ UNCHANGED <<attempt, landed>>
    BY <1>4, <2>1, <2>2 DEF Parking, park
  <2>4. /\ Unsent(run[d]) /\ ~Decided(run[d])
        /\ run[d].current_attempt \in Attempts /\ run[d].current_attempt \in Own(run[d])
    <3>1. run[d].m.at = "parked" /\ OnAttempt(run[d])
      BY <2>3 DEF Parks
    <3> QED  BY <2>3, <3>1, ParksUndecided, NoneAssumption DEF Unsent, OnAttempt, Own
  <2>5. /\ attempt[run[d].current_attempt].state = "in_flight"
        /\ attempt[run[d].current_attempt].item = i
    BY <1>4, <2>3, <2>4 DEF AllInFlight, AllNamed, Named
  <2>6. a = run[d].current_attempt
    BY <2>3, <2>4, <2>5 DEF OneInFlight
  <2>7. NeverSent(a)
    <3>1. a \notin landed
      BY <1>4, <2>4, <2>6 DEF UnsentIsAlone
    <3>2. ASSUME NEW e \in Devices, At(e, "send"), run[e].m.attempt = a PROVE FALSE
      <4>1. /\ run[e] # None /\ Unsent(run[e]) /\ run[e].current_attempt = a
            /\ run[e].m.at = "intent_recorded"
        <5>1. Shape(run[e]) /\ run[e] # None
          BY <3>2 DEF Shapes, At
        <5> QED  BY <3>2, <5>1, AtSend, AboutToWrite DEF OnAttempt
      <4>2. e = d
        BY <1>4, <2>4, <2>6, <4>1 DEF UnsentIsAlone
      <4> QED  BY <2>3, <4>1, <4>2 DEF Parks
    <3> QED  BY <3>1, <3>2 DEF NeverSent
  <2>8. ASSUME NEW e \in Devices, Permitting(e), run[e] # None, run[e].m.attempt = a
        PROVE  FALSE
    <3>1. run'[e] # run[e] /\ run[e].m.at = "intent_recorded" /\ Unsent(run[e])
          /\ run[e].current_attempt = a
      <4>1. PICK w \in M!Writes : run[e].todo = <<w>>
        BY <2>8 DEF Permitting
      <4>2. /\ Onward(run[e], [run[e] EXCEPT !.todo[1] = "send"], <<"send">>, run[e].pending)
            /\ Unsent(run[e]) /\ OnAttempt(run[e]) /\ run[e].m.at = "intent_recorded"
        BY <2>8, <4>1, WritePermitted, AboutToWrite DEF Shapes
      <4>3. run'[e].todo = <<"send">> /\ run[e].todo # <<"send">>
        <5>1. run'[e] = [run[e] EXCEPT !.todo[1] = "send"]
          BY <2>8 DEF Permitting, Becomes, Steps, RunsForItems
        <5>2. w # "send"
          BY DEF M!Writes
        <5> QED  BY <4>1, <4>2, <5>1, <5>2 DEF Onward
      <4> QED  BY <2>8, <4>2, <4>3 DEF OnAttempt
    <3>2. e = d
      BY <1>4, <2>4, <2>6, <2>8, <3>1 DEF UnsentIsAlone
    <3> QED  BY <2>3, <3>1, <3>2 DEF Parks
  <2> QED  BY <2>7, <2>8, NeverSentStays
<1>5. RowMoves(i, item'[i]) \/ \E d \in Devices : Parking(d) /\ run[d] # None /\ i = run[d].item
  BY <1>1, ParkedRows
<1> QED  BY <1>3, <1>4, <1>5

-----------------------------------------------------------------------------
(* One create in flight or committed per mapping.                          *)

Creating(a, m, S) ==
  attempt[a].state \in S /\ MappingOf[attempt[a].item] = m /\ Op[attempt[a].item] = "create"

\* A committed create has bound its mapping, and stays alone behind the
\* binding as a create in flight stays alone behind its fence.
OneCreate(m) ==
  /\ binding[m] # "severed"
  /\ \A a \in Attempts : Creating(a, m, {"committed"}) => binding[m] = "bound"
  /\ \A a, b \in Attempts :
       Creating(a, m, {"in_flight", "committed"}) /\ Creating(b, m, {"in_flight", "committed"})
         => a = b
OneCreateEach == \A m \in Mappings : NeverRemoved(m) => OneCreate(m)

\* Nothing but an opening adds a create, and nothing but a settlement commits one.
LEMMA OneCreateKept ==
  ASSUME NEW m, OneCreate(m),
         binding[m] = binding'[m] \/ binding'[m] = "bound",
         \A a \in Attempts :
           /\ Creating(a, m, {"in_flight", "committed"})' =>
                Creating(a, m, {"in_flight", "committed"})
           /\ Creating(a, m, {"committed"})' =>
                Creating(a, m, {"committed"}) \/ binding'[m] = "bound"
  PROVE  OneCreate(m)'
  BY DEF OneCreate

LEMMA OneCreateStays ==
  ASSUME Steps, Shapes, AllNamed, OneCreateEach, NEW m \in Mappings, NeverRemoved(m)
  PROVE  OneCreate(m)'
<1>1. OneCreate(m)
  BY DEF OneCreateEach
<1>2. CASE UNCHANGED <<attempt, binding>>
  BY <1>1, <1>2 DEF OneCreate, Creating
<1>3. CASE UNCHANGED attempt /\ \E n \in Mappings : bind_pasted(n)
  <2>1. binding[m] = binding'[m] \/ binding'[m] = "bound"
    BY <1>3 DEF bind_pasted, Steps, TypeOK
  <2> QED  BY <1>1, <1>3, <2>1, OneCreateKept DEF Creating
<1>4. CASE attempt' = [a \in Attempts |-> Released(a)] /\ UNCHANGED binding
  <2>1. \A a \in Attempts : \/ attempt'[a] = attempt[a]
                            \/ attempt'[a].state = "abandoned"
    BY <1>4 DEF Released, Steps, TypeOK, AttemptRows
  <2> QED  BY <1>1, <1>4, <2>1, OneCreateKept DEF Creating
<1>5. ASSUME NEW i \in Items, NEW c \in Attempts, open_attempt(i, c) PROVE OneCreate(m)'
  <2>1. /\ \A b \in Attempts : b # c => attempt'[b] = attempt[b]
        /\ attempt'[c].item = i /\ attempt'[c].state = "in_flight"
        /\ UNCHANGED binding
    BY <1>5 DEF open_attempt, Steps, TypeOK
  <2>2. CASE MappingOf[i] = m /\ Op[i] = "create"
    <3>1. \A b \in Attempts : ~Creating(b, m, {"in_flight", "committed"})
      BY <1>1, <1>5, <2>2 DEF open_attempt, InFlightOn, OneCreate, Creating
    <3> QED  BY <1>1, <2>1, <3>1 DEF OneCreate, Creating
  <2>3. CASE ~(MappingOf[i] = m /\ Op[i] = "create")
    BY <1>1, <2>1, <2>3, OneCreateKept DEF Creating
  <2> QED  BY <2>2, <2>3
<1>6. ASSUME NEW d \in Devices, Settling(d), run[d] # None PROVE OneCreate(m)'
  <2>1. PICK c \in Attempts, i \in Items : c = run[d].current_attempt /\ i = run[d].item
    BY <1>6 DEF Settling, Shapes, Shape, Runs
  <2>2. attempt[c].item = i
    BY <1>6, <2>1, NoneAssumption DEF Own, AllNamed, Named
  <2>3. PICK v \in Verdicts, landing \in {"none", "landed", "refused", "severed"} :
          /\ settle_attempt(c, v, landing)
          /\ landing = "refused" => binding[MappingOf[i]] # "unbound"
    BY <1>6, <2>1 DEF Settling
  <2>4. /\ attempt[c].state = "in_flight" /\ landing \in Landings(v, i)
        /\ \A b \in Attempts : b # c => attempt'[b] = attempt[b]
        /\ attempt'[c].state = v /\ attempt'[c].item = i
    BY <2>3, <2>2 DEF settle_attempt, Steps, TypeOK, AttemptRows
  <2>5. binding' = CASE landing = "landed" -> [binding EXCEPT ![MappingOf[i]] = "bound"]
                     [] landing = "severed" /\ binding[MappingOf[i]] = "bound" ->
                          [binding EXCEPT ![MappingOf[i]] = "severed"]
                     [] OTHER -> binding
    BY <2>3, <2>2 DEF settle_attempt
  <2>6. MappingOf[i] = m => landing # "severed"
    BY <2>2, <2>4 DEF Landings, NeverRemoved
  <2>7. binding[m] = binding'[m] \/ binding'[m] = "bound"
    BY <2>5, <2>6 DEF Steps, TypeOK
  <2>8. ASSUME Creating(c, m, {"committed"})' PROVE binding'[m] = "bound"
    <3>1. MappingOf[i] = m /\ Op[i] = "create" /\ v = "committed"
      BY <2>4, <2>8 DEF Creating
    <3>2. landing \in {"landed", "refused"}
      BY <2>4, <3>1 DEF Landings
    <3>3. binding \in [Mappings -> {"unbound", "bound", "severed"}]
      BY DEF Steps, TypeOK
    <3>4. landing = "landed" => binding'[m] = "bound"
      BY <2>5, <3>1, <3>3
    <3>5. landing = "refused" => binding'[m] = "bound"
      BY <1>1, <2>3, <2>5, <3>1, <3>3 DEF OneCreate
    <3> QED  BY <3>2, <3>4, <3>5
  <2>9. \A a \in Attempts :
          /\ Creating(a, m, {"in_flight", "committed"})' =>
               Creating(a, m, {"in_flight", "committed"})
          /\ Creating(a, m, {"committed"})' =>
               Creating(a, m, {"committed"}) \/ binding'[m] = "bound"
    BY <2>2, <2>4, <2>8 DEF Creating
  <2> QED  BY <1>1, <2>7, <2>9, OneCreateKept
<1>7. ASSUME NEW d \in Devices, Turn(d), run[d] # None PROVE OneCreate(m)'
  <2>1. Plain(d) \/ Parking(d) \/ Permitting(d) \/ Sending(d) \/ Seeing(d) \/ Finishing(d)
          => UNCHANGED <<attempt, binding>>
    BY DEF Plain, Parking, park, Permitting, Sending, vars, Seeing, Finishing, settle
  <2>2. Opening(d) => \E i \in Items, c \in Attempts : open_attempt(i, c)
    BY <1>7 DEF Opening, Shapes, Shape, Runs
  <2> QED  BY <1>2, <1>5, <1>6, <1>7, <2>1, <2>2 DEF Turn
<1>8. \A d \in Devices, i \in Items : Claim(d, i) => UNCHANGED <<attempt, binding>>
  BY DEF Claim, claim_for_device
<1> QED  BY <1>2, <1>3, <1>4, <1>7, <1>8, StepKinds DEF Around, Steps

LEMMA StandingListings ==
  TypeOK /\ LandedInserted /\ WrittenOffIsUnsent /\ OneCreateEach => OneStandingListing
<1> SUFFICES ASSUME TypeOK, LandedInserted, WrittenOffIsUnsent, OneCreateEach,
                    NEW m \in Mappings, NeverRemoved(m), NEW a \in Listings(m),
                    NEW b \in Listings(m), attempt[a].state # "ambiguous",
                    attempt[b].state # "ambiguous"
             PROVE  a = b
  BY DEF OneStandingListing
<1>1. ASSUME NEW c \in Listings(m), attempt[c].state # "ambiguous"
      PROVE  c \in Attempts /\ Creating(c, m, {"in_flight", "committed"})
  <2>1. /\ c \in landed /\ c \in Attempts /\ attempt[c].state # "none"
        /\ MappingOf[attempt[c].item] = m /\ Op[attempt[c].item] = "create"
    BY DEF Listings, LandedInserted
  <2>2. ~WrittenOff(c)
    BY <2>1 DEF WrittenOffIsUnsent, NeverSent
  <2>3. attempt[c].state \in {"none", "in_flight", "committed", "failed", "ambiguous", "abandoned"}
    BY <2>1 DEF TypeOK, AttemptRows
  <2> QED  BY <1>1, <2>1, <2>2, <2>3 DEF WrittenOff, Creating
<1> QED  BY <1>1 DEF OneCreateEach, OneCreate

Told == OneInFlight /\ UnsentIsAlone /\ WrittenOffIsUnsent /\ SignInParksUnsent

-----------------------------------------------------------------------------
(* The theorems.                                                           *)

LEMMA LinkedAtFirst == DriverInit => Linked
<1> SUFFICES ASSUME DriverInit PROVE Linked
  OBVIOUS
<1>1. \A d \in Devices : run[d] = None
  BY DEF DriverInit
<1>2. landed = {} /\ \A i \in Items : item[i].gate = None /\ item[i].outcome # "succeeded"
  BY DEF DriverInit, Init, NewRow
<1>3. Shapes /\ AllNamed /\ AllInFlight /\ AllDecided /\ AllSeen
  BY <1>1 DEF Shapes, AllNamed, AllInFlight, AllDecided, AllSeen, Held
<1>4. AsksCanBeAnswered
  BY <1>2, NoneAssumption DEF AsksCanBeAnswered, AskGates, Gates, REVIVABLE_GATES
<1> QED  BY <1>2, <1>3, <1>4 DEF Linked, LandedInserted, SucceededIsCommitted

LEMMA DriverIsLinked == DriverSpec => [](TypeOK /\ RunsForItems /\ Linked)
<1>1. DriverInit => RunsForItems
  BY DEF DriverInit, RunsForItems
<1>2. RunsForItems /\ [DriverNext]_driverVars => [Next]_vars /\ RunsForItems'
  BY DriverSteps DEF LedgerStep
<1>3. DriverSpec => []RunsForItems
  BY <1>1, <1>2, PTL DEF DriverSpec
<1>4. DriverSpec => []TypeOK
  BY DriverImplementsLedger, TypeCorrect, PTL
<1>5. /\ TypeOK /\ TypeOK' /\ RunsForItems /\ Linked /\ [DriverNext]_driverVars => Linked'
  BY <1>2, LinkedStays DEF Steps
<1> QED  BY <1>3, <1>4, <1>5, LinkedAtFirst, PTL DEF DriverSpec

\* A run's machine, effects, input and attempt stay within their types, however
\* its calls are answered, and only attempts the ledger has inserted reach the
\* marketplace.
THEOREM DriverTypeCorrect == DriverSpec => []DriverTypeOK
<1>1. RunsForItems /\ Linked => DriverTypeOK
  <2> SUFFICES ASSUME RunsForItems, Linked PROVE DriverTypeOK
    OBVIOUS
  <2>1. run = [d \in Devices |-> run[d]]
    BY DEF RunsForItems
  <2>2. \A d \in Devices : run[d] \in Runs \cup {None}
    BY DEF Linked, Shapes, Shape
  <2> QED  BY <2>1, <2>2 DEF DriverTypeOK, Linked, LandedInserted
<1> QED  BY <1>1, DriverIsLinked, PTL

\* An item parked until the marketplace or the seller answers about its create
\* has that create in flight at its own epoch: the claim that follows the
\* answer searches for it, and does not send a second one.
THEOREM ParkedCreatesCanBeAsked == DriverSpec => []AnswerParkCanBeAsked
<1>1. Linked => AnswerParkCanBeAsked
  BY DEF Linked, AsksCanBeAnswered, AskGates, AnswerParkCanBeAsked
<1> QED  BY <1>1, DriverIsLinked, PTL

\* An item the seller sees succeed was settled under the lease whose attempt is
\* committed, and a create that succeeded left a listing on the marketplace.
THEOREM SuccessIsCommitted == DriverSpec => []SucceededIsCommitted
<1>1. Linked => SucceededIsCommitted
  BY DEF Linked
<1> QED  BY <1>1, DriverIsLinked, PTL

LEMMA WritesAreRemembered ==
  ASSUME TruthfulDenials
  PROVE  DriverSpec => [](Told /\ OneCreateEach)
<1>1. DriverInit => Told /\ OneCreateEach
  <2> SUFFICES ASSUME DriverInit PROVE Told /\ OneCreateEach
    OBVIOUS
  <2>1. /\ \A d \in Devices : run[d] = None
        /\ landed = {}
        /\ \A a \in Attempts : attempt[a].state = "none"
        /\ \A m \in Mappings : binding[m] # "severed"
    BY DEF DriverInit, Init
  <2> QED  BY <2>1 DEF Told, OneInFlight, UnsentIsAlone, WrittenOffIsUnsent, WrittenOff,
                       SignInParksUnsent, OneCreateEach, OneCreate, Creating
<1>2. TypeOK /\ TypeOK' /\ RunsForItems /\ Linked /\ Told /\ OneCreateEach
        /\ [DriverNext]_driverVars => Told' /\ OneCreateEach'
  <2> SUFFICES ASSUME TypeOK, TypeOK', RunsForItems, Linked, Told, OneCreateEach,
                      [DriverNext]_driverVars
               PROVE  Told' /\ OneCreateEach'
    OBVIOUS
  <2>1. Steps
    BY DriverSteps DEF Steps, LedgerStep
  <2>2. OneInFlight'
    BY <2>1, OneInFlightStays DEF Steps, Told
  <2>3. UnsentIsAlone'
    BY <2>1, AloneStays DEF Linked, Told
  <2>4. WrittenOffIsUnsent' /\ SignInParksUnsent'
    BY <2>1, <2>3, WrittenOffStays, SignInParksStay DEF Told
  <2>5. OneCreateEach'
    <3> SUFFICES ASSUME NEW m \in Mappings, NeverRemoved(m) PROVE OneCreate(m)'
      BY DEF OneCreateEach, NeverRemoved
    <3> QED  BY <2>1, OneCreateStays DEF Linked
  <2> QED  BY <2>2, <2>3, <2>4, <2>5 DEF Told
<1> QED  BY <1>1, <1>2, DriverIsLinked, PTL DEF DriverSpec

\* Where no adapter denies a write that landed: an attempt that says it was
\* abandoned was not carried out by the marketplace and no run is about to send
\* it, so a deletion and a re-link may take it for no write at all.
THEOREM AbandonedIsTrue ==
  ASSUME TruthfulDenials
  PROVE  DriverSpec => []AbandonedSentNothing
<1>1. Told => AbandonedSentNothing
  BY DEF Told, WrittenOffIsUnsent, WrittenOff, NeverSent, AbandonedSentNothing
<1> QED  BY <1>1, WritesAreRemembered, PTL

\* Where no adapter denies a write that landed: of the listings the creates of
\* a mapping left, at most one is of a fate that is not told as unknown.
THEOREM ListingsStandAlone ==
  ASSUME TruthfulDenials
  PROVE  DriverSpec => []OneStandingListing
<1>1. TypeOK /\ Linked /\ Told /\ OneCreateEach => OneStandingListing
  BY StandingListings DEF Linked, Told
<1> QED  BY <1>1, WritesAreRemembered, DriverIsLinked, PTL
=============================================================================
