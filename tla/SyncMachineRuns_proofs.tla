---------------------- MODULE SyncMachineRuns_proofs ----------------------
(***************************************************************************)
(* Proofs about one SyncMachine under every sequence of inputs, for every  *)
(* allowance and any number of attempts: what the crate's property suite   *)
(* samples.                                                                *)
(***************************************************************************)
EXTENDS SyncMachineRuns, FiniteSetTheorems, TLAPS

-----------------------------------------------------------------------------
(* Counting the effects of one transition.                                 *)

Some(fx, S) == \E k \in DOMAIN fx : fx[k] \in S

LEMMA CountIsNat ==
  ASSUME NEW fx \in Seq(Effects), NEW S
  PROVE  /\ Count(fx, S) \in Nat
         /\ Count(fx, S) = 0 <=> ~Some(fx, S)
<1> DEFINE C == {k \in DOMAIN fx : fx[k] \in S}
<1>1. DOMAIN fx = 1..Len(fx) /\ Len(fx) \in Nat
  OBVIOUS
<1>2. IsFiniteSet(1..Len(fx))
  BY <1>1, FS_Interval
<1>3. C \in SUBSET (1..Len(fx))
  BY <1>1
<1>4. IsFiniteSet(C)
  BY <1>2, <1>3, FS_Subset
<1>5. Cardinality(C) \in Nat /\ (Cardinality(C) = 0 <=> C = {})
  BY <1>4, FS_CardinalityType, FS_EmptySet
<1>6. C = {} <=> ~Some(fx, S)
  BY DEF Some
<1> QED  BY <1>5, <1>6 DEF Count

LEMMA CountOfOne ==
  ASSUME NEW x, NEW S, x \in S
  PROVE  Count(<<x>>, S) = 1
<1>1. DOMAIN <<x>> = {1} /\ <<x>>[1] = x
  <2>1. 1..1 = {1}
    OBVIOUS
  <2>2. <<x>> \in Seq({x})
    OBVIOUS
  <2>3. Len(<<x>>) = 1
    OBVIOUS
  <2>4. <<x>>[1] = x
    OBVIOUS
  <2> QED  BY <2>1, <2>2, <2>3, <2>4
<1>2. \A fx : DOMAIN fx = {1} /\ fx[1] \in S => {k \in DOMAIN fx : fx[k] \in S} = {1}
  OBVIOUS
<1> QED  BY <1>1, <1>2, FS_Singleton DEF Count

-----------------------------------------------------------------------------
(* The transition table, row by row.  A row is told by where it comes from *)
(* and leads, the attempt it owns, its outcome and what it asks for; every *)
(* transition is one of five kinds.                                        *)

Rows(m0, in, at, a, o, fx) ==
  \/ \* the write, under the attempt whose intent was just recorded
     /\ m0.at = "preflight_asserted" /\ in.kind = "intent"
     /\ at = "intent_recorded" /\ a = in.attempt /\ o = "none"
     /\ fx = <<write_effect(m0)>>
  \/ \* an intent is asked for
     /\ at = "preflight_asserted" /\ a = NoAttempt /\ o = "none"
     /\ fx = <<"record_intent">>
     /\ \/ m0.at = "awaiting_preflight"
        \/ m0.at = "intent_recorded" /\ in = In("submit", "not_sent")
        \/ m0.at = "parked" /\ in = In("challenge_cleared", "ok")
  \/ \* a cleared create starts over
     /\ m0.at = "parked" /\ in = In("challenge_cleared", "ok")
     /\ at = "awaiting_preflight" /\ a = NoAttempt /\ o = "none"
     /\ fx = <<"assert_form">>
  \/ \* the marketplace is asked, or the run stops to be resumed
     /\ at \in {"stranded", "awaiting_read_back", "parked"} /\ o = "none"
     /\ \/ m0.at \in {"intent_recorded", "awaiting_read_back"} /\ a = m0.attempt
        \/ m0.at \in {"awaiting_preflight", "stranded"} /\ in.kind = "resume" /\ a = in.attempt
     /\ ~Some(fx, Writes \cup {"record_intent"})
     /\ at = "awaiting_read_back" => Some(fx, {"read_back", "reconcile"})
  \/ \* the run ends
     /\ at = "terminal" /\ o # "none"
     /\ ~Some(fx, Writes \cup {"record_intent"})
     /\ o = "committed" => m0.at = "awaiting_read_back"
     /\ o = "ambiguous" =>
          \/ m0.at \in {"intent_recorded", "stranded", "awaiting_read_back"} /\ a = m0.attempt
          \/ in.kind = "resume" /\ a = in.attempt

Moves(m0, in, t) ==
  \E at \in StateNames, a \in Attempts \cup {NoAttempt},
     l \in {"none", "durable", "marker", "recorded"},
     o \in MachineOutcomes \cup {"none"}, fx \in Seq(Effects) :
       /\ t = Move(m0, at, a, l, o, fx)
       /\ Len(fx) <= m0.budget \/ (at = "terminal" /\ Len(fx) = 1)
       /\ Rows(m0, in, at, a, o, fx)

Halting(captured) == IF captured THEN <<"capture", "halt", "notify">> ELSE <<"halt", "notify">>

LEMMA HaltingEffects ==
  ASSUME NEW c \in BOOLEAN
  PROVE  /\ Halting(c) \in Seq(Effects)
         /\ ~Some(Halting(c), Writes \cup {"record_intent"})
<1>3. CASE c = TRUE
  <2>1. Halting(c) = <<"capture", "halt", "notify">>
    BY <1>3 DEF Halting
  <2> QED  BY <2>1 DEF Some, Writes, Effects
<1>4. CASE c = FALSE
  <2>1. Halting(c) = <<"halt", "notify">>
    BY <1>4 DEF Halting
  <2> QED  BY <2>1 DEF Some, Writes, Effects
<1> QED  BY <1>3, <1>4

LEMMA Advanced ==
  ASSUME NEW m0 \in Machines, NEW in, NEW at \in StateNames,
         NEW a \in Attempts \cup {NoAttempt},
         NEW l \in {"none", "durable", "marker", "recorded"}, NEW fx \in Seq(Effects),
         Rows(m0, in, at, a, "none", fx), NEW t \in advance(m0, at, a, l, fx)
  PROVE  Moves(m0, in, t)
<1>1. t = Move(m0, at, a, l, "none", fx) /\ Len(fx) <= m0.budget
  BY DEF advance, affordable
<1> QED  BY <1>1 DEF Moves

LEMMA Finished ==
  ASSUME NEW m0 \in Machines, NEW in, NEW a \in Attempts \cup {NoAttempt},
         NEW o \in MachineOutcomes, NEW fx \in Seq(Effects),
         Rows(m0, in, "terminal", a, o, fx), NEW t \in finish(m0, a, o, fx)
  PROVE  Moves(m0, in, t)
<1>1. t = Move(m0, "terminal", a, "none", o, fx) /\ Len(fx) <= m0.budget
  BY DEF finish, affordable
<1> QED  BY <1>1 DEF Moves, StateNames

\* The states a submission may have left behind.
Sent(m0) == m0.at \in {"intent_recorded", "stranded", "awaiting_read_back"}

LEMMA HaltedRow ==
  ASSUME NEW m0 \in Machines, NEW in, NEW a \in Attempts \cup {NoAttempt}, NEW c \in BOOLEAN,
         (Sent(m0) /\ a = m0.attempt) \/ (in.kind = "resume" /\ a = in.attempt),
         NEW t \in halt_ambiguous(m0, a, c)
  PROVE  Moves(m0, in, t)
<1>1. t \in finish(m0, a, "ambiguous", Halting(c))
  BY DEF halt_ambiguous, Halting
<1>2. Rows(m0, in, "terminal", a, "ambiguous", Halting(c))
  BY HaltingEffects DEF Rows, Sent
<1> QED  BY <1>1, <1>2, HaltingEffects, Finished DEF MachineOutcomes

\* The effect lists of the rows that neither write nor ask for an intent.
Quiet == {<<"read_back">>, <<"read_back", "capture">>, <<"reconcile", "capture">>,
          <<"reconcile">>, <<"capture">>, <<"park", "requeue", "notify">>,
          <<>>, <<"notify">>, <<"capture", "halt">>, <<"capture", "halt", "notify">>}

LEMMA QuietEffects ==
  ASSUME NEW fx \in Quiet
  PROVE  fx \in Seq(Effects) /\ ~Some(fx, Writes \cup {"record_intent"})
<1> DEFINE Good(s) == s \in Seq(Effects) /\ ~Some(s, Writes \cup {"record_intent"})
<1>1. Good(<<"read_back">>) /\ Good(<<"reconcile">>)
  BY DEF Some, Writes, Effects
<1>2. Good(<<"read_back", "capture">>) /\ Good(<<"reconcile", "capture">>)
  BY DEF Some, Writes, Effects
<1>3. Good(<<"capture">>) /\ Good(<<"notify">>) /\ Good(<<>>)
  BY DEF Some, Writes, Effects
<1>4. Good(<<"park", "requeue", "notify">>)
  BY DEF Some, Writes, Effects
<1>5. Good(<<"capture", "halt">>) /\ Good(<<"capture", "halt", "notify">>)
  BY DEF Some, Writes, Effects
<1> HIDE DEF Good
<1>6. Good(fx)
  BY <1>1, <1>2, <1>3, <1>4, <1>5 DEF Quiet
<1> QED  BY <1>6 DEF Good

LEMMA AskedRow ==
  ASSUME NEW m0 \in Machines, NEW in, NEW a \in Attempts \cup {NoAttempt},
         \/ m0.at \in {"intent_recorded", "awaiting_read_back"} /\ a = m0.attempt
         \/ /\ m0.at \in {"awaiting_preflight", "stranded"} /\ in.kind = "resume"
            /\ a = in.attempt,
         NEW at \in {"stranded", "awaiting_read_back", "parked"},
         NEW l \in {"none", "durable", "marker", "recorded"},
         NEW fx \in Quiet, fx # <<>>,
         at = "awaiting_read_back" => fx[1] \in {"read_back", "reconcile"},
         NEW t \in advance(m0, at, a, l, fx)
  PROVE  Moves(m0, in, t)
<1>1. fx \in Seq(Effects) /\ ~Some(fx, Writes \cup {"record_intent"}) /\ 1 \in DOMAIN fx
  <2>1. fx \in Seq(Effects) /\ ~Some(fx, Writes \cup {"record_intent"})
    BY QuietEffects
  <2>2. Len(fx) \in Nat /\ Len(fx) # 0 /\ DOMAIN fx = 1..Len(fx)
    BY <2>1
  <2> QED  BY <2>1, <2>2
<1>2. at = "awaiting_read_back" => Some(fx, {"read_back", "reconcile"})
  BY <1>1 DEF Some
<1>3. Rows(m0, in, at, a, "none", fx)
  BY <1>1, <1>2 DEF Rows
<1> QED  BY <1>1, <1>3, Advanced DEF StateNames

LEMMA EndedRow ==
  ASSUME NEW m0 \in Machines, NEW in, NEW a \in Attempts \cup {NoAttempt},
         NEW o \in MachineOutcomes,
         NEW fx \in Quiet,
         o = "committed" => m0.at = "awaiting_read_back",
         o = "ambiguous" => (Sent(m0) /\ a = m0.attempt) \/ (in.kind = "resume" /\ a = in.attempt)
  PROVE  /\ fx \in Seq(Effects)
         /\ Rows(m0, in, "terminal", a, o, fx)
<1>1. fx \in Seq(Effects) /\ ~Some(fx, Writes \cup {"record_intent"})
  BY QuietEffects
<1> QED  BY <1>1 DEF Rows, Sent, MachineOutcomes

LEMMA EndedMoves ==
  ASSUME NEW m0 \in Machines, NEW in, NEW a \in Attempts \cup {NoAttempt},
         NEW o \in MachineOutcomes,
         NEW fx \in Quiet,
         o = "committed" => m0.at = "awaiting_read_back",
         o = "ambiguous" => (Sent(m0) /\ a = m0.attempt) \/ (in.kind = "resume" /\ a = in.attempt),
         NEW t \in finish(m0, a, o, fx)
  PROVE  Moves(m0, in, t)
  BY EndedRow, Finished

LEMMA AskingRow ==
  ASSUME NEW m0 \in Machines, NEW in,
         \/ m0.at = "awaiting_preflight"
         \/ m0.at = "intent_recorded" /\ in = In("submit", "not_sent")
         \/ m0.at = "parked" /\ in = In("challenge_cleared", "ok"),
         NEW t \in advance(m0, "preflight_asserted", NoAttempt, "none", <<"record_intent">>)
  PROVE  Moves(m0, in, t)
<1>1. Rows(m0, in, "preflight_asserted", NoAttempt, "none", <<"record_intent">>)
  BY DEF Rows
<1>2. <<"record_intent">> \in Seq(Effects)
  BY DEF Effects
<1> QED  BY <1>1, <1>2, Advanced DEF StateNames

LEMMA ResumedRow ==
  ASSUME NEW m0 \in Machines, NEW in, NEW a \in Attempts, in.kind = "resume", a = in.attempt,
         m0.at \in {"awaiting_preflight", "stranded"}, NEW t \in resume_stranded(m0, a)
  PROVE  Moves(m0, in, t)
<1> DEFINE l == IF m0.strategy = "marker" THEN "marker" ELSE "recorded"
<1>1. CASE t \in advance(m0, "awaiting_read_back", a, l, <<"reconcile">>)
  BY <1>1, AskedRow DEF Quiet
<1>2. CASE t \in finish(m0, a, "ambiguous", <<"notify">>)
  BY <1>2, EndedMoves DEF MachineOutcomes, Quiet
<1> QED  BY <1>1, <1>2 DEF resume_stranded

LEMMA ReadBackRow ==
  ASSUME NEW m0 \in Machines, NEW in, NEW identified \in BOOLEAN,
         m0.at \in {"intent_recorded", "awaiting_read_back"},
         NEW t \in await_read_back(m0, m0.attempt, identified)
  PROVE  Moves(m0, in, t)
<1> DEFINE l == IF identified THEN "durable" ELSE "marker"
<1>1. m0.attempt \in Attempts \cup {NoAttempt} /\ Sent(m0)
  BY DEF Machines, Sent
<1>2. CASE t \in advance(m0, "awaiting_read_back", m0.attempt, l, <<"read_back">>)
  BY <1>1, <1>2, AskedRow DEF Quiet
<1>3. CASE t \in halt_ambiguous(m0, m0.attempt, TRUE)
  BY <1>1, <1>3, HaltedRow
<1> QED  BY <1>2, <1>3 DEF await_read_back

LEMMA ReconcileRow ==
  ASSUME NEW m0 \in Machines, NEW in, m0.at = "intent_recorded",
         NEW t \in reconcile(m0, m0.attempt)
  PROVE  Moves(m0, in, t)
<1>1. m0.attempt \in Attempts \cup {NoAttempt} /\ Sent(m0)
  BY DEF Machines, Sent
<1>2. CASE t \in advance(m0, "awaiting_read_back", m0.attempt, "durable",
                         <<"read_back", "capture">>)
  BY <1>1, <1>2, AskedRow DEF Quiet
<1>3. CASE t \in advance(m0, "awaiting_read_back", m0.attempt, "marker",
                         <<"reconcile", "capture">>)
  BY <1>1, <1>3, AskedRow DEF Quiet
<1>4. CASE t \in halt_ambiguous(m0, m0.attempt, TRUE)
  BY <1>1, <1>4, HaltedRow
<1> QED  BY <1>2, <1>3, <1>4 DEF reconcile

LEMMA AmbiguousRow ==
  ASSUME NEW m0 \in Machines, NEW in, m0.at = "intent_recorded",
         NEW t \in ambiguous_submit(m0, m0.attempt)
  PROVE  Moves(m0, in, t)
<1>1. m0.attempt \in Attempts \cup {NoAttempt} /\ Sent(m0)
  BY DEF Machines, Sent
<1>2. CASE t \in advance(m0, "stranded", m0.attempt, "recorded", <<"capture">>)
  BY <1>1, <1>2, AskedRow DEF Quiet
<1>3. CASE t \in halt_ambiguous(m0, m0.attempt, TRUE)
  BY <1>1, <1>3, HaltedRow
<1> QED  BY <1>2, <1>3, ReconcileRow DEF ambiguous_submit

LEMMA ChallengedRow ==
  ASSUME NEW m0 \in Machines, NEW in, m0.at = "intent_recorded", NEW c,
         NEW t \in challenged(m0, m0.attempt, c)
  PROVE  Moves(m0, in, t)
<1>1. m0.attempt \in Attempts \cup {NoAttempt}
  BY DEF Machines
<1>2. CASE t \in advance(m0, "parked", m0.attempt, "none", <<"park", "requeue", "notify">>)
  BY <1>1, <1>2, AskedRow DEF Quiet
<1>3. CASE t \in finish(m0, m0.attempt, "blocked", <<>>)
  BY <1>1, <1>3, EndedMoves DEF MachineOutcomes, Quiet
<1> QED  BY <1>2, <1>3, AmbiguousRow DEF challenged

LEMMA SubmitRow ==
  ASSUME NEW m0 \in Machines, NEW in \in Inputs, m0.at = "intent_recorded",
         NEW t \in intent_recorded_rows(m0, in)
  PROVE  Moves(m0, in, t)
<1>1. in.kind = "submit" /\ in = In("submit", in.answer)
      /\ in.answer \in {"landed", "unidentified"} \cup AdapterErrors
  BY DEF intent_recorded_rows, Inputs, In, InOn
<1>2. m0.attempt \in Attempts \cup {NoAttempt}
  BY DEF Machines
<1>3. CASE in.answer \in {"landed", "unidentified"}
  <2>1. CASE in.answer = "landed"
    <3>1. t \in await_read_back(m0, m0.attempt, TRUE)
      BY <1>1, <2>1 DEF intent_recorded_rows, await_read_back, Challenges
    <3> QED  BY <3>1, ReadBackRow
  <2>2. CASE in.answer = "unidentified"
    <3>1. t \in await_read_back(m0, m0.attempt, FALSE)
      BY <1>1, <2>2 DEF intent_recorded_rows, await_read_back, Challenges
    <3> QED  BY <3>1, ReadBackRow
  <2> QED  BY <1>3, <2>1, <2>2
<1>4. CASE in.answer = "ambiguous"
  BY <1>1, <1>4, AmbiguousRow DEF intent_recorded_rows, Challenges
<1>5. CASE in.answer = "rejected"
  BY <1>1, <1>2, <1>5, EndedMoves DEF intent_recorded_rows, MachineOutcomes, Challenges, Quiet
<1>6. CASE in.answer \in Challenges
  BY <1>1, <1>6, ChallengedRow DEF intent_recorded_rows, Challenges
<1>7. CASE in.answer = "expired"
  BY <1>1, <1>7, ChallengedRow DEF intent_recorded_rows, Challenges
<1>8. CASE in.answer = "drift"
  BY <1>1, <1>2, <1>8, EndedMoves DEF intent_recorded_rows, MachineOutcomes, Challenges, Quiet
<1>9. CASE in.answer \in {"rate_limited", "uncaptured"}
  BY <1>1, <1>2, <1>9, EndedMoves DEF intent_recorded_rows, MachineOutcomes, Challenges, Quiet
<1>10. CASE in.answer = "not_sent"
  <2>1. t \in advance(m0, "preflight_asserted", NoAttempt, "none", <<"record_intent">>)
    BY <1>1, <1>10 DEF intent_recorded_rows, Challenges, never_sent
  <2> QED  BY <1>1, <1>10, <2>1, AskingRow
<1> QED  BY <1>1, <1>3, <1>4, <1>5, <1>6, <1>7, <1>8, <1>9, <1>10 DEF AdapterErrors

LEMMA ObservedRow ==
  ASSUME NEW m0 \in Machines, NEW in, m0.at = "awaiting_read_back", NEW p \in BOOLEAN,
         NEW t \in observed_rows(m0, p)
  PROVE  Moves(m0, in, t)
<1>1. m0.attempt \in Attempts \cup {NoAttempt} /\ Sent(m0)
  BY DEF Machines, Sent
<1>2. CASE t \in finish(m0, m0.attempt, "committed", <<>>)
  BY <1>1, <1>2, EndedMoves DEF MachineOutcomes, Quiet
<1>3. CASE t \in finish(m0, m0.attempt, "rejected", <<>>)
  BY <1>1, <1>3, EndedMoves DEF MachineOutcomes, Quiet
<1>4. CASE t \in halt_ambiguous(m0, m0.attempt, TRUE)
  BY <1>1, <1>4, HaltedRow
<1> QED  BY <1>2, <1>3, <1>4 DEF observed_rows

LEMMA AwaitingReadBackRow ==
  ASSUME NEW m0 \in Machines, NEW in \in Inputs, m0.at = "awaiting_read_back",
         NEW t \in awaiting_read_back_rows(m0, in)
  PROVE  Moves(m0, in, t)
<1>1. m0.attempt \in Attempts \cup {NoAttempt} /\ Sent(m0)
  BY DEF Machines, Sent
<1>2. CASE t \in observed_rows(m0, in.answer = "seen")
  <2>1. t \in observed_rows(m0, TRUE) \/ t \in observed_rows(m0, FALSE)
    BY <1>2 DEF observed_rows
  <2> QED  BY <2>1, ObservedRow
<1>3. CASE t \in halt_ambiguous(m0, m0.attempt, TRUE)
  BY <1>1, <1>3, HaltedRow
<1>4. CASE t \in await_read_back(m0, m0.attempt, TRUE)
  BY <1>4, ReadBackRow
<1>5. CASE t \in halt_ambiguous(m0, m0.attempt, FALSE)
  BY <1>1, <1>5, HaltedRow
<1>6. t \in awaiting_read_back_rows(m0, in)
  OBVIOUS
<1>7. \/ in.kind = "read_back" /\ in.answer \in {"seen", "unproved"}
      \/ in.kind = "read_back" /\ in.answer = "ambiguous"
      \/ in.kind = "reconcile" /\ in.answer = "found"
      \/ in.kind = "reconcile" /\ in.answer # "found"
  BY <1>6 DEF awaiting_read_back_rows
<1> QED  BY <1>2, <1>3, <1>4, <1>5, <1>6, <1>7 DEF awaiting_read_back_rows

\* The rows an operation enters the graph by.
LEMMA EntryRow ==
  ASSUME NEW m0 \in Machines, NEW in, m0.at = "parked", in = In("challenge_cleared", "ok"),
         NEW t \in entry_row(m0)
  PROVE  Moves(m0, in, t)
<1>1. CASE t \in advance(m0, "awaiting_preflight", NoAttempt, "none", <<"assert_form">>)
  <2>1. Rows(m0, in, "awaiting_preflight", NoAttempt, "none", <<"assert_form">>)
    BY DEF Rows
  <2>2. <<"assert_form">> \in Seq(Effects)
    BY DEF Effects
  <2> QED  BY <1>1, <2>1, <2>2, Advanced DEF StateNames
<1>2. CASE t \in advance(m0, "preflight_asserted", NoAttempt, "none", <<"record_intent">>)
  BY <1>2, AskingRow
<1> QED  BY <1>1, <1>2 DEF entry_row

LEMMA ParkedRow ==
  ASSUME NEW m0 \in Machines, NEW in \in Inputs, m0.at = "parked", NEW t \in parked_rows(m0, in)
  PROVE  Moves(m0, in, t)
<1>1. CASE in.kind = "challenge_cleared" /\ t \in entry_row(m0)
  <2>1. in = In("challenge_cleared", "ok")
    BY <1>1 DEF Inputs, In, InOn
  <2> QED  BY <1>1, <2>1, EntryRow
<1>2. CASE t \in finish(m0, NoAttempt, "blocked", <<"notify">>)
  BY <1>2, EndedMoves DEF MachineOutcomes, Quiet
<1> QED  BY <1>1, <1>2 DEF parked_rows

LEMMA PreflightRow ==
  ASSUME NEW m0 \in Machines, NEW in \in Inputs, m0.at = "awaiting_preflight",
         NEW t \in awaiting_preflight_rows(m0, in)
  PROVE  Moves(m0, in, t)
<1>1. CASE in.kind = "resume" /\ t \in resume_stranded(m0, in.attempt)
  <2>1. in.attempt \in Attempts
    BY <1>1 DEF Inputs, In, InOn
  <2> QED  BY <1>1, <2>1, ResumedRow
<1>2. CASE t \in advance(m0, "preflight_asserted", NoAttempt, "none", <<"record_intent">>)
  BY <1>2, AskingRow
<1>3. CASE t \in finish(m0, NoAttempt, "rejected", <<"capture", "halt", "notify">>)
  BY <1>3, EndedMoves DEF MachineOutcomes, Quiet
<1> QED  BY <1>1, <1>2, <1>3 DEF awaiting_preflight_rows

LEMMA IntentRow ==
  ASSUME NEW m0 \in Machines, NEW in \in Inputs, m0.at = "preflight_asserted",
         NEW t \in preflight_asserted_rows(m0, in)
  PROVE  Moves(m0, in, t)
<1>1. /\ in.kind = "intent" /\ m0.op # "publish"
      /\ t \in advance(m0, "intent_recorded", in.attempt, "none", <<write_effect(m0)>>)
  BY DEF preflight_asserted_rows
<1>2. in.attempt \in Attempts
  BY <1>1 DEF Inputs, In, InOn
<1>3. write_effect(m0) \in Effects
  BY <1>1 DEF write_effect, Machines, Operations, Effects, Writes
<1>4. <<write_effect(m0)>> \in Seq(Effects)
  BY <1>3
<1>5. Rows(m0, in, "intent_recorded", in.attempt, "none", <<write_effect(m0)>>)
  BY <1>1 DEF Rows
<1> QED  BY <1>1, <1>2, <1>4, <1>5, Advanced DEF StateNames

LEMMA ExhaustedRow ==
  ASSUME NEW m0 \in Machines, NEW in, m0.at # "terminal", NEW t \in exhaust_budget(m0)
  PROVE  Moves(m0, in, t)
<1> DEFINE o == IF NothingSent(m0) THEN "skipped" ELSE "ambiguous"
<1>1. m0.attempt \in Attempts \cup {NoAttempt} /\ m0.at \in StateNames /\ o \in MachineOutcomes
  BY DEF Machines, MachineOutcomes
<1>2. o = "ambiguous" => Sent(m0)
  BY <1>1 DEF NothingSent, Sent, StateNames
<1>3. <<"capture">> \in Seq(Effects) /\ Rows(m0, in, "terminal", m0.attempt, o, <<"capture">>)
  BY <1>1, <1>2, EndedRow DEF Quiet
<1>4. t = Move(m0, "terminal", m0.attempt, "none", o, <<"capture">>)
  BY DEF exhaust_budget
<1>5. Len(<<"capture">>) = 1
  OBVIOUS
<1> QED  BY <1>1, <1>3, <1>4, <1>5 DEF Moves, StateNames

LEMMA StepMoves ==
  ASSUME NEW m0 \in Machines, NEW in \in Inputs, NEW t \in step(m0, in)
  PROVE  m0.at # "terminal" /\ ~attempt_conflict(m0, in) /\ Moves(m0, in, t)
<1>1. m0.at # "terminal" /\ ~attempt_conflict(m0, in) /\ m0.at \in StateNames
  BY DEF step, Machines
<1>2. CASE in.kind = "budget_exhausted"
  BY <1>1, <1>2, ExhaustedRow DEF step
<1>3. CASE in.kind # "budget_exhausted" /\ m0.at = "stranded"
  <2>1. in.kind = "resume" /\ t \in resume_stranded(m0, in.attempt)
    BY <1>1, <1>3 DEF step, stranded_rows
  <2>2. in.attempt \in Attempts
    BY <2>1 DEF Inputs, In, InOn
  <2> QED  BY <1>1, <1>3, <2>1, <2>2, ResumedRow
<1>4. CASE in.kind # "budget_exhausted" /\ m0.at = "awaiting_preflight"
  BY <1>1, <1>4, PreflightRow DEF step
<1>5. CASE in.kind # "budget_exhausted" /\ m0.at = "preflight_asserted"
  BY <1>1, <1>5, IntentRow DEF step
<1>6. CASE in.kind # "budget_exhausted" /\ m0.at = "intent_recorded"
  BY <1>1, <1>6, SubmitRow DEF step
<1>7. CASE in.kind # "budget_exhausted" /\ m0.at = "awaiting_read_back"
  BY <1>1, <1>7, AwaitingReadBackRow DEF step
<1>8. CASE in.kind # "budget_exhausted" /\ m0.at = "parked"
  BY <1>1, <1>8, ParkedRow DEF step
<1> QED  BY <1>1, <1>2, <1>3, <1>4, <1>5, <1>6, <1>7, <1>8 DEF StateNames

-----------------------------------------------------------------------------
(* The inductive invariant, part by part.                                  *)

\* An attempt nobody has named has no write; a named one has at most one.
OneWriteEach == \A a \in Attempts : writes[a] <= 1 /\ (a \notin issued => writes[a] = 0)

\* A run that waits for its intent's row has asked for one more intent than
\* it has written, and has been given leave for one more write.
AheadOfItsWrites ==
  /\ total <= intents
  /\ m.at = "preflight_asserted" => total + 1 <= intents
  /\ total <= 1 + retries
  /\ m.at \in {"awaiting_preflight", "preflight_asserted"} => total <= retries

\* A state a submission may have left behind owns an attempt of this run's,
\* or of the run that stranded it.
Accounted(a) == a \in Attempts /\ (resumed \/ writes[a] = 1)
OwnsItsAttempt ==
  /\ Sent(m) => Accounted(m.attempt)
  /\ m.outcome = "ambiguous" => Accounted(m.attempt)

Looked ==
  /\ m.at = "awaiting_read_back" => looked
  /\ m.outcome = "committed" => looked

\* Until the run ends the allowance is exact; the last diagnostic of an
\* exhausted run is the one effect nobody was charged for.
Exact ==
  \/ m.budget + emitted = start
  \/ m.at = "terminal" /\ m.budget = 0 /\ emitted = start + 1

Inv == TypeOK /\ OneWriteEach /\ AheadOfItsWrites /\ OwnsItsAttempt /\ Looked /\ Exact

(* One step, with the row it takes.                                        *)
Taken(in, at, a, o, fx) ==
  /\ m.at # "terminal" /\ Rows(m, in, at, a, o, fx)
  /\ at \in StateNames /\ a \in Attempts \cup {NoAttempt} /\ fx \in Seq(Effects)
  /\ o \in MachineOutcomes \cup {"none"}
  /\ Len(fx) <= m.budget \/ (at = "terminal" /\ Len(fx) = 1)
  /\ in.kind = "intent" => in.attempt \notin issued
  /\ m' \in Machines
  /\ m'.at = at /\ m'.attempt = a /\ m'.outcome = o
  /\ m'.budget = charged(m.budget, Len(fx))
  /\ writes' = [b \in Attempts |-> writes[b] + (IF b = a THEN Count(fx, Writes) ELSE 0)]
  /\ total' = total + Count(fx, Writes)
  /\ intents' = intents + Count(fx, {"record_intent"})
  /\ looked' = (looked \/ Count(fx, {"read_back", "reconcile"}) > 0)
  /\ emitted' = emitted + Len(fx)
  /\ issued' = IF in.kind = "intent" THEN issued \cup {in.attempt} ELSE issued
  /\ retries' = IF in \in {In("challenge_cleared", "ok"), In("submit", "not_sent")}
                THEN retries + 1 ELSE retries
  /\ resumed' = (resumed \/ in.kind = "resume")
  /\ start' = start

LEMMA TakeIsARow ==
  ASSUME TypeOK, NEW in \in Inputs, Take(in)
  PROVE  \E at \in StateNames, a \in Attempts \cup {NoAttempt},
            o \in MachineOutcomes \cup {"none"}, fx \in Seq(Effects) : Taken(in, at, a, o, fx)
<1>1. m \in Machines
  BY DEF TypeOK
<1>2. PICK t \in step(m, in) :
        /\ m' = t.next
        /\ writes' = [a \in Attempts |->
                        writes[a] + (IF a = t.next.attempt THEN Count(t.effects, Writes) ELSE 0)]
        /\ total' = total + Count(t.effects, Writes)
        /\ intents' = intents + Count(t.effects, {"record_intent"})
        /\ looked' = (looked \/ Count(t.effects, {"read_back", "reconcile"}) > 0)
        /\ emitted' = emitted + Len(t.effects)
  BY DEF Take
<1>3. m.at # "terminal" /\ Moves(m, in, t)
  BY <1>1, <1>2, StepMoves
<1>4. PICK at \in StateNames, a \in Attempts \cup {NoAttempt},
           l \in {"none", "durable", "marker", "recorded"},
           o \in MachineOutcomes \cup {"none"}, fx \in Seq(Effects) :
             /\ t = Move(m, at, a, l, o, fx)
             /\ Len(fx) <= m.budget \/ (at = "terminal" /\ Len(fx) = 1)
             /\ Rows(m, in, at, a, o, fx)
  BY <1>3 DEF Moves
<1>5. m.budget \in Nat /\ Len(fx) \in Nat
  BY <1>1 DEF Machines
<1>6. charged(m.budget, Len(fx)) \in Nat
  BY <1>5 DEF charged
<1>7. /\ t.effects = fx
      /\ t.next = [m EXCEPT !.at = at, !.attempt = a, !.locator = l, !.outcome = o,
                            !.budget = charged(m.budget, Len(fx))]
  BY <1>4 DEF Move
<1>8. /\ t.next \in Machines /\ t.next.at = at /\ t.next.attempt = a /\ t.next.outcome = o
      /\ t.next.budget = charged(m.budget, Len(fx))
  BY <1>1, <1>6, <1>7 DEF Machines
<1>9. /\ in.kind = "intent" => in.attempt \notin issued
      /\ issued' = IF in.kind = "intent" THEN issued \cup {in.attempt} ELSE issued
      /\ retries' = IF in \in {In("challenge_cleared", "ok"), In("submit", "not_sent")}
                    THEN retries + 1 ELSE retries
      /\ resumed' = (resumed \/ in.kind = "resume")
      /\ start' = start
  BY DEF Take
<1>10. Taken(in, at, a, o, fx)
  BY <1>2, <1>3, <1>4, <1>7, <1>8, <1>9 DEF Taken
<1> QED  BY <1>4, <1>10

\* How many writes and intents a row asks for.
LEMMA RowCounts ==
  ASSUME NEW m0 \in Machines, NEW in, NEW at, NEW a, NEW o, NEW fx \in Seq(Effects),
         Rows(m0, in, at, a, o, fx)
  PROVE  /\ Count(fx, Writes) \in Nat /\ Count(fx, {"record_intent"}) \in Nat
         /\ Count(fx, Writes) # 0 => /\ Count(fx, Writes) = 1
                                     /\ m0.at = "preflight_asserted" /\ in.kind = "intent"
                                     /\ at = "intent_recorded" /\ a = in.attempt
         /\ at = "preflight_asserted" => Count(fx, {"record_intent"}) = 1
         /\ at = "intent_recorded" => /\ Count(fx, Writes) = 1
                                      /\ m0.at = "preflight_asserted" /\ in.kind = "intent"
         /\ at = "awaiting_read_back" => Count(fx, {"read_back", "reconcile"}) # 0
<1>1. \A S : Count(fx, S) \in Nat /\ (Count(fx, S) = 0 <=> ~Some(fx, S))
  BY CountIsNat
<1>2. CASE fx = <<write_effect(m0)>> /\ m0.at = "preflight_asserted" /\ in.kind = "intent"
           /\ at = "intent_recorded" /\ a = in.attempt
  <2>1. CASE write_effect(m0) \in Writes
    <3>1. Count(fx, Writes) = 1
      BY <1>2, <2>1, CountOfOne
    <3> QED  BY <1>1, <1>2, <3>1
  <2>2. CASE write_effect(m0) \notin Writes
    <3>1. m0.op = "publish" /\ write_effect(m0) = "publish"
      BY <2>2 DEF write_effect, Writes, Machines, Operations
    <3>2. fx[1] = "publish" /\ fx[1] \in Effects
      BY <1>2, <3>1
    <3> QED  BY <3>2 DEF Effects, Writes
  <2> QED  BY <2>1, <2>2
<1>3. CASE fx = <<"record_intent">> /\ at = "preflight_asserted"
  <2>1. Count(fx, {"record_intent"}) = 1
    BY <1>3, CountOfOne
  <2>2. ~Some(fx, Writes)
    BY <1>3 DEF Some, Writes
  <2> QED  BY <1>1, <1>3, <2>1, <2>2
<1>4. CASE fx = <<"assert_form">> /\ at = "awaiting_preflight"
  <2>1. ~Some(fx, Writes)
    BY <1>4 DEF Some, Writes
  <2> QED  BY <1>1, <1>4, <2>1
<1>5. CASE /\ at \in {"stranded", "awaiting_read_back", "parked", "terminal"}
           /\ ~Some(fx, Writes \cup {"record_intent"})
           /\ at = "awaiting_read_back" => Some(fx, {"read_back", "reconcile"})
  <2>1. ~Some(fx, Writes)
    BY <1>5 DEF Some
  <2> QED  BY <1>1, <1>5, <2>1
<1> QED  BY <1>2, <1>3, <1>4, <1>5 DEF Rows

LEMMA TypeStays ==
  ASSUME TypeOK, NEW in \in Inputs, NEW at, NEW a, NEW o, NEW fx, Taken(in, at, a, o, fx)
  PROVE  TypeOK'
<1>1. \A S : Count(fx, S) \in Nat
  BY CountIsNat DEF Taken
<1>2. Len(fx) \in Nat
  BY DEF Taken
<1>3. issued' \subseteq Attempts
  BY DEF TypeOK, Taken, Inputs, In, InOn
<1>4. writes' \in [Attempts -> Nat] /\ total' \in Nat /\ intents' \in Nat /\ emitted' \in Nat
  BY <1>1, <1>2 DEF TypeOK, Taken
<1>5. retries' \in Nat /\ looked' \in BOOLEAN /\ resumed' \in BOOLEAN
  BY DEF TypeOK, Taken
<1>6. m' \in Machines /\ start' \in StartBudgets
  BY DEF TypeOK, Taken
<1> QED  BY <1>3, <1>4, <1>5, <1>6 DEF TypeOK

LEMMA OneWriteStays ==
  ASSUME TypeOK, OneWriteEach, NEW in \in Inputs, NEW at, NEW a, NEW o, NEW fx,
         Taken(in, at, a, o, fx)
  PROVE  OneWriteEach'
<1> SUFFICES ASSUME NEW b \in Attempts
             PROVE  writes'[b] <= 1 /\ (b \notin issued' => writes'[b] = 0)
  BY DEF OneWriteEach
<1>1. /\ Count(fx, Writes) \in Nat
      /\ Count(fx, Writes) # 0 => /\ Count(fx, Writes) = 1 /\ in.kind = "intent"
                                  /\ a = in.attempt
  BY RowCounts DEF TypeOK, Taken
<1>2. writes[b] \in Nat /\ writes[b] <= 1 /\ (b \notin issued => writes[b] = 0)
  BY DEF OneWriteEach, TypeOK
<1>3. writes'[b] = writes[b] + (IF b = a THEN Count(fx, Writes) ELSE 0)
  BY DEF Taken
<1>4. /\ in.kind = "intent" => in.attempt \notin issued
      /\ issued' = IF in.kind = "intent" THEN issued \cup {in.attempt} ELSE issued
  BY DEF Taken
<1>5. CASE b = a /\ Count(fx, Writes) # 0
  BY <1>1, <1>2, <1>3, <1>4, <1>5
<1>6. CASE ~(b = a /\ Count(fx, Writes) # 0)
  <2>1. writes'[b] = writes[b]
    BY <1>1, <1>2, <1>3, <1>6
  <2> QED  BY <1>2, <1>4, <2>1
<1> QED  BY <1>5, <1>6

LEMMA AheadStays ==
  ASSUME TypeOK, AheadOfItsWrites, NEW in \in Inputs, NEW at, NEW a, NEW o, NEW fx,
         Taken(in, at, a, o, fx)
  PROVE  AheadOfItsWrites'
<1>1. /\ Count(fx, Writes) \in Nat /\ Count(fx, {"record_intent"}) \in Nat
      /\ Count(fx, Writes) # 0 => /\ Count(fx, Writes) = 1
                                  /\ m.at = "preflight_asserted" /\ at = "intent_recorded"
      /\ at = "preflight_asserted" => Count(fx, {"record_intent"}) = 1
  BY RowCounts DEF TypeOK, Taken
<1>2. /\ total \in Nat /\ intents \in Nat /\ retries \in Nat
      /\ total' = total + Count(fx, Writes) /\ intents' = intents + Count(fx, {"record_intent"})
      /\ m'.at = at
  BY DEF TypeOK, Taken
<1>3. retries' \in Nat /\ retries' >= retries
  BY <1>2 DEF Taken
<1>4. at \in {"awaiting_preflight", "preflight_asserted"} =>
        \/ m.at \in {"awaiting_preflight", "preflight_asserted"}
        \/ retries' = retries + 1
  BY DEF Taken, Rows
<1>5. /\ total <= intents
      /\ m.at = "preflight_asserted" => total + 1 <= intents
      /\ total <= 1 + retries
      /\ m.at \in {"awaiting_preflight", "preflight_asserted"} => total <= retries
  BY DEF AheadOfItsWrites
<1>6. CASE Count(fx, Writes) = 0
  <2>1. total' = total
    BY <1>2, <1>6
  <2>2. intents' >= intents /\ intents' \in Nat /\ (at = "preflight_asserted" => intents' = intents + 1)
    BY <1>1, <1>2
  <2>3. total' <= intents' /\ (at = "preflight_asserted" => total' + 1 <= intents')
    BY <1>2, <1>5, <2>1, <2>2
  <2>4. /\ total' <= 1 + retries'
        /\ at \in {"awaiting_preflight", "preflight_asserted"} => total' <= retries'
    BY <1>2, <1>3, <1>4, <1>5, <2>1
  <2> QED  BY <1>2, <2>3, <2>4 DEF AheadOfItsWrites
<1>7. CASE Count(fx, Writes) # 0
  <2>1. total' = total + 1 /\ m.at = "preflight_asserted" /\ at = "intent_recorded"
    BY <1>1, <1>2, <1>7
  <2>2. intents' >= intents /\ intents' \in Nat
    BY <1>1, <1>2
  <2> QED  BY <1>2, <1>3, <1>5, <2>1, <2>2 DEF AheadOfItsWrites
<1> QED  BY <1>6, <1>7

LEMMA OwnershipStays ==
  ASSUME TypeOK, OneWriteEach, OwnsItsAttempt, NEW in \in Inputs, NEW at, NEW a, NEW o, NEW fx,
         Taken(in, at, a, o, fx)
  PROVE  OwnsItsAttempt'
<1>1. /\ Count(fx, Writes) \in Nat
      /\ Count(fx, Writes) # 0 => at = "intent_recorded"
      /\ at = "intent_recorded" => Count(fx, Writes) = 1 /\ in.kind = "intent"
  BY RowCounts DEF TypeOK, Taken
<1>2. /\ m'.at = at /\ m'.attempt = a /\ m'.outcome = o
      /\ resumed' = (resumed \/ in.kind = "resume") /\ resumed \in BOOLEAN
      /\ Rows(m, in, at, a, o, fx)
      /\ \A b \in Attempts : writes[b] \in Nat
           /\ writes'[b] = writes[b] + (IF b = a THEN Count(fx, Writes) ELSE 0)
  BY DEF Taken, TypeOK
<1>3. CASE at = "intent_recorded"
  <2>1. a \in Attempts /\ writes[a] = 0
    BY <1>1, <1>2, <1>3 DEF Taken, Rows, OneWriteEach, Inputs, In, InOn
  <2>2. writes'[a] = 1 /\ o = "none"
    BY <1>1, <1>2, <1>3, <2>1 DEF Rows
  <2> QED  BY <1>2, <2>1, <2>2 DEF OwnsItsAttempt, Accounted
<1>4. ASSUME NEW b, Accounted(b), at # "intent_recorded" PROVE Accounted(b)'
  BY <1>1, <1>2, <1>4 DEF Accounted
<1>5. in.kind = "resume" => in.attempt \in Attempts /\ resumed'
  <2>1. in.kind = "resume" => in.attempt \in Attempts
    BY DEF Inputs, In, InOn
  <2>2. in.kind = "resume" => resumed'
    BY <1>2, Zenon
  <2> QED  BY <2>1, <2>2
<1>6. CASE at # "intent_recorded"
  <2>1. Sent(m)' \/ m'.outcome = "ambiguous"
          => \/ Sent(m) /\ a = m.attempt
             \/ in.kind = "resume" /\ a = in.attempt
    BY <1>2, <1>6 DEF Sent, Rows
  <2>2. CASE Sent(m) /\ a = m.attempt
    <3>1. Accounted(a)
      BY <2>2 DEF OwnsItsAttempt
    <3> QED  BY <1>2, <1>4, <1>6, <3>1 DEF OwnsItsAttempt
  <2>3. CASE in.kind = "resume" /\ a = in.attempt
    BY <1>2, <1>5, <2>3 DEF OwnsItsAttempt, Accounted
  <2>4. CASE ~(Sent(m)' \/ m'.outcome = "ambiguous")
    BY <2>4 DEF OwnsItsAttempt
  <2> QED  BY <2>1, <2>2, <2>3, <2>4
<1> QED  BY <1>3, <1>6

LEMMA LookStays ==
  ASSUME TypeOK, Looked, NEW in \in Inputs, NEW at, NEW a, NEW o, NEW fx,
         Taken(in, at, a, o, fx)
  PROVE  Looked'
<1>1. /\ Count(fx, {"read_back", "reconcile"}) \in Nat
      /\ at = "awaiting_read_back" => Count(fx, {"read_back", "reconcile"}) # 0
  BY RowCounts, CountIsNat DEF TypeOK, Taken
<1>2. o = "committed" => m.at = "awaiting_read_back"
  BY DEF Taken, Rows
<1>3. m'.at = at /\ m'.outcome = o
  BY DEF Taken
<1>4. looked \/ Count(fx, {"read_back", "reconcile"}) > 0 => looked'
  <2>1. looked' = (looked \/ Count(fx, {"read_back", "reconcile"}) > 0)
    BY DEF Taken
  <2> QED  BY <2>1, Zenon
<1>5. at = "awaiting_read_back" => looked'
  <2>1. at = "awaiting_read_back" => Count(fx, {"read_back", "reconcile"}) > 0
    BY <1>1
  <2> QED  BY <1>4, <2>1
<1>6. o = "committed" => looked'
  <2>1. o = "committed" => looked
    BY <1>2 DEF Looked
  <2> QED  BY <1>4, <2>1
<1> QED  BY <1>3, <1>5, <1>6 DEF Looked

LEMMA ExactStays ==
  ASSUME TypeOK, Exact, NEW in \in Inputs, NEW at, NEW a, NEW o, NEW fx,
         Taken(in, at, a, o, fx)
  PROVE  Exact'
<1>1. m.budget \in Nat /\ Len(fx) \in Nat /\ emitted \in Nat /\ start \in Nat
  BY StartBudgetsAssumption DEF TypeOK, Taken, Machines
<1>2. m.budget + emitted = start
  BY DEF Exact, Taken
<1>3. /\ m'.budget = charged(m.budget, Len(fx)) /\ emitted' = emitted + Len(fx)
      /\ start' = start /\ m'.at = at
  BY DEF Taken
<1>4. CASE Len(fx) <= m.budget
  BY <1>1, <1>2, <1>3, <1>4 DEF Exact, charged
<1>5. CASE ~(Len(fx) <= m.budget)
  <2>1. at = "terminal" /\ Len(fx) = 1
    BY <1>5 DEF Taken
  <2>2. m.budget = 0
    BY <1>1, <1>5, <2>1
  <2> QED  BY <1>1, <1>2, <1>3, <2>1, <2>2 DEF Exact, charged
<1> QED  BY <1>4, <1>5

LEMMA InvInit == Init => Inv
<1> SUFFICES ASSUME Init PROVE Inv
  OBVIOUS
<1>1. PICK op \in Operations, strategy \in Strategies, titled \in BOOLEAN :
        \E t \in entry_row(Machine(op, strategy, titled, start)) :
          m = t.next /\ intents = Count(t.effects, {"record_intent"})
  BY DEF Init
<1> DEFINE m0 == Machine(op, strategy, titled, start)
<1>2. start \in StartBudgets /\ start \in Nat /\ start > 0
  BY StartBudgetsAssumption DEF Init
<1>3. m0 \in Machines /\ m0.budget = start
  BY <1>2 DEF Machine, Machines, StateNames
<1> HIDE DEF m0
<1>4. PICK t \in entry_row(m0) : m = t.next /\ intents = Count(t.effects, {"record_intent"})
  BY <1>1 DEF m0
<1>5. Len(<<"assert_form">>) = 1 /\ Len(<<"record_intent">>) = 1
  OBVIOUS
<1>6. charged(start, 1) = start - 1 /\ start - 1 \in Nat
  BY <1>2 DEF charged
<1>7. /\ m \in Machines /\ m.outcome = "none" /\ m.budget = start - 1
      /\ \/ m.at = "awaiting_preflight" /\ intents = Count(<<"assert_form">>, {"record_intent"})
         \/ m.at = "preflight_asserted" /\ intents = Count(<<"record_intent">>, {"record_intent"})
  <2>1. CASE t \in advance(m0, "awaiting_preflight", NoAttempt, "none", <<"assert_form">>)
    <3>1. t = Move(m0, "awaiting_preflight", NoAttempt, "none", "none", <<"assert_form">>)
      BY <2>1 DEF advance
    <3> QED  BY <1>3, <1>4, <1>5, <1>6, <3>1 DEF Move, Machines, StateNames
  <2>2. CASE t \in advance(m0, "preflight_asserted", NoAttempt, "none", <<"record_intent">>)
    <3>1. t = Move(m0, "preflight_asserted", NoAttempt, "none", "none", <<"record_intent">>)
      BY <2>2 DEF advance
    <3> QED  BY <1>3, <1>4, <1>5, <1>6, <3>1 DEF Move, Machines, StateNames
  <2> QED  BY <1>4, <2>1, <2>2 DEF entry_row
<1>8. Count(<<"record_intent">>, {"record_intent"}) = 1
  BY CountOfOne
<1>9. Count(<<"assert_form">>, {"record_intent"}) \in Nat
  <2>1. <<"assert_form">> \in Seq(Effects)
    BY DEF Effects
  <2> QED  BY <2>1, CountIsNat
<1>10. TypeOK
  <2>1. intents \in Nat
    BY <1>7, <1>8, <1>9
  <2>2. /\ issued = {} /\ writes \in [Attempts -> Nat] /\ total = 0 /\ retries = 0 /\ emitted = 1
        /\ looked \in BOOLEAN /\ resumed \in BOOLEAN
    BY DEF Init
  <2> QED  BY <1>2, <1>7, <2>1, <2>2 DEF TypeOK
<1>11. OneWriteEach /\ OwnsItsAttempt /\ Looked
  BY <1>7 DEF Init, OneWriteEach, OwnsItsAttempt, Looked, Sent
<1>12. AheadOfItsWrites /\ Exact
  BY <1>2, <1>7, <1>8, <1>9 DEF Init, AheadOfItsWrites, Exact
<1> QED  BY <1>10, <1>11, <1>12 DEF Inv

LEMMA InvStays ==
  ASSUME Inv, [Next]_vars
  PROVE  Inv'
<1>1. ASSUME NEW in \in Inputs, Take(in) PROVE Inv'
  <2>1. PICK at \in StateNames, a \in Attempts \cup {NoAttempt},
             o \in MachineOutcomes \cup {"none"}, fx \in Seq(Effects) : Taken(in, at, a, o, fx)
    BY <1>1, TakeIsARow DEF Inv
  <2> QED  BY <2>1, TypeStays, OneWriteStays, AheadStays, OwnershipStays, LookStays, ExactStays
           DEF Inv
<1>2. CASE UNCHANGED vars
  BY <1>2 DEF vars, Inv, TypeOK, OneWriteEach, AheadOfItsWrites, OwnsItsAttempt, Accounted,
              Sent, Looked, Exact
<1> QED  BY <1>1, <1>2 DEF Next

-----------------------------------------------------------------------------
(* The invariant, and what each of the suite's properties follows from.    *)

LEMMA InvHolds == Spec => []Inv
  BY InvInit, InvStays, PTL DEF Spec

\* Every reachable run keeps its shape: the machine is one of the table's
\* and the history counts are numbers.
THEOREM TypeCorrect == Spec => []TypeOK
<1>1. Inv => TypeOK
  BY DEF Inv
<1> QED  BY <1>1, InvHolds, PTL

\* No attempt authorises two writes, under any sequence of answers, parks,
\* clears and resumes (`no_attempt_is_ever_submitted_twice`).
THEOREM NeverSubmittedTwice == Spec => []NoAttemptIsSubmittedTwice
<1>1. Inv => NoAttemptIsSubmittedTwice
  BY DEF Inv, OneWriteEach, NoAttemptIsSubmittedTwice
<1> QED  BY <1>1, InvHolds, PTL

\* Every write has an intent of its own before it, and every write after the
\* first an answer that gave leave for it (never_sent, parked_rows).
THEOREM EveryWriteIsAccountedFor == Spec => []WritesAreAccountedFor
<1>1. Inv => WritesAreAccountedFor
  BY DEF Inv, AheadOfItsWrites, WritesAreAccountedFor
<1> QED  BY <1>1, InvHolds, PTL

\* An ambiguity is about a write whose intent was recorded, by this run or by
\* the run that stranded it (`every_ambiguous_terminal_follows_a_recorded_intent`).
THEOREM EveryAmbiguityIsReconcilable == Spec => []AmbiguityIsReconcilable
<1>1. Inv => AmbiguityIsReconcilable
  BY NoAttemptAssumption DEF Inv, OwnsItsAttempt, Accounted, AmbiguityIsReconcilable
<1> QED  BY <1>1, InvHolds, PTL

\* No path commits on the strength of the write's own answer
\* (`every_committed_terminal_follows_a_read`).
THEOREM EveryCommitFollowsARead == Spec => []CommitFollowsARead
<1>1. Inv => CommitFollowsARead
  BY DEF Inv, Looked, CommitFollowsARead
<1> QED  BY <1>1, InvHolds, PTL

\* The allowance and what was emitted account for each other exactly, but for
\* an exhausted run's one diagnostic (`the_allowance_never_grows`).
THEOREM TheAllowanceNeverGrows == Spec => []AllowanceIsSpentExactly
<1>1. Inv => AllowanceIsSpentExactly
  <2> SUFFICES ASSUME Inv PROVE AllowanceIsSpentExactly
    OBVIOUS
  <2>1. m.budget \in Nat /\ emitted \in Nat /\ start \in Nat /\ Exact
    BY StartBudgetsAssumption DEF Inv, TypeOK, Machines
  <2> QED  BY <2>1 DEF Exact, AllowanceIsSpentExactly
<1> QED  BY <1>1, InvHolds, PTL
=============================================================================
