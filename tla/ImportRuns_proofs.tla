-------------------------- MODULE ImportRuns_proofs --------------------------
(***************************************************************************)
(* Proofs about an import run, for every number of devices, listings,      *)
(* overlapping passes, receipts and claims.                                *)
(***************************************************************************)
EXTENDS ImportRuns, TLAPS

Runs == [state : RunStates, scheduled : BOOLEAN, owner : Devices \cup {None},
         attempt : 0..MaxAttempts, lease : {"none", "live"}, walked : BOOLEAN,
         frozen : BOOLEAN, authorised : BOOLEAN, deletion : Deletions]
ItemMaps == [Items -> ItemStates]
PassRows == [at : Steps, page : SUBSET Items, moved : BOOLEAN, refusing : Items \cup {None}]
Passed(ps) == /\ ps \in [Passes -> PassRows]
              /\ \A p \in Passes : ps[p].at = "refused" => ps[p].refusing # None

RowsTyped(it, rc, pr, md, cr) ==
  /\ it \in ItemMaps /\ rc \subseteq Receipts /\ pr \in [Items -> Pairs]
  /\ md \subseteq Items /\ cr \in [Items -> Nat]
WorkTyped(js, pb, ps) == js \in JobStates /\ pb \subseteq Items /\ Passed(ps)

LEMMA TypeOKParts ==
  TypeOK <=> run \in Runs /\ RowsTyped(item, receipts, pair, made, created)
                          /\ WorkTyped(jobs, published, pass)
  BY DEF TypeOK, Runs, RowsTyped, WorkTyped, ItemMaps, PassRows, Passed, At

LEMMA TypeOKNext ==
  TypeOK' <=> run' \in Runs /\ RowsTyped(item', receipts', pair', made', created')
                            /\ WorkTyped(jobs', published', pass')
  BY DEF TypeOK, Runs, RowsTyped, WorkTyped, ItemMaps, PassRows, Passed, At

-----------------------------------------------------------------------------
(* The operators of the run row.                                           *)

LEMMA SetRunState ==
  ASSUME NEW r \in Runs, NEW s \in RunStates
  PROVE  /\ set_run_state(r, s) \in Runs
         /\ r.state \notin Open => set_run_state(r, s) = r
         /\ set_run_state(r, s).deletion = r.deletion
         /\ set_run_state(r, s).lease = r.lease
  BY DEF set_run_state, Runs

LEMMA SettleIfDone ==
  ASSUME NEW r \in Runs, NEW it
  PROVE  /\ settle_if_done(r, it) \in Runs
         /\ r.state \notin Open => settle_if_done(r, it) = r
         /\ settle_if_done(r, it).deletion = r.deletion
         /\ settle_if_done(r, it).lease = r.lease
<1>1. "complete" \in RunStates
  BY DEF RunStates
<1> QED  BY <1>1, SetRunState DEF settle_if_done

\* A selection takes listed items only, and answers for each of them.
LEMMA SelectItems ==
  ASSUME NEW r \in Runs, NEW it \in ItemMaps, NEW chosen
  PROVE  LET after == select_items(r, it, chosen)
         IN  /\ after.run \in Runs /\ after.item \in ItemMaps
             /\ after.run.deletion = r.deletion /\ after.run.lease = r.lease
             /\ \A i \in Items : after.item[i] = it[i]
                                 \/ (it[i] = "listed" /\ after.item[i] \in {"selected", "skipped"})
<1> DEFINE taken == [i \in Items |-> IF it[i] # "listed" THEN it[i]
                                     ELSE IF i \in chosen THEN "selected" ELSE "skipped"]
           frozen == [r EXCEPT !.frozen = TRUE]
<1>1. taken \in ItemMaps
  BY DEF ItemMaps, ItemStates, Outstanding
<1>2. frozen \in Runs /\ frozen.deletion = r.deletion /\ frozen.lease = r.lease
  BY DEF Runs
<1>3. CASE r.state # "reading" \/ ~r.walked
  BY <1>3 DEF select_items
<1>4. CASE ~(r.state # "reading" \/ ~r.walked)
  <2>1. select_items(r, it, chosen) = [run |-> settle_if_done(frozen, taken), item |-> taken]
    BY <1>4 DEF select_items
  <2>2. \A i \in Items : taken[i] = it[i] \/ (it[i] = "listed" /\ taken[i] \in {"selected", "skipped"})
    OBVIOUS
  <2> HIDE DEF taken, frozen
  <2> QED  BY <2>1, <2>2, <1>1, <1>2, SettleIfDone
<1> QED  BY <1>3, <1>4

LEMMA AppendListed ==
  ASSUME NEW it \in ItemMaps, NEW listed, NEW held
  PROVE  /\ append_listed(it, listed, held) \in ItemMaps
         /\ \A i \in Items : append_listed(it, listed, held)[i] \in {it[i], "skipped", "listed"}
  BY DEF append_listed, ItemMaps, ItemStates, Outstanding

LEMMA RecordSkipped ==
  ASSUME NEW it \in ItemMaps, NEW skip
  PROVE  /\ record_skipped(it, skip) \in ItemMaps
         /\ \A i \in Items : record_skipped(it, skip)[i] \in {it[i], "skipped"}
  BY DEF record_skipped, ItemMaps, ItemStates

LEMMA VerdictState ==
  ASSUME NEW v \in Pairs
  PROVE  /\ Verdict(v) \in ItemStates /\ Verdict(v) # "failed"
         /\ Verdict(v) = "review" => v = "parked"
         /\ Scores(v) \subseteq Pairs
  BY DEF Verdict, ItemStates, Outstanding, Pairs, Scores

-----------------------------------------------------------------------------
(* What one step does, to the rows and to the run.                         *)

RowRule ==
  /\ RowsTyped(item', receipts', pair', made', created')
  /\ ~IsOpen => item' = item
  /\ made \subseteq made'
  /\ \A i \in Items :
       /\ item[i] \in {"imported", "skipped"} => item'[i] # "failed"
       /\ IsOpen /\ item'[i] = "review" =>
            pair'[i] = "parked" \/ (item[i] = "review" /\ pair'[i] = pair[i])
       /\ created'[i] = created[i] \/
            (pair[i] # "parked" /\ i \notin made /\ i \in made' /\ created'[i] = created[i] + 1)

\* Deletion is asked for, ends or goes on by the three operations below; no
\* other step touches it, revives a hold or starts work after it.
Calm ==
  /\ run'.deletion = run.deletion
  /\ ~IsOpen => run'.lease \in {run.lease, "none"}
  /\ run.deletion # "none" /\ jobs = "quiet" => jobs' = "quiet"
RunRule ==
  /\ run' \in Runs
  /\ ~IsOpen => run'.state = run.state
Kept == run' \in Runs /\ UNCHANGED rows /\ WorkTyped(jobs', published', pass')

LEMMA RowsKept ==
  ASSUME TypeOK, UNCHANGED rows
  PROVE  RowRule
  BY TypeOKParts DEF rows, RowRule, RowsTyped

LEMMA CurrentIsOpen ==
  ASSUME NEW d, NEW a, fenced(d, a) = "current"
  PROVE  IsOpen
  BY DEF fenced

\* An item a page takes stands where its score puts it; any other goes
\* nowhere but along the selection.
LEMMA AppliedPage ==
  ASSUME TypeOK, NEW p \in Pages, NEW held, NEW score \in [p.read -> Pairs],
         \A i \in p.read : score[i] \in Scores(pair[i]), NEW seen
  PROVE  LET after == Applied(p, held, score, seen)
         IN  /\ after.run \in Runs
             /\ after.run.deletion = run.deletion
             /\ after.item \in ItemMaps /\ after.pair \in [Items -> Pairs]
             /\ \A i \in Items :
                  \/ after.pair[i] = pair[i] /\ after.item[i] \in {item[i], "listed", "selected", "skipped"}
                  \/ after.item[i] \in {Verdict(after.pair[i]), "skipped"}
<1> DEFINE listed    == append_listed(item, p.listed, held)
           closed    == [run EXCEPT !.walked = @ \/ p.close]
           chosen    == IF p.close /\ run.scheduled THEN select_items(closed, listed, Items)
                        ELSE [run |-> closed, item |-> listed]
           taken     == {i \in p.read : Undescribed(chosen.item[i])}
           described == [i \in Items |-> IF i \in taken THEN Verdict(score[i]) ELSE chosen.item[i]]
           left      == record_skipped(described, p.skip)
           next      == CASE (p.close \/ seen) /\ ~outstanding(left) -> "complete"
                          [] p.complete -> IF run.scheduled THEN "committing" ELSE "reviewing"
                          [] OTHER -> chosen.run.state
           pairs     == [i \in Items |-> IF i \in taken THEN score[i] ELSE pair[i]]
<1>1. run \in Runs /\ item \in ItemMaps /\ pair \in [Items -> Pairs]
  BY TypeOKParts DEF RowsTyped
<1>2. p.read \subseteq Items /\ p.close \in BOOLEAN
  BY DEF Pages, Listings, Descriptions
<1>3. listed \in ItemMaps /\ \A i \in Items : listed[i] \in {item[i], "skipped", "listed"}
  BY <1>1, AppendListed
<1>4. closed \in Runs /\ closed.deletion = run.deletion
  BY <1>1, <1>2 DEF Runs
<1>5. /\ chosen.run \in Runs /\ chosen.item \in ItemMaps
      /\ chosen.run.deletion = run.deletion
      /\ \A i \in Items : chosen.item[i] \in {item[i], "skipped", "listed", "selected"}
  <2> HIDE DEF listed, closed
  <2>1. CASE p.close /\ run.scheduled
    BY <2>1, <1>3, <1>4, SelectItems
  <2>2. CASE ~(p.close /\ run.scheduled)
    BY <2>2, <1>3, <1>4
  <2> QED  BY <2>1, <2>2
<1> HIDE DEF listed, closed, chosen
<1>6. /\ described \in ItemMaps
      /\ \A i \in taken : described[i] = Verdict(score[i])
      /\ \A i \in Items \ taken : described[i] = chosen.item[i]
  <2>1. \A i \in taken : i \in p.read /\ Verdict(score[i]) \in ItemStates
    BY VerdictState
  <2>2. \A i \in Items : chosen.item[i] \in ItemStates
    BY <1>5 DEF ItemMaps
  <2>3. taken \subseteq Items
    BY <1>2
  <2> HIDE DEF taken
  <2> QED  BY <2>1, <2>2, <2>3 DEF ItemMaps
<1>7. /\ pairs \in [Items -> Pairs]
      /\ \A i \in taken : pairs[i] = score[i]
      /\ \A i \in Items \ taken : pairs[i] = pair[i]
  BY <1>1, <1>2
<1> HIDE DEF described, pairs, taken
<1>8. left \in ItemMaps /\ \A i \in Items : left[i] \in {described[i], "skipped"}
  BY <1>6, RecordSkipped
<1>9. next \in RunStates
  <2>1. chosen.run.state \in RunStates
    BY <1>5 DEF Runs
  <2> HIDE DEF left
  <2> QED  BY <2>1 DEF RunStates, Open
<1> HIDE DEF left, next
<1>10. /\ set_run_state(chosen.run, next) \in Runs
       /\ set_run_state(chosen.run, next).deletion = run.deletion
  BY <1>5, <1>9, SetRunState
<1>11. Applied(p, held, score, seen) =
         [run |-> set_run_state(chosen.run, next), item |-> left, pair |-> pairs]
  BY DEF Applied, left, next, pairs, described, taken, chosen, closed, listed
<1>12. ASSUME NEW i \in Items
       PROVE  \/ pairs[i] = pair[i] /\ left[i] \in {item[i], "listed", "selected", "skipped"}
              \/ left[i] \in {Verdict(pairs[i]), "skipped"}
  <2>1. CASE i \in taken
    BY <2>1, <1>6, <1>7, <1>8
  <2>2. CASE i \notin taken
    BY <2>2, <1>5, <1>6, <1>7, <1>8
  <2> QED  BY <2>1, <2>2
<1> QED  BY <1>7, <1>8, <1>10, <1>11, <1>12

-----------------------------------------------------------------------------
(* The steps that move the items.                                          *)

StepRule == RunRule /\ RowRule /\ Calm /\ WorkTyped(jobs', published', pass')

LEMMA RunPageStep ==
  ASSUME TypeOK, NEW d, NEW a, NEW p \in Pages, run_page(d, a, p)
  PROVE  StepRule
<1>1. IsOpen
  BY CurrentIsOpen DEF run_page
<1>2. PICK held \in SUBSET (made \cap p.listed), score \in [p.read -> Pairs],
           seen \in {FALSE, run.walked} :
        LET after == Applied(p, held, score, seen)
        IN  /\ \A i \in p.read : score[i] \in Scores(pair[i])
            /\ run' = after.run /\ item' = after.item /\ pair' = after.pair
            /\ \E onto \in SUBSET {i \in Items : pair'[i] = "same" /\ pair[i] # "same"} :
                 made' = made \cup onto
  BY Zenon DEF run_page
<1> DEFINE after == Applied(p, held, score, seen)
<1>3. /\ \A i \in p.read : score[i] \in Scores(pair[i])
      /\ run' = after.run /\ item' = after.item /\ pair' = after.pair
  BY <1>2
<1>4. /\ after.run \in Runs
      /\ after.run.deletion = run.deletion
      /\ after.item \in ItemMaps /\ after.pair \in [Items -> Pairs]
      /\ \A i \in Items :
           \/ after.pair[i] = pair[i] /\ after.item[i] \in {item[i], "listed", "selected", "skipped"}
           \/ after.item[i] \in {Verdict(after.pair[i]), "skipped"}
  BY <1>3, AppliedPage
<1> HIDE DEF after
<1>5. run' \in Runs /\ run'.deletion = run.deletion /\ item' \in ItemMaps /\ pair' \in [Items -> Pairs]
  BY <1>3, <1>4
<1>6. made \subseteq made' /\ made' \subseteq Items
  BY <1>2, TypeOKParts DEF RowsTyped
<1>7. receipts' \subseteq Receipts
  BY TypeOKParts DEF run_page, RowsTyped, Pages, Listings, Descriptions
<1>8. created' = created /\ UNCHANGED work
  BY DEF run_page
<1>9. RowsTyped(item', receipts', pair', made', created')
  BY <1>5, <1>6, <1>7, <1>8, TypeOKParts DEF RowsTyped
<1>10. ASSUME NEW i \in Items
       PROVE  /\ item[i] \in {"imported", "skipped"} => item'[i] # "failed"
              /\ IsOpen /\ item'[i] = "review" =>
                   pair'[i] = "parked" \/ (item[i] = "review" /\ pair'[i] = pair[i])
              /\ created'[i] = created[i]
  <2>1. \/ pair'[i] = pair[i] /\ item'[i] \in {item[i], "listed", "selected", "skipped"}
        \/ item'[i] \in {Verdict(pair'[i]), "skipped"}
    BY <1>3, <1>4
  <2>2. pair'[i] \in Pairs
    BY <1>5
  <2> QED  BY <2>1, <2>2, <1>8, VerdictState
<1>11. WorkTyped(jobs', published', pass')
  BY <1>8, TypeOKParts DEF work, WorkTyped, Passed
<1> QED
  BY <1>1, <1>5, <1>6, <1>8, <1>9, <1>10, <1>11 DEF StepRule, RunRule, RowRule, Calm, work

LEMMA SelectStep ==
  ASSUME TypeOK, NEW chosen, select(chosen)
  PROVE  StepRule
<1>1. IsOpen
  BY DEF select, IsOpen, Open
<1>2. run \in Runs /\ item \in ItemMaps
  BY TypeOKParts DEF RowsTyped
<1> DEFINE after == select_items(run, item, chosen)
<1>3. /\ run' = after.run /\ item' = after.item
      /\ UNCHANGED <<receipts, pair, made, created, jobs, published, pass>>
  BY DEF select, work
<1>4. /\ after.run \in Runs /\ after.item \in ItemMaps
      /\ after.run.deletion = run.deletion
      /\ \A i \in Items : after.item[i] = item[i]
                          \/ (item[i] = "listed" /\ after.item[i] \in {"selected", "skipped"})
  BY <1>2, SelectItems
<1> HIDE DEF after
<1>5. RowRule
  BY <1>1, <1>3, <1>4, TypeOKParts DEF RowRule, RowsTyped
<1>6. WorkTyped(jobs', published', pass')
  BY <1>3, TypeOKParts DEF WorkTyped, Passed
<1> QED  BY <1>1, <1>3, <1>4, <1>5, <1>6 DEF StepRule, RunRule, Calm

LEMMA DecideStep ==
  ASSUME TypeOK, NEW i \in Items, NEW verdict \in Pairs, decide(i, verdict)
  PROVE  StepRule
<1>1. item \in ItemMaps /\ pair \in [Items -> Pairs]
  BY TypeOKParts DEF RowsTyped
<1>2. UNCHANGED <<run, receipts, made, created, jobs, published, pass>>
  BY DEF decide, work
<1>3. pair' = [pair EXCEPT ![i] = verdict]
  BY DEF decide
<1>4. /\ item' \in ItemMaps
      /\ ~IsOpen => item' = item
      /\ \A k \in Items : item'[k] = item[k] \/ (k = i /\ item'[k] \in {"skipped", "matched"})
      /\ IsOpen => item'[i] # "review"
      /\ \A k \in Items : k # i => item'[k] = item[k]
  <2>1. verdict \in {"different", "same", "kept"}
    BY DEF decide
  <2>2. item' = [item EXCEPT ![i] =
                CASE ~advanceable \/ @ = "imported" -> @
                  [] advanceable /\ @ # "imported" /\ verdict = "same" -> "skipped"
                  [] advanceable /\ @ = "review" /\ verdict # "same" -> "matched"
                  [] OTHER -> @]
    BY DEF decide
  <2>3. {"skipped", "matched"} \subseteq ItemStates
    BY DEF ItemStates, Outstanding
  <2>4. advanceable = IsOpen
    BY DEF advanceable
  <2>5. CASE ~IsOpen
    BY <2>2, <2>4, <2>5, <1>1 DEF ItemMaps
  <2>6. CASE IsOpen
    BY <2>1, <2>2, <2>3, <2>4, <2>6, <1>1 DEF ItemMaps
  <2> QED  BY <2>5, <2>6
<1>5. RowsTyped(item', receipts', pair', made', created')
  BY <1>1, <1>2, <1>3, <1>4, TypeOKParts DEF RowsTyped
<1>6. RowRule
  BY <1>1, <1>2, <1>3, <1>4, <1>5 DEF RowRule, ItemMaps
<1>7. WorkTyped(jobs', published', pass')
  BY <1>2, TypeOKParts DEF WorkTyped, Passed
<1> QED  BY <1>2, <1>6, <1>7, TypeOKParts DEF StepRule, RunRule, Calm

LEMMA UndoStep ==
  ASSUME TypeOK, NEW i \in Items, undo(i)
  PROVE  StepRule
<1>1. item \in ItemMaps /\ pair \in [Items -> Pairs]
  BY TypeOKParts DEF RowsTyped
<1>2. UNCHANGED <<run, receipts, made, created, jobs, published, pass>>
  BY DEF undo, work
<1>3. pair' = [pair EXCEPT ![i] = "parked"]
  BY DEF undo, Reopened
<1>4. /\ item' \in ItemMaps
      /\ ~IsOpen => item' = item
      /\ \A k \in Items : item'[k] # item[k] => k = i /\ item'[k] = "review"
  BY <1>1 DEF undo, advanceable, ItemMaps, ItemStates, Outstanding
<1>5. RowsTyped(item', receipts', pair', made', created')
  BY <1>1, <1>2, <1>3, <1>4, TypeOKParts DEF RowsTyped, Pairs
<1>6. RowRule
  BY <1>1, <1>2, <1>3, <1>4, <1>5 DEF RowRule
<1>7. WorkTyped(jobs', published', pass')
  BY <1>2, TypeOKParts DEF WorkTyped, Passed
<1> QED  BY <1>2, <1>6, <1>7, TypeOKParts DEF StepRule, RunRule, Calm

-----------------------------------------------------------------------------
(* The scheduler's passes.                                                 *)

LEMMA PassGoes ==
  ASSUME TypeOK, NEW p \in Passes, NEW to \in PassRows,
         to.at = "refused" => to.refusing # None, Goes(p, to)
  PROVE  Passed(pass')
  BY TypeOKParts DEF WorkTyped, Passed, Goes

LEMMA IdleRow == Idle \in PassRows
  BY DEF Idle, PassRows, Steps

LEMMA CommitStep ==
  ASSUME TypeOK, NEW p \in Passes, NEW i \in Items, At(p, "commit"), commit_one(p, i)
  PROVE  StepRule
<1>1. run \in Runs /\ item \in ItemMaps /\ pair \in [Items -> Pairs]
      /\ made \subseteq Items /\ created \in [Items -> Nat]
  BY TypeOKParts DEF RowsTyped
<1>2. PICK score \in Rescores(i), adds \in BOOLEAN :
       /\ adds \in {Creates(i, score)} \cup (IF Restorable(i, score) THEN {TRUE} ELSE {})
       /\ pair' = [pair EXCEPT ![i] = score]
       /\ item' = [item EXCEPT ![i] = IF adds THEN "imported"
                                      ELSE IF Verdict(score) = "review" THEN "review"
                                      ELSE "skipped"]
       /\ run' = IF Verdict(score) = "review" THEN run ELSE settle_if_done(run, item')
       /\ made' \in IF Creates(i, score) THEN {made \cup {i}}
                    ELSE IF score = "same" THEN {made, made \cup {i}} ELSE {made}
       /\ created' = [created EXCEPT ![i] = IF Creates(i, score) THEN @ + 1 ELSE @]
       /\ Goes(p, [pass[p] EXCEPT !.page = @ \ {i}, !.moved = @ \/ adds])
  BY DEF commit_one
<1>3. UNCHANGED <<receipts, jobs, published>>
  BY DEF commit_one
<1>4. IsOpen /\ item[i] = "matched"
  BY DEF commit_one, Committable
<1>5. score \in Pairs /\ (pair[i] = "parked" => score = "parked")
  BY <1>1 DEF Rescores, Scores, Pairs
<1>6. Creates(i, score) \in BOOLEAN /\ (Creates(i, score) => i \notin made /\ Verdict(score) = "matched")
  BY DEF Creates
<1>7. Creates(i, score) => pair[i] # "parked"
  BY <1>5, <1>6 DEF Verdict
<1>8. /\ item' \in ItemMaps
      /\ \A k \in Items : k # i => item'[k] = item[k]
      /\ item'[i] # "failed" /\ (item'[i] = "review" => score = "parked")
  <2>1. {"imported", "review", "skipped"} \subseteq ItemStates
    BY DEF ItemStates, Outstanding
  <2>2. Verdict(score) = "review" => score = "parked"
    BY <1>5, VerdictState
  <2> QED  BY <1>1, <1>2, <2>1, <2>2 DEF ItemMaps
<1>9. /\ created' \in [Items -> Nat] /\ made' \subseteq Items /\ made \subseteq made'
      /\ \A k \in Items : created'[k] = created[k] \/
           (k = i /\ Creates(i, score) /\ i \in made' /\ created'[k] = created[k] + 1)
  <2>1. CASE Creates(i, score)
    BY <1>1, <1>2, <2>1
  <2>2. CASE ~Creates(i, score)
    BY <1>1, <1>2, <2>2
  <2> QED  BY <2>1, <2>2
<1>10. RowsTyped(item', receipts', pair', made', created')
  BY <1>1, <1>2, <1>3, <1>5, <1>8, <1>9, TypeOKParts DEF RowsTyped
<1>11. RowRule
  BY <1>1, <1>2, <1>4, <1>5, <1>6, <1>7, <1>8, <1>9, <1>10 DEF RowRule
<1>12. run' \in Runs /\ run'.deletion = run.deletion
  BY <1>1, <1>2, SettleIfDone
<1>13. Passed(pass')
  <2>1. pass[p] \in PassRows /\ pass[p].at = "commit"
    BY TypeOKParts DEF WorkTyped, Passed, At
  <2> DEFINE to == [pass[p] EXCEPT !.page = @ \ {i}, !.moved = @ \/ adds]
  <2>2. to.at = "commit"
    BY <2>1 DEF PassRows
  <2>3. to \in PassRows
    BY <1>6, <2>1 DEF PassRows
  <2>4. Goes(p, to)
    BY <1>2
  <2> HIDE DEF to
  <2> QED  BY <2>2, <2>3, <2>4, PassGoes
<1> QED
  BY <1>3, <1>4, <1>11, <1>12, <1>13, TypeOKParts DEF StepRule, RunRule, Calm, WorkTyped

LEMMA RecordFailureStep ==
  ASSUME TypeOK, NEW p \in Passes, record_failure(p)
  PROVE  StepRule
<1> DEFINE i == pass[p].refusing
           to == [pass[p] EXCEPT !.at = "commit", !.refusing = None, !.moved = @ \/ Unsettled(i)]
<1>1. item \in ItemMaps /\ pass[p] \in PassRows /\ i \in Items
  BY TypeOKParts DEF record_failure, RowsTyped, WorkTyped, Passed, PassRows, At
<1>2. item' = [item EXCEPT ![i] = IF Unsettled(i) THEN "failed" ELSE @] /\ Goes(p, to)
  BY DEF record_failure
<1>3. UNCHANGED <<run, receipts, pair, made, created, jobs, published>>
  BY DEF record_failure
<1>4. to \in PassRows /\ to.at = "commit"
  BY <1>1 DEF PassRows, Steps, Unsettled, IsOpen
<1>5. Passed(pass')
  <2> HIDE DEF to
  <2> QED  BY <1>2, <1>4, PassGoes
<1>6. Unsettled(i) => IsOpen /\ item[i] \notin {"imported", "skipped"}
  BY DEF Unsettled
<1> HIDE DEF i, to
<1>7. RowRule
  <2>1. RowsTyped(item', receipts', pair', made', created')
    BY <1>1, <1>2, <1>3, TypeOKParts DEF RowsTyped, ItemMaps, ItemStates
  <2> QED  BY <1>1, <1>2, <1>3, <1>6, <2>1 DEF RowRule, ItemMaps
<1> QED  BY <1>3, <1>5, <1>7, TypeOKParts DEF StepRule, RunRule, Calm, WorkTyped

LEMMA ChunkSteps ==
  ASSUME TypeOK, NEW p \in Passes,
         drainable(p) \/ commit_page(p) \/ Published(p) \/ PassFails(p)
  PROVE  StepRule
<1>1. UNCHANGED <<run, rows, jobs, published>>
  BY DEF drainable, commit_page, Published, PassFails
<1>2. Passed(pass')
  <2>1. CASE PassFails(p) \/ Published(p)
    BY <2>1, IdleRow, PassGoes DEF PassFails, Published, Idle
  <2>2. CASE drainable(p)
    BY <2>2, PassGoes DEF drainable, Chunk, Idle, PassRows, Steps
  <2>3. CASE commit_page(p)
    <3> DEFINE to == [Idle EXCEPT !.at = "commit",
                        !.page = IF run.deletion = "none" THEN InState(item, {"matched"}) ELSE {}]
    <3>1. to \in PassRows /\ to.at = "commit"
      BY DEF InState, Idle, PassRows, Steps
    <3>2. Goes(p, to)
      BY <2>3 DEF commit_page
    <3> HIDE DEF to
    <3> QED  BY <3>1, <3>2, PassGoes
  <2> QED  BY <2>1, <2>2, <2>3
<1>3. RowRule
  BY <1>1, RowsKept
<1> QED  BY <1>1, <1>2, <1>3, TypeOKParts DEF StepRule, RunRule, Calm, WorkTyped

\* An item held back, or refused and not yet recorded.
LEMMA UncommittedStep ==
  ASSUME TypeOK, NEW p \in Passes, NEW i \in Items, At(p, "commit"),
         HeldBack(p, i) \/ Refused(p, i)
  PROVE  StepRule
<1>1. UNCHANGED <<run, rows, jobs, published>>
  BY DEF HeldBack, Refused
<1>2. pass[p] \in PassRows /\ pass[p].at = "commit"
  BY TypeOKParts DEF WorkTyped, Passed, At
<1>3. Passed(pass')
  <2>1. CASE HeldBack(p, i)
    <3> DEFINE to == [pass[p] EXCEPT !.page = @ \ {i}]
    <3>1. to \in PassRows /\ to.at = "commit" /\ Goes(p, to)
      BY <2>1, <1>2 DEF HeldBack, PassRows
    <3> HIDE DEF to
    <3> QED  BY <3>1, PassGoes
  <2>2. CASE Refused(p, i)
    <3> DEFINE to == [pass[p] EXCEPT !.at = "refused", !.page = @ \ {i}, !.refusing = i]
    <3>1. to \in PassRows /\ Goes(p, to) /\ to.refusing = i
      BY <2>2, <1>2 DEF Refused, PassRows, Steps
    <3>2. i # None
      BY ImportAssumption
    <3> HIDE DEF to
    <3> QED  BY <3>1, <3>2, PassGoes
  <2> QED  BY <2>1, <2>2
<1>4. RowRule
  BY <1>1, RowsKept
<1> QED  BY <1>1, <1>3, <1>4, TypeOKParts DEF StepRule, RunRule, Calm, WorkTyped

LEMMA RecountStep ==
  ASSUME TypeOK, NEW p \in Passes, recount(p)
  PROVE  StepRule
<1>1. run \in Runs /\ pass[p] \in PassRows
  BY TypeOKParts DEF WorkTyped, Passed
<1>2. run' = settle_if_done(run, item) /\ UNCHANGED <<rows, jobs, published>>
  BY DEF recount
<1>3. /\ run' \in Runs /\ run'.deletion = run.deletion /\ run'.lease = run.lease
      /\ ~IsOpen => run' = run
  BY <1>1, <1>2, SettleIfDone DEF IsOpen
<1>4. PICK to \in {Chunk, [Idle EXCEPT !.at = "publish", !.page = InState(item, {"imported"})], Idle} :
        Goes(p, to)
  BY DEF recount
<1>5. to \in PassRows /\ to.at # "refused"
  <2>1. Chunk \in PassRows /\ Chunk.at # "refused"
    BY DEF Chunk, Idle, PassRows, Steps
  <2>2. LET row == [Idle EXCEPT !.at = "publish", !.page = InState(item, {"imported"})]
        IN  row \in PassRows /\ row.at # "refused"
    BY DEF Idle, InState, PassRows, Steps
  <2>3. Idle \in PassRows /\ Idle.at # "refused"
    BY DEF Idle, PassRows, Steps
  <2> QED  BY <1>4, <2>1, <2>2, <2>3
<1>6. Passed(pass')
  BY <1>4, <1>5, PassGoes
<1>7. RowRule
  BY <1>2, RowsKept
<1> QED  BY <1>2, <1>3, <1>6, <1>7, TypeOKParts DEF StepRule, RunRule, Calm, WorkTyped

LEMMA PublishStep ==
  ASSUME TypeOK, NEW p \in Passes, publish(p)
  PROVE  StepRule
<1>1. UNCHANGED <<run, rows>>
  BY DEF publish
<1>2. PICK i \in pass[p].page :
        IF Mintable \/ i \in published
        THEN /\ Goes(p, [pass[p] EXCEPT !.page = @ \ {i}])
             /\ published' = published \cup {i}
             /\ jobs' = IF i \in published \/ jobs = "unaccounted" THEN jobs ELSE "working"
        ELSE Goes(p, Idle) /\ UNCHANGED <<published, jobs>>
  BY DEF publish
<1>3. pass[p] \in PassRows /\ pass[p].at = "publish" /\ i \in Items
  BY TypeOKParts DEF WorkTyped, Passed, PassRows, publish, At
<1>4. jobs' \in JobStates /\ published' \subseteq Items
      /\ (run.deletion # "none" => jobs' = jobs)
  BY <1>2, <1>3, TypeOKParts DEF WorkTyped, JobStates, Mintable
<1>5. Passed(pass')
  <2>1. CASE Mintable \/ i \in published
    <3> DEFINE to == [pass[p] EXCEPT !.page = @ \ {i}]
    <3>1. to \in PassRows /\ to.at = "publish" /\ Goes(p, to)
      BY <2>1, <1>2, <1>3 DEF PassRows
    <3> HIDE DEF to
    <3> QED  BY <3>1, PassGoes
  <2>2. CASE ~(Mintable \/ i \in published)
    BY <2>2, <1>2, IdleRow, PassGoes DEF Idle
  <2> QED  BY <2>1, <2>2
<1>6. RowRule
  BY <1>1, RowsKept
<1> QED  BY <1>1, <1>4, <1>5, <1>6, TypeOKParts DEF StepRule, RunRule, Calm, WorkTyped

-----------------------------------------------------------------------------
(* The steps that move the run alone.                                      *)

LEMMA RunSteps ==
  ASSUME TypeOK,
         \/ \E d \in Devices, takeover \in BOOLEAN : claim(d, takeover)
         \/ LeaseLapses \/ authorise_commit \/ abandon \/ expire_activations
         \/ \E d \in Devices, a \in 0..MaxAttempts : report_ending(d, a)
  PROVE  StepRule
<1>1. run \in Runs
  BY TypeOKParts
<1>2. UNCHANGED <<rows, work>>
  BY DEF claim, LeaseLapses, authorise_commit, abandon, expire_activations, report_ending
<1>3. RunRule /\ Calm
  <2>1. CASE \E d \in Devices, takeover \in BOOLEAN : claim(d, takeover)
    <3>1. PICK d \in Devices : \E takeover \in BOOLEAN : claim(d, takeover)
      BY <2>1
    <3>2. /\ IsOpen
          /\ run.attempt < MaxAttempts
          /\ run' = [run EXCEPT !.owner = d, !.attempt = @ + 1, !.lease = "live"]
      BY <3>1 DEF claim
    <3>3. run.attempt + 1 \in 0..MaxAttempts
      BY <1>1, <3>2, ImportAssumption DEF Runs
    <3>4. run' \in Runs /\ run'.deletion = run.deletion
      BY <1>1, <3>2, <3>3 DEF Runs
    <3> QED  BY <1>2, <3>2, <3>4 DEF RunRule, Calm, work
  <2>2. CASE LeaseLapses
    BY <2>2, <1>1, <1>2 DEF LeaseLapses, Runs, RunRule, Calm, work
  <2>3. CASE authorise_commit
    BY <2>3, <1>1, <1>2 DEF authorise_commit, Runs, RunStates, Open, RunRule, Calm, work
  <2>4. CASE abandon
    BY <2>4, <1>1, <1>2, SetRunState DEF abandon, RunStates, RunRule, Calm, work, IsOpen
  <2>5. CASE expire_activations
    BY <2>5, <1>1, <1>2 DEF expire_activations, Runs, RunStates, IsOpen, Open, RunRule, Calm, work
  <2>6. CASE \E d \in Devices, a \in 0..MaxAttempts : report_ending(d, a)
    <3>1. IsOpen
      BY <2>6, CurrentIsOpen DEF report_ending
    <3>2. run' \in {[run EXCEPT !.state = "failed"], [run EXCEPT !.state = "failed", !.lease = "none"]}
      BY <2>6 DEF report_ending
    <3> QED  BY <1>1, <1>2, <3>1, <3>2 DEF Runs, RunStates, RunRule, Calm, work
  <2> QED  BY <2>1, <2>2, <2>3, <2>4, <2>5, <2>6
<1>4. RowRule
  BY <1>2, RowsKept
<1> QED  BY <1>2, <1>3, <1>4, TypeOKParts DEF StepRule, WorkTyped, Passed, work

LEMMA JobStep ==
  ASSUME TypeOK, JobMoves
  PROVE  StepRule
<1>1. UNCHANGED <<run, rows, published, pass>> /\ jobs' \in JobStates /\ jobs # "quiet"
  BY DEF JobMoves, JobStates
<1>2. RowRule
  BY <1>1, RowsKept
<1> QED  BY <1>1, <1>2, TypeOKParts DEF StepRule, RunRule, Calm, WorkTyped, Passed

-----------------------------------------------------------------------------
(* The steps that move a deletion.                                         *)

\* A deletion is asked of a run that takes no more writes.
Stopped == run.deletion # "none" => ~IsOpen

LEMMA DeletionStatus ==
  ASSUME NEW r, NEW owned
  PROVE  /\ run_deletion_status(r, owned) \in Deletions \ {"none"}
         /\ run_deletion_status(r, owned) = "deleted" =>
              owned = "quiet" /\ r.lease # "live" /\ r.state # "committing"
  BY DEF run_deletion_status, Deletions

\* What a step that moves a deletion shows.
DeletionRule ==
  /\ RunRule /\ RowRule /\ WorkTyped(jobs', published', pass')
  /\ run'.state \notin Open
  /\ run'.deletion = "deleted" => run'.lease # "live" /\ jobs' = "quiet"

LEMMA DeleteStep ==
  ASSUME TypeOK, delete
  PROVE  DeletionRule
<1>1. run \in Runs
  BY TypeOKParts
<1> DEFINE fencedRun == [run EXCEPT !.state = IF IsOpen THEN "abandoned" ELSE @, !.lease = Hold]
<1>2. /\ fencedRun \in Runs /\ fencedRun.state \notin Open
      /\ ~IsOpen => fencedRun.state = run.state
  BY <1>1 DEF Runs, RunStates, IsOpen, Hold, Open
<1>3. PICK owned \in JobStates :
       LET reached == run_deletion_status(fencedRun, owned)
           status  == IF reached = "deleted" /\ run.state = "committing" THEN "stopping" ELSE reached
       IN  run' = [fencedRun EXCEPT !.deletion = status] /\ jobs' = owned
  BY DEF delete
<1> HIDE DEF fencedRun
<1> DEFINE reached == run_deletion_status(fencedRun, owned)
           status  == IF reached = "deleted" /\ run.state = "committing" THEN "stopping" ELSE reached
<1>4. run' = [fencedRun EXCEPT !.deletion = status] /\ jobs' = owned
  BY <1>3
<1>5. status \in Deletions /\ (status = "deleted" => owned = "quiet" /\ fencedRun.lease # "live")
  BY DeletionStatus DEF Deletions
<1> HIDE DEF status
<1>6. /\ run' \in Runs /\ run'.state = fencedRun.state
      /\ run'.lease = fencedRun.lease /\ run'.deletion = status
  BY <1>2, <1>4, <1>5 DEF Runs
<1>7. UNCHANGED <<rows, published, pass>>
  BY DEF delete
<1>8. RowRule
  BY <1>7, RowsKept
<1> QED
  BY <1>2, <1>3, <1>4, <1>5, <1>6, <1>7, <1>8, TypeOKParts DEF DeletionRule, RunRule, WorkTyped, Passed

\* A deletion read again: of a run that is settled, so nothing is committing.
LEMMA ReconciledStep ==
  ASSUME TypeOK, NEW r \in Runs, r.state = run.state, ~IsOpen, run' = Reconciled(r),
         UNCHANGED <<rows, work>>
  PROVE  DeletionRule
<1> DEFINE status == run_deletion_status(r, jobs)
<1>1. status \in Deletions /\ (status = "deleted" => jobs = "quiet" /\ r.lease # "live")
  BY DeletionStatus
<1>2. run' = [r EXCEPT !.deletion = status]
  BY DEF Reconciled
<1> HIDE DEF status
<1>3. run' \in Runs /\ run'.state = run.state /\ run'.lease = r.lease /\ run'.deletion = status
  BY <1>1, <1>2 DEF Runs
<1>4. RowRule
  BY RowsKept
<1> QED  BY <1>1, <1>3, <1>4, TypeOKParts DEF DeletionRule, RunRule, WorkTyped, Passed, work, IsOpen

LEMMA FinaliseStep ==
  ASSUME TypeOK, Stopped, finalise_deletion
  PROVE  DeletionRule
<1>1. run \in Runs /\ ~IsOpen
  BY TypeOKParts DEF Stopped, finalise_deletion
<1> QED  BY <1>1, ReconciledStep DEF finalise_deletion

LEMMA StopStep ==
  ASSUME TypeOK, NEW d, NEW a, stop_owned(d, a)
  PROVE  StepRule \/ DeletionRule
<1>1. run \in Runs /\ UNCHANGED <<rows, work>>
  BY TypeOKParts DEF stop_owned
<1>2. CASE ~IsOpen
  <2>1. [run EXCEPT !.lease = "none"] \in Runs /\ [run EXCEPT !.lease = "none"].state = run.state
    BY <1>1 DEF Runs
  <2>2. run' = Reconciled([run EXCEPT !.lease = "none"])
    BY <1>2 DEF stop_owned
  <2> QED  BY <1>1, <1>2, <2>1, <2>2, ReconciledStep
<1>3. CASE IsOpen
  <2>1. run' = [run EXCEPT !.state = "abandoned"]
    BY <1>3 DEF stop_owned
  <2>2. RowRule
    BY <1>1, RowsKept
  <2> QED
    BY <1>1, <1>3, <2>1, <2>2, TypeOKParts
    DEF StepRule, RunRule, Calm, WorkTyped, Passed, work, Runs, RunStates
<1> QED  BY <1>2, <1>3

-----------------------------------------------------------------------------
(* The inductive invariant.                                                *)

\* What was made of a listing is bound to it, so that the next commit finds it.
Bound == \A i \in Items : created[i] = 0 \/ (created[i] = 1 /\ i \in made)

Inv == TypeOK /\ Stopped /\ DeletedIsQuiet /\ Bound /\ ReviewIsAsked

LEMMA DeviceSteps ==
  ASSUME TypeOK, NEW d \in Devices, Device(d)
  PROVE  StepRule \/ DeletionRule
<1>1. CASE \E takeover \in BOOLEAN : claim(d, takeover)
  BY <1>1, RunSteps
<1>2. CASE \E a \in 0..MaxAttempts :
             report_ending(d, a) \/ stop_owned(d, a) \/ \E p \in Pages : Sendable(p) /\ run_page(d, a, p)
  <2>1. PICK a \in 0..MaxAttempts :
          report_ending(d, a) \/ stop_owned(d, a) \/ \E p \in Pages : Sendable(p) /\ run_page(d, a, p)
    BY <1>2
  <2>2. CASE report_ending(d, a)
    BY <2>2, RunSteps
  <2>3. CASE stop_owned(d, a)
    BY <2>3, StopStep
  <2>4. CASE \E p \in Pages : Sendable(p) /\ run_page(d, a, p)
    BY <2>4, RunPageStep
  <2> QED  BY <2>1, <2>2, <2>3, <2>4
<1> QED  BY <1>1, <1>2 DEF Device

LEMMA SellerSteps ==
  ASSUME TypeOK, Seller
  PROVE  StepRule \/ DeletionRule
<1>1. CASE \E chosen \in SUBSET Items : select(chosen)
  BY <1>1, SelectStep
<1>2. CASE authorise_commit \/ abandon
  BY <1>2, RunSteps
<1>3. CASE delete
  BY <1>3, DeleteStep
<1>4. CASE \E i \in Items : undo(i) \/ \E v \in Pairs : decide(i, v)
  BY <1>4, UndoStep, DecideStep
<1> QED  BY <1>1, <1>2, <1>3, <1>4 DEF Seller

LEMMA PassSteps ==
  ASSUME TypeOK, NEW p \in Passes, Pass(p) \/ PassFails(p)
  PROVE  StepRule
<1>1. pass[p] \in PassRows
  BY TypeOKParts DEF WorkTyped, Passed
<1>2. CASE record_failure(p) \/ recount(p) \/ publish(p)
  BY <1>2, RecordFailureStep, RecountStep, PublishStep
<1>3. CASE At(p, "commit") /\ \E i \in pass[p].page : HeldBack(p, i) \/ Refused(p, i) \/ commit_one(p, i)
  <2>1. PICK i \in pass[p].page : HeldBack(p, i) \/ Refused(p, i) \/ commit_one(p, i)
    BY <1>3
  <2>2. i \in Items
    BY <1>1, <2>1 DEF PassRows
  <2> QED  BY <1>3, <2>1, <2>2, UncommittedStep, CommitStep
<1>4. CASE drainable(p) \/ commit_page(p) \/ Published(p) \/ PassFails(p)
  BY <1>4, ChunkSteps
<1> QED  BY <1>2, <1>3, <1>4 DEF Pass

LEMMA NextSteps ==
  ASSUME TypeOK, Stopped, [Next]_vars
  PROVE  StepRule \/ DeletionRule
<1>1. CASE \E d \in Devices : Device(d)
  BY <1>1, DeviceSteps
<1>2. CASE Seller
  BY <1>2, SellerSteps
<1>3. CASE Sweep
  BY <1>3, RunSteps, FinaliseStep DEF Sweep
<1>4. CASE LeaseLapses \/ JobMoves
  BY <1>4, RunSteps, JobStep
<1>5. CASE \E p \in Passes : Pass(p) \/ PassFails(p)
  BY <1>5, PassSteps
<1>6. CASE UNCHANGED vars
  <2>1. UNCHANGED <<run, rows, work>>
    BY <1>6 DEF vars, rows, work
  <2>2. RowRule
    BY <2>1, RowsKept
  <2> QED  BY <2>1, <2>2, TypeOKParts DEF StepRule, RunRule, Calm, WorkTyped, Passed, work
<1> QED  BY <1>1, <1>2, <1>3, <1>4, <1>5, <1>6 DEF Next

LEMMA InvInit == Init => Inv
<1> SUFFICES ASSUME Init PROVE Inv
  OBVIOUS
<1>1. run \in Runs /\ IsOpen /\ run.deletion = "none"
  <2>1. run \in [state : {"reading"}, scheduled : BOOLEAN, owner : {None}, attempt : {0},
                  lease : {"none"}, walked : {FALSE}, frozen : {FALSE}, authorised : {FALSE},
                  deletion : {"none"}]
    BY DEF Init
  <2>2. 0 \in 0..MaxAttempts
    BY ImportAssumption
  <2>3. run \in Runs
    BY <2>1, <2>2 DEF Runs, RunStates, Open, Deletions
  <2>4. run.state = "reading" /\ run.deletion = "none"
    BY <2>1
  <2> QED  BY <2>3, <2>4 DEF IsOpen, Open
<1>2. RowsTyped(item, receipts, pair, made, created)
  BY DEF Init, RowsTyped, ItemMaps, ItemStates, Pairs
<1>3. WorkTyped(jobs, published, pass)
  <2>1. Idle.at # "refused"
    BY DEF Idle
  <2> QED  BY <2>1, IdleRow DEF Init, WorkTyped, JobStates, Passed
<1>4. Bound
  BY DEF Init, Bound
<1>5. ReviewIsAsked
  BY DEF Init, ReviewIsAsked
<1> QED  BY <1>1, <1>2, <1>3, <1>4, <1>5, TypeOKParts DEF Inv, Stopped, DeletedIsQuiet

LEMMA InvStep == Inv /\ [Next]_vars => Inv'
<1> SUFFICES ASSUME Inv, [Next]_vars PROVE Inv'
  OBVIOUS
<1>1. StepRule \/ DeletionRule
  BY NextSteps DEF Inv
<1>2. RunRule /\ RowRule /\ WorkTyped(jobs', published', pass')
  BY <1>1 DEF StepRule, DeletionRule
<1>3. TypeOK'
  BY <1>2, TypeOKNext DEF RunRule, RowRule
<1>4. IsOpen' => IsOpen
  BY <1>2 DEF RunRule, IsOpen
<1>5. Stopped' /\ DeletedIsQuiet'
  <2>1. CASE StepRule
    BY <2>1, <1>4 DEF StepRule, Calm, Inv, Stopped, DeletedIsQuiet
  <2>2. CASE DeletionRule
    BY <2>2 DEF DeletionRule, Stopped, DeletedIsQuiet, IsOpen
  <2> QED  BY <1>1, <2>1, <2>2
<1>6. Bound'
  BY <1>2, TypeOKParts DEF RowRule, RowsTyped, Bound, Inv
<1>7. ReviewIsAsked'
  BY <1>2, <1>4 DEF RowRule, ReviewIsAsked, Inv
<1> QED  BY <1>3, <1>5, <1>6, <1>7 DEF Inv

LEMMA Invariance == Spec => []Inv
  BY InvInit, InvStep, PTL DEF Spec

-----------------------------------------------------------------------------
(* The theorems.                                                           *)

\* The rows, the run and what each pass remembers are always of their types.
THEOREM Typed == Spec => []TypeOK
<1>1. Inv => TypeOK
  BY DEF Inv
<1> QED  BY <1>1, Invariance, PTL

\* However many passes commit at once, a listing becomes one resource: each
\* commit looks up what an earlier one bound (commit_one, claimed_product_for).
THEOREM OneResourceEach == Spec => []CreatedOnce
<1>1. Inv => CreatedOnce
  BY DEF Inv, Bound, CreatedOnce
<1> QED  BY <1>1, Invariance, PTL

\* An item in review is one the seller is asked about (decide, undo, run_page).
THEOREM ReviewsAreAsked == Spec => []ReviewIsAsked
<1>1. Inv => ReviewIsAsked
  BY DEF Inv
<1> QED  BY <1>1, Invariance, PTL

\* A run is deleted only when nothing it began goes on, whoever still holds
\* pages, leases or passes of it (delete, finalise_deletions, stop_owned).
THEOREM DeletedRunsAreQuiet == Spec => []DeletedIsQuiet
<1>1. Inv => DeletedIsQuiet
  BY DEF Inv
<1> QED  BY <1>1, Invariance, PTL

\* A settled run and its items are final (set_run_state, fenced, advanceable).
THEOREM SettledRunsAreFinal == Spec => SettledIsFinal
<1>1. Inv /\ [Next]_vars => [~IsOpen => run'.state = run.state /\ item' = item]_vars
  <2> SUFFICES ASSUME Inv, [Next]_vars, ~IsOpen
               PROVE  run'.state = run.state /\ item' = item
    OBVIOUS
  <2>1. RunRule /\ RowRule
    BY NextSteps DEF Inv, StepRule, DeletionRule
  <2> QED  BY <2>1 DEF RunRule, RowRule
<1> QED  BY <1>1, Invariance, PTL DEF Spec, SettledIsFinal

\* Nothing is created while its pair is parked (parked_for, commit_one).
THEOREM NothingUnderAQuestion == Spec => NoneUnderAQuestion
<1>1. Inv /\ [Next]_vars =>
        [\A i \in Items : created'[i] # created[i] => pair[i] # "parked"]_vars
  <2> SUFFICES ASSUME Inv, [Next]_vars, NEW i \in Items, created'[i] # created[i]
               PROVE  pair[i] # "parked"
    OBVIOUS
  <2>1. RowRule
    BY NextSteps DEF Inv, StepRule, DeletionRule
  <2> QED  BY <2>1 DEF RowRule
<1> QED  BY <1>1, Invariance, PTL DEF Spec, NoneUnderAQuestion

\* A late refusal never overwrites what an item became (record_failed).
THEOREM SettledItemsNeverFail == Spec => SettledNeverFails
<1>1. Inv /\ [Next]_vars =>
        [\A i \in Items : item[i] \in {"imported", "skipped"} => item'[i] # "failed"]_vars
  <2> SUFFICES ASSUME Inv, [Next]_vars, NEW i \in Items, item[i] \in {"imported", "skipped"}
               PROVE  item'[i] # "failed"
    OBVIOUS
  <2>1. RowRule
    BY NextSteps DEF Inv, StepRule, DeletionRule
  <2> QED  BY <2>1 DEF RowRule
<1> QED  BY <1>1, Invariance, PTL DEF Spec, SettledNeverFails
=============================================================================
