----------------------------- MODULE ImportRuns -----------------------------
(***************************************************************************)
(* One marketplace import run on the server: the run row and its items     *)
(* (tam-storage/src/import_runs.rs), the routes that move them             *)
(* (tam-api/src/import_runs.rs, duplicates.rs) and the scheduler's pass    *)
(* that drains, publishes and sweeps (tam-api/src/scheduler.rs).           *)
(*                                                                         *)
(* Every handler that moves the run holds the run's row, so a handler is   *)
(* one step; a drain pass is several, and what it read in an earlier step  *)
(* may be stale.  A device's request names the attempt the device believes *)
(* it holds: here any device may send any page of any attempt at any time, *)
(* which covers one that woke late, sent twice or was taken over.          *)
(* ImportDevices composes these handlers with the devices themselves.      *)
(***************************************************************************)
EXTENDS Naturals, FiniteSets

CONSTANTS
  Devices, Items, None,
  Passes,       \* scheduler passes that may overlap: one per serving process
  Receipts,     \* receipts a page may carry
  MaxAttempts   \* bound on claims

ASSUME ImportAssumption ==
  /\ None \notin Devices \cup Items \cup Receipts
  /\ MaxAttempts \in Nat

VARIABLES
  run,        \* import_run
  item,       \* import_run_item.state; "absent" is no row
  receipts,   \* receipts of pages already applied
  pair,       \* duplicate_verdict between the item and the resource it resembles
  made,       \* listings some resource of the catalogue is bound to
  jobs,       \* the worst of the publishing jobs the run owns
  published,  \* items a publishing job was minted for
  pass,       \* per scheduler pass, where it is
  created     \* ghost: how many resources were made of the listing

vars == <<run, item, receipts, pair, made, jobs, published, pass, created>>
rows == <<item, receipts, pair, made, created>>
work == <<jobs, published, pass>>

Open == {"reading", "reviewing", "committing"}
RunStates == Open \cup {"complete", "failed", "abandoned"}
Outstanding == {"listed", "selected", "matched", "review"}
ItemStates == Outstanding \cup {"absent", "imported", "skipped", "failed"}
Pairs == {"none", "parked", "different", "same", "kept"}
Deletions == {"none", "stopping", "needs_review", "deleted"}
JobStates == {"quiet", "working", "unaccounted"}
Steps == {"idle", "chunk", "commit", "refused", "publish"}
\* page: what is left of the list the pass read; moved: whether the chunk
\* created, restored or failed anything; refusing: the item whose refusal it holds.
Idle == [at |-> "idle", page |-> {}, moved |-> FALSE, refusing |-> None]

\* A page lists a part of the shop, or describes a part of the selection.
Listings == [listed : SUBSET Items, close : BOOLEAN, read : {{}}, skip : {{}},
             complete : {FALSE}, receipt : Receipts \cup {None}]
Descriptions ==
  {p \in [listed : {{}}, close : {FALSE}, read : SUBSET Items, skip : SUBSET Items,
          complete : BOOLEAN, receipt : Receipts \cup {None}] : p.read \cap p.skip = {}}
Pages == Listings \cup Descriptions

Init ==
  /\ run \in [state : {"reading"}, scheduled : BOOLEAN, owner : {None}, attempt : {0},
              lease : {"none"}, walked : {FALSE}, frozen : {FALSE}, authorised : {FALSE},
              deletion : {"none"}]
  /\ item = [i \in Items |-> "absent"]
  /\ receipts = {} /\ made \in SUBSET Items
  /\ pair = [i \in Items |-> "none"]
  /\ jobs = "quiet" /\ published = {}
  /\ pass = [p \in Passes |-> Idle]
  /\ created = [i \in Items |-> IF i \in made THEN 1 ELSE 0]

IsOpen == run.state \in Open
InState(it, states) == {i \in Items : it[i] \in states}
outstanding(it) == InState(it, Outstanding) # {}

\* Only from an open state, which the caller has looked at or not.
set_run_state(r, s) == IF r.state \in Open THEN [r EXCEPT !.state = s] ELSE r
settle_if_done(r, it) == IF outstanding(it) THEN r ELSE set_run_state(r, "complete")

CommitAuthorised == run.scheduled \/ run.authorised

-----------------------------------------------------------------------------
(* The device's own routes, under its fence.                               *)

fenced(d, a) ==
  CASE ~IsOpen -> "settled"
    [] IsOpen /\ run.owner # d -> "not_owner"
    [] IsOpen /\ run.owner = d /\ run.attempt # a -> "stale"
    [] IsOpen /\ run.owner = d /\ run.attempt = a /\ run.lease # "live" -> "expired"
    [] OTHER -> "current"

\* A claim by the device that already owns the run raises the attempt too.
claim(d, takeover) ==
  /\ IsOpen /\ (takeover \/ run.owner \in {None, d})
  /\ run.attempt < MaxAttempts
  /\ run' = [run EXCEPT !.owner = d, !.attempt = @ + 1, !.lease = "live"]
  /\ UNCHANGED <<rows, work>>

\* A renewal, a progress line or a page under the fence keeps the lease live:
\* it lapses when none came for the window, and is then as good as none.
LeaseLapses ==
  /\ run.lease = "live"
  /\ run' = [run EXCEPT !.lease = "none"]
  /\ UNCHANGED <<rows, work>>

\* A terminal report, or a page that says the import failed.
report_ending(d, a) ==
  /\ fenced(d, a) = "current"
  /\ run' \in {[run EXCEPT !.state = "failed"], [run EXCEPT !.state = "failed", !.lease = "none"]}
  /\ UNCHANGED <<rows, work>>

select_items(r, it, chosen) ==
  IF r.state # "reading" \/ ~r.walked THEN [run |-> r, item |-> it] ELSE
  LET taken == [i \in Items |-> IF it[i] # "listed" THEN it[i]
                                ELSE IF i \in chosen THEN "selected" ELSE "skipped"]
  IN  [run |-> settle_if_done([r EXCEPT !.frozen = TRUE], taken), item |-> taken]

\* Rows the catalogue holds already, and whole, are skipped as they are listed,
\* whatever the row says by then.
append_listed(it, listed, held) ==
  [i \in Items |-> IF i \in listed \cap held THEN "skipped"
                   ELSE IF i \in listed /\ it[i] = "absent" THEN "listed" ELSE it[i]]

\* A description is taken once.
Undescribed(s) == s \in {"absent", "listed", "selected"}

\* The scorer never asks about a pair twice, and an open question outranks it.
\* Mutant: the open question is not looked up.
Scores_mutant(v) == IF v \in {"none", "parked"} THEN {"none", "parked", "same"} ELSE {v}
Scores(v) == IF v = "none" THEN {"none", "parked", "same"} ELSE {v}

\* Where a scored item stands.
Verdict(v) == CASE v = "parked" -> "review"
                [] v = "same" -> "skipped"
                [] OTHER -> "matched"

record_skipped(it, skip) ==
  [i \in Items |-> IF i \in skip /\ it[i] # "absent" THEN "skipped" ELSE it[i]]

\* What the page leaves, were the scorer to answer score for the items it
\* takes. Whether the walk is over is also read off the head, seen before the
\* lock was taken, where a close that came between is not to be found.
Applied(p, held, score, seen) ==
  LET listed    == append_listed(item, p.listed, held)
      closed    == [run EXCEPT !.walked = @ \/ p.close]
      chosen    == IF p.close /\ run.scheduled THEN select_items(closed, listed, Items)
                   ELSE [run |-> closed, item |-> listed]
      taken     == {i \in p.read : Undescribed(chosen.item[i])}
      described == [i \in Items |-> IF i \in taken THEN Verdict(score[i]) ELSE chosen.item[i]]
      left      == record_skipped(described, p.skip)
      next      == CASE (p.close \/ seen) /\ ~outstanding(left) -> "complete"
                     [] p.complete -> IF run.scheduled THEN "committing" ELSE "reviewing"
                     [] OTHER -> chosen.run.state
  IN  [run  |-> set_run_state(chosen.run, next), item |-> left,
       pair |-> [i \in Items |-> IF i \in taken THEN score[i] ELSE pair[i]]]

Fresh(p) == p.receipt = None \/ p.receipt \notin receipts

\* A merge the scorer decides binds the listing onto the resource it kept,
\* where that has a file.
run_page(d, a, p) ==
  /\ fenced(d, a) = "current" /\ Fresh(p)
  /\ \E held \in SUBSET (made \cap p.listed), score \in [p.read -> Pairs],
        seen \in {FALSE, run.walked} :
       LET after == Applied(p, held, score, seen)
       IN  /\ \A i \in p.read : score[i] \in Scores(pair[i])
           /\ run' = after.run /\ item' = after.item /\ pair' = after.pair
           /\ \E onto \in SUBSET {i \in Items : pair'[i] = "same" /\ pair[i] # "same"} :
                made' = made \cup onto
  /\ receipts' = receipts \cup ({p.receipt} \ {None})
  /\ UNCHANGED <<created, work>>

-----------------------------------------------------------------------------
(* Deletion.                                                               *)

\* What the run still does, folded with the worst of the jobs it owns.
\* Mutant: a device that owns the run holds it, whatever its lease.
run_deletion_status_mutant(r, owned) ==
  IF r.owner # None \/ r.state = "committing" THEN "stopping"
  ELSE CASE owned = "quiet" -> "deleted"
         [] owned = "working" -> "stopping"
         [] OTHER -> "needs_review"
run_deletion_status(r, owned) ==
  IF r.lease = "live" \/ r.state = "committing" THEN "stopping"
  ELSE CASE owned = "quiet" -> "deleted"
         [] owned = "working" -> "stopping"
         [] OTHER -> "needs_review"

Hold == IF IsOpen \/ run.deletion # "none" THEN run.lease ELSE "none"

\* The fence may take the jobs' unclaimed items away, and so quiet them.
fence_owned_jobs(owned) ==
  owned = jobs \/ (jobs = "working" /\ owned = "quiet")

delete ==
  /\ \E owned \in JobStates :
       /\ fence_owned_jobs(owned)
       /\ LET fencedRun == [run EXCEPT !.state = IF IsOpen THEN "abandoned" ELSE @, !.lease = Hold]
              reached   == run_deletion_status(fencedRun, owned)
              status    == IF reached = "deleted" /\ run.state = "committing"
                           THEN "stopping" ELSE reached
          IN  run' = [fencedRun EXCEPT !.deletion = status]
       /\ jobs' = owned
  /\ UNCHANGED <<rows, published, pass>>

Reconciled(r) == [r EXCEPT !.deletion = run_deletion_status(r, jobs)]

finalise_deletion ==
  /\ run.deletion \in {"stopping", "needs_review"}
  /\ run' = Reconciled(run)
  /\ UNCHANGED <<rows, work>>

\* Under its own fence, but for the lease; a stop of a settled run that was
\* deleted under the same attempt is the device saying it has stopped.
Acknowledges(d, a) == run.deletion # "none" /\ run.owner = d /\ run.attempt = a

stop_owned(d, a) ==
  /\ \/ ~IsOpen /\ Acknowledges(d, a) /\ run' = Reconciled([run EXCEPT !.lease = "none"])
     \/ IsOpen /\ run.owner = d /\ run.attempt = a /\ run' = [run EXCEPT !.state = "abandoned"]
  /\ UNCHANGED <<rows, work>>

-----------------------------------------------------------------------------
(* The seller.                                                             *)

select(chosen) ==
  /\ run.state = "reading" /\ run.walked
  /\ LET after == select_items(run, item, chosen)
     IN  run' = after.run /\ item' = after.item
  /\ UNCHANGED <<receipts, pair, made, created, work>>

authorise_commit ==
  /\ IsOpen
  /\ run' = [run EXCEPT !.state = "committing", !.authorised = TRUE]
  /\ UNCHANGED <<rows, work>>

abandon ==
  /\ IsOpen
  /\ run' = set_run_state(run, "abandoned")
  /\ UNCHANGED <<rows, work>>

\* Only an open run lets its items move; the answer itself is kept anyway.
\* Mutant: whatever the run has become.
advanceable_mutant == TRUE
advanceable == IsOpen

\* An answer to a parked pair: two resources, one and the catalogue's stays
\* ("same"), or one and the item's own stays ("kept").
decide(i, verdict) ==
  /\ pair[i] = "parked" /\ verdict \in {"different", "same", "kept"}
  /\ pair' = [pair EXCEPT ![i] = verdict]
  /\ item' = [item EXCEPT ![i] =
                CASE ~advanceable \/ @ = "imported" -> @
                  [] advanceable /\ @ # "imported" /\ verdict = "same" -> "skipped"
                  [] advanceable /\ @ = "review" /\ verdict # "same" -> "matched"
                  [] OTHER -> @]
  /\ UNCHANGED <<run, receipts, made, created, work>>

\* A merge undone is a question again; a resource it tombstoned comes back and
\* the item it kept is left as it is.
\* Mutant: the pair is left answered.
Reopened_mutant(verdict) == "different"
Reopened(verdict) == "parked"

undo(i) ==
  /\ pair[i] \in {"same", "kept"}
  /\ pair' = [pair EXCEPT ![i] = Reopened(pair[i])]
  /\ item' = [item EXCEPT ![i] =
                IF pair[i] = "same" /\ advanceable /\ @ \in {"skipped", "matched", "review"}
                THEN "review" ELSE @]
  /\ UNCHANGED <<run, receipts, made, created, work>>

-----------------------------------------------------------------------------
(* The scheduler's pass.                                                   *)

At(p, step) == pass[p].at = step
Goes(p, to) == pass' = [pass EXCEPT ![p] = to]
Chunk == [Idle EXCEPT !.at = "chunk"]

drainable(p) ==
  /\ At(p, "idle") /\ run.state = "committing" /\ CommitAuthorised
  /\ Goes(p, Chunk)
  /\ UNCHANGED <<run, rows, jobs, published>>

\* A chunk takes ITEMS_PER_CHUNK items, and a pass eight chunks: more than the
\* items of an instance.
commit_page(p) ==
  /\ At(p, "chunk")
  /\ Goes(p, [Idle EXCEPT !.at = "commit",
                          !.page = IF run.deletion = "none" THEN InState(item, {"matched"}) ELSE {}])
  /\ UNCHANGED <<run, rows, jobs, published>>

\* The item's own transaction, under the run's guard: what the page said of it
\* is asked again.
Committable(i) == IsOpen /\ CommitAuthorised /\ item[i] = "matched"

\* A listing some resource is bound to names that one, and the scorer is not
\* asked.
Rescores(i) == IF pair[i] = "none" /\ i \in made THEN {"none"} ELSE Scores(pair[i])

\* Mutant: what the listing is bound to is not looked up.
Creates_mutant(i, score) == Verdict(score) = "matched"
Creates(i, score) == Verdict(score) = "matched" /\ i \notin made

HeldBack(p, i) ==
  /\ ~Committable(i)
  /\ Goes(p, [pass[p] EXCEPT !.page = @ \ {i}])
  /\ UNCHANGED <<run, rows, jobs, published>>

\* The listing cannot be prepared, which is found before the run is looked at,
\* or is one resource too many.
\* Mutant: the chunk goes on without recording the refusal.
Refused_mutant(p, i) ==
  /\ Goes(p, [pass[p] EXCEPT !.at = "refused", !.page = @ \ {i}])
  /\ UNCHANGED <<run, rows, jobs, published>>
Refused(p, i) ==
  /\ Goes(p, [pass[p] EXCEPT !.at = "refused", !.page = @ \ {i}, !.refusing = i])
  /\ UNCHANGED <<run, rows, jobs, published>>

\* A resource the listing is bound to may have been deleted by the seller: the
\* import brings it back, which the run counts as one more.
Restorable(i, score) == Verdict(score) = "matched" /\ i \in made

commit_one(p, i) ==
  /\ Committable(i)
  /\ \E score \in Rescores(i), adds \in BOOLEAN :
       /\ adds \in {Creates(i, score)} \cup (IF Restorable(i, score) THEN {TRUE} ELSE {})
       /\ pair' = [pair EXCEPT ![i] = score]
       /\ item' = [item EXCEPT ![i] = IF adds THEN "imported"
                                      ELSE IF Verdict(score) = "review" THEN "review"
                                      ELSE "skipped"]
       /\ run' = IF Verdict(score) = "review" THEN run ELSE settle_if_done(run, item')
       /\ made' \in IF Creates(i, score) THEN {made \cup {i}}
                    ELSE IF score = "same" THEN {made, made \cup {i}} ELSE {made}
       /\ created' = [created EXCEPT ![i] = IF Creates(i, score) THEN @ + 1 ELSE @]
       /\ Goes(p, [pass[p] EXCEPT !.page = @ \ {i}, !.moved = @ \/ adds])
  /\ UNCHANGED <<receipts, jobs, published>>

\* The refusal of a transaction that is over, in another.
\* Mutant: over whatever the item has become.
Unsettled_mutant(i) == IsOpen
Unsettled(i) == IsOpen /\ item[i] \notin {"imported", "skipped", "failed"}

record_failure(p) ==
  /\ At(p, "refused")
  /\ LET i == pass[p].refusing
     IN  /\ item' = [item EXCEPT ![i] = IF Unsettled(i) THEN "failed" ELSE @]
         /\ Goes(p, [pass[p] EXCEPT !.at = "commit", !.refusing = None,
                                    !.moved = @ \/ Unsettled(i)])
  /\ UNCHANGED <<run, receipts, pair, made, created, jobs, published>>

\* The chunk's own recount; the pass goes on while chunks move something, then
\* publishes what a scheduled run imported.
recount(p) ==
  /\ At(p, "commit") /\ pass[p].page = {}
  /\ run' = settle_if_done(run, item)
  /\ Goes(p, CASE pass[p].moved /\ run'.state # "complete" -> Chunk
               [] run.scheduled /\ ~(pass[p].moved /\ run'.state # "complete") ->
                    [Idle EXCEPT !.at = "publish", !.page = InState(item, {"imported"})]
               [] OTHER -> Idle)
  /\ UNCHANGED <<rows, jobs, published>>

\* The mint asks the run, under its lock.
\* Mutant: it trusts the head the pass holds.
Mintable_mutant == TRUE
Mintable == run.deletion = "none"

publish(p) ==
  /\ At(p, "publish")
  /\ \E i \in pass[p].page :
       IF Mintable \/ i \in published
       THEN /\ Goes(p, [pass[p] EXCEPT !.page = @ \ {i}])
            /\ published' = published \cup {i}
            /\ jobs' = IF i \in published \/ jobs = "unaccounted" THEN jobs ELSE "working"
       ELSE Goes(p, Idle) /\ UNCHANGED <<published, jobs>>
  /\ UNCHANGED <<run, rows>>

Published(p) ==
  /\ At(p, "publish") /\ pass[p].page = {}
  /\ Goes(p, Idle)
  /\ UNCHANGED <<run, rows, jobs, published>>

\* The process dies, or the database faults and the tenant's pass ends.
PassFails(p) ==
  /\ ~At(p, "idle")
  /\ Goes(p, Idle)
  /\ UNCHANGED <<run, rows, jobs, published>>

expire_activations ==
  /\ run.state = "reading" /\ ~run.scheduled /\ run.attempt = 0
  /\ \A i \in Items : item[i] \in {"absent", "listed"}
  /\ run' = [run EXCEPT !.state = "failed"]
  /\ UNCHANGED <<rows, work>>

\* What JobLedger models: the worst of the jobs moves on, on its own.
JobMoves ==
  /\ jobs # "quiet"
  /\ jobs' \in {"quiet", IF jobs = "working" THEN "unaccounted" ELSE "working"}
  /\ UNCHANGED <<run, rows, published, pass>>

-----------------------------------------------------------------------------
\* A device describes what it fetched as the selection, once there is one, at
\* any later time. What was skipped as not chosen is not told apart from what
\* was chosen and skipped since.
Sendable(p) ==
  p \in Descriptions => run.frozen /\ p.read \cup p.skip \subseteq
                          {i \in Items : item[i] \notin {"absent", "listed"}}

Device(d) ==
  \/ \E takeover \in BOOLEAN : claim(d, takeover)
  \/ \E a \in 0..MaxAttempts :
       report_ending(d, a) \/ stop_owned(d, a) \/ \E p \in Pages : Sendable(p) /\ run_page(d, a, p)

Seller ==
  \/ \E chosen \in SUBSET Items : select(chosen)
  \/ authorise_commit \/ abandon \/ delete
  \/ \E i \in Items : undo(i) \/ \E v \in Pairs : decide(i, v)

Pass(p) ==
  \/ drainable(p) \/ commit_page(p) \/ record_failure(p) \/ recount(p)
  \/ publish(p) \/ Published(p)
  \/ At(p, "commit") /\ \E i \in pass[p].page : HeldBack(p, i) \/ Refused(p, i) \/ commit_one(p, i)

Sweep == expire_activations \/ finalise_deletion

Next ==
  \/ \E d \in Devices : Device(d)
  \/ Seller \/ Sweep \/ LeaseLapses \/ JobMoves
  \/ \E p \in Passes : Pass(p) \/ PassFails(p)

Spec == Init /\ [][Next]_vars

\* The sweep runs on every pass, and the clock runs down a lease that nobody
\* can renew, which is what a settled run's is.
LiveSpec == /\ Spec
            /\ WF_vars(finalise_deletion)
            /\ WF_vars(LeaseLapses /\ ~IsOpen)

-----------------------------------------------------------------------------
TypeOK ==
  /\ run \in [state : RunStates, scheduled : BOOLEAN, owner : Devices \cup {None}, attempt : 0..MaxAttempts,
              lease : {"none", "live"}, walked : BOOLEAN, frozen : BOOLEAN,
              authorised : BOOLEAN, deletion : Deletions]
  /\ item \in [Items -> ItemStates] /\ pair \in [Items -> Pairs]
  /\ receipts \subseteq Receipts /\ made \subseteq Items /\ published \subseteq Items
  /\ jobs \in JobStates
  /\ pass \in [Passes -> [at : Steps, page : SUBSET Items, moved : BOOLEAN,
                          refusing : Items \cup {None}]]
  /\ \A p \in Passes : At(p, "refused") => pass[p].refusing # None
  /\ created \in [Items -> Nat]

\* A run that settled stays as it settled, and so does every item of it: no
\* pass that was under way, no late page, no answer and no undo moves one
\* (set_run_state, import_runs.rs; advanceable, duplicates.rs).
SettledIsFinal ==
  [][~IsOpen => run'.state = run.state /\ item' = item]_vars

\* However many passes commit at once, and whatever is relisted, merged and
\* unmerged between, a listing becomes one resource (commit_one).
CreatedOnce == \A i \in Items : created[i] <= 1

\* Nothing is created while the seller owes an answer about it, though the
\* question came back after the item was last looked at (parked_for).
NoneUnderAQuestion ==
  [][\A i \in Items : created'[i] # created[i] => pair[i] # "parked"]_vars

\* An item waiting in review waits for a question the seller can see: were the
\* pair answered, nothing would ever move it (decide and undo).
ReviewIsAsked == IsOpen => \A i \in Items : item[i] = "review" => pair[i] = "parked"

\* A resource the seller says is a different one is not skipped as one they
\* have, though a merge of it was undone first (duplicates.rs:320).
DifferentIsAdded ==
  [][\A p \in Passes, i \in Items :
       created[i] = 0 /\ i \in pass[p].page /\ pass'[p] # pass[p] /\ item[i] = "matched" /\ pair[i] = "different"
         => item'[i] # "skipped"]_vars

\* The refusal of a commit that is over is not written over what another pass
\* or an answer made of the item since (record_failed).
SettledNeverFails ==
  [][\A i \in Items : item[i] \in {"imported", "skipped"} => item'[i] # "failed"]_vars

\* An import is reported deleted when nothing it began goes on: the run takes
\* no write, no hold is live, no publishing job works or is unaccounted for,
\* and none is ever minted (delete, finalise_deletion, the mint's fence).
DeletedIsQuiet ==
  run.deletion = "deleted" => ~IsOpen /\ run.lease # "live" /\ jobs = "quiet"

\* A deletion ends, deleted or with a write to review, however a device fell
\* silent: only a job still at work holds it (finalise_deletions).
DeletionEnds ==
  run.deletion = "stopping" ~> run.deletion \in {"deleted", "needs_review"} \/ jobs = "working"
=============================================================================
