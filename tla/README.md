# Listing Sync: the verification project

Listing Sync pushes a teacher's catalogue to marketplaces that have no API
(Tes, Teachers Pay Teachers) by driving their web forms from the seller's own
device, and reads the seller's shops back into a catalogue the same way. A
server keeps a ledger of what is to be done and what was attempted; a device
claims one item, or one import run, at a time, works it against the marketplace
and reports back. The hard promise is in the middle: a device can die, lose its
lease, be challenged or be told to stop at any moment, the marketplace and the
network can swallow an answer, and still no listing may be created twice, no
resource imported twice or forgotten, no work lost for ever, and what the seller
is told (settled, deleted, never ran, delivered) has to stay true.

This directory holds TLA+ modules for that core, the TLC configurations that
check them on small instances, and TLAPS proofs that hold for every instance.

## 1. Inventory

| Part | Source | State it keeps | Operations |
|---|---|---|---|
| Sync machine | `crates/tam-domain/src/lib.rs` | one item's progress, its open attempt, the step allowance | `initial`, `step` over twelve kinds of input |
| Job ledger | `crates/tam-storage/src/jobs.rs`, `mapping.rs`, migrations 0005, 0044 | items (state, owner, lease, epoch, count, gate, park, outcome), write attempts, bindings, halts, deletions, events | claim, renew, settle, park, hand back, charge, expire and steal, revive, open and settle an attempt, delete, finalise, halt, gate |
| Engine driver | `crates/tam-engine-driver/src/driver.rs` | one run: the machine, its pending effects, the current attempt | interprets effects against ledger ports and a marketplace adapter |
| Work API | `crates/tam-api/src/work.rs` | none of its own | claim, hand back, the held-by check in front of each device call |
| Maintenance | `crates/tam-worker/src/main.rs`, `crates/tam-api/src/scheduler.rs` | none of its own | the reaper loop, the deletion sweeps, the drain and publication of imports |
| Import runs | `crates/tam-storage/src/import_runs.rs`, `crates/tam-api/src/import_runs.rs`, `duplicates.rs` | a run's owner, lease, attempt, selection and activation; its items; the receipts of its pages; the questions between items and catalogue | claim, page, report, select, decide, undo, authorise, commit, publish, stop, delete |
| Desktop importer | `apps/desktop/src-tauri/src/import.rs` | a journal on disk (checkpoints, owed posts, stop marks, failed offers); in memory the slots, the tasks and their stop handles | press, find, claim, walk, describe, post, stop, scan, resume after a restart |
| Outbox | `crates/tam-storage/src/jobs.rs`, `crates/tam-engine/src/outbox.rs`, `crates/tam-server/src/notify.rs` | messages with attempts and a due time | append, claim due, deliver, mark delivered, retry later, dead-letter |
| Desktop job loop | `apps/desktop/src-tauri/src/work.rs` | the device's loop, heartbeat, in-flight run | polls the work API, runs the driver |
| Sync requests | `crates/tam-storage/src/sync_requests.rs` | requests and their legs | drain into jobs, classify |
| Rate budget, breaker | `jobs.rs`, `crates/tam-engine/src/breaker.rs` | tokens per window; recent outcomes | consume; open a halt |
| Devices, entitlements, billing, notifications, schedules, catalogue, taxonomy, pipelines, web | the other crates | their own tables | see `PROJECT.json`, "components" |

**How the parts interact.** The desktop's loop claims an item over the work
API; the claim is one transaction of the ledger that picks a candidate, marks it
leased and hands out an epoch. The driver builds a sync machine from the order
and interprets its effects one at a time: the ledger ports (open an attempt,
renew, park, gate, halt, settle) are HTTP calls back to the server, each a
transaction fenced by the epoch; the marketplace calls are made from the device
and are fenced by nothing. An import goes the other way: a device claims the run,
walks the shop, posts what it listed; the seller selects; a device, perhaps
another, describes the selection page by page; the seller answers what looks
like a duplicate and confirms; the scheduler's pass commits the items one
transaction at a time and, for a scheduled run, publishes them as jobs of the
ledger. Independently the server's maintenance loop expires leases and revives
parks, the seller answers, pastes bindings, stops and deletes, an operator lifts
halts, the sweeps finish deletions, and the outbox is drained by every serving
process.

**What is hard here.**

* *Interleaving:* a holder does not know that it lost its lease; every method
  can be called late, between any two statements of a reaper. The reaper itself
  is three statements under READ COMMITTED. Two scheduler passes may commit one
  run, two drainers deliver one message, two tasks of a device unwind over one
  slot.
* *Crashes:* a device dies between the write and its record. What stands in the
  ledger afterwards (an in-flight attempt at an epoch) or in the journal (a post
  whose answer was never read) is all the next holder has.
* *Fences:* three have to agree in the ledger: the epoch (who may speak), the
  partial unique index on in-flight attempts per mapping (who may write), and
  the one on live leases per connection (who may run). An import has one more,
  the attempt a claim raises, and posts that are moved from one fence to the
  next.
* *Answers lost:* a page may be applied with its answer lost, refused by the
  server, or answered by a gateway that is not the server at all.
* *Deletion:* it cannot kill a running device. It must answer `stopping` until
  nothing runs, must not mistake a write of unknown fate for no write, and must
  not leave a row in the connection's only slot.
* *Progress:* one account has one lease slot, so an item nobody can move stalls
  all the others.

**What makes each part correct.**

| Part | Properties |
|---|---|
| Sync machine | no attempt submits twice; each write has its own intent; an ambiguity can be reconciled; a commit was read; the allowance is exact |
| Job ledger | a former holder is fenced; settled rows are history; a deleted job is quiet, for ever; a cancelled item sent nothing; completion is announced exactly once it is true; bindings follow the fence; lapsed leases and stopping deletions do not last |
| Engine driver | a create is never submitted again once one may have landed; a run that loses its lease writes nothing further to the ledger; every stop leaves a state a later claim can continue |
| Import runs | a listing becomes one resource; nothing is created under an open question and every item in review has one; a settled run and a settled item stay so; a deleted import is quiet, and a deletion ends |
| Desktop importer | what a checkpoint credits was described; an owed page stays sendable; work can be stopped; a review leaves no listing behind |
| Outbox | at least once, to everybody; one verdict per message; every message ends delivered or dead |

The hazards, each at its line and with the properties that cover it or the
reason none does, are in `PROJECT.json`, "hazards".

## 2. Modules

```
SyncMachine ---- SyncMachineRuns ---- SyncMachineRuns_proofs
      \                                   JobLedger ---- JobLedger_proofs
       \                                  /
        `------ EngineDriver ------------'    EngineDriver_proofs:  DriverSpec  => JobLedger!Spec
                                              EngineDriverSafety_proofs: the driver's own invariants
ImportRuns ---- ImportRuns_proofs
      `------- ImportDevices                 ImportDevices_proofs: DevicesSpec => ImportRuns!Spec
Outbox ---- Outbox_proofs
```

`ImportRuns` sees the ledger as the worst state of the jobs its publication
minted (`jobs`), which moves on its own.

### SyncMachine, SyncMachineRuns

`SyncMachine` is the transition table, as a pure operator: `step(m, in)` is the
set of transitions from machine `m` on input `in`, empty where the code answers
`Err(MachineError)`. Titles, schemas, diagnostics and identifiers are abstracted
to what decides a row: whether the item has a title, whether the locator is
durable, a marker or a recorded title, and which attempt a state owns. Each
`*_rows` operator is the function of that name in `lib.rs`.

`SyncMachineRuns` drives one machine the way the crate's property suite does
(`drive`, lib.rs:4120): any input in any state, with the single promise that a
recorded intent names a fresh attempt. It counts writes (of each attempt and, in
`total`, of all), intents and emitted effects; no step reads the counters.

### JobLedger

One tenant's account at one marketplace. The state is the tables: `item`,
`attempt`, `binding`, `linked`, `halts`, `deletion`, `announced`, and `reaping`,
the rows a running `expire_and_steal` has still to take.

* Every repository method is one action; a method that runs several statements
  in one transaction is still one action, except `expire_and_steal`, whose
  statements see different snapshots (`expire_park`, then `expire_steal`).
* An action names an item, never a device: a call that names an epoch the item
  has left answers `StaleLease` and changes nothing, so it means "some holder,
  however late, presents the epoch the item carries now". A device that crashed,
  one that was robbed, and one that is running are the same to the ledger.
* Time is two bits per item: its lease has lapsed, its park has fallen due.
  Either may happen at any moment.
* A commit may be refused at its landing (the listing is another mapping's), so
  `Landings` has the refusal beside the landing and the sever.
* `claim_refused` is the claim route's error arm, which charges a claim whose
  order it could not prepare. `delete` and `finalise_deletion` run the whole of
  `fence_and_classify`; `settle` and `charge_and_requeue` run it too when a
  deletion stands, as the code does.
* `LeaseRepo::release` (jobs.rs:2012), which requeues a leased item without
  raising its epoch, is no action: only the storage crate's tests call it. With
  it `TakenIsFenced` would not hold.
* A publish is a revise as far as the ledger can tell; the outcome 'skipped'
  with the detail DELETED_BEFORE_IT_RAN is written `"cancelled"`.

### EngineDriver

The devices' runs over that ledger and a marketplace. It extends `JobLedger`,
whose actions are the ledger's transactions, and takes the transition table by
`INSTANCE SyncMachine`. Two variables are added: `run`, what a device holds in
memory (item and epoch it was handed, machine, `todo`: the machine's effects and
the driver's own steps around them still to be interpreted, pending input,
`current_attempt`), and `landed`, the attempts whose write the
marketplace carried out.

* One action per effect arm of `drive_item`, each of which is one or two calls:
  an arm that must renew and record before it writes (`Permit`) is separated
  from the write (`Send`), because the lease can be lost in between. `Send`
  reads nothing of the ledger: the write is fenced by nothing.
* Every ledger call passes `Held`, the work API's `held_by`, and may be refused
  (`CallFails`), or take effect and lose its answer (`Then`). Either way the run
  abandons and hands its lease back. A device may die at any point (`Crash`).
* `LoopTop` is the head of the loop, the only place that reads the stop flag and
  the deadline; every transition passes through it and may be stopped there.
* The marketplace's answer is free within two constants: `EarlyAnswers`, what an
  adapter may answer when nothing was carried out, and `LateAnswers`, what it may
  answer although the write landed. TPT's one form post can only lose its answer
  (`"ambiguous"`); Tes' submit goes on after the create and can end in any class.
* A read-back that sees a listing needs one to stand; a walk finds a create by
  its title only if exactly one stands; both may miss it (the catalogue lags).
* `Listings(m)` is what the creates of a mapping ever left; what a removal took
  down is not subtracted, so `OneStandingListing` is said of the mappings that no
  item removes.

### Outbox

The table and the drain loops that empty it. `row` is a message's state and
attempts, `due` its `available_at` having passed; a drainer's `batch` is the
copies it claimed, `at` the delivery it is in.

* The claim takes no lock, so two drainers may hold copies of one row; each mark
  (`mark_delivered`, `retry_later`, `mark_dead`) is a compare-and-set on the
  attempts the copy was read with.
* A delivery is a pass over the addresses of the message's topic, one mail each
  (`notify.rs`): it may be cut between any two of them by a relay's answer, a
  storage error, a panic or the end of the process. The process is started again
  (`Restart=on-failure`, nix/module.nix:1365); a panic ends only the task of the
  loop, which `spawn_outbox_drain` (main.rs:389) spawns once and nobody watches,
  so a loop that panicked stays down (`Panic`) until its process ends too
  (`Crash`, `Restart`; `ended` tells the two apart). What an answer does to the
  pass depends on the topic: an operator's refused address is stepped over, a
  seller's poisons the message.
* `mailed` and `refused` are ghosts: what some pass mailed, what a relay refused
  for good. No action reads them.

### ImportRuns

One marketplace import on the server: the run row, its items, the receipts of
pages applied, the verdict between each item and the catalogue resource it
resembles, and each scheduler pass.

* A handler that moves the run takes the run's row lock, so it is one action:
  `claim`, `run_page` (with the relisting, the freeze of a scheduled run, the
  scorer, the skips and `settle_if_done`; whether the walk was over is asked
  before the lock is taken, so the answer may be old), `report_ending`, `stop_owned`,
  `select`, `authorise_commit`, `abandon`, `decide`, `undo`, `delete`,
  `finalise_deletion`, `expire_activations`.
* A commit is a pass of several transactions: the page of matched items is read
  in one (`commit_page`), each item committed, held back or refused in its own
  (`commit_one`, `HeldBack`, `Refused`; a refusal may come from the preparation,
  before the run's row is looked at), the refusal recorded in yet another
  (`record_failure`), then the recount and the publication. Two passes overlap
  freely, and a pass ends anywhere (`PassFails`).
* A listing bound to a resource the seller has deleted brings it back and counts
  as imported (`Restorable`): the model lets any bound listing that a commit finds
  be such a one. The catalogue may hold listings before the run starts (`made`).
* Any device may send any page of any attempt at any time: this covers one that
  woke late, sent twice, or was robbed. What it may describe is `Sendable`: rows
  that a frozen selection has gone over, ticked or passed over. That this is so of the real device is what
  `ImportDevices` shows.
* The scorer answers freely, except that it never asks again about a pair that
  has a verdict and cannot overrule an open question.

### ImportDevices

The desktop importer over `ImportRuns`, whose actions are what a post does when
it arrives. Per device: `journal` (what survives), `slot`, `scan`, `stopping`.
Per occupancy of a slot, `hand`: one task, from the press or the scan that took
the slot to the release of it.

* The await points of the code are the steps. A hand goes `resume`, `claim`,
  `owes` (everything owed goes under the new fence), `flush`, `ready`, `keep`
  (the checkpoint), `start` (which asks whether the slot is still its own),
  `hold`, then walks or describes. Between any two of these
  the seller may stop it, another press may take its slot, or the process die.
* A post is written down before it is offered (`PostPage`), and the whole queue
  is offered in order, the new page last. `Sends` is one exchange: carried out
  and answered; carried out with the answer lost; lost; refused by a gateway or
  the server; or, for an ending, answered by something that is not the server.
  `Answered` is what the code then does to the journal.
* `cancel` is three steps, as in the code: the handle is raised and the slot
  removed, then the mark is written (`Marks`), then the stop post (`Abandons`).
* A post is told apart by the journal's id for it, whatever fence it is put
  under since. Here that is a page's receipt, an ending's first attempt and, for a
  stop, the press it stems from.
* `serve_open_runs` is seven: the open list is read, the journal snapshotted,
  the outbox drained of what needs no claim, an ending re-fenced by a claim of
  its own (`Reclaim`, which may be lost on its way there or back), the marks reconciled, and only then the row considered,
  as old as the list by then.
* Only what a device can tell of the rest of the run goes on beside it
  (`Elsewhere`): selection, confirmation, abandonment, the lapse of a lease. The
  proofs hold for these steps.

## 3. Runs

| Run | Instance | What it asks |
|---|---|---|
| `machine` | 3 attempts, allowances 1 to 9 (the code's budget is larger than any single transition; 9 covers every path with and without exhaustion) | the six properties of the table, over every sequence of inputs |
| `ledger` | 1 job, a create and a revise of one mapping, 2 attempts, budget 2 | the ledger's safety under every interleaving of holders, reapers, seller and deletion: eight properties, from the deleted answer to the binding |
| `ledger_live` | a smaller instance under `LiveSpec` | lapsed leases are taken, `stopping` is resolved |
| `driver` | 1 create, 2 devices, 2 attempts, answers of TPT | no second listing beside one that is not told as ambiguous; abandoned means unsent; answer-parks stay reconcilable; success is a committed attempt and a listing |
| `driver_edits` | a revise and a removal of one listing, 1 device, 2 attempts | abandoned means unsent, success is committed, for writes that may repeat |
| `outbox` | 2 drainers, 2 messages (one to two of a seller's people, one to an operator), 2 tries, 2 faults | a verdict is one drainer's and final, tries are earned, delivered reached everybody, and every message ends while some loop runs on |
| `imports` | 1 listing, 2 devices, 2 passes, 1 receipt, 2 claims | eight properties of the run, the deletion's end among them, over every order of pages, answers, undoings, passes and presses |
| `devices` | 1 device, 2 hands, 1 listing, 3 receipts, 3 claims (the third with no fault), 1 fault or press | credit is earned, work can be stopped, an owed page stays sendable |
| `stranded`, `driver_once`, `imports_undo`, `devices_rewalk` | one item or two listings each | four sentences of the repository that the code does not keep (section 6) |

**Bounds.** In the ledger two items are enough for a lease slot to be contended,
for one item to be the last of its job and for one to wait on the other's
binding; two attempts for an attempt at an older epoch beside one at the
current. The budget `AttemptsMax` is 2 in place of 5, so that both sides of
`count + 1 >= max` are reached in two charges. `MaxCount` bounds the re-link arm
of `revive_expired`, which charges without testing the budget. In the driver the
allowance is the code's 32, so that it is the calls and not the allowance that
end a run (`machine` covers exhaustion); two devices are a robbed holder beside
the one that robbed it, and two attempts are a write and the one that could
repeat it. The edits run has a single device, whose crash leaves the same ledger
a robbed holder would, and whose item can be claimed again at once.

In the outbox two tries are a retry and the last one, and a batch of one lets
the other drainer come between any two deliveries; the seller's message has two
addresses so that a pass can be cut between them, and the operators' has one,
whose refusal is stepped over; two faults end both loops, or one of them twice.
In `imports` one listing is
enough for what the properties say, which is of each listing; the passes are
two because the hazard is theirs; a chunk holds every item of an instance, so
the code's chunk size is not a bound. In `devices` two claims let a page be
written under one fence, re-fenced and offered under another, and a third lets a
scan take a run that this device has just described; the constraint
`ThirdClaimIsUndisturbed` explores it where nothing failed and nobody pressed;
two hands are a
task unwinding late beside the one the scan put in its place; `MaxEvents` counts
faults and presses together: with one, work that the scan starts by itself meets
one loss, refusal, stop or death at any point, or a press is made at any point. A listing is one page here, a description
one page per item or fewer. `OffersBeforePause` is the code's 3, of which one
fault reaches 1 by outage and 3 by a refusal.

Deadlock is not checked where the system may stop: once everything is settled
and the seller does nothing, nothing happens.

**Symmetry.** Attempts are interchangeable, and so are devices: `ledger` and the
runs of the driver declare that symmetry, and `devices` that of its hands.
Items are not, since they differ by operation. No run with a liveness property
declares any.

**Fairness.** Nothing is assumed of holders, sellers, operators, marketplaces or
relays. `JobLedger`'s `LiveSpec` assumes weak fairness of the two reapers, the
revival and the deletion sweep: they run in tam-worker's loop
(`main.rs:115-170`), which logs errors and goes round for ever, and on a timer
in `scheduler.rs:631`. `ImportRuns`' assumes the deletion sweep and that the
lease of a settled run lapses: the fence refuses every renewal of one, so only
the clock moves it. `Outbox`'s assumes that a back-off elapses, that a running
drain loop goes on, and that a process that ended is started again. A loop that
panicked is not assumed to come back, so `EveryMessageEnds` says only that
messages end where some loop is found running again and again.

## 4. Proofs

Seven modules of proofs, one per component and two for the driver. Each theorem
holds for any values of the constants that satisfy the component's named
assumptions (any number of items, devices, passes, drainers, receipts; any
bounds), and nothing else is assumed; two of the driver's have one hypothesis
more, stated in the theorem. Every safety property and every action property
that a passing run checks is proved.

`SyncMachineRuns_proofs`: the six properties of the table, over every sequence
of inputs, for any attempts and allowances. The table is first read off as a list
of rows (`Rows`: what state, attempt, outcome and effects a step can lead to), so
that each invariant is proved once per row. `Inv` adds to the type invariant:

* `OneWriteEach`: an attempt this run has not issued has no write, which with the
  fresh name of every intent gives `NeverSubmittedTwice`.
* `AheadOfItsWrites`: a run that waits for its intent's row is one intent and one
  leave ahead of its writes; hence `EveryWriteIsAccountedFor`. It is why writes
  are also counted in `total`: a sum over attempts could only be reasoned about
  by induction over data.
* `OwnsItsAttempt` and `Looked`: a state that a submission may have left behind
  owns an attempt with its one write, or the one it was resumed with, and a
  state that can commit has been through a read; hence
  `EveryAmbiguityIsReconcilable` and `EveryCommitFollowsARead`.
* `Exact`: allowance and emitted effects add up to the start, but for the one
  diagnostic of an exhausted run (`TheAllowanceNeverGrows`).

`JobLedger_proofs`:

* `TypeCorrect`: `TypeOK` is an invariant. It is inductive as it stands; the
  only delicate conjunct is the bound on `count`, which holds because every
  charging path either tests the budget or `MaxCount`.
* `SettledForEver`: no step changes a settled row. Each action's UPDATE is shown
  to be guarded against `state = "settled"`.
* `DeletedJobIsQuiet` and `DeletedForEver`: a job answering `deleted` is quiet,
  and no step disturbs it. The inductive invariant is the type invariant with
  quietness; the argument is that `classify_deletion` establishes it in the
  transaction that writes the answer, and that every action that could break it
  needs an unsettled item or an in-flight attempt of that very job.
* `BindingIsFenced`: a binding changes by a paste, or by the landing of the one
  attempt in flight on it. The invariant is that at most one attempt is in
  flight per mapping (`OneInFlightStays`), whichever jobs they belong to.
* `TakenUnderANewEpoch` and `CancelledStaysUnsent`: `StepIsCareful` shows of
  every step that it cancels a row only with no evidence of a write and requeues
  a leased one only under a new epoch. The second is then inductive with the type
  invariant, since a settled row never moves and is never admitted again
  (`AttemptOfASettledItem`).
* `EveryCompletionIsAnnounced`: an announcement is made in the very step that
  settles the last item of a job nobody deletes, and in no other. Every step is
  shown either to leave the set of settled items alone or to roll the job up in
  the transaction that settles (`Rolled`), on each of the paths that settle: a
  settle, the charge of a spent item, the steal, and the revival that gives up.

`EngineDriver_proofs`, from `DriverAssumption` besides (the gates, outcomes and
verdicts the driver uses are among those the ledger lets a holder use):

* `DriverImplementsLedger`: `DriverSpec => Spec`. Each action of the driver takes
  one action of the ledger or leaves it alone. The invariant (`RunsForItems`) is
  that a run is for an item; which lease the run believes it holds is not needed,
  because the ledger's model admits late holders. What is proved of the ledger
  therefore holds of every run; `DriverKeepsDeletedQuiet` and
  `DriverKeepsDeletedFinal` state two consequences.

`EngineDriverSafety_proofs`, what the driver keeps true of the ledger and of the
marketplace, in three layers:

* `Shape` is local to a run: which effects, input and attempt go with which state
  of its machine, however the calls are answered. It is proved from the transition
  table, which a run can only meet in some of its rows; `DriverTypeCorrect` follows.
* Every step of the driver is one of eight kinds of turn (`StepKinds`), by what
  it does to the ledger and to one run: it opens the attempt, settles it, parks
  the item, may write, writes, reads, ends, or none of these. Each invariant is
  then proved once per kind, and once for what goes on around the runs.
* `Linked` ties a run that still holds its lease to the ledger: the attempt it
  names is its item's and in flight (`AllNamed`, `AllInFlight`), one about to
  settle its item has its attempt decided accordingly (`AllDecided`), one that saw
  a listing saw one that stands (`AllSeen`); what landed was inserted first. From
  it follow `ParkedCreatesCanBeAsked` and `SuccessIsCommitted`, with no further
  hypothesis.

`AbandonedIsTrue` and `ListingsStandAlone` assume `TruthfulDenials`: that no answer
read as a refusal or a challenge may come back from a write that landed. The hypothesis is
needed: TPT's single form post satisfies it, as do both instances checked; Tes'
submit does not, and there the two sentences are false (section 6, jobs.rs:4669).
The invariants besides `Linked`: a run whose write is still to come, or was
denied, is the only one of its attempt, which has not landed (`UnsentIsAlone`);
what is written off (abandoned, or a failed create) was never sent, nor was what
stands behind a sign-in park that a re-link would release (`WrittenOffIsUnsent`,
`SignInParksUnsent`); and a mapping has at most one create in flight or committed,
which is what binds it (`OneCreateEach`).

`Outbox_proofs`: `Typed`, `TriesEarned`, `DeliveriesReachAll`,
`VerdictsAreFinal`. The inductive invariant `Inv` has the types, that a
row not yet written has used no try, the two properties of the state, and that every
drainer is `Honest`: whatever it has passed over in the delivery it is in was mailed, or
refused for good where the topic lets it go on. That survives the other
drainers because the ghosts only grow (`Remembers`); the verdict then follows
from the compare-and-set alone. `Typed` adds that a process which has ended runs
no loop and holds no copy.

`ImportRuns_proofs`: all seven safety properties of the run. `Inv` adds two
facts: a run being deleted is not open (`Stopped`), and a listing of which a
resource was created is bound to it (`Bound`), which is what `commit_one` asks
under the run's lock, however stale the page it works from. Every step is first
shown to move items and pairs only by `RowRule`, the run only by `RunRule` and
the deletion only by `DeletionRule`; the theorems follow from the rules.

`ImportDevices_proofs`:

* `DevicesImplementRun`: `DevicesSpec => Spec`: a device, whatever it lost and
  resumed, makes only posts that the run's model lets some device make. All that
  is proved of the run so holds with the devices beside it. The one thing to show is
  `Sendable` for every page offered, and a page may be offered long after it was
  written, by another hand, under another fence.
* `AcknowledgedAreDescribed` and `OwedPagesAreSelected`, with
  `DevicesTyped`, come from the same invariant, `DevicesInv`. It states that
  there is a function `mint` from receipts to the items the page carrying that
  receipt describes, such that every receipt the server applied had its items
  described (`Faithful`), and that every post in every journal, hand and scan is
  `Good`: its page describes what `mint` says, only rows that a frozen selection
  has gone over, and what it
  earns is described already or described by the page itself. The function is
  what makes a replay harmless: two copies of a page in two queues agree on
  what its receipt stands for, so that the server's "already applied" is as good
  as an application. A new page extends `mint` at a receipt nobody holds.
* `WorkIsHeld`: an argument apart, about slots and hands only (`Grip`). It is
  inductive: a slot is taken only when it is free, released only by the hand it
  belongs to, taken away only with the handle raised or the process gone, and
  work starts only in a hand that still had it when it looked. `Grip` therefore
  speaks of a hand at `hold` too, between that look and the start.

Checked only by TLC: the four liveness properties (`LapsedIsTaken`,
`StoppingIsResolved`, `EveryMessageEnds`, `DeletionEnds`), and the
counterexamples of section 6. Liveness under fairness and ENABLED are out of this
prover's reach, as are induction over data and RECURSIVE operators; no module
here is recursive.

## 5. Not modelled

Payload data (titles, prices, files, schemas), HTTP and authentication, the
marketplaces' own pages (a marketplace is the set of writes that landed), the
events and actions a run records, progress lines, the rate windows (a grant may
be refused at any time), and SQL's ordering of candidates: the claim may serve
any candidate, which includes the one the code would pick. A transaction is
atomic (but for `expire_and_steal` and the commit pass), so lock order between
transactions is not visible. The event stream is reduced to the one event whose
existence matters, `JobSettled`.

Of the import: spreadsheet runs, which no device reads; the start routes with
their idempotency keys and schedules; how two catalogue resources are merged;
the shop's pages and their schema. Of the desktop: the job loop around the
driver, its heartbeat and its scheduler.

Whole components left out, with the reason, are in `PROJECT.json`,
"components". Most are data carriers, pure functions of a payload, rendering or
I/O; sync requests, rate budget and breaker, entitlements, schedules and
payments are state machines worth modelling (section 7).

## 6. What the code does not do that the repository says

| Run | Said | Done |
|---|---|---|
| `stranded` | hand_back (jobs.rs:2044): a create whose attempt stands is parked, never requeued | the claim route charges it through `charge_and_requeue` when its order cannot be prepared; the reconcile is lost |
| `driver_once` | engine-driver-split.md:124: create is at-most-once, fenced by the standing attempt | an attempt settled 'ambiguous' no longer stands; if the item's settle is lost the create is claimed and submitted again |
| `imports_undo` | duplicates.rs:319: a pair reopened by an undo can be committed by the seller's answer | the binding a merge made at description is not released, so the resource answered `different` is skipped at the commit |
| `devices_rewalk` | import_runs.rs:3394, 3441: no row is listed after the selection froze | a scan that read the open list before the walk ended has the shop walked again; what the second walk lists after the freeze stays listed for ever |

These were met while modelling and have no run of their own:

* engine-driver-split.md:124 says revise and remove are at-least-once, safe to
  repeat. After a holder dies with an attempt in flight the retry is refused by
  that attempt, for ever. Likewise NotSent is said to be the class that is safe
  to retry (tam-marketplace lib.rs:428), but the retry's `open_attempt` is refused
  by the run's own attempt; the run abandons, so nothing is retried.
* `park_stopped_writes` (jobs.rs:4613) says leaving a row leased is not an
  option; a deleted job's lapsed lease whose evidence is at an older epoch stays
  leased (jobs.rs:4650).
* jobs.rs:4669 takes 'abandoned' for nothing sent; Tes' submit passes on a rate
  limit met after the create landed, the machine skips and the driver records
  'abandoned'. `cancel_unstarted_items` reads 'failed' as no write too.
* sync-machine.md:108: a park gates the connection and notifies. The park clears
  the owner, so the calls behind it are refused by the held-by check.
* A pasted binding (mapping.rs:171) revives nothing, whatever
  revive_counterparts' comment says (jobs.rs:880): the items waiting for it sleep
  until their park falls due.
* outbox.rs:1-4 says that a message which crashes a deliverer is dead-lettered
  like any other. Attempts move only after `deliver` returns, so one that ends its
  drainer is never counted, and is claimed again by the next; where the crash is a
  panic, each such try takes a drain loop with it that nothing starts again while
  its process lives. `Crash` and `Panic` have it, within `MaxFaults`; no run shows
  it as a violation. A relay fault at the second address mails the first again.
* consider (desktop import.rs:4116-4121) never picks up a run the seller stopped:
  a stop that falls between its reading of the slot and the marks and the slot's
  insertion by `accept` finds no slot to raise, and the claim goes on. In `cancel`
  the slot goes (3398) before the mark is written (3405), with the same result.
* A stop raised while `flush_outbox` is in its loop does not stop the posts that
  are left in it.
* consider's comment (~4138) says a run whose owner has gone must be resumable by
  another phone; a found run is claimed without takeover, so one whose owner's
  lease lapsed is not, until the seller presses.
* A stale row may also claim a run that is reviewing or committing, find nothing
  selected and post an empty complete page, which sets it back to reviewing.
* The scheduler settles a run before it publishes (`finish`, scheduler.rs:560-573):
  a crash between the two loses the publication, since a complete run is not
  drained again. And a relisting moves an item from `imported` to `skipped`.

## 7. Plan

Done: `SyncMachine`, `JobLedger` and `EngineDriver` with the proofs of the table,
of the ledger, of the driver's refinement of it and of the driver's own
invariants; `Outbox`, `ImportRuns` and `ImportDevices`
with their proofs and the devices' refinement of the run.

What is left, in order of importance:

1. `SyncRequests`: the drain that turns a request into jobs, run again after a
   crash, and the classification of its legs from jobs that settle in any order.
   Theorem: a request creates each product once.
2. The driver: a run with two inventories' items, a counterpart and its waiter;
   a fair marketplace, for liveness of a claimed item; what can still be said of
   abandoned attempts where an adapter denies writes that landed (Tes).
3. `RateBudget` (window and breaker) and `LedgerLocks` (lock order of the
   ledger's transactions, deadlock checked).
4. The desktop's job loop and heartbeat, entitlements, schedules, payments.
