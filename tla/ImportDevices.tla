---------------------------- MODULE ImportDevices ----------------------------
(***************************************************************************)
(* The devices that read a seller's shop for an import run, over the       *)
(* server's ImportRuns: apps/desktop/src-tauri/src/import.rs.              *)
(*                                                                         *)
(* A device keeps a journal on disk: how far it got (`kept`), the posts it *)
(* owes the server in order (`owed`), the seller's stop and the count of   *)
(* refused offers.  In memory it has a supervisor with one slot for the    *)
(* run, the hands that took the slot (one takes and then works the run,    *)
(* and goes on for a while after losing the slot), and the scan that looks *)
(* for open runs.  The journal alone survives the process.                 *)
(*                                                                         *)
(* A post is offered until an answer to it is read.  It may be carried out *)
(* with its answer lost, and a hand knows only what it was told.  Progress *)
(* lines, and with them the report of an interruption, carry nothing the   *)
(* run keeps and are left out.                                             *)
(***************************************************************************)
EXTENDS ImportRuns, Sequences

CONSTANTS
  Hands, Holder,  \* occupancies of a device's slot, and whose they are
  MaxEvents       \* bound on faults (a post lost, refused or unanswered, a death)
                  \* and on the seller's presses (of start and of stop)

ASSUME DeviceAssumption ==
  /\ Holder \in [Hands -> Devices] /\ None \notin Hands
  /\ MaxEvents \in Nat

VARIABLES
  journal,  \* per device, ImportJournalState
  slot,     \* per device, the hand the supervisor's slot belongs to
  hand,     \* per hand, what its task holds
  scan,     \* per device, where serve_open_runs is
  stopping, \* per device, a stop that has raised its handle and has still to write
  events    \* faults and presses so far

devices == <<journal, slot, hand, scan, stopping, events>>
everything == <<vars, devices>>

OffersBeforePause == 3
Phases == {"discover", "describe"}
Blank == [kept |-> None, owed |-> <<>>, stopped |-> FALSE, offers |-> 0]
Checkpoints == [phase : Phases, attempt : 0..MaxAttempts, acked : SUBSET Items]
PagePosts == [kind : {"page"}, attempt : 0..MaxAttempts, page : Pages, earns : Checkpoints]
\* id: what the post was told apart by when it was written, whatever fence it
\* is put under since. A page's receipt is its own.
ClosingPosts == [kind : {"ending", "stop"}, id : Nat, attempt : 0..MaxAttempts, page : {None},
                 earns : {None}]
Posts == PagePosts \cup ClosingPosts
Journals == [kept : Checkpoints \cup {None}, owed : Seq(Posts), stopped : BOOLEAN,
             offers : 0..OffersBeforePause]

\* awaited: by the scan that found the run, until the work is under way.
Free == [at |-> "idle", takeover |-> FALSE, awaited |-> FALSE, phase |-> "discover", attempt |-> 0,
         queue |-> <<>>, then |-> "ready", acked |-> {}, todo |-> {}, read |-> {}, skip |-> {},
         described |-> FALSE, skipped |-> FALSE,
         cancelled |-> FALSE, fenced |-> FALSE, working |-> FALSE]
NoRow == [open |-> FALSE, owner |-> None, listed |-> FALSE, selected |-> FALSE]
Asleep == [at |-> "idle", row |-> NoRow, queue |-> <<>>, stopped |-> FALSE]

DevicesInit ==
  /\ Init
  /\ journal = [d \in Devices |-> Blank]
  /\ slot = [d \in Devices |-> None]
  /\ hand = [h \in Hands |-> Free]
  /\ scan = [d \in Devices |-> Asleep]
  /\ stopping = [d \in Devices |-> None]
  /\ events = 0

-----------------------------------------------------------------------------
(* The journal: apply, one change at a time.                               *)

Greater(a, b) == IF a > b THEN a ELSE b
Same(p, q) ==
  p.kind = q.kind /\ IF p.kind = "page" THEN p.page.receipt = q.page.receipt ELSE p.id = q.id
Owed(j, p) == {k \in DOMAIN j.owed : Same(p, j.owed[k])}
Without(j, p) ==
  IF Owed(j, p) = {} THEN j
  ELSE LET k == CHOOSE k \in Owed(j, p) : TRUE
       IN  [j EXCEPT !.owed = SubSeq(@, 1, k - 1) \o SubSeq(@, k + 1, Len(@))]
Enqueued(j, p) == [j EXCEPT !.owed = Append(@, p)]

\* What a page earned advances the checkpoint, never back.
advance(kept, earned) ==
  IF kept = None THEN earned
  ELSE [phase |-> earned.phase, attempt |-> Greater(kept.attempt, earned.attempt),
        acked |-> kept.acked \cup earned.acked]

\* Mutant: a refused page is credited like one that was applied.
Abandoned_mutant(j, p) ==
  IF p.kind = "page" THEN [Without(j, p) EXCEPT !.kept = advance(@, p.earns)] ELSE Without(j, p)
Abandoned(j, p) == Without(j, p)
Delivered(j, p) ==
  CASE Owed(j, p) = {} -> j
    [] Owed(j, p) # {} /\ p.kind = "stop" -> Blank
    [] Owed(j, p) # {} /\ p.kind = "page" ->
         [Without(j, p) EXCEPT !.kept = advance(@, p.earns), !.offers = 0]
    [] OTHER -> Without(j, p)
Failed(j, p) ==
  IF p.kind = "page" /\ j.offers < OffersBeforePause THEN [j EXCEPT !.offers = @ + 1] ELSE j
\* Mutant: the fence after the one in hand.
Under_mutant(p, attempt) == [p EXCEPT !.attempt = attempt + 1]
Under(p, attempt) == [p EXCEPT !.attempt = attempt]
Refenced(j, attempt) ==
  [j EXCEPT !.owed = [k \in DOMAIN @ |-> Under(@[k], attempt)]]
paused(j) == j.offers >= OffersBeforePause

Writes(d, j) == journal' = [journal EXCEPT ![d] = j]

\* The mark, the pause and what is queued of a stop go; the rest stays in order.
Resumed(d) ==
  LET stay == {k \in DOMAIN journal[d].owed : journal[d].owed[k].kind # "stop"}
  IN  \E nth \in [1..Cardinality(stay) -> stay] :
        /\ \A k, l \in DOMAIN nth : k < l => nth[k] < nth[l]
        /\ Writes(d, [journal[d] EXCEPT !.stopped = FALSE, !.offers = 0,
                        !.owed = [k \in DOMAIN nth |-> @[nth[k]]]])

-----------------------------------------------------------------------------
(* One exchange with the server, and what is heard of it.                  *)

Refusal == IF IsOpen THEN "fenced" ELSE "spent"

Carried(d, p, answer) ==
  CASE p.kind = "page" ->
         \/ answer = "ok" /\ run_page(d, p.attempt, p.page)
         \/ /\ answer = IF fenced(d, p.attempt) = "current" THEN "ok" ELSE Refusal
            /\ fenced(d, p.attempt) = "current" => ~Fresh(p.page)
            /\ UNCHANGED vars
    [] p.kind = "ending" ->
         \/ answer = "ok" /\ report_ending(d, p.attempt)
         \/ answer = Refusal /\ fenced(d, p.attempt) # "current" /\ UNCHANGED vars
    [] p.kind = "stop" ->
         IF Acknowledges(d, p.attempt) \/ (IsOpen /\ run.owner = d /\ run.attempt = p.attempt)
         THEN stop_owned(d, p.attempt) /\ answer = IF IsOpen THEN "ok" ELSE "spent"
         ELSE answer = Refusal /\ UNCHANGED vars

\* A post that is lost, that is carried out with its answer lost, that a
\* gateway answers or that is refused.  A gateway's page passes for the answer
\* to an ending and for no other.
Faulty == events < MaxEvents /\ events' = events + 1
Sends(d, p, answer) ==
  \/ Carried(d, p, answer) /\ UNCHANGED events
  \/ /\ Faulty
     /\ \/ answer = "outage" /\ (UNCHANGED vars \/ \E said \in {"ok", "fenced", "spent"} : Carried(d, p, said))
        \/ answer \in {"denied", "rejected"} /\ UNCHANGED vars
        \/ answer = "ok" /\ p.kind = "ending" /\ UNCHANGED vars

AllAnswers == {"ok", "fenced", "spent", "outage", "denied", "rejected"}

-----------------------------------------------------------------------------
(* The supervisor: from a press, or a run found, to work under way.        *)

Is(h, at) == hand[h].at = at
Becomes(h, state) == hand' = [hand EXCEPT ![h] = state]
Turns(h, at) == Becomes(h, [hand[h] EXCEPT !.at = at])
\* Mutant: whoever holds the slot loses it.
Release_mutant(h) == Becomes(h, Free) /\ slot' = [slot EXCEPT ![Holder[h]] = None]
Release(h) ==
  /\ Becomes(h, Free)
  /\ slot' = [slot EXCEPT ![Holder[h]] = IF @ = h THEN None ELSE @]
halted(h) == hand[h].cancelled \/ hand[h].fenced

\* start_import, and continue_import once a selection was made: the slot is
\* taken before the first await, and a press that finds it taken starts nothing.
Press(h, phase, takeover) ==
  /\ Is(h, "idle") /\ slot[Holder[h]] = None
  /\ phase = "describe" => run.frozen
  /\ events < MaxEvents /\ events' = events + 1
  /\ slot' = [slot EXCEPT ![Holder[h]] = h]
  /\ Becomes(h, [Free EXCEPT !.at = "resume", !.phase = phase, !.takeover = takeover])
  /\ UNCHANGED <<vars, journal, scan, stopping>>

Resume(h) ==
  /\ Is(h, "resume")
  /\ Resumed(Holder[h])
  /\ Turns(h, "claim")
  /\ UNCHANGED <<vars, slot, scan, stopping, events>>

\* A run that consider decided to take. One merely found, for which nothing is
\* owed, is claimed once this device knows that it can read the shop.
Reserve(h) ==
  /\ Is(h, "found")
  /\ IF slot[Holder[h]] # None THEN Release(h)
     ELSE /\ slot' = [slot EXCEPT ![Holder[h]] = h]
          /\ Becomes(h, [hand[h] EXCEPT !.at = "claim",
               !.then = IF journal[Holder[h]].owed = <<>> THEN @ ELSE "ready"])
  /\ UNCHANGED <<vars, journal, scan, stopping, events>>

Claimable(d, takeover) == IsOpen /\ (takeover \/ run.owner \in {None, d})
Claim(h) ==
  /\ Is(h, "claim")
  /\ \/ /\ claim(Holder[h], hand[h].takeover)
        /\ \/ /\ Becomes(h, [hand[h] EXCEPT !.at = "owes", !.takeover = FALSE,
                                             !.attempt = run'.attempt])
              /\ UNCHANGED <<slot, events>>
           \/ Faulty /\ Release(h)
     \/ ~Claimable(Holder[h], hand[h].takeover) /\ Release(h) /\ UNCHANGED <<vars, events>>
  /\ UNCHANGED <<journal, scan, stopping>>

\* An accept that ends for a reason the run is not told: the claim or the read
\* of the run was not answered, or a device that found the run cannot read it.
Quits(h) ==
  /\ Is(h, "claim") \/ Is(h, "ready") \/ Is(h, "keep") \/ Is(h, "select")
  /\ Faulty /\ Release(h)
  /\ UNCHANGED <<vars, journal, scan, stopping>>

\* deliver_owed: everything owed goes under the new fence, then out.
Owes(h) ==
  LET d == Holder[h]  owed == Refenced(journal[d], hand[h].attempt) IN
  /\ Is(h, "owes")
  /\ Writes(d, owed)
  /\ Becomes(h, [hand[h] EXCEPT !.at = IF owed.owed = <<>> THEN hand[h].then ELSE "flush", !.queue = owed.owed])
  /\ UNCHANGED <<vars, slot, scan, stopping, events>>

\* Local readiness, after the claim: a refusal is the run's ending.
Ready(h) ==
  /\ Is(h, "ready")
  /\ \/ Becomes(h, [hand[h] EXCEPT !.at = "owes", !.then = "keep"])
     \/ Turns(h, "ending")
  /\ UNCHANGED <<vars, journal, slot, scan, stopping, events>>

\* resume_point, and the checkpoint before the work. How many items were
\* described the server says, and a skipped one may have been.
Keep(h) ==
  LET d == Holder[h]
      kept == journal[d].kept
      done == IF kept # None /\ kept.phase = hand[h].phase THEN kept.acked ELSE {}
  IN
  /\ Is(h, "keep")
  /\ Writes(d, [journal[d] EXCEPT !.kept =
                   [phase |-> hand[h].phase, attempt |-> hand[h].attempt, acked |-> done]])
  /\ \E merged \in SUBSET InState(item, {"skipped"}) :
       Becomes(h, [hand[h] EXCEPT !.at = "start", !.acked = done,
                     !.described = done # {} \/ merged # {} \/
                                   InState(item, {"matched", "review", "imported", "failed"}) # {}])
  /\ UNCHANGED <<vars, slot, scan, stopping, events>>

\* Nothing is started for a hand that lost the slot meanwhile.
Start(h) ==
  /\ Is(h, "start")
  /\ IF slot[Holder[h]] = h THEN Turns(h, "hold") ELSE Becomes(h, Free)
  /\ UNCHANGED <<vars, journal, slot, scan, stopping, events>>

\* The slot, if it is still there, is told the attempt, and the work starts: one
\* whose slot was taken since that look starts under a handle already raised.
hold(h) ==
  /\ Is(h, "hold")
  /\ Becomes(h, [hand[h] EXCEPT !.working = TRUE, !.awaited = FALSE,
       !.at = IF hand[h].phase = "discover" THEN "walk" ELSE "select"])
  /\ UNCHANGED <<vars, journal, slot, scan, stopping, events>>

-----------------------------------------------------------------------------
(* The work, and the queue everything it says goes through.                *)

\* Receipts are minted, never reused.
Held(r, posts) == \E k \in DOMAIN posts : posts[k].kind = "page" /\ posts[k].page.receipt = r
Unused ==
  {r \in Receipts \ receipts :
     /\ \A d \in Devices : ~Held(r, journal[d].owed) /\ ~Held(r, scan[d].queue)
     /\ \A h \in Hands : ~Held(r, hand[h].queue)}

\* post_page: written down, then the whole queue is offered, this page last.
PostPage(h, page, earned, state) ==
  LET d == Holder[h]
      p == [kind |-> "page", attempt |-> hand[h].attempt, page |-> page,
            earns |-> [phase |-> hand[h].phase, attempt |-> hand[h].attempt, acked |-> earned]]
  IN  /\ Unused # {}
      /\ Writes(d, Enqueued(journal[d], p))
      /\ Becomes(h, [state EXCEPT !.at = "flush", !.queue = journal'[d].owed])
Minted == CHOOSE r \in Unused : TRUE
ListingOf(shop) ==
  [listed |-> shop, close |-> TRUE, read |-> {}, skip |-> {}, complete |-> FALSE, receipt |-> Minted]
DescriptionOf(read, skip, complete) ==
  [listed |-> {}, close |-> FALSE, read |-> read, skip |-> skip, complete |-> complete,
   receipt |-> Minted]

\* The worker was stopped or fenced out:
\* the run can still be finished, and the journal keeps its place.
Interrupted(h) ==
  /\ Is(h, "walk") \/ Is(h, "select") \/ Is(h, "read")
  /\ halted(h) /\ Release(h)
  /\ UNCHANGED <<vars, journal, scan, stopping, events>>

\* The shop could not be read, or this device may not read it any more.
Unreadable(h) ==
  /\ Is(h, "walk") /\ ~halted(h)
  /\ Turns(h, "ending")
  /\ UNCHANGED <<vars, journal, slot, scan, stopping, events>>

post_listing(h) ==
  /\ Is(h, "walk") /\ ~halted(h)
  /\ \E shop \in SUBSET Items :
       PostPage(h, ListingOf(shop), {}, [hand[h] EXCEPT !.then = "over"])
  /\ UNCHANGED <<vars, slot, scan, stopping, events>>

Select(h) ==
  /\ Is(h, "select") /\ ~halted(h)
  /\ Becomes(h, [hand[h] EXCEPT !.at = "read", !.todo = InState(item, {"selected"}) \ hand[h].acked])
  /\ UNCHANGED <<vars, journal, slot, scan, stopping, events>>

\* One resource, described or skipped.  The page goes when it is due and at the
\* last one, which completes the run unless nothing at all could be read.
Read(h, i) ==
  LET me == hand[h] IN
  /\ Is(h, "read") /\ ~halted(h) /\ i \in me.todo
  /\ \E ok \in BOOLEAN, due \in BOOLEAN :
       LET last    == me.todo = {i}
           now     == [me EXCEPT !.todo = @ \ {i},
                         !.read = IF ok THEN @ \cup {i} ELSE @, !.skip = IF ok THEN @ ELSE @ \cup {i},
                         !.described = @ \/ ok, !.skipped = @ \/ ~ok]
           nothing == now.skipped /\ ~now.described
       IN  IF last \/ due
           THEN PostPage(h, DescriptionOf(now.read, now.skip, last /\ ~nothing),
                  me.acked \cup now.read,
                  [now EXCEPT !.acked = @ \cup now.read, !.read = {}, !.skip = {},
                     !.then = CASE ~last -> "read" [] last /\ nothing -> "ending" [] OTHER -> "over"])
           ELSE Becomes(h, now) /\ UNCHANGED journal
  /\ UNCHANGED <<vars, slot, scan, stopping, events>>

\* A selection of which nothing is left to describe is completed all the same.
NothingLeft(h) ==
  /\ Is(h, "read") /\ ~halted(h) /\ hand[h].todo = {}
  /\ PostPage(h, DescriptionOf({}, {}, TRUE), hand[h].acked, [hand[h] EXCEPT !.then = "over"])
  /\ UNCHANGED <<vars, slot, scan, stopping, events>>

\* The entitlement lapsed between two resources: what was read is posted first.
Lapsed(h) ==
  /\ Is(h, "read") /\ ~halted(h) /\ hand[h].todo # {}
  /\ IF hand[h].read \cup hand[h].skip = {} THEN Turns(h, "ending") /\ UNCHANGED journal
     ELSE PostPage(h, DescriptionOf(hand[h].read, hand[h].skip, FALSE),
                   hand[h].acked \cup hand[h].read,
                   [hand[h] EXCEPT !.read = {}, !.skip = {}, !.then = "ending"])
  /\ UNCHANGED <<vars, slot, scan, stopping, events>>

\* What an answer does to the journal.
Answered(j, p, answer) ==
  CASE answer = "ok" \/ (answer = "spent" /\ p.kind = "stop") -> Delivered(j, p)
    [] answer = "outage" -> Failed(j, p)
    [] answer = "rejected" /\ p.kind = "page" ->
         [Abandoned(j, p) EXCEPT !.offers = OffersBeforePause]
    [] OTHER -> Abandoned(j, p)

\* flush_outbox: one owed post, offered under this attempt. An ending that lands
\* leaves a settled run, and is as good as a lost fence.
Offer(h) ==
  LET d == Holder[h]  me == hand[h]  p == Under(Head(me.queue), me.attempt) IN
  /\ Is(h, "flush")
  /\ \E answer \in AllAnswers :
       /\ Sends(d, p, answer)
       /\ Writes(d, Answered(journal[d], p, answer))
       /\ CASE answer = "ok" /\ p.kind # "ending" ->
                  /\ Becomes(h, [me EXCEPT !.at = IF Len(me.queue) = 1 THEN me.then ELSE "flush", !.queue = Tail(@)])
                  /\ UNCHANGED slot
            [] answer = "rejected" /\ p.kind = "page" ->
                  Becomes(h, [me EXCEPT !.at = "ending", !.queue = <<>>, !.acked = {}]) /\ UNCHANGED slot
            [] OTHER -> Release(h)
  /\ UNCHANGED <<scan, stopping>>

\* What ends the run goes into the queue, and out once, whatever came before it.
Ending(h) ==
  [kind |-> "ending", id |-> hand[h].attempt, attempt |-> hand[h].attempt, page |-> None,
   earns |-> None]
Reports(h) ==
  /\ Is(h, "ending")
  /\ Writes(Holder[h], Enqueued(journal[Holder[h]], Ending(h)))
  /\ Turns(h, "ended")
  /\ UNCHANGED <<vars, slot, scan, stopping, events>>

\* The journal goes with the work only once nothing is owed.
Settled(h, j) == IF hand[h].working /\ j.owed = <<>> THEN Blank ELSE j

Ended(h) ==
  LET d == Holder[h] IN
  /\ Is(h, "ended")
  /\ \E answer \in AllAnswers :
       /\ Sends(d, Ending(h), answer)
       /\ Writes(d, Settled(h, Answered(journal[d], Ending(h), answer)))
  /\ Release(h)
  /\ UNCHANGED <<scan, stopping>>

Over(h) ==
  /\ Is(h, "over")
  /\ Writes(Holder[h], Settled(h, journal[Holder[h]]))
  /\ Release(h)
  /\ UNCHANGED <<vars, scan, stopping, events>>

\* The keeper's renewal is refused.
Keeper(h) ==
  /\ hand[h].working /\ ~halted(h) /\ fenced(Holder[h], hand[h].attempt) # "current"
  /\ Becomes(h, [hand[h] EXCEPT !.fenced = TRUE])
  /\ UNCHANGED <<vars, journal, slot, scan, stopping, events>>

-----------------------------------------------------------------------------
(* The seller stops the run on this device.                                *)

\* The handle first, and the slot with it.
cancel(d) ==
  LET h == slot[d] IN
  /\ stopping[d] = None
  /\ events < MaxEvents /\ events' = events + 1
  /\ IF h = None THEN UNCHANGED hand ELSE Becomes(h, [hand[h] EXCEPT !.cancelled = TRUE])
  /\ slot' = [slot EXCEPT ![d] = None]
  /\ stopping' = [stopping EXCEPT ![d] = [id |-> events, marked |-> FALSE,
       held |-> IF h = None \/ ~hand[h].working THEN None ELSE hand[h].attempt]]
  /\ UNCHANGED <<vars, journal, scan>>

\* Then the mark,
Marks(d) ==
  /\ stopping[d] # None /\ ~stopping[d].marked
  /\ stopping' = [stopping EXCEPT ![d].marked = TRUE]
  /\ Writes(d, [journal[d] EXCEPT !.stopped = TRUE])
  /\ UNCHANGED <<vars, slot, hand, scan, events>>

\* and the abandonment under the fence this device knows of, if it knows one.
Abandons(d) ==
  LET held    == stopping[d].held
      kept    == journal[d].kept
      attempt == IF held # None THEN held ELSE IF kept # None THEN kept.attempt ELSE None
  IN
  /\ stopping[d] # None /\ stopping[d].marked
  /\ stopping' = [stopping EXCEPT ![d] = None]
  /\ Writes(d, IF attempt = None THEN journal[d]
                ELSE Enqueued(journal[d], [kind |-> "stop", id |-> stopping[d].id, attempt |-> attempt,
                                           page |-> None, earns |-> None]))
  /\ UNCHANGED <<vars, slot, hand, scan, events>>

-----------------------------------------------------------------------------
(* The scan for open runs: serve_open_runs.                                *)

Scanning(d, at) == scan' = [scan EXCEPT ![d].at = at]

\* Only a run still being read is offered to a device.
open_import_runs(d) ==
  /\ scan[d].at = "idle"
  /\ \A h \in Hands : Holder[h] = d => ~hand[h].awaited
  /\ scan' = [scan EXCEPT ![d] = [Asleep EXCEPT !.at = "listed", !.row =
       IF run.state # "reading" THEN NoRow
       ELSE [open |-> TRUE, owner |-> run.owner, listed |-> run.walked, selected |-> run.frozen]]]
  /\ UNCHANGED <<vars, journal, slot, hand, stopping, events>>

Snapshot(d) ==
  /\ scan[d].at = "listed"
  /\ scan' = [scan EXCEPT ![d].at = "drain", ![d].queue = journal[d].owed, ![d].stopped = journal[d].stopped]
  /\ UNCHANGED <<vars, journal, slot, hand, stopping, events>>

Rest(d) == Tail(scan[d].queue)
Draining(d, queue) == scan' = [scan EXCEPT ![d].at = "drain", ![d].queue = queue]

\* drain_unclaimed_outbox: what needs no new claim. A page waits for one.
Withheld(d) ==
  /\ scan[d].at = "drain" /\ scan[d].queue # <<>>
  /\ scan[d].row.open /\ Head(scan[d].queue).kind = "page"
  /\ Draining(d, Rest(d))
  /\ UNCHANGED <<vars, journal, slot, hand, stopping, events>>

Drained(j, p, answer) ==
  CASE answer = "ok" \/ (answer = "spent" /\ p.kind \in {"stop", "ending"}) -> Delivered(j, p)
    [] answer = "outage" \/ (answer = "fenced" /\ p.kind = "ending") -> j
    [] OTHER -> Abandoned(j, p)

Drain(d) ==
  LET p == Head(scan[d].queue) IN
  /\ scan[d].at \in {"drain", "again"} /\ scan[d].queue # <<>>
  /\ scan[d].row.open => p.kind # "page"
  /\ \E answer \in AllAnswers :
       /\ Sends(d, p, answer)
       /\ Writes(d, Drained(journal[d], p, answer))
       /\ CASE answer = "outage" -> Draining(d, <<>>)
            [] answer = "fenced" /\ p.kind = "ending" /\ scan[d].at = "drain"
                 /\ scan[d].row.open /\ scan[d].row.owner = d /\ slot[d] = None -> Scanning(d, "reclaim")
            [] OTHER -> Draining(d, Rest(d))
  /\ UNCHANGED <<slot, hand, stopping>>

\* refence_for_ending: a claim whose one purpose is to carry the ending. It may
\* be lost, or its answer.
Reclaim(d) ==
  /\ scan[d].at = "reclaim"
  /\ \/ /\ claim(d, FALSE)
        /\ \/ /\ Writes(d, Refenced(journal[d], run'.attempt))
              /\ scan' = [scan EXCEPT ![d].at = "again",
                            ![d].queue = <<Under(Head(@), run'.attempt)>> \o Rest(d)]
              /\ UNCHANGED events
           \/ Faulty /\ Draining(d, Rest(d)) /\ UNCHANGED journal
     \/ Faulty /\ Draining(d, Rest(d)) /\ UNCHANGED <<vars, journal>>
     \/ ~Claimable(d, FALSE) /\ Draining(d, Rest(d)) /\ UNCHANGED <<vars, journal, events>>
  /\ UNCHANGED <<slot, hand, stopping>>

\* reconcile_stops: a run no longer offered needs no mark.
Reconcile(d) ==
  /\ scan[d].at = "drain" /\ scan[d].queue = <<>>
  /\ Scanning(d, "consider")
  /\ IF ~scan[d].row.open /\ (journal[d].stopped \/ journal[d].offers > 0)
     THEN Resumed(d) ELSE UNCHANGED journal
  /\ UNCHANGED <<vars, slot, hand, stopping, events>>

\* Mutant: what a walked run owes is a description, selected or not.
Wanted_mutant(d) ==
  scan[d].row.open /\ ~scan[d].stopped /\ slot[d] = None /\ ~journal[d].stopped /\ ~paused(journal[d])
\* consider: the row is as old as the scan, the marks as old as this step.
Wanted(d) ==
  /\ scan[d].row.open /\ (scan[d].row.listed => scan[d].row.selected)
  /\ ~scan[d].stopped
  /\ slot[d] = None /\ ~journal[d].stopped /\ ~paused(journal[d])
consider(d) ==
  /\ scan[d].at = "consider"
  /\ IF ~Wanted(d) THEN UNCHANGED hand
     ELSE \E h \in Hands :
       /\ Holder[h] = d /\ Is(h, "idle")
       /\ Becomes(h, [Free EXCEPT !.at = "found", !.awaited = TRUE,
                         !.then = IF scan[d].row.owner = d THEN "ready" ELSE "keep",
                         !.phase = IF scan[d].row.listed THEN "describe" ELSE "discover"])
  /\ scan' = [scan EXCEPT ![d] = Asleep]
  /\ UNCHANGED <<vars, journal, slot, stopping, events>>

-----------------------------------------------------------------------------
\* The process ends; the journal is what is left of it.
Dies(d) ==
  /\ Faulty
  /\ hand' = [h \in Hands |-> IF Holder[h] = d THEN Free ELSE hand[h]]
  /\ slot' = [slot EXCEPT ![d] = None]
  /\ scan' = [scan EXCEPT ![d] = Asleep]
  /\ stopping' = [stopping EXCEPT ![d] = None]
  /\ UNCHANGED <<vars, journal>>

Takes(h) ==
  \/ Resume(h) \/ Reserve(h) \/ Claim(h) \/ Quits(h) \/ Owes(h) \/ Ready(h) \/ Keep(h)
  \/ Start(h) \/ hold(h)
Works(h) ==
  \/ Interrupted(h) \/ Unreadable(h) \/ post_listing(h) \/ Select(h)
  \/ NothingLeft(h) \/ Lapsed(h) \/ \E i \in Items : Read(h, i)
Says(h) == Offer(h) \/ Reports(h) \/ Ended(h) \/ Over(h)
serve_open_runs(d) ==
  \/ open_import_runs(d) \/ Snapshot(d) \/ Withheld(d) \/ Drain(d) \/ Reclaim(d) \/ Reconcile(d) \/ consider(d)

\* Of the rest of the run, what a device can tell: a selection, a confirmation,
\* an end, a lapse.
Elsewhere ==
  \/ \E chosen \in SUBSET Items : select(chosen)
  \/ authorise_commit \/ abandon \/ LeaseLapses

DevicesNext ==
  \/ \E h \in Hands : Takes(h) \/ Works(h) \/ Says(h) \/ Keeper(h)
  \/ \E h \in Hands, phase \in Phases, takeover \in BOOLEAN : Press(h, phase, takeover)
  \/ \E d \in Devices : cancel(d) \/ Marks(d) \/ Abandons(d) \/ serve_open_runs(d) \/ Dies(d)
  \/ Elsewhere /\ UNCHANGED devices

DevicesSpec == DevicesInit /\ [][DevicesNext]_everything

-----------------------------------------------------------------------------
Tasks ==
  [at : {"idle", "resume", "found", "claim", "owes", "flush", "ready", "keep", "start", "hold", "walk",
         "select", "read", "ending", "ended", "over"},
   takeover : BOOLEAN, awaited : BOOLEAN, phase : Phases, attempt : 0..MaxAttempts,
   queue : Seq(Posts), then : {"ready", "keep", "read", "ending", "over"},
   acked : SUBSET Items, todo : SUBSET Items, read : SUBSET Items, skip : SUBSET Items,
   described : BOOLEAN, skipped : BOOLEAN,
   cancelled : BOOLEAN, fenced : BOOLEAN, working : BOOLEAN]
Scans == [at : {"idle", "listed", "drain", "reclaim", "again", "consider"},
          row : [open : BOOLEAN, owner : Devices \cup {None}, listed : BOOLEAN, selected : BOOLEAN],
          queue : Seq(Posts), stopped : BOOLEAN]

Stops == [id : Nat, marked : BOOLEAN, held : 0..MaxAttempts \cup {None}]

\* What a device keeps, holds and is at.
DevicesTypeOK ==
  /\ journal \in [Devices -> Journals]
  /\ slot \in [Devices -> Hands \cup {None}]
  /\ hand \in [Hands -> Tasks]
  /\ scan \in [Devices -> Scans]
  /\ stopping \in [Devices -> {None} \cup Stops]
  /\ events \in Nat

\* What a checkpoint calls acknowledged the server holds a description of, or
\* has settled: a resumed walk leaves those items out, so one credited by a
\* post that was never applied would be described by nobody (Delivered and
\* Abandoned, import.rs:1341-1375).
Described == {i \in Items : item[i] \notin {"absent", "listed", "selected"}}
AcknowledgedIsDescribed ==
  \A d \in Devices : journal[d].kept # None => journal[d].kept.acked \subseteq Described

\* Work under way that nothing has told to end holds the slot of its device,
\* which is what a stop raises: a task unwinding late releases no occupancy but
\* its own, and none starts under a handle that nobody holds (release and
\* still_mine, import.rs:3176-3212).
WorkCanBeStopped ==
  \A h \in Hands : hand[h].working /\ ~halted(h) => slot[Holder[h]] = h

\* A page that is owed, however long it waits and whichever attempt comes to
\* send it, describes only rows a frozen selection has gone over, ticked or
\* passed over, and none that is merely listed or that the run does not know
\* (RunPhase::owed and describe, import.rs).
OwedIsSelected ==
  \A d \in Devices : \A k \in DOMAIN journal[d].owed :
    journal[d].owed[k].kind = "page" => Sendable(journal[d].owed[k].page)

\* A run that goes to its review leaves no listing behind: only a run still
\* being read is selected from, and only a selection is described
\* (select_items, tam-storage/src/import_runs.rs:3393).
NoListingIsLeftBehind ==
  [][run.state = "reading" /\ run'.state = "reviewing" =>
       \A i \in Items : item'[i] \notin {"listed", "selected"}]_everything
=============================================================================
