------------------------------- MODULE Outbox -------------------------------
(***************************************************************************)
(* The outbox (tam-storage/src/jobs.rs, OutboxRepo) and the drain loops    *)
(* that empty it (tam-engine/src/outbox.rs, tam-server/src/main.rs),       *)
(* through the mail deliverer of tam-server/src/notify.rs.                 *)
(*                                                                         *)
(* A drainer claims without a lock: it copies the due rows, then delivers  *)
(* its copies one by one and accounts each by a compare-and-set on the     *)
(* attempt count it copied.  A delivery is a pass over the people it is    *)
(* for, one mail each, and may end or die between any two of them.         *)
(* `available_at` is one bit per row: it has fallen due.                   *)
(***************************************************************************)
EXTENDS Naturals, Sequences, FiniteSets

CONSTANTS
  Drainers,     \* drain loops: one per serving process, two while one replaces another
  Messages, None,
  People,       \* addresses mail may go to
  Sellers, Operators,  \* the vouched-for ones a topic's mail goes to, in the order read
  Inbox,        \* the operations inbox: one address, or none where none is configured
  Topic,        \* what each message is about
  AttemptsMax,  \* OUTBOX_ATTEMPTS_MAX
  Batch,        \* DRAIN_BATCH
  MaxFaults     \* bound on deaths of a process and on storage errors

Topics == {"seller", "operators", "unread"}

ASSUME OutboxAssumption ==
  /\ AttemptsMax \in Nat \ {0} /\ MaxFaults \in Nat
  /\ Topic \in [Messages -> Topics]
  /\ {Sellers, Operators, Inbox} \subseteq Seq(People)

VARIABLES
  row,      \* outbox_message; state "none" is a row not yet inserted
  due,      \* messages whose available_at has passed
  up,       \* drain loops that are running
  ended,    \* drain loops whose whole process has ended
  batch,    \* per drainer, the claimed copies it has still to deliver
  at,       \* per drainer, the delivery it is in, or None
  faults,
  mailed,   \* ghost: per message, the addresses some pass has mailed
  refused   \* ghost: per message, the addresses a relay refused for good

vars == <<row, due, up, ended, batch, at, faults, mailed, refused>>
ghosts == <<mailed, refused>>

Rows == [state : {"none", "pending", "delivered", "dead"}, attempts : Nat]
Pending(m) == row[m].state = "pending"
Refs == [message : Messages, seen : Nat]   \* MessageRef

Init ==
  /\ row = [m \in Messages |-> [state |-> "none", attempts |-> 0]]
  /\ due = {} /\ up = Drainers /\ ended = {} /\ faults = 0
  /\ batch = [d \in Drainers |-> {}]
  /\ at = [d \in Drainers |-> None]
  /\ mailed = [m \in Messages |-> {}]
  /\ refused = [m \in Messages |-> {}]

\* In the transaction of its cause; a second append of the same dedupe key
\* inserts nothing.
append(m) ==
  /\ row[m].state = "none"
  /\ row' = [row EXCEPT ![m].state = "pending"]
  /\ due' = due \cup {m}
  /\ UNCHANGED <<up, ended, batch, at, faults, ghosts>>

FallDue(m) ==
  /\ Pending(m) /\ m \notin due
  /\ due' = due \cup {m}
  /\ UNCHANGED <<row, up, ended, batch, at, faults, ghosts>>

Claimables == {m \in due : Pending(m)}
\* Mutant: the copy carries no count to compare.
Copy_mutant(m) == [message |-> m, seen |-> None]
Copy(m) == [message |-> m, seen |-> row[m].attempts]

claim_due(d) ==
  /\ d \in up /\ batch[d] = {} /\ at[d] = None
  /\ \E S \in SUBSET Claimables :
       /\ S # {}
       /\ Cardinality(S) <= Batch
       /\ S # Claimables => Cardinality(S) = Batch
       /\ batch' = [batch EXCEPT ![d] = {Copy(m) : m \in S}]
  /\ UNCHANGED <<row, due, up, ended, at, faults, ghosts>>

-----------------------------------------------------------------------------
(* One delivery.                                                           *)

\* A topic the build does not relay completes with nobody to mail.
Addresses(m) ==
  CASE Topic[m] = "seller" -> Sellers
    [] Topic[m] = "operators" -> IF Operators = <<>> THEN Inbox ELSE Operators
    [] OTHER -> <<>>

Deliver(d) ==
  /\ d \in up /\ at[d] = None
  /\ \E ref \in batch[d] :
       /\ batch' = [batch EXCEPT ![d] = @ \ {ref}]
       /\ at' = [at EXCEPT ![d] = [ref |-> ref, todo |-> Addresses(ref.message),
                                   answer |-> "none"]]
  /\ UNCHANGED <<row, due, up, ended, faults, ghosts>>

Serving(d) == d \in up /\ at[d] # None /\ at[d].answer = "none"

Mailed(d) ==
  /\ Serving(d) /\ at[d].todo # <<>>
  /\ at' = [at EXCEPT ![d].todo = Tail(@)]
  /\ mailed' = [mailed EXCEPT ![at[d].ref.message] = @ \cup {Head(at[d].todo)}]
  /\ UNCHANGED <<row, due, up, ended, batch, faults, refused>>

Answers(d, answer) ==
  /\ at' = [at EXCEPT ![d].answer = answer]
  /\ UNCHANGED <<row, due, up, ended, batch, faults, mailed>>

\* The identity service or the relay faults: the whole message is retried.
\* An operators' mail asks for every address first, and may mail nobody.
Faulted(d) ==
  /\ Serving(d) /\ Topic[at[d].ref.message] # "unread"
  /\ Answers(d, "retryable")
  /\ UNCHANGED refused

\* The relay refuses an address for good: the end of a seller's mail, one
\* address fewer of an operators' mail.
PassedOver(d) ==
  /\ at' = [at EXCEPT ![d].todo = Tail(@)]
  /\ UNCHANGED <<row, due, up, ended, batch, faults, mailed>>
\* Mutant: a seller's mail passes over the address as an operators' does.
Refusal_mutant(d) == PassedOver(d)
Refusal(d) == IF Topic[at[d].ref.message] = "seller" THEN Answers(d, "poison")
                                                     ELSE PassedOver(d)
Refused(d) ==
  /\ Serving(d) /\ at[d].todo # <<>>
  /\ refused' = [refused EXCEPT ![at[d].ref.message] = @ \cup {Head(at[d].todo)}]
  /\ Refusal(d)

Completed(d) ==
  /\ Serving(d) /\ at[d].todo = <<>>
  /\ Answers(d, "ok")
  /\ UNCHANGED refused

-----------------------------------------------------------------------------
(* Accounting for it, by compare-and-set on the attempt count copied.      *)

\* Mutant: the count is compared, and not the state.
Current_mutant(ref) == row[ref.message].attempts = ref.seen
Current(ref) == Pending(ref.message) /\ row[ref.message].attempts = ref.seen

mark_delivered(ref) ==
  IF Current(ref)
  THEN row' = [row EXCEPT ![ref.message].state = "delivered"] /\ UNCHANGED due
  ELSE UNCHANGED <<row, due>>

\* Mutant: a back-off that costs no attempt.
retry_later_mutant(ref) ==
  IF Current(ref) THEN due' = due \ {ref.message} /\ UNCHANGED row ELSE UNCHANGED <<row, due>>
retry_later(ref) ==
  IF Current(ref)
  THEN /\ row' = [row EXCEPT ![ref.message].attempts = @ + 1]
       /\ due' = due \ {ref.message}
  ELSE UNCHANGED <<row, due>>

mark_dead(ref) ==
  IF Current(ref)
  THEN /\ row' = [row EXCEPT ![ref.message] = [state |-> "dead", attempts |-> @.attempts + 1]]
       /\ UNCHANGED due
  ELSE UNCHANGED <<row, due>>

\* Mutant: one try too many.
Spent_mutant(ref) == ref.seen >= AttemptsMax
Spent(ref) == ref.seen + 1 >= AttemptsMax

Mark(d) ==
  /\ d \in up /\ at[d] # None
  /\ LET ref == at[d].ref IN
       CASE at[d].answer = "ok" -> mark_delivered(ref)
         [] at[d].answer = "poison" -> mark_dead(ref)
         [] at[d].answer = "retryable" -> IF Spent(ref) THEN mark_dead(ref) ELSE retry_later(ref)
         [] OTHER -> FALSE
  /\ at' = [at EXCEPT ![d] = None]
  /\ UNCHANGED <<up, ended, batch, faults, ghosts>>

-----------------------------------------------------------------------------
(* Faults.  What a drainer claimed is in its memory only.                  *)

Dropped(d) ==
  /\ batch' = [batch EXCEPT ![d] = {}]
  /\ at' = [at EXCEPT ![d] = None]
  /\ UNCHANGED <<row, due, ghosts>>

\* A mark that cannot be written ends the drain; the loop logs it and goes on.
StorageFails(d) ==
  /\ d \in up /\ at[d] # None /\ at[d].answer # "none"
  /\ faults < MaxFaults /\ faults' = faults + 1
  /\ Dropped(d) /\ UNCHANGED <<up, ended>>

\* The process ends, whether or not its loop still ran.
Crash(d) ==
  /\ d \notin ended
  /\ faults < MaxFaults /\ faults' = faults + 1
  /\ Dropped(d) /\ up' = up \ {d} /\ ended' = ended \cup {d}

\* A panicking delivery ends the spawned task and nothing else: nothing
\* supervises it, so the process serves on with no loop, until it ends too.
Panic(d) ==
  /\ Serving(d)
  /\ faults < MaxFaults /\ faults' = faults + 1
  /\ Dropped(d) /\ up' = up \ {d} /\ UNCHANGED ended

\* A process that ended is started again, and its loop with it.
Restart(d) ==
  /\ d \in ended
  /\ up' = up \cup {d} /\ ended' = ended \ {d}
  /\ UNCHANGED <<row, due, batch, at, faults, ghosts>>

-----------------------------------------------------------------------------
Drain(d) ==
  \/ claim_due(d) \/ Deliver(d)
  \/ Mailed(d) \/ Faulted(d) \/ Refused(d) \/ Completed(d)
  \/ Mark(d)

Next ==
  \/ \E m \in Messages : append(m) \/ FallDue(m)
  \/ \E d \in Drainers : Drain(d) \/ StorageFails(d) \/ Crash(d) \/ Panic(d) \/ Restart(d)

Spec == Init /\ [][Next]_vars

\* A running loop is a timer that goes round until its process is cancelled
\* (spawn_outbox_drain); a back-off is at most an hour; a process that ended is
\* started again (`Restart = "on-failure"`, nix/module.nix:1365).  A loop that
\* panicked has no such promise.  Nothing is assumed of the relay either.
LiveSpec ==
  /\ Spec
  /\ \A m \in Messages : WF_vars(FallDue(m))
  /\ \A d \in Drainers : WF_vars(Drain(d)) /\ WF_vars(Restart(d))

-----------------------------------------------------------------------------
(* Properties.                                                             *)

Deliveries == [ref : Refs, todo : Seq(People),
               answer : {"none", "ok", "retryable", "poison"}]

Types ==
  /\ row \in [Messages -> Rows]
  /\ due \subseteq Messages
  /\ up \subseteq Drainers /\ ended \subseteq Drainers
  /\ batch \in [Drainers -> SUBSET Refs]
  /\ at \in [Drainers -> Deliveries \cup {None}]
  /\ faults \in 0 .. MaxFaults
  /\ mailed \in [Messages -> SUBSET People]
  /\ refused \in [Messages -> SUBSET People]
Untried == \A m \in Messages : row[m].state = "none" => row[m].attempts = 0
LoopsEndWithTheirProcess ==
  \A d \in ended : d \notin up /\ batch[d] = {} /\ at[d] = None

\* The rows and what each drainer holds of them; a row that is not yet written
\* has used no try, and a process that has ended runs no loop and holds nothing.
TypeOK == Types /\ Untried /\ LoopsEndWithTheirProcess

\* Whichever drainers raced, crashed or delivered twice, a row still in the queue
\* has a try left, and a dead letter has used every try or met an address refused
\* for good, and neither earlier nor later (drain, outbox.rs:66; mark_dead, jobs.rs:3862).
TriesAreEarned ==
  \A m \in Messages :
    /\ Pending(m) => row[m].attempts < AttemptsMax
    /\ row[m].state = "dead" => row[m].attempts = AttemptsMax \/ refused[m] # {}

\* A message marked delivered reached everybody it could: each address was
\* mailed by some pass, or is an operator's that the relay refused for good
\* (mail_to, tell_operators, notify.rs:915-1190).
DeliveredReachedAll ==
  \A m \in Messages : row[m].state = "delivered" =>
    \A k \in DOMAIN Addresses(m) :
      LET a == Addresses(m)[k]
      IN  a \in mailed[m] \/ (Topic[m] = "operators" /\ a \in refused[m])

\* A verdict is final, and it is one drainer's: a drainer that comes late with
\* its own answer for a claim that was already accounted changes nothing
\* (the compare-and-set of mark_delivered, retry_later and mark_dead).
VerdictIsFinal ==
  [][\A m \in Messages : row[m].state \in {"delivered", "dead"} => row'[m] = row[m]]_vars

\* While some drain loop goes on running, every message ends delivered or dead,
\* though relays fail for ever and drainers race, crash, panic and lose their
\* marks, a bounded number of times (drain, outbox.rs:66).  It says nothing of a
\* message that panics whoever delivers it: each try ends one more loop before
\* it is counted, and outbox.rs:1-4 is wrong to call that one dead-lettered.
EveryMessageEnds ==
  []<>(up # {}) => \A m \in Messages : Pending(m) ~> row[m].state \in {"delivered", "dead"}
=============================================================================
