---------------------------- MODULE Outbox_proofs ----------------------------
(***************************************************************************)
(* Proofs about the outbox, for every number of drain loops, messages,     *)
(* addresses, attempts and faults.                                         *)
(***************************************************************************)
EXTENDS Outbox, TLAPS, SequenceTheorems

\* An address of a message that needs no further mail.
Reached(m, a) == a \in mailed[m] \/ (Topic[m] = "operators" /\ a \in refused[m])

\* What a drainer is in the middle of: whoever is not reached is still to come,
\* and its answer is what it met.
Honest(d) ==
  at[d] # None =>
    LET m == at[d].ref.message IN
      /\ \A k \in DOMAIN Addresses(m) :
           Reached(m, Addresses(m)[k]) \/ \E j \in DOMAIN at[d].todo : at[d].todo[j] = Addresses(m)[k]
      /\ at[d].answer = "ok" => at[d].todo = <<>>
      /\ at[d].answer = "poison" => refused[m] # {}
Deliverers == \A d \in Drainers : Honest(d)

Inv == Types /\ Untried /\ TriesAreEarned /\ DeliveredReachedAll /\ Deliverers

\* What was mailed and refused is never forgotten.
Remembers == \A m \in Messages : mailed[m] \subseteq mailed'[m] /\ refused[m] \subseteq refused'[m]

-----------------------------------------------------------------------------
LEMMA AddressesTyped == \A m \in Messages : Addresses(m) \in Seq(People)
<1>1. <<>> \in Seq(People)
  OBVIOUS
<1> QED  BY <1>1, OutboxAssumption DEF Addresses, Topics

LEMMA ReachedStays ==
  ASSUME Remembers, NEW m \in Messages, NEW a, Reached(m, a)
  PROVE  Reached(m, a)'
  BY DEF Remembers, Reached

\* A step that leaves the rows, or moves none to a verdict, keeps the
\* reached reached.
LEMMA RowsKeep ==
  ASSUME Inv, UNCHANGED row, Remembers
  PROVE  Untried' /\ TriesAreEarned' /\ DeliveredReachedAll'
<1>1. Untried' /\ TriesAreEarned'
  BY DEF Inv, Untried, TriesAreEarned, Remembers, Pending
<1>2. ASSUME NEW m \in Messages, row'[m].state = "delivered", NEW k \in DOMAIN Addresses(m)
      PROVE  Reached(m, Addresses(m)[k])'
  <2>1. Reached(m, Addresses(m)[k])
    BY <1>2 DEF Inv, DeliveredReachedAll, Reached
  <2> QED  BY <2>1, ReachedStays
<1> QED  BY <1>1, <1>2 DEF DeliveredReachedAll, Reached

\* A drainer that does nothing stays honest while others mail and refuse.
LEMMA HonestStays ==
  ASSUME Types, NEW d \in Drainers, Honest(d), at'[d] = at[d], Remembers
  PROVE  Honest(d)'
<1> SUFFICES ASSUME at[d] # None PROVE Honest(d)'
  BY DEF Honest
<1> DEFINE m == at[d].ref.message
<1>1. m \in Messages
  BY DEF Types, Deliveries, Refs
<1>2. ASSUME NEW k \in DOMAIN Addresses(m)
      PROVE  Reached(m, Addresses(m)[k])'
             \/ \E j \in DOMAIN at[d].todo : at[d].todo[j] = Addresses(m)[k]
  <2>1. CASE Reached(m, Addresses(m)[k])
    BY <1>1, <2>1, ReachedStays
  <2>2. CASE ~Reached(m, Addresses(m)[k])
    BY <2>2 DEF Honest
  <2> QED  BY <2>1, <2>2
<1>3. at[d].answer = "poison" => refused'[m] # {}
  BY <1>1 DEF Honest, Remembers
<1> QED  BY <1>2, <1>3 DEF Honest

LEMMA NothingIsForgotten ==
  ASSUME UNCHANGED ghosts
  PROVE  Remembers
  BY DEF ghosts, Remembers

LEMMA DeliverersKeep ==
  ASSUME Types, Deliverers, NEW d \in Drainers, Remembers, Honest(d)',
         \A e \in Drainers : e # d => at'[e] = at[e]
  PROVE  Deliverers'
<1>1. ASSUME NEW e \in Drainers PROVE Honest(e)'
  BY HonestStays DEF Deliverers
<1> QED  BY <1>1 DEF Deliverers

-----------------------------------------------------------------------------
(* The steps of a drain loop.                                              *)

LEMMA QueueSteps ==
  ASSUME Inv, NEW m \in Messages, append(m) \/ FallDue(m)
  PROVE  Inv'
<1>1. UNCHANGED <<up, ended, batch, at, faults, ghosts>> /\ Remembers
  BY NothingIsForgotten DEF append, FallDue
<1>2. Types'
  BY <1>1 DEF Inv, Types, Rows, append, FallDue, ghosts
<1>3. Deliverers'
  BY <1>1, HonestStays DEF Inv, Deliverers
<1>4. CASE FallDue(m)
  BY <1>1, <1>2, <1>3, <1>4, RowsKeep DEF FallDue, Inv
<1>5. CASE append(m)
  <2>1. row \in [Messages -> Rows] /\ row[m].state = "none" /\ row[m].attempts = 0
    BY <1>5 DEF Inv, Types, append, Untried
  <2>2. row' = [row EXCEPT ![m].state = "pending"]
    BY <1>5 DEF append
  <2>3. /\ row'[m].state = "pending" /\ row'[m].attempts = 0
        /\ \A e \in Messages : e # m => row'[e] = row[e]
    BY <2>1, <2>2 DEF Rows
  <2>4. Untried' /\ TriesAreEarned'
    BY <1>1, <2>3, OutboxAssumption DEF Inv, Untried, TriesAreEarned, Pending, ghosts
  <2>5. DeliveredReachedAll'
    BY <1>1, <2>3 DEF Inv, DeliveredReachedAll, ghosts
  <2> QED  BY <1>2, <1>3, <2>4, <2>5 DEF Inv
<1> QED  BY <1>4, <1>5

LEMMA ClaimSteps ==
  ASSUME Inv, NEW d \in Drainers, claim_due(d) \/ Deliver(d)
  PROVE  Inv'
<1>1. UNCHANGED <<row, due, up, ended, faults, ghosts>> /\ Remembers
  BY NothingIsForgotten DEF claim_due, Deliver
<1>2. CASE claim_due(d)
  <2>1. PICK S \in SUBSET Claimables : batch' = [batch EXCEPT ![d] = {Copy(m) : m \in S}]
    BY <1>2 DEF claim_due
  <2>2. \A m \in S : Copy(m) \in Refs
    BY DEF Claimables, Copy, Refs, Inv, Types, Rows
  <2>3. Types' /\ at' = at
    BY <1>1, <1>2, <2>1, <2>2 DEF claim_due, Inv, Types, ghosts
  <2>4. Deliverers'
    BY <1>1, <2>3, HonestStays DEF Inv, Deliverers
  <2> QED  BY <1>1, <2>3, <2>4, RowsKeep DEF Inv
<1>3. CASE Deliver(d)
  <2>1. PICK ref \in batch[d] :
          /\ batch' = [batch EXCEPT ![d] = @ \ {ref}]
          /\ at' = [at EXCEPT ![d] = [ref |-> ref, todo |-> Addresses(ref.message), answer |-> "none"]]
    BY <1>3 DEF Deliver
  <2>2. ref \in Refs /\ ref.message \in Messages
    BY <2>1 DEF Inv, Types, Refs
  <2>3. at'[d] = [ref |-> ref, todo |-> Addresses(ref.message), answer |-> "none"]
    BY <2>1 DEF Inv, Types
  <2>4. at'[d] \in Deliveries
    BY <2>2, <2>3, AddressesTyped DEF Deliveries
  <2>5. Types'
    BY <1>1, <2>1, <2>3, <2>4 DEF Inv, Types, ghosts
  <2>6. Honest(d)'
    BY <2>3 DEF Honest
  <2>7. Deliverers'
    BY <1>1, <2>1, <2>6, DeliverersKeep DEF Inv, Types
  <2> QED  BY <1>1, <2>5, <2>7, RowsKeep DEF Inv
<1> QED  BY <1>2, <1>3

-----------------------------------------------------------------------------
(* The steps of a delivery.                                                *)

LEMMA DeliveryWith ==
  ASSUME NEW r \in Deliveries, NEW t \in Seq(People), NEW after, after = [r EXCEPT !.todo = t]
  PROVE  /\ after \in Deliveries
         /\ after.ref = r.ref /\ after.todo = t /\ after.answer = r.answer
  BY DEF Deliveries

\* A delivery that goes on to the next address, this one being reached.
LEMMA NextAddress ==
  ASSUME Inv, NEW d \in Drainers, at[d] # None, at[d].answer = "none", at[d].todo # <<>>,
         at' = [at EXCEPT ![d].todo = Tail(@)], Remembers,
         NEW m \in Messages, m = at[d].ref.message,
         NEW a, a = Head(at[d].todo), Addresses(m) # <<>> => Reached(m, a)'
  PROVE  Honest(d)' /\ at' \in [Drainers -> Deliveries \cup {None}]
<1> DEFINE todo == at[d].todo
<1>1. at[d] \in Deliveries /\ todo \in Seq(People) /\ todo # <<>>
  BY DEF Inv, Types, Deliveries, Refs
<1>2. /\ Tail(todo) \in Seq(People)
      /\ DOMAIN todo = 1..Len(todo) /\ DOMAIN Tail(todo) = 1..(Len(todo) - 1)
      /\ \A j \in 1..(Len(todo) - 1) : Tail(todo)[j] = todo[j + 1]
      /\ Head(todo) = todo[1] /\ Len(todo) \in Nat \ {0}
  BY <1>1
<1>3. at'[d] = [at[d] EXCEPT !.todo = Tail(todo)]
  BY DEF Inv, Types
<1>4. /\ at'[d] \in Deliveries /\ at'[d].ref = at[d].ref
      /\ at'[d].todo = Tail(todo) /\ at'[d].answer = "none"
  <2>1. PICK r \in Deliveries : r = at[d]
    BY <1>1
  <2>2. PICK t \in Seq(People) : t = Tail(todo)
    BY <1>2
  <2>3. PICK after : after = at'[d]
    OBVIOUS
  <2>4. after = [r EXCEPT !.todo = t]
    BY <1>3, <2>1, <2>2, <2>3
  <2>5. /\ after \in Deliveries
        /\ after.ref = r.ref /\ after.todo = t /\ after.answer = r.answer
    BY <2>4, DeliveryWith
  <2> QED  BY <2>1, <2>2, <2>3, <2>5
<1>5. at' \in [Drainers -> Deliveries \cup {None}]
  BY <1>4 DEF Inv, Types
<1>6. ASSUME NEW k \in DOMAIN Addresses(m)
      PROVE  Reached(m, Addresses(m)[k])'
             \/ \E j \in DOMAIN Tail(todo) : Tail(todo)[j] = Addresses(m)[k]
  <2>1. CASE Reached(m, Addresses(m)[k])
    BY <1>1, <2>1, ReachedStays
  <2>2. CASE ~Reached(m, Addresses(m)[k])
    <3> Honest(d)
      BY DEF Inv, Deliverers
    <3>1. PICK j \in DOMAIN todo : todo[j] = Addresses(m)[k]
      BY <2>2 DEF Honest
    <3>2. CASE j = 1
      <4>1. Addresses(m) # <<>>
        OBVIOUS
      <4> QED  BY <1>2, <3>1, <3>2, <4>1
    <3>3. CASE j # 1
      <4>1. j - 1 \in 1..(Len(todo) - 1) /\ Tail(todo)[j - 1] = todo[j]
        BY <1>2, <3>1, <3>3
      <4> QED  BY <1>2, <3>1, <4>1
    <3> QED  BY <3>2, <3>3
  <2> QED  BY <2>1, <2>2
<1>7. Honest(d)'
  BY <1>4, <1>6 DEF Honest
<1> QED  BY <1>5, <1>7

\* A delivery that answers, with nobody left or not done.
LEMMA Answering ==
  ASSUME Inv, NEW d \in Drainers, at[d] # None, NEW answer \in {"ok", "retryable", "poison"},
         Answers(d, answer), Remembers,
         answer = "ok" => at[d].todo = <<>>,
         NEW m \in Messages, m = at[d].ref.message,
         answer = "poison" => refused'[m] # {}
  PROVE  Honest(d)' /\ at' \in [Drainers -> Deliveries \cup {None}]
<1>1. at[d] \in Deliveries /\ Honest(d)
  BY DEF Inv, Types, Deliverers
<1>2. at'[d] = [at[d] EXCEPT !.answer = answer]
  BY DEF Inv, Types, Answers
<1>3. /\ at'[d] \in Deliveries /\ at'[d].ref = at[d].ref
      /\ at'[d].todo = at[d].todo /\ at'[d].answer = answer
  BY <1>1, <1>2 DEF Deliveries
<1>4. at' \in [Drainers -> Deliveries \cup {None}]
  BY <1>3 DEF Inv, Types, Answers
<1>5. ASSUME NEW k \in DOMAIN Addresses(m)
      PROVE  Reached(m, Addresses(m)[k])'
             \/ \E j \in DOMAIN at[d].todo : at[d].todo[j] = Addresses(m)[k]
  <2>1. CASE Reached(m, Addresses(m)[k])
    BY <1>1, <2>1, ReachedStays
  <2>2. CASE ~Reached(m, Addresses(m)[k])
    BY <1>1, <2>2 DEF Honest
  <2> QED  BY <2>1, <2>2
<1>6. Honest(d)'
  BY <1>3, <1>5 DEF Honest
<1> QED  BY <1>4, <1>6

LEMMA DeliverySteps ==
  ASSUME Inv, NEW d \in Drainers, Mailed(d) \/ Faulted(d) \/ Refused(d) \/ Completed(d)
  PROVE  Inv'
<1>1. /\ at[d] # None /\ at[d].answer = "none"
      /\ UNCHANGED <<row, due, up, ended, batch, faults>>
  BY DEF Mailed, Faulted, Refused, Completed, Serving, Answers, Refusal, PassedOver
<1>2. PICK m \in Messages : m = at[d].ref.message
  BY <1>1 DEF Inv, Types, Deliveries, Refs
<1>3. /\ mailed \in [Messages -> SUBSET People] /\ refused \in [Messages -> SUBSET People]
      /\ at[d] \in Deliveries /\ (at[d].todo # <<>> => Head(at[d].todo) \in People)
  BY <1>1 DEF Inv, Types, Deliveries
<1>4. /\ Honest(d)' /\ at' \in [Drainers -> Deliveries \cup {None}]
      /\ Remembers
      /\ mailed' \in [Messages -> SUBSET People] /\ refused' \in [Messages -> SUBSET People]
  <2>1. CASE Mailed(d)
    <3>1. PICK a : a = Head(at[d].todo)
      OBVIOUS
    <3>2. /\ at[d].todo # <<>> /\ at' = [at EXCEPT ![d].todo = Tail(@)]
          /\ mailed' = [mailed EXCEPT ![m] = @ \cup {a}] /\ refused' = refused
      BY <2>1, <1>2, <3>1 DEF Mailed
    <3>3. Remembers /\ Reached(m, a)' /\ mailed' \in [Messages -> SUBSET People]
      BY <1>3, <3>1, <3>2 DEF Remembers, Reached
    <3> QED  BY <1>1, <1>2, <1>3, <3>1, <3>2, <3>3, NextAddress
  <2>2. CASE Refused(d)
    <3>1. PICK a : a = Head(at[d].todo)
      OBVIOUS
    <3>2. /\ at[d].todo # <<>> /\ mailed' = mailed
          /\ refused' = [refused EXCEPT ![m] = @ \cup {a}]
          /\ IF Topic[m] = "seller" THEN Answers(d, "poison") ELSE PassedOver(d)
      BY <2>2, <1>2, <3>1 DEF Refused, Refusal, Answers, PassedOver
    <3>3. /\ Remembers /\ refused' \in [Messages -> SUBSET People]
          /\ a \in refused'[m]
      BY <1>3, <3>1, <3>2 DEF Remembers
    <3>4. CASE Topic[m] = "seller"
      BY <1>1, <1>2, <1>3, <3>2, <3>3, <3>4, Answering
    <3>5. CASE Topic[m] # "seller"
      <4>1. Addresses(m) = <<>> \/ Topic[m] = "operators"
        BY <3>5, OutboxAssumption DEF Addresses, Topics
      <4>2. Addresses(m) # <<>> => Reached(m, a)'
        BY <3>3, <4>1 DEF Reached
      <4>3. at' = [at EXCEPT ![d].todo = Tail(@)]
        BY <3>2, <3>5 DEF PassedOver
      <4> QED  BY <1>1, <1>2, <1>3, <3>1, <3>2, <3>3, <4>2, <4>3, NextAddress
    <3> QED  BY <3>4, <3>5
  <2>3. CASE Faulted(d)
    <3>1. Answers(d, "retryable") /\ UNCHANGED ghosts
      BY <2>3 DEF Faulted, Answers, ghosts
    <3> QED  BY <1>1, <1>2, <1>3, <3>1, NothingIsForgotten, Answering DEF ghosts
  <2>4. CASE Completed(d)
    <3>1. Answers(d, "ok") /\ at[d].todo = <<>> /\ UNCHANGED ghosts
      BY <2>4 DEF Completed, Answers, ghosts
    <3> QED  BY <1>1, <1>2, <1>3, <3>1, NothingIsForgotten, Answering DEF ghosts
  <2> QED  BY <2>1, <2>2, <2>3, <2>4
<1>5. \A e \in Drainers : e # d => at'[e] = at[e]
  BY DEF Inv, Types, Mailed, Faulted, Refused, Completed, Answers, Refusal, PassedOver
<1>6. Deliverers'
  BY <1>4, <1>5, DeliverersKeep DEF Inv
<1>7. Types'
  BY <1>1, <1>4 DEF Inv, Types
<1> QED  BY <1>1, <1>4, <1>6, <1>7, RowsKeep DEF Inv

LEMMA MarkStep ==
  ASSUME Inv, NEW d \in Drainers, Mark(d)
  PROVE  Inv' /\ \A m \in Messages : row[m].state \in {"delivered", "dead"} => row'[m] = row[m]
<1> DEFINE ref == at[d].ref
<1>1. /\ at[d] \in Deliveries /\ ref \in Refs /\ row \in [Messages -> Rows] /\ Honest(d)
      /\ at[d] # None
  BY DEF Inv, Types, Mark, Deliveries, Deliverers
<1>2. PICK m \in Messages : m = ref.message
  BY <1>1 DEF Refs
<1>3. ref.seen \in Nat /\ row[m] \in Rows
  BY <1>1 DEF Refs
<1>4. at' = [at EXCEPT ![d] = None] /\ UNCHANGED <<up, ended, batch, faults, ghosts>>
  BY DEF Mark
<1>5. \/ at[d].answer = "ok" /\ mark_delivered(ref)
      \/ at[d].answer = "poison" /\ mark_dead(ref)
      \/ at[d].answer = "retryable" /\ (IF Spent(ref) THEN mark_dead(ref) ELSE retry_later(ref))
  BY <1>1 DEF Mark, Deliveries
<1> HIDE DEF ref
<1>6. Remembers
  BY <1>4, NothingIsForgotten
<1>7. Deliverers'
  <2>1. at'[d] = None
    BY <1>4 DEF Inv, Types
  <2>2. Honest(d)'
    BY <2>1 DEF Honest
  <2> QED  BY <1>4, <1>6, <2>2, DeliverersKeep DEF Inv, Types
<1>8. CASE ~Current(ref)
  <2>1. UNCHANGED <<row, due>>
    BY <1>5, <1>8 DEF mark_delivered, mark_dead, retry_later
  <2>2. Types'
    BY <1>4, <2>1 DEF Inv, Types, ghosts
  <2> QED  BY <1>6, <1>7, <2>1, <2>2, RowsKeep DEF Inv
<1>9. CASE Current(ref)
  <2>1. row[m].state = "pending" /\ row[m].attempts = ref.seen /\ ref.seen < AttemptsMax
    BY <1>2, <1>9 DEF Current, Pending, Inv, TriesAreEarned
  <2>2. \A e \in Messages : e # m => row'[e] = row[e]
    BY <1>1, <1>2, <1>5 DEF mark_delivered, mark_dead, retry_later
  <2>3. due' \subseteq Messages
    BY <1>5 DEF mark_delivered, mark_dead, retry_later, Inv, Types
  <2>4. /\ row' \in [Messages -> Rows]
        /\ \/ row'[m].state = "delivered" /\ at[d].answer = "ok"
           \/ row'[m].state = "dead" /\ (at[d].answer = "poison" \/ row'[m].attempts = AttemptsMax)
           \/ row'[m].state = "pending" /\ row'[m].attempts < AttemptsMax
    <3>1. CASE at[d].answer = "ok" /\ mark_delivered(ref)
      <4>1. row' = [row EXCEPT ![m].state = "delivered"]
        BY <1>2, <1>9, <3>1 DEF mark_delivered
      <4> QED  BY <1>1, <1>3, <3>1, <4>1 DEF Rows
    <3>2. CASE mark_dead(ref) /\ (at[d].answer = "poison" \/ Spent(ref))
      <4>1. row' = [row EXCEPT ![m] = [state |-> "dead", attempts |-> @.attempts + 1]]
        BY <1>2, <1>9, <3>2 DEF mark_dead
      <4>2. row'[m] = [state |-> "dead", attempts |-> ref.seen + 1]
        BY <1>1, <2>1, <4>1
      <4>3. Spent(ref) => ref.seen + 1 = AttemptsMax
        BY <1>3, <2>1, OutboxAssumption DEF Spent
      <4> QED  BY <1>1, <1>3, <3>2, <4>1, <4>2, <4>3 DEF Rows
    <3>3. CASE retry_later(ref) /\ ~Spent(ref)
      <4>1. row' = [row EXCEPT ![m].attempts = @ + 1]
        BY <1>2, <1>9, <3>3 DEF retry_later
      <4>2. ref.seen + 1 < AttemptsMax
        BY <1>3, <3>3, OutboxAssumption DEF Spent
      <4>3. row'[m] = [state |-> "pending", attempts |-> ref.seen + 1]
        BY <1>1, <1>3, <2>1, <4>1 DEF Rows
      <4> QED  BY <1>1, <1>3, <4>1, <4>2, <4>3 DEF Rows
    <3> QED  BY <1>5, <3>1, <3>2, <3>3
  <2>5. Types'
    BY <1>4, <2>3, <2>4 DEF Inv, Types, ghosts
  <2>6. at[d].answer = "poison" => refused'[m] # {}
    BY <1>1, <1>2, <1>4 DEF Honest, ghosts, ref
  <2>7. Untried' /\ TriesAreEarned'
    BY <1>4, <2>2, <2>4, <2>6 DEF Inv, Untried, TriesAreEarned, Pending, ghosts
  <2>8. ASSUME NEW e \in Messages, row'[e].state = "delivered", NEW k \in DOMAIN Addresses(e)
        PROVE  Reached(e, Addresses(e)[k])'
    <3>1. CASE e # m
      BY <1>6, <2>2, <2>8, <3>1, ReachedStays DEF Inv, DeliveredReachedAll, Reached
    <3>2. CASE e = m
      <4>1. at[d].todo = <<>>
        BY <1>1, <2>4, <2>8, <3>2 DEF Honest
      <4>2. Reached(e, Addresses(e)[k])
        BY <1>1, <1>2, <3>2, <4>1 DEF Honest, ref
      <4> QED  BY <1>6, <4>2, ReachedStays
    <3> QED  BY <3>1, <3>2
  <2>9. DeliveredReachedAll'
    BY <2>8 DEF DeliveredReachedAll, Reached
  <2> QED  BY <1>7, <2>1, <2>2, <2>5, <2>7, <2>9 DEF Inv
<1> QED  BY <1>8, <1>9

-----------------------------------------------------------------------------
(* Faults.                                                                 *)

LEMMA FaultSteps ==
  ASSUME Inv, NEW d \in Drainers, StorageFails(d) \/ Crash(d) \/ Panic(d) \/ Restart(d)
  PROVE  Inv'
<1>1. UNCHANGED <<row, due, ghosts>>
  BY DEF StorageFails, Crash, Panic, Restart, Dropped
<1>2. Remembers
  BY <1>1, NothingIsForgotten
<1>3. faults' \in 0..MaxFaults
  BY OutboxAssumption DEF StorageFails, Crash, Panic, Restart, Inv, Types
<1>4. CASE Restart(d)
  <2>1. Types' /\ UNCHANGED at
    BY <1>1, <1>4 DEF Restart, Inv, Types, ghosts
  <2>2. Deliverers'
    BY <1>2, <2>1, HonestStays DEF Inv, Deliverers
  <2> QED  BY <1>1, <1>2, <2>1, <2>2, RowsKeep DEF Inv
<1>5. CASE StorageFails(d) \/ Crash(d) \/ Panic(d)
  <2>1. Dropped(d) /\ up' \subseteq Drainers /\ ended' \subseteq Drainers
    BY <1>5 DEF StorageFails, Crash, Panic, Inv, Types
  <2>2. Types'
    BY <1>1, <1>3, <2>1 DEF Dropped, Inv, Types, ghosts
  <2>3. at'[d] = None
    BY <2>1 DEF Dropped, Inv, Types
  <2>4. Honest(d)'
    BY <2>3 DEF Honest
  <2>5. \A e \in Drainers : e # d => at'[e] = at[e]
    BY <2>1 DEF Dropped, Inv, Types
  <2>6. Deliverers'
    BY <1>2, <2>4, <2>5, DeliverersKeep DEF Inv
  <2> QED  BY <1>1, <1>2, <2>2, <2>6, RowsKeep DEF Inv
<1> QED  BY <1>4, <1>5

-----------------------------------------------------------------------------
(* The inductive invariant, and the theorems.                              *)

LEMMA InvInit == Init => Inv
<1> SUFFICES ASSUME Init PROVE Inv
  OBVIOUS
<1>1. Types
  BY OutboxAssumption DEF Init, Types, Rows
<1>2. Untried /\ TriesAreEarned /\ DeliveredReachedAll
  BY DEF Init, Untried, TriesAreEarned, DeliveredReachedAll, Pending
<1>3. Deliverers
  BY DEF Init, Deliverers, Honest
<1> QED  BY <1>1, <1>2, <1>3 DEF Inv

LEMMA InvStep == Inv /\ [Next]_vars => Inv'
<1> SUFFICES ASSUME Inv, [Next]_vars PROVE Inv'
  OBVIOUS
<1>1. CASE \E m \in Messages : append(m) \/ FallDue(m)
  BY <1>1, QueueSteps
<1>2. CASE \E d \in Drainers : Drain(d) \/ StorageFails(d) \/ Crash(d) \/ Panic(d) \/ Restart(d)
  BY <1>2, ClaimSteps, DeliverySteps, MarkStep, FaultSteps DEF Drain
<1>3. CASE UNCHANGED vars
  <2>1. UNCHANGED <<row, due, up, ended, batch, at, faults, ghosts>> /\ Remembers
    BY <1>3, NothingIsForgotten DEF vars, ghosts
  <2>2. Types'
    BY <2>1 DEF Inv, Types, ghosts
  <2>3. Deliverers'
    BY <2>1, HonestStays DEF Inv, Deliverers
  <2> QED  BY <2>1, <2>2, <2>3, RowsKeep DEF Inv
<1> QED  BY <1>1, <1>2, <1>3 DEF Next

\* Only a running loop takes on work, and a process that ends drops its own.
LEMMA LoopsStep ==
  ASSUME Inv, LoopsEndWithTheirProcess, [Next]_vars
  PROVE  LoopsEndWithTheirProcess'
<1>1. CASE \E m \in Messages : append(m) \/ FallDue(m)
  BY <1>1 DEF append, FallDue, LoopsEndWithTheirProcess
<1>2. CASE UNCHANGED vars
  BY <1>2 DEF vars, LoopsEndWithTheirProcess
<1>3. ASSUME NEW d \in Drainers,
             Drain(d) \/ StorageFails(d) \/ Crash(d) \/ Panic(d) \/ Restart(d)
      PROVE  LoopsEndWithTheirProcess'
  <2>1. \A e \in Drainers : e # d => at'[e] = at[e] /\ batch'[e] = batch[e]
    BY <1>3 DEF Inv, Types, Drain, claim_due, Deliver, Mailed, Faulted, Refused, Completed,
       Answers, Refusal, PassedOver, Mark, StorageFails, Crash, Panic, Restart, Dropped
  <2>2. /\ \A e \in Drainers : e # d => (e \in up' <=> e \in up) /\ (e \in ended' <=> e \in ended)
        /\ ended' \subseteq Drainers
    BY <1>3 DEF Inv, Types, Drain, claim_due, Deliver, Mailed, Faulted, Refused, Completed,
       Answers, Refusal, PassedOver, Mark, StorageFails, Crash, Panic, Restart, Dropped
  <2>3. CASE Crash(d)
    <3>1. d \notin up' /\ batch'[d] = {} /\ at'[d] = None
      BY <2>3 DEF Crash, Dropped, Inv, Types
    <3> QED  BY <2>1, <2>2, <3>1 DEF LoopsEndWithTheirProcess, Inv, Types
  <2>4. CASE ~Crash(d)
    <3>1. d \notin ended'
      BY <1>3, <2>4 DEF LoopsEndWithTheirProcess, Drain, claim_due, Deliver, Mailed, Faulted,
         Refused, Completed, Answers, Refusal, PassedOver, Mark, Serving, StorageFails, Panic, Restart
    <3> QED  BY <2>1, <2>2, <3>1 DEF LoopsEndWithTheirProcess, Inv, Types
  <2> QED  BY <2>3, <2>4
<1> QED  BY <1>1, <1>2, <1>3 DEF Next

LEMMA Invariance == Spec => []Inv
  BY InvInit, InvStep, PTL DEF Spec

\* The rows and what each drainer holds of them are always of their types; no
\* try is counted against a row before it is written, and a process that has
\* ended runs no loop and holds no claim.
THEOREM Typed == Spec => []TypeOK
<1>1. Init => Inv /\ LoopsEndWithTheirProcess
  BY InvInit DEF Init, LoopsEndWithTheirProcess
<1>2. Inv /\ LoopsEndWithTheirProcess /\ [Next]_vars => (Inv /\ LoopsEndWithTheirProcess)'
  BY InvStep, LoopsStep
<1>3. Inv /\ LoopsEndWithTheirProcess => TypeOK
  BY DEF Inv, TypeOK
<1> QED  BY <1>1, <1>2, <1>3, PTL DEF Spec

\* A dead letter has used exactly every try, or met an address refused for good,
\* however many drainers deliver the same row (drain, mark_dead, retry_later).
THEOREM TriesEarned == Spec => []TriesAreEarned
<1>1. Inv => TriesAreEarned
  BY DEF Inv
<1> QED  BY <1>1, Invariance, PTL

\* What is marked delivered reached everybody it could, whichever passes were
\* cut short, retried or run twice (mail_to, tell_operators, mark_delivered).
THEOREM DeliveriesReachAll == Spec => []DeliveredReachedAll
<1>1. Inv => DeliveredReachedAll
  BY DEF Inv
<1> QED  BY <1>1, Invariance, PTL

\* No drainer's late answer moves a row that has its verdict (the
\* compare-and-set of the three marks).
THEOREM VerdictsAreFinal == Spec => VerdictIsFinal
<1>1. Inv /\ [Next]_vars =>
        [\A m \in Messages : row[m].state \in {"delivered", "dead"} => row'[m] = row[m]]_vars
  <2> SUFFICES ASSUME Inv, [Next]_vars, NEW m \in Messages,
                      row[m].state \in {"delivered", "dead"}
               PROVE  row'[m] = row[m]
    OBVIOUS
  <2>1. CASE \E e \in Messages : append(e)
    BY <2>1 DEF append, Inv, Types
  <2>2. CASE \E d \in Drainers : Mark(d)
    BY <2>2, MarkStep
  <2>3. CASE UNCHANGED row
    BY <2>3
  <2> QED
    BY <2>1, <2>2, <2>3
    DEF Next, vars, Drain, FallDue, claim_due, Deliver, Mailed, Faulted, Refused, Refusal,
        PassedOver, Answers, Completed, StorageFails, Crash, Panic, Restart, Dropped
<1> QED  BY <1>1, Invariance, PTL DEF Spec, VerdictIsFinal
=============================================================================
