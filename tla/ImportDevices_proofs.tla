------------------------ MODULE ImportDevices_proofs ------------------------
(***************************************************************************)
(* Proofs about the devices of an import run, for every number of devices, *)
(* hands, listings, receipts, claims and faults.                           *)
(***************************************************************************)
EXTENDS ImportDevices, ImportRuns_proofs, SequenceTheorems, FiniteSetTheorems

-----------------------------------------------------------------------------
(* What a device needs to know of the server, and what it keeps.           *)

\* The items the seller's selection has answered for.
Chosen == {i \in Items : item[i] \notin {"absent", "listed"}}

\* mint: what the page that carries a receipt describes, whoever holds it.
Minting == [Receipts -> SUBSET Items]
View(mint) ==
  [described |-> Described, chosen |-> Chosen, frozen |-> run.frozen,
   receipts |-> receipts, mint |-> mint]
Views == [described : SUBSET Items, chosen : SUBSET Items, frozen : BOOLEAN,
          receipts : SUBSET Receipts, mint : Minting]

\* Nothing the server took is taken back.
Grows(v, w) ==
  /\ v.described \subseteq w.described /\ v.chosen \subseteq w.chosen
  /\ v.frozen => w.frozen
  /\ w.mint = v.mint

\* A page whose receipt the server applied was described.
Faithful(v) ==
  v \in Views /\ \A r \in v.receipts : v.mint[r] \subseteq v.described

\* A post that may be sent now or at any later time, and whose credit, once it
\* is applied, is due.
Good(p, v) ==
  p.kind = "page" =>
    /\ p.page.receipt \in Receipts
    /\ p.page.read = v.mint[p.page.receipt]
    /\ p.page \in Descriptions => v.frozen /\ p.page.read \cup p.page.skip \subseteq v.chosen
    /\ p.earns.acked \subseteq v.described \cup p.page.read
GoodPosts(v) == {p \in Posts : Good(p, v)}
Queues(v) == Seq(GoodPosts(v))

JournalOK(j, v) ==
  /\ j \in Journals /\ j.owed \in Queues(v)
  /\ j.kept # None => j.kept.acked \subseteq v.described

Reads(q) == UNION {q[k].page.read : k \in {k \in DOMAIN q : q[k].kind = "page"}}

HandOK(t, v) ==
  /\ t \in Tasks /\ t.queue \in Queues(v)
  /\ t.at = "flush" <=> t.queue # <<>>
  /\ t.acked \subseteq v.described \cup Reads(t.queue)
  /\ t.phase = "describe" \/ t.then = "read" \/ t.at \in {"select", "read"} => v.frozen
  /\ t.todo \cup t.read \cup t.skip \subseteq v.chosen
  /\ t.read \cap t.skip = {} /\ t.todo \cap (t.read \cup t.skip) = {}
  /\ t.at # "read" \/ t.todo = {} => t.read \cup t.skip = {}

ScanOK(s, v) ==
  /\ s \in Scans /\ s.queue \in Queues(v)
  /\ s.row.selected => v.frozen
  /\ s.at = "reclaim" => s.queue # <<>>

JournalsOK(js, v) == js \in [Devices -> Journals] /\ \A d \in Devices : JournalOK(js[d], v)
HandsOK(hs, v) == hs \in [Hands -> Tasks] /\ \A h \in Hands : HandOK(hs[h], v)
ScansOK(ss, v) == ss \in [Devices -> Scans] /\ \A d \in Devices : ScanOK(ss[d], v)
Sound(js, hs, ss, v) == Faithful(v) /\ JournalsOK(js, v) /\ HandsOK(hs, v) /\ ScansOK(ss, v)

\* The rest of a device is of its type and nothing more.
Shelf(sl, st, ev) ==
  /\ sl \in [Devices -> Hands \cup {None}]
  /\ st \in [Devices -> {None} \cup Stops]
  /\ ev \in Nat

DevicesInv ==
  /\ Inv /\ Shelf(slot, stopping, events)
  /\ \E mint \in Minting : Sound(journal, hand, scan, View(mint))

-----------------------------------------------------------------------------
(* Sequences of posts.                                                     *)

LEMMA SeqOfFunction ==
  ASSUME NEW S, NEW n \in Nat, NEW f \in [1..n -> S]
  PROVE  f \in Seq(S)
  BY SeqDef

\* Queues lose posts and keep what is said of each.
LEMMA QueueOps ==
  ASSUME NEW S, NEW q \in Seq(S)
  PROVE  /\ Len(q) \in Nat /\ DOMAIN q = 1..Len(q) /\ \A k \in DOMAIN q : q[k] \in S
         /\ \A k \in DOMAIN q : SubSeq(q, 1, k - 1) \o SubSeq(q, k + 1, Len(q)) \in Seq(S)
         /\ \A p \in S : Append(q, p) \in Seq(S) /\ Append(q, p) # <<>>
         /\ q # <<>> => Head(q) \in S /\ Tail(q) \in Seq(S)
<1>1. Len(q) \in Nat /\ DOMAIN q = 1..Len(q) /\ \A k \in DOMAIN q : q[k] \in S
  BY LenProperties, ElementOfSeq
<1>2. ASSUME NEW k \in DOMAIN q
      PROVE  SubSeq(q, 1, k - 1) \o SubSeq(q, k + 1, Len(q)) \in Seq(S)
  <2>1. SubSeq(q, 1, k - 1) \in Seq(S) /\ SubSeq(q, k + 1, Len(q)) \in Seq(S)
    <3>1. 1 \in Int /\ k - 1 \in Int /\ k + 1 \in Int /\ Len(q) \in Int
      BY <1>1
    <3>2. \A i \in 1..(k - 1) : q[i] \in S
      BY <1>1
    <3>3. \A i \in (k + 1)..Len(q) : q[i] \in S
      BY <1>1
    <3> QED  BY <3>1, <3>2, <3>3, SubSeqProperties
  <2> QED  BY <2>1, ConcatProperties
<1>3. ASSUME NEW p \in S
      PROVE  Append(q, p) \in Seq(S) /\ Append(q, p) # <<>>
  BY <1>1
<1>4. ASSUME q # <<>> PROVE Head(q) \in S /\ Tail(q) \in Seq(S)
  BY <1>4, HeadTailProperties
<1> QED  BY <1>1, <1>2, <1>3, <1>4

LEMMA ReadsTail ==
  ASSUME NEW S, NEW q \in Seq(S), q # <<>>
  PROVE  /\ Head(q).kind = "page" => Reads(q) \subseteq Head(q).page.read \cup Reads(Tail(q))
         /\ Head(q).kind # "page" => Reads(q) \subseteq Reads(Tail(q))
<1>1. /\ Len(q) \in Nat /\ DOMAIN q = 1..Len(q) /\ Head(q) = q[1]
      /\ Tail(q) \in Seq(S) /\ DOMAIN Tail(q) = 1..(Len(q) - 1)
      /\ \A k \in 1..(Len(q) - 1) : Tail(q)[k] = q[k + 1]
  BY LenProperties, HeadTailProperties
<1>2. ASSUME NEW k \in DOMAIN q, q[k].kind = "page", k # 1
      PROVE  q[k].page.read \subseteq Reads(Tail(q))
  <2>1. k - 1 \in DOMAIN Tail(q) /\ Tail(q)[k - 1] = q[k]
    BY <1>1, <1>2
  <2> QED  BY <2>1, <1>2 DEF Reads
<1> QED  BY <1>1, <1>2 DEF Reads

-----------------------------------------------------------------------------
(* As the server goes on, what is kept stays sound.                        *)

LEMMA QueuesGrow ==
  ASSUME NEW v, NEW w, Grows(v, w)
  PROVE  GoodPosts(v) \subseteq GoodPosts(w) /\ Queues(v) \subseteq Queues(w)
<1>1. GoodPosts(v) \subseteq GoodPosts(w)
  BY DEF GoodPosts, Good, Grows
<1> QED  BY <1>1, SeqMonotonic DEF Queues

LEMMA JournalGrows ==
  ASSUME NEW v, NEW w, Grows(v, w), NEW j, JournalOK(j, v)
  PROVE  JournalOK(j, w)
  BY QueuesGrow DEF JournalOK, Grows

LEMMA HandGrows ==
  ASSUME NEW v, NEW w, Grows(v, w), NEW t, HandOK(t, v)
  PROVE  HandOK(t, w)
  BY QueuesGrow DEF HandOK, Grows

LEMMA ScanGrows ==
  ASSUME NEW v, NEW w, Grows(v, w), NEW s, ScanOK(s, v)
  PROVE  ScanOK(s, w)
  BY QueuesGrow DEF ScanOK, Grows

LEMMA AllGrow ==
  ASSUME NEW v, NEW w, Grows(v, w), NEW js, NEW hs, NEW ss
  PROVE  /\ JournalsOK(js, v) => JournalsOK(js, w)
         /\ HandsOK(hs, v) => HandsOK(hs, w)
         /\ ScansOK(ss, v) => ScansOK(ss, w)
  BY JournalGrows, HandGrows, ScanGrows DEF JournalsOK, HandsOK, ScansOK

\* One device's journal, one hand, one scan replaced by a sound one.
LEMMA JournalPut ==
  ASSUME NEW v, NEW js, JournalsOK(js, v), NEW d \in Devices, NEW j, JournalOK(j, v)
  PROVE  JournalsOK([js EXCEPT ![d] = j], v)
  BY DEF JournalsOK, JournalOK

LEMMA HandPut ==
  ASSUME NEW v, NEW hs, HandsOK(hs, v), NEW h \in Hands, NEW t, HandOK(t, v)
  PROVE  HandsOK([hs EXCEPT ![h] = t], v)
  BY DEF HandsOK, HandOK

LEMMA ScanPut ==
  ASSUME NEW v, NEW ss, ScansOK(ss, v), NEW d \in Devices, NEW s, ScanOK(s, v)
  PROVE  ScansOK([ss EXCEPT ![d] = s], v)
  BY DEF ScansOK, ScanOK

LEMMA Empties ==
  ASSUME NEW v \in Views
  PROVE  JournalOK(Blank, v) /\ HandOK(Free, v) /\ ScanOK(Asleep, v)
<1>1. <<>> \in Seq(Posts) /\ <<>> \in Queues(v)
  BY EmptySeq DEF Queues
<1>2. 0 \in 0..MaxAttempts /\ 0 \in 0..OffersBeforePause
  BY ImportAssumption DEF OffersBeforePause
<1>3. JournalOK(Blank, v)
  BY <1>1, <1>2 DEF JournalOK, Blank, Journals
<1>4. HandOK(Free, v)
  BY <1>1, <1>2 DEF HandOK, Free, Tasks, Phases, Views
<1>5. ScanOK(Asleep, v)
  BY <1>1 DEF ScanOK, Asleep, NoRow, Scans
<1> QED  BY <1>3, <1>4, <1>5

-----------------------------------------------------------------------------
(* The changes of a journal.                                               *)

LEMMA PostParts ==
  ASSUME NEW p \in Posts
  PROVE  /\ p.kind \in {"page", "ending", "stop"} /\ p.attempt \in 0..MaxAttempts
         /\ p.kind = "page" => p \in PagePosts /\ p.page \in Pages /\ p.earns \in Checkpoints
  BY DEF Posts, PagePosts, ClosingPosts

LEMMA WithoutOK ==
  ASSUME NEW v, NEW j, JournalOK(j, v), NEW p
  PROVE  JournalOK(Without(j, p), v) /\ Without(j, p).kept = j.kept
<1>1. CASE Owed(j, p) = {}
  BY <1>1 DEF Without
<1>2. CASE Owed(j, p) # {}
  <2> DEFINE k == CHOOSE k \in Owed(j, p) : TRUE
             rest == SubSeq(j.owed, 1, k - 1) \o SubSeq(j.owed, k + 1, Len(j.owed))
  <2>1. k \in DOMAIN j.owed
    BY <1>2 DEF Owed
  <2>2. Without(j, p) = [j EXCEPT !.owed = rest]
    BY <1>2 DEF Without, JournalOK, Journals
  <2>3. rest \in Queues(v) /\ rest \in Seq(Posts)
    <3> HIDE DEF k
    <3>1. j.owed \in Seq(GoodPosts(v)) /\ j.owed \in Seq(Posts)
      BY DEF JournalOK, Queues, Journals
    <3> QED  BY <2>1, <3>1, QueueOps DEF Queues
  <2> HIDE DEF rest
  <2> QED  BY <2>2, <2>3 DEF JournalOK, Journals
<1> QED  BY <1>1, <1>2

LEMMA AdvanceOK ==
  ASSUME NEW v, NEW kept \in Checkpoints \cup {None}, NEW earned \in Checkpoints,
         kept # None => kept.acked \subseteq v.described, earned.acked \subseteq v.described
  PROVE  advance(kept, earned) \in Checkpoints /\ advance(kept, earned).acked \subseteq v.described
  BY ImportAssumption DEF advance, Checkpoints, Greater

LEMMA DeliveredOK ==
  ASSUME NEW v \in Views, NEW j, JournalOK(j, v), NEW p \in GoodPosts(v),
         p.kind = "page" => p.page.read \subseteq v.described
  PROVE  JournalOK(Delivered(j, p), v)
<1>1. JournalOK(Without(j, p), v) /\ Without(j, p).kept = j.kept
  BY WithoutOK
<1>2. CASE p.kind = "page" /\ Owed(j, p) # {}
  <2>1. p \in Posts /\ p.earns \in Checkpoints /\ p.earns.acked \subseteq v.described
    BY <1>2, PostParts DEF GoodPosts, Good
  <2> DEFINE rest == Without(j, p)
             credit == advance(j.kept, p.earns)
  <2>2. credit \in Checkpoints /\ credit.acked \subseteq v.described
    BY <2>1, AdvanceOK DEF JournalOK, Journals
  <2>3. Delivered(j, p) = [rest EXCEPT !.kept = credit, !.offers = 0]
    BY <1>1, <1>2 DEF Delivered
  <2>4. JournalOK(rest, v) /\ 0 \in 0..OffersBeforePause
    BY <1>1 DEF OffersBeforePause
  <2> HIDE DEF rest, credit
  <2>5. /\ Delivered(j, p) \in Journals
        /\ Delivered(j, p).owed = rest.owed /\ Delivered(j, p).kept = credit
    BY <2>2, <2>3, <2>4 DEF JournalOK, Journals
  <2> QED  BY <2>2, <2>4, <2>5 DEF JournalOK
<1>3. CASE p.kind = "stop" /\ Owed(j, p) # {}
  BY <1>3, Empties DEF Delivered
<1>4. CASE Owed(j, p) = {}
  BY <1>4 DEF Delivered
<1>5. CASE p.kind = "ending" /\ Owed(j, p) # {}
  BY <1>1, <1>5 DEF Delivered
<1> QED  BY <1>2, <1>3, <1>4, <1>5, PostParts DEF GoodPosts

LEMMA FailedOK ==
  ASSUME NEW v, NEW j, JournalOK(j, v), NEW p
  PROVE  JournalOK(Failed(j, p), v)
  BY DEF JournalOK, Failed, Journals, OffersBeforePause

LEMMA EnqueuedOK ==
  ASSUME NEW v, NEW j, JournalOK(j, v), NEW p \in GoodPosts(v)
  PROVE  /\ JournalOK(Enqueued(j, p), v) /\ Enqueued(j, p).kept = j.kept
         /\ Enqueued(j, p).owed # <<>>
<1>1. Append(j.owed, p) \in Seq(GoodPosts(v)) /\ Append(j.owed, p) \in Seq(Posts)
      /\ Append(j.owed, p) # <<>>
  <2>1. j.owed \in Seq(GoodPosts(v)) /\ j.owed \in Seq(Posts) /\ p \in Posts
    BY DEF JournalOK, Queues, Journals, GoodPosts
  <2> QED  BY <2>1, QueueOps
<1> QED  BY <1>1 DEF JournalOK, Enqueued, Journals, Queues

LEMMA UnderOK ==
  ASSUME NEW v, NEW p \in GoodPosts(v), NEW a \in 0..MaxAttempts
  PROVE  /\ Under(p, a) \in GoodPosts(v) /\ Under(p, a).kind = p.kind /\ Under(p, a).page = p.page
         /\ Under(p, a).attempt = a
  BY DEF GoodPosts, Good, Under, Posts, PagePosts, ClosingPosts

LEMMA RefencedOK ==
  ASSUME NEW v, NEW j, JournalOK(j, v), NEW a \in 0..MaxAttempts
  PROVE  JournalOK(Refenced(j, a), v)
<1> DEFINE q == [k \in DOMAIN j.owed |-> Under(j.owed[k], a)]
<1>1. Len(j.owed) \in Nat /\ DOMAIN j.owed = 1..Len(j.owed)
      /\ \A k \in DOMAIN j.owed : j.owed[k] \in GoodPosts(v)
  BY QueueOps DEF JournalOK, Queues
<1>2. q \in [1..Len(j.owed) -> GoodPosts(v)]
  BY <1>1, UnderOK
<1>3. q \in Seq(GoodPosts(v))
  BY <1>1, <1>2, SeqOfFunction
<1>4. q \in Seq(Posts)
  <2>1. GoodPosts(v) \subseteq Posts
    BY DEF GoodPosts
  <2> HIDE DEF q
  <2> QED  BY <1>3, <2>1, SeqMonotonic
<1>5. Refenced(j, a) = [j EXCEPT !.owed = q]
  BY DEF Refenced, JournalOK, Journals
<1> HIDE DEF q
<1> QED  BY <1>3, <1>4, <1>5 DEF JournalOK, Journals, Queues

LEMMA AnsweredOK ==
  ASSUME NEW v \in Views, NEW j, JournalOK(j, v), NEW p \in GoodPosts(v), NEW answer,
         answer = "ok" /\ p.kind = "page" => p.page.read \subseteq v.described
  PROVE  JournalOK(Answered(j, p, answer), v) /\ JournalOK(Drained(j, p, answer), v)
<1>1. JournalOK(Abandoned(j, p), v)
  BY WithoutOK DEF Abandoned
<1>2. JournalOK([Abandoned(j, p) EXCEPT !.offers = OffersBeforePause], v)
  BY <1>1 DEF JournalOK, Journals, OffersBeforePause
<1>3. JournalOK(Failed(j, p), v)
  BY FailedOK
<1>4. answer = "ok" \/ p.kind \in {"stop", "ending"} => JournalOK(Delivered(j, p), v)
  BY DeliveredOK
<1> QED  BY <1>1, <1>2, <1>3, <1>4 DEF Answered, Drained

LEMMA ResumedOK ==
  ASSUME NEW v, JournalsOK(journal, v), NEW d \in Devices, Resumed(d)
  PROVE  JournalsOK(journal', v)
<1> DEFINE stay == {k \in DOMAIN journal[d].owed : journal[d].owed[k].kind # "stop"}
<1>1. PICK nth \in [1..Cardinality(stay) -> stay] :
        Writes(d, [journal[d] EXCEPT !.stopped = FALSE, !.offers = 0,
                     !.owed = [k \in DOMAIN nth |-> @[nth[k]]]])
  BY DEF Resumed
<1>2. journal[d].owed \in Seq(GoodPosts(v)) /\ JournalOK(journal[d], v)
  BY DEF JournalsOK, JournalOK, Queues
<1>3. /\ Len(journal[d].owed) \in Nat /\ DOMAIN journal[d].owed = 1..Len(journal[d].owed)
      /\ \A k \in DOMAIN journal[d].owed : journal[d].owed[k] \in GoodPosts(v)
  BY <1>2, QueueOps
<1>4. Cardinality(stay) \in Nat
  <2>1. IsFiniteSet(DOMAIN journal[d].owed)
    BY <1>3, FS_Interval
  <2>2. IsFiniteSet(stay)
    BY <2>1, FS_Subset
  <2> QED  BY <2>2, FS_CardinalityType
<1>5. stay \subseteq DOMAIN journal[d].owed
  OBVIOUS
<1> DEFINE q == [k \in DOMAIN nth |-> journal[d].owed[nth[k]]]
<1>6. Writes(d, [journal[d] EXCEPT !.stopped = FALSE, !.offers = 0, !.owed = q])
  BY <1>1
<1> HIDE DEF stay
<1>7. q \in [1..Cardinality(stay) -> GoodPosts(v)]
  BY <1>3, <1>5
<1>8. q \in Seq(GoodPosts(v)) /\ q \in Seq(Posts)
  <2>1. q \in Seq(GoodPosts(v))
    BY <1>4, <1>7, SeqOfFunction
  <2>2. GoodPosts(v) \subseteq Posts
    BY DEF GoodPosts
  <2> HIDE DEF q
  <2> QED  BY <2>1, <2>2, SeqMonotonic
<1> HIDE DEF q
<1> DEFINE j == [journal[d] EXCEPT !.stopped = FALSE, !.offers = 0, !.owed = q]
<1>9. JournalOK(j, v)
  <2>1. 0 \in 0..OffersBeforePause
    BY DEF OffersBeforePause
  <2>2. j \in Journals /\ j.owed = q /\ j.kept = journal[d].kept
    BY <2>1, <1>2, <1>8 DEF JournalOK, Journals
  <2> QED  BY <2>2, <1>2, <1>8 DEF JournalOK, Queues
<1> HIDE DEF j
<1>10. journal' = [journal EXCEPT ![d] = j]
  BY <1>6 DEF Writes, j
<1> QED  BY <1>9, <1>10, JournalPut

-----------------------------------------------------------------------------
(* What the server does, as a device sees it.                              *)

LEMMA SelectItemsGrows ==
  ASSUME NEW r \in Runs, NEW it \in ItemMaps, NEW chosen
  PROVE  LET after == select_items(r, it, chosen)
         IN  /\ r.frozen => after.run.frozen
             /\ \A i \in Items : it[i] # "listed" => after.item[i] = it[i]
             /\ \A i \in Items : it[i] = "listed" => after.item[i] \in {"listed", "selected", "skipped"}
<1> DEFINE taken == [i \in Items |-> IF it[i] # "listed" THEN it[i]
                                     ELSE IF i \in chosen THEN "selected" ELSE "skipped"]
           frozen == [r EXCEPT !.frozen = TRUE]
<1>1. CASE r.state # "reading" \/ ~r.walked
  BY <1>1 DEF select_items
<1>2. CASE ~(r.state # "reading" \/ ~r.walked)
  <2>1. select_items(r, it, chosen) = [run |-> settle_if_done(frozen, taken), item |-> taken]
    BY <1>2 DEF select_items
  <2>2. settle_if_done(frozen, taken).frozen
    BY DEF settle_if_done, set_run_state, Runs
  <2> QED  BY <2>1, <2>2
<1> QED  BY <1>1, <1>2

LEMMA AppliedGrows ==
  ASSUME TypeOK, NEW p \in Pages, NEW held, NEW score \in [p.read -> Pairs], NEW seen,
         \A i \in p.read : score[i] \in Scores(pair[i])
  PROVE  LET after == Applied(p, held, score, seen)
         IN  /\ run.frozen => after.run.frozen
             /\ \A i \in Items :
                  /\ ~Undescribed(item[i]) => ~Undescribed(after.item[i])
                  /\ item[i] \notin {"absent", "listed"} => after.item[i] \notin {"absent", "listed"}
                  /\ i \in p.read /\ item[i] \notin {"absent", "listed"} => ~Undescribed(after.item[i])
<1> DEFINE listed    == append_listed(item, p.listed, held)
           closed    == [run EXCEPT !.walked = @ \/ p.close]
           chosen    == IF p.close /\ run.scheduled THEN select_items(closed, listed, Items)
                        ELSE [run |-> closed, item |-> listed]
           taken     == {i \in p.read : Undescribed(chosen.item[i])}
           described == [i \in Items |-> IF i \in taken THEN Verdict(score[i]) ELSE chosen.item[i]]
           left      == record_skipped(described, p.skip)
           next      == CASE (p.close \/ seen) /\ ~outstanding(left) -> "complete"
                          [] p.complete -> IF run.scheduled THEN "committing" ELSE "reviewing"
                          [] OTHER -> chosen.run.state
           pairs     == [i \in Items |-> IF i \in taken THEN score[i] ELSE pair[i]]
<1>1. run \in Runs /\ item \in ItemMaps
  BY TypeOKParts DEF RowsTyped
<1>2. p.read \subseteq Items /\ p.close \in BOOLEAN
  BY DEF Pages, Listings, Descriptions
<1>3. /\ listed \in ItemMaps
      /\ \A i \in Items : listed[i] \in {item[i], "skipped"} \/ (item[i] = "absent" /\ listed[i] = "listed")
  <2>1. listed \in ItemMaps
    BY <1>1, AppendListed
  <2>2. \A i \in Items : listed[i] = IF i \in p.listed \cap held THEN "skipped"
                                     ELSE IF i \in p.listed /\ item[i] = "absent" THEN "listed" ELSE item[i]
    BY DEF append_listed
  <2> HIDE DEF listed
  <2> QED  BY <2>1, <2>2
<1>4. closed \in Runs /\ closed.frozen = run.frozen
  BY <1>1, <1>2 DEF Runs
<1>5. /\ run.frozen => chosen.run.frozen
      /\ \A i \in Items : listed[i] # "listed" => chosen.item[i] = listed[i]
      /\ \A i \in Items : listed[i] = "listed" => chosen.item[i] \in {"listed", "selected", "skipped"}
  <2> HIDE DEF listed, closed
  <2>1. CASE p.close /\ run.scheduled
    BY <2>1, <1>3, <1>4, SelectItemsGrows
  <2>2. CASE ~(p.close /\ run.scheduled)
    BY <2>2, <1>3, <1>4
  <2> QED  BY <2>1, <2>2
<1> HIDE DEF listed, closed, chosen
<1>6. \A i \in Items : described[i] = IF i \in taken THEN Verdict(score[i]) ELSE chosen.item[i]
  OBVIOUS
<1>7. \A i \in taken : ~Undescribed(described[i])
  <2>1. \A i \in taken : i \in p.read /\ i \in Items /\ described[i] = Verdict(score[i])
    BY <1>2
  <2> HIDE DEF taken
  <2> QED  BY <2>1 DEF Verdict, Undescribed
<1>8. \A i \in Items : left[i] \in {described[i], "skipped"}
  <2> HIDE DEF described
  <2> QED  BY DEF record_skipped
<1>9. Applied(p, held, score, seen) =
         [run |-> set_run_state(chosen.run, next), item |-> left, pair |-> pairs]
  BY DEF Applied, left, next, pairs, described, taken, chosen, closed, listed
<1>10. ASSUME NEW i \in Items
       PROVE  /\ ~Undescribed(item[i]) => ~Undescribed(left[i])
              /\ item[i] \notin {"absent", "listed"} => left[i] \notin {"absent", "listed"}
              /\ i \in p.read /\ item[i] \notin {"absent", "listed"} => ~Undescribed(left[i])
  <2> HIDE DEF described, left
  <2>1. CASE i \in taken
    BY <2>1, <1>7, <1>8 DEF Undescribed
  <2>2. CASE i \notin taken
    <3>1. left[i] \in {chosen.item[i], "skipped"}
      BY <2>2, <1>6, <1>8
    <3>2. i \in p.read => ~Undescribed(chosen.item[i])
      BY <2>2
    <3> QED  BY <3>1, <3>2, <1>3, <1>5 DEF Undescribed
  <2> QED  BY <2>1, <2>2
<1> HIDE DEF left, next, pairs
<1>11. run.frozen => set_run_state(chosen.run, next).frozen
  BY <1>5 DEF set_run_state
<1> QED  BY <1>9, <1>10, <1>11

Onward(mint) == Grows(View(mint), View(mint)') /\ Faithful(View(mint)')

LEMMA ViewTyped ==
  ASSUME TypeOK, NEW mint \in Minting
  PROVE  View(mint) \in Views
  BY TypeOKParts DEF View, Views, Described, Chosen, RowsTyped, Runs

LEMMA ViewTypedNext ==
  ASSUME TypeOK', NEW mint \in Minting
  PROVE  View(mint)' \in Views
  BY TypeOKNext DEF View, Views, Described, Chosen, RowsTyped, Runs

\* A step that moves nothing but the run, and never thaws a selection.
LEMMA QuietGrows ==
  ASSUME TypeOK', NEW mint \in Minting, Faithful(View(mint)), UNCHANGED <<item, receipts>>,
         run.frozen => run'.frozen
  PROVE  Onward(mint)
<1>1. View(mint)' \in Views
  BY ViewTypedNext
<1>2. Described' = Described /\ Chosen' = Chosen
  BY DEF Described, Chosen
<1> QED  BY <1>1, <1>2 DEF Onward, Grows, Faithful, View

LEMMA PageGrows ==
  ASSUME TypeOK, TypeOK', NEW mint \in Minting, Faithful(View(mint)), NEW d, NEW a,
         NEW p \in GoodPosts(View(mint)), p.kind = "page", run_page(d, a, p.page)
  PROVE  Onward(mint) /\ p.page.read \subseteq Described'
<1>1. PICK held \in SUBSET (made \cap p.page.listed), score \in [p.page.read -> Pairs],
           seen \in {FALSE, run.walked} :
        LET after == Applied(p.page, held, score, seen)
        IN  /\ \A i \in p.page.read : score[i] \in Scores(pair[i])
            /\ run' = after.run /\ item' = after.item
  BY Zenon DEF run_page
<1>2. p \in Posts /\ Good(p, View(mint)) /\ p.page \in Pages
  BY PostParts DEF GoodPosts
<1>3. /\ run.frozen => run'.frozen
      /\ \A i \in Items :
           /\ ~Undescribed(item[i]) => ~Undescribed(item'[i])
           /\ item[i] \notin {"absent", "listed"} => item'[i] \notin {"absent", "listed"}
           /\ i \in p.page.read /\ item[i] \notin {"absent", "listed"} => ~Undescribed(item'[i])
  BY <1>1, <1>2, AppliedGrows
<1>4. p.page.read \subseteq Items /\ p.page.read \subseteq Chosen
  <2>1. p.page \in Descriptions => p.page.read \subseteq Chosen
    BY <1>2 DEF Good, View
  <2>2. p.page \in Listings => p.page.read = {}
    BY DEF Listings
  <2> QED  BY <1>2, <2>1, <2>2 DEF Pages, Chosen
<1>5. Described \subseteq Described' /\ Chosen \subseteq Chosen' /\ p.page.read \subseteq Described'
  BY <1>3, <1>4 DEF Described, Chosen, Undescribed
<1>6. receipts' = receipts \cup ({p.page.receipt} \ {None})
  BY DEF run_page
<1>7. View(mint)' \in Views
  BY ViewTypedNext
<1>8. \A r \in receipts' : mint[r] \subseteq Described'
  BY <1>2, <1>5, <1>6 DEF Good, Faithful, View
<1> QED  BY <1>3, <1>5, <1>7, <1>8 DEF Onward, Grows, Faithful, View

LEMMA FencedSteps ==
  ASSUME TypeOK, NEW d, NEW a,
         claim(d, TRUE) \/ claim(d, FALSE) \/ report_ending(d, a) \/ stop_owned(d, a)
           \/ LeaseLapses \/ authorise_commit \/ abandon
  PROVE  UNCHANGED <<item, receipts>> /\ run'.frozen = run.frozen
<1>1. run \in Runs
  BY TypeOKParts
<1> QED
  BY <1>1 DEF claim, report_ending, stop_owned, LeaseLapses, authorise_commit, abandon,
              set_run_state, Reconciled, rows, Runs

LEMMA CarriedStep ==
  ASSUME Inv, NEW mint \in Minting, Faithful(View(mint)), NEW d \in Devices,
         NEW p \in GoodPosts(View(mint)), NEW answer, Carried(d, p, answer)
  PROVE  /\ [Next]_vars /\ Onward(mint)
         /\ answer = "ok" /\ p.kind = "page" => p.page.read \subseteq Described'
<1>1. p \in Posts /\ p.attempt \in 0..MaxAttempts /\ p.kind \in {"page", "ending", "stop"}
  BY PostParts DEF GoodPosts
<1>2. Refusal # "ok"
  BY DEF Refusal
<1>3. CASE UNCHANGED vars
  <2>1. TypeOK' /\ UNCHANGED <<item, receipts>> /\ run' = run
    BY <1>3, InvStep DEF vars, Inv
  <2>2. Onward(mint)
    BY <2>1, QuietGrows
  <2>3. ASSUME answer = "ok", p.kind = "page"
        PROVE  p.page.read \subseteq Described'
    <3>1. run_page(d, p.attempt, p.page) \/ (fenced(d, p.attempt) = "current" /\ ~Fresh(p.page))
      BY <2>3, <1>2 DEF Carried
    <3>2. ~run_page(d, p.attempt, p.page) => p.page.receipt \in receipts
      BY <3>1 DEF Fresh
    <3>3. Described' = Described
      BY <2>1 DEF Described
    <3>4. CASE p.page.receipt \in receipts
      BY <3>3, <3>4, <2>3 DEF GoodPosts, Good, Faithful, View
    <3>5. CASE run_page(d, p.attempt, p.page)
      BY <3>5, <2>1, <2>3, PageGrows DEF Inv
    <3> QED  BY <3>2, <3>4, <3>5
  <2> QED  BY <1>3, <2>2, <2>3
<1>4. CASE p.kind = "page" /\ run_page(d, p.attempt, p.page)
  <2>1. Sendable(p.page) /\ p.page \in Pages
    <3>1. Good(p, View(mint)) /\ p.page \in Pages
      BY <1>1, <1>4, PostParts DEF GoodPosts
    <3> QED  BY <3>1, <1>4 DEF Good, View, Sendable, Chosen
  <2>2. Next
    BY <1>1, <1>4, <2>1 DEF Next, Device
  <2>3. TypeOK /\ TypeOK'
    BY <2>2, InvStep DEF Inv
  <2> QED  BY <1>4, <2>2, <2>3, PageGrows
<1>5. CASE p.kind \in {"ending", "stop"} /\ (report_ending(d, p.attempt) \/ stop_owned(d, p.attempt))
  <2>1. Next
    BY <1>1, <1>5 DEF Next, Device
  <2>2. TypeOK /\ TypeOK'
    BY <2>1, InvStep DEF Inv
  <2> QED  BY <1>5, <2>1, <2>2, FencedSteps, QuietGrows
<1>6. \/ UNCHANGED vars
      \/ p.kind = "page" /\ run_page(d, p.attempt, p.page)
      \/ p.kind \in {"ending", "stop"} /\ (report_ending(d, p.attempt) \/ stop_owned(d, p.attempt))
  BY <1>1 DEF Carried
<1> QED  BY <1>3, <1>4, <1>5, <1>6

LEMMA Exchange ==
  ASSUME Inv, NEW mint \in Minting, Faithful(View(mint)), NEW d \in Devices,
         NEW p \in GoodPosts(View(mint)), NEW answer, events \in Nat, Sends(d, p, answer)
  PROVE  /\ [Next]_vars /\ Onward(mint) /\ events' \in Nat
         /\ answer = "ok" /\ p.kind = "page" => p.page.read \subseteq Described'
<1>1. CASE Carried(d, p, answer) /\ UNCHANGED events
  BY <1>1, CarriedStep
<1>2. CASE Faulty /\ ~(answer = "ok" /\ p.kind = "page")
           /\ (UNCHANGED vars \/ \E said \in {"ok", "fenced", "spent"} : Carried(d, p, said))
  <2>1. events' \in Nat
    BY <1>2 DEF Faulty
  <2>2. CASE UNCHANGED vars
    <3>1. TypeOK' /\ UNCHANGED <<item, receipts>> /\ run' = run
      BY <2>2, InvStep DEF vars, Inv
    <3> QED  BY <1>2, <2>1, <2>2, <3>1, QuietGrows
  <2>3. CASE \E said \in {"ok", "fenced", "spent"} : Carried(d, p, said)
    BY <1>2, <2>1, <2>3, CarriedStep
  <2> QED  BY <1>2, <2>2, <2>3
<1> QED  BY <1>1, <1>2 DEF Sends

-----------------------------------------------------------------------------
(* The steps of a device.                                                  *)

Before(mint) ==
  Inv /\ mint \in Minting /\ Sound(journal, hand, scan, View(mint)) /\ Shelf(slot, stopping, events)
After(mint) ==
  [Next]_vars /\ Sound(journal', hand', scan', View(mint)') /\ Shelf(slot', stopping', events')

LEMMA BeforeParts ==
  ASSUME NEW mint, Before(mint)
  PROVE  /\ View(mint) \in Views /\ Faithful(View(mint)) /\ TypeOK
         /\ JournalsOK(journal, View(mint)) /\ HandsOK(hand, View(mint)) /\ ScansOK(scan, View(mint))
         /\ \A d \in Devices : JournalOK(journal[d], View(mint)) /\ ScanOK(scan[d], View(mint))
         /\ \A h \in Hands : HandOK(hand[h], View(mint)) /\ Holder[h] \in Devices
         /\ JournalOK(Blank, View(mint)) /\ HandOK(Free, View(mint)) /\ ScanOK(Asleep, View(mint))
<1>1. View(mint) \in Views /\ TypeOK
  BY ViewTyped DEF Before, Inv
<1> QED  BY <1>1, Empties, DeviceAssumption DEF Before, Sound, JournalsOK, HandsOK, ScansOK

\* A step of which the server knows nothing.
LEMMA LocalStep ==
  ASSUME NEW mint, Before(mint), UNCHANGED vars,
         JournalsOK(journal', View(mint)), HandsOK(hand', View(mint)), ScansOK(scan', View(mint)),
         Shelf(slot', stopping', events')
  PROVE  After(mint)
<1>1. View(mint)' = View(mint)
  BY DEF vars, View, Described, Chosen
<1>2. Sound(journal', hand', scan', View(mint)')
  BY <1>1, BeforeParts DEF Sound
<1> QED  BY <1>2 DEF After

\* A step on which the server moved, whatever the device did of it.
LEMMA ServedStep ==
  ASSUME NEW mint, Before(mint), [Next]_vars, Onward(mint),
         JournalsOK(journal', View(mint)'), HandsOK(hand', View(mint)'), ScansOK(scan', View(mint)'),
         Shelf(slot', stopping', events')
  PROVE  After(mint)
  BY DEF After, Sound, Onward

LEMMA Grown ==
  ASSUME NEW mint, Before(mint), Onward(mint)
  PROVE  /\ View(mint)' \in Views
         /\ JournalsOK(journal, View(mint)') /\ HandsOK(hand, View(mint)') /\ ScansOK(scan, View(mint)')
         /\ HandOK(Free, View(mint)')
<1>1. View(mint)' \in Views /\ Grows(View(mint), View(mint)')
  BY DEF Onward, Faithful
<1>2. JournalsOK(journal, View(mint)) /\ HandsOK(hand, View(mint)) /\ ScansOK(scan, View(mint))
  BY BeforeParts
<1>3. JournalsOK(journal, View(mint)') /\ HandsOK(hand, View(mint)') /\ ScansOK(scan, View(mint)')
  BY <1>1, <1>2, AllGrow
<1> QED  BY <1>1, <1>3, Empties

LEMMA ReleaseOK ==
  ASSUME NEW v \in Views, HandsOK(hand, v), Shelf(slot, stopping, events), NEW h \in Hands, Release(h)
  PROVE  HandsOK(hand', v) /\ slot' \in [Devices -> Hands \cup {None}]
<1>1. HandOK(Free, v)
  BY Empties
<1>2. HandsOK(hand', v)
  BY <1>1, HandPut DEF Release, Becomes
<1> QED  BY <1>2, DeviceAssumption DEF Release, Shelf

\* Turning to a step that neither reads nor offers.
Plain == {"idle", "resume", "found", "claim", "owes", "ready", "keep", "start", "hold",
          "walk", "ending", "ended", "over"}
LEMMA TurnOK ==
  ASSUME NEW v, NEW t, HandOK(t, v), t.at # "flush", t.read \cup t.skip = {}, NEW at \in Plain
  PROVE  HandOK([t EXCEPT !.at = at], v)
<1> DEFINE u == [t EXCEPT !.at = at]
<1>1. t \in Tasks
  BY DEF HandOK
<1>2. u \in Tasks /\ u.at = at
  BY <1>1 DEF Tasks, Plain
<1>3. /\ u.queue = t.queue /\ u.acked = t.acked /\ u.phase = t.phase /\ u.then = t.then
      /\ u.todo = t.todo /\ u.read = t.read /\ u.skip = t.skip
  BY <1>1 DEF Tasks
<1> HIDE DEF u
<1>4. at \notin {"flush", "select", "read"}
  BY DEF Plain
<1>5. HandOK(u, v)
  BY <1>2, <1>3, <1>4 DEF HandOK
<1> QED  BY <1>5 DEF u

\* Nothing read and not yet posted, at any step but the reading one.
LEMMA HandParts ==
  ASSUME NEW v, NEW t, HandOK(t, v), t.at \notin {"flush", "read"}
  PROVE  /\ t \in Tasks /\ t.queue = <<>> /\ t.queue \in Queues(v)
         /\ t.acked \subseteq v.described /\ t.read = {} /\ t.skip = {}
         /\ t.todo \subseteq v.chosen
         /\ t.phase = "describe" \/ t.then = "read" => v.frozen
  BY DEF HandOK, Reads

\* A hand at a step that neither reads nor offers.
LEMMA PlainHand ==
  ASSUME NEW v, NEW u \in Tasks, u.at \in Plain \cup {"select"}, u.queue = <<>>,
         u.acked \subseteq v.described, u.read = {}, u.skip = {}, u.todo \subseteq v.chosen,
         u.phase = "describe" \/ u.then = "read" \/ u.at = "select" => v.frozen
  PROVE  HandOK(u, v)
<1>1. u.queue \in Queues(v)
  BY EmptySeq DEF Queues
<1> QED  BY <1>1 DEF HandOK, Plain

\* The steps of a hand that write nothing down and send nothing.
QuietHand(h) ==
  \/ \E phase \in Phases, takeover \in BOOLEAN : Press(h, phase, takeover)
  \/ Reserve(h) \/ Quits(h) \/ Ready(h) \/ Start(h) \/ hold(h)
  \/ Interrupted(h) \/ Unreadable(h) \/ Select(h) \/ Keeper(h)

LEMMA QuietHandStep ==
  ASSUME NEW mint, Before(mint), NEW h \in Hands, QuietHand(h)
  PROVE  After(mint)
<1> DEFINE v == View(mint)
           t == hand[h]
<1>1. /\ v \in Views /\ HandsOK(hand, v) /\ HandOK(t, v) /\ HandOK(Free, v) /\ Holder[h] \in Devices
      /\ t \in Tasks /\ Free \in Tasks /\ v.frozen = run.frozen /\ hand \in [Hands -> Tasks]
  BY BeforeParts DEF HandOK, View, HandsOK
<1>2. UNCHANGED <<vars, journal, scan, stopping>>
  BY DEF QuietHand, Press, Reserve, Quits, Ready, Start, hold, Interrupted, Unreadable, Select, Keeper
<1>3. events' \in Nat
  <2>1. events' \in {events, events + 1}
    BY DEF QuietHand, Press, Reserve, Quits, Ready, Start, hold, Interrupted, Unreadable, Select, Keeper, Faulty
  <2> QED  BY <2>1 DEF Before, Shelf
<1>4. slot' \in [Devices -> Hands \cup {None}]
  BY <1>1 DEF Before, Shelf, QuietHand, Press, Reserve, Quits, Ready, Start, hold, Interrupted, Unreadable,
         Select, Keeper, Release
<1>5. JournalsOK(journal', v) /\ ScansOK(scan', v)
  BY <1>2, BeforeParts
<1> HIDE DEF v
<1> DEFINE u == hand'[h]
<1>6. hand' = [hand EXCEPT ![h] = u]
  BY <1>1 DEF QuietHand, Press, Reserve, Quits, Ready, Start, hold, Interrupted, Unreadable, Select, Keeper,
         Release, Turns, Becomes
<1>7. HandOK(u, v)
  <2>1. CASE Quits(h) \/ Interrupted(h)
    <3>1. Release(h)
      BY <2>1 DEF Quits, Interrupted
    <3>2. u = Free
      BY <3>1, <1>1 DEF Release, Becomes
    <3> HIDE DEF u
    <3> QED  BY <3>2, <1>1
  <2>2. CASE Unreadable(h)
    <3>1. t.at = "walk" /\ u = [t EXCEPT !.at = "ending"]
      BY <2>2, <1>1 DEF Unreadable, Turns, Is, Becomes
    <3>2. t.read \cup t.skip = {} /\ t.at # "flush" /\ "ending" \in Plain
      BY <3>1, <1>1, HandParts DEF Plain
    <3> HIDE DEF u, t
    <3> QED  BY <3>1, <3>2, <1>1, TurnOK
  <2>3. CASE Ready(h)
    <3>1. /\ t.at = "ready"
          /\ u = [t EXCEPT !.at = "ending"] \/ u = [t EXCEPT !.at = "owes", !.then = "keep"]
      BY <2>3, <1>1 DEF Ready, Turns, Is, Becomes
    <3> HIDE DEF u, t
    <3>2. CASE u = [t EXCEPT !.at = "ending"]
      BY <3>1, <3>2, <1>1, HandParts, TurnOK DEF Plain
    <3>3. CASE u = [t EXCEPT !.at = "owes", !.then = "keep"]
      <4>1. /\ u \in Tasks /\ u.at = "owes" /\ u.then = "keep" /\ u.queue = t.queue /\ u.acked = t.acked
            /\ u.phase = t.phase /\ u.todo = t.todo /\ u.read = t.read /\ u.skip = t.skip
        BY <3>3, <1>1 DEF Tasks
      <4> QED  BY <3>1, <4>1, <1>1, HandParts, PlainHand DEF Plain
    <3> QED  BY <3>1, <3>2, <3>3
  <2>4. CASE Reserve(h)
    <3>1. PICK then \in {t.then, "ready"} :
            t.at = "found" /\ (u = Free \/ u = [t EXCEPT !.at = "claim", !.then = then])
      BY <2>4, <1>1 DEF Reserve, Is, Release, Becomes
    <3> HIDE DEF u, t
    <3>2. CASE u = Free
      BY <3>2, <1>1
    <3>3. CASE u = [t EXCEPT !.at = "claim", !.then = then]
      <4>1. then \in {"ready", "keep", "read", "ending", "over"}
        BY <1>1, <3>1 DEF Tasks
      <4>2. /\ u \in Tasks /\ u.at = "claim" /\ u.then = then /\ u.queue = t.queue /\ u.acked = t.acked
            /\ u.phase = t.phase /\ u.todo = t.todo /\ u.read = t.read /\ u.skip = t.skip
        BY <3>3, <4>1, <1>1 DEF Tasks
      <4> QED  BY <3>1, <4>2, <1>1, HandParts, PlainHand DEF Plain
    <3> QED  BY <3>1, <3>2, <3>3
  <2>5. CASE Start(h)
    <3>1. t.at = "start" /\ (u = Free \/ u = [t EXCEPT !.at = "hold"])
      BY <2>5, <1>1 DEF Start, Is, Turns, Becomes
    <3> HIDE DEF u, t
    <3>2. CASE u = [t EXCEPT !.at = "hold"]
      BY <3>1, <3>2, <1>1, HandParts, TurnOK DEF Plain
    <3> QED  BY <3>1, <3>2, <1>1
  <2>9. CASE hold(h)
    <3>1. /\ t.at = "hold"
          /\ \/ u = [t EXCEPT !.working = TRUE, !.awaited = FALSE, !.at = "walk"]
             \/ t.phase # "discover" /\ u = [t EXCEPT !.working = TRUE, !.awaited = FALSE, !.at = "select"]
      BY <2>9, <1>1 DEF hold, Is, Becomes
    <3> HIDE DEF u, t
    <3>2. /\ u \in Tasks /\ u.at \in {"walk", "select"} /\ u.then = t.then
          /\ u.queue = t.queue /\ u.acked = t.acked /\ u.phase = t.phase
          /\ u.todo = t.todo /\ u.read = t.read /\ u.skip = t.skip
          /\ u.at = "select" => t.phase = "describe"
      <4>1. CASE u = [t EXCEPT !.working = TRUE, !.awaited = FALSE, !.at = "walk"]
        BY <4>1, <1>1 DEF Tasks
      <4>2. CASE t.phase # "discover" /\ u = [t EXCEPT !.working = TRUE, !.awaited = FALSE, !.at = "select"]
        BY <4>2, <1>1 DEF Tasks, Phases
      <4> QED  BY <4>1, <4>2, <3>1
    <3> QED  BY <3>1, <3>2, <1>1, HandParts, PlainHand DEF Plain
  <2>6. CASE Keeper(h)
    <3>1. u = [t EXCEPT !.fenced = TRUE]
      BY <2>6, <1>1 DEF Keeper, Becomes
    <3>2. /\ u \in Tasks /\ u.at = t.at /\ u.then = t.then /\ u.queue = t.queue /\ u.acked = t.acked
          /\ u.phase = t.phase /\ u.todo = t.todo /\ u.read = t.read /\ u.skip = t.skip
      BY <3>1, <1>1 DEF Tasks
    <3> QED  BY <3>2, <1>1 DEF HandOK
  <2>7. CASE Select(h)
    <3> DEFINE chosen == InState(item, {"selected"})
    <3>1. chosen \subseteq v.chosen /\ chosen \subseteq Items
      BY DEF InState, v, View, Chosen
    <3>2. t.at = "select" /\ u = [t EXCEPT !.at = "read", !.todo = chosen \ t.acked]
      BY <2>7, <1>1 DEF Select, Is, Becomes
    <3> DEFINE todo == chosen \ t.acked
    <3>5. todo \subseteq v.chosen /\ todo \in SUBSET Items /\ u = [t EXCEPT !.at = "read", !.todo = todo]
      BY <3>1, <3>2
    <3> HIDE DEF chosen, todo, u, t
    <3>3. /\ u \in Tasks /\ u.at = "read" /\ u.then = t.then /\ u.queue = t.queue /\ u.acked = t.acked
          /\ u.phase = t.phase /\ u.todo = todo /\ u.read = t.read /\ u.skip = t.skip
      BY <3>5, <1>1 DEF Tasks
    <3>4. t.queue = <<>> /\ t.read = {} /\ t.skip = {} /\ v.frozen
      BY <3>2, <1>1, HandParts DEF HandOK
    <3> QED  BY <3>3, <3>4, <3>5, <1>1 DEF HandOK
  <2>8. CASE \E phase \in Phases, takeover \in BOOLEAN : Press(h, phase, takeover)
    <3>1. PICK phase \in Phases, takeover \in BOOLEAN : Press(h, phase, takeover)
      BY <2>8
    <3>2. /\ u = [Free EXCEPT !.at = "resume", !.phase = phase, !.takeover = takeover]
          /\ phase = "describe" => v.frozen
      BY <3>1, <1>1 DEF Press, Becomes
    <3> HIDE DEF u
    <3>3. /\ Free.then = "ready" /\ Free.queue = <<>> /\ Free.acked = {} /\ Free.todo = {}
          /\ Free.read = {} /\ Free.skip = {}
      BY DEF Free
    <3>4. /\ u \in Tasks /\ u.at = "resume" /\ u.then = Free.then /\ u.queue = Free.queue
          /\ u.acked = Free.acked /\ u.phase = phase /\ u.todo = Free.todo
          /\ u.read = Free.read /\ u.skip = Free.skip
      BY <3>2, <1>1 DEF Tasks
    <3> QED  BY <3>2, <3>3, <3>4, PlainHand DEF Plain
  <2> QED  BY <2>1, <2>2, <2>3, <2>4, <2>5, <2>6, <2>7, <2>8, <2>9 DEF QuietHand
<1> HIDE DEF u
<1>8. HandsOK(hand', v)
  BY <1>1, <1>6, <1>7, HandPut
<1>9. Shelf(slot', stopping', events')
  BY <1>2, <1>3, <1>4 DEF Before, Shelf
<1> QED  BY <1>2, <1>5, <1>8, <1>9, LocalStep DEF v

LEMMA WritesOK ==
  ASSUME NEW v, JournalsOK(journal, v), NEW d \in Devices, NEW j, JournalOK(j, v), Writes(d, j)
  PROVE  JournalsOK(journal', v)
  BY JournalPut DEF Writes

LEMMA BecomesOK ==
  ASSUME NEW v, HandsOK(hand, v), NEW h \in Hands, NEW u, HandOK(u, v), Becomes(h, u)
  PROVE  HandsOK(hand', v)
  BY HandPut DEF Becomes

LEMMA ClosingPost ==
  ASSUME NEW v, NEW p \in ClosingPosts
  PROVE  p \in GoodPosts(v)
  BY DEF ClosingPosts, GoodPosts, Good, Posts

\* A queue taken up for offering, or found empty.
LEMMA QueuedHand ==
  ASSUME NEW v, NEW t, HandOK(t, v), t.at \notin {"flush", "read"}, NEW q \in Queues(v), q \in Seq(Posts),
         NEW at \in {t.then, "flush"}, at = "flush" <=> q # <<>>
  PROVE  HandOK([t EXCEPT !.at = at, !.queue = q], v)
<1> DEFINE u == [t EXCEPT !.at = at, !.queue = q]
<1>1. /\ t \in Tasks /\ t.acked \subseteq v.described /\ t.read = {} /\ t.skip = {}
      /\ t.todo \subseteq v.chosen /\ (t.phase = "describe" \/ t.then = "read" => v.frozen)
  BY HandParts
<1>2. t.then \in {"ready", "keep", "read", "ending", "over"}
  BY <1>1 DEF Tasks
<1>3. u \in Tasks
  BY <1>1, <1>2 DEF Tasks
<1>4. /\ u.at = at /\ u.queue = q /\ u.acked = t.acked /\ u.phase = t.phase /\ u.then = t.then
      /\ u.todo = t.todo /\ u.read = t.read /\ u.skip = t.skip
  BY <1>1 DEF Tasks
<1> HIDE DEF u
<1>5. HandOK(u, v)
  BY <1>1, <1>2, <1>3, <1>4 DEF HandOK
<1> QED  BY <1>5 DEF u

LEMMA ResumeStep ==
  ASSUME NEW mint, Before(mint), NEW h \in Hands, Resume(h)
  PROVE  After(mint)
<1> DEFINE v == View(mint)
<1>1. /\ HandsOK(hand, v) /\ HandOK(hand[h], v) /\ Holder[h] \in Devices
      /\ JournalsOK(journal, v) /\ ScansOK(scan, v)
  BY BeforeParts
<1> HIDE DEF v
<1>2. JournalsOK(journal', v)
  BY <1>1, ResumedOK DEF Resume
<1>3. HandsOK(hand', v)
  <2>1. hand[h].at = "resume" /\ Becomes(h, [hand[h] EXCEPT !.at = "claim"])
    BY DEF Resume, Is, Turns
  <2>2. hand[h].read \cup hand[h].skip = {} /\ hand[h].at # "flush"
    BY <1>1, <2>1, HandParts
  <2>3. "claim" \in Plain
    BY DEF Plain
  <2>4. HandOK([hand[h] EXCEPT !.at = "claim"], v)
    BY <1>1, <2>2, <2>3, TurnOK
  <2> QED  BY <1>1, <2>1, <2>4, BecomesOK
<1>4. UNCHANGED <<vars, slot, scan, stopping, events>>
  BY DEF Resume
<1> QED  BY <1>1, <1>2, <1>3, <1>4, LocalStep DEF v, Before

LEMMA OwesStep ==
  ASSUME NEW mint, Before(mint), NEW h \in Hands, Owes(h)
  PROVE  After(mint)
<1> DEFINE v == View(mint)
           d == Holder[h]
           owed == Refenced(journal[d], hand[h].attempt)
<1>1. /\ HandsOK(hand, v) /\ HandOK(hand[h], v) /\ d \in Devices
      /\ JournalsOK(journal, v) /\ JournalOK(journal[d], v) /\ ScansOK(scan, v)
  BY BeforeParts
<1> HIDE DEF v
<1>2. hand[h].attempt \in 0..MaxAttempts
  BY <1>1 DEF HandOK, Tasks
<1>3. JournalOK(owed, v)
  BY <1>1, <1>2, RefencedOK
<1>4. /\ hand[h].at = "owes" /\ Writes(d, owed)
      /\ UNCHANGED <<vars, slot, scan, stopping, events>>
      /\ Becomes(h, [hand[h] EXCEPT !.at = IF owed.owed = <<>> THEN hand[h].then ELSE "flush",
                                    !.queue = owed.owed])
  BY DEF Owes, Is
<1> HIDE DEF owed
<1>5. JournalsOK(journal', v)
  BY <1>1, <1>3, <1>4, WritesOK
<1>6. HandsOK(hand', v)
  <2> DEFINE at == IF owed.owed = <<>> THEN hand[h].then ELSE "flush"
  <2>1. hand[h].then # "flush"
    BY <1>1 DEF HandOK, Tasks
  <2>2. owed.owed \in Queues(v) /\ owed.owed \in Seq(Posts)
    BY <1>3 DEF JournalOK, Journals
  <2>3. at \in {hand[h].then, "flush"} /\ (at = "flush" <=> owed.owed # <<>>)
    BY <2>1
  <2>4. Becomes(h, [hand[h] EXCEPT !.at = at, !.queue = owed.owed])
    BY <1>4
  <2> HIDE DEF at
  <2>5. HandOK([hand[h] EXCEPT !.at = at, !.queue = owed.owed], v)
    BY <1>1, <1>4, <2>2, <2>3, QueuedHand
  <2> QED  BY <1>1, <2>4, <2>5, BecomesOK
<1> QED  BY <1>1, <1>4, <1>5, <1>6, LocalStep DEF v, Before

LEMMA KeepStep ==
  ASSUME NEW mint, Before(mint), NEW h \in Hands, Keep(h)
  PROVE  After(mint)
<1> DEFINE v == View(mint)
           d == Holder[h]
           t == hand[h]
           kept == journal[d].kept
           done == IF kept # None /\ kept.phase = hand[h].phase THEN kept.acked ELSE {}
           point == [phase |-> t.phase, attempt |-> t.attempt, acked |-> done]
           j == [journal[d] EXCEPT !.kept = point]
<1>1. /\ HandsOK(hand, v) /\ HandOK(t, v) /\ t \in Tasks /\ d \in Devices
      /\ JournalsOK(journal, v) /\ JournalOK(journal[d], v) /\ ScansOK(scan, v)
  BY BeforeParts DEF HandOK
<1>2. t.at = "keep" /\ Writes(d, j) /\ UNCHANGED <<vars, slot, scan, stopping, events>>
  BY DEF Keep, Is
<1>3. PICK described \in BOOLEAN :
        Becomes(h, [t EXCEPT !.at = "start", !.acked = done, !.described = described])
  BY DEF Keep
<1> HIDE DEF v
<1>4. done \in SUBSET Items /\ done \subseteq v.described
  BY <1>1 DEF JournalOK, Journals, Checkpoints
<1> HIDE DEF done
<1>5. point \in Checkpoints /\ point.acked = done
  BY <1>1, <1>4 DEF Checkpoints, Tasks
<1> HIDE DEF point
<1>6. JournalOK(j, v)
  <2>1. j \in Journals /\ j.owed = journal[d].owed /\ j.kept = point
    BY <1>1, <1>5 DEF JournalOK, Journals
  <2> HIDE DEF j
  <2> QED  BY <1>1, <1>4, <1>5, <2>1 DEF JournalOK
<1>7. JournalsOK(journal', v)
  <2> HIDE DEF j
  <2> QED  BY <1>1, <1>2, <1>6, WritesOK
<1>8. HandsOK(hand', v)
  <2> DEFINE u == [t EXCEPT !.at = "start", !.acked = done, !.described = described]
  <2> HIDE DEF t
  <2>1. /\ u \in Tasks /\ u.at = "start" /\ u.acked = done /\ u.queue = t.queue /\ u.phase = t.phase
        /\ u.then = t.then /\ u.todo = t.todo /\ u.read = t.read /\ u.skip = t.skip
    BY <1>1, <1>4 DEF Tasks
  <2>2. Becomes(h, u)
    BY <1>3
  <2> HIDE DEF u
  <2>3. HandOK(u, v)
    BY <1>1, <1>2, <1>4, <2>1, HandParts, PlainHand DEF Plain
  <2> QED  BY <1>1, <2>2, <2>3, BecomesOK
<1> QED  BY <1>1, <1>2, <1>7, <1>8, LocalStep DEF v, Before

LEMMA EndingOK ==
  ASSUME NEW v, NEW h \in Hands, HandOK(hand[h], v)
  PROVE  Ending(h) \in GoodPosts(v) /\ Ending(h).kind = "ending"
<1>1. Ending(h) \in ClosingPosts
  BY DEF Ending, ClosingPosts, HandOK, Tasks
<1> QED  BY <1>1, ClosingPost DEF Ending

LEMMA SettledOK ==
  ASSUME NEW v \in Views, NEW j, JournalOK(j, v), NEW h
  PROVE  JournalOK(Settled(h, j), v)
  BY Empties DEF Settled

LEMMA ReportsStep ==
  ASSUME NEW mint, Before(mint), NEW h \in Hands, Reports(h)
  PROVE  After(mint)
<1> DEFINE v == View(mint)
           d == Holder[h]
<1>1. /\ HandsOK(hand, v) /\ HandOK(hand[h], v) /\ d \in Devices
      /\ JournalsOK(journal, v) /\ JournalOK(journal[d], v) /\ ScansOK(scan, v)
  BY BeforeParts
<1> HIDE DEF v
<1>2. /\ hand[h].at = "ending" /\ Writes(d, Enqueued(journal[d], Ending(h)))
      /\ Becomes(h, [hand[h] EXCEPT !.at = "ended"])
      /\ UNCHANGED <<vars, slot, scan, stopping, events>>
  BY DEF Reports, Is, Turns
<1>3. JournalsOK(journal', v)
  BY <1>1, <1>2, EndingOK, EnqueuedOK, WritesOK
<1>4. HandsOK(hand', v)
  <2>1. hand[h].read \cup hand[h].skip = {} /\ hand[h].at # "flush" /\ "ended" \in Plain
    BY <1>1, <1>2, HandParts DEF Plain
  <2>2. HandOK([hand[h] EXCEPT !.at = "ended"], v)
    BY <1>1, <2>1, TurnOK
  <2> QED  BY <1>1, <1>2, <2>2, BecomesOK
<1> QED  BY <1>1, <1>2, <1>3, <1>4, LocalStep DEF v, Before

LEMMA OverStep ==
  ASSUME NEW mint, Before(mint), NEW h \in Hands, Over(h)
  PROVE  After(mint)
<1> DEFINE v == View(mint)
           d == Holder[h]
<1>1. /\ v \in Views /\ HandsOK(hand, v) /\ d \in Devices
      /\ JournalsOK(journal, v) /\ JournalOK(journal[d], v) /\ ScansOK(scan, v)
  BY BeforeParts
<1> HIDE DEF v
<1>2. /\ Writes(d, Settled(h, journal[d])) /\ Release(h)
      /\ UNCHANGED <<vars, scan, stopping, events>>
  BY DEF Over
<1>3. JournalsOK(journal', v)
  BY <1>1, <1>2, SettledOK, WritesOK
<1>4. HandsOK(hand', v) /\ slot' \in [Devices -> Hands \cup {None}]
  BY <1>1, <1>2, ReleaseOK DEF Before
<1>5. Shelf(slot', stopping', events')
  BY <1>2, <1>4 DEF Before, Shelf
<1> QED  BY <1>1, <1>2, <1>3, <1>4, <1>5, LocalStep DEF v

-----------------------------------------------------------------------------
(* A page is written down, under a receipt nobody holds.                   *)

Reminted(v, w, r) ==
  /\ w.described = v.described /\ w.chosen = v.chosen /\ w.frozen = v.frozen
  /\ \A s \in Receipts \ {r} : w.mint[s] = v.mint[s]

LEMMA RemintQueue ==
  ASSUME NEW v, NEW w, NEW r, Reminted(v, w, r), NEW q \in Queues(v), ~Held(r, q)
  PROVE  q \in Queues(w)
<1>1. /\ Len(q) \in Nat /\ DOMAIN q = 1..Len(q)
      /\ \A k \in DOMAIN q : q[k] \in GoodPosts(v)
      /\ q \in [1..Len(q) -> GoodPosts(v)]
  BY QueueOps, LenProperties DEF Queues
<1>2. ASSUME NEW k \in DOMAIN q
      PROVE  q[k] \in GoodPosts(w)
  <2>1. q[k] \in Posts /\ Good(q[k], v)
    BY <1>1 DEF GoodPosts
  <2>2. q[k].kind = "page" => q[k].page.receipt # r
    BY <1>2 DEF Held
  <2> QED  BY <2>1, <2>2 DEF GoodPosts, Good, Reminted
<1>3. q \in [1..Len(q) -> GoodPosts(w)]
  BY <1>1, <1>2
<1> QED  BY <1>1, <1>3, SeqOfFunction DEF Queues

LEMMA PostStep ==
  ASSUME NEW mint, Before(mint), NEW h \in Hands, NEW page \in Pages, NEW earned \in SUBSET Items, NEW state,
         PostPage(h, page, earned, state), page.receipt \in Unused,
         page \in Descriptions => run.frozen /\ page.read \cup page.skip \subseteq Chosen,
         earned \subseteq Described \cup page.read,
         state \in Tasks, state.acked \subseteq Described \cup page.read,
         state.read = {}, state.skip = {}, state.todo \subseteq Chosen,
         state.phase = "describe" \/ state.then = "read" => run.frozen,
         UNCHANGED <<vars, slot, scan, stopping, events>>
  PROVE  \E m \in Minting : After(m)
<1> DEFINE r == page.receipt
           m == [mint EXCEPT ![r] = page.read]
           v == View(mint)
           w == View(m)
           d == Holder[h]
           credit == [phase |-> hand[h].phase, attempt |-> hand[h].attempt, acked |-> earned]
           p == [kind |-> "page", attempt |-> hand[h].attempt, page |-> page, earns |-> credit]
           j == Enqueued(journal[d], p)
           u == [state EXCEPT !.at = "flush", !.queue = j.owed]
<1>0. Writes(d, j) /\ Becomes(h, [state EXCEPT !.at = "flush", !.queue = journal'[d].owed])
  BY DEF PostPage
<1>1. /\ v \in Views /\ Faithful(v) /\ mint \in Minting
      /\ JournalsOK(journal, v) /\ HandsOK(hand, v) /\ ScansOK(scan, v) /\ d \in Devices
      /\ hand[h] \in Tasks
  BY BeforeParts DEF Before, HandOK
<1>2. r \in Receipts /\ r \notin receipts
      /\ (\A e \in Devices : ~Held(r, journal[e].owed) /\ ~Held(r, scan[e].queue))
      /\ (\A g \in Hands : ~Held(r, hand[g].queue))
  BY DEF Unused
<1>3. page.read \in SUBSET Items
  BY DEF Pages, Listings, Descriptions
<1>4. m \in Minting /\ m[r] = page.read /\ \A s \in Receipts \ {r} : m[s] = mint[s]
  BY <1>1, <1>2, <1>3 DEF Minting
<1> HIDE DEF m
<1>5. /\ v.described = Described /\ v.chosen = Chosen /\ v.frozen = run.frozen /\ v.receipts = receipts
      /\ v.mint = mint /\ w.mint = m
      /\ w.described = Described /\ w.chosen = Chosen /\ w.frozen = run.frozen /\ w.receipts = receipts
  BY DEF View
<1>6. w \in Views
  BY <1>1, <1>4, ViewTyped, BeforeParts
<1> HIDE DEF v, w
<1>7. Faithful(w)
  <2>1. receipts \subseteq Receipts
    BY <1>1, <1>5 DEF Views
  <2> HIDE DEF r
  <2> QED  BY <1>1, <1>2, <1>4, <1>5, <1>6, <2>1 DEF Faithful
<1>8. Reminted(v, w, r)
  BY <1>4, <1>5 DEF Reminted
<1> HIDE DEF r
<1>9. JournalsOK(journal, w) /\ HandsOK(hand, w) /\ ScansOK(scan, w)
  <2>1. ASSUME NEW e \in Devices
        PROVE  JournalOK(journal[e], w) /\ ScanOK(scan[e], w)
    <3>1. JournalOK(journal[e], v) /\ ScanOK(scan[e], v)
      BY <1>1 DEF JournalsOK, ScansOK
    <3>2. journal[e].owed \in Queues(w) /\ scan[e].queue \in Queues(w)
      BY <1>2, <1>8, <3>1, RemintQueue DEF JournalOK, ScanOK
    <3> QED  BY <1>5, <3>1, <3>2 DEF JournalOK, ScanOK
  <2>2. ASSUME NEW g \in Hands
        PROVE  HandOK(hand[g], w)
    <3>1. HandOK(hand[g], v)
      BY <1>1 DEF HandsOK
    <3>2. hand[g].queue \in Queues(w)
      BY <1>2, <1>8, <3>1, RemintQueue DEF HandOK
    <3> QED  BY <1>5, <3>1, <3>2 DEF HandOK
  <2> QED  BY <1>1, <2>1, <2>2 DEF JournalsOK, HandsOK, ScansOK
<1>10. credit \in Checkpoints /\ credit.acked = earned
  BY <1>1 DEF Checkpoints, Tasks
<1> HIDE DEF credit
<1>11. p \in GoodPosts(w) /\ p.kind = "page" /\ p.page = page
  <2>1. p \in PagePosts /\ p.kind = "page" /\ p.page = page /\ p.earns = credit
    BY <1>1, <1>10 DEF PagePosts, Tasks
  <2> HIDE DEF p
  <2>2. Good(p, w)
    BY <1>2, <1>4, <1>5, <1>10, <2>1 DEF Good, r
  <2> QED  BY <2>1, <2>2 DEF GoodPosts, Posts
<1> HIDE DEF p
<1>13. JournalOK(journal[d], w) /\ JournalOK(j, w) /\ j.owed # <<>>
  BY <1>1, <1>9, <1>11, EnqueuedOK DEF JournalsOK
<1>14. j.owed = Append(journal[d].owed, p)
  BY <1>13 DEF Enqueued, JournalOK, Journals
<1>15. page.read \subseteq Reads(j.owed)
  <2>1. journal[d].owed \in Seq(Posts)
    BY <1>13 DEF JournalOK, Journals
  <2>2. /\ Len(journal[d].owed) + 1 \in DOMAIN j.owed
        /\ j.owed[Len(journal[d].owed) + 1] = p
    BY <1>14, <2>1
  <2> HIDE DEF j
  <2> QED  BY <1>11, <2>2 DEF Reads
<1> HIDE DEF j
<1>16. JournalsOK(journal', w) /\ journal'[d] = j
  BY <1>0, <1>1, <1>9, <1>13, WritesOK DEF Writes, JournalsOK
<1>17. Becomes(h, u)
  BY <1>0, <1>16
<1>18. HandOK(u, w)
  <2>1. j.owed \in Seq(Posts) /\ j.owed \in Queues(w)
    BY <1>13 DEF JournalOK, Journals
  <2>2. /\ u \in Tasks /\ u.at = "flush" /\ u.queue = j.owed /\ u.acked = state.acked
        /\ u.phase = state.phase /\ u.then = state.then /\ u.todo = state.todo
        /\ u.read = {} /\ u.skip = {}
    BY <2>1 DEF Tasks
  <2> HIDE DEF u
  <2> QED  BY <1>5, <1>13, <1>15, <2>1, <2>2 DEF HandOK
<1> HIDE DEF u
<1>19. HandsOK(hand', w)
  BY <1>9, <1>17, <1>18, BecomesOK
<1>20. View(m)' = w
  BY DEF w, View, vars, Described, Chosen
<1>21. Sound(journal', hand', scan', View(m)')
  BY <1>7, <1>9, <1>16, <1>19, <1>20 DEF Sound
<1>22. After(m)
  BY <1>21 DEF After, Before
<1> QED  BY <1>4, <1>22

LEMMA MintedFresh ==
  Unused # {} => Minted \in Unused /\ Minted \in Receipts
<1>1. Unused \subseteq Receipts
  BY DEF Unused
<1> QED  BY <1>1 DEF Minted

\* A page that lists a shop, and one that describes what was read since the last.
LEMMA ListingPage ==
  ASSUME Unused # {}, NEW shop \in SUBSET Items
  PROVE  /\ ListingOf(shop) \in Pages /\ ListingOf(shop) \notin Descriptions
         /\ ListingOf(shop).receipt \in Unused /\ ListingOf(shop).read = {}
<1>1. Minted \in Unused /\ Minted \in Receipts
  BY MintedFresh
<1> QED  BY <1>1 DEF ListingOf, Pages, Listings, Descriptions

LEMMA DescriptionPage ==
  ASSUME Unused # {}, NEW read \in SUBSET Items, NEW skip \in SUBSET Items, read \cap skip = {},
         NEW complete \in BOOLEAN
  PROVE  /\ DescriptionOf(read, skip, complete) \in Pages
         /\ DescriptionOf(read, skip, complete).read = read
         /\ DescriptionOf(read, skip, complete).skip = skip
         /\ DescriptionOf(read, skip, complete).receipt \in Unused
<1>1. Minted \in Unused /\ Minted \in Receipts
  BY MintedFresh
<1> QED  BY <1>1 DEF DescriptionOf, Pages, Descriptions

LEMMA WalkStep ==
  ASSUME NEW mint, Before(mint), NEW h \in Hands, post_listing(h)
  PROVE  \E m \in Minting : After(m)
<1>1. PICK shop \in SUBSET Items :
        PostPage(h, ListingOf(shop), {}, [hand[h] EXCEPT !.then = "over"])
  BY DEF post_listing
<1> DEFINE page == ListingOf(shop)
           t == hand[h]
           state == [t EXCEPT !.then = "over"]
<1>2. t.at = "walk" /\ UNCHANGED <<vars, slot, scan, stopping, events>>
  BY DEF post_listing, Is
<1>3. HandOK(t, View(mint)) /\ View(mint).described = Described /\ View(mint).chosen = Chosen
      /\ View(mint).frozen = run.frozen
  BY BeforeParts DEF View
<1>4. /\ t \in Tasks /\ t.acked \subseteq Described /\ t.read = {} /\ t.skip = {}
      /\ t.todo \subseteq Chosen /\ (t.phase = "describe" => run.frozen)
  BY <1>2, <1>3, HandParts
<1>5. page \in Pages /\ page \notin Descriptions /\ page.receipt \in Unused /\ page.read = {}
  BY <1>1, ListingPage DEF PostPage
<1> HIDE DEF page, t
<1>6. /\ state \in Tasks /\ state.acked = t.acked /\ state.read = {} /\ state.skip = {}
      /\ state.todo = t.todo /\ state.phase = t.phase /\ state.then = "over"
  BY <1>4 DEF Tasks
<1>7. PostPage(h, page, {}, state)
  BY <1>1 DEF page, t
<1> HIDE DEF state
<1>8. {} \in SUBSET Items /\ {} \subseteq Described \cup page.read
  OBVIOUS
<1> QED  BY <1>2, <1>4, <1>5, <1>6, <1>7, <1>8, PostStep

\* A hand that is reading knows only what the selection answered for.
LEMMA Reading ==
  ASSUME NEW mint, Before(mint), NEW h \in Hands, hand[h].at = "read"
  PROVE  /\ hand[h] \in Tasks /\ hand[h].queue = <<>> /\ hand[h].acked \subseteq Described
         /\ hand[h].todo \subseteq Chosen /\ hand[h].read \subseteq Chosen /\ hand[h].skip \subseteq Chosen
         /\ hand[h].read \cap hand[h].skip = {}
         /\ hand[h].todo \cap (hand[h].read \cup hand[h].skip) = {}
         /\ hand[h].todo = {} => hand[h].read = {} /\ hand[h].skip = {}
         /\ run.frozen
<1>1. HandOK(hand[h], View(mint)) /\ View(mint).described = Described /\ View(mint).chosen = Chosen
      /\ View(mint).frozen = run.frozen
  BY BeforeParts DEF View
<1> QED  BY <1>1 DEF HandOK, Reads

\* What a reading hand posts: a description of what it read, and what it goes on
\* with holds no more of it.
LEMMA DescribeStep ==
  ASSUME NEW mint, Before(mint), NEW h \in Hands, hand[h].at = "read",
         NEW read \in SUBSET Chosen, NEW skip \in SUBSET Chosen, read \cap skip = {},
         NEW complete \in BOOLEAN, NEW state \in Tasks,
         PostPage(h, DescriptionOf(read, skip, complete), hand[h].acked \cup read, state),
         state.acked \subseteq hand[h].acked \cup read, state.read = {}, state.skip = {},
         state.todo \subseteq hand[h].todo,
         UNCHANGED <<vars, slot, scan, stopping, events>>
  PROVE  \E m \in Minting : After(m)
<1> DEFINE page == DescriptionOf(read, skip, complete)
           earned == hand[h].acked \cup read
<1>1. /\ hand[h] \in Tasks /\ hand[h].acked \subseteq Described /\ hand[h].todo \subseteq Chosen
      /\ run.frozen
  BY Reading
<1>2. Unused # {} /\ PostPage(h, page, earned, state)
  BY DEF PostPage
<1>3. read \in SUBSET Items /\ skip \in SUBSET Items
  BY DEF Chosen
<1>4. page \in Pages /\ page.read = read /\ page.skip = skip /\ page.receipt \in Unused
  BY <1>2, <1>3, DescriptionPage
<1>5. earned \in SUBSET Items /\ earned \subseteq Described \cup page.read
      /\ state.acked \subseteq Described \cup page.read
  BY <1>1, <1>3, <1>4 DEF Described
<1> HIDE DEF page, earned
<1> QED  BY <1>1, <1>2, <1>4, <1>5, PostStep

LEMMA NothingLeftStep ==
  ASSUME NEW mint, Before(mint), NEW h \in Hands, NothingLeft(h)
  PROVE  \E m \in Minting : After(m)
<1> DEFINE t == hand[h]
           state == [t EXCEPT !.then = "over"]
<1>1. /\ t.at = "read" /\ t.todo = {} /\ UNCHANGED <<vars, slot, scan, stopping, events>>
      /\ PostPage(h, DescriptionOf({}, {}, TRUE), t.acked, state)
  BY DEF NothingLeft, Is
<1>3. t \in Tasks /\ t.read = {} /\ t.skip = {}
  BY <1>1, Reading
<1> HIDE DEF t
<1>4. state \in Tasks /\ state.acked = t.acked /\ state.read = {} /\ state.skip = {} /\ state.todo = t.todo
  BY <1>3 DEF Tasks
<1> HIDE DEF state
<1>5. /\ t.acked \cup {} = t.acked /\ state.acked \subseteq t.acked \cup {} /\ state.todo \subseteq t.todo
      /\ {} \in SUBSET Chosen /\ {} \cap {} = {} /\ TRUE \in BOOLEAN
  BY <1>4
<1>6. PostPage(h, DescriptionOf({}, {}, TRUE), t.acked \cup {}, state)
  BY <1>1, <1>5
<1> QED  BY <1>1, <1>4, <1>5, <1>6, DescribeStep DEF t

LEMMA LapsedStep ==
  ASSUME NEW mint, Before(mint), NEW h \in Hands, Lapsed(h)
  PROVE  \E m \in Minting : After(m)
<1> DEFINE t == hand[h]
           state == [t EXCEPT !.read = {}, !.skip = {}, !.then = "ending"]
           v == View(mint)
<1>1. t.at = "read" /\ UNCHANGED <<vars, slot, scan, stopping, events>> /\ mint \in Minting
  BY DEF Lapsed, Is, Before
<1>2. t \in Tasks /\ t.read \in SUBSET Chosen /\ t.skip \in SUBSET Chosen /\ t.read \cap t.skip = {}
  BY <1>1, Reading
<1>3. CASE t.read \cup t.skip = {}
  <2>1. Becomes(h, [t EXCEPT !.at = "ending"]) /\ UNCHANGED journal
    BY <1>3 DEF Lapsed, Turns
  <2>2. HandOK(t, v) /\ HandsOK(hand, v) /\ JournalsOK(journal, v) /\ ScansOK(scan, v)
    BY BeforeParts
  <2> HIDE DEF t, v
  <2>3. t.at # "flush" /\ "ending" \in Plain
    BY <1>1 DEF Plain
  <2>4. HandOK([t EXCEPT !.at = "ending"], v)
    BY <1>3, <2>2, <2>3, TurnOK
  <2>5. HandsOK(hand', v)
    BY <2>1, <2>2, <2>4, BecomesOK
  <2> QED  BY <1>1, <2>1, <2>2, <2>5, LocalStep DEF v, Before
<1>4. CASE t.read \cup t.skip # {}
  <2>1. PostPage(h, DescriptionOf(t.read, t.skip, FALSE), t.acked \cup t.read, state)
    BY <1>4 DEF Lapsed
  <2> HIDE DEF t
  <2>3. state \in Tasks /\ state.acked = t.acked /\ state.read = {} /\ state.skip = {} /\ state.todo = t.todo
    BY <1>2 DEF Tasks
  <2> HIDE DEF state
  <2> QED  BY <1>1, <1>2, <2>1, <2>3, DescribeStep DEF t
<1> QED  BY <1>3, <1>4

LEMMA ReadStep ==
  ASSUME NEW mint, Before(mint), NEW h \in Hands, NEW i \in Items, Read(h, i)
  PROVE  \E m \in Minting : After(m)
<1> DEFINE t == hand[h]
           v == View(mint)
           last == t.todo = {i}
           now(ok) == [t EXCEPT !.todo = @ \ {i},
                         !.read = IF ok THEN @ \cup {i} ELSE @, !.skip = IF ok THEN @ ELSE @ \cup {i},
                         !.described = @ \/ ok, !.skipped = @ \/ ~ok]
           nothing(ok) == now(ok).skipped /\ ~now(ok).described
           next(ok) == CASE ~last -> "read" [] last /\ nothing(ok) -> "ending" [] OTHER -> "over"
           state(ok) == [now(ok) EXCEPT !.acked = @ \cup now(ok).read, !.read = {}, !.skip = {},
                           !.then = next(ok)]
<1>1. /\ t.at = "read" /\ i \in t.todo /\ UNCHANGED <<vars, slot, scan, stopping, events>>
      /\ mint \in Minting
  BY DEF Read, Is, Before
<1>2. PICK ok \in BOOLEAN, due \in BOOLEAN :
        IF last \/ due
        THEN PostPage(h, DescriptionOf(now(ok).read, now(ok).skip, last /\ ~nothing(ok)),
                      t.acked \cup now(ok).read, state(ok))
        ELSE Becomes(h, now(ok)) /\ UNCHANGED journal
  BY DEF Read
<1>3. /\ t \in Tasks /\ t.queue = <<>> /\ t.acked \subseteq Described
      /\ t.todo \subseteq Chosen /\ t.read \subseteq Chosen /\ t.skip \subseteq Chosen
      /\ t.read \cap t.skip = {} /\ t.todo \cap (t.read \cup t.skip) = {} /\ run.frozen
  BY <1>1, Reading
<1> DEFINE u == now(ok)
           s == state(ok)
           go == next(ok)
           all == last /\ ~nothing(ok)
<1>4. all \in BOOLEAN /\ go \in {"read", "ending", "over"}
  OBVIOUS
<1>5. /\ u = [t EXCEPT !.todo = t.todo \ {i}, !.read = IF ok THEN t.read \cup {i} ELSE t.read,
                       !.skip = IF ok THEN t.skip ELSE t.skip \cup {i},
                       !.described = t.described \/ ok, !.skipped = t.skipped \/ ~ok]
      /\ s = [u EXCEPT !.acked = u.acked \cup u.read, !.read = {}, !.skip = {}, !.then = go]
  OBVIOUS
<1>6. IF last \/ due
      THEN PostPage(h, DescriptionOf(u.read, u.skip, all), t.acked \cup u.read, s)
      ELSE Becomes(h, u) /\ UNCHANGED journal
  BY <1>2
<1> HIDE DEF u, s, go, all, last, now, nothing, next, state
<1> DEFINE left == t.todo \ {i}
           read == IF ok THEN t.read \cup {i} ELSE t.read
           skip == IF ok THEN t.skip ELSE t.skip \cup {i}
           described == t.described \/ ok
           skipped == t.skipped \/ ~ok
<1>7. /\ left \in SUBSET Items /\ read \in SUBSET Items /\ skip \in SUBSET Items
      /\ described \in BOOLEAN /\ skipped \in BOOLEAN
  BY <1>3 DEF Tasks
<1> HIDE DEF t
<1>8. /\ u \in Tasks /\ u.at = t.at /\ u.queue = t.queue /\ u.phase = t.phase /\ u.then = t.then
      /\ u.acked = t.acked /\ u.todo = left /\ u.read = read /\ u.skip = skip
  <2>1. u = [t EXCEPT !.todo = left, !.read = read, !.skip = skip,
                      !.described = described, !.skipped = skipped]
    BY <1>5
  <2> HIDE DEF left, read, skip, described, skipped
  <2> QED  BY <1>3, <1>7, <2>1 DEF Tasks
<1>9. /\ u.read \in SUBSET Chosen /\ u.skip \in SUBSET Chosen /\ u.read \cap u.skip = {}
      /\ u.todo \cap (u.read \cup u.skip) = {} /\ u.todo \subseteq t.todo
  BY <1>1, <1>3, <1>8
<1>10. CASE last \/ due
  <2>1. s \in Tasks /\ s.acked = t.acked \cup u.read /\ s.read = {} /\ s.skip = {} /\ s.todo = u.todo
    <3> DEFINE acked == u.acked \cup u.read
    <3>1. acked \in SUBSET Items
      BY <1>8 DEF Tasks
    <3>2. s = [u EXCEPT !.acked = acked, !.read = {}, !.skip = {}, !.then = go]
      BY <1>5
    <3>3. acked = t.acked \cup u.read /\ u \in Tasks
      BY <1>8
    <3> HIDE DEF acked
    <3> QED  BY <1>4, <3>1, <3>2, <3>3 DEF Tasks
  <2>2. PostPage(h, DescriptionOf(u.read, u.skip, all), t.acked \cup u.read, s)
    BY <1>6, <1>10
  <2> QED  BY <1>1, <1>4, <1>9, <2>1, <2>2, DescribeStep DEF t
<1>11. CASE ~(last \/ due)
  <2>1. Becomes(h, u) /\ UNCHANGED journal
    BY <1>6, <1>11
  <2>2. HandOK(t, v) /\ HandsOK(hand, v) /\ JournalsOK(journal, v) /\ ScansOK(scan, v)
        /\ Shelf(slot, stopping, events)
    BY BeforeParts DEF t, Before
  <2>3. t.todo # {i} /\ u.todo # {}
    BY <1>1, <1>8, <1>11 DEF last
  <2>4. v.chosen = Chosen /\ v.frozen = run.frozen
    BY DEF View
  <2> HIDE DEF v
  <2>5. HandOK(u, v)
    BY <1>1, <1>3, <1>8, <1>9, <2>2, <2>3, <2>4 DEF HandOK
  <2>6. HandsOK(hand', v)
    BY <2>1, <2>2, <2>5, BecomesOK
  <2> QED  BY <1>1, <2>1, <2>2, <2>6, LocalStep DEF v, Before
<1> QED  BY <1>10, <1>11

-----------------------------------------------------------------------------
(* The steps that a server answers.                                        *)

LEMMA ClaimOnward ==
  ASSUME NEW mint, Before(mint), NEW d \in Devices, NEW takeover \in BOOLEAN, claim(d, takeover)
  PROVE  [Next]_vars /\ Onward(mint) /\ run'.attempt \in 0..MaxAttempts
<1>1. Next
  BY DEF Next, Device
<1>2. TypeOK /\ TypeOK' /\ Faithful(View(mint)) /\ mint \in Minting
  BY <1>1, BeforeParts, InvStep DEF Before, Inv
<1>3. UNCHANGED <<item, receipts>> /\ run'.frozen = run.frozen
  BY <1>2, FencedSteps
<1>4. run' \in Runs
  BY <1>2, TypeOKNext
<1> QED  BY <1>1, <1>2, <1>3, <1>4, QuietGrows DEF Runs

LEMMA ClaimStep ==
  ASSUME NEW mint, Before(mint), NEW h \in Hands, Claim(h)
  PROVE  After(mint)
<1> DEFINE t == hand[h]
           d == Holder[h]
           v == View(mint)
           w == View(mint)'
           u == [t EXCEPT !.at = "owes", !.takeover = FALSE, !.attempt = run'.attempt]
<1>1. d \in Devices /\ t.at = "claim" /\ UNCHANGED <<journal, scan, stopping>> /\ HandOK(t, v)
  BY BeforeParts DEF Claim, Is
<1>2. t.takeover \in BOOLEAN
  BY <1>1 DEF HandOK, Tasks
<1>3. CASE claim(d, t.takeover)
  <2>1. [Next]_vars /\ Onward(mint) /\ run'.attempt \in 0..MaxAttempts
    BY <1>1, <1>2, <1>3, ClaimOnward
  <2>2. /\ w \in Views /\ JournalsOK(journal, w) /\ HandsOK(hand, w) /\ ScansOK(scan, w)
    BY <2>1, Grown
  <2>3. JournalsOK(journal', w) /\ ScansOK(scan', w) /\ HandOK(t, w)
    BY <1>1, <2>2 DEF HandsOK
  <2> HIDE DEF v, w
  <2>4. \/ Becomes(h, u) /\ UNCHANGED <<slot, events>>
        \/ Faulty /\ Release(h)
        \/ Release(h) /\ UNCHANGED events
    BY DEF Claim
  <2>5. HandOK(u, w)
    <3>1. /\ t \in Tasks /\ t.queue = <<>> /\ t.acked \subseteq w.described /\ t.read = {} /\ t.skip = {}
          /\ t.todo \subseteq w.chosen /\ (t.phase = "describe" \/ t.then = "read" => w.frozen)
      BY <1>1, <2>3, HandParts
    <3> DEFINE a == run'.attempt
    <3>2. a \in 0..MaxAttempts /\ u = [t EXCEPT !.at = "owes", !.takeover = FALSE, !.attempt = a]
      BY <2>1
    <3> HIDE DEF t, u, a
    <3>3. /\ u \in Tasks /\ u.at = "owes" /\ u.queue = t.queue /\ u.acked = t.acked /\ u.read = t.read
          /\ u.skip = t.skip /\ u.todo = t.todo /\ u.phase = t.phase /\ u.then = t.then
      BY <3>1, <3>2 DEF Tasks
    <3> QED  BY <3>1, <3>3, PlainHand DEF Plain
  <2>6. HandsOK(hand', w) /\ Shelf(slot', stopping', events')
    <3>1. CASE Becomes(h, u) /\ UNCHANGED <<slot, events>>
      BY <1>1, <2>2, <2>5, <3>1, BecomesOK DEF Before
    <3>2. CASE Release(h) /\ (Faulty \/ UNCHANGED events)
      <4>1. HandsOK(hand', w) /\ slot' \in [Devices -> Hands \cup {None}]
        BY <2>2, <3>2, ReleaseOK DEF Before
      <4> QED  BY <1>1, <3>2, <4>1 DEF Before, Shelf, Faulty
    <3> QED  BY <2>4, <3>1, <3>2
  <2> QED  BY <2>1, <2>3, <2>6, ServedStep DEF w
<1>4. CASE Release(h) /\ UNCHANGED <<vars, events>>
  <2>1. v \in Views /\ HandsOK(hand, v) /\ JournalsOK(journal, v) /\ ScansOK(scan, v)
    BY BeforeParts
  <2> HIDE DEF v
  <2>2. HandsOK(hand', v) /\ slot' \in [Devices -> Hands \cup {None}]
    BY <1>4, <2>1, ReleaseOK DEF Before
  <2>3. Shelf(slot', stopping', events')
    BY <1>1, <1>4, <2>2 DEF Before, Shelf
  <2> QED  BY <1>1, <1>4, <2>1, <2>2, <2>3, LocalStep DEF v
<1> QED  BY <1>3, <1>4 DEF Claim

\* The post at the head of a hand's queue, and the hand when it was taken.
LEMMA HeadPost ==
  ASSUME NEW v, NEW t, HandOK(t, v), t.at = "flush"
  PROVE  /\ t.queue # <<>> /\ t.queue \in Seq(Posts) /\ Head(t.queue) \in GoodPosts(v)
         /\ Tail(t.queue) \in Queues(v) /\ Tail(t.queue) \in Seq(Posts)
         /\ Under(Head(t.queue), t.attempt) \in GoodPosts(v)
         /\ Under(Head(t.queue), t.attempt).kind = Head(t.queue).kind
         /\ Under(Head(t.queue), t.attempt).page = Head(t.queue).page
<1>1. t \in Tasks /\ t.queue \in Seq(GoodPosts(v)) /\ t.queue # <<>>
  BY DEF HandOK, Queues
<1>2. t.queue \in Seq(Posts) /\ t.attempt \in 0..MaxAttempts
  BY <1>1 DEF Tasks
<1>3. /\ Head(t.queue) \in GoodPosts(v) /\ Tail(t.queue) \in Seq(GoodPosts(v))
      /\ Tail(t.queue) \in Seq(Posts)
  BY <1>1, <1>2, QueueOps
<1> QED  BY <1>1, <1>2, <1>3, UnderOK DEF Queues

LEMMA NextOffer ==
  ASSUME NEW v, NEW t, HandOK(t, v), t.at = "flush",
         Head(t.queue).kind = "page" => Head(t.queue).page.read \subseteq v.described,
         NEW at, at = IF Len(t.queue) = 1 THEN t.then ELSE "flush"
  PROVE  HandOK([t EXCEPT !.at = at, !.queue = Tail(@)], v)
<1> DEFINE q == Tail(t.queue)
           u == [t EXCEPT !.at = at, !.queue = q]
<1>1. /\ t.queue # <<>> /\ t.queue \in Seq(Posts) /\ q \in Queues(v) /\ q \in Seq(Posts)
  BY HeadPost
<1>2. Reads(t.queue) \subseteq v.described \cup Reads(q)
  BY <1>1, ReadsTail
<1>3. Len(t.queue) = 1 <=> q = <<>>
  <2>1. Len(t.queue) \in Nat /\ Len(q) = Len(t.queue) - 1
    BY <1>1, LenProperties, HeadTailProperties
  <2>2. Len(q) = 0 <=> q = <<>>
    BY <1>1, EmptySeq
  <2> HIDE DEF q
  <2> QED  BY <2>1, <2>2
<1>4. /\ t \in Tasks /\ t.acked \subseteq v.described \cup Reads(t.queue)
      /\ t.phase = "describe" \/ t.then = "read" => v.frozen
      /\ t.todo \cup t.read \cup t.skip \subseteq v.chosen
      /\ t.read = {} /\ t.skip = {}
  BY DEF HandOK
<1>5. at \in {"ready", "keep", "read", "ending", "over", "flush"} /\ (at = "read" => t.then = "read")
      /\ (at = "flush" <=> Len(t.queue) # 1) /\ at # "select"
  BY <1>4 DEF Tasks
<1> HIDE DEF q
<1>6. /\ u \in Tasks /\ u.at = at /\ u.queue = q /\ u.acked = t.acked /\ u.phase = t.phase
      /\ u.then = t.then /\ u.todo = t.todo /\ u.read = t.read /\ u.skip = t.skip
  BY <1>1, <1>4, <1>5 DEF Tasks
<1> HIDE DEF u
<1>7. HandOK(u, v)
  BY <1>1, <1>2, <1>3, <1>4, <1>5, <1>6 DEF HandOK
<1> QED  BY <1>7 DEF u, q

LEMMA OfferStep ==
  ASSUME NEW mint, Before(mint), NEW h \in Hands, Offer(h)
  PROVE  After(mint)
<1> DEFINE t == hand[h]
           d == Holder[h]
           v == View(mint)
           w == View(mint)'
           p == Under(Head(t.queue), t.attempt)
           at == IF Len(t.queue) = 1 THEN t.then ELSE "flush"
           last == [t EXCEPT !.at = "ending", !.queue = <<>>, !.acked = {}]
<1>1. d \in Devices /\ t.at = "flush" /\ UNCHANGED <<scan, stopping>> /\ HandOK(t, v)
      /\ Inv /\ mint \in Minting /\ Faithful(v) /\ events \in Nat
  BY BeforeParts DEF Offer, Is, Before, Shelf
<1>2. p \in GoodPosts(v) /\ p.kind = Head(t.queue).kind /\ p.page = Head(t.queue).page
  BY <1>1, HeadPost
<1>3. PICK answer \in AllAnswers :
        /\ Sends(d, p, answer)
        /\ Writes(d, Answered(journal[d], p, answer))
        /\ CASE answer = "ok" /\ p.kind # "ending" ->
                  Becomes(h, [t EXCEPT !.at = at, !.queue = Tail(@)]) /\ UNCHANGED slot
             [] answer = "rejected" /\ p.kind = "page" -> Becomes(h, last) /\ UNCHANGED slot
             [] OTHER -> Release(h)
  BY DEF Offer
<1>4. /\ [Next]_vars /\ Onward(mint) /\ events' \in Nat
      /\ answer = "ok" /\ p.kind = "page" => p.page.read \subseteq Described'
  BY <1>1, <1>2, <1>3, Exchange
<1>5. w \in Views /\ JournalsOK(journal, w) /\ HandsOK(hand, w) /\ ScansOK(scan, w)
  BY <1>4, Grown
<1>6. p \in GoodPosts(w) /\ w.described = Described'
  <2>1. Grows(v, w)
    BY <1>4 DEF Onward
  <2> QED  BY <1>2, <2>1, QueuesGrow DEF View
<1>7. ScansOK(scan', w) /\ HandOK(t, w) /\ JournalOK(journal[d], w)
  BY <1>1, <1>5 DEF HandsOK, JournalsOK
<1> HIDE DEF v, w, p, t, d
<1>8. JournalsOK(journal', w)
  <2>1. JournalOK(Answered(journal[d], p, answer), w)
    BY <1>4, <1>5, <1>6, <1>7, AnsweredOK
  <2> QED  BY <1>1, <1>3, <1>5, <2>1, WritesOK
<1>9. CASE answer = "ok" /\ p.kind # "ending"
  <2>1. HandOK([t EXCEPT !.at = at, !.queue = Tail(@)], w)
    BY <1>1, <1>2, <1>4, <1>6, <1>7, <1>9, NextOffer
  <2>2. Becomes(h, [t EXCEPT !.at = at, !.queue = Tail(@)]) /\ UNCHANGED slot
    BY <1>3, <1>9
  <2>3. HandsOK(hand', w)
    BY <1>5, <2>1, <2>2, BecomesOK
  <2>4. Shelf(slot', stopping', events')
    BY <1>1, <1>4, <2>2 DEF Before, Shelf
  <2> QED  BY <1>4, <1>7, <1>8, <2>3, <2>4, ServedStep DEF w
<1>10. CASE answer = "rejected" /\ p.kind = "page"
  <2>1. Becomes(h, last) /\ UNCHANGED slot
    BY <1>3, <1>10
  <2>2. HandOK(last, w)
    <3>1. /\ t \in Tasks /\ t.todo \subseteq w.chosen /\ t.read = {} /\ t.skip = {}
          /\ t.phase = "describe" \/ t.then = "read" => w.frozen
      BY <1>1, <1>7 DEF HandOK
    <3>2. /\ last \in Tasks /\ last.at = "ending" /\ last.queue = <<>> /\ last.acked = {}
          /\ last.phase = t.phase /\ last.then = t.then /\ last.todo = t.todo
          /\ last.read = t.read /\ last.skip = t.skip
      <4>1. {} \in SUBSET Items /\ <<>> \in Seq(Posts)
        BY EmptySeq
      <4> QED  BY <3>1, <4>1 DEF Tasks
    <3> HIDE DEF last
    <3> QED  BY <3>1, <3>2, PlainHand DEF Plain
  <2>3. HandsOK(hand', w)
    BY <1>5, <2>1, <2>2, BecomesOK
  <2>4. Shelf(slot', stopping', events')
    BY <1>1, <1>4, <2>1 DEF Before, Shelf
  <2> QED  BY <1>4, <1>7, <1>8, <2>3, <2>4, ServedStep DEF w
<1>11. CASE Release(h)
  <2>1. HandsOK(hand', w) /\ slot' \in [Devices -> Hands \cup {None}]
    BY <1>5, <1>11, ReleaseOK DEF Before
  <2>2. Shelf(slot', stopping', events')
    BY <1>1, <1>4, <2>1 DEF Before, Shelf
  <2> QED  BY <1>4, <1>7, <1>8, <2>1, <2>2, ServedStep DEF w
<1> QED  BY <1>3, <1>9, <1>10, <1>11

LEMMA EndedStep ==
  ASSUME NEW mint, Before(mint), NEW h \in Hands, Ended(h)
  PROVE  After(mint)
<1> DEFINE d == Holder[h]
           v == View(mint)
           w == View(mint)'
           p == Ending(h)
<1>1. d \in Devices /\ Release(h) /\ UNCHANGED <<scan, stopping>> /\ HandOK(hand[h], v)
      /\ Inv /\ mint \in Minting /\ Faithful(v) /\ events \in Nat
  BY BeforeParts DEF Ended, Before, Shelf
<1>2. p \in GoodPosts(v) /\ p.kind = "ending"
  BY <1>1, EndingOK
<1>3. PICK answer \in AllAnswers :
        Sends(d, p, answer) /\ Writes(d, Settled(h, Answered(journal[d], p, answer)))
  BY DEF Ended
<1>4. [Next]_vars /\ Onward(mint) /\ events' \in Nat
  BY <1>1, <1>2, <1>3, Exchange
<1>5. w \in Views /\ JournalsOK(journal, w) /\ HandsOK(hand, w) /\ ScansOK(scan, w)
  BY <1>4, Grown
<1>6. p \in GoodPosts(w)
  <2>1. Grows(v, w)
    BY <1>4 DEF Onward
  <2> QED  BY <1>2, <2>1, QueuesGrow
<1>7. ScansOK(scan', w) /\ JournalOK(journal[d], w)
  BY <1>1, <1>5 DEF JournalsOK
<1> HIDE DEF v, w, p, d
<1>8. JournalsOK(journal', w)
  <2>1. JournalOK(Answered(journal[d], p, answer), w)
    BY <1>2, <1>5, <1>6, <1>7, AnsweredOK
  <2>2. JournalOK(Settled(h, Answered(journal[d], p, answer)), w)
    BY <1>5, <2>1, SettledOK
  <2> QED  BY <1>1, <1>3, <1>5, <2>2, WritesOK
<1>9. HandsOK(hand', w) /\ slot' \in [Devices -> Hands \cup {None}]
  BY <1>1, <1>5, ReleaseOK DEF Before
<1>10. Shelf(slot', stopping', events')
  BY <1>1, <1>4, <1>9 DEF Before, Shelf
<1> QED  BY <1>4, <1>7, <1>8, <1>9, <1>10, ServedStep DEF w

-----------------------------------------------------------------------------
(* The stop and the scan.                                                  *)

LEMMA CancelStep ==
  ASSUME NEW mint, Before(mint), NEW d \in Devices, cancel(d)
  PROVE  After(mint)
<1> DEFINE v == View(mint)
           h == slot[d]
           t == hand[h]
           u == [t EXCEPT !.cancelled = TRUE]
<1>1. /\ JournalsOK(journal, v) /\ HandsOK(hand, v) /\ ScansOK(scan, v) /\ Shelf(slot, stopping, events)
  BY BeforeParts DEF Before
<1>2. UNCHANGED <<vars, journal, scan>> /\ events' = events + 1
  BY DEF cancel
<1>3. h \in Hands \cup {None} /\ slot' = [slot EXCEPT ![d] = None]
  BY <1>1 DEF cancel, Shelf
<1> HIDE DEF v
<1>4. HandsOK(hand', v)
  <2>1. CASE h = None
    BY <1>1, <2>1 DEF cancel
  <2>2. CASE h # None
    <3>1. h \in Hands /\ Becomes(h, u)
      BY <1>3, <2>2 DEF cancel
    <3>2. HandOK(t, v)
      BY <1>1, <3>1 DEF HandsOK
    <3> HIDE DEF h, t
    <3>3. HandOK(u, v)
      <4>1. /\ u \in Tasks /\ u.at = t.at /\ u.queue = t.queue /\ u.acked = t.acked /\ u.phase = t.phase
            /\ u.then = t.then /\ u.todo = t.todo /\ u.read = t.read /\ u.skip = t.skip
        BY <3>2 DEF HandOK, Tasks
      <4> HIDE DEF u
      <4> QED  BY <3>2, <4>1 DEF HandOK
    <3> QED  BY <1>1, <3>1, <3>3, BecomesOK
  <2> QED  BY <2>1, <2>2
<1>5. stopping' \in [Devices -> {None} \cup Stops]
  <2> DEFINE held == IF h = None \/ ~hand[h].working THEN None ELSE hand[h].attempt
  <2>1. held \in 0..MaxAttempts \cup {None}
    BY <1>1, <1>3 DEF HandsOK, Tasks
  <2>2. stopping' = [stopping EXCEPT ![d] = [id |-> events, marked |-> FALSE, held |-> held]]
    BY DEF cancel
  <2> HIDE DEF held
  <2> QED  BY <1>1, <2>1, <2>2 DEF Shelf, Stops
<1>6. Shelf(slot', stopping', events')
  <2>1. slot' \in [Devices -> Hands \cup {None}] /\ events' \in Nat
    BY <1>1, <1>2, <1>3 DEF Shelf
  <2> QED  BY <1>5, <2>1 DEF Shelf
<1> QED  BY <1>1, <1>2, <1>4, <1>6, LocalStep DEF v

LEMMA MarksStep ==
  ASSUME NEW mint, Before(mint), NEW d \in Devices, Marks(d)
  PROVE  After(mint)
<1> DEFINE v == View(mint)
           j == journal[d]
           marked == [j EXCEPT !.stopped = TRUE]
<1>1. /\ JournalsOK(journal, v) /\ HandsOK(hand, v) /\ ScansOK(scan, v) /\ Shelf(slot, stopping, events)
      /\ JournalOK(j, v)
  BY BeforeParts DEF Before
<1>2. /\ UNCHANGED <<vars, slot, hand, scan, events>> /\ stopping[d] # None
      /\ stopping' = [stopping EXCEPT ![d].marked = TRUE] /\ Writes(d, marked)
  BY DEF Marks
<1> HIDE DEF v, j
<1>3. JournalOK(marked, v)
  BY <1>1 DEF JournalOK, Journals
<1> HIDE DEF marked
<1>4. JournalsOK(journal', v)
  BY <1>1, <1>2, <1>3, WritesOK
<1>5. Shelf(slot', stopping', events')
  <2>1. stopping[d] \in Stops
    BY <1>1, <1>2 DEF Shelf
  <2>2. stopping' \in [Devices -> {None} \cup Stops]
    BY <1>1, <1>2, <2>1 DEF Shelf, Stops
  <2> QED  BY <1>1, <1>2, <2>2 DEF Shelf
<1> QED  BY <1>1, <1>2, <1>4, <1>5, LocalStep DEF v

LEMMA AbandonsStep ==
  ASSUME NEW mint, Before(mint), NEW d \in Devices, Abandons(d)
  PROVE  After(mint)
<1> DEFINE v == View(mint)
           j == journal[d]
           id == stopping[d].id
           held == stopping[d].held
           attempt == IF held # None THEN held ELSE IF j.kept # None THEN j.kept.attempt ELSE None
           p == [kind |-> "stop", id |-> id, attempt |-> attempt, page |-> None, earns |-> None]
<1>1. /\ JournalsOK(journal, v) /\ HandsOK(hand, v) /\ ScansOK(scan, v) /\ Shelf(slot, stopping, events)
      /\ JournalOK(j, v)
  BY BeforeParts DEF Before
<1>2. /\ UNCHANGED <<vars, slot, hand, scan, events>> /\ stopping[d] # None
      /\ stopping' = [stopping EXCEPT ![d] = None]
      /\ Writes(d, IF attempt = None THEN j ELSE Enqueued(j, p))
  BY DEF Abandons
<1>3. id \in Nat /\ (attempt # None => attempt \in 0..MaxAttempts)
  <2>1. held \in 0..MaxAttempts \cup {None} /\ id \in Nat
    BY <1>1, <1>2 DEF Shelf, Stops
  <2>2. j.kept # None => j.kept.attempt \in 0..MaxAttempts
    BY <1>1 DEF JournalOK, Journals, Checkpoints
  <2> HIDE DEF held, j
  <2> QED  BY <2>1, <2>2
<1> HIDE DEF v, j, id, attempt
<1>4. attempt # None => p \in GoodPosts(v)
  BY <1>3, ClosingPost DEF ClosingPosts
<1>5. JournalOK(IF attempt = None THEN j ELSE Enqueued(j, p), v)
  <2> HIDE DEF p
  <2> QED  BY <1>1, <1>4, EnqueuedOK
<1>6. JournalsOK(journal', v)
  BY <1>1, <1>2, <1>5, WritesOK
<1>7. Shelf(slot', stopping', events')
  BY <1>1, <1>2 DEF Shelf
<1> QED  BY <1>1, <1>2, <1>6, <1>7, LocalStep DEF v

\* A scan that goes on with what it read, or wakes nobody.
LEMMA QuietScanStep ==
  ASSUME NEW mint, Before(mint), NEW d \in Devices, open_import_runs(d) \/ Snapshot(d) \/ Withheld(d)
  PROVE  After(mint)
<1> DEFINE v == View(mint)
           s == scan[d]
           x == scan'[d]
<1>1. /\ JournalsOK(journal, v) /\ HandsOK(hand, v) /\ ScansOK(scan, v) /\ Shelf(slot, stopping, events)
      /\ JournalOK(journal[d], v) /\ ScanOK(s, v) /\ ScanOK(Asleep, v) /\ v.frozen = run.frozen /\ TypeOK
  BY BeforeParts DEF Before, View
<1>2. UNCHANGED <<vars, journal, slot, hand, stopping, events>>
  BY DEF open_import_runs, Snapshot, Withheld
<1>3. scan' = [scan EXCEPT ![d] = x]
  BY <1>1 DEF open_import_runs, Snapshot, Withheld, Draining, ScansOK
<1>4. ScanOK(x, v)
  <2>1. CASE open_import_runs(d)
    <3> DEFINE row == IF run.state # "reading" THEN NoRow
                      ELSE [open |-> TRUE, owner |-> run.owner, listed |-> run.walked,
                            selected |-> run.frozen]
    <3>1. x = [Asleep EXCEPT !.at = "listed", !.row = row]
      BY <1>1, <2>1 DEF open_import_runs, ScansOK
    <3>2. /\ row \in [open : BOOLEAN, owner : Devices \cup {None}, listed : BOOLEAN, selected : BOOLEAN]
          /\ row.selected => run.frozen
      BY <1>1, TypeOKParts DEF Runs, NoRow
    <3> HIDE DEF row, x, v
    <3>3. /\ x \in Scans /\ x.row = row /\ x.at = "listed" /\ x.queue = <<>> /\ <<>> \in Queues(v)
      <4>1. <<>> \in Seq(Posts) /\ <<>> \in Queues(v)
        BY EmptySeq DEF Queues
      <4> QED  BY <3>1, <3>2, <4>1 DEF Scans, Asleep
    <3> QED  BY <1>1, <3>2, <3>3 DEF ScanOK
  <2>2. CASE Snapshot(d)
    <3> DEFINE q == journal[d].owed
               b == journal[d].stopped
    <3>1. x = [s EXCEPT !.at = "drain", !.queue = q, !.stopped = b]
      BY <1>1, <2>2 DEF Snapshot, ScansOK
    <3>2. q \in Queues(v) /\ q \in Seq(Posts) /\ b \in BOOLEAN /\ s \in Scans
          /\ (s.row.selected => v.frozen)
      BY <1>1 DEF JournalOK, Journals, ScanOK
    <3> HIDE DEF q, b, x, v, s
    <3>3. x \in Scans /\ x.row = s.row /\ x.at = "drain" /\ x.queue = q
      BY <3>1, <3>2 DEF Scans
    <3> QED  BY <3>2, <3>3 DEF ScanOK
  <2>3. CASE Withheld(d)
    <3> DEFINE q == Rest(d)
    <3>1. x = [s EXCEPT !.at = "drain", !.queue = q] /\ s.queue # <<>>
      BY <1>1, <2>3 DEF Withheld, Draining, ScansOK
    <3>2. s \in Scans /\ s.queue \in Queues(v) /\ s.queue \in Seq(Posts) /\ (s.row.selected => v.frozen)
      BY <1>1 DEF ScanOK, Scans
    <3>3. q \in Queues(v) /\ q \in Seq(Posts)
      BY <3>1, <3>2, QueueOps DEF Queues, Rest
    <3> HIDE DEF q, x, v, s
    <3>4. x \in Scans /\ x.row = s.row /\ x.at = "drain" /\ x.queue = q
      BY <3>1, <3>2, <3>3 DEF Scans
    <3> QED  BY <3>2, <3>3, <3>4 DEF ScanOK
  <2> QED  BY <2>1, <2>2, <2>3
<1> HIDE DEF v, x
<1>5. ScansOK(scan', v)
  BY <1>1, <1>3, <1>4, ScanPut
<1> QED  BY <1>1, <1>2, <1>5, LocalStep DEF v

LEMMA ScanTurns ==
  ASSUME NEW v, ScansOK(scan, v), NEW d \in Devices, NEW q \in Queues(v), q \in Seq(Posts),
         NEW at \in {"drain", "again", "reclaim", "consider"}, at = "reclaim" => q # <<>>,
         scan' = [scan EXCEPT ![d].at = at, ![d].queue = q]
  PROVE  ScansOK(scan', v)
<1> DEFINE s == scan[d]
           x == [s EXCEPT !.at = at, !.queue = q]
<1>1. ScanOK(s, v) /\ scan' = [scan EXCEPT ![d] = x]
  BY DEF ScansOK, Scans
<1> HIDE DEF s
<1>2. s \in Scans /\ (s.row.selected => v.frozen)
  BY <1>1 DEF ScanOK
<1>3. x \in Scans /\ x.row = s.row /\ x.at = at /\ x.queue = q
  BY <1>2 DEF Scans
<1> HIDE DEF x
<1>4. ScanOK(x, v)
  BY <1>2, <1>3 DEF ScanOK
<1>5. ScansOK([scan EXCEPT ![d] = x], v)
  BY <1>4, ScanPut
<1>6. scan' = [scan EXCEPT ![d] = x]
  BY <1>1
<1> QED  BY ONLY <1>5, <1>6

LEMMA DrainingOK ==
  ASSUME NEW v, ScansOK(scan, v), NEW d \in Devices, NEW q \in Queues(v), q \in Seq(Posts), Draining(d, q)
  PROVE  ScansOK(scan', v)
  BY ScanTurns DEF Draining

\* What a scan holds, and what is left of it after its head.
LEMMA ScanQueue ==
  ASSUME NEW v, ScansOK(scan, v), NEW d \in Devices
  PROVE  /\ scan[d] \in Scans /\ scan[d].queue \in Queues(v) /\ scan[d].queue \in Seq(Posts)
         /\ <<>> \in Queues(v) /\ <<>> \in Seq(Posts)
         /\ scan[d].queue # <<>> =>
              Head(scan[d].queue) \in GoodPosts(v) /\ Rest(d) \in Queues(v) /\ Rest(d) \in Seq(Posts)
<1>1. scan[d] \in Scans /\ scan[d].queue \in Seq(GoodPosts(v))
  BY DEF ScansOK, ScanOK, Queues
<1>2. scan[d].queue \in Seq(Posts)
  BY <1>1 DEF Scans
<1> QED  BY <1>1, <1>2, QueueOps, EmptySeq DEF Queues, Rest

LEMMA DrainStep ==
  ASSUME NEW mint, Before(mint), NEW d \in Devices, Drain(d)
  PROVE  After(mint)
<1> DEFINE v == View(mint)
           w == View(mint)'
           p == Head(scan[d].queue)
<1>1. /\ Inv /\ mint \in Minting /\ Faithful(v) /\ events \in Nat /\ ScansOK(scan, v)
      /\ scan[d].queue # <<>> /\ UNCHANGED <<slot, hand, stopping>>
  BY BeforeParts DEF Drain, Before, Shelf
<1>2. p \in GoodPosts(v)
  BY <1>1, ScanQueue
<1>3. PICK answer \in AllAnswers :
        /\ Sends(d, p, answer)
        /\ Writes(d, Drained(journal[d], p, answer))
        /\ Draining(d, <<>>) \/ Scanning(d, "reclaim") \/ Draining(d, Rest(d))
  BY DEF Drain
<1>4. /\ [Next]_vars /\ Onward(mint) /\ events' \in Nat
      /\ answer = "ok" /\ p.kind = "page" => p.page.read \subseteq Described'
  BY <1>1, <1>2, <1>3, Exchange
<1>5. w \in Views /\ JournalsOK(journal, w) /\ HandsOK(hand, w) /\ ScansOK(scan, w)
  BY <1>4, Grown
<1>6. p \in GoodPosts(w) /\ w.described = Described'
  <2>1. Grows(v, w)
    BY <1>4 DEF Onward
  <2> QED  BY <1>2, <2>1, QueuesGrow DEF View
<1>7. HandsOK(hand', w) /\ JournalOK(journal[d], w)
  BY <1>1, <1>5 DEF JournalsOK
<1> HIDE DEF v, w, p
<1>8. JournalsOK(journal', w)
  <2>1. JournalOK(Drained(journal[d], p, answer), w)
    BY <1>4, <1>5, <1>6, <1>7, AnsweredOK
  <2> QED  BY <1>3, <1>5, <2>1, WritesOK
<1>9. ScansOK(scan', w)
  <2>1. CASE Draining(d, <<>>)
    BY <1>5, <2>1, ScanQueue, DrainingOK
  <2>2. CASE Draining(d, Rest(d))
    BY <1>1, <1>5, <2>2, ScanQueue, DrainingOK
  <2>3. CASE Scanning(d, "reclaim")
    <3> DEFINE q == scan[d].queue
    <3>1. q \in Queues(w) /\ q \in Seq(Posts) /\ scan[d] \in Scans /\ q # <<>>
      BY <1>1, <1>5, ScanQueue
    <3>2. scan' = [scan EXCEPT ![d].at = "reclaim", ![d].queue = q]
      BY <1>5, <2>3, <3>1 DEF Scanning, ScansOK, Scans
    <3> HIDE DEF q
    <3>3. /\ "reclaim" \in {"drain", "again", "reclaim", "consider"}
          /\ "reclaim" = "reclaim" => q # <<>>
      BY <3>1
    <3>4. ScansOK(scan, w) /\ q \in Queues(w) /\ q \in Seq(Posts)
      BY <1>5, <3>1
    <3> QED  BY <3>2, <3>3, <3>4, ScanTurns
  <2> QED  BY <1>3, <2>1, <2>2, <2>3
<1>10. Shelf(slot', stopping', events')
  BY <1>1, <1>4 DEF Before, Shelf
<1> QED  BY <1>4, <1>7, <1>8, <1>9, <1>10, ServedStep DEF w

LEMMA ReclaimStep ==
  ASSUME NEW mint, Before(mint), NEW d \in Devices, Reclaim(d)
  PROVE  After(mint)
<1> DEFINE v == View(mint)
           w == View(mint)'
           a == run'.attempt
           p == Under(Head(scan[d].queue), a)
           q == <<p>> \o Rest(d)
<1>1. /\ v \in Views /\ JournalsOK(journal, v) /\ HandsOK(hand, v) /\ ScansOK(scan, v)
      /\ Shelf(slot, stopping, events) /\ UNCHANGED <<slot, hand, stopping>> /\ scan[d].at = "reclaim"
  BY BeforeParts DEF Before, Reclaim
<1>2. scan[d].queue # <<>>
  BY <1>1 DEF ScansOK, ScanOK
<1>3. CASE claim(d, FALSE)
  <2>1. [Next]_vars /\ Onward(mint) /\ a \in 0..MaxAttempts
    BY <1>3, ClaimOnward
  <2>2. w \in Views /\ JournalsOK(journal, w) /\ HandsOK(hand, w) /\ ScansOK(scan, w)
    BY <2>1, Grown
  <2>3. /\ Head(scan[d].queue) \in GoodPosts(w) /\ Rest(d) \in Queues(w) /\ Rest(d) \in Seq(Posts)
    BY <1>2, <2>2, ScanQueue
  <2>4. HandsOK(hand', w) /\ JournalOK(journal[d], w)
    BY <1>1, <2>2 DEF JournalsOK
  <2>5. \/ /\ Writes(d, Refenced(journal[d], a)) /\ UNCHANGED events
           /\ scan' = [scan EXCEPT ![d].at = "again", ![d].queue = q]
        \/ Faulty /\ Draining(d, Rest(d)) /\ UNCHANGED journal
        \/ Draining(d, Rest(d)) /\ UNCHANGED <<journal, events>>
    <3>1. scan[d] \in Scans /\ DOMAIN scan = Devices
      BY <1>1, ScanQueue DEF ScansOK
    <3> QED  BY <3>1 DEF Reclaim, Scans
  <2> HIDE DEF v, w, a
  <2>6. Shelf(slot', stopping', events')
    BY <1>1, <2>5 DEF Shelf, Faulty
  <2>7. CASE Writes(d, Refenced(journal[d], a)) /\ scan' = [scan EXCEPT ![d].at = "again", ![d].queue = q]
    <3>1. JournalsOK(journal', w)
      BY <2>1, <2>2, <2>4, <2>7, RefencedOK, WritesOK
    <3>2. q \in Queues(w) /\ q \in Seq(Posts)
      <4>1. p \in GoodPosts(w) /\ p \in Posts
        BY <2>1, <2>3, UnderOK DEF GoodPosts
      <4> HIDE DEF p
      <4>2. <<p>> \in Seq(GoodPosts(w)) /\ <<p>> \in Seq(Posts)
        BY <4>1
      <4> QED  BY <2>3, <4>2, ConcatProperties DEF Queues
    <3> HIDE DEF q
    <3>3. ScansOK(scan', w)
      BY <2>2, <2>7, <3>2, ScanTurns
    <3> QED  BY <2>1, <2>4, <2>6, <3>1, <3>3, ServedStep DEF w
  <2>8. CASE Draining(d, Rest(d)) /\ UNCHANGED journal
    <3>1. ScansOK(scan', w)
      BY <2>2, <2>3, <2>8, DrainingOK
    <3>2. JournalsOK(journal', w)
      BY <2>2, <2>8
    <3> QED  BY <2>1, <2>4, <2>6, <3>1, <3>2, ServedStep DEF w
  <2> QED  BY <2>5, <2>7, <2>8
<1>4. CASE Draining(d, Rest(d)) /\ UNCHANGED <<vars, journal, events>>
  <2> HIDE DEF v
  <2>1. Rest(d) \in Queues(v) /\ Rest(d) \in Seq(Posts)
    BY <1>1, <1>2, ScanQueue
  <2>2. ScansOK(scan', v)
    BY <1>1, <1>4, <2>1, DrainingOK
  <2>3. Shelf(slot', stopping', events')
    BY <1>1, <1>4 DEF Shelf
  <2> QED  BY <1>1, <1>4, <2>2, <2>3, LocalStep DEF v
<1>5. CASE Faulty /\ Draining(d, Rest(d)) /\ UNCHANGED <<vars, journal>>
  <2> HIDE DEF v
  <2>1. Rest(d) \in Queues(v) /\ Rest(d) \in Seq(Posts)
    BY <1>1, <1>2, ScanQueue
  <2>2. ScansOK(scan', v)
    BY <1>1, <1>5, <2>1, DrainingOK
  <2>3. Shelf(slot', stopping', events')
    BY <1>1, <1>5 DEF Shelf, Faulty
  <2> QED  BY <1>1, <1>5, <2>2, <2>3, LocalStep DEF v
<1> QED  BY <1>3, <1>4, <1>5 DEF Reclaim

LEMMA ReconcileStep ==
  ASSUME NEW mint, Before(mint), NEW d \in Devices, Reconcile(d)
  PROVE  After(mint)
<1> DEFINE v == View(mint)
           q == scan[d].queue
<1>1. /\ JournalsOK(journal, v) /\ HandsOK(hand, v) /\ ScansOK(scan, v) /\ Shelf(slot, stopping, events)
      /\ UNCHANGED <<vars, slot, hand, stopping, events>> /\ Scanning(d, "consider")
      /\ Resumed(d) \/ UNCHANGED journal
  BY BeforeParts DEF Before, Reconcile
<1> HIDE DEF v
<1>2. q \in Queues(v) /\ q \in Seq(Posts) /\ scan[d] \in Scans
  BY <1>1, ScanQueue
<1>3. scan' = [scan EXCEPT ![d].at = "consider", ![d].queue = q]
  BY <1>1, <1>2 DEF Scanning, ScansOK, Scans
<1> HIDE DEF q
<1>4. ScansOK(scan', v)
  BY <1>1, <1>2, <1>3, ScanTurns
<1>5. JournalsOK(journal', v)
  BY <1>1, ResumedOK
<1>6. Shelf(slot', stopping', events')
  BY <1>1 DEF Shelf
<1> QED  BY <1>1, <1>4, <1>5, <1>6, LocalStep DEF v

LEMMA ConsiderStep ==
  ASSUME NEW mint, Before(mint), NEW d \in Devices, consider(d)
  PROVE  After(mint)
<1> DEFINE v == View(mint)
           row == scan[d].row
           then == IF row.owner = d THEN "ready" ELSE "keep"
           phase == IF row.listed THEN "describe" ELSE "discover"
           u == [Free EXCEPT !.at = "found", !.awaited = TRUE, !.then = then, !.phase = phase]
<1>1. /\ JournalsOK(journal, v) /\ HandsOK(hand, v) /\ ScansOK(scan, v) /\ Shelf(slot, stopping, events)
      /\ ScanOK(scan[d], v) /\ ScanOK(Asleep, v)
      /\ UNCHANGED <<vars, journal, slot, stopping, events>> /\ scan' = [scan EXCEPT ![d] = Asleep]
  BY BeforeParts DEF Before, consider
<1> HIDE DEF v
<1>2. ScansOK(scan', v)
  BY <1>1, ScanPut
<1>3. CASE UNCHANGED hand
  <2>1. HandsOK(hand', v) /\ JournalsOK(journal', v) /\ Shelf(slot', stopping', events')
    BY <1>1, <1>3 DEF Shelf
  <2> QED  BY <1>1, <1>2, <2>1, LocalStep DEF v
<1>4. CASE Wanted(d) /\ \E h \in Hands : Holder[h] = d /\ Is(h, "idle") /\ Becomes(h, u)
  <2>1. PICK h \in Hands : Becomes(h, u)
    BY <1>4
  <2>2. phase = "describe" => v.frozen
    BY <1>1, <1>4 DEF Wanted, ScanOK
  <2>3. then \in {"ready", "keep"} /\ phase \in Phases
    BY DEF Phases
  <2> HIDE DEF then, phase
  <2>4. /\ u \in Tasks /\ u.at = "found" /\ u.queue = <<>> /\ u.acked = {} /\ u.read = {} /\ u.skip = {}
        /\ u.todo = {} /\ u.phase = phase /\ u.then = then
    <3>1. {} \in SUBSET Items /\ <<>> \in Seq(Posts) /\ 0 \in 0..MaxAttempts
      BY EmptySeq, ImportAssumption
    <3> QED  BY <2>3, <3>1 DEF Tasks, Free
  <2> HIDE DEF u
  <2>5. HandOK(u, v)
    BY <2>2, <2>3, <2>4, PlainHand DEF Plain
  <2>6. HandsOK(hand', v)
    BY <1>1, <2>1, <2>5, BecomesOK
  <2>7. JournalsOK(journal', v) /\ Shelf(slot', stopping', events')
    BY <1>1 DEF Shelf
  <2> QED  BY <1>1, <1>2, <2>6, <2>7, LocalStep DEF v
<1> QED  BY <1>3, <1>4 DEF consider

-----------------------------------------------------------------------------
(* A device dies, the run goes on elsewhere, and the invariant.            *)

LEMMA DiesStep ==
  ASSUME NEW mint, Before(mint), NEW d \in Devices, Dies(d)
  PROVE  After(mint)
<1> DEFINE v == View(mint)
<1>1. /\ JournalsOK(journal, v) /\ HandsOK(hand, v) /\ ScansOK(scan, v) /\ Shelf(slot, stopping, events)
      /\ HandOK(Free, v) /\ ScanOK(Asleep, v)
  BY BeforeParts DEF Before
<1>2. UNCHANGED <<vars, journal>>
  BY DEF Dies
<1> HIDE DEF v
<1>3. HandsOK(hand', v)
  BY <1>1 DEF Dies, HandsOK, HandOK
<1>4. scan' = [scan EXCEPT ![d] = Asleep]
  BY DEF Dies
<1>5. ScansOK(scan', v)
  BY <1>1, <1>4, ScanPut
<1>6. Shelf(slot', stopping', events')
  BY <1>1 DEF Dies, Faulty, Shelf
<1> QED  BY <1>1, <1>2, <1>3, <1>5, <1>6, LocalStep DEF v

LEMMA SelectGrows ==
  ASSUME TypeOK, TypeOK', NEW mint \in Minting, Faithful(View(mint)), NEW chosen, select(chosen)
  PROVE  Onward(mint)
<1>1. run \in Runs /\ item \in ItemMaps
  BY TypeOKParts DEF RowsTyped
<1>2. run' = select_items(run, item, chosen).run /\ item' = select_items(run, item, chosen).item
      /\ receipts' = receipts
  BY DEF select
<1>3. /\ run.frozen => run'.frozen
      /\ \A i \in Items : item[i] # "listed" => item'[i] = item[i]
      /\ \A i \in Items : item[i] = "listed" => item'[i] \in {"listed", "selected", "skipped"}
  BY <1>1, <1>2, SelectItemsGrows
<1>4. Described \subseteq Described' /\ Chosen \subseteq Chosen'
  BY <1>3 DEF Described, Chosen
<1>5. View(mint)' \in Views
  BY ViewTypedNext
<1> QED  BY <1>2, <1>3, <1>4, <1>5 DEF Onward, Grows, Faithful, View

LEMMA ElsewhereStep ==
  ASSUME NEW mint, Before(mint), Elsewhere, UNCHANGED devices
  PROVE  After(mint)
<1>1. Next
  BY DEF Elsewhere, Next, Seller
<1>2. TypeOK /\ TypeOK' /\ Faithful(View(mint)) /\ mint \in Minting
  BY <1>1, BeforeParts, InvStep DEF Before, Inv
<1>3. Onward(mint)
  <2>1. CASE \E chosen \in SUBSET Items : select(chosen)
    BY <1>2, <2>1, SelectGrows
  <2>2. CASE authorise_commit \/ abandon \/ LeaseLapses
    BY <1>2, <2>2, FencedSteps, QuietGrows
  <2> QED  BY <2>1, <2>2 DEF Elsewhere
<1>4. /\ JournalsOK(journal, View(mint)') /\ HandsOK(hand, View(mint)') /\ ScansOK(scan, View(mint)')
  BY <1>3, Grown
<1>5. Shelf(slot', stopping', events')
  BY DEF Before, Shelf, devices
<1> DEFINE w == View(mint)'
<1>6. /\ JournalsOK(journal', w) /\ HandsOK(hand', w) /\ ScansOK(scan', w)
  <2> HIDE DEF w
  <2>1. journal' = journal /\ hand' = hand /\ scan' = scan
    BY DEF devices
  <2> QED  BY <1>4, <2>1 DEF w
<1> QED  BY <1>1, <1>3, <1>5, <1>6, ServedStep

LEMMA DevicesInvInit == DevicesInit => DevicesInv
<1> SUFFICES ASSUME DevicesInit PROVE DevicesInv
  OBVIOUS
<1> DEFINE mint == [r \in Receipts |-> {}]
           v == View(mint)
<1>1. Inv /\ TypeOK /\ receipts = {}
  BY InvInit DEF DevicesInit, Inv, Init
<1>2. mint \in Minting
  BY DEF Minting
<1>3. v \in Views /\ v.receipts = {}
  BY <1>1, <1>2, ViewTyped DEF View
<1> HIDE DEF v, mint
<1>4. JournalOK(Blank, v) /\ HandOK(Free, v) /\ ScanOK(Asleep, v)
  BY <1>3, Empties
<1>5. JournalsOK(journal, v) /\ HandsOK(hand, v) /\ ScansOK(scan, v)
  BY <1>4 DEF DevicesInit, JournalsOK, HandsOK, ScansOK, JournalOK, HandOK, ScanOK
<1>6. Sound(journal, hand, scan, v)
  BY <1>3, <1>5 DEF Sound, Faithful
<1>7. Shelf(slot, stopping, events)
  BY DEF DevicesInit, Shelf
<1> QED  BY <1>1, <1>2, <1>6, <1>7 DEF DevicesInv, v

LEMMA HandStep ==
  ASSUME NEW mint, Before(mint), NEW h \in Hands, Takes(h) \/ Works(h) \/ Says(h) \/ Keeper(h)
  PROVE  \E m \in Minting : After(m)
<1>0. mint \in Minting
  BY DEF Before
<1>1. CASE Takes(h)
  BY <1>0, <1>1, ResumeStep, ClaimStep, OwesStep, KeepStep, QuietHandStep DEF Takes, QuietHand
<1>2. CASE Works(h)
  BY <1>0, <1>2, WalkStep, ReadStep, NothingLeftStep, LapsedStep, QuietHandStep DEF Works, QuietHand
<1>3. CASE Says(h)
  BY <1>0, <1>3, OfferStep, ReportsStep, EndedStep, OverStep DEF Says
<1>4. CASE Keeper(h)
  BY <1>0, <1>4, QuietHandStep DEF QuietHand
<1> QED  BY <1>1, <1>2, <1>3, <1>4

LEMMA DeviceStep ==
  ASSUME NEW mint, Before(mint), NEW d \in Devices,
         cancel(d) \/ Marks(d) \/ Abandons(d) \/ serve_open_runs(d) \/ Dies(d)
  PROVE  After(mint)
  BY CancelStep, MarksStep, AbandonsStep, QuietScanStep, DrainStep, ReclaimStep, ReconcileStep, ConsiderStep,
     DiesStep DEF serve_open_runs

LEMMA DevicesInvStep == DevicesInv /\ [DevicesNext]_everything => DevicesInv' /\ [Next]_vars
<1> SUFFICES ASSUME DevicesInv, [DevicesNext]_everything PROVE DevicesInv' /\ [Next]_vars
  OBVIOUS
<1>1. PICK mint \in Minting : Before(mint)
  BY DEF DevicesInv, Before
<1>2. \E m \in Minting : After(m)
  <2>1. CASE \E h \in Hands : Takes(h) \/ Works(h) \/ Says(h) \/ Keeper(h)
    BY <1>1, <2>1, HandStep
  <2>2. CASE \E h \in Hands, phase \in Phases, takeover \in BOOLEAN : Press(h, phase, takeover)
    BY <1>1, <2>2, QuietHandStep DEF QuietHand
  <2>3. CASE \E d \in Devices : cancel(d) \/ Marks(d) \/ Abandons(d) \/ serve_open_runs(d) \/ Dies(d)
    BY <1>1, <2>3, DeviceStep
  <2>4. CASE Elsewhere /\ UNCHANGED devices
    BY <1>1, <2>4, ElsewhereStep
  <2>5. CASE UNCHANGED everything
    <3>1. UNCHANGED <<vars, journal, hand, scan, slot, stopping, events>>
      BY <2>5 DEF everything, devices
    <3>2. JournalsOK(journal', View(mint)) /\ HandsOK(hand', View(mint)) /\ ScansOK(scan', View(mint))
          /\ Shelf(slot', stopping', events')
      <4>1. journal' = journal /\ hand' = hand /\ scan' = scan /\ slot' = slot /\ stopping' = stopping
            /\ events' = events
        BY <3>1
      <4> QED  BY <1>1, <4>1, BeforeParts DEF Before
    <3> QED  BY <1>1, <3>1, <3>2, LocalStep
  <2> QED  BY <2>1, <2>2, <2>3, <2>4, <2>5 DEF DevicesNext
<1>3. PICK m \in Minting : After(m)
  BY <1>2
<1>4. [Next]_vars /\ Inv'
  BY <1>3, InvStep DEF After, DevicesInv
<1>5. Sound(journal', hand', scan', View(m)') /\ Shelf(slot', stopping', events')
  BY <1>3 DEF After
<1> QED  BY <1>4, <1>5 DEF DevicesInv

LEMMA DevicesInvariance == DevicesSpec => []DevicesInv
  BY DevicesInvInit, DevicesInvStep, PTL DEF DevicesSpec

-----------------------------------------------------------------------------
(* Work under way can be stopped: an argument about slots and hands, and   *)
(* about a hand that has found its slot and has yet to start.              *)

At_work(t) == (t.working \/ t.at = "hold") /\ ~t.cancelled /\ ~t.fenced
Grip(hs, sl) == \A h \in Hands : At_work(hs[h]) => sl[Holder[h]] = h

LEMMA GripIs == Grip(hand, slot) => WorkCanBeStopped
  BY DEF WorkCanBeStopped, Grip, At_work, halted

\* A hand that goes on as it was, or is put down, and loses no slot but its own.
LEMMA GripKept ==
  ASSUME hand \in [Hands -> Tasks], Grip(hand, slot), NEW h \in Hands, NEW u, Becomes(h, u),
         At_work(u) => At_work(hand[h]), UNCHANGED slot
  PROVE  Grip(hand', slot')
  BY DEF Becomes, Grip

LEMMA GripReleased ==
  ASSUME hand \in [Hands -> Tasks], slot \in [Devices -> Hands \cup {None}], Grip(hand, slot),
         NEW h \in Hands, Release(h)
  PROVE  Grip(hand', slot')
<1>1. ~At_work(Free)
  BY DEF At_work, Free
<1>2. hand' = [hand EXCEPT ![h] = Free] /\ slot' = [slot EXCEPT ![Holder[h]] = IF @ = h THEN None ELSE @]
  BY DEF Release, Becomes
<1> HIDE DEF Grip
<1> SUFFICES ASSUME NEW g \in Hands, At_work(hand'[g])
             PROVE  slot'[Holder[g]] = g
  BY DEF Grip
<1>3. g # h /\ hand'[g] = hand[g]
  BY <1>1, <1>2
<1>4. slot[Holder[g]] = g /\ Holder[g] \in Devices
  BY <1>3, DeviceAssumption DEF Grip
<1> QED  BY <1>2, <1>3, <1>4

\* The slot is taken by a hand that does not work yet, and only when free.
LEMMA GripTaken ==
  ASSUME hand \in [Hands -> Tasks], slot \in [Devices -> Hands \cup {None}], Grip(hand, slot),
         NEW h \in Hands, slot[Holder[h]] = None, slot' = [slot EXCEPT ![Holder[h]] = h],
         NEW u, Becomes(h, u)
  PROVE  Grip(hand', slot')
<1>1. \A g \in Hands : At_work(hand[g]) => Holder[g] # Holder[h]
  BY DeviceAssumption DEF Grip
<1> QED  BY <1>1, DeviceAssumption DEF Grip, Becomes

\* What every step but a start leaves of a hand: it works only if it did.
Placed == hand \in [Hands -> Tasks] /\ slot \in [Devices -> Hands \cup {None}] /\ Grip(hand, slot)

\* A step that only changes what a hand holds, and no flag of its task.
LEMMA GripTurns ==
  ASSUME Placed, NEW h \in Hands, UNCHANGED slot, NEW u, Becomes(h, u), u.at # "hold",
         u.working = hand[h].working, u.cancelled = hand[h].cancelled, u.fenced = hand[h].fenced
  PROVE  Grip(hand', slot')
  BY GripKept DEF Placed, At_work

LEMMA TakesGrip ==
  ASSUME Placed, NEW h \in Hands, Takes(h)
  PROVE  Grip(hand', slot')
<1> DEFINE t == hand[h]
<1>1. t \in Tasks /\ hand \in [Hands -> Tasks] /\ slot \in [Devices -> Hands \cup {None}] /\ Grip(hand, slot)
  BY DEF Placed
<1>2. ASSUME Release(h) PROVE Grip(hand', slot')
  BY <1>1, <1>2, GripReleased
<1>3. CASE Resume(h)
  <2> DEFINE u == [t EXCEPT !.at = "claim"]
  <2>1. Becomes(h, u) /\ UNCHANGED slot
    BY <1>3 DEF Resume, Turns
  <2>2. u.at # "hold" /\ u.working = t.working /\ u.cancelled = t.cancelled /\ u.fenced = t.fenced
    BY <1>1 DEF Tasks
  <2> HIDE DEF u
  <2> QED  BY <2>1, <2>2, GripTurns
<1>4. CASE Reserve(h)
  <2>1. CASE slot[Holder[h]] # None
    BY <1>2, <1>4, <2>1 DEF Reserve
  <2>2. CASE slot[Holder[h]] = None
    BY <1>1, <1>4, <2>2, GripTaken DEF Reserve
  <2> QED  BY <2>1, <2>2
<1>5. CASE Claim(h)
  <2> DEFINE u == [t EXCEPT !.at = "owes", !.takeover = FALSE, !.attempt = run'.attempt]
  <2>1. Release(h) \/ (Becomes(h, u) /\ UNCHANGED slot)
    BY <1>5 DEF Claim
  <2>2. u.at # "hold" /\ u.working = t.working /\ u.cancelled = t.cancelled /\ u.fenced = t.fenced
    BY <1>1 DEF Tasks
  <2> HIDE DEF u
  <2> QED  BY <1>2, <2>1, <2>2, GripTurns
<1>6. CASE Quits(h)
  BY <1>2, <1>6 DEF Quits
<1>7. CASE Owes(h)
  <2> DEFINE owed == Refenced(journal[Holder[h]], t.attempt)
             u == [t EXCEPT !.at = IF owed.owed = <<>> THEN t.then ELSE "flush", !.queue = owed.owed]
  <2>1. Becomes(h, u) /\ UNCHANGED slot
    BY <1>7 DEF Owes
  <2>2. u.at # "hold" /\ u.working = t.working /\ u.cancelled = t.cancelled /\ u.fenced = t.fenced
    <3> HIDE DEF owed
    <3> QED  BY <1>1 DEF Tasks
  <2> HIDE DEF u
  <2> QED  BY <2>1, <2>2, GripTurns
<1>8. CASE Ready(h)
  <2> DEFINE u == [t EXCEPT !.at = "owes", !.then = "keep"]
             x == [t EXCEPT !.at = "ending"]
  <2>1. (Becomes(h, u) \/ Becomes(h, x)) /\ UNCHANGED slot
    BY <1>8 DEF Ready, Turns
  <2>2. /\ u.at # "hold" /\ u.working = t.working /\ u.cancelled = t.cancelled /\ u.fenced = t.fenced
        /\ x.at # "hold" /\ x.working = t.working /\ x.cancelled = t.cancelled /\ x.fenced = t.fenced
    BY <1>1 DEF Tasks
  <2> HIDE DEF u, x
  <2> QED  BY <2>1, <2>2, GripTurns
<1>9. CASE Keep(h)
  <2>1. PICK done, described : Becomes(h, [t EXCEPT !.at = "start", !.acked = done, !.described = described])
    BY <1>9 DEF Keep
  <2> DEFINE u == [t EXCEPT !.at = "start", !.acked = done, !.described = described]
  <2>2. u.at # "hold" /\ u.working = t.working /\ u.cancelled = t.cancelled /\ u.fenced = t.fenced
    BY <1>1 DEF Tasks
  <2>3. Becomes(h, u) /\ UNCHANGED slot
    BY <1>9, <2>1 DEF Keep
  <2> HIDE DEF u
  <2> QED  BY <2>2, <2>3, GripTurns
<1>10. CASE Start(h)
  <2>1. CASE slot[Holder[h]] = h
    BY <1>1, <1>10, <2>1 DEF Start, Turns, Becomes, Grip
  <2>2. CASE slot[Holder[h]] # h
    <3>1. Becomes(h, Free) /\ UNCHANGED slot /\ ~At_work(Free)
      BY <1>10, <2>2 DEF Start, At_work, Free
    <3> QED  BY <1>1, <3>1, GripKept
  <2> QED  BY <2>1, <2>2
<1>11. CASE hold(h)
  <2> DEFINE at == IF t.phase = "discover" THEN "walk" ELSE "select"
             u == [t EXCEPT !.working = TRUE, !.awaited = FALSE, !.at = at]
  <2>1. Becomes(h, u) /\ UNCHANGED slot /\ t.at = "hold"
    BY <1>11 DEF hold, Is
  <2> HIDE DEF at
  <2>2. u.cancelled = t.cancelled /\ u.fenced = t.fenced
    BY <1>1 DEF Tasks
  <2> HIDE DEF u
  <2> QED  BY <1>1, <2>1, <2>2, GripKept DEF At_work
<1> QED  BY <1>3, <1>4, <1>5, <1>6, <1>7, <1>8, <1>9, <1>10, <1>11 DEF Takes

LEMMA PostGrip ==
  ASSUME Placed, NEW h \in Hands, NEW page, NEW earned, NEW state \in Tasks, UNCHANGED slot,
         PostPage(h, page, earned, state),
         state.working = hand[h].working, state.cancelled = hand[h].cancelled,
         state.fenced = hand[h].fenced
  PROVE  Grip(hand', slot')
<1> DEFINE q == journal'[Holder[h]].owed
           u == [state EXCEPT !.at = "flush", !.queue = q]
<1>1. Becomes(h, u)
  BY DEF PostPage
<1> HIDE DEF q
<1>2. u.at # "hold" /\ u.working = state.working /\ u.cancelled = state.cancelled /\ u.fenced = state.fenced
  BY DEF Tasks
<1> HIDE DEF u
<1> QED  BY <1>1, <1>2, GripTurns

LEMMA SaysGrip ==
  ASSUME Placed, NEW h \in Hands, Says(h)
  PROVE  Grip(hand', slot')
<1> DEFINE t == hand[h]
<1>1. t \in Tasks /\ hand \in [Hands -> Tasks] /\ slot \in [Devices -> Hands \cup {None}] /\ Grip(hand, slot)
  BY DEF Placed
<1>2. ASSUME Release(h) PROVE Grip(hand', slot')
  BY <1>1, <1>2, GripReleased
<1>3. CASE Offer(h)
  <2> DEFINE at == IF Len(t.queue) = 1 THEN t.then ELSE "flush"
             q == Tail(t.queue)
             u == [t EXCEPT !.at = at, !.queue = q]
             x == [t EXCEPT !.at = "ending", !.queue = <<>>, !.acked = {}]
  <2>1. Release(h) \/ ((Becomes(h, u) \/ Becomes(h, x)) /\ UNCHANGED slot)
    BY <1>3 DEF Offer
  <2>2. /\ u.at # "hold" /\ u.working = t.working /\ u.cancelled = t.cancelled /\ u.fenced = t.fenced
        /\ x.at # "hold" /\ x.working = t.working /\ x.cancelled = t.cancelled /\ x.fenced = t.fenced
    <3>1. at # "hold"
      BY <1>1 DEF Tasks
    <3> HIDE DEF at, q
    <3> QED  BY <1>1, <3>1 DEF Tasks
  <2> HIDE DEF u, x
  <2> QED  BY <1>2, <2>1, <2>2, GripTurns
<1>4. CASE Reports(h)
  <2> DEFINE u == [t EXCEPT !.at = "ended"]
  <2>1. Becomes(h, u) /\ UNCHANGED slot
    BY <1>4 DEF Reports, Turns
  <2>2. u.at # "hold" /\ u.working = t.working /\ u.cancelled = t.cancelled /\ u.fenced = t.fenced
    BY <1>1 DEF Tasks
  <2> HIDE DEF u
  <2> QED  BY <2>1, <2>2, GripTurns
<1>5. CASE Ended(h) \/ Over(h)
  BY <1>2, <1>5 DEF Ended, Over
<1> QED  BY <1>3, <1>4, <1>5 DEF Says

LEMMA ReadGrip ==
  ASSUME Placed, NEW h \in Hands, NEW i \in Items, Read(h, i)
  PROVE  Grip(hand', slot')
<1> DEFINE t == hand[h]
<1>1. t \in Tasks
  BY DEF Placed
<1> DEFINE now(ok) == [t EXCEPT !.todo = @ \ {i},
                         !.read = IF ok THEN @ \cup {i} ELSE @, !.skip = IF ok THEN @ ELSE @ \cup {i},
                         !.described = @ \/ ok, !.skipped = @ \/ ~ok]
           last == t.todo = {i}
           nothing(ok) == now(ok).skipped /\ ~now(ok).described
           next(ok) == CASE ~last -> "read" [] last /\ nothing(ok) -> "ending" [] OTHER -> "over"
<1>2. PICK ok \in BOOLEAN, due \in BOOLEAN :
        IF last \/ due
        THEN PostPage(h, DescriptionOf(now(ok).read, now(ok).skip, last /\ ~nothing(ok)),
               t.acked \cup now(ok).read,
               [now(ok) EXCEPT !.acked = @ \cup now(ok).read, !.read = {}, !.skip = {},
                               !.then = next(ok)])
        ELSE Becomes(h, now(ok)) /\ UNCHANGED journal
  BY DEF Read
<1> DEFINE page == DescriptionOf(now(ok).read, now(ok).skip, last /\ ~nothing(ok))
           go == next(ok)
           read == IF ok THEN t.read \cup {i} ELSE t.read
           skip == IF ok THEN t.skip ELSE t.skip \cup {i}
           desc == t.described \/ ok
           skipd == t.skipped \/ ~ok
           left == t.todo \ {i}
           u == [t EXCEPT !.todo = left, !.read = read, !.skip = skip,
                          !.described = desc, !.skipped = skipd]
           acked == t.acked \cup read
           x == [u EXCEPT !.acked = acked, !.read = {}, !.skip = {}, !.then = go]
<1>3. read \in SUBSET Items /\ skip \in SUBSET Items /\ desc \in BOOLEAN /\ skipd \in BOOLEAN
      /\ left \in SUBSET Items /\ acked \in SUBSET Items
  BY <1>1 DEF Tasks
<1>4. go \in {"read", "ending", "over"}
  OBVIOUS
<1>5. now(ok) = u
  OBVIOUS
<1> HIDE DEF read, skip, desc, skipd, left, now, t, go, page, next, nothing, last
<1>6. /\ u \in Tasks /\ u.at = t.at /\ u.working = t.working /\ u.cancelled = t.cancelled /\ u.fenced = t.fenced
      /\ u.acked = t.acked /\ u.read = read
  BY <1>1, <1>3 DEF Tasks
<1> HIDE DEF u
<1>7. Becomes(h, u) \/ PostPage(h, page, acked, x)
  BY <1>2, <1>5, <1>6 DEF page, go
<1> HIDE DEF acked
<1>8. x \in Tasks /\ x.working = t.working /\ x.cancelled = t.cancelled /\ x.fenced = t.fenced
  BY <1>3, <1>4, <1>6 DEF Tasks
<1> HIDE DEF x
<1>9. UNCHANGED slot /\ hand[h].at # "hold"
  BY DEF Read, Is
<1> QED  BY <1>6, <1>7, <1>8, <1>9, GripTurns, PostGrip DEF t

LEMMA WorksGrip ==
  ASSUME Placed, NEW h \in Hands, Works(h)
  PROVE  Grip(hand', slot')
<1> DEFINE t == hand[h]
<1>1. t \in Tasks /\ hand \in [Hands -> Tasks] /\ slot \in [Devices -> Hands \cup {None}] /\ Grip(hand, slot)
  BY DEF Placed
<1>2. CASE Interrupted(h)
  BY <1>1, <1>2, GripReleased DEF Interrupted
<1>3. CASE Unreadable(h)
  <2> DEFINE u == [t EXCEPT !.at = "ending"]
  <2>1. Becomes(h, u) /\ UNCHANGED slot
    BY <1>3 DEF Unreadable, Turns
  <2>2. u.at # "hold" /\ u.working = t.working /\ u.cancelled = t.cancelled /\ u.fenced = t.fenced
    BY <1>1 DEF Tasks
  <2> HIDE DEF u
  <2> QED  BY <2>1, <2>2, GripTurns
<1>4. CASE post_listing(h)
  <2> DEFINE u == [t EXCEPT !.then = "over"]
  <2>1. PICK shop : PostPage(h, ListingOf(shop), {}, u)
    BY <1>4 DEF post_listing
  <2>2. u \in Tasks /\ u.working = t.working /\ u.cancelled = t.cancelled /\ u.fenced = t.fenced
    BY <1>1 DEF Tasks
  <2>3. UNCHANGED slot
    BY <1>4 DEF post_listing
  <2> HIDE DEF u
  <2> QED  BY <2>1, <2>2, <2>3, PostGrip
<1>5. CASE Select(h)
  <2> DEFINE todo == InState(item, {"selected"}) \ t.acked
             u == [t EXCEPT !.at = "read", !.todo = todo]
  <2>1. Becomes(h, u) /\ UNCHANGED slot
    BY <1>5 DEF Select
  <2> HIDE DEF todo
  <2>2. u.at # "hold" /\ u.working = t.working /\ u.cancelled = t.cancelled /\ u.fenced = t.fenced
    BY <1>1 DEF Tasks
  <2> HIDE DEF u
  <2> QED  BY <2>1, <2>2, GripTurns
<1>6. CASE NothingLeft(h)
  <2> DEFINE u == [t EXCEPT !.then = "over"]
  <2>1. PostPage(h, DescriptionOf({}, {}, TRUE), t.acked, u) /\ UNCHANGED slot
    BY <1>6 DEF NothingLeft
  <2>2. u \in Tasks /\ u.working = t.working /\ u.cancelled = t.cancelled /\ u.fenced = t.fenced
    BY <1>1 DEF Tasks
  <2> HIDE DEF u
  <2> QED  BY <2>1, <2>2, PostGrip
<1>7. CASE Lapsed(h)
  <2> DEFINE u == [t EXCEPT !.at = "ending"]
             x == [t EXCEPT !.read = {}, !.skip = {}, !.then = "ending"]
  <2>1. /\ UNCHANGED slot
        /\ Becomes(h, u) \/ PostPage(h, DescriptionOf(t.read, t.skip, FALSE), t.acked \cup t.read, x)
    BY <1>7 DEF Lapsed, Turns
  <2>2. /\ u.at # "hold" /\ u.working = t.working /\ u.cancelled = t.cancelled /\ u.fenced = t.fenced
        /\ x \in Tasks /\ x.working = t.working /\ x.cancelled = t.cancelled /\ x.fenced = t.fenced
    BY <1>1 DEF Tasks
  <2> HIDE DEF u, x
  <2> QED  BY <2>1, <2>2, GripTurns, PostGrip
<1>8. CASE \E i \in Items : Read(h, i)
  BY <1>8, ReadGrip
<1> QED  BY <1>2, <1>3, <1>4, <1>5, <1>6, <1>7, <1>8 DEF Works

LEMMA DeviceGrip ==
  ASSUME Placed, NEW d \in Devices, cancel(d) \/ Marks(d) \/ Abandons(d) \/ serve_open_runs(d) \/ Dies(d)
  PROVE  Grip(hand', slot')
<1>1. /\ hand \in [Hands -> Tasks] /\ slot \in [Devices -> Hands \cup {None}] /\ Grip(hand, slot)
      /\ Free \in Tasks /\ ~At_work(Free)
  <2>1. {} \in SUBSET Items /\ <<>> \in Seq(Posts) /\ 0 \in 0..MaxAttempts
    BY EmptySeq, ImportAssumption
  <2> QED  BY <2>1 DEF Placed, Free, At_work, Tasks, Phases
<1>2. CASE cancel(d)
  <2>1. ASSUME NEW g \in Hands, At_work(hand'[g])
        PROVE  slot'[Holder[g]] = g
    <3>1. slot' = [slot EXCEPT ![d] = None] /\ Holder[g] \in Devices
      BY <1>2, DeviceAssumption DEF cancel
    <3>2. At_work(hand[g]) /\ (slot[d] = g => hand'[g].cancelled)
      <4>1. CASE slot[d] = None
        BY <1>2, <2>1, <4>1, DeviceAssumption DEF cancel
      <4>2. CASE slot[d] # None
        <5> DEFINE s == slot[d]
        <5>1. s \in Hands /\ hand' = [hand EXCEPT ![s] = [hand[s] EXCEPT !.cancelled = TRUE]]
          BY <1>1, <1>2, <4>2 DEF cancel, Becomes
        <5> HIDE DEF s
        <5>2. hand'[s].cancelled
          BY <1>1, <5>1 DEF Tasks
        <5>3. g # s
          BY <2>1, <5>2 DEF At_work
        <5> QED  BY <1>1, <2>1, <5>1, <5>2, <5>3 DEF s
      <4> QED  BY <4>1, <4>2
    <3>3. slot[Holder[g]] = g /\ slot[d] # g
      BY <1>1, <2>1, <3>2 DEF Grip, At_work
    <3> QED  BY <1>1, <3>1, <3>3
  <2> QED  BY <2>1 DEF Grip
<1>3. CASE Marks(d) \/ Abandons(d)
  BY <1>1, <1>3 DEF Marks, Abandons
<1>4. CASE serve_open_runs(d)
  <2>1. CASE UNCHANGED <<hand, slot>>
    BY <1>1, <2>1
  <2>2. CASE consider(d) /\ ~UNCHANGED <<hand, slot>>
    <3> DEFINE row == scan[d].row
               u == [Free EXCEPT !.at = "found", !.awaited = TRUE,
                       !.then = IF row.owner = d THEN "ready" ELSE "keep",
                       !.phase = IF row.listed THEN "describe" ELSE "discover"]
    <3>1. PICK h \in Hands : Becomes(h, u)
      BY <2>2 DEF consider
    <3>2. ~At_work(u)
      <4>1. Free.working = FALSE
        BY DEF Free
      <4> QED  BY <1>1, <4>1 DEF At_work, Tasks
    <3>3. UNCHANGED slot
      BY <2>2 DEF consider
    <3> HIDE DEF u
    <3> QED  BY <1>1, <3>1, <3>2, <3>3, GripKept
  <2> QED  BY <1>4, <2>1, <2>2
        DEF serve_open_runs, open_import_runs, Snapshot, Withheld, Drain, Reclaim, Reconcile
<1>5. CASE Dies(d)
  <2>1. ASSUME NEW g \in Hands, At_work(hand'[g])
        PROVE  slot'[Holder[g]] = g
    <3>1. Holder[g] # d /\ hand'[g] = hand[g] /\ Holder[g] \in Devices
      BY <1>1, <1>5, <2>1, DeviceAssumption DEF Dies
    <3> QED  BY <1>1, <1>5, <2>1, <3>1 DEF Dies, Grip
  <2> QED  BY <2>1 DEF Grip
<1> QED  BY <1>2, <1>3, <1>4, <1>5

LEMMA GripInit == DevicesInit => Grip(hand, slot)
  BY DEF DevicesInit, Grip, At_work, Free

LEMMA GripStep == DevicesInv /\ Grip(hand, slot) /\ [DevicesNext]_everything => Grip(hand, slot)'
<1> SUFFICES ASSUME DevicesInv, Grip(hand, slot), [DevicesNext]_everything PROVE Grip(hand', slot')
  BY DEF Grip, At_work
<1>1. Placed
  BY DEF Placed, DevicesInv, Sound, HandsOK, Shelf
<1>2. CASE \E h \in Hands : Takes(h) \/ Works(h) \/ Says(h)
  BY <1>1, <1>2, TakesGrip, WorksGrip, SaysGrip
<1>3. CASE \E h \in Hands : Keeper(h)
  <2>1. PICK h \in Hands : Keeper(h)
    BY <1>3
  <2> DEFINE t == hand[h]
             u == [t EXCEPT !.fenced = TRUE]
  <2>2. Becomes(h, u) /\ UNCHANGED slot /\ t \in Tasks
    BY <1>1, <2>1 DEF Keeper, Placed
  <2>3. ~At_work(u)
    BY <2>2 DEF At_work, Tasks
  <2> HIDE DEF u
  <2> QED  BY <1>1, <2>2, <2>3, GripKept DEF Placed
<1>4. CASE \E h \in Hands, phase \in Phases, takeover \in BOOLEAN : Press(h, phase, takeover)
  BY <1>1, <1>4, GripTaken DEF Press, Placed
<1>5. CASE \E d \in Devices : cancel(d) \/ Marks(d) \/ Abandons(d) \/ serve_open_runs(d) \/ Dies(d)
  BY <1>1, <1>5, DeviceGrip
<1>6. CASE UNCHANGED devices \/ UNCHANGED everything
  BY <1>6 DEF devices, everything
<1> QED  BY <1>2, <1>3, <1>4, <1>5, <1>6 DEF DevicesNext

-----------------------------------------------------------------------------
(* The theorems.                                                           *)

\* What a device keeps, holds and is at is of its type, whatever is lost,
\* refused or answered twice and however often it dies.
THEOREM DevicesTyped == DevicesSpec => []DevicesTypeOK
<1>1. DevicesInv => DevicesTypeOK
  BY DEF DevicesInv, DevicesTypeOK, Sound, JournalsOK, HandsOK, ScansOK, Shelf
<1> QED  BY <1>1, DevicesInvariance, PTL

\* What a journal calls acknowledged is described or settled at the server, so
\* that a resumed walk leaves out nothing that is owed.
THEOREM AcknowledgedAreDescribed == DevicesSpec => []AcknowledgedIsDescribed
<1>1. DevicesInv => AcknowledgedIsDescribed
  BY DEF DevicesInv, AcknowledgedIsDescribed, Sound, JournalsOK, JournalOK, View
<1> QED  BY <1>1, DevicesInvariance, PTL

\* A page that waits describes only rows a frozen selection has gone over,
\* whoever sends it and when.
THEOREM OwedPagesAreSelected == DevicesSpec => []OwedIsSelected
<1>1. DevicesInv => OwedIsSelected
  <2> SUFFICES ASSUME DevicesInv, NEW d \in Devices, NEW k \in DOMAIN journal[d].owed,
                      journal[d].owed[k].kind = "page"
               PROVE  Sendable(journal[d].owed[k].page)
    BY DEF OwedIsSelected
  <2>1. PICK mint \in Minting : JournalOK(journal[d], View(mint))
    BY DEF DevicesInv, Sound, JournalsOK
  <2>2. journal[d].owed[k] \in GoodPosts(View(mint))
    BY <2>1, QueueOps DEF JournalOK, Queues
  <2> QED  BY <2>2 DEF GoodPosts, Good, Sendable, View, Chosen
<1> QED  BY <1>1, DevicesInvariance, PTL

\* Work that nothing has told to end holds the slot that a stop raises.
THEOREM WorkIsHeld == DevicesSpec => []WorkCanBeStopped
<1>1. DevicesSpec => []Grip(hand, slot)
  BY DevicesInvariance, GripInit, GripStep, PTL DEF DevicesSpec
<1>2. Grip(hand, slot) => WorkCanBeStopped
  BY GripIs
<1> QED  BY <1>1, <1>2, PTL

\* Whatever the devices do, the server sees one of its own runs: what is proved
\* of ImportRuns holds of a run that devices read.
THEOREM DevicesImplementRun == DevicesSpec => Spec
<1>1. DevicesInit => Init
  BY DEF DevicesInit
<1>2. DevicesInv /\ [DevicesNext]_everything => [Next]_vars
  BY DevicesInvStep
<1> QED  BY <1>1, <1>2, DevicesInvariance, PTL DEF DevicesSpec, Spec
=============================================================================
