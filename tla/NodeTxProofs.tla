----------------------------- MODULE NodeTxProofs -----------------------------
(***************************************************************************)
(* No frame is put on the air more than MaxAttempts times and no sequence  *)
(* number is pending twice, for any size of the queue, the pending window, *)
(* the slot and the sequence space, and any setting of the timers.         *)
(*                                                                         *)
(* AirBudget speaks of frames, the code of queue places and pending slots. *)
(* The invariant AirInv ties them together: a frame is in one place at     *)
(* most, a queued frame has not been on the air, and a pending entry has   *)
(* counted every time its frame was.                                       *)
(***************************************************************************)
EXTENDS NodeTx, FiniteSetTheorems, WellFoundedInduction, TLAPS

Telemetry == {f \in Frames : f.kind \in TelemetryKinds}

EntryShape == [used : {TRUE}, frame : Telemetry, age : Int, since : Int,
               attempts : Int, sent : BOOLEAN, alive : Nat]

\* The entry e accounts for how often its frame was heard on the air.
Accounts(e, heard, n) ==
  /\ e.frame.id < n
  /\ e.attempts \in 1 .. MaxAttempts
  /\ e.sent => heard[e.frame.id] <= e.attempts
  /\ ~e.sent => heard[e.frame.id] = 0 /\ e.attempts = 1

\* No number is pending twice.
OneEach(p) ==
  \A i, j \in Slots :
    IsUsed(p[i]) /\ IsUsed(p[j]) /\ p[i].frame.seq = p[j].frame.seq => i = j

PendingOK(p, heard, n) ==
  /\ p \in [Slots -> EntryShape \cup {Free}]
  /\ OneEach(p)
  /\ \A i \in Slots : IsUsed(p[i]) => Accounts(p[i], heard, n)
  /\ \A i, j \in Slots :
       IsUsed(p[i]) /\ IsUsed(p[j]) /\ p[i].frame.id = p[j].frame.id => i = j

QueueOK(q, heard, n) ==
  /\ q \in Seq(Frames)
  /\ \A k \in 1 .. Len(q) : q[k].id < n /\ heard[q[k].id] = 0
  /\ \A k, l \in 1 .. Len(q) : q[k].id = q[l].id => k = l

Absent(id, p) == \A i \in Slots : IsUsed(p[i]) => p[i].frame.id # id

Apart(q, p) == \A k \in 1 .. Len(q) : Absent(q[k].id, p)

HeardOK(heard, n) ==
  /\ heard \in [Ids -> Nat]
  /\ \A id \in Ids : heard[id] <= MaxAttempts /\ (id >= n => heard[id] = 0)

AirInv ==
  /\ nextSeq \in Seqs
  /\ nextId \in 1 .. MaxId + 1
  /\ HeardOK(onAir, nextId)
  /\ QueueOK(queue, onAir, nextId)
  /\ PendingOK(pending, onAir, nextId)
  /\ Apart(queue, pending)

-----------------------------------------------------------------------------
\* Reading a slot of a good pending window.
LEMMA EntryIsUsed ==
  ASSUME NEW e \in EntryShape
  PROVE  IsUsed(e) = TRUE
  BY Zenon DEF EntryShape, IsUsed

LEMMA FreeIsUnused == IsUsed(Free) = FALSE
  BY Zenon DEF Free, IsUsed

LEMMA SlotIsTyped ==
  ASSUME NEW p \in [Slots -> EntryShape \cup {Free}], NEW i \in Slots
  PROVE  /\ IsUsed(p[i]) => p[i] \in EntryShape
         /\ ~IsUsed(p[i]) => p[i] = Free
<1>1. p[i] \in EntryShape \/ p[i] = Free
  OBVIOUS
<1>. QED  BY <1>1, EntryIsUsed, FreeIsUnused, Zenon

LEMMA EntryIsTyped ==
  ASSUME NEW e \in EntryShape
  PROVE  /\ e.frame \in Telemetry /\ e.frame \in Frames
         /\ e.attempts \in Int /\ e.sent \in BOOLEAN
         /\ e.age \in Int /\ e.since \in Int /\ e.alive \in Nat
<1>1. /\ e.frame \in Telemetry /\ e.attempts \in Int /\ e.sent \in BOOLEAN
      /\ e.age \in Int /\ e.since \in Int /\ e.alive \in Nat
  BY Zenon DEF EntryShape
<1>. QED  BY <1>1, Zenon DEF Telemetry

\* What the code assigns to single fields of an entry.
LEMMA ShiftedEntry ==
  ASSUME NEW e \in EntryShape, NEW k \in Int
  PROVE  LET e2 == [e EXCEPT !.age = e.age - k, !.since = e.since - k]
         IN  /\ e2 \in EntryShape /\ e2.frame = e.frame
             /\ e2.attempts = e.attempts /\ e2.sent = e.sent
<1>1. e.age \in Int /\ e.since \in Int
  BY Zenon DEF EntryShape
<1>2. e.age - k \in Int /\ e.since - k \in Int
  BY <1>1
<1>. QED  BY <1>2, Zenon DEF EntryShape

LEMMA RefreshedEntry ==
  ASSUME NEW e \in EntryShape, NEW f \in Telemetry
  PROVE  LET e2 == [e EXCEPT !.frame = f, !.since = 0]
         IN  /\ e2 \in EntryShape /\ e2.frame = f
             /\ e2.attempts = e.attempts /\ e2.sent = e.sent
<1>1. 0 \in Int
  OBVIOUS
<1>. QED  BY <1>1, Zenon DEF EntryShape

LEMMA CountedEntry ==
  ASSUME NEW e \in EntryShape, NEW n \in Int
  PROVE  LET e2 == [e EXCEPT !.since = 0, !.attempts = n]
         IN  /\ e2 \in EntryShape /\ e2.frame = e.frame
             /\ e2.attempts = n /\ e2.sent = e.sent
<1>1. 0 \in Int
  OBVIOUS
<1>. QED  BY <1>1, Zenon DEF EntryShape

LEMMA NewEntry ==
  ASSUME NEW f \in Telemetry, NEW ok \in BOOLEAN
  PROVE  /\ Entry(f, ok) \in EntryShape
         /\ Entry(f, ok).frame = f /\ Entry(f, ok).attempts = 1
         /\ Entry(f, ok).sent = ok
<1>1. 0 \in Int /\ 1 \in Int /\ 0 \in Nat
  OBVIOUS
<1>. QED  BY <1>1, Zenon DEF EntryShape, Entry

(***************************************************************************)
(* One of finitely many slots is at least as good as every other, if being *)
(* so is total and transitive; R[i] are the slots i is as good as.  It is  *)
(* what makes the code's searches for a best slot find one.                *)
(***************************************************************************)
LEMMA BestExists ==
  ASSUME NEW S, S \subseteq Slots, S # {}, NEW R,
         \A i \in S : i \in R[i],
         \A i, j \in S : i \in R[j] \/ j \in R[i],
         \A i, j, k \in S : j \in R[i] /\ k \in R[j] => k \in R[i]
  PROVE  \E i \in S : \A j \in S : j \in R[i]
<1>. DEFINE Above(i) == {j \in S : i \in R[j]}
            Aboves == {Above(i) : i \in S}
<1>1. PICK X \in Aboves : \A Y \in Aboves : ~(<<Y, X>> \in StrictSubsetOrdering(S))
  <2>1. IsFiniteSet(S)
    <3>1. IsFiniteSet(Slots)
      BY FS_Interval, NodeTxAssumption DEF Slots
    <3>. QED  BY <3>1, FS_Subset
  <2>2. IsWellFoundedOn(StrictSubsetOrdering(S), SUBSET S)
    BY <2>1, FS_StrictSubsetOrderingWellFounded, FS_FiniteSubsetsOfFinite
  <2>3. Aboves \subseteq SUBSET S /\ Aboves # {}
    <3>1. \A i : Above(i) \in SUBSET S
      OBVIOUS
    <3>2. PICK i0 : i0 \in S
      OBVIOUS
    <3>3. Above(i0) \in Aboves
      BY <3>2
    <3>. HIDE DEF Above
    <3>. QED  BY <3>1, <3>3
  <2>. HIDE DEF Aboves
  <2>. QED  BY <2>2, <2>3, WFMin
<1>2. PICK i \in S : X = Above(i)
  OBVIOUS
<1>3. SUFFICES ASSUME NEW j \in S, j \notin R[i]  PROVE FALSE
  OBVIOUS
<1>4. Above(j) \subseteq Above(i)
  BY <1>3
<1>5. i \in Above(i) /\ i \notin Above(j)
  BY <1>3
<1>6. <<Above(j), Above(i)>> \in StrictSubsetOrdering(S)
  BY <1>4, <1>5 DEF StrictSubsetOrdering
<1>. QED  BY <1>1, <1>2, <1>6

LEMMA FirstExists ==
  ASSUME NEW S, S \subseteq Slots, S # {}
  PROVE  \E i \in S : \A j \in S : i <= j
<1>. DEFINE R == [i \in S |-> {j \in S : i <= j}]
<1>1. S \subseteq Int
  BY DEF Slots
<1>2. \A i, j \in S : j \in R[i] <=> i <= j
  OBVIOUS
<1>. HIDE DEF R
<1>3. /\ \A i \in S : i \in R[i]
      /\ \A i, j \in S : i \in R[j] \/ j \in R[i]
      /\ \A i, j, k \in S : j \in R[i] /\ k \in R[j] => k \in R[i]
  BY <1>1, <1>2
<1>4. \E i \in S : \A j \in S : j \in R[i]
  BY <1>3, BestExists, Zenon
<1>. QED  BY <1>2, <1>4

\* pickRetransmitCandidate finds a ready entry where there is one.
LEMMA CandidateIsReady ==
  ASSUME pending \in [Slots -> EntryShape \cup {Free}], ReadySlots # {}
  PROVE  Candidate \in ReadySlots
<1>. DEFINE Beats(i, j) == \/ pending[j].since < pending[i].since
                           \/ pending[j].since = pending[i].since /\ i <= j
            R == [i \in ReadySlots |-> {j \in ReadySlots : Beats(i, j)}]
<1>1. ReadySlots \subseteq Slots
  BY DEF ReadySlots
<1>2. \A i \in ReadySlots : i \in Int /\ pending[i].since \in Int
  <2>. SUFFICES ASSUME NEW i \in ReadySlots  PROVE i \in Int /\ pending[i].since \in Int
    OBVIOUS
  <2>1. i \in Slots /\ IsUsed(pending[i])
    BY DEF ReadySlots, Ready
  <2>2. pending[i] \in EntryShape
    BY <2>1, SlotIsTyped
  <2>3. pending[i].since \in Int
    BY <2>2, EntryIsTyped
  <2>4. i \in Int
    BY <2>1 DEF Slots
  <2>. QED  BY <2>3, <2>4
<1>3. \A i, j \in ReadySlots : j \in R[i] <=> Beats(i, j)
  OBVIOUS
<1>4. /\ \A i \in ReadySlots : Beats(i, i)
      /\ \A i, j \in ReadySlots : Beats(j, i) \/ Beats(i, j)
      /\ \A i, j, k \in ReadySlots : Beats(i, j) /\ Beats(j, k) => Beats(i, k)
  BY <1>2
<1>. HIDE DEF R, Beats
<1>5. \E i \in ReadySlots : \A j \in ReadySlots : Beats(i, j)
  BY <1>1, <1>3, <1>4, BestExists
<1>. USE DEF Beats
<1>. QED  BY <1>5 DEF Candidate

\* rememberSentTelemetry finds an entry to replace when every slot is used.
LEMMA ReplacedIsSlot ==
  ASSUME NEW p \in [Slots -> EntryShape]
  PROVE  Replaced(p) \in Slots
<1>. DEFINE Beats(i, j) == \/ p[j].attempts < p[i].attempts
                           \/ /\ p[j].attempts = p[i].attempts
                              /\ \/ Larger(p[i].age, p[j].age)
                                 \/ p[i].age = p[j].age /\ i <= j
            R == [i \in Slots |-> {j \in Slots : Beats(i, j)}]
<1>1. Slots # {} /\ Slots \subseteq Int
  BY NodeTxAssumption DEF Slots
<1>2. \A i \in Slots : i \in Int /\ p[i].attempts \in Int /\ p[i].age \in Int
  BY <1>1, EntryIsTyped
<1>3. \A i, j \in Slots : j \in R[i] <=> Beats(i, j)
  OBVIOUS
<1>4. /\ \A i \in Slots : Beats(i, i)
      /\ \A i, j \in Slots : Beats(j, i) \/ Beats(i, j)
      /\ \A i, j, k \in Slots : Beats(i, j) /\ Beats(j, k) => Beats(i, k)
  BY <1>2 DEF Larger
<1>. HIDE DEF R, Beats
<1>5. /\ \A i \in Slots : i \in R[i]
      /\ \A i, j \in Slots : i \in R[j] \/ j \in R[i]
      /\ \A i, j, k \in Slots : j \in R[i] /\ k \in R[j] => k \in R[i]
  BY <1>3, <1>4, Zenon
<1>6. \E i \in Slots : \A j \in Slots : j \in R[i]
  BY <1>1, <1>5, BestExists, Zenon
<1>7. \E i \in Slots : \A j \in Slots : Beats(i, j)
  BY <1>3, <1>6, Zenon
<1>. USE DEF Beats
<1>. QED  BY <1>7 DEF Replaced

-----------------------------------------------------------------------------
(***************************************************************************)
(* What the changes of the pending window keep.  Dropping entries, ageing  *)
(* them and shifting their stamps all make a window that is Similar.       *)
(***************************************************************************)
Similar(p2, p) ==
  /\ p2 \in [Slots -> EntryShape \cup {Free}]
  /\ \A i \in Slots : IsUsed(p2[i]) =>
       /\ IsUsed(p[i])
       /\ p2[i].frame = p[i].frame
       /\ p2[i].attempts = p[i].attempts
       /\ p2[i].sent = p[i].sent

LEMMA SimilarIsOK ==
  ASSUME NEW p, NEW p2, NEW heard, NEW n, PendingOK(p, heard, n), Similar(p2, p)
  PROVE  /\ PendingOK(p2, heard, n)
         /\ \A id : Absent(id, p) => Absent(id, p2)
  BY DEF PendingOK, Similar, Accounts, Absent, OneEach

LEMMA UnexpiredIsSimilar ==
  ASSUME NEW p \in [Slots -> EntryShape \cup {Free}]
  PROVE  Similar(Unexpired(p), p)
  BY DEF Similar, Unexpired, IsUsed, Free

LEMMA ShiftedIsSimilar ==
  ASSUME NEW p \in [Slots -> EntryShape \cup {Free}], NEW k \in Int
  PROVE  Similar(Shifted(p, k), p)
<1>1. ASSUME NEW i \in Slots, IsUsed(p[i])
      PROVE  LET e2 == Shifted(p, k)[i]
             IN  /\ e2 \in EntryShape /\ e2.frame = p[i].frame
                 /\ e2.attempts = p[i].attempts /\ e2.sent = p[i].sent
  <2>1. p[i] \in EntryShape
    BY <1>1, SlotIsTyped
  <2>. DEFINE e2 == [p[i] EXCEPT !.age = p[i].age - k, !.since = p[i].since - k]
  <2>3. Shifted(p, k)[i] = e2
    BY <1>1, Zenon DEF Shifted
  <2>4. /\ e2 \in EntryShape /\ e2.frame = p[i].frame
        /\ e2.attempts = p[i].attempts /\ e2.sent = p[i].sent
    BY <2>1, ShiftedEntry, Zenon
  <2>. HIDE DEF e2
  <2>. QED  BY <2>3, <2>4
<1>2. ASSUME NEW i \in Slots, ~IsUsed(p[i])
      PROVE  Shifted(p, k)[i] = Free
  BY <1>2, SlotIsTyped, Zenon DEF Shifted
<1>3. \E g \in [Slots -> EntryShape \cup {Free}] : Shifted(p, k) = g
  <2>1. \A i \in Slots : Shifted(p, k)[i] \in EntryShape \cup {Free}
    BY <1>1, <1>2
  <2>2. Shifted(p, k) = [i \in Slots |-> Shifted(p, k)[i]]
    BY Zenon DEF Shifted
  <2>. HIDE DEF Shifted
  <2>. QED  BY <2>1, <2>2, Zenon
<1>. QED  BY <1>1, <1>2, <1>3, FreeIsUnused, Zenon DEF Similar

LEMMA AcknowledgedIsSimilar ==
  ASSUME NEW p \in [Slots -> EntryShape \cup {Free}], NEW base, NEW mask
  PROVE  Similar(Acknowledged(p, base, mask), p)
  BY DEF Similar, Acknowledged, IsUsed, Free

LEMMA OlderIsTyped ==
  ASSUME NEW d \in Int
  PROVE  Older(d) \in Int /\ (d \in Nat => Older(d) \in Nat)
<1>1. d + 1 \in Int /\ (d \in Nat => d + 1 \in Nat)
  OBVIOUS
<1>. QED  BY <1>1, Zenon DEF Older

LEMMA AgedEntry ==
  ASSUME NEW e \in EntryShape
  PROVE  LET e2 == [e EXCEPT !.age = Older(e.age), !.since = Older(e.since),
                             !.alive = Older(e.alive)]
         IN  /\ e2 \in EntryShape /\ e2.frame = e.frame
             /\ e2.attempts = e.attempts /\ e2.sent = e.sent
<1>1. Older(e.age) \in Int /\ Older(e.since) \in Int /\ Older(e.alive) \in Nat
  <2>1. e.age \in Int /\ e.since \in Int /\ e.alive \in Nat /\ e.alive \in Int
    BY EntryIsTyped
  <2>. QED  BY <2>1, OlderIsTyped
<1>. QED  BY <1>1, Zenon DEF EntryShape

LEMMA AgedIsSimilar ==
  ASSUME NEW p \in [Slots -> EntryShape \cup {Free}], NEW q,
         q = [i \in Slots |->
                IF IsUsed(p[i])
                THEN [p[i] EXCEPT !.age = Older(@), !.since = Older(@), !.alive = Older(@)]
                ELSE Free]
  PROVE  Similar(q, p)
<1>2. ASSUME NEW i \in Slots, IsUsed(p[i])
      PROVE  /\ q[i] \in EntryShape /\ q[i].frame = p[i].frame
             /\ q[i].attempts = p[i].attempts /\ q[i].sent = p[i].sent
  <2>1. p[i] \in EntryShape
    BY <1>2, SlotIsTyped
  <2>. DEFINE e2 == [p[i] EXCEPT !.age = Older(p[i].age), !.since = Older(p[i].since),
                                 !.alive = Older(p[i].alive)]
  <2>3. q[i] = e2
    BY <1>2, Zenon
  <2>4. /\ e2 \in EntryShape /\ e2.frame = p[i].frame
        /\ e2.attempts = p[i].attempts /\ e2.sent = p[i].sent
    BY <2>1, AgedEntry, Zenon
  <2>. HIDE DEF e2
  <2>. QED  BY <2>3, <2>4
<1>3. ASSUME NEW i \in Slots, ~IsUsed(p[i])
      PROVE  q[i] = Free
  BY <1>3, Zenon
<1>4. q \in [Slots -> EntryShape \cup {Free}]
  <2>1. \A i \in Slots : q[i] \in EntryShape \cup {Free}
    BY <1>2, <1>3
  <2>2. q = [i \in Slots |-> q[i]]
    BY Zenon
  <2>. QED  BY <2>1, <2>2, Zenon
<1>. QED  BY <1>2, <1>3, <1>4, FreeIsUnused, Zenon DEF Similar

-----------------------------------------------------------------------------
(***************************************************************************)
(* A window with one slot rewritten, after the frame written there may     *)
(* have been on the air once more.                                         *)
(***************************************************************************)
Keeps(p2, p, id) == \A other \in Ids \ {id} : Absent(other, p) => Absent(other, p2)

OtherNumbers(p, i, seq) ==
  \A j \in Slots \ {i} : IsUsed(p[j]) => p[j].frame.seq # seq

LEMMA PutIsOK ==
  ASSUME NEW p, NEW heard, NEW heard2, NEW n, NEW i \in Slots, NEW e \in EntryShape,
         PendingOK(p, heard, n), Accounts(e, heard2, n),
         \A j \in Slots \ {i} : IsUsed(p[j]) =>
           /\ p[j].frame.id # e.frame.id
           /\ heard2[p[j].frame.id] = heard[p[j].frame.id],
         OtherNumbers(p, i, e.frame.seq)
  PROVE  /\ PendingOK([p EXCEPT ![i] = e], heard2, n)
         /\ Keeps([p EXCEPT ![i] = e], p, e.frame.id)
<1>. DEFINE q == [p EXCEPT ![i] = e]
<1>1. p \in [Slots -> EntryShape \cup {Free}]
  BY DEF PendingOK
<1>2. q \in [Slots -> EntryShape \cup {Free}]
  BY <1>1
<1>3. q[i] = e /\ \A j \in Slots \ {i} : q[j] = p[j]
  BY <1>1
<1>. HIDE DEF q
<1>4. ASSUME NEW j \in Slots, IsUsed(q[j])
      PROVE  Accounts(q[j], heard2, n)
  <2>1. CASE j = i
    BY <1>3, <2>1
  <2>2. CASE j # i
    BY <1>3, <1>4, <2>2 DEF PendingOK, Accounts
  <2>. QED  BY <2>1, <2>2
<1>5. \A j, k \in Slots : IsUsed(q[j]) /\ IsUsed(q[k]) /\ q[j].frame.id = q[k].frame.id => j = k
  BY <1>3 DEF PendingOK
<1>6. OneEach(q)
  BY <1>3 DEF PendingOK, OneEach, OtherNumbers
<1>7. PendingOK(q, heard2, n)
  BY <1>2, <1>4, <1>5, <1>6 DEF PendingOK
<1>8. Keeps(q, p, e.frame.id)
  BY <1>3 DEF Keeps, Absent
<1>. QED  BY <1>7, <1>8 DEF q

\* A frame that is not pending may be on the air.
LEMMA OthersStayOK ==
  ASSUME NEW p, NEW heard, NEW heard2, NEW n, NEW id,
         PendingOK(p, heard, n), Absent(id, p),
         \A other \in Ids \ {id} : heard2[other] = heard[other]
  PROVE  PendingOK(p, heard2, n)
<1>1. p \in [Slots -> EntryShape \cup {Free}]
  BY DEF PendingOK
<1>2. ASSUME NEW i \in Slots, IsUsed(p[i])
      PROVE  heard2[p[i].frame.id] = heard[p[i].frame.id]
  <2>1. p[i].frame \in Frames
    BY <1>1, <1>2, SlotIsTyped, EntryIsTyped
  <2>2. p[i].frame.id \in Ids
    BY <2>1 DEF Frames
  <2>. QED  BY <1>2, <2>2 DEF Absent
<1>. QED  BY <1>2 DEF PendingOK, Accounts

(***************************************************************************)
(* rememberSentTelemetry writes at most one slot: the one with the frame's *)
(* number if there is one, a free one or a replaced one if there is none.  *)
(***************************************************************************)
NewAt(p, i, f, ok)   == [p EXCEPT ![i] = Entry(f, ok)]
RefreshedAt(p, i, f) == [p EXCEPT ![i] = [p[i] EXCEPT !.frame = f, !.since = 0]]

LEMMA RememberedWrites ==
  ASSUME NEW p \in [Slots -> EntryShape \cup {Free}], NEW f \in Frames, NEW ok \in BOOLEAN,
         OneEach(p)
  PROVE  \/ f.kind \notin TelemetryKinds /\ Remembered(p, f, ok) = p
         \/ \E i \in Slots : /\ f \in Telemetry /\ OtherNumbers(p, i, f.seq)
                             /\ Remembered(p, f, ok) = NewAt(p, i, f, ok)
         \/ \E i \in Slots :
              /\ f \in Telemetry /\ OtherNumbers(p, i, f.seq) /\ IsUsed(p[i]) /\ ~ok
              /\ Remembered(p, f, ok) = RefreshedAt(p, i, f)
<1>. DEFINE same == {i \in Slots : IsUsed(p[i]) /\ p[i].frame.seq = f.seq}
            free == {i \in Slots : ~IsUsed(p[i])}
            first(S) == CHOOSE i \in S : \A j \in S : i <= j
<1>1. ASSUME NEW S, S \subseteq Slots, S # {}  PROVE first(S) \in S
  BY <1>1, FirstExists
<1>2. \A i \in same : OtherNumbers(p, i, f.seq)
  BY DEF OtherNumbers, OneEach
<1>3. same = {} => \A i \in Slots : OtherNumbers(p, i, f.seq)
  BY DEF OtherNumbers
<1>8. f.kind \in TelemetryKinds => f \in Telemetry
  BY DEF Telemetry
<1>4. CASE f.kind \notin TelemetryKinds
  BY <1>4 DEF Remembered
<1>5. CASE f.kind \in TelemetryKinds /\ same # {}
  <2>. DEFINE i == first(same)
  <2>1. i \in same
    BY <1>1, <1>5
  <2>2. i \in Slots /\ IsUsed(p[i]) /\ OtherNumbers(p, i, f.seq)
    BY <1>2, <2>1
  <2>3. Remembered(p, f, ok) =
          [p EXCEPT ![i] = IF ok THEN Entry(f, TRUE) ELSE [p[i] EXCEPT !.frame = f, !.since = 0]]
    BY <1>5, Zenon DEF Remembered
  <2>. HIDE DEF i
  <2>4. CASE ok
    <3>1. Remembered(p, f, ok) = NewAt(p, i, f, ok)
      BY <2>3, <2>4 DEF NewAt
    <3>. QED  BY <1>5, <1>8, <2>2, <3>1
  <2>5. CASE ~ok
    <3>1. Remembered(p, f, ok) = RefreshedAt(p, i, f)
      BY <2>3, <2>5 DEF RefreshedAt
    <3>. QED  BY <1>5, <1>8, <2>2, <2>5, <3>1
  <2>. QED  BY <2>4, <2>5
<1>6. CASE f.kind \in TelemetryKinds /\ same = {} /\ free # {}
  <2>1. first(free) \in Slots
    BY <1>1, <1>6
  <2>2. Remembered(p, f, ok) = NewAt(p, first(free), f, ok)
    BY <1>6, Zenon DEF Remembered, NewAt
  <2>. HIDE DEF first
  <2>. QED  BY <1>3, <1>6, <1>8, <2>1, <2>2
<1>7. CASE f.kind \in TelemetryKinds /\ same = {} /\ free = {}
  <2>1. Remembered(p, f, ok) = NewAt(p, Replaced(p), f, ok)
    BY <1>7, Zenon DEF Remembered, NewAt
  <2>2. p \in [Slots -> EntryShape]
    BY <1>7, SlotIsTyped
  <2>3. Replaced(p) \in Slots
    BY <2>2, ReplacedIsSlot
  <2>. QED  BY <1>3, <1>7, <1>8, <2>1, <2>3
<1>. HIDE DEF same, free
<1>. QED  BY <1>4, <1>5, <1>6, <1>7

\* Of a frame that has not been on the air before this send and is not pending.
LEMMA RememberedIsOK ==
  ASSUME NEW p, NEW heard, NEW heard2, NEW n, NEW f \in Frames, NEW ok \in BOOLEAN,
         PendingOK(p, heard, n), Absent(f.id, p), f.id < n,
         heard2[f.id] = IF ok THEN 1 ELSE 0,
         \A other \in Ids \ {f.id} : heard2[other] = heard[other]
  PROVE  /\ PendingOK(Remembered(p, f, ok), heard2, n)
         /\ Keeps(Remembered(p, f, ok), p, f.id)
<1>1. p \in [Slots -> EntryShape \cup {Free}] /\ OneEach(p)
  BY DEF PendingOK
<1>2. \A j \in Slots : IsUsed(p[j]) =>
        p[j].frame.id # f.id /\ heard2[p[j].frame.id] = heard[p[j].frame.id]
  <2>. SUFFICES ASSUME NEW j \in Slots, IsUsed(p[j])
                PROVE  p[j].frame.id # f.id /\ heard2[p[j].frame.id] = heard[p[j].frame.id]
    OBVIOUS
  <2>1. p[j].frame \in Frames
    BY <1>1, SlotIsTyped, EntryIsTyped
  <2>2. p[j].frame.id \in Ids
    BY <2>1 DEF Frames
  <2>. QED  BY <2>2 DEF Absent
<1>3. ASSUME NEW i \in Slots, f \in Telemetry, OtherNumbers(p, i, f.seq)
      PROVE  /\ PendingOK(NewAt(p, i, f, ok), heard2, n)
             /\ Keeps(NewAt(p, i, f, ok), p, f.id)
  <2>. DEFINE e == Entry(f, ok)
  <2>1. e \in EntryShape /\ e.frame = f /\ e.attempts = 1 /\ e.sent = ok
    BY <1>3, NewEntry
  <2>. HIDE DEF e
  <2>2. Accounts(e, heard2, n)
    BY <2>1, NodeTxAssumption DEF Accounts
  <2>3. PendingOK([p EXCEPT ![i] = e], heard2, n) /\ Keeps([p EXCEPT ![i] = e], p, e.frame.id)
    BY <1>2, <1>3, <2>1, <2>2, PutIsOK
  <2>. QED  BY <2>1, <2>3 DEF e, NewAt
<1>4. ASSUME NEW i \in Slots, f \in Telemetry, OtherNumbers(p, i, f.seq), IsUsed(p[i]), ~ok
      PROVE  /\ PendingOK(RefreshedAt(p, i, f), heard2, n)
             /\ Keeps(RefreshedAt(p, i, f), p, f.id)
  <2>. DEFINE e == [p[i] EXCEPT !.frame = f, !.since = 0]
  <2>1. p[i] \in EntryShape
    BY <1>1, <1>4, SlotIsTyped
  <2>2. /\ e \in EntryShape /\ e.frame = f
        /\ e.attempts = p[i].attempts /\ e.sent = p[i].sent
    BY <1>4, <2>1, RefreshedEntry, Zenon
  <2>. HIDE DEF e
  <2>3. p[i].attempts \in 1 .. MaxAttempts /\ (~p[i].sent => p[i].attempts = 1)
    BY <1>4 DEF PendingOK, Accounts
  <2>4. Accounts(e, heard2, n)
    BY <1>4, <2>2, <2>3 DEF Accounts
  <2>5. PendingOK([p EXCEPT ![i] = e], heard2, n) /\ Keeps([p EXCEPT ![i] = e], p, e.frame.id)
    BY <1>2, <1>4, <2>2, <2>4, PutIsOK
  <2>. QED  BY <2>2, <2>5 DEF e, RefreshedAt
<1>5. CASE Remembered(p, f, ok) = p
  BY <1>5, OthersStayOK DEF Keeps
<1>. QED  BY <1>1, <1>3, <1>4, <1>5, RememberedWrites

\* markRetransmitSent rewrites the entry that was sent.
LEMMA MarkedSentWrites ==
  ASSUME NEW p, NEW i \in Slots, p[i] \in EntryShape
  PROVE  \E e \in EntryShape :
           /\ e.frame = p[i].frame /\ e.sent = TRUE
           /\ e.attempts = (IF p[i].sent THEN p[i].attempts + 1 ELSE 1)
           /\ MarkedSent(p, i) = [p EXCEPT ![i] = e]
<1>1. p[i].frame \in Telemetry /\ p[i].attempts \in Int /\ p[i].sent \in BOOLEAN
  BY EntryIsTyped
<1>2. CASE p[i].sent
  <2>. DEFINE e == [p[i] EXCEPT !.since = 0, !.attempts = p[i].attempts + 1]
  <2>1. p[i].attempts + 1 \in Int
    BY <1>1
  <2>2. /\ e \in EntryShape /\ e.frame = p[i].frame
        /\ e.attempts = p[i].attempts + 1 /\ e.sent = p[i].sent
    BY <2>1, CountedEntry, Zenon
  <2>3. MarkedSent(p, i) = [p EXCEPT ![i] = e]
    BY <1>2, Zenon DEF MarkedSent
  <2>4. e.sent = TRUE
    BY <1>1, <1>2, <2>2, Zenon
  <2>. HIDE DEF e
  <2>. QED  BY <1>2, <2>2, <2>3, <2>4
<1>3. CASE ~p[i].sent
  <2>. DEFINE e == Entry(p[i].frame, TRUE)
  <2>1. e \in EntryShape /\ e.frame = p[i].frame /\ e.attempts = 1 /\ e.sent = TRUE
    BY <1>1, NewEntry
  <2>2. MarkedSent(p, i) = [p EXCEPT ![i] = e]
    BY <1>3, Zenon DEF MarkedSent
  <2>. HIDE DEF e
  <2>. QED  BY <1>3, <2>1, <2>2
<1>. QED  BY <1>2, <1>3

\* Of an entry that has attempts left, or has not reached the air.
LEMMA MarkedSentIsOK ==
  ASSUME NEW p, NEW heard, NEW heard2, NEW n, NEW i \in Slots,
         PendingOK(p, heard, n), IsUsed(p[i]), p[i].attempts < MaxAttempts \/ ~p[i].sent,
         heard \in [Ids -> Nat],
         heard2[p[i].frame.id] = heard[p[i].frame.id] + 1,
         \A other \in Ids \ {p[i].frame.id} : heard2[other] = heard[other]
  PROVE  /\ PendingOK(MarkedSent(p, i), heard2, n)
         /\ Keeps(MarkedSent(p, i), p, p[i].frame.id)
         /\ heard2[p[i].frame.id] <= MaxAttempts
<1>1. p \in [Slots -> EntryShape \cup {Free}] /\ Accounts(p[i], heard, n)
  BY DEF PendingOK
<1>2. p[i] \in EntryShape
  BY <1>1, SlotIsTyped
<1>3. p[i].frame \in Frames /\ p[i].attempts \in Int /\ p[i].sent \in BOOLEAN
  BY <1>2, EntryIsTyped
<1>4. p[i].frame.id \in Ids /\ heard[p[i].frame.id] \in Nat
  BY <1>3 DEF Frames
<1>5. \A j \in Slots \ {i} : IsUsed(p[j]) =>
        p[j].frame.id # p[i].frame.id /\ heard2[p[j].frame.id] = heard[p[j].frame.id]
  <2>. SUFFICES ASSUME NEW j \in Slots \ {i}, IsUsed(p[j])
                PROVE  p[j].frame.id # p[i].frame.id
                         /\ heard2[p[j].frame.id] = heard[p[j].frame.id]
    OBVIOUS
  <2>1. p[j].frame \in Frames
    BY <1>1, SlotIsTyped, EntryIsTyped
  <2>2. p[j].frame.id \in Ids
    BY <2>1 DEF Frames
  <2>3. p[j].frame.id # p[i].frame.id
    BY DEF PendingOK
  <2>. QED  BY <2>2, <2>3
<1>6. PICK e \in EntryShape :
        /\ e.frame = p[i].frame /\ e.sent = TRUE
        /\ e.attempts = (IF p[i].sent THEN p[i].attempts + 1 ELSE 1)
        /\ MarkedSent(p, i) = [p EXCEPT ![i] = e]
  BY <1>2, MarkedSentWrites
<1>7. e.attempts \in 1 .. MaxAttempts /\ heard2[p[i].frame.id] <= e.attempts
  BY <1>1, <1>3, <1>4, <1>6, NodeTxAssumption DEF Accounts
<1>8. Accounts(e, heard2, n)
  BY <1>1, <1>6, <1>7 DEF Accounts
<1>9. \A j \in Slots \ {i} : IsUsed(p[j]) =>
        p[j].frame.id # e.frame.id /\ heard2[p[j].frame.id] = heard[p[j].frame.id]
  BY <1>5, <1>6
<1>10. PendingOK([p EXCEPT ![i] = e], heard2, n) /\ Keeps([p EXCEPT ![i] = e], p, e.frame.id)
  <2>1. OtherNumbers(p, i, e.frame.seq)
    BY <1>6 DEF PendingOK, OneEach, OtherNumbers
  <2>. QED  BY <1>8, <1>9, <2>1, PutIsOK
<1>11. heard2[p[i].frame.id] <= MaxAttempts
  BY <1>4, <1>7, NodeTxAssumption
<1>. QED  BY <1>6, <1>10, <1>11

-----------------------------------------------------------------------------
(***************************************************************************)
(* What the changes of the queue keep.                                     *)
(***************************************************************************)
Lacks(q, id) == \A k \in 1 .. Len(q) : q[k].id # id

LEMMA HeadIsFrame ==
  ASSUME NEW q, NEW heard, NEW n, QueueOK(q, heard, n), q # <<>>
  PROVE  /\ Head(q) \in Frames /\ Head(q).id < n /\ heard[Head(q).id] = 0
         /\ \A p : Apart(q, p) => Absent(Head(q).id, p)
<1>1. q \in Seq(Frames) /\ 1 \in 1 .. Len(q) /\ Head(q) = q[1]
  BY DEF QueueOK
<1>. QED  BY <1>1 DEF QueueOK, Apart

LEMMA TailIsOK ==
  ASSUME NEW q, NEW heard, NEW n, QueueOK(q, heard, n), q # <<>>
  PROVE  /\ QueueOK(Tail(q), heard, n) /\ Lacks(Tail(q), Head(q).id)
         /\ \A p : Apart(q, p) => Apart(Tail(q), p)
         /\ \A id : Lacks(q, id) => Lacks(Tail(q), id)
<1>1. /\ q \in Seq(Frames) /\ Tail(q) \in Seq(Frames) /\ Head(q) = q[1]
      /\ Len(q) \in Nat /\ Len(q) >= 1 /\ Len(Tail(q)) = Len(q) - 1
      /\ \A k \in 1 .. Len(Tail(q)) : Tail(q)[k] = q[k + 1]
  BY DEF QueueOK
<1>2. /\ \A k \in 1 .. Len(Tail(q)) : k + 1 \in 1 .. Len(q) /\ k + 1 # 1
      /\ \A k, l \in 1 .. Len(Tail(q)) : k + 1 = l + 1 => k = l
      /\ 1 \in 1 .. Len(q)
  BY <1>1
<1>3. QueueOK(Tail(q), heard, n)
  <2>1. \A k \in 1 .. Len(Tail(q)) : Tail(q)[k].id < n /\ heard[Tail(q)[k].id] = 0
    BY <1>1, <1>2 DEF QueueOK
  <2>2. \A k, l \in 1 .. Len(Tail(q)) : Tail(q)[k].id = Tail(q)[l].id => k = l
    BY <1>1, <1>2 DEF QueueOK
  <2>. QED  BY <1>1, <2>1, <2>2 DEF QueueOK
<1>4. Lacks(Tail(q), Head(q).id)
  BY <1>1, <1>2 DEF QueueOK, Lacks
<1>5. /\ \A p : Apart(q, p) => Apart(Tail(q), p)
      /\ \A id : Lacks(q, id) => Lacks(Tail(q), id)
  BY <1>1, <1>2 DEF Apart, Lacks
<1>. QED  BY <1>3, <1>4, <1>5

LEMMA AppendIsOK ==
  ASSUME NEW q, NEW heard, NEW n, NEW p, NEW f \in Frames,
         QueueOK(q, heard, n), Apart(q, p), Lacks(q, f.id),
         f.id < n, heard[f.id] = 0, Absent(f.id, p)
  PROVE  QueueOK(Append(q, f), heard, n) /\ Apart(Append(q, f), p)
<1>. DEFINE r == Append(q, f)
<1>1. /\ q \in Seq(Frames) /\ r \in Seq(Frames)
      /\ Len(q) \in Nat /\ Len(r) = Len(q) + 1
      /\ r[Len(q) + 1] = f /\ \A k \in 1 .. Len(q) : r[k] = q[k]
  BY DEF QueueOK
<1>. HIDE DEF r
<1>2. \A k \in 1 .. Len(r) :
        \/ k = Len(q) + 1 /\ r[k] = f
        \/ k \in 1 .. Len(q) /\ r[k] = q[k]
  BY <1>1
<1>3. \A k \in 1 .. Len(r) : r[k].id < n /\ heard[r[k].id] = 0 /\ Absent(r[k].id, p)
  BY <1>2 DEF QueueOK, Apart
<1>4. \A k, l \in 1 .. Len(r) : r[k].id = r[l].id => k = l
  BY <1>2 DEF QueueOK, Lacks
<1>5. QueueOK(r, heard, n) /\ Apart(r, p)
  BY <1>1, <1>3, <1>4 DEF QueueOK, Apart
<1>. QED  BY <1>5 DEF r

LEMMA PushedIsOK ==
  ASSUME NEW q, NEW heard, NEW n, NEW p, NEW f \in Frames,
         QueueOK(q, heard, n), Apart(q, p), Lacks(q, f.id),
         f.id < n, heard[f.id] = 0, Absent(f.id, p)
  PROVE  QueueOK(Pushed(q, f), heard, n) /\ Apart(Pushed(q, f), p)
<1>1. CASE Len(q) >= QueueDepth
  <2>1. q # <<>>
    BY <1>1, NodeTxAssumption
  <2>2. QueueOK(Tail(q), heard, n) /\ Apart(Tail(q), p) /\ Lacks(Tail(q), f.id)
    BY <2>1, TailIsOK
  <2>. QED  BY <1>1, <2>2, AppendIsOK DEF Pushed
<1>2. CASE ~(Len(q) >= QueueDepth)
  BY <1>2, AppendIsOK DEF Pushed
<1>. QED  BY <1>1, <1>2

\* Frames that are not in the queue may be on the air.
LEMMA QueueStaysOK ==
  ASSUME NEW q, NEW heard, NEW heard2, NEW n, NEW id, QueueOK(q, heard, n), Lacks(q, id),
         \A other \in Ids \ {id} : heard2[other] = heard[other]
  PROVE  QueueOK(q, heard2, n)
<1>1. \A k \in 1 .. Len(q) : q[k].id \in Ids \ {id}
  <2>1. \A k \in 1 .. Len(q) : q[k] \in Frames
    BY DEF QueueOK
  <2>. QED  BY <2>1 DEF Lacks, Frames
<1>. QED  BY <1>1 DEF QueueOK

\* The queue and a window in which only the frame id is new have no frame in common.
LEMMA StillApart ==
  ASSUME NEW q, NEW heard, NEW n, NEW p, NEW p2, NEW id,
         QueueOK(q, heard, n), Lacks(q, id), Apart(q, p), Keeps(p2, p, id)
  PROVE  Apart(q, p2)
<1>1. \A k \in 1 .. Len(q) : q[k].id \in Ids \ {id}
  <2>1. \A k \in 1 .. Len(q) : q[k] \in Frames
    BY DEF QueueOK
  <2>. QED  BY <2>1 DEF Lacks, Frames
<1>. QED  BY <1>1 DEF Apart, Keeps

LEMMA CountIsOK ==
  ASSUME NEW heard, NEW n \in Int, NEW id \in Ids, HeardOK(heard, n), id < n,
         heard[id] + 1 <= MaxAttempts
  PROVE  /\ HeardOK([heard EXCEPT ![id] = @ + 1], n)
         /\ [heard EXCEPT ![id] = @ + 1][id] = heard[id] + 1
         /\ \A other \in Ids \ {id} : [heard EXCEPT ![id] = @ + 1][other] = heard[other]
<1>. DEFINE heard2 == [heard EXCEPT ![id] = @ + 1]
<1>1. heard \in [Ids -> Nat] /\ heard[id] \in Nat
  BY DEF HeardOK
<1>2. /\ heard2 \in [Ids -> Nat] /\ heard2[id] = heard[id] + 1
      /\ \A other \in Ids \ {id} : heard2[other] = heard[other]
  BY <1>1
<1>. HIDE DEF heard2
<1>3. ASSUME NEW x \in Ids
      PROVE  heard2[x] <= MaxAttempts /\ (x >= n => heard2[x] = 0)
  <2>1. CASE x = id
    BY <1>2, <2>1 DEF Ids
  <2>2. CASE x # id
    BY <1>2, <2>2 DEF HeardOK
  <2>. QED  BY <2>1, <2>2
<1>. QED  BY <1>2, <1>3 DEF HeardOK, heard2

\* The next identity is taken.
LEMMA NextIdIsOK ==
  ASSUME NEW q, NEW p, NEW heard, NEW n \in Ids,
         HeardOK(heard, n), QueueOK(q, heard, n), PendingOK(p, heard, n)
  PROVE  /\ HeardOK(heard, n + 1) /\ QueueOK(q, heard, n + 1) /\ PendingOK(p, heard, n + 1)
         /\ Lacks(q, n) /\ Absent(n, p) /\ heard[n] = 0
<1>1. HeardOK(heard, n + 1) /\ heard[n] = 0 /\ n \in Int
  BY DEF HeardOK, Ids
<1>2. \A k \in 1 .. Len(q) : q[k].id \in Int /\ q[k].id < n
  <2>1. \A k \in 1 .. Len(q) : q[k] \in Frames
    BY DEF QueueOK
  <2>. QED  BY <2>1 DEF Frames, Ids, QueueOK
<1>3. QueueOK(q, heard, n + 1) /\ Lacks(q, n)
  BY <1>1, <1>2 DEF QueueOK, Lacks
<1>4. \A i \in Slots : IsUsed(p[i]) => p[i].frame.id \in Int /\ p[i].frame.id < n
  <2>1. \A i \in Slots : IsUsed(p[i]) => p[i].frame \in Frames
    BY SlotIsTyped, EntryIsTyped DEF PendingOK
  <2>. QED  BY <2>1 DEF Frames, Ids, PendingOK, Accounts
<1>5. PendingOK(p, heard, n + 1) /\ Absent(n, p)
  <2>1. \A i \in Slots : IsUsed(p[i]) => p[i].frame.id < n + 1
    BY <1>1, <1>4
  <2>. QED  BY <1>1, <1>4, <2>1 DEF PendingOK, Accounts, Absent
<1>. QED  BY <1>1, <1>3, <1>5

-----------------------------------------------------------------------------
LEMMA AirInvInit == NodeInit => AirInv
<1>. SUFFICES ASSUME NodeInit  PROVE AirInv
  OBVIOUS
<1>. USE DEF NodeInit
<1>1. nextSeq \in Seqs /\ nextId \in 1 .. MaxId + 1
  BY AckWindowAssumption, NodeTxAssumption DEF Seqs
<1>2. HeardOK(onAir, nextId)
  BY NodeTxAssumption DEF HeardOK
<1>3. QueueOK(queue, onAir, nextId) /\ Apart(queue, pending)
  BY DEF QueueOK, Apart
<1>4. PendingOK(pending, onAir, nextId)
  BY FreeIsUnused DEF PendingOK, OneEach
<1>. QED  BY <1>1, <1>2, <1>3, <1>4 DEF AirInv

\* A step that only drops, ages or shifts what is pending.
LEMMA SimilarStep ==
  ASSUME AirInv, Similar(pending', pending), nextSeq' \in Seqs,
         UNCHANGED <<queue, onAir, nextId>>
  PROVE  AirInv'
<1>1. PendingOK(pending, onAir, nextId)
  BY DEF AirInv
<1>2. PendingOK(pending', onAir, nextId) /\ \A id : Absent(id, pending) => Absent(id, pending')
  BY <1>1, SimilarIsOK
<1>3. Apart(queue, pending')
  BY <1>2 DEF AirInv, Apart
<1>. QED  BY <1>2, <1>3 DEF AirInv

LEMMA SimilarToItself ==
  ASSUME NEW p \in [Slots -> EntryShape \cup {Free}]
  PROVE  Similar(p, p)
  BY DEF Similar

LEMMA AfterPickIsSimilar ==
  ASSUME AirInv
  PROVE  Similar(PendingAfterPick, pending)
<1>1. pending \in [Slots -> EntryShape \cup {Free}]
  BY DEF AirInv, PendingOK
<1>. QED  BY <1>1, UnexpiredIsSimilar, SimilarToItself DEF PendingAfterPick

\* Everything but the sends.
LEMMA QuietIsSimilar ==
  ASSUME AirInv,
         \/ StartUpdate \/ DeferRetx \/ EndUpdate \/ AirClears
         \/ SlotShrinks \/ TimePasses \/ StandbyPasses \/ SyncChanges
         \/ \E r \in 1 .. SlotRoom : SlotOpens(r)
         \/ \E base \in Seqs, mask \in Masks : ReceiveAck(base, mask)
         \/ UNCHANGED nodeVars
  PROVE  Similar(pending', pending) /\ UNCHANGED <<queue, onAir, nextId, nextSeq>>
<1>1. pending \in [Slots -> EntryShape \cup {Free}]
  BY DEF AirInv, PendingOK
<1>3. Similar(pending, pending)
  BY <1>1, SimilarToItself
<1>4. CASE StartUpdate
  <2>1. Similar(Unexpired(pending), pending)
    BY <1>1, UnexpiredIsSimilar
  <2>. QED  BY <1>4, <2>1 DEF StartUpdate
<1>5. CASE DeferRetx
  BY <1>5, AfterPickIsSimilar DEF DeferRetx
<1>6. CASE EndUpdate
  BY <1>3, <1>6, AfterPickIsSimilar DEF EndUpdate
<1>7. CASE TimePasses
  <2>. DEFINE kept == Unexpired(pending)
  <2>1. Similar(kept, pending)
    BY <1>1, UnexpiredIsSimilar
  <2>2. kept \in [Slots -> EntryShape \cup {Free}]
    BY <2>1 DEF Similar
  <2>3. pending' = [i \in Slots |->
           IF IsUsed(kept[i])
           THEN [kept[i] EXCEPT !.age = Older(@), !.since = Older(@), !.alive = Older(@)]
           ELSE Free]
    BY <1>7 DEF TimePasses
  <2>. HIDE DEF kept
  <2>4. Similar(pending', kept)
    BY <2>2, <2>3, AgedIsSimilar
  <2>5. Similar(pending', pending)
    BY <2>1, <2>4 DEF Similar
  <2>. QED  BY <1>7, <2>5 DEF TimePasses
<1>8. CASE \E base \in Seqs, mask \in Masks : ReceiveAck(base, mask)
  <2>1. PICK base \in Seqs, mask \in Masks : ReceiveAck(base, mask)
    BY <1>8
  <2>2. Similar(Acknowledged(pending, base, mask), pending)
    BY <1>1, AcknowledgedIsSimilar
  <2>. QED  BY <2>1, <2>2 DEF ReceiveAck
<1>9. CASE \/ AirClears \/ SlotShrinks \/ StandbyPasses \/ SyncChanges
           \/ UNCHANGED nodeVars
           \/ \E r \in 1 .. SlotRoom : SlotOpens(r)
  BY <1>3, <1>9
     DEF AirClears, SlotShrinks, StandbyPasses, SyncChanges, SlotOpens, nodeVars
<1>. QED  BY <1>4, <1>5, <1>6, <1>7, <1>8, <1>9

LEMMA QuietSteps ==
  ASSUME AirInv,
         \/ StartUpdate \/ DeferRetx \/ EndUpdate \/ AirClears
         \/ SlotShrinks \/ TimePasses \/ StandbyPasses \/ SyncChanges
         \/ \E r \in 1 .. SlotRoom : SlotOpens(r)
         \/ \E base \in Seqs, mask \in Masks : ReceiveAck(base, mask)
         \/ UNCHANGED nodeVars
  PROVE  AirInv'
<1>1. Similar(pending', pending) /\ UNCHANGED <<queue, onAir, nextId, nextSeq>>
  BY QuietIsSimilar
<1>2. nextSeq' \in Seqs
  BY <1>1 DEF AirInv
<1>. QED  BY <1>1, <1>2, SimilarStep

LEMMA EnqueueKeeps ==
  ASSUME AirInv, NEW kind \in Kinds, Enqueue(kind)
  PROVE  AirInv'
<1>. DEFINE f == [kind |-> kind, seq |-> nextSeq, id |-> nextId]
<1>1. /\ nextSeq \in Seqs /\ nextId \in Ids
      /\ HeardOK(onAir, nextId) /\ QueueOK(queue, onAir, nextId)
      /\ PendingOK(pending, onAir, nextId) /\ Apart(queue, pending)
  BY DEF AirInv, Enqueue
<1>2. f \in Frames /\ f.id = nextId
  BY <1>1 DEF Frames
<1>. HIDE DEF f
<1>3. nextSeq' \in Seqs /\ nextId' \in 1 .. MaxId + 1 /\ nextId < nextId + 1
  BY <1>1, AckWindowAssumption, NodeTxAssumption DEF Enqueue, Advance, Seqs, Ids
<1>4. /\ HeardOK(onAir, nextId + 1) /\ QueueOK(queue, onAir, nextId + 1)
      /\ PendingOK(pending, onAir, nextId + 1)
      /\ Lacks(queue, nextId) /\ Absent(nextId, pending) /\ onAir[nextId] = 0
  BY <1>1, NextIdIsOK
<1>5. QueueOK(Pushed(queue, f), onAir, nextId + 1) /\ Apart(Pushed(queue, f), pending)
  BY <1>1, <1>2, <1>3, <1>4, PushedIsOK
<1>6. /\ queue' = Pushed(queue, f) /\ nextId' = nextId + 1
      /\ pending' = pending /\ onAir' = onAir
  BY DEF Enqueue, f
<1>. QED  BY <1>3, <1>4, <1>5, <1>6 DEF AirInv

LEMMA DeferFreshKeeps ==
  ASSUME AirInv, DeferFresh
  PROVE  AirInv'
<1>. DEFINE f == Head(queue)
<1>1. /\ QueueOK(queue, onAir, nextId) /\ queue # <<>>
      /\ PendingOK(pending, onAir, nextId) /\ Apart(queue, pending)
  BY DEF AirInv, DeferFresh, FreshChosen
<1>2. /\ f \in Frames /\ f.id < nextId /\ onAir[f.id] = 0 /\ Absent(f.id, pending)
      /\ QueueOK(Tail(queue), onAir, nextId) /\ Lacks(Tail(queue), f.id)
      /\ Apart(Tail(queue), pending)
  BY <1>1, HeadIsFrame, TailIsOK
<1>3. /\ PendingOK(PendingAfterPick, onAir, nextId)
      /\ \A id : Absent(id, pending) => Absent(id, PendingAfterPick)
  BY <1>1, AfterPickIsSimilar, SimilarIsOK
<1>4. Apart(Tail(queue), PendingAfterPick) /\ Absent(f.id, PendingAfterPick)
  BY <1>2, <1>3 DEF Apart
<1>5. /\ queue' = Pushed(Tail(queue), f) /\ pending' = PendingAfterPick
      /\ UNCHANGED <<nextSeq, nextId, onAir>>
  BY DEF DeferFresh
<1>. HIDE DEF f
<1>6. /\ QueueOK(Pushed(Tail(queue), f), onAir, nextId)
      /\ Apart(Pushed(Tail(queue), f), PendingAfterPick)
  BY <1>2, <1>4, PushedIsOK
<1>. QED  BY <1>3, <1>5, <1>6 DEF AirInv

LEMMA FlushKeeps ==
  ASSUME AirInv, Flush
  PROVE  AirInv'
<1>1. PendingOK(pending', onAir', nextId')
  BY FreeIsUnused DEF Flush, PendingOK, OneEach
<1>2. QueueOK(queue', onAir', nextId') /\ Apart(queue', pending')
  BY DEF Flush, QueueOK, Apart
<1>. QED  BY <1>1, <1>2 DEF AirInv, Flush

(***************************************************************************)
(* The sends.  A retransmission reaches the air only for an entry with     *)
(* attempts left, which then counts it; a fresh frame has not been on the  *)
(* air and is remembered with its first attempt.                           *)
(***************************************************************************)
LEMMA SendRetxKeeps ==
  ASSUME AirInv, NEW ok \in BOOLEAN, SendRetx(ok)
  PROVE  AirInv'
<1>. DEFINE c == Candidate
            p == PendingAfterPick
            id == pending[c].frame.id
<1>1. /\ HeardOK(onAir, nextId) /\ QueueOK(queue, onAir, nextId)
      /\ PendingOK(pending, onAir, nextId) /\ Apart(queue, pending)
      /\ nextSeq \in Seqs /\ nextId \in 1 .. MaxId + 1
  BY DEF AirInv
<1>2. Similar(p, pending)
  BY AfterPickIsSimilar
<1>3. CASE ~ok
  <2>1. pending' = p /\ UNCHANGED <<queue, onAir, nextId, nextSeq>>
    BY <1>3 DEF SendRetx
  <2>. QED  BY <1>1, <1>2, <2>1, SimilarStep
<1>4. CASE ok
  <2>1. pending \in [Slots -> EntryShape \cup {Free}]
    BY <1>1 DEF PendingOK
  <2>2. Picking /\ c \in ReadySlots
    BY <2>1, CandidateIsReady DEF SendRetx, RetxChosen
  <2>3. c \in Slots /\ IsUsed(pending[c]) /\ ~Expired(pending[c])
    BY <2>2 DEF ReadySlots, Ready
  <2>4. p[c] = pending[c]
    BY <2>2, <2>3 DEF PendingAfterPick, Unexpired
  <2>5. pending[c] \in EntryShape /\ pending[c].attempts \in Int /\ id \in Ids
    BY <2>1, <2>3, SlotIsTyped, EntryIsTyped DEF Frames
  <2>6. pending[c].attempts < MaxAttempts
    BY <2>3, <2>5, NodeTxAssumption DEF Expired
  <2>7. /\ pending' = MarkedSent(p, c)
        /\ onAir' = [onAir EXCEPT ![id] = @ + 1]
        /\ UNCHANGED <<queue, nextSeq, nextId>>
    BY <1>4 DEF SendRetx, OnAir
  <2>8. /\ PendingOK(p, onAir, nextId)
        /\ \A other : Absent(other, pending) => Absent(other, p)
    BY <1>1, <1>2, SimilarIsOK
  <2>. HIDE DEF c, p
  <2>9. id < nextId /\ Lacks(queue, id)
    BY <1>1, <2>3 DEF PendingOK, Accounts, Apart, Absent, Lacks
  <2>10. /\ onAir \in [Ids -> Nat]
         /\ onAir'[id] = onAir[id] + 1
         /\ \A other \in Ids \ {id} : onAir'[other] = onAir[other]
    BY <1>1, <2>5, <2>7 DEF HeardOK
  <2>11. /\ IsUsed(p[c]) /\ p[c].attempts < MaxAttempts /\ p[c].frame.id = id
    BY <2>3, <2>4, <2>6
  <2>. HIDE DEF id
  <2>12. /\ PendingOK(MarkedSent(p, c), onAir', nextId)
         /\ Keeps(MarkedSent(p, c), p, id)
         /\ onAir'[id] <= MaxAttempts
    BY <2>3, <2>8, <2>10, <2>11, MarkedSentIsOK
  <2>13. HeardOK(onAir', nextId)
    <3>1. onAir[id] + 1 <= MaxAttempts /\ id \in Ids /\ nextId \in Int
      BY <1>1, <2>5, <2>10, <2>12 DEF id
    <3>2. HeardOK([onAir EXCEPT ![id] = @ + 1], nextId)
      BY <1>1, <2>9, <3>1, CountIsOK
    <3>. QED  BY <2>7, <3>2 DEF id
  <2>14. QueueOK(queue, onAir', nextId)
    BY <1>1, <2>9, <2>10, QueueStaysOK
  <2>15. Apart(queue, MarkedSent(p, c))
    <3>1. Apart(queue, p)
      BY <1>1, <2>8 DEF Apart
    <3>. QED  BY <1>1, <2>9, <2>12, <3>1, StillApart
  <2>. QED  BY <1>1, <2>7, <2>12, <2>13, <2>14, <2>15 DEF AirInv
<1>. QED  BY <1>3, <1>4

LEMMA SendFreshKeeps ==
  ASSUME AirInv, NEW ok \in BOOLEAN, SendFresh(ok)
  PROVE  AirInv'
<1>. DEFINE f == Head(queue)
            q == Tail(queue)
            p == PendingAfterPick
            held == IF ok /\ f.kind = "WINDOW_BEGIN" THEN Shifted(p, HoldFrames) ELSE p
<1>1. /\ HeardOK(onAir, nextId) /\ QueueOK(queue, onAir, nextId)
      /\ PendingOK(pending, onAir, nextId) /\ Apart(queue, pending)
      /\ nextSeq \in Seqs /\ nextId \in 1 .. MaxId + 1 /\ queue # <<>>
  BY DEF AirInv, SendFresh, FreshChosen
<1>2. /\ f \in Frames /\ f.id < nextId /\ onAir[f.id] = 0 /\ Absent(f.id, pending)
      /\ QueueOK(q, onAir, nextId) /\ Lacks(q, f.id) /\ Apart(q, pending)
  BY <1>1, HeadIsFrame, TailIsOK
<1>3. /\ PendingOK(held, onAir, nextId)
      /\ \A id : Absent(id, pending) => Absent(id, held)
  <2>1. PendingOK(p, onAir, nextId) /\ \A id : Absent(id, pending) => Absent(id, p)
    BY <1>1, AfterPickIsSimilar, SimilarIsOK
  <2>2. p \in [Slots -> EntryShape \cup {Free}] /\ HoldFrames \in Int
    BY <2>1, NodeTxAssumption DEF PendingOK
  <2>. HIDE DEF p
  <2>3. Similar(held, p)
    BY <2>2, ShiftedIsSimilar, SimilarToItself
  <2>. QED  BY <2>1, <2>3, SimilarIsOK
<1>4. Apart(q, held) /\ Absent(f.id, held)
  BY <1>2, <1>3 DEF Apart
<1>5. /\ queue' = q /\ UNCHANGED <<nextSeq, nextId>>
      /\ pending' = IF synced THEN Remembered(held, f, ok) ELSE held
      /\ onAir' = IF ok THEN [onAir EXCEPT ![f.id] = @ + 1] ELSE onAir
  BY DEF SendFresh, OnAir
<1>. HIDE DEF f, q, held
<1>6. f.id \in Ids /\ onAir \in [Ids -> Nat] /\ nextId \in Int
  BY <1>1, <1>2 DEF Frames, HeardOK
<1>7. /\ HeardOK(onAir', nextId)
      /\ onAir'[f.id] = IF ok THEN 1 ELSE 0
      /\ \A other \in Ids \ {f.id} : onAir'[other] = onAir[other]
  <2>1. CASE ok
    <3>1. onAir[f.id] + 1 <= MaxAttempts /\ onAir[f.id] + 1 = 1
      BY <1>2, NodeTxAssumption
    <3>. QED  BY <1>1, <1>2, <1>5, <1>6, <2>1, <3>1, CountIsOK
  <2>2. CASE ~ok
    BY <1>1, <1>2, <1>5, <2>2
  <2>. QED  BY <2>1, <2>2
<1>8. QueueOK(q, onAir', nextId)
  BY <1>2, <1>7, QueueStaysOK
<1>9. PendingOK(pending', onAir', nextId) /\ Keeps(pending', held, f.id)
  <2>1. CASE synced
    BY <1>2, <1>3, <1>4, <1>5, <1>7, <2>1, RememberedIsOK
  <2>2. CASE ~synced
    <3>1. PendingOK(held, onAir', nextId)
      BY <1>3, <1>4, <1>7, OthersStayOK
    <3>2. pending' = held
      BY <1>5, <2>2
    <3>3. Keeps(held, held, f.id)
      BY DEF Keeps
    <3>. QED  BY <3>1, <3>2, <3>3
  <2>. QED  BY <2>1, <2>2
<1>10. Apart(q, pending')
  BY <1>2, <1>4, <1>9, StillApart
<1>. QED  BY <1>1, <1>5, <1>7, <1>8, <1>9, <1>10 DEF AirInv

LEMMA AirInvNext == AirInv /\ [NodeNext]_nodeVars => AirInv'
<1>. SUFFICES ASSUME AirInv, [NodeNext]_nodeVars  PROVE AirInv'
  OBVIOUS
<1>1. CASE \E kind \in AppKinds : Enqueue(kind)
  BY <1>1, NodeTxAssumption, EnqueueKeeps DEF Kinds, TelemetryKinds
<1>2. CASE \E ok \in BOOLEAN : SendRetx(ok) \/ SendFresh(ok)
  BY <1>2, SendRetxKeeps, SendFreshKeeps
<1>3. CASE DeferFresh
  BY <1>3, DeferFreshKeeps
<1>4. CASE Flush
  BY <1>4, FlushKeeps
<1>5. CASE \/ StartUpdate \/ DeferRetx \/ EndUpdate \/ AirClears
           \/ SlotShrinks \/ TimePasses \/ StandbyPasses \/ SyncChanges
           \/ \E r \in 1 .. SlotRoom : SlotOpens(r)
           \/ \E base \in Seqs, mask \in Masks : ReceiveAck(base, mask)
           \/ UNCHANGED nodeVars
  BY <1>5, QuietSteps
<1>. QED  BY <1>1, <1>2, <1>3, <1>4, <1>5 DEF NodeNext

(***************************************************************************)
(* No frame is on the air more than MaxAttempts times: the budget that     *)
(* drainTxQueue, markRetransmitSent and rememberSentTelemetry keep.        *)
(***************************************************************************)
THEOREM AirBudgetHolds == NodeSpec => []AirBudget
<1>1. AirInv => AirBudget
  BY DEF AirInv, HeardOK, AirBudget
<1>. QED  BY <1>1, AirInvInit, AirInvNext, PTL DEF NodeSpec

(***************************************************************************)
(* A sequence number is pending once, whatever the sequence space and the  *)
(* window: rememberSentTelemetry looks for the number before it takes a    *)
(* slot.                                                                   *)
(***************************************************************************)
THEOREM NumbersPendOnce == NodeSpec => []OneEntryPerSeq
<1>1. AirInv => OneEntryPerSeq
  BY DEF AirInv, PendingOK, OneEach, OneEntryPerSeq
<1>. QED  BY <1>1, AirInvInit, AirInvNext, PTL DEF NodeSpec

-----------------------------------------------------------------------------
(***************************************************************************)
(* The types.  What AirInv leaves open are the small counters: the room of *)
(* the slot, the sends of an update, the queue's length and the holdoff.   *)
(***************************************************************************)
Counters ==
  /\ Len(queue) <= QueueDepth
  /\ freshAge \in -1 .. FreshHoldoff
  /\ synced \in BOOLEAN /\ retxUsed \in BOOLEAN
  /\ room \in 0 .. SlotRoom
  /\ sends \in -1 .. MaxSends
  /\ air = None \/ air \in [kind : Kinds, seq : Seqs, id : Ids, retx : BOOLEAN]
  /\ slotRetx \in Nat

LEMMA SizeIsPositive == \A f : Size(f) \in Nat \ {0}
  BY NodeTxAssumption DEF Size

\* The queue never outgrows its depth.
LEMMA PushedIsShort ==
  ASSUME NEW q \in Seq(Frames), NEW f \in Frames, Len(q) <= QueueDepth
  PROVE  Len(Pushed(q, f)) <= QueueDepth
<1>. USE NodeTxAssumption
<1>1. CASE Len(q) >= QueueDepth
  <2>1. q # <<>>
    BY <1>1
  <2>2. Tail(q) \in Seq(Frames) /\ Len(Tail(q)) = Len(q) - 1
    BY <2>1
  <2>3. Len(Append(Tail(q), f)) = Len(q)
    BY <2>2
  <2>. QED  BY <1>1, <2>3 DEF Pushed
<1>2. CASE ~(Len(q) >= QueueDepth)
  <2>1. Len(Append(q, f)) = Len(q) + 1
    OBVIOUS
  <2>. QED  BY <1>2, <2>1 DEF Pushed
<1>. QED  BY <1>1, <1>2

\* What a frame on the air takes of the slot it had room in.
LEMMA SpentRoom ==
  ASSUME room \in 0 .. SlotRoom, NEW f, Fits(f), Spend(Size(f))
  PROVE  room' \in 0 .. SlotRoom
  BY SizeIsPositive, NodeTxAssumption DEF Fits, Spend

LEMMA OnAirIsTyped ==
  ASSUME NEW f \in Frames, NEW retx \in BOOLEAN, OnAir(f, retx)
  PROVE  air' \in [kind : Kinds, seq : Seqs, id : Ids, retx : BOOLEAN]
  BY DEF OnAir, Frames

LEMMA SendRetxCounts ==
  ASSUME AirInv, Counters, NEW ok \in BOOLEAN, SendRetx(ok)
  PROVE  Counters'
<1>. DEFINE f == pending[Candidate].frame
<1>1. pending \in [Slots -> EntryShape \cup {Free}]
  BY DEF AirInv, PendingOK
<1>2. Candidate \in ReadySlots
  BY <1>1, CandidateIsReady DEF SendRetx, RetxChosen
<1>3. Candidate \in Slots /\ IsUsed(pending[Candidate])
  BY <1>2 DEF ReadySlots, Ready
<1>4. f \in Frames
  BY <1>1, <1>3, SlotIsTyped, EntryIsTyped
<1>. HIDE DEF f
<1>5. /\ Fits(f) /\ Spend(Size(f)) /\ sends < MaxSends /\ sends' = sends + 1
      /\ UNCHANGED <<queue, freshAge, synced>>
      /\ retxUsed' = (retxUsed \/ RetxAllowed)
      /\ IF ok THEN OnAir(f, TRUE) /\ slotRetx' = slotRetx + 1
              ELSE UNCHANGED <<air, slotRetx>>
  BY DEF SendRetx, MayLoop, f
<1>6. room' \in 0 .. SlotRoom
  BY <1>5, SpentRoom DEF Counters
<1>7. sends' \in -1 .. MaxSends /\ slotRetx' \in Nat
  <2>1. sends \in -1 .. MaxSends /\ slotRetx \in Nat
    BY DEF Counters
  <2>2. slotRetx' \in {slotRetx, slotRetx + 1}
    BY <1>5
  <2>. QED  BY <1>5, <2>1, <2>2, NodeTxAssumption
<1>8. air' = None \/ air' \in [kind : Kinds, seq : Seqs, id : Ids, retx : BOOLEAN]
  BY <1>4, <1>5, OnAirIsTyped DEF Counters
<1>9. retxUsed' \in BOOLEAN
  BY <1>5
<1>. QED  BY <1>5, <1>6, <1>7, <1>8, <1>9 DEF Counters

LEMMA SendFreshCounts ==
  ASSUME AirInv, Counters, NEW ok \in BOOLEAN, SendFresh(ok)
  PROVE  Counters'
<1>. DEFINE f == Head(queue)
<1>1. queue \in Seq(Frames) /\ queue # <<>>
  BY DEF AirInv, QueueOK, SendFresh, FreshChosen
<1>2. f \in Frames /\ Len(Tail(queue)) = Len(queue) - 1
  BY <1>1
<1>. HIDE DEF f
<1>3. /\ Fits(f) /\ Spend(Size(f)) /\ sends < MaxSends /\ sends' = sends + 1
      /\ queue' = Tail(queue) /\ UNCHANGED <<synced, retxUsed, slotRetx>>
      /\ freshAge' \in {0, freshAge}
      /\ IF ok THEN OnAir(f, FALSE) ELSE UNCHANGED air
  BY DEF SendFresh, MayLoop, f
<1>4. room' \in 0 .. SlotRoom
  BY <1>3, SpentRoom DEF Counters
<1>5. /\ sends' \in -1 .. MaxSends /\ freshAge' \in -1 .. FreshHoldoff
      /\ Len(queue') <= QueueDepth
  BY <1>1, <1>2, <1>3, NodeTxAssumption DEF Counters
<1>6. air' = None \/ air' \in [kind : Kinds, seq : Seqs, id : Ids, retx : BOOLEAN]
  BY <1>2, <1>3, OnAirIsTyped DEF Counters
<1>. QED  BY <1>3, <1>4, <1>5, <1>6 DEF Counters

LEMMA EnqueueCounts ==
  ASSUME AirInv, Counters, NEW kind \in Kinds, Enqueue(kind)
  PROVE  Counters'
<1>1. [kind |-> kind, seq |-> nextSeq, id |-> nextId] \in Frames
  BY DEF Enqueue, AirInv, Frames
<1>2. queue \in Seq(Frames)
  BY DEF AirInv, QueueOK
<1>3. Len(queue') <= QueueDepth
  BY <1>1, <1>2, PushedIsShort DEF Enqueue, Counters
<1>. QED  BY <1>3 DEF Enqueue, Counters

LEMMA CountersNext == AirInv /\ Counters /\ [NodeNext]_nodeVars => Counters'
<1>. SUFFICES ASSUME AirInv, Counters, [NodeNext]_nodeVars  PROVE Counters'
  OBVIOUS
<1>. USE NodeTxAssumption
<1>0. queue \in Seq(Frames)
  BY DEF AirInv, QueueOK
<1>1. CASE \E kind \in AppKinds : Enqueue(kind)
  BY <1>1, EnqueueCounts DEF Kinds, TelemetryKinds
<1>2. CASE \E ok \in BOOLEAN : SendRetx(ok) \/ SendFresh(ok)
  BY <1>2, SendRetxCounts, SendFreshCounts
<1>3. CASE DeferFresh
  <2>1. queue # <<>>
    BY <1>3 DEF DeferFresh, FreshChosen
  <2>2. Head(queue) \in Frames /\ Tail(queue) \in Seq(Frames) /\ Len(Tail(queue)) = Len(queue) - 1
    BY <1>0, <2>1
  <2>3. Len(Tail(queue)) <= QueueDepth
    BY <1>0, <2>2 DEF Counters
  <2>4. Len(queue') <= QueueDepth
    BY <1>3, <2>2, <2>3, PushedIsShort DEF DeferFresh
  <2>. QED  BY <1>3, <2>4 DEF DeferFresh, Counters
<1>4. CASE StartUpdate \/ DeferRetx \/ EndUpdate
  <2>1. /\ UNCHANGED <<queue, freshAge, synced, room, air, slotRetx>>
        /\ retxUsed' \in BOOLEAN /\ sends' \in {-1, 0}
    BY <1>4 DEF StartUpdate, DeferRetx, EndUpdate, Counters
  <2>. QED  BY <2>1 DEF Counters
<1>5. CASE AirClears \/ SyncChanges
  BY <1>5 DEF AirClears, SyncChanges, Counters
<1>6. CASE SlotShrinks \/ \E r \in 1 .. SlotRoom : SlotOpens(r)
  <2>1. CASE SlotShrinks
    <3>1. /\ room' = room - 1 /\ room > 0
          /\ UNCHANGED <<queue, freshAge, synced, retxUsed, sends, air, slotRetx>>
      BY <2>1 DEF SlotShrinks
    <3>. QED  BY <3>1 DEF Counters
  <2>2. ASSUME NEW r \in 1 .. SlotRoom, SlotOpens(r)
        PROVE  Counters'
    <3>1. /\ room' = r /\ retxUsed' = FALSE /\ slotRetx' = 0
          /\ UNCHANGED <<queue, freshAge, synced, sends, air>>
      BY <2>2 DEF SlotOpens
    <3>2. slotRetx' \in Nat /\ room' \in 0 .. SlotRoom
      BY <3>1
    <3>3. retxUsed' \in BOOLEAN
      BY <3>1, Zenon
    <3>. QED  BY <3>1, <3>2, <3>3 DEF Counters
  <2>. QED  BY <1>6, <2>1, <2>2
<1>7. CASE TimePasses \/ StandbyPasses
  <2>1. /\ UNCHANGED <<queue, synced, room, retxUsed, sends, air, slotRetx>>
        /\ freshAge' = IF freshAge \in 0 .. FreshHoldoff - 1 THEN freshAge + 1 ELSE freshAge
    BY <1>7 DEF TimePasses, StandbyPasses
  <2>. QED  BY <2>1 DEF Counters
<1>8. CASE Flush
  BY <1>8 DEF Flush, Counters
<1>9. CASE (\E base \in Seqs, mask \in Masks : ReceiveAck(base, mask)) \/ UNCHANGED nodeVars
  BY <1>9 DEF ReceiveAck, nodeVars, Counters
<1>. QED  BY <1>1, <1>2, <1>3, <1>4, <1>5, <1>6, <1>7, <1>8, <1>9 DEF NodeNext

\* A pending entry has been tried at least once and no more than MaxAttempts times.
LEMMA EntriesAreTyped ==
  ASSUME AirInv
  PROVE  pending \in [Slots -> Entries \cup {Free}]
<1>1. pending \in [Slots -> EntryShape \cup {Free}]
  BY DEF AirInv, PendingOK
<1>2. ASSUME NEW i \in Slots  PROVE pending[i] \in Entries \cup {Free}
  <2>1. CASE ~IsUsed(pending[i])
    BY <1>1, <2>1, SlotIsTyped
  <2>2. CASE IsUsed(pending[i])
    <3>1. pending[i] \in EntryShape
      BY <1>1, <2>2, SlotIsTyped
    <3>2. pending[i].attempts \in 1 .. MaxAttempts
      BY <2>2 DEF AirInv, PendingOK, Accounts
    <3>3. ASSUME NEW e \in EntryShape, e.attempts \in 1 .. MaxAttempts
          PROVE  e \in Entries
      BY <3>3, Zenon DEF EntryShape, Telemetry, Entries
    <3>. QED  BY <3>1, <3>2, <3>3
  <2>. QED  BY <2>1, <2>2
<1>. QED  BY <1>1, <1>2

LEMMA CountersInit == NodeInit => Counters
<1>. SUFFICES ASSUME NodeInit  PROVE Counters
  OBVIOUS
<1>1. Len(queue) = 0 /\ freshAge = -1 /\ sends = -1 /\ room = 0 /\ slotRetx = 0
  BY DEF NodeInit
<1>2. synced \in BOOLEAN /\ retxUsed \in BOOLEAN /\ air = None
  BY DEF NodeInit
<1>. QED  BY <1>1, <1>2, NodeTxAssumption DEF Counters

LEMMA TypesOfNode == AirInv /\ Counters => NodeTypeOK
<1>. SUFFICES ASSUME AirInv, Counters  PROVE NodeTypeOK
  OBVIOUS
<1>. QED  BY EntriesAreTyped DEF AirInv, Counters, QueueOK, HeardOK, NodeTypeOK

(***************************************************************************)
(* The types of the node's transmit side: the queue and the pending window *)
(* stay inside their arrays, the slot's room and the sends of an update    *)
(* inside their bounds, and only telemetry is ever pending.                *)
(***************************************************************************)
THEOREM NodeIsTyped == NodeSpec => []NodeTypeOK
  BY TypesOfNode, CountersInit, AirInvInit, AirInvNext, CountersNext, PTL DEF NodeSpec

=============================================================================
