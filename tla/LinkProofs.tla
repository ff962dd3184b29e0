------------------------------ MODULE LinkProofs ------------------------------
(***************************************************************************)
(* The base's acknowledgements, and the link they close.  In five parts:   *)
(* - AckWindow: what recording a number and testing one against a window   *)
(*   promise, for every width of numbers and mask.                         *)
(* - BaseAck: what was received and not told stays due, and the circuit    *)
(*   breaker is consistent, for any number of nodes and failures.  Good is *)
(*   a predicate of one tracker, kept by every change the code makes to    *)
(*   one; it says more than the two properties: a tracker with failures    *)
(*   has something to say, so that the suppression of an unchanged         *)
(*   acknowledgement never meets one.                                      *)
(* - The composition TelemetryLink: its types, and that what it does to    *)
(*   the base's variables is a behaviour of BaseAck.                       *)
(* - The quiet link: no acknowledgement on its way to a node in standby.   *)
(* - Sound acknowledgements: the base never covers a number that the node  *)
(*   sent and it did not receive.                                          *)
(***************************************************************************)
EXTENDS TelemetryLink, NodeTxProofs, FiniteSetTheorems, WellFoundedInduction, TLAPS

(***************************************************************************)
(* The trailing loop stops: some number of steps k takes it past a run of  *)
(* set bits to a clear one.                                                *)
(***************************************************************************)
LEMMA RunProperties ==
  ASSUME NEW mask \in Masks
  PROVE  /\ Run(mask) \in 0 .. MaskBits
         /\ 1 .. Run(mask) \subseteq mask
         /\ Run(mask) + 1 \notin mask
<1>. USE AckWindowAssumption
<1>. DEFINE All   == 0 .. MaskBits
            Clear == {n \in All : n + 1 \notin mask}
            Down  == {0 .. n : n \in Clear}
<1>1. MaskBits \in Clear
  BY DEF Masks
<1>2. PICK X \in Down : \A Y \in Down : ~(<<Y, X>> \in StrictSubsetOrdering(All))
  <2>1. IsFiniteSet(All)
    BY FS_Interval
  <2>2. IsWellFoundedOn(StrictSubsetOrdering(All), SUBSET All)
    BY <2>1, FS_StrictSubsetOrderingWellFounded, FS_FiniteSubsetsOfFinite
  <2>3. Down \subseteq SUBSET All /\ Down # {}
    BY <1>1
  <2>. HIDE DEF Down, All
  <2>. QED  BY <2>2, <2>3, WFMin
<1>3. PICK k \in Clear : X = 0 .. k
  OBVIOUS
<1>4. \A n \in Clear : k <= n
  <2>. SUFFICES ASSUME NEW n \in Clear, n < k  PROVE FALSE
    OBVIOUS
  <2>1. 0 .. n \in Down /\ 0 .. n \subseteq X /\ 0 .. n # X
    BY <1>3
  <2>2. 0 .. n \in SUBSET All /\ X \in SUBSET All
    BY <1>3
  <2>. QED  BY <1>2, <2>1, <2>2 DEF StrictSubsetOrdering
<1>5. 1 .. k \subseteq mask
  <2>. SUFFICES ASSUME NEW i \in 1 .. k, i \notin mask  PROVE FALSE
    OBVIOUS
  <2>1. i - 1 \in Clear /\ i - 1 < k
    OBVIOUS
  <2>2. k <= i - 1
    BY <2>1, <1>4
  <2>3. k \in Int /\ i \in Int
    OBVIOUS
  <2>. HIDE DEF Clear
  <2>. QED  BY <2>1, <2>2, <2>3
<1>. QED  BY <1>5 DEF Run

(***************************************************************************)
(* Sliding keeps the window well formed.                                   *)
(***************************************************************************)
LEMMA SlidType ==
  ASSUME NEW base \in Seqs, NEW mask \in Masks
  PROVE  Slid(base, mask) \in Windows
<1>1. Run(mask) \in 0 .. MaskBits
  BY RunProperties
<1>2. Advance(base, Run(mask)) \in Seqs
  BY <1>1, AckWindowAssumption DEF Advance, Seqs
<1>3. {i \in 1 .. MaskBits : i + Run(mask) \in mask} \in Masks
  BY DEF Masks
<1>. QED  BY <1>2, <1>3 DEF Slid, Windows

(***************************************************************************)
(* Recording a frame keeps the window well formed and initialises it       *)
(* (recordTelemetrySequence's byte and bit arithmetic never leaves its     *)
(* types).                                                                 *)
(***************************************************************************)
LEMMA RecordedType ==
  ASSUME NEW w \in Windows, NEW seq \in Seqs
  PROVE  Recorded(w, seq) \in Windows /\ Recorded(w, seq).init
<1>1. CASE ~w.init
  BY <1>1 DEF Recorded, Windows, Masks
<1>2. CASE w.init
  <2>. DEFINE d == Dist(w.base, seq)
  <2>1. CASE d = 0 \/ ~LessThanHalf(d)
    BY <1>2, <2>1 DEF Recorded
  <2>2. CASE LessThanHalf(d) /\ d > MaskBits
    BY <1>2, <2>2 DEF Recorded, Windows, Masks
  <2>3. CASE d # 0 /\ LessThanHalf(d) /\ ~(d > MaskBits)
    <3>1. d \in 1 .. MaskBits
      BY <2>3, AckWindowAssumption DEF Dist, Windows, Seqs
    <3>2. w.mask \cup {d} \in Masks /\ w.base \in Seqs
      BY <3>1 DEF Masks, Windows
    <3>3. Recorded(w, seq) = Slid(w.base, w.mask \cup {d})
      BY <1>2, <2>3 DEF Recorded
    <3>4. Slid(w.base, w.mask \cup {d}).init
      BY DEF Slid
    <3>. HIDE DEF d
    <3>. QED  BY <3>2, <3>3, <3>4, SlidType
  <2>. QED  BY <2>1, <2>2, <2>3
<1>. QED  BY <1>1, <1>2

(***************************************************************************)
(* Sliding forgets nothing near the base: a number in the mask, or one no  *)
(* more than half the space less one mask behind the base, is still        *)
(* covered.                                                                *)
(***************************************************************************)
LEMMA SlidCovers ==
  ASSUME NEW base \in Seqs, NEW mask \in Masks, NEW s \in Seqs,
         \/ Dist(base, s) \in mask
         \/ LessThanHalf(Dist(s, base) + MaskBits)
  PROVE  Covers(Slid(base, mask).base, Slid(base, mask).mask, s)
<1>. USE AckWindowAssumption
<1>. DEFINE k == Run(mask)
<1>0. k \in 0 .. MaskBits
  BY RunProperties
<1>1. /\ Slid(base, mask).base = Advance(base, k)
      /\ Slid(base, mask).mask = {i \in 1 .. MaskBits : i + k \in mask}
  BY DEF Slid
<1>. HIDE DEF k
<1>2. CASE LessThanHalf(Dist(s, base) + MaskBits)
  <2>1. LessThanHalf(Dist(s, Advance(base, k)))
    BY <1>0, <1>2 DEF LessThanHalf, Dist, Advance, Seqs
  <2>. QED  BY <1>1, <2>1 DEF Covers
<1>3. CASE Dist(base, s) \in mask /\ Dist(base, s) <= k
  <2>0. Dist(base, s) \in 1 .. MaskBits
    BY <1>3 DEF Masks
  <2>1. LessThanHalf(Dist(s, Advance(base, k)))
    BY <1>0, <1>3, <2>0 DEF LessThanHalf, Dist, Advance, Seqs
  <2>. QED  BY <1>1, <2>1 DEF Covers
<1>4. CASE Dist(base, s) \in mask /\ Dist(base, s) > k
  <2>0. Dist(base, s) \in 1 .. MaskBits
    BY <1>4 DEF Masks
  <2>1. Dist(Advance(base, k), s) = Dist(base, s) - k
    BY <1>0, <1>4, <2>0 DEF Dist, Advance, Seqs
  <2>2. Dist(Advance(base, k), s) \in {i \in 1 .. MaskBits : i + k \in mask}
    BY <1>0, <1>4, <2>0, <2>1
  <2>. QED  BY <1>1, <2>2 DEF Covers
<1>5. Dist(base, s) \in Int /\ k \in Int
  BY <1>0 DEF Dist, Seqs
<1>. QED  BY <1>2, <1>3, <1>4, <1>5

(***************************************************************************)
(* The sequence number just heard is acknowledged, except at one exact     *)
(* distance, half the space: recordTelemetrySequence calls it old, and     *)
(* applyAckSummary, reading the same distance from the other side, calls   *)
(* it new.                                                                 *)
(***************************************************************************)
THEOREM HeardIsAcknowledged ==
  ASSUME NEW w \in Windows, NEW seq \in Seqs,
         w.init => 2 * Dist(w.base, seq) # SeqSpace
  PROVE  Covers(Recorded(w, seq).base, Recorded(w, seq).mask, seq)
<1>. USE AckWindowAssumption
<1>. DEFINE d == Dist(w.base, seq)
<1>0. w.base \in Seqs /\ w.mask \in Masks
  BY DEF Windows
<1>1. CASE Recorded(w, seq) = [init |-> TRUE, base |-> seq, mask |-> {}]
  <2>1. LessThanHalf(Dist(seq, seq))
    BY DEF LessThanHalf, Dist, Seqs
  <2>. QED  BY <1>1, <2>1 DEF Covers
<1>2. CASE w.init /\ (d = 0 \/ ~LessThanHalf(d))
  <2>1. Recorded(w, seq) = w
    BY <1>2 DEF Recorded
  <2>2. LessThanHalf(Dist(seq, w.base))
    BY <1>0, <1>2 DEF LessThanHalf, Dist, Seqs
  <2>. QED  BY <2>1, <2>2 DEF Covers
<1>3. CASE w.init /\ d # 0 /\ LessThanHalf(d) /\ ~(d > MaskBits)
  <2>1. Recorded(w, seq) = Slid(w.base, w.mask \cup {d})
    BY <1>3 DEF Recorded
  <2>2. w.mask \cup {d} \in Masks
    BY <1>0, <1>3 DEF Masks, Dist, Seqs
  <2>. QED  BY <1>0, <2>1, <2>2, SlidCovers
<1>. QED  BY <1>1, <1>2, <1>3 DEF Recorded

(***************************************************************************)
(* An acknowledgement is not withdrawn: a number the window covers, and    *)
(* that stays less than half the space (and a mask) behind every number    *)
(* heard, is covered after the next frame too.                             *)
(***************************************************************************)
THEOREM AcknowledgementIsStable ==
  ASSUME NEW w \in Windows, NEW seq \in Seqs, NEW s \in Seqs,
         w.init,
         Covers(w.base, w.mask, s),
         LessThanHalf(Dist(w.base, seq)) =>
           \/ Dist(w.base, s) \in w.mask /\ LessThanHalf(Dist(s, seq))
           \/ LessThanHalf(Dist(s, w.base) + Dist(w.base, seq) + MaskBits)
  PROVE  Covers(Recorded(w, seq).base, Recorded(w, seq).mask, s)
<1>. USE AckWindowAssumption
<1>. DEFINE d == Dist(w.base, seq)
<1>0. /\ w.base \in Seqs /\ w.mask \in Masks
      /\ d \in Int /\ d >= 0
      /\ Dist(s, w.base) \in Int /\ Dist(s, w.base) >= 0
  BY DEF Windows, Dist, Seqs
<1>1. CASE d = 0 \/ ~LessThanHalf(d)
  BY <1>1 DEF Recorded
<1>2. CASE d # 0 /\ LessThanHalf(d) /\ d > MaskBits
  <2>1. Recorded(w, seq) = [init |-> TRUE, base |-> seq, mask |-> {}]
    BY <1>2 DEF Recorded
  <2>2. LessThanHalf(Dist(s, seq))
    BY <1>0, <1>2 DEF LessThanHalf, Dist, Seqs
  <2>. QED  BY <2>1, <2>2 DEF Covers
<1>3. CASE d # 0 /\ LessThanHalf(d) /\ ~(d > MaskBits)
  <2>1. Recorded(w, seq) = Slid(w.base, w.mask \cup {d})
    BY <1>3 DEF Recorded
  <2>2. w.mask \cup {d} \in Masks
    BY <1>0, <1>3 DEF Masks
  <2>3. Dist(w.base, s) \in w.mask \cup {d} \/ LessThanHalf(Dist(s, w.base) + MaskBits)
    BY <1>0, <1>3 DEF LessThanHalf
  <2>. QED  BY <1>0, <2>1, <2>2, <2>3, SlidCovers
<1>. QED  BY <1>1, <1>2, <1>3

-----------------------------------------------------------------------------
Good(t) ==
  /\ t \in Trackers
  /\ Untold(t) => t.dirty
  /\ t.held <=> t.fails = MaxAckFailures
  /\ t.fails > 0 => t.dirty /\ ~Unchanged(t)

AllGood ==
  /\ nextFlush \in Nodes
  /\ tracker \in [Nodes -> Trackers]
  /\ \A n \in Nodes : Good(tracker[n])

LEMMA FreshIsGood == Good(FreshTracker)
  BY BaseAckAssumption, AckWindowAssumption
     DEF Good, FreshTracker, Trackers, FreshWindow, Windows, Untold, Unchanged,
         NeverHeard, Masks, Seqs

LEMMA HearingIsGood ==
  ASSUME NEW t, Good(t), NEW seq \in Seqs, NEW retx \in BOOLEAN
  PROVE  Good(HeardTelemetry(t, seq, retx))
<1> DEFINE u == HeardTelemetry(t, seq, retx)
<1>1. t \in Trackers
  BY DEF Good
<1>5. Recorded(t.win, seq) \in Windows
  BY RecordedType DEF Good, Trackers
<1>2. u \in Trackers
  <2>1. ASSUME NEW v0 \in Windows,
               NEW v1 \in BOOLEAN,
               NEW v2 \in 0 .. MaxAckFailures,
               NEW v3 \in BOOLEAN,
               NEW v4 \in BOOLEAN,
               NEW v5 \in Int,
               NEW v6 \in BOOLEAN
        PROVE  [t EXCEPT !.win = v0,
                         !.dirty = v1,
                         !.fails = v2,
                         !.held = v3,
                         !.asleep = v4,
                         !.quiet = v5,
                         !.force = v6] \in Trackers
    BY <1>1 DEF Trackers
  <2>2. 0 \in Int /\ 0 \in 0 .. MaxAckFailures
    BY BaseAckAssumption
  <2>3. t.win \in Windows /\ t.force \in BOOLEAN
    BY <1>1 DEF Trackers
  <2> QED
    BY <1>5, <2>1, <2>2, <2>3 DEF HeardTelemetry
<1>3. /\ u.win = Recorded(t.win, seq) /\ u.dirty = TRUE /\ u.fails = 0
      /\ u.held = FALSE /\ u.asleep = FALSE /\ u.quiet = 0
      /\ u.force = (t.force \/ retx) /\ u.lastSent = t.lastSent
  BY <1>1 DEF HeardTelemetry, Trackers
<1>4. Good(u)
  <2> HIDE DEF u
  <2> QED
    BY <1>1, <1>2, <1>3, BaseAckAssumption
       DEF Good, Untold, Unchanged, Due, Eligible, Trackers
<1> QED
  BY <1>4

LEMMA EndIsGood ==
  ASSUME NEW t, Good(t)
  PROVE  Good(HeardEnd(t))
<1> DEFINE u == HeardEnd(t)
<1>1. t \in Trackers
  BY DEF Good
<1>2. u \in Trackers
  <2>1. ASSUME NEW v0 \in BOOLEAN,
               NEW v1 \in Int
        PROVE  [t EXCEPT !.asleep = v0,
                         !.quiet = v1] \in Trackers
    BY <1>1 DEF Trackers
  <2>2. 0 \in Int /\ 0 \in 0 .. MaxAckFailures
    BY BaseAckAssumption
  <2>3. t.win \in Windows /\ t.force \in BOOLEAN
    BY <1>1 DEF Trackers
  <2> QED
    BY <2>1, <2>2, <2>3 DEF HeardEnd
<1>3. /\ u.asleep = TRUE /\ u.quiet = 0 /\ u.win = t.win /\ u.dirty = t.dirty
      /\ u.fails = t.fails /\ u.held = t.held /\ u.force = t.force
      /\ u.lastSent = t.lastSent
  BY <1>1 DEF HeardEnd, Trackers
<1>4. Good(u)
  <2> HIDE DEF u
  <2> QED
    BY <1>1, <1>2, <1>3, BaseAckAssumption
       DEF Good, Untold, Unchanged, Due, Eligible, Trackers
<1> QED
  BY <1>4

LEMMA BeginIsGood ==
  ASSUME NEW t, Good(t)
  PROVE  Good(HeardBegin(t))
<1> DEFINE u == HeardBegin(t)
<1>1. t \in Trackers
  BY DEF Good
<1>2. u \in Trackers
  <2>1. ASSUME NEW v0 \in BOOLEAN,
               NEW v1 \in Int,
               NEW v2 \in BOOLEAN,
               NEW v3 \in 0 .. MaxAckFailures,
               NEW v4 \in BOOLEAN
        PROVE  [t EXCEPT !.asleep = v0,
                         !.quiet = v1,
                         !.force = v2,
                         !.fails = v3,
                         !.held = v4] \in Trackers
    BY <1>1 DEF Trackers
  <2>2. 0 \in Int /\ 0 \in 0 .. MaxAckFailures
    BY BaseAckAssumption
  <2>3. t.win \in Windows /\ t.force \in BOOLEAN
    BY <1>1 DEF Trackers
  <2> QED
    BY <2>1, <2>2, <2>3 DEF HeardBegin
<1>3. /\ u.asleep = FALSE /\ u.quiet = 0 /\ u.force = TRUE /\ u.fails = 0
      /\ u.held = FALSE /\ u.win = t.win /\ u.dirty = t.dirty
      /\ u.lastSent = t.lastSent
  BY <1>1 DEF HeardBegin, Trackers
<1>4. Good(u)
  <2> HIDE DEF u
  <2> QED
    BY <1>1, <1>2, <1>3, BaseAckAssumption
       DEF Good, Untold, Unchanged, Due, Eligible, Trackers
<1> QED
  BY <1>4

LEMMA SuppressedIsGood ==
  ASSUME NEW t, Good(t), Eligible(t), ~Due(t)
  PROVE  Good(Suppressed(t))
<1> DEFINE u == Suppressed(t)
<1>1. t \in Trackers
  BY DEF Good
<1>2. u \in Trackers
  <2>1. ASSUME NEW v0 \in BOOLEAN
        PROVE  [t EXCEPT !.dirty = v0] \in Trackers
    BY <1>1 DEF Trackers
  <2>2. 0 \in Int /\ 0 \in 0 .. MaxAckFailures
    BY BaseAckAssumption
  <2>3. t.win \in Windows /\ t.force \in BOOLEAN
    BY <1>1 DEF Trackers
  <2> QED
    BY <2>1, <2>2, <2>3 DEF Suppressed
<1>3. /\ u.dirty = FALSE /\ u.win = t.win /\ u.fails = t.fails
      /\ u.held = t.held /\ u.asleep = t.asleep /\ u.quiet = t.quiet
      /\ u.force = t.force /\ u.lastSent = t.lastSent
  BY <1>1 DEF Suppressed, Trackers
<1>4. Good(u)
  <2> HIDE DEF u
  <2> QED
    BY <1>1, <1>2, <1>3, BaseAckAssumption
       DEF Good, Untold, Unchanged, Due, Eligible, Trackers
<1> QED
  BY <1>4

LEMMA FailedIsGood ==
  ASSUME NEW t, Good(t), Due(t)
  PROVE  Good(Failed(t))
<1> DEFINE u == Failed(t)
<1>1. t \in Trackers
  BY DEF Good
<1>5. t.fails + 1 \in 0 .. MaxAckFailures
  BY <1>1, BaseAckAssumption DEF Good, Due, Eligible, Trackers
<1>6. (t.fails + 1 >= MaxAckFailures) \in BOOLEAN
  OBVIOUS
<1>2. u \in Trackers
  <2>1. ASSUME NEW v0 \in 0 .. MaxAckFailures,
               NEW v1 \in BOOLEAN
        PROVE  [t EXCEPT !.fails = v0,
                         !.held = v1] \in Trackers
    BY <1>1 DEF Trackers
  <2>2. 0 \in Int /\ 0 \in 0 .. MaxAckFailures
    BY BaseAckAssumption
  <2>3. t.win \in Windows /\ t.force \in BOOLEAN
    BY <1>1 DEF Trackers
  <2> QED
    BY <1>5, <1>6, <2>1, <2>2, <2>3 DEF Failed
<1>3. /\ u.fails = t.fails + 1 /\ u.held = (t.fails + 1 >= MaxAckFailures)
      /\ u.win = t.win /\ u.dirty = t.dirty /\ u.asleep = t.asleep
      /\ u.quiet = t.quiet /\ u.force = t.force /\ u.lastSent = t.lastSent
  BY <1>1 DEF Failed, Trackers
<1>4. Good(u)
  <2> HIDE DEF u
  <2> QED
    BY <1>1, <1>2, <1>3, BaseAckAssumption
       DEF Good, Untold, Unchanged, Due, Eligible, Trackers
<1> QED
  BY <1>4

LEMMA PassedOverIsGood ==
  ASSUME NEW t, Good(t)
  PROVE  Good(PassedOver(t))
  BY FailedIsGood, SuppressedIsGood DEF PassedOver

LEMMA AckedIsGood ==
  ASSUME NEW t, Good(t), Due(t)
  PROVE  Good(Acked(t))
<1> DEFINE u == Acked(t)
<1>1. t \in Trackers
  BY DEF Good
<1>2. u \in Trackers
  <2>1. ASSUME NEW v0 \in 0 .. MaxAckFailures,
               NEW v1 \in BOOLEAN,
               NEW v2 \in BOOLEAN,
               NEW v3 \in Windows
        PROVE  [t EXCEPT !.fails = v0,
                         !.force = v1,
                         !.dirty = v2,
                         !.lastSent = v3] \in Trackers
    BY <1>1 DEF Trackers
  <2>2. 0 \in Int /\ 0 \in 0 .. MaxAckFailures
    BY BaseAckAssumption
  <2>3. t.win \in Windows /\ t.force \in BOOLEAN
    BY <1>1 DEF Trackers
  <2> QED
    BY <2>1, <2>2, <2>3 DEF Acked
<1>3. /\ u.fails = 0 /\ u.force = FALSE /\ u.dirty = FALSE
      /\ u.lastSent = t.win /\ u.win = t.win /\ u.held = t.held
      /\ u.asleep = t.asleep /\ u.quiet = t.quiet
  BY <1>1 DEF Acked, Trackers
<1>4. Good(u)
  <2> HIDE DEF u
  <2> QED
    BY <1>1, <1>2, <1>3, BaseAckAssumption
       DEF Good, Untold, Unchanged, Due, Eligible, Trackers
<1> QED
  BY <1>4

LEMMA LaterIsGood ==
  ASSUME NEW t, Good(t)
  PROVE  Good(Later(t))
<1> DEFINE u == [t EXCEPT !.quiet = @ + 1]
<1>1. t \in Trackers
  BY DEF Good
<1>2. u \in Trackers
  BY <1>1 DEF Trackers
<1>3. /\ u.win = t.win /\ u.dirty = t.dirty /\ u.fails = t.fails /\ u.held = t.held
      /\ u.force = t.force /\ u.lastSent = t.lastSent
  BY <1>1 DEF Trackers
<1>4. Good(u)
  <2> HIDE DEF u
  <2> QED
    BY <1>2, <1>3 DEF Good, Untold, Unchanged
<1> QED
  BY <1>4 DEF Later

\* A pass leaves every tracker good, whatever good tracker it makes of the last.
LEMMA LoopIsGood ==
  ASSUME AllGood, NEW k \in 0 .. NumNodes, NEW last, Good(last),
         tracker' = AfterLoop(k, last), nextFlush' \in Nodes
  PROVE  AllGood'
<1> SUFFICES ASSUME NEW n \in Nodes
             PROVE  Good(tracker'[n])
  BY DEF AllGood, AfterLoop, Good
<1>1. Good(PassedOver(tracker[n])) /\ Good(tracker[n])
  BY PassedOverIsGood DEF AllGood
<1> QED
  BY <1>1 DEF AfterLoop

-----------------------------------------------------------------------------
LEMMA TurnIsNode ==
  ASSUME AllGood, NEW k \in 0 .. NumNodes - 1
  PROVE  Turn(k) \in Nodes /\ (Turn(k) + 1) % NumNodes \in Nodes
  BY BaseAckAssumption DEF AllGood, Turn, Nodes

LEMMA AllGoodInit == BaseInit => AllGood
  BY FreshIsGood, BaseAckAssumption DEF BaseInit, AllGood, Good, Nodes

\* One tracker is changed to a good one.
LEMMA OneTrackerChanges ==
  ASSUME AllGood, NEW n \in Nodes, NEW t, Good(t),
         tracker' = [tracker EXCEPT ![n] = t], nextFlush' = nextFlush
  PROVE  AllGood'
  BY DEF AllGood, Good

LEMMA AllGoodNext == AllGood /\ [BaseNext]_baseVars => AllGood'
<1> SUFFICES ASSUME AllGood, [BaseNext]_baseVars
             PROVE  AllGood'
  OBVIOUS
<1> USE BaseAckAssumption
<1>1. ASSUME NEW n \in Nodes, Hear(n)
      PROVE  AllGood'
  <2>1. ASSUME NEW seq \in Seqs, NEW retx \in BOOLEAN, HearTelemetry(n, seq, retx)
        PROVE  AllGood'
    BY <2>1, HearingIsGood, OneTrackerChanges DEF HearTelemetry, AllGood
  <2>2. CASE HearEnd(n)
    BY <2>2, EndIsGood, OneTrackerChanges DEF HearEnd, AllGood
  <2>3. CASE HearBegin(n)
    BY <2>3, BeginIsGood, OneTrackerChanges DEF HearBegin, AllGood
  <2> QED
    BY <1>1, <2>1, <2>2, <2>3 DEF Hear
<1>2. ASSUME NEW n \in Nodes, ResetAckTracker(n)
      PROVE  AllGood'
  BY <1>2, FreshIsGood, OneTrackerChanges DEF ResetAckTracker
<1>3. CASE ResetAllTrackers
  BY <1>3, FreshIsGood DEF ResetAllTrackers, AllGood, Good
<1>4. ASSUME NEW k \in 0 .. NumNodes - 1, AckPassSends(k)
      PROVE  AllGood'
  <2>1. Turn(k) \in Nodes
    BY TurnIsNode
  <2>2. Good(Acked(tracker[Turn(k)]))
    BY <1>4, <2>1, AckedIsGood DEF AckPassSends, AllGood
  <2> QED
    BY <1>4, <2>2, TurnIsNode, LoopIsGood DEF AckPassSends
<1>5. ASSUME NEW k \in 0 .. NumNodes - 1, AckPassOutOfTime(k)
      PROVE  AllGood'
  <2>1. Turn(k) \in Nodes
    BY TurnIsNode
  <2> QED
    BY <1>5, <2>1, LoopIsGood DEF AckPassOutOfTime, AllGood
<1>6. CASE AckPassEnds
  BY <1>6, LoopIsGood DEF AckPassEnds, AllGood, Nodes
<1>7. CASE RateLimitEnds \/ AckClears \/ UNCHANGED baseVars
  BY <1>7 DEF RateLimitEnds, AckClears, baseVars, AllGood
<1>8. CASE BaseTick
  BY <1>8, LaterIsGood DEF BaseTick, AllGood, Good
<1> QED
  BY <1>1, <1>2, <1>3, <1>4, <1>5, <1>6, <1>7, <1>8 DEF BaseNext

(***************************************************************************)
(* What the base has received and the node has not been told stays due.    *)
(***************************************************************************)
THEOREM WhatIsUntoldStaysDue == BaseSpec => []NothingForgotten
<1>1. AllGood => NothingForgotten
  BY DEF AllGood, Good, NothingForgotten
<1> QED
  BY <1>1, AllGoodInit, AllGoodNext, PTL DEF BaseSpec

(***************************************************************************)
(* The circuit breaker of a tracker is open exactly after MaxAckFailures   *)
(* failed sends in a row, and only while the tracker has something to say. *)
(***************************************************************************)
THEOREM BreakerIsConsistent == BaseSpec => []BreakerConsistent
<1>1. AllGood => BreakerConsistent
  BY DEF AllGood, Good, BreakerConsistent
<1> QED
  BY <1>1, AllGoodInit, AllGoodNext, PTL DEF BaseSpec

(***************************************************************************)
(* The types: what is on the air is some node's window as it was, and the  *)
(* next pass begins with a node of the table.                              *)
(***************************************************************************)
AckIsTyped ==
  /\ flushRequested \in BOOLEAN /\ rateLimited \in BOOLEAN
  /\ ackAir \in Acks \cup {NoAck}

LEMMA AckIsTypedNext == AllGood /\ AckIsTyped /\ [BaseNext]_baseVars => AckIsTyped'
<1> SUFFICES ASSUME AllGood, AckIsTyped, [BaseNext]_baseVars
             PROVE  AckIsTyped'
  OBVIOUS
<1>1. ASSUME NEW k \in 0 .. NumNodes - 1, AckPassSends(k)
      PROVE  AckIsTyped'
  <2>1. Turn(k) \in Nodes
    BY TurnIsNode
  <2>2. tracker[Turn(k)].win \in Windows
    BY <2>1 DEF AllGood, Trackers
  <2>3. tracker[Turn(k)].win.base \in Seqs /\ tracker[Turn(k)].win.mask \in Masks
    BY <2>2 DEF Windows
  <2>4. /\ ackAir' = [node |-> Turn(k), base |-> tracker[Turn(k)].win.base,
                      mask |-> tracker[Turn(k)].win.mask]
        /\ flushRequested' = FALSE /\ rateLimited' = TRUE
    BY <1>1 DEF AckPassSends
  <2>5. ackAir' \in Acks
    BY <2>1, <2>3, <2>4 DEF Acks
  <2> QED
    BY <2>4, <2>5 DEF AckIsTyped
<1>2. ASSUME NEW n \in Nodes, Hear(n) \/ ResetAckTracker(n)
      PROVE  AckIsTyped'
  BY <1>2 DEF Hear, HearTelemetry, HearEnd, HearBegin, ResetAckTracker, AckIsTyped
<1>3. ASSUME NEW k \in 0 .. NumNodes - 1, AckPassOutOfTime(k)
      PROVE  AckIsTyped'
  BY <1>3 DEF AckPassOutOfTime, AckIsTyped
<1>4. CASE AckPassEnds \/ RateLimitEnds \/ AckClears
  BY <1>4 DEF AckPassEnds, RateLimitEnds, AckClears, AckIsTyped
<1>5. CASE ResetAllTrackers \/ BaseTick \/ UNCHANGED baseVars
  BY <1>5 DEF ResetAllTrackers, BaseTick, baseVars, AckIsTyped
<1> QED
  BY <1>1, <1>2, <1>3, <1>4, <1>5 DEF BaseNext

(***************************************************************************)
(* Every tracker, the cursor of the pass and the acknowledgement on the    *)
(* air keep their types: failures stop at the breaker's limit and a window *)
(* stays a base and a mask, through wraps, slides, jumps and resets.       *)
(***************************************************************************)
THEOREM BaseIsTyped == BaseSpec => []BaseTypeOK
<1>1. BaseInit => AckIsTyped
  BY DEF BaseInit, AckIsTyped
<1>2. AllGood /\ AckIsTyped => BaseTypeOK
  BY DEF AllGood, AckIsTyped, BaseTypeOK
<1> QED
  BY <1>1, <1>2, AllGoodInit, AllGoodNext, AckIsTypedNext, PTL DEF BaseSpec

-----------------------------------------------------------------------------
(***************************************************************************)
(* The composition.  What it does to the base's variables is a step of     *)
(* BaseAck, and to the node's a step of NodeTx, an Enqueue of a marker or  *)
(* one of the three that TelemetryLink adds.                               *)
(***************************************************************************)
LEMMA OneNode == Nodes = {TheNode} /\ TheNode \in Nodes
  BY TelemetryLinkAssumption DEF Nodes, TheNode

LinkOwnTypes ==
  /\ phase \in {"base", "node"} /\ updated \in BOOLEAN
  /\ duty \in {"booting", "active", "draining", "standby"}
  /\ faults \in [FaultKinds -> 0 .. MaxFaults]
  /\ delivered \subseteq Ids /\ assumed \subseteq Ids /\ acked \subseteq Ids

LinkTyped ==
  /\ AirInv /\ Counters
  /\ AllGood /\ AckIsTyped
  /\ LinkOwnTypes

LEMMA FaultIsCounted ==
  ASSUME faults \in [FaultKinds -> 0 .. MaxFaults], NEW kind, Fault(kind)
  PROVE  /\ kind \in FaultKinds
         /\ faults' = [faults EXCEPT ![kind] = faults[kind] + 1]
         /\ faults' \in [FaultKinds -> 0 .. MaxFaults]
<1>1. kind \in FaultKinds /\ MaxFaults \in Nat
      BY TelemetryLinkAssumption DEF Fault
<1>2. \A k \in FaultKinds : faults[k] \in 0 .. MaxFaults
      OBVIOUS
<1>3. faults[kind] + 1 <= MaxFaults
  <2>1. /\ faults["loss"] \in Nat /\ faults["refusal"] \in Nat /\ faults["skip"] \in Nat
        /\ faults["timeout"] \in Nat /\ faults["reboot"] \in Nat /\ faults["session"] \in Nat
        BY <1>1, <1>2 DEF FaultKinds
  <2>2. faults["loss"] + faults["refusal"] + faults["skip"]
          + faults["timeout"] + faults["reboot"] + faults["session"] < MaxFaults
        BY DEF Fault
  <2>3. \A k \in FaultKinds : faults[k] < MaxFaults
        BY <1>1, <2>1, <2>2 DEF FaultKinds
  <2> QED BY <1>1, <1>2, <2>3
<1>4. faults[kind] + 1 \in 0 .. MaxFaults
      BY <1>1, <1>2, <1>3
<1> QED BY <1>1, <1>4 DEF Fault

LEMMA FaultsStayTyped ==
  ASSUME faults \in [FaultKinds -> 0 .. MaxFaults],
         (\E kind : Fault(kind)) \/ faults' = faults
  PROVE  faults' \in [FaultKinds -> 0 .. MaxFaults]
  BY FaultIsCounted

(***************************************************************************)
(* The frame on the air has a number and an id of its own, and is heard by *)
(* the base as one of BaseAck's Hear.                                      *)
(***************************************************************************)
LEMMA AirIsFrame ==
  ASSUME Counters, air # None
  PROVE  air.kind \in Kinds /\ air.seq \in Seqs /\ air.id \in Ids /\ air.retx \in BOOLEAN
  BY DEF Counters

\* Every step of the link is one of the base, or none.
LEMMA BaseStep == LinkTyped /\ [LinkNext]_vars => [BaseNext]_baseVars
<1> SUFFICES ASSUME LinkTyped, [LinkNext]_vars  PROVE [BaseNext]_baseVars
    OBVIOUS
<1>1. CASE BasePass
  <2>1. 0 \in 0 .. NumNodes - 1
        BY BaseAckAssumption
  <2> QED BY <1>1, <2>1 DEF BasePass, BaseNext
<1>2. CASE AckHeard \/ AckLost
      BY <1>2 DEF AckHeard, AckLost, BaseNext
<1>3. CASE FrameHeard
  <2>1. air.seq \in Seqs /\ air.retx \in BOOLEAN
        BY <1>3, AirIsFrame DEF LinkTyped, FrameHeard, AirClears
  <2>2. Hear(TheNode)
        BY <1>3, <2>1 DEF FrameHeard, Hear
  <2> QED BY <2>2, OneNode DEF BaseNext
<1>4. CASE Reboot
      BY <1>4, OneNode DEF Reboot, BaseNext
<1>5. CASE FrameEnds
      BY <1>5 DEF FrameEnds, BaseNext
<1>6. CASE \/ NodeSlotComes \/ (\E kind \in AppKinds : Sample(kind))
           \/ NodeUpdates \/ SendRefused \/ FrameLost \/ SlotPasses
           \/ CloseWindow \/ EnterStandby \/ Wake \/ SessionChanges
      BY <1>6 DEF NodeSlotComes, Sample, NodeUpdates, SendRefused, FrameLost, SlotPasses,
                  CloseWindow, EnterStandby, Wake, SessionChanges
<1>7. CASE UNCHANGED vars
      BY <1>7 DEF vars
<1> QED BY <1>1, <1>2, <1>3, <1>4, <1>5, <1>6, <1>7 DEF LinkNext

\* Every step of the link is one of the node, or none, but for these.
MarkerStep == \E kind \in {"WINDOW_BEGIN", "WINDOW_END"} : Enqueue(kind)

LEMMA NodeStep ==
  LinkTyped /\ [LinkNext]_vars =>
    \/ [NodeNext]_nodeVars \/ MarkerStep
    \/ EnterStandby \/ Reboot \/ SessionChanges
<1> SUFFICES ASSUME LinkTyped, [LinkNext]_vars,
                    ~MarkerStep, ~EnterStandby, ~Reboot, ~SessionChanges
             PROVE  [NodeNext]_nodeVars
    OBVIOUS
<1>1. CASE BasePass \/ AckLost
      BY <1>1 DEF BasePass, AckLost
<1>2. CASE AckHeard
  <2>1. ackAir.base \in Seqs /\ ackAir.mask \in Masks
        BY <1>2 DEF AckHeard, LinkTyped, AckIsTyped, Acks
  <2> QED BY <1>2, <2>1 DEF AckHeard, NodeNext
<1>3. CASE NodeSlotComes
  <2>1. SlotRoom \in 1 .. SlotRoom
        BY NodeTxAssumption
  <2> QED BY <1>3, <2>1 DEF NodeSlotComes, NodeNext
<1>4. CASE \E kind \in AppKinds : Sample(kind)
      BY <1>4 DEF Sample, NodeNext
<1>5. CASE NodeUpdates
      BY <1>5 DEF NodeUpdates, NodeNext
<1>6. CASE SendRefused
      BY <1>6 DEF SendRefused, NodeNext
<1>7. CASE FrameHeard \/ FrameLost
      BY <1>7 DEF FrameHeard, FrameLost, NodeNext
<1>8. CASE SlotPasses \/ FrameEnds
      BY <1>8 DEF SlotPasses, FrameEnds, NodeNext
<1>9. CASE CloseWindow \/ Wake
      BY <1>9 DEF CloseWindow, Wake, MarkerStep
<1>10. CASE UNCHANGED vars
      BY <1>10 DEF vars
<1> QED BY <1>1, <1>2, <1>3, <1>4, <1>5, <1>6, <1>7, <1>8, <1>9, <1>10 DEF LinkNext


-----------------------------------------------------------------------------
\* The steps that are not NodeTx's keep its invariant too.
LEMMA MarkerStepKeeps ==
  ASSUME AirInv, Counters, MarkerStep
  PROVE  AirInv' /\ Counters'
<1>1. PICK kind \in {"WINDOW_BEGIN", "WINDOW_END"} : Enqueue(kind)
      BY DEF MarkerStep
<1>2. kind \in Kinds
      BY DEF Kinds
<1> QED BY <1>1, <1>2, EnqueueKeeps, EnqueueCounts

LEMMA EnterStandbyKeeps ==
  ASSUME AirInv, Counters, EnterStandby
  PROVE  AirInv' /\ Counters'
<1>1. pending \in [Slots -> EntryShape \cup {Free}] /\ nextSeq \in Seqs
      BY DEF AirInv, PendingOK
<1>2. /\ room' = 0
      /\ UNCHANGED <<queue, pending, freshAge, synced, retxUsed, sends, nextSeq, nextId,
                     air, onAir, slotRetx>>
      BY DEF EnterStandby
<1>3. Similar(pending', pending)
      BY <1>1, <1>2, SimilarToItself
<1>4. AirInv'
      BY <1>1, <1>2, <1>3, SimilarStep
<1>5. room' \in 0 .. SlotRoom
      BY <1>2, NodeTxAssumption
<1> QED BY <1>2, <1>4, <1>5 DEF Counters

LEMMA RebootKeeps ==
  ASSUME AirInv, Counters, Reboot
  PROVE  AirInv' /\ Counters'
<1>1. /\ queue' = <<>> /\ pending' = [i \in Slots |-> Free] /\ freshAge' = -1
      /\ room' = 0 /\ retxUsed' = FALSE /\ nextSeq' = 0 /\ slotRetx' = 0
      /\ UNCHANGED <<synced, sends, nextId, air, onAir>>
      BY DEF Reboot
<1>2. PendingOK(pending', onAir', nextId')
      BY <1>1, FreeIsUnused DEF PendingOK, OneEach
<1>3. QueueOK(queue', onAir', nextId') /\ Apart(queue', pending')
      BY <1>1 DEF QueueOK, Apart
<1>4. nextSeq' \in Seqs
      BY <1>1, AckWindowAssumption DEF Seqs
<1>5. AirInv'
      BY <1>1, <1>2, <1>3, <1>4 DEF AirInv
<1>6. /\ Len(queue') <= QueueDepth /\ freshAge' \in -1 .. FreshHoldoff
      /\ room' \in 0 .. SlotRoom /\ slotRetx' \in Nat
      BY <1>1, NodeTxAssumption
<1>7. retxUsed' \in BOOLEAN
      BY <1>1, Zenon
<1> QED BY <1>1, <1>5, <1>6, <1>7 DEF Counters

\* An entry whose stamps lie in the future.
LEMMA UnstampedEntry ==
  ASSUME NEW e \in EntryShape
  PROVE  LET e2 == [e EXCEPT !.age = -1, !.since = -1]
         IN  /\ e2 \in EntryShape /\ e2.frame = e.frame
             /\ e2.attempts = e.attempts /\ e2.sent = e.sent
<1>1. -1 \in Int
      OBVIOUS
<1> QED BY <1>1, Zenon DEF EntryShape

LEMMA UnstampedIsSimilar ==
  ASSUME NEW p \in [Slots -> EntryShape \cup {Free}], NEW q,
         q = [i \in Slots |-> IF IsUsed(p[i])
                              THEN [p[i] EXCEPT !.age = -1, !.since = -1] ELSE Free]
  PROVE  Similar(q, p)
<1>1. ASSUME NEW i \in Slots, IsUsed(p[i])
      PROVE  /\ q[i] \in EntryShape /\ q[i].frame = p[i].frame
             /\ q[i].attempts = p[i].attempts /\ q[i].sent = p[i].sent
  <2>1. p[i] \in EntryShape
        BY <1>1, SlotIsTyped
  <2> DEFINE e2 == [p[i] EXCEPT !.age = -1, !.since = -1]
  <2>2. q[i] = e2
        BY <1>1, Zenon
  <2>3. /\ e2 \in EntryShape /\ e2.frame = p[i].frame
        /\ e2.attempts = p[i].attempts /\ e2.sent = p[i].sent
        BY <2>1, UnstampedEntry, Zenon
  <2> HIDE DEF e2
  <2> QED BY <2>2, <2>3
<1>2. ASSUME NEW i \in Slots, ~IsUsed(p[i])
      PROVE  q[i] = Free
      BY <1>2, Zenon
<1>3. \A i \in Slots : q[i] \in EntryShape \cup {Free}
      BY <1>1, <1>2
<1>4. q = [i \in Slots |-> q[i]]
      BY Zenon
<1>5. q \in [Slots -> EntryShape \cup {Free}]
  <2>1. \E g : g = q
        OBVIOUS
  <2>2. PICK g : g = q
        BY <2>1
  <2>3. g = [i \in Slots |-> g[i]] /\ \A i \in Slots : g[i] \in EntryShape \cup {Free}
        BY <1>3, <1>4, <2>2
  <2>4. g \in [Slots -> EntryShape \cup {Free}]
        BY <2>3, Zenon
  <2> QED BY <2>2, <2>4
<1> QED BY <1>1, <1>2, <1>5, FreeIsUnused, Zenon DEF Similar

LEMMA SessionChangesKeeps ==
  ASSUME AirInv, Counters, SessionChanges
  PROVE  AirInv' /\ Counters'
<1>1. pending \in [Slots -> EntryShape \cup {Free}]
      BY DEF AirInv, PendingOK
<1>2. /\ nextSeq' = 0 /\ freshAge' = -1
      /\ UNCHANGED <<queue, synced, room, retxUsed, sends, nextId, air, onAir, slotRetx>>
      BY DEF SessionChanges
<1>3. pending' = [i \in Slots |-> IF IsUsed(pending[i])
                                  THEN [pending[i] EXCEPT !.age = -1, !.since = -1]
                                  ELSE Free]
      BY DEF SessionChanges
<1>4. Similar(pending', pending)
      BY <1>1, <1>3, UnstampedIsSimilar
<1>5. nextSeq' \in Seqs /\ freshAge' \in -1 .. FreshHoldoff
      BY <1>2, AckWindowAssumption, NodeTxAssumption DEF Seqs
<1>6. AirInv'
      BY <1>2, <1>4, <1>5, SimilarStep
<1> QED BY <1>2, <1>5, <1>6 DEF Counters

\* The ids an acknowledgement clears are those of pending frames.
LEMMA ClearedAreIds ==
  ASSUME AirInv, NEW base, NEW mask
  PROVE  Cleared(base, mask) \subseteq Ids
<1>1. ASSUME NEW i \in Slots, IsUsed(pending[i])
      PROVE  pending[i].frame.id \in Ids
  <2>1. pending[i] \in EntryShape
        BY <1>1, SlotIsTyped DEF AirInv, PendingOK
  <2> QED BY <2>1, EntryIsTyped DEF Frames
<1> QED BY <1>1 DEF Cleared

LEMMA LinkOwnTypesNext == LinkTyped /\ [LinkNext]_vars => LinkOwnTypes'
<1> SUFFICES ASSUME LinkTyped, [LinkNext]_vars  PROVE LinkOwnTypes'
    OBVIOUS
<1>1. /\ phase \in {"base", "node"} /\ updated \in BOOLEAN
      /\ duty \in {"booting", "active", "draining", "standby"}
      /\ faults \in [FaultKinds -> 0 .. MaxFaults]
      /\ delivered \subseteq Ids /\ assumed \subseteq Ids /\ acked \subseteq Ids
      BY DEF LinkTyped, LinkOwnTypes
<1>2. faults' \in [FaultKinds -> 0 .. MaxFaults]
  <2>1. (\E kind : Fault(kind)) \/ faults' = faults
        BY DEF LinkNext, vars, linkVars, NoFault, BasePass, AckHeard, AckLost, NodeSlotComes,
               Sample, NodeUpdates, SendRefused, FrameHeard, FrameLost, SlotPasses, FrameEnds,
               CloseWindow, EnterStandby, Wake, Reboot, SessionChanges
  <2> QED BY <1>1, <2>1, FaultsStayTyped
<1>3. phase' \in {"base", "node"} /\ updated' \in BOOLEAN
      BY <1>1 DEF LinkNext, vars, linkVars, BasePass, AckHeard, AckLost, NodeSlotComes,
               Sample, NodeUpdates, SendRefused, FrameHeard, FrameLost, SlotPasses, FrameEnds,
               CloseWindow, EnterStandby, Wake, Reboot, SessionChanges
<1>4. duty' \in {"booting", "active", "draining", "standby"}
      BY <1>1 DEF LinkNext, vars, linkVars, BasePass, AckHeard, AckLost, NodeSlotComes,
               Sample, NodeUpdates, SendRefused, FrameHeard, FrameLost, SlotPasses, FrameEnds,
               CloseWindow, EnterStandby, Wake, Reboot, SessionChanges, Booted
<1>5. delivered' \subseteq Ids /\ assumed' \subseteq Ids /\ acked' \subseteq Ids
  <2>1. CASE AckHeard
    <3>1. Cleared(ackAir.base, ackAir.mask) \subseteq Ids
          BY ClearedAreIds DEF LinkTyped
    <3> QED BY <1>1, <2>1, <3>1 DEF AckHeard
  <2>2. CASE FrameHeard
    <3>1. air.id \in Ids
          BY <2>2, AirIsFrame DEF LinkTyped, FrameHeard, AirClears
    <3>2. Assumes(tracker[TheNode].win, air) \subseteq Ids
          BY <3>1, NodeTxAssumption DEF Assumes, Ids
    <3> QED BY <1>1, <2>2, <3>1, <3>2 DEF FrameHeard
  <2>3. CASE ~AckHeard /\ ~FrameHeard
        BY <1>1, <2>3
        DEF LinkNext, vars, linkVars, history, BasePass, AckLost, NodeSlotComes,
            Sample, NodeUpdates, SendRefused, FrameLost, SlotPasses, FrameEnds,
            CloseWindow, EnterStandby, Wake, Reboot, SessionChanges
  <2> QED BY <2>1, <2>2, <2>3
<1> QED BY <1>2, <1>3, <1>4, <1>5 DEF LinkOwnTypes

LEMMA LinkTypedInit == LinkInit => LinkTyped
<1> SUFFICES ASSUME LinkInit  PROVE LinkTyped
    OBVIOUS
<1>1. AirInv /\ Counters
      BY AirInvInit, CountersInit DEF LinkInit
<1>2. AllGood /\ AckIsTyped
      BY AllGoodInit DEF LinkInit, BaseInit, AckIsTyped
<1>3. faults \in [FaultKinds -> 0 .. MaxFaults]
      BY TelemetryLinkAssumption DEF LinkInit
<1>4. LinkOwnTypes
      BY <1>3 DEF LinkInit, LinkOwnTypes, Booted
<1> QED BY <1>1, <1>2, <1>4 DEF LinkTyped

LEMMA LinkTypedNext == LinkTyped /\ [LinkNext]_vars => LinkTyped'
<1> SUFFICES ASSUME LinkTyped, [LinkNext]_vars  PROVE LinkTyped'
    OBVIOUS
<1>1. AllGood' /\ AckIsTyped'
      BY BaseStep, AllGoodNext, AckIsTypedNext DEF LinkTyped
<1>2. AirInv' /\ Counters'
  <2>1. CASE [NodeNext]_nodeVars
        BY <2>1, AirInvNext, CountersNext DEF LinkTyped
  <2> QED BY <2>1, NodeStep, MarkerStepKeeps, EnterStandbyKeeps, RebootKeeps,
             SessionChangesKeeps DEF LinkTyped
<1> QED BY <1>1, <1>2, LinkOwnTypesNext DEF LinkTyped

(***************************************************************************)
(* The composition keeps the types of both sides and of the channel: every *)
(* frame and acknowledgement on the air is one the other side can take.    *)
(***************************************************************************)
THEOREM LinkIsTyped == LinkSpec => []LinkTypeOK
<1>1. LinkTyped => LinkTypeOK
      BY TypesOfNode DEF LinkTyped, AllGood, AckIsTyped, BaseTypeOK, LinkOwnTypes, LinkTypeOK
<1> QED BY <1>1, LinkTypedInit, LinkTypedNext, PTL DEF LinkSpec

(***************************************************************************)
(* The base of the composition is a base of BaseAck, so that what BaseAck  *)
(* promises for any traffic holds of the traffic of a node.                *)
(***************************************************************************)
THEOREM LinkImplementsBase == LinkSpec => BaseSpec
<1>1. LinkInit => BaseInit
      BY DEF LinkInit
<1> QED BY <1>1, LinkTypedInit, LinkTypedNext, BaseStep, PTL DEF LinkSpec, BaseSpec

-----------------------------------------------------------------------------
(***************************************************************************)
(* Whose turn it is.  A node has no TIME_SYNC to lose here, the base is    *)
(* silent in the node's slot, and a frame is on the air only while the     *)
(* node's update waits for it.                                             *)
(***************************************************************************)
Turns ==
  /\ synced
  /\ phase = "node" => ackAir = NoAck
  /\ ~Idle => phase = "node"
  /\ air # None => ~Idle

LEMMA TurnsInit == LinkInit => Turns
  BY DEF LinkInit, NodeInit, BaseInit, Turns, Idle

LEMMA SendIsBusy ==
  ASSUME Counters, ~Idle, sends' = sends + 1
  PROVE  ~Idle'
  BY NodeTxAssumption DEF Counters, Idle

LEMMA TurnsNext == LinkTyped /\ Turns /\ [LinkNext]_vars => Turns'
<1> SUFFICES ASSUME LinkTyped, Turns, [LinkNext]_vars  PROVE Turns'
    OBVIOUS
<1>1. CASE BasePass
  <2>1. UNCHANGED <<synced, phase, sends, air>> /\ phase = "base"
        BY <1>1 DEF BasePass, nodeVars
  <2> QED BY <2>1 DEF Turns, Idle
<1>2. CASE AckHeard \/ AckLost
  <2>1. UNCHANGED <<synced, phase, sends, air>> /\ ackAir' = NoAck
        BY <1>2 DEF AckHeard, AckLost, ReceiveAck, AckClears, nodeVars
  <2> QED BY <2>1 DEF Turns, Idle
<1>3. CASE NodeSlotComes
  <2>1. UNCHANGED <<synced, sends, air, ackAir>> /\ phase = "base" /\ phase' = "node" /\ ackAir = NoAck
        BY <1>3 DEF NodeSlotComes, SlotOpens, nodeVars, baseVars
  <2> QED BY <2>1 DEF Turns, Idle
<1>4. CASE (\E kind \in AppKinds : Sample(kind)) \/ CloseWindow \/ Wake
  <2>1. UNCHANGED <<synced, phase, sends, air, ackAir>>
        BY <1>4 DEF Sample, CloseWindow, Wake, Enqueue, linkVars, baseVars
  <2> QED BY <2>1 DEF Turns, Idle
<1>5. CASE NodeUpdates
  <2>1. UNCHANGED <<synced, phase, ackAir>> /\ phase = "node"
        BY <1>5 DEF NodeUpdates, StartUpdate, SendRetx, SendFresh, DeferRetx, DeferFresh,
                    EndUpdate, baseVars
  <2>2. CASE SendRetx(TRUE) \/ SendFresh(TRUE)
    <3>1. ~Idle /\ sends' = sends + 1
          BY <2>2 DEF SendRetx, SendFresh, MayLoop
    <3> QED BY <2>1, <3>1, SendIsBusy DEF Turns, LinkTyped
  <2>3. CASE StartUpdate \/ DeferRetx \/ DeferFresh \/ EndUpdate
    <3>1. air = None /\ air' = None
          BY <2>3 DEF StartUpdate, DeferRetx, DeferFresh, EndUpdate, MayLoop
    <3> QED BY <2>1, <3>1 DEF Turns
  <2> QED BY <1>5, <2>2, <2>3 DEF NodeUpdates
<1>6. CASE SendRefused
  <2>1. UNCHANGED <<synced, phase, ackAir, air>> /\ phase = "node" /\ ~Idle /\ sends' = sends + 1
        BY <1>6 DEF SendRefused, SendRetx, SendFresh, MayLoop, baseVars
  <2> QED BY <2>1, SendIsBusy DEF Turns, LinkTyped
<1>7. CASE FrameHeard \/ FrameLost
  <2>1. UNCHANGED <<synced, phase, ackAir, sends>> /\ air' = None
        BY <1>7 DEF FrameHeard, FrameLost, AirClears, HearTelemetry, HearEnd, HearBegin, baseVars
  <2> QED BY <2>1 DEF Turns, Idle
<1>8. CASE SlotPasses \/ FrameEnds
  <2>1. UNCHANGED <<synced, ackAir, sends, air>> /\ phase' \in {phase, "base"} /\ Idle
        BY <1>8 DEF SlotPasses, FrameEnds, SlotShrinks, TimePasses, StandbyPasses, BaseTick,
                    linkVars, baseVars
  <2> QED BY <2>1 DEF Turns, Idle
<1>9. CASE EnterStandby \/ Reboot \/ SessionChanges
  <2>1. UNCHANGED <<synced, ackAir, sends, air, phase>>
        BY <1>9 DEF EnterStandby, Reboot, SessionChanges, ResetAckTracker, baseVars
  <2> QED BY <2>1 DEF Turns, Idle
<1>10. CASE UNCHANGED vars
  <2>1. UNCHANGED <<synced, ackAir, sends, air, phase>>
        BY <1>10 DEF vars, nodeVars, baseVars, linkVars
  <2> QED BY <2>1 DEF Turns, Idle
<1> QED BY <1>1, <1>2, <1>3, <1>4, <1>5, <1>6, <1>7, <1>8, <1>9, <1>10 DEF LinkNext

-----------------------------------------------------------------------------
(***************************************************************************)
(* What the steps do to the queue and the pending window: they leave the   *)
(* queue and at most drop or re-date entries, or they are one of these.    *)
(***************************************************************************)
Quiet ==
  /\ Similar(pending', pending)
  /\ UNCHANGED <<queue, onAir, nextId>>
  /\ SessionChanges \/ UNCHANGED nextSeq

LEMMA LinkSteps ==
  ASSUME LinkTyped, [LinkNext]_vars
  PROVE  \/ Quiet
         \/ (\E kind \in AppKinds : Sample(kind)) \/ CloseWindow \/ Wake
         \/ NodeUpdates /\ (SendRetx(TRUE) \/ SendFresh(TRUE) \/ DeferFresh)
         \/ SendRefused \/ Reboot
<1>0. AirInv /\ pending \in [Slots -> EntryShape \cup {Free}]
      BY DEF LinkTyped, AirInv, PendingOK
<1>1. UNCHANGED nodeVars => Quiet
      BY <1>0, QuietIsSimilar DEF Quiet
<1>2. CASE BasePass \/ AckLost \/ UNCHANGED vars
      BY <1>1, <1>2 DEF BasePass, AckLost, vars
<1>3. CASE AckHeard
  <2>1. ackAir.base \in Seqs /\ ackAir.mask \in Masks
        BY <1>3 DEF AckHeard, LinkTyped, AckIsTyped, Acks
  <2> QED BY <1>0, <1>3, <2>1, QuietIsSimilar DEF AckHeard, Quiet
<1>4. CASE NodeSlotComes
  <2>1. SlotRoom \in 1 .. SlotRoom
        BY NodeTxAssumption
  <2> QED BY <1>0, <1>1, <1>4, <2>1, QuietIsSimilar DEF NodeSlotComes, Quiet
<1>5. CASE NodeUpdates /\ ~(SendRetx(TRUE) \/ SendFresh(TRUE) \/ DeferFresh)
  <2>1. StartUpdate \/ DeferRetx \/ EndUpdate
        BY <1>5 DEF NodeUpdates
  <2> QED BY <1>0, <2>1, QuietIsSimilar DEF Quiet
<1>6. CASE FrameHeard \/ FrameLost
      BY <1>0, <1>6, QuietIsSimilar DEF FrameHeard, FrameLost, Quiet
<1>7. CASE SlotPasses \/ FrameEnds
  <2>1. SlotShrinks \/ TimePasses \/ StandbyPasses
        BY <1>7 DEF SlotPasses, FrameEnds
  <2> QED BY <1>0, <2>1, QuietIsSimilar DEF Quiet
<1>8. CASE EnterStandby
      BY <1>0, <1>8, SimilarToItself DEF EnterStandby, Quiet
<1>9. CASE SessionChanges
  <2>1. Similar(pending', pending)
        BY <1>0, <1>9, UnstampedIsSimilar DEF SessionChanges
  <2> QED BY <1>9, <2>1 DEF SessionChanges, Quiet
<1> QED BY <1>2, <1>3, <1>4, <1>5, <1>6, <1>7, <1>8, <1>9 DEF LinkNext

-----------------------------------------------------------------------------
(***************************************************************************)
(* A radio that has lost nothing: whatever is pending has reached the air, *)
(* and when WINDOW_END has left the queue the fresh frame it was holds     *)
(* retransmissions off, so that nothing follows it until the node is in    *)
(* standby and the base takes it for asleep.                               *)
(***************************************************************************)
NothingLost == \A kind \in {"loss", "refusal", "timeout"} : faults[kind] = 0

AllSent(p) == \A i \in Slots : IsUsed(p[i]) => p[i].sent

EndIsLast == queue # <<>> /\ queue[Len(queue)].kind = "WINDOW_END"

Drained ==
  /\ queue = <<>> /\ phase = "node" /\ freshAge = 0
  /\ IF air = None THEN tracker[TheNode].asleep ELSE air.kind = "WINDOW_END"

InStandby == Idle /\ air = None /\ ackAir = NoAck /\ tracker[TheNode].asleep

QuietInv ==
  NothingLost =>
    /\ AllSent(pending)
    /\ duty = "draining" => EndIsLast \/ Drained
    /\ duty = "standby" => InStandby

LEMMA FaultsOnlyGrow ==
  ASSUME LinkTyped, NEW kind, Fault(kind), kind \in {"loss", "refusal", "timeout"}
  PROVE  ~NothingLost'
<1>1. faults' = [faults EXCEPT ![kind] = faults[kind] + 1] /\ kind \in FaultKinds
      BY FaultIsCounted DEF LinkTyped, LinkOwnTypes
<1>2. faults[kind] \in Nat /\ faults'[kind] = faults[kind] + 1
      BY <1>1 DEF LinkTyped, LinkOwnTypes
<1> QED BY <1>2 DEF NothingLost

LEMMA NothingWasLost ==
  ASSUME LinkTyped, [LinkNext]_vars, NothingLost'
  PROVE  /\ NothingLost
         /\ ~Fault("loss") /\ ~Fault("refusal") /\ ~Fault("timeout")
<1>1. ~Fault("loss") /\ ~Fault("refusal") /\ ~Fault("timeout")
      BY FaultsOnlyGrow
<1>2. (\E kind : Fault(kind)) \/ faults' = faults
      BY DEF LinkNext, vars, linkVars, NoFault, BasePass, AckHeard, AckLost, NodeSlotComes,
             Sample, NodeUpdates, SendRefused, FrameHeard, FrameLost, SlotPasses, FrameEnds,
             CloseWindow, EnterStandby, Wake, Reboot, SessionChanges
<1>3. ASSUME NEW kind, Fault(kind)
      PROVE  NothingLost
  <2>1. kind \notin {"loss", "refusal", "timeout"}
        BY <1>1, <1>3
  <2>2. faults' = [faults EXCEPT ![kind] = faults[kind] + 1]
        BY <1>3, FaultIsCounted DEF LinkTyped, LinkOwnTypes
  <2>3. \A k \in {"loss", "refusal", "timeout"} : faults'[k] = faults[k]
        BY <2>1, <2>2 DEF LinkTyped, LinkOwnTypes, FaultKinds
  <2> QED BY <2>3 DEF NothingLost
<1>4. CASE faults' = faults
      BY <1>1, <1>4 DEF NothingLost
<1> QED BY <1>1, <1>2, <1>3, <1>4

LEMMA SimilarStaysSent ==
  ASSUME NEW p, NEW p2, Similar(p2, p), AllSent(p)
  PROVE  AllSent(p2)
  BY Zenon DEF Similar, AllSent

\* A slot rewritten with an entry that has been on the air.
LEMMA PutStaysSent ==
  ASSUME NEW p \in [Slots -> EntryShape \cup {Free}], AllSent(p),
         NEW i \in Slots, NEW e \in EntryShape, e.sent
  PROVE  AllSent([p EXCEPT ![i] = e])
<1>1. \A j \in Slots : [p EXCEPT ![i] = e][j] = IF j = i THEN e ELSE p[j]
      OBVIOUS
<1> QED BY <1>1 DEF AllSent

LEMMA RetxStaysSent ==
  ASSUME AirInv, AllSent(pending), SendRetx(TRUE)
  PROVE  AllSent(pending')
<1> DEFINE p == PendingAfterPick
           c == Candidate
<1>1. pending \in [Slots -> EntryShape \cup {Free}]
      BY DEF AirInv, PendingOK
<1>2. Picking /\ c \in ReadySlots
      BY <1>1, CandidateIsReady DEF SendRetx, RetxChosen
<1>3. c \in Slots /\ IsUsed(pending[c]) /\ ~Expired(pending[c])
      BY <1>2 DEF ReadySlots, Ready
<1>4. p[c] = pending[c] /\ pending[c] \in EntryShape
      BY <1>1, <1>2, <1>3, SlotIsTyped DEF PendingAfterPick, Unexpired
<1>5. Similar(p, pending)
      BY AfterPickIsSimilar
<1>6. p \in [Slots -> EntryShape \cup {Free}] /\ AllSent(p)
      BY <1>5, SimilarStaysSent DEF Similar
<1>7. pending' = MarkedSent(p, c)
      BY DEF SendRetx
<1> HIDE DEF p, c
<1>8. PICK e \in EntryShape : e.sent = TRUE /\ MarkedSent(p, c) = [p EXCEPT ![c] = e]
      BY <1>3, <1>4, MarkedSentWrites
<1> QED BY <1>3, <1>6, <1>7, <1>8, PutStaysSent

\* What is pending when the head of the queue goes out.
Held(f) ==
  IF f.kind = "WINDOW_BEGIN" THEN Shifted(PendingAfterPick, HoldFrames) ELSE PendingAfterPick

LEMMA HeldIsSimilar ==
  ASSUME AirInv, NEW f
  PROVE  Similar(Held(f), pending)
<1>1. Similar(PendingAfterPick, pending)
      BY AfterPickIsSimilar
<1>2. PendingAfterPick \in [Slots -> EntryShape \cup {Free}] /\ HoldFrames \in Int
      BY <1>1, NodeTxAssumption DEF Similar
<1>3. Similar(Shifted(PendingAfterPick, HoldFrames), PendingAfterPick)
      BY <1>2, ShiftedIsSimilar
<1>4. Similar(Shifted(PendingAfterPick, HoldFrames), pending)
      BY <1>1, <1>3 DEF Similar
<1> QED BY <1>1, <1>4 DEF Held

LEMMA FreshStaysSent ==
  ASSUME AirInv, AllSent(pending), synced, SendFresh(TRUE)
  PROVE  AllSent(pending')
<1> DEFINE f == Head(queue)
           p == Held(f)
<1>1. f \in Frames
      BY DEF AirInv, QueueOK, SendFresh, FreshChosen
<1>2. Similar(p, pending)
      BY HeldIsSimilar
<1>3. p \in [Slots -> EntryShape \cup {Free}] /\ AllSent(p)
      BY <1>2, SimilarStaysSent DEF Similar
<1>4. OneEach(p)
      BY <1>2, SimilarIsOK DEF AirInv, PendingOK
<1>5. pending' = Remembered(p, f, TRUE)
      BY DEF SendFresh, Held
<1> HIDE DEF p, f
<1>6. \/ pending' = p
      \/ \E i \in Slots : f \in Telemetry /\ pending' = NewAt(p, i, f, TRUE)
      BY <1>1, <1>3, <1>4, <1>5, RememberedWrites
<1>7. ASSUME NEW i \in Slots, f \in Telemetry
      PROVE  AllSent(NewAt(p, i, f, TRUE))
      BY <1>3, <1>7, NewEntry, PutStaysSent DEF NewAt
<1> QED BY <1>3, <1>6, <1>7

LEMMA AllSentNext ==
  ASSUME LinkTyped, Turns, [LinkNext]_vars, NothingLost', AllSent(pending)
  PROVE  AllSent(pending')
<1>1. AirInv /\ synced
      BY DEF LinkTyped, Turns
<1>2. ~SendRefused
      BY NothingWasLost DEF SendRefused
<1>3. CASE Quiet
      BY <1>3, SimilarStaysSent DEF Quiet
<1>4. CASE (\E kind \in AppKinds : Sample(kind)) \/ CloseWindow \/ Wake
      BY <1>4 DEF Sample, CloseWindow, Wake, Enqueue
<1>5. CASE SendRetx(TRUE)
      BY <1>1, <1>5, RetxStaysSent
<1>6. CASE SendFresh(TRUE)
      BY <1>1, <1>6, FreshStaysSent
<1>7. CASE DeferFresh
      BY <1>1, <1>7, AfterPickIsSimilar, SimilarStaysSent DEF DeferFresh
<1>8. CASE Reboot
      BY <1>8, FreeIsUnused DEF Reboot, AllSent
<1> QED BY <1>2, <1>3, <1>4, <1>5, <1>6, <1>7, <1>8, LinkSteps

-----------------------------------------------------------------------------
\* An enqueued frame is the last of the queue.
LEMMA PushedIsLast ==
  ASSUME NEW q \in Seq(Frames), NEW f \in Frames
  PROVE  Pushed(q, f) # <<>> /\ Pushed(q, f)[Len(Pushed(q, f))] = f
<1>1. ASSUME NEW r \in Seq(Frames)
      PROVE  Append(r, f) # <<>> /\ Append(r, f)[Len(Append(r, f))] = f
      OBVIOUS
<1>2. CASE Len(q) >= QueueDepth
  <2>1. q # <<>>
        BY <1>2, NodeTxAssumption
  <2>2. Tail(q) \in Seq(Frames)
        BY <2>1
  <2> QED BY <1>1, <1>2, <2>2 DEF Pushed
<1>3. CASE ~(Len(q) >= QueueDepth)
      BY <1>1, <1>3 DEF Pushed
<1> QED BY <1>2, <1>3

\* A pass leaves a node asleep and does not transmit to it.
LEMMA PassSparesTheSleeper ==
  ASSUME AllGood, BasePass, tracker[TheNode].asleep, ackAir = NoAck
  PROVE  tracker'[TheNode].asleep /\ ackAir' = NoAck
<1> DEFINE t == tracker[TheNode]
<1>1. t \in Trackers /\ t.asleep
      BY OneNode DEF AllGood
<1>2. \A k \in 0 .. NumNodes - 1 : Turn(k) = TheNode
      BY TurnIsNode, OneNode
<1>3. 0 \in 0 .. NumNodes - 1
      BY BaseAckAssumption
<1>4. ~Due(t) /\ PassedOver(t) = t
      BY <1>1, Zenon DEF Due, Eligible, PassedOver
<1>5. ~AckPassSends(0) /\ ~AckPassOutOfTime(0)
      BY <1>2, <1>3, <1>4 DEF AckPassSends, AckPassOutOfTime
<1>6. CASE AckPassEnds
  <2>1. tracker' = AfterLoop(NumNodes, tracker[0]) /\ ackAir' = ackAir
        BY <1>6 DEF AckPassEnds
  <2>2. tracker'[TheNode] \in {PassedOver(tracker[TheNode]), tracker[TheNode]}
        BY <2>1, OneNode, Zenon DEF AfterLoop, TheNode
  <2> QED BY <1>1, <1>4, <2>1, <2>2
<1>7. CASE RateLimitEnds
      BY <1>1, <1>7 DEF RateLimitEnds
<1> QED BY <1>5, <1>6, <1>7 DEF BasePass

LEMMA TickSparesTheSleeper ==
  ASSUME AllGood, BaseTick, tracker[TheNode].asleep
  PROVE  tracker'[TheNode].asleep /\ ackAir' = ackAir
<1>1. tracker[TheNode] \in Trackers
      BY OneNode DEF AllGood
<1>2. tracker'[TheNode] = Later(tracker[TheNode]) /\ ackAir' = ackAir
      BY OneNode DEF BaseTick
<1>3. [tracker[TheNode] EXCEPT !.quiet = tracker[TheNode].quiet + 1].asleep = tracker[TheNode].asleep
      BY <1>1, Zenon DEF Trackers
<1> QED BY <1>2, <1>3 DEF Later

LEMMA EndPutsAsleep ==
  ASSUME AllGood, HearEnd(TheNode)
  PROVE  tracker'[TheNode].asleep
<1>1. tracker[TheNode] \in Trackers /\ tracker' = [tracker EXCEPT ![TheNode] = HeardEnd(tracker[TheNode])]
      BY OneNode DEF AllGood, HearEnd
<1>2. tracker'[TheNode] = HeardEnd(tracker[TheNode])
      BY <1>1, OneNode DEF AllGood
<1>3. HeardEnd(tracker[TheNode]).asleep = TRUE
      BY <1>1, Zenon DEF HeardEnd, Trackers
<1> QED BY <1>2, <1>3

-----------------------------------------------------------------------------
LEMMA FreshHoldsOff ==
  ASSUME FreshHoldoff > 0, AllSent(pending), freshAge = 0
  PROVE  ~RetxChosen
  BY DEF AllSent, HeldOff, RetxChosen, Picking

\* WINDOW_END goes to the end of the queue.
LEMMA EndIsEnqueued ==
  ASSUME LinkTyped, CloseWindow
  PROVE  EndIsLast'
<1> DEFINE f == [kind |-> "WINDOW_END", seq |-> nextSeq, id |-> nextId]
<1>1. f \in Frames /\ f.kind = "WINDOW_END"
      BY DEF CloseWindow, Enqueue, LinkTyped, AirInv, Frames, Kinds
<1>2. queue' = Pushed(queue, f) /\ queue \in Seq(Frames)
      BY DEF CloseWindow, Enqueue, LinkTyped, AirInv, QueueOK
<1> HIDE DEF f
<1> QED BY <1>1, <1>2, PushedIsLast DEF EndIsLast

\* It is the last to leave it.
LEMMA EndGoesLast ==
  ASSUME LinkTyped, Turns, EndIsLast, SendFresh(TRUE), NodeUpdates
  PROVE  EndIsLast' \/ Drained'
<1>1. /\ queue \in Seq(Frames) /\ queue # <<>> /\ queue' = Tail(queue)
      /\ queue[Len(queue)].kind = "WINDOW_END"
      BY DEF EndIsLast, SendFresh, LinkTyped, AirInv, QueueOK
<1>2. CASE Len(queue) = 1
  <2>1. queue' = <<>> /\ Head(queue).kind = "WINDOW_END"
        BY <1>1, <1>2
  <2>2. freshAge' = 0 /\ phase' = "node"
        BY DEF Turns, SendFresh, NodeUpdates
  <2>3. air' = [kind |-> Head(queue).kind, seq |-> Head(queue).seq, id |-> Head(queue).id,
                retx |-> FALSE]
        BY DEF SendFresh, OnAir
  <2>4. air'.kind = "WINDOW_END" /\ air' # None
        BY <2>1, <2>3 DEF None
  <2> QED BY <2>1, <2>2, <2>4 DEF Drained
<1>3. CASE Len(queue) # 1
  <2>0. Len(queue) \in Nat /\ Len(queue) # 0
        BY <1>1
  <2>1. Len(queue) > 1 /\ Len(Tail(queue)) = Len(queue) - 1
    <3>1. Len(queue) > 1
          BY <1>3, <2>0
    <3>2. Len(Tail(queue)) = Len(queue) - 1
          BY <1>1
    <3> QED BY <3>1, <3>2
  <2>2. Tail(queue)[Len(queue) - 1] = queue[Len(queue)]
        BY <1>1, <2>1
  <2>3. Tail(queue) # <<>>
        BY <2>0, <2>1
  <2> QED BY <1>1, <2>1, <2>2, <2>3 DEF EndIsLast
<1> QED BY <1>2, <1>3

\* A drained node does nothing but wait for its frame and go into standby.
LEMMA DrainedStays ==
  ASSUME LinkTyped, Turns, Drained, duty = "draining", AllSent(pending), FreshHoldoff > 0,
         [LinkNext]_vars, NothingLost', duty' = "draining"
  PROVE  Drained'
<1>1. /\ queue = <<>> /\ phase = "node" /\ freshAge = 0 /\ ackAir = NoAck
      /\ IF air = None THEN tracker[TheNode].asleep ELSE air.kind = "WINDOW_END"
      BY DEF Drained, Turns
<1>2. ~RetxChosen
      BY <1>1, FreshHoldsOff
<1>3. ~Fault("loss") /\ ~Fault("refusal")
      BY NothingWasLost
<1>4. CASE NodeUpdates
  <2>1. UNCHANGED <<baseVars, phase>>
        BY <1>4 DEF NodeUpdates
  <2>2. StartUpdate \/ EndUpdate
        BY <1>1, <1>2, <1>4 DEF NodeUpdates, SendRetx, SendFresh, DeferRetx, DeferFresh, FreshChosen
  <2>3. UNCHANGED <<queue, freshAge, air>>
        BY <2>2 DEF StartUpdate, EndUpdate
  <2> QED BY <1>1, <2>1, <2>3 DEF Drained, baseVars
<1>5. CASE FrameHeard
  <2>1. air # None /\ air' = None /\ UNCHANGED <<queue, freshAge, phase>>
        BY <1>5 DEF FrameHeard, AirClears
  <2>2. HearEnd(TheNode)
        BY <1>1, <1>5, <2>1 DEF FrameHeard, TelemetryKinds
  <2>3. tracker'[TheNode].asleep
        BY <2>2, EndPutsAsleep DEF LinkTyped
  <2> QED BY <1>1, <2>1, <2>3 DEF Drained
<1>6. CASE SlotPasses \/ UNCHANGED vars
  <2>1. UNCHANGED <<queue, freshAge, phase, air, tracker>>
        BY <1>6 DEF SlotPasses, SlotShrinks, vars, nodeVars, baseVars, linkVars
  <2> QED BY <1>1, <2>1 DEF Drained
<1>7. ~BasePass /\ ~NodeSlotComes /\ ~SessionChanges /\ ~Wake
      BY <1>1 DEF BasePass, NodeSlotComes, SessionChanges, Wake
<1>8. ~AckHeard /\ ~AckLost /\ ~SendRefused /\ ~FrameLost
      BY <1>1, <1>3 DEF AckHeard, AckLost, SendRefused, FrameLost
<1>9. ~(\E kind \in AppKinds : Sample(kind)) /\ ~CloseWindow /\ ~EnterStandby /\ ~Reboot
      BY DEF Sample, CloseWindow, EnterStandby, Reboot, Booted
<1>10. ~FrameEnds
      BY <1>1 DEF FrameEnds, MustStandBy, TimePasses, StandbyPasses
<1> QED BY <1>4, <1>5, <1>6, <1>7, <1>8, <1>9, <1>10 DEF LinkNext

LEMMA DrainingNext ==
  ASSUME LinkTyped, Turns, QuietInv, FreshHoldoff > 0,
         [LinkNext /\ ~DeferFresh]_vars, NothingLost', duty' = "draining"
  PROVE  (EndIsLast \/ Drained)'
<1>0. [LinkNext]_vars
      OBVIOUS
<1>1. NothingLost /\ AllSent(pending)
      BY <1>0, NothingWasLost DEF QuietInv
<1>2. CASE CloseWindow
      BY <1>2, EndIsEnqueued
<1>3. CASE ~CloseWindow
  <2>1. duty = "draining"
        BY <1>0, <1>3 DEF LinkNext, vars, linkVars, BasePass, AckHeard, AckLost, NodeSlotComes,
             Sample, NodeUpdates, SendRefused, FrameHeard, FrameLost, SlotPasses, FrameEnds,
             EnterStandby, Wake, Reboot, SessionChanges, Booted
  <2>2. EndIsLast \/ Drained
        BY <1>1, <2>1 DEF QuietInv
  <2>3. CASE Drained
        BY <1>0, <1>1, <2>1, <2>3, DrainedStays
  <2>4. CASE EndIsLast
    <3>1. ~SendRefused /\ ~Reboot /\ ~Wake /\ ~(\E kind \in AppKinds : Sample(kind))
          BY <1>0, <2>1, NothingWasLost DEF SendRefused, Reboot, Booted, Wake, Sample
    <3>2. CASE queue' = queue
          BY <2>4, <3>2 DEF EndIsLast
    <3>3. CASE NodeUpdates /\ SendFresh(TRUE)
          BY <2>4, <3>3, EndGoesLast
    <3>4. CASE Quiet \/ SendRetx(TRUE) \/ UNCHANGED vars
          BY <3>2, <3>4 DEF Quiet, SendRetx, vars, nodeVars
    <3> QED BY <1>0, <1>3, <3>1, <3>3, <3>4, LinkSteps
  <2> QED BY <2>2, <2>3, <2>4
<1> QED BY <1>2, <1>3

LEMMA StandbyNext ==
  ASSUME LinkTyped, Turns, QuietInv, [LinkNext]_vars, NothingLost', duty' = "standby"
  PROVE  InStandby'
<1>1. /\ NothingLost /\ ~Fault("timeout") /\ AllGood
      BY NothingWasLost DEF LinkTyped
<1>2. CASE EnterStandby
  <2>1. queue = <<>> /\ duty = "draining" /\ Idle /\ air = None
        BY <1>1, <1>2 DEF EnterStandby
  <2>2. Drained
        BY <1>1, <2>1 DEF QuietInv, EndIsLast
  <2>3. ackAir = NoAck /\ tracker[TheNode].asleep
        BY <2>1, <2>2 DEF Drained, Turns
  <2>4. UNCHANGED <<sends, air, ackAir, tracker>>
        BY <1>2 DEF EnterStandby, baseVars
  <2> QED BY <2>1, <2>3, <2>4 DEF InStandby, Idle
<1>3. CASE ~EnterStandby
  <2>1. duty = "standby"
        BY <1>3 DEF LinkNext, vars, linkVars, BasePass, AckHeard, AckLost, NodeSlotComes,
             Sample, NodeUpdates, SendRefused, FrameHeard, FrameLost, SlotPasses, FrameEnds,
             CloseWindow, Wake, Reboot, SessionChanges, Booted
  <2>2. Idle /\ air = None /\ ackAir = NoAck /\ tracker[TheNode].asleep
        BY <1>1, <2>1 DEF QuietInv, InStandby
  <2>3. CASE BasePass
    <3>1. UNCHANGED <<sends, air>>
          BY <2>3 DEF BasePass, nodeVars
    <3> QED BY <1>1, <2>2, <2>3, <3>1, PassSparesTheSleeper DEF InStandby, Idle
  <2>4. CASE FrameEnds
    <3>1. UNCHANGED <<sends, air>> /\ BaseTick
          BY <2>4 DEF FrameEnds, TimePasses, StandbyPasses
    <3> QED BY <1>1, <2>2, <3>1, TickSparesTheSleeper DEF InStandby, Idle
  <2>5. CASE NodeSlotComes \/ SlotPasses \/ UNCHANGED vars
    <3>1. UNCHANGED <<sends, air, ackAir, tracker>>
          BY <2>1, <2>5 DEF NodeSlotComes, SlotPasses, SlotShrinks, vars, nodeVars, baseVars
    <3> QED BY <2>2, <3>1 DEF InStandby, Idle
  <2>6. ~AckHeard /\ ~AckLost /\ ~FrameHeard /\ ~FrameLost /\ ~NodeUpdates /\ ~SendRefused
        BY <2>1, <2>2 DEF AckHeard, AckLost, FrameHeard, FrameLost, AirClears, NodeUpdates,
                          SendRefused, SendRetx, SendFresh, MayLoop
  <2>7. /\ ~(\E kind \in AppKinds : Sample(kind)) /\ ~CloseWindow /\ ~Wake
        /\ ~Reboot /\ ~SessionChanges
        BY <2>1 DEF Sample, CloseWindow, Wake, Reboot, Booted, SessionChanges
  <2> QED BY <1>3, <2>3, <2>4, <2>5, <2>6, <2>7 DEF LinkNext
<1> QED BY <1>2, <1>3

LEMMA QuietInvInit == LinkInit => QuietInv
  BY FreeIsUnused DEF LinkInit, NodeInit, QuietInv, AllSent, Booted

LEMMA QuietInvNext ==
  FreshHoldoff > 0 /\ LinkTyped /\ Turns /\ QuietInv /\ [LinkNext /\ ~DeferFresh]_vars
    => QuietInv'
<1> SUFFICES ASSUME FreshHoldoff > 0, LinkTyped, Turns, QuietInv,
                    [LinkNext /\ ~DeferFresh]_vars, NothingLost'
             PROVE  /\ AllSent(pending')
                    /\ duty' = "draining" => (EndIsLast \/ Drained)'
                    /\ duty' = "standby" => InStandby'
    BY DEF QuietInv
<1>1. [LinkNext]_vars
      OBVIOUS
<1>2. AllSent(pending)
      BY <1>1, NothingWasLost DEF QuietInv
<1> QED BY <1>1, <1>2, AllSentNext, DrainingNext, StandbyNext

(***************************************************************************)
(* When nothing is lost and no frame has to go back to the queue, the base *)
(* knows of every standby before it begins: it never transmits at a radio  *)
(* that is off.                                                            *)
(***************************************************************************)
THEOREM NoAckReachesStandby ==
  ASSUME FreshHoldoff > 0
  PROVE  LinkSpec /\ [][~DeferFresh]_vars => []NoAckIntoStandby
<1>1. [LinkNext]_vars /\ [~DeferFresh]_vars => [LinkNext /\ ~DeferFresh]_vars
      OBVIOUS
<1>2. QuietInv => NoAckIntoStandby
      BY DEF QuietInv, NothingLost, InStandby, NoAckIntoStandby
<1>3. LinkTyped /\ Turns /\ QuietInv /\ [LinkNext /\ ~DeferFresh]_vars => QuietInv'
      BY QuietInvNext
<1> QED BY <1>1, <1>2, <1>3, LinkTypedInit, TurnsInit, QuietInvInit, LinkTypedNext, TurnsNext,
           PTL DEF LinkSpec

-----------------------------------------------------------------------------
(***************************************************************************)
(* Numbers less than half the space behind the next one are ordered by how *)
(* far behind they are.                                                    *)
(***************************************************************************)
LEMMA OneMoreBehind ==
  ASSUME NEW n \in Seqs, NEW s \in Seqs, 2 * Dist(s, n) < SeqSpace
  PROVE  /\ Advance(n, 1) \in Seqs
         /\ Dist(s, Advance(n, 1)) = Dist(s, n) + 1
         /\ Dist(n, Advance(n, 1)) = 1
<1>1. SeqSpace \in Nat /\ SeqSpace > 1
      BY AckWindowAssumption
<1> QED BY <1>1 DEF Dist, Advance, Seqs

LEMMA BehindIsOrdered ==
  ASSUME NEW n \in Seqs, NEW x \in Seqs, NEW y \in Seqs,
         2 * Dist(x, n) < SeqSpace, 2 * Dist(y, n) < SeqSpace
  PROVE  /\ LessThanHalf(Dist(x, y)) <=> Dist(x, n) >= Dist(y, n)
         /\ Dist(x, n) >= Dist(y, n) => Dist(x, y) = Dist(x, n) - Dist(y, n)
         /\ Dist(x, n) \in Nat /\ Dist(y, n) \in Nat
         /\ Dist(x, n) = Dist(y, n) => x = y
  BY AckWindowAssumption DEF Dist, LessThanHalf, Seqs

LEMMA NextIsNotCovered ==
  ASSUME NEW n \in Seqs, NEW b \in Seqs, NEW m,
         2 * Dist(b, n) < SeqSpace, Dist(b, n) >= 1, \A i \in m : i < Dist(b, n)
  PROVE  ~Covers(b, m, n)
<1>1. ~LessThanHalf(Dist(n, b))
      BY AckWindowAssumption DEF Dist, LessThanHalf, Seqs
<1>2. Dist(b, n) \in Int
      BY AckWindowAssumption DEF Dist, Seqs
<1>3. Dist(b, n) \notin m
      BY <1>2
<1> QED BY <1>1, <1>3 DEF Covers

(***************************************************************************)
(* Sliding covers nothing that was not covered.                            *)
(***************************************************************************)
LEMMA SlidCoversNoMore ==
  ASSUME NEW base \in Seqs, NEW mask \in Masks, NEW s \in Seqs,
         Covers(Slid(base, mask).base, Slid(base, mask).mask, s)
  PROVE  Covers(base, mask, s)
<1> USE AckWindowAssumption
<1> DEFINE k == Run(mask)
           b == Advance(base, k)
<1>1. k \in 0 .. MaskBits /\ 1 .. k \subseteq mask
      BY RunProperties
<1>2. /\ Slid(base, mask).base = b
      /\ Slid(base, mask).mask = {i \in 1 .. MaskBits : i + k \in mask}
      BY DEF Slid
<1>3. b \in Seqs
      BY <1>1 DEF Advance, Seqs
<1>4. CASE LessThanHalf(Dist(s, b)) /\ Dist(s, b) >= k
  <2>1. Dist(s, base) = Dist(s, b) - k
        BY <1>1, <1>4 DEF Dist, Advance, Seqs, LessThanHalf
  <2>2. LessThanHalf(Dist(s, base))
        BY <1>1, <1>3, <1>4, <2>1 DEF Dist, Seqs, LessThanHalf
  <2> QED BY <2>2 DEF Covers
<1>5. CASE Dist(s, b) < k
  <2>1. Dist(base, s) = k - Dist(s, b)
        BY <1>1, <1>5 DEF Dist, Advance, Seqs
  <2>2. Dist(s, b) \in Nat
        BY <1>3 DEF Dist, Seqs
  <2>3. k - Dist(s, b) \in 1 .. k
        BY <1>1, <1>5, <2>2
  <2> QED BY <1>1, <2>1, <2>3 DEF Covers
<1>6. CASE Dist(b, s) \in {i \in 1 .. MaskBits : i + k \in mask}
  <2>1. Dist(b, s) \in 1 .. MaskBits /\ Dist(b, s) + k \in mask /\ Dist(b, s) + k \in 1 .. MaskBits
        BY <1>6 DEF Masks
  <2>2. Dist(base, s) = Dist(b, s) + k
        BY <1>1, <2>1 DEF Dist, Advance, Seqs
  <2> QED BY <2>1, <2>2 DEF Covers
<1>7. Dist(s, b) \in Int /\ k \in Int
      BY <1>1, <1>3 DEF Dist, Seqs
<1>8. LessThanHalf(Dist(s, b)) \/ Dist(b, s) \in {i \in 1 .. MaskBits : i + k \in mask}
      BY <1>2 DEF Covers
<1> HIDE DEF b, k
<1> QED BY <1>4, <1>5, <1>6, <1>7, <1>8

\* A window that has nothing at or beyond the next number.
Below(w, n) ==
  /\ Dist(w.base, n) >= 1
  /\ \A i \in w.mask : i < Dist(w.base, n)

\* recordTelemetrySequence starts its window at s, or moves it there.
Restarts(w, s) == ~w.init \/ (LessThanHalf(Dist(w.base, s)) /\ Dist(w.base, s) > MaskBits)

\* The window slides over s.
LEMMA SlideIsSound ==
  ASSUME NEW w \in Windows, NEW s \in Seqs, NEW n \in Seqs,
         w.init, Below(w, n), 2 * Dist(w.base, n) < SeqSpace,
         2 * Dist(s, n) < SeqSpace, Dist(s, n) >= 1,
         LessThanHalf(Dist(w.base, s)), Dist(w.base, s) # 0, ~(Dist(w.base, s) > MaskBits)
  PROVE  /\ Below(Recorded(w, s), n)
         /\ Dist(Recorded(w, s).base, n) <= Dist(w.base, n)
         /\ \A y \in Seqs : Covers(Recorded(w, s).base, Recorded(w, s).mask, y) =>
              Covers(w.base, w.mask, y) \/ y = s
<1> DEFINE d == Dist(w.base, s)
           m == w.mask \cup {d}
           k == Run(m)
           B == Dist(w.base, n)
<1>1. w.base \in Seqs /\ w.mask \in Masks
      BY DEF Windows
<1>2. d = B - Dist(s, n) /\ B \in Nat /\ Dist(s, n) \in Nat /\ B >= Dist(s, n)
      BY <1>1, BehindIsOrdered
<1>3. d \in 1 .. MaskBits /\ d < B
  <2>1. d \in Nat /\ d # 0 /\ ~(d > MaskBits)
        BY <1>2
  <2> HIDE DEF d, B
  <2> QED BY <1>2, <2>1, AckWindowAssumption
<1>4. m \in Masks
      BY <1>1, <1>3 DEF Masks
<1>5. \A i \in m : i < B
      BY <1>3 DEF Below
<1>6. k \in 0 .. MaskBits /\ 1 .. k \subseteq m
      BY <1>4, RunProperties
<1>7. Recorded(w, s) = Slid(w.base, m)
      BY DEF Recorded
<1>8. /\ Slid(w.base, m).base = Advance(w.base, k)
      /\ Slid(w.base, m).mask = {i \in 1 .. MaskBits : i + k \in m}
      BY DEF Slid
<1> HIDE DEF m, k
<1>9. k < B
  <2>1. k = 0 \/ k \in m
        BY <1>6
  <2> QED BY <1>2, <1>3, <1>5, <2>1
<1>10. Dist(Advance(w.base, k), n) = B - k
       BY <1>1, <1>6, <1>9, AckWindowAssumption DEF Dist, Advance, Seqs
<1> HIDE DEF B, d
<1>11. Below(Recorded(w, s), n)
  <2>1. B - k >= 1
        BY <1>2, <1>6, <1>9
  <2>2. ASSUME NEW i \in 1 .. MaskBits, i + k \in m
        PROVE  i < B - k
        BY <1>2, <1>5, <1>6, <2>2
  <2> QED BY <1>7, <1>8, <1>10, <2>1, <2>2 DEF Below
<1>12. ASSUME NEW y \in Seqs, Covers(Recorded(w, s).base, Recorded(w, s).mask, y)
       PROVE  Covers(w.base, w.mask, y) \/ y = s
  <2>1. Covers(w.base, m, y)
        BY <1>1, <1>4, <1>7, <1>12, SlidCoversNoMore
  <2>2. Dist(w.base, y) = Dist(w.base, s) => y = s
        BY <1>1, AckWindowAssumption DEF Dist, Seqs
  <2> QED BY <2>1, <2>2 DEF Covers, m, d
<1>13. Dist(Recorded(w, s).base, n) <= B
       BY <1>2, <1>6, <1>7, <1>8, <1>10
<1> QED BY <1>11, <1>12, <1>13 DEF B

LEMMA RecordedIsSound ==
  ASSUME NEW w \in Windows, NEW s \in Seqs, NEW n \in Seqs,
         w.init => Below(w, n) /\ 2 * Dist(w.base, n) < SeqSpace,
         2 * Dist(s, n) < SeqSpace, Dist(s, n) >= 1
  PROVE  /\ Below(Recorded(w, s), n) /\ 2 * Dist(Recorded(w, s).base, n) < SeqSpace
         /\ \A y \in Seqs :
              2 * Dist(y, n) < SeqSpace
                /\ Covers(Recorded(w, s).base, Recorded(w, s).mask, y) =>
              \/ w.init /\ Covers(w.base, w.mask, y)
              \/ y = s
              \/ Restarts(w, s) /\ Dist(y, n) > Dist(s, n)
<1>1. CASE Restarts(w, s)
  <2>1. Recorded(w, s) = [init |-> TRUE, base |-> s, mask |-> {}]
    <3>1. Dist(w.base, s) > MaskBits => Dist(w.base, s) # 0
          BY AckWindowAssumption
    <3> QED BY <1>1, <3>1 DEF Restarts, Recorded
  <2>2. Below(Recorded(w, s), n)
        BY <2>1 DEF Below
  <2>3. ASSUME NEW y \in Seqs, 2 * Dist(y, n) < SeqSpace,
               Covers(Recorded(w, s).base, Recorded(w, s).mask, y)
        PROVE  y = s \/ Dist(y, n) > Dist(s, n)
    <3>1. LessThanHalf(Dist(y, s))
          BY <2>1, <2>3 DEF Covers
    <3> QED BY <2>3, <3>1, BehindIsOrdered
  <2>4. 2 * Dist(Recorded(w, s).base, n) < SeqSpace
    <3>1. Recorded(w, s).base = s
          BY <2>1
    <3> QED BY <3>1
  <2> QED BY <1>1, <2>2, <2>3, <2>4
<1>2. CASE ~Restarts(w, s) /\ (Dist(w.base, s) = 0 \/ ~LessThanHalf(Dist(w.base, s)))
  <2>1. w.init /\ Recorded(w, s) = w
        BY <1>2 DEF Restarts, Recorded
  <2> QED BY <2>1
<1>3. CASE ~Restarts(w, s) /\ Dist(w.base, s) # 0 /\ LessThanHalf(Dist(w.base, s))
  <2>1. w.init /\ ~(Dist(w.base, s) > MaskBits)
        BY <1>3 DEF Restarts
  <2>2. /\ Below(Recorded(w, s), n)
        /\ Dist(Recorded(w, s).base, n) <= Dist(w.base, n)
        /\ \A y \in Seqs : Covers(Recorded(w, s).base, Recorded(w, s).mask, y) =>
             Covers(w.base, w.mask, y) \/ y = s
        BY <1>3, <2>1, SlideIsSound
  <2>3. Recorded(w, s).base \in Seqs /\ w.base \in Seqs
        BY RecordedType DEF Windows
  <2>4. Dist(Recorded(w, s).base, n) \in Int /\ Dist(w.base, n) \in Int
        BY <2>3, AckWindowAssumption DEF Dist, Seqs
  <2>5. 2 * Dist(Recorded(w, s).base, n) < SeqSpace
        BY <2>1, <2>2, <2>4, AckWindowAssumption
  <2> QED BY <2>1, <2>2, <2>5
<1> QED BY <1>1, <1>2, <1>3

-----------------------------------------------------------------------------
(***************************************************************************)
(* The telemetry the node still has: queued, or pending.                   *)
(***************************************************************************)
InQueue(q)  == {q[k] : k \in 1 .. Len(q)}
InWindow(p) == {p[i].frame : i \in {j \in Slots : IsUsed(p[j])}}

LiveOf(q, p) == {f \in InQueue(q) \cup InWindow(p) : f.kind \in TelemetryKinds}

Live == LiveOf(queue, pending)

LEMMA LiveIsTyped ==
  ASSUME AirInv
  PROVE  \A f \in Live : /\ f \in Frames /\ f.seq \in Seqs
                         /\ f.id \in Ids /\ f.id \in Int /\ f.id < nextId
<1>1. \A f \in InQueue(queue) : f \in Frames /\ f.id < nextId
      BY DEF AirInv, QueueOK, InQueue
<1>2. ASSUME NEW i \in Slots, IsUsed(pending[i])
      PROVE  pending[i].frame \in Frames /\ pending[i].frame.id < nextId
  <2>1. pending[i] \in EntryShape
        BY <1>2, SlotIsTyped DEF AirInv, PendingOK
  <2> QED BY <1>2, <2>1, EntryIsTyped DEF AirInv, PendingOK, Accounts
<1>3. \A f \in InWindow(pending) : f \in Frames /\ f.id < nextId
      BY <1>2 DEF InWindow
<1> QED BY <1>1, <1>3 DEF Live, LiveOf, Frames, Ids

LEMMA WindowIsLive ==
  ASSUME AirInv
  PROVE  InWindow(pending) \subseteq Live
<1>1. ASSUME NEW i \in Slots, IsUsed(pending[i])
      PROVE  pending[i].frame.kind \in TelemetryKinds
  <2>1. pending[i] \in EntryShape
        BY <1>1, SlotIsTyped DEF AirInv, PendingOK
  <2> QED BY <2>1, EntryIsTyped DEF Telemetry
<1> QED BY <1>1 DEF InWindow, Live, LiveOf

LEMMA SimilarHasNoMore ==
  ASSUME NEW p, NEW p2, Similar(p2, p)
  PROVE  InWindow(p2) \subseteq InWindow(p)
  BY DEF Similar, InWindow

LEMMA PutHasOneMore ==
  ASSUME NEW p \in [Slots -> EntryShape \cup {Free}], NEW i \in Slots, NEW e \in EntryShape
  PROVE  /\ InWindow([p EXCEPT ![i] = e]) \subseteq InWindow(p) \cup {e.frame}
         /\ e.frame \in InWindow([p EXCEPT ![i] = e])
<1>1. \A j \in Slots : [p EXCEPT ![i] = e][j] = IF j = i THEN e ELSE p[j]
      OBVIOUS
<1>2. IsUsed(e)
      BY EntryIsUsed
<1> QED BY <1>1, <1>2 DEF InWindow

LEMMA TailHasNoMore ==
  ASSUME NEW q \in Seq(Frames), q # <<>>
  PROVE  InQueue(Tail(q)) \subseteq InQueue(q) /\ Head(q) \in InQueue(q)
<1>1. /\ Len(q) \in Nat /\ Len(q) >= 1 /\ Len(Tail(q)) = Len(q) - 1 /\ Head(q) = q[1]
      /\ \A k \in 1 .. Len(Tail(q)) : Tail(q)[k] = q[k + 1]
      OBVIOUS
<1>2. 1 \in 1 .. Len(q) /\ \A k \in 1 .. Len(Tail(q)) : k + 1 \in 1 .. Len(q)
      BY <1>1
<1> QED BY <1>1, <1>2 DEF InQueue

LEMMA PushedHasOneMore ==
  ASSUME NEW q \in Seq(Frames), NEW f \in Frames
  PROVE  InQueue(Pushed(q, f)) \subseteq InQueue(q) \cup {f}
<1>1. ASSUME NEW r \in Seq(Frames)
      PROVE  InQueue(Append(r, f)) \subseteq InQueue(r) \cup {f}
  <2>1. /\ Len(Append(r, f)) = Len(r) + 1 /\ Len(r) \in Nat
        /\ Append(r, f)[Len(r) + 1] = f
        /\ \A k \in 1 .. Len(r) : Append(r, f)[k] = r[k]
        OBVIOUS
  <2>2. \A k \in 1 .. Len(Append(r, f)) : k = Len(r) + 1 \/ k \in 1 .. Len(r)
        BY <2>1
  <2> QED BY <2>1, <2>2 DEF InQueue
<1>2. CASE Len(q) >= QueueDepth
  <2>1. q # <<>>
        BY <1>2, NodeTxAssumption
  <2>2. Tail(q) \in Seq(Frames) /\ InQueue(Tail(q)) \subseteq InQueue(q)
        BY <2>1, TailHasNoMore
  <2> QED BY <1>1, <1>2, <2>2 DEF Pushed
<1>3. CASE ~(Len(q) >= QueueDepth)
      BY <1>1, <1>3 DEF Pushed
<1> QED BY <1>2, <1>3

-----------------------------------------------------------------------------
\* No step but an enqueue of telemetry adds to what the node has.
LEMMA RetxAddsNothing ==
  ASSUME AirInv, NEW ok \in BOOLEAN, SendRetx(ok)
  PROVE  /\ Live' \subseteq Live /\ nextSeq' = nextSeq
         /\ ok => air' # None /\ \E f \in InWindow(pending') : f.seq = air'.seq /\ f.id = air'.id
<1> DEFINE p == PendingAfterPick
           c == Candidate
<1>1. pending \in [Slots -> EntryShape \cup {Free}]
      BY DEF AirInv, PendingOK
<1>2. Picking /\ c \in ReadySlots
      BY <1>1, CandidateIsReady DEF SendRetx, RetxChosen
<1>3. c \in Slots /\ IsUsed(pending[c]) /\ ~Expired(pending[c])
      BY <1>2 DEF ReadySlots, Ready
<1>4. p[c] = pending[c] /\ pending[c] \in EntryShape
      BY <1>1, <1>2, <1>3, SlotIsTyped DEF PendingAfterPick, Unexpired
<1>5. Similar(p, pending)
      BY AfterPickIsSimilar
<1>6. p \in [Slots -> EntryShape \cup {Free}] /\ InWindow(p) \subseteq InWindow(pending)
      BY <1>5, SimilarHasNoMore DEF Similar
<1>7. queue' = queue /\ nextSeq' = nextSeq
      BY DEF SendRetx
<1>8. CASE ~ok
  <2>1. pending' = p
        BY <1>8 DEF SendRetx
  <2> QED BY <1>6, <1>7, <1>8, <2>1 DEF Live, LiveOf
<1>9. CASE ok
  <2>1. /\ pending' = MarkedSent(p, c)
        /\ air' = [kind |-> pending[c].frame.kind, seq |-> pending[c].frame.seq,
                   id |-> pending[c].frame.id, retx |-> TRUE]
        BY <1>9 DEF SendRetx, OnAir
  <2> HIDE DEF p, c
  <2>2. PICK e \in EntryShape : e.frame = p[c].frame /\ MarkedSent(p, c) = [p EXCEPT ![c] = e]
        BY <1>3, <1>4, MarkedSentWrites
  <2>3. /\ InWindow(pending') \subseteq InWindow(p) \cup {e.frame}
        /\ e.frame \in InWindow(pending')
        BY <1>3, <1>6, <2>1, <2>2, PutHasOneMore
  <2>4. e.frame = pending[c].frame /\ e.frame \in InWindow(pending)
        BY <1>3, <1>4, <2>2 DEF InWindow
  <2>5. Live' \subseteq Live
        BY <1>6, <1>7, <2>3, <2>4 DEF Live, LiveOf
  <2>6. air' # None /\ air'.seq = e.frame.seq /\ air'.id = e.frame.id
    <3>1. pending[c].frame.kind \in TelemetryKinds
          BY <1>4, EntryIsTyped DEF Telemetry
    <3> QED BY <2>1, <2>4, <3>1 DEF None, TelemetryKinds
  <2> QED BY <1>7, <2>3, <2>5, <2>6
<1> QED BY <1>8, <1>9

LEMMA FreshAddsNothing ==
  ASSUME AirInv, synced, NEW ok \in BOOLEAN, SendFresh(ok)
  PROVE  /\ Live' \subseteq Live /\ nextSeq' = nextSeq
         /\ ok /\ Head(queue).kind \in TelemetryKinds =>
              \E f \in InWindow(pending') : f.seq = air'.seq /\ f.id = air'.id
<1> DEFINE f == Head(queue)
           p == IF ok THEN Held(f) ELSE PendingAfterPick
<1>1. queue \in Seq(Frames) /\ queue # <<>> /\ f \in Frames
      BY DEF AirInv, QueueOK, SendFresh, FreshChosen
<1>2. Similar(p, pending)
      BY HeldIsSimilar, AfterPickIsSimilar
<1>3. p \in [Slots -> EntryShape \cup {Free}] /\ InWindow(p) \subseteq InWindow(pending)
      BY <1>2, SimilarHasNoMore DEF Similar
<1>4. OneEach(p)
      BY <1>2, SimilarIsOK DEF AirInv, PendingOK
<1>5. pending' = Remembered(p, f, ok) /\ queue' = Tail(queue) /\ nextSeq' = nextSeq
      BY DEF SendFresh, Held
<1>6. InQueue(queue') \subseteq InQueue(queue) /\ f \in InQueue(queue)
      BY <1>1, <1>5, TailHasNoMore
<1> HIDE DEF p
<1>7. ASSUME NEW i \in Slots, NEW e \in EntryShape, e.frame = f, pending' = [p EXCEPT ![i] = e]
      PROVE  InWindow(pending') \subseteq InWindow(p) \cup {f} /\ f \in InWindow(pending')
      BY <1>3, <1>7, PutHasOneMore
<1>8. \/ pending' = p /\ (ok => f.kind \notin TelemetryKinds)
      \/ InWindow(pending') \subseteq InWindow(p) \cup {f} /\ f \in InWindow(pending')
  <2> HIDE DEF f
  <2>1. ASSUME NEW i \in Slots, f \in Telemetry, pending' = NewAt(p, i, f, ok)
        PROVE  InWindow(pending') \subseteq InWindow(p) \cup {f} /\ f \in InWindow(pending')
        BY <1>7, <2>1, NewEntry DEF NewAt
  <2>2. ASSUME NEW i \in Slots, f \in Telemetry, IsUsed(p[i]), pending' = RefreshedAt(p, i, f)
        PROVE  InWindow(pending') \subseteq InWindow(p) \cup {f} /\ f \in InWindow(pending')
    <3> DEFINE e == [p[i] EXCEPT !.frame = f, !.since = 0]
    <3>1. p[i] \in EntryShape
          BY <1>3, <2>2, SlotIsTyped
    <3>2. e \in EntryShape /\ e.frame = f
          BY <2>2, <3>1, RefreshedEntry, Zenon
    <3>3. pending' = [p EXCEPT ![i] = e]
          BY <2>2 DEF RefreshedAt
    <3> HIDE DEF e
    <3> QED BY <1>7, <3>2, <3>3
  <2> QED BY <1>1, <1>3, <1>4, <1>5, <2>1, <2>2, RememberedWrites
<1>9. Live' \subseteq Live
      BY <1>3, <1>6, <1>8 DEF Live, LiveOf
<1>10. ok => air'.seq = f.seq /\ air'.id = f.id
       BY DEF SendFresh, OnAir
<1> QED BY <1>5, <1>8, <1>9, <1>10

\* The frame that Enqueue numbers.
NewFrame(kind) == [kind |-> kind, seq |-> nextSeq, id |-> nextId]

LEMMA EnqueueAddsOne ==
  ASSUME AirInv, NEW kind \in Kinds, Enqueue(kind)
  PROVE  /\ NewFrame(kind) \in Frames
         /\ \A f \in Live' : f \in Live \/ (f = NewFrame(kind) /\ kind \in TelemetryKinds)
<1>1. NewFrame(kind) \in Frames /\ queue \in Seq(Frames)
      BY DEF NewFrame, AirInv, QueueOK, Enqueue, Frames
<1>2. queue' = Pushed(queue, NewFrame(kind)) /\ pending' = pending
      BY DEF Enqueue, NewFrame
<1>3. InQueue(queue') \subseteq InQueue(queue) \cup {NewFrame(kind)}
      BY <1>1, <1>2, PushedHasOneMore
<1>4. NewFrame(kind).kind = kind
      BY DEF NewFrame
<1> QED BY <1>1, <1>2, <1>3, <1>4 DEF Live, LiveOf

LEMMA DeferAddsNothing ==
  ASSUME AirInv, DeferFresh
  PROVE  Live' \subseteq Live /\ nextSeq' = nextSeq
<1>1. queue \in Seq(Frames) /\ queue # <<>> /\ Head(queue) \in Frames
      BY DEF AirInv, QueueOK, DeferFresh, FreshChosen
<1>2. Tail(queue) \in Seq(Frames)
      BY <1>1
<1>3. queue' = Pushed(Tail(queue), Head(queue)) /\ pending' = PendingAfterPick /\ nextSeq' = nextSeq
      BY DEF DeferFresh
<1>4. InQueue(queue') \subseteq InQueue(queue)
  <2>1. InQueue(Tail(queue)) \subseteq InQueue(queue) /\ Head(queue) \in InQueue(queue)
        BY <1>1, TailHasNoMore
  <2>2. InQueue(queue') \subseteq InQueue(Tail(queue)) \cup {Head(queue)}
        BY <1>1, <1>2, <1>3, PushedHasOneMore
  <2> QED BY <2>1, <2>2
<1>5. InWindow(pending') \subseteq InWindow(pending)
      BY <1>3, AfterPickIsSimilar, SimilarHasNoMore
<1> QED BY <1>3, <1>4, <1>5 DEF Live, LiveOf

LEMMA LiveSteps ==
  ASSUME LinkTyped, Turns, [LinkNext]_vars, ~SessionChanges
  PROVE  \/ Live' \subseteq Live /\ nextSeq' = nextSeq
         \/ \E kind \in TelemetryKinds :
              /\ Sample(kind) /\ NewFrame(kind) \in Frames
              /\ Live' \subseteq Live \cup {NewFrame(kind)}
         \/ Reboot /\ Live' = {}
<1>1. AirInv /\ synced
      BY DEF LinkTyped, Turns
<1>2. CASE Quiet
  <2>1. Live' \subseteq Live
        BY <1>2, SimilarHasNoMore DEF Quiet, Live, LiveOf
  <2> QED BY <1>2, <2>1 DEF Quiet
<1>3. CASE \E kind \in AppKinds : Sample(kind)
  <2>1. PICK kind \in TelemetryKinds : Sample(kind)
        BY <1>3 DEF Sample
  <2>2. kind \in Kinds /\ Enqueue(kind)
        BY <2>1 DEF Kinds, Sample
  <2>3. NewFrame(kind) \in Frames /\ Live' \subseteq Live \cup {NewFrame(kind)}
        BY <1>1, <2>2, EnqueueAddsOne
  <2> QED BY <2>1, <2>3
<1>4. CASE CloseWindow \/ Wake
  <2>1. PICK kind \in {"WINDOW_BEGIN", "WINDOW_END"} : Enqueue(kind)
        BY <1>4 DEF CloseWindow, Wake
  <2>2. kind \in Kinds /\ kind \notin TelemetryKinds
        BY DEF Kinds, TelemetryKinds
  <2>3. Live' \subseteq Live
        BY <1>1, <2>1, <2>2, EnqueueAddsOne
  <2>4. nextSeq' = nextSeq
        BY <2>1, <2>2 DEF Enqueue
  <2> QED BY <2>3, <2>4
<1>5. CASE SendRetx(TRUE) \/ SendFresh(TRUE) \/ SendRefused
      BY <1>1, <1>5, RetxAddsNothing, FreshAddsNothing DEF SendRefused
<1>6. CASE DeferFresh
      BY <1>1, <1>6, DeferAddsNothing
<1>7. CASE Reboot
      BY <1>7, FreeIsUnused DEF Reboot, Live, LiveOf, InQueue, InWindow
<1> QED BY <1>2, <1>3, <1>4, <1>5, <1>6, <1>7, LinkSteps

-----------------------------------------------------------------------------
(***************************************************************************)
(* The base's window changes when a telemetry frame is heard, and when the *)
(* node's AWAKEN resets it.                                                *)
(***************************************************************************)
Window == tracker[TheNode].win

LEMMA TrackerKeepsWindow ==
  ASSUME NEW t \in Trackers
  PROVE  /\ PassedOver(t).win = t.win /\ Acked(t).win = t.win /\ Later(t).win = t.win
         /\ HeardEnd(t).win = t.win /\ HeardBegin(t).win = t.win
<1>1. Suppressed(t).win = t.win /\ Failed(t).win = t.win
      BY Zenon DEF Suppressed, Failed, Trackers
<1>2. PassedOver(t).win = t.win
      BY <1>1 DEF PassedOver
<1>3. Acked(t).win = t.win
      BY Zenon DEF Acked, Trackers
<1>4. [t EXCEPT !.quiet = t.quiet + 1].win = t.win
      BY Zenon DEF Trackers
<1>5. Later(t).win = t.win
      BY <1>4 DEF Later
<1>6. HeardEnd(t).win = t.win /\ HeardBegin(t).win = t.win
      BY Zenon DEF HeardEnd, HeardBegin, Trackers
<1> QED BY <1>2, <1>3, <1>5, <1>6

LEMMA PassKeepsWindow ==
  ASSUME LinkTyped, BasePass
  PROVE  /\ Window' = Window
         /\ \/ ackAir' = ackAir
            \/ Window.init /\ ackAir'.base = Window.base /\ ackAir'.mask = Window.mask
<1> DEFINE t == tracker[TheNode]
<1>1. t \in Trackers /\ AllGood
      BY OneNode DEF LinkTyped, AllGood
<1>2. Turn(0) = TheNode /\ 0 \in 0 .. NumNodes - 1
  <2>1. 0 \in 0 .. NumNodes - 1
        BY BaseAckAssumption
  <2> QED BY <1>1, <2>1, TurnIsNode, OneNode
<1>3. ASSUME NEW k, NEW last, last.win = t.win, tracker' = AfterLoop(k, last)
      PROVE  Window' = Window
  <2>1. tracker'[TheNode] \in {PassedOver(t), last, t}
        BY <1>3, OneNode, Zenon DEF AfterLoop
  <2> QED BY <1>1, <1>3, <2>1, TrackerKeepsWindow DEF Window
<1>4. CASE AckPassSends(0)
  <2>1. /\ Due(t) /\ tracker' = AfterLoop(0, Acked(t))
        /\ ackAir' = [node |-> TheNode, base |-> t.win.base, mask |-> t.win.mask]
        BY <1>2, <1>4 DEF AckPassSends
  <2>2. t.win.init
        BY <2>1 DEF Due, Eligible
  <2>3. Window' = Window
        BY <1>1, <1>3, <2>1, TrackerKeepsWindow
  <2> QED BY <2>1, <2>2, <2>3 DEF Window
<1>5. CASE AckPassOutOfTime(0)
  <2>1. tracker' = AfterLoop(0, t) /\ ackAir' = ackAir
        BY <1>2, <1>5 DEF AckPassOutOfTime
  <2> QED BY <1>3, <2>1
<1>6. CASE AckPassEnds
  <2>1. tracker' = AfterLoop(NumNodes, t) /\ ackAir' = ackAir
        BY <1>6 DEF AckPassEnds, TheNode
  <2> QED BY <1>3, <2>1
<1>7. CASE RateLimitEnds
      BY <1>7 DEF RateLimitEnds, Window
<1> QED BY <1>4, <1>5, <1>6, <1>7 DEF BasePass

LEMMA TelemetryIsRecorded ==
  ASSUME LinkTyped, FrameHeard
  PROVE  \/ /\ air.kind \in TelemetryKinds
            /\ Window' = Recorded(Window, air.seq)
            /\ assumed' = assumed \cup Assumes(Window, air)
         \/ Window' = Window
<1> DEFINE t == tracker[TheNode]
<1>1. t \in Trackers /\ tracker \in [Nodes -> Trackers] /\ TheNode \in Nodes
      BY OneNode DEF LinkTyped, AllGood
<1>2. CASE air.kind \in TelemetryKinds /\ HearTelemetry(TheNode, air.seq, air.retx)
           /\ assumed' = assumed \cup Assumes(tracker[TheNode].win, air)
  <2>1. tracker'[TheNode] = HeardTelemetry(t, air.seq, air.retx)
        BY <1>1, <1>2 DEF HearTelemetry
  <2>2. HeardTelemetry(t, air.seq, air.retx).win = Recorded(t.win, air.seq)
        BY <1>1, Zenon DEF HeardTelemetry, Trackers
  <2> QED BY <1>2, <2>1, <2>2 DEF Window
<1>3. CASE HearEnd(TheNode)
  <2>1. tracker'[TheNode] = HeardEnd(t)
        BY <1>1, <1>3 DEF HearEnd
  <2> QED BY <1>1, <2>1, TrackerKeepsWindow DEF Window
<1>4. CASE HearBegin(TheNode)
  <2>1. tracker'[TheNode] = HeardBegin(t)
        BY <1>1, <1>4 DEF HearBegin
  <2> QED BY <1>1, <2>1, TrackerKeepsWindow DEF Window
<1> QED BY <1>2, <1>3, <1>4 DEF FrameHeard

LEMMA RebootResets ==
  ASSUME LinkTyped, Reboot
  PROVE  ~Window'.init
<1>1. tracker'[TheNode] = FreshTracker
      BY OneNode DEF Reboot, ResetAckTracker, LinkTyped, AllGood
<1> QED BY <1>1 DEF Window, FreshTracker, FreshWindow

LEMMA WindowSteps ==
  ASSUME LinkTyped, [LinkNext]_vars
  PROVE  \/ Window' = Window
         \/ FrameHeard \/ Reboot
<1>1. CASE BasePass
      BY <1>1, PassKeepsWindow
<1>2. CASE FrameEnds
  <2>1. BaseTick /\ tracker[TheNode] \in Trackers
        BY <1>2, OneNode DEF FrameEnds, LinkTyped, AllGood
  <2>2. tracker'[TheNode] = Later(tracker[TheNode])
        BY <2>1, OneNode DEF BaseTick
  <2> QED BY <2>1, <2>2, TrackerKeepsWindow DEF Window
<1>3. CASE Reboot
      BY <1>3
<1>4. CASE AckHeard \/ AckLost
      BY <1>4 DEF AckHeard, AckLost, AckClears, Window
<1>5. CASE \/ NodeSlotComes \/ (\E kind \in AppKinds : Sample(kind))
           \/ NodeUpdates \/ SendRefused \/ FrameLost \/ SlotPasses
           \/ CloseWindow \/ EnterStandby \/ Wake \/ SessionChanges \/ UNCHANGED vars
  <2>1. UNCHANGED baseVars
        BY <1>5 DEF NodeSlotComes, Sample, NodeUpdates, SendRefused, FrameLost, SlotPasses,
                  CloseWindow, EnterStandby, Wake, SessionChanges, vars
  <2> QED BY <2>1 DEF baseVars, Window
<1> QED BY <1>1, <1>2, <1>3, <1>4, <1>5 DEF LinkNext

-----------------------------------------------------------------------------
(***************************************************************************)
(* A frame on the air that wants an acknowledgement is pending.            *)
(***************************************************************************)
AirIsPending ==
  air # None /\ air.kind \in TelemetryKinds =>
    \E f \in InWindow(pending) : f.seq = air.seq /\ f.id = air.id

LEMMA AirStaysPending ==
  ASSUME LinkTyped, Turns, AirIsPending, [LinkNext]_vars
  PROVE  AirIsPending'
<1>1. AirInv /\ synced
      BY DEF LinkTyped, Turns
<1>2. CASE SendRetx(TRUE)
      BY <1>1, <1>2, RetxAddsNothing DEF AirIsPending
<1>3. CASE SendFresh(TRUE)
  <2>1. air'.kind = Head(queue).kind
        BY <1>3 DEF SendFresh, OnAir
  <2> QED BY <1>1, <1>3, <2>1, FreshAddsNothing DEF AirIsPending
<1>4. CASE air' = None
      BY <1>4 DEF AirIsPending
<1>5. CASE UNCHANGED <<air, pending>>
      BY <1>5 DEF AirIsPending
<1>6. BasePass \/ AckLost \/ NodeSlotComes \/ (\E kind \in AppKinds : Sample(kind))
        \/ CloseWindow \/ Wake \/ SlotPasses \/ EnterStandby \/ UNCHANGED vars
        => UNCHANGED <<air, pending>>
      BY DEF BasePass, AckLost, NodeSlotComes, SlotOpens, Sample, CloseWindow, Wake, Enqueue,
             SlotPasses, SlotShrinks, EnterStandby, vars, nodeVars
<1>7. AckHeard \/ FrameHeard \/ FrameLost \/ FrameEnds \/ Reboot \/ SessionChanges
        => air' = None
      BY DEF AckHeard, ReceiveAck, FrameHeard, FrameLost, AirClears, FrameEnds, TimePasses,
             StandbyPasses, Reboot, SessionChanges, Turns
<1>8. NodeUpdates => SendRetx(TRUE) \/ SendFresh(TRUE) \/ air' = None
      BY DEF NodeUpdates, StartUpdate, DeferRetx, DeferFresh, EndUpdate, MayLoop
<1>9. SendRefused => air' = None
      BY DEF SendRefused, SendRetx, SendFresh, MayLoop
<1> QED BY <1>2, <1>3, <1>4, <1>5, <1>6, <1>7, <1>8, <1>9 DEF LinkNext

-----------------------------------------------------------------------------
(***************************************************************************)
(* The base is less than half the sequence space behind the node, and so   *)
(* is what the node still has.                                             *)
(***************************************************************************)
Near(n) ==
  /\ Window.init => 2 * Dist(Window.base, n) < SeqSpace
  /\ \A f \in Live : 2 * Dist(f.seq, n) < SeqSpace

NumbersAreNear == faults["session"] = 0 => Near(nextSeq)

\* What the node still has was numbered in the order of its ids.
InOrder(L, n) ==
  \A f, g \in L : Dist(f.seq, n) >= 1 /\ (f.id < g.id <=> Dist(f.seq, n) > Dist(g.seq, n))

Known == delivered \cup assumed

\* The base has what it would acknowledge.
CoversKnown == \A f \in Live : Covers(Window.base, Window.mask, f.seq) => f.id \in Known

\* An acknowledgement on the air says what the base's window says.
AckIsWindow == Window.init /\ ackAir.base = Window.base /\ ackAir.mask = Window.mask

Sound ==
  /\ InOrder(Live, nextSeq)
  /\ Window.init => Below(Window, nextSeq) /\ CoversKnown
  /\ ackAir # NoAck => AckIsWindow
  /\ acked \subseteq Known

SoundInv == AirIsPending /\ (faults["session"] = 0 => Sound)

LEMMA SessionsOnlyGrow ==
  ASSUME LinkTyped, [LinkNext]_vars, faults'["session"] = 0
  PROVE  faults["session"] = 0 /\ ~SessionChanges
<1>1. (\E kind : Fault(kind)) \/ faults' = faults
      BY DEF LinkNext, vars, linkVars, NoFault, BasePass, AckHeard, AckLost, NodeSlotComes,
             Sample, NodeUpdates, SendRefused, FrameHeard, FrameLost, SlotPasses, FrameEnds,
             CloseWindow, EnterStandby, Wake, Reboot, SessionChanges
<1>2. "session" \in FaultKinds /\ faults \in [FaultKinds -> 0 .. MaxFaults]
      BY DEF FaultKinds, LinkTyped, LinkOwnTypes
<1>3. ASSUME NEW kind, Fault(kind)
      PROVE  /\ faults' = [faults EXCEPT ![kind] = faults[kind] + 1]
             /\ kind \in FaultKinds
      BY <1>2, <1>3, FaultIsCounted
<1>4. faults["session"] \in Nat /\ MaxFaults \in Nat
      BY <1>2, TelemetryLinkAssumption
<1>5. ~Fault("session")
  <2>1. ASSUME Fault("session")
        PROVE  faults'["session"] = faults["session"] + 1
        BY <1>2, <1>3, <2>1
  <2> QED BY <1>4, <2>1
<1>6. faults'["session"] = faults["session"]
  <2>1. ASSUME NEW kind, Fault(kind)
        PROVE  faults'["session"] = faults["session"]
        BY <1>2, <1>3, <1>5, <2>1
  <2> QED BY <1>1, <2>1
<1> QED BY <1>5, <1>6 DEF SessionChanges

LEMMA KnownGrows ==
  ASSUME [LinkNext]_vars
  PROVE  Known \subseteq Known' /\ (~AckHeard => acked' = acked)
<1>1. CASE FrameHeard
      BY <1>1 DEF FrameHeard, Known
<1>2. CASE ~FrameHeard
      BY <1>2 DEF LinkNext, vars, linkVars, history, Known, BasePass, AckHeard, AckLost,
             NodeSlotComes, Sample, NodeUpdates, SendRefused, FrameLost, SlotPasses, FrameEnds,
             CloseWindow, EnterStandby, Wake, Reboot, SessionChanges
<1>3. ~AckHeard => acked' = acked
      BY DEF LinkNext, vars, linkVars, history, BasePass, AckLost, FrameHeard,
             NodeSlotComes, Sample, NodeUpdates, SendRefused, FrameLost, SlotPasses, FrameEnds,
             CloseWindow, EnterStandby, Wake, Reboot, SessionChanges
<1> QED BY <1>1, <1>2, <1>3

\* A newly numbered frame is behind every other.
LEMMA NewIsLast ==
  ASSUME AirInv, NEW kind \in TelemetryKinds, Enqueue(kind), NewFrame(kind) \in Frames,
         InOrder(Live, nextSeq), Near(nextSeq), NEW L, L \subseteq Live \cup {NewFrame(kind)}
  PROVE  InOrder(L, nextSeq')
<1> DEFINE x == NewFrame(kind)
<1>1. nextSeq' = Advance(nextSeq, 1) /\ nextSeq \in Seqs
      BY DEF Enqueue, AirInv
<1>2. x.seq = nextSeq /\ x.id = nextId /\ nextId \in Int
      BY DEF NewFrame, AirInv
<1>3. \A f \in Live : /\ f.seq \in Seqs /\ f.id \in Int /\ f.id < nextId
                      /\ 2 * Dist(f.seq, nextSeq) < SeqSpace
      BY LiveIsTyped DEF Near
<1>4. \A f \in Live : /\ Dist(f.seq, nextSeq') = Dist(f.seq, nextSeq) + 1
                      /\ Dist(f.seq, nextSeq) \in Nat
      BY <1>1, <1>3, OneMoreBehind, BehindIsOrdered
<1>5. \A f \in Live : Dist(f.seq, nextSeq) >= 1
      BY DEF InOrder
<1>6. Live # {} => Dist(x.seq, nextSeq') = 1
      BY <1>1, <1>2, <1>3, OneMoreBehind
<1>7. Dist(x.seq, nextSeq') >= 1
      BY <1>1, <1>2, AckWindowAssumption DEF Dist, Advance, Seqs
<1>8. Dist(x.seq, nextSeq') \in Int
      BY <1>1, <1>2, AckWindowAssumption DEF Dist, Advance, Seqs
<1> HIDE DEF x
<1>9. ASSUME NEW f \in L, NEW g \in L
      PROVE  Dist(f.seq, nextSeq') >= 1
               /\ (f.id < g.id <=> Dist(f.seq, nextSeq') > Dist(g.seq, nextSeq'))
  <2>1. CASE f \in Live /\ g \in Live
    <3>1. f.id < g.id <=> Dist(f.seq, nextSeq) > Dist(g.seq, nextSeq)
          BY <2>1 DEF InOrder
    <3> QED BY <1>4, <1>5, <2>1, <3>1
  <2>2. CASE f \in Live /\ g = x
        BY <1>2, <1>3, <1>4, <1>5, <1>6, <2>2
  <2>3. CASE f = x /\ g \in Live
        BY <1>2, <1>3, <1>4, <1>5, <1>6, <1>7, <2>3
  <2>4. CASE f = x /\ g = x
        BY <1>2, <1>7, <1>8, <2>4
  <2> QED BY <2>1, <2>2, <2>3, <2>4 DEF x
<1> QED BY <1>9 DEF InOrder

LEMMA OrderNext ==
  ASSUME LinkTyped, Turns, [LinkNext]_vars, ~SessionChanges,
         InOrder(Live, nextSeq), Near(nextSeq)
  PROVE  InOrder(Live', nextSeq')
<1>1. CASE Live' \subseteq Live /\ nextSeq' = nextSeq
      BY <1>1 DEF InOrder
<1>2. ASSUME NEW kind \in TelemetryKinds, Sample(kind), NewFrame(kind) \in Frames,
             Live' \subseteq Live \cup {NewFrame(kind)}
      PROVE  InOrder(Live', nextSeq')
      BY <1>2, NewIsLast DEF Sample, LinkTyped
<1>3. CASE Live' = {}
      BY <1>3 DEF InOrder
<1> QED BY <1>1, <1>2, <1>3, LiveSteps

-----------------------------------------------------------------------------
\* A frame is heard, and the window that takes it in covers nothing unknown.
LEMMA HearingIsSound ==
  ASSUME LinkTyped, AirIsPending, Near(nextSeq), InOrder(Live, nextSeq),
         Window.init => Below(Window, nextSeq) /\ CoversKnown,
         FrameHeard, air.kind \in TelemetryKinds,
         Window' = Recorded(Window, air.seq),
         assumed' = assumed \cup Assumes(Window, air)
  PROVE  Below(Window', nextSeq') /\ CoversKnown'
<1> DEFINE n == nextSeq
           s == air.seq
<1>1. AirInv /\ air # None
      BY DEF LinkTyped, FrameHeard, AirClears
<1>2. UNCHANGED <<queue, pending, nextSeq>> /\ delivered' = delivered \cup {air.id}
      BY DEF FrameHeard, AirClears
<1>3. PICK x \in Live : x.seq = s /\ x.id = air.id
      BY <1>1, WindowIsLive DEF AirIsPending
<1>4. n \in Seqs /\ Window \in Windows
      BY <1>1, OneNode DEF AirInv, LinkTyped, AllGood, Trackers, Window
<1>5. s \in Seqs /\ 2 * Dist(s, n) < SeqSpace /\ Dist(s, n) >= 1
      BY <1>1, <1>3, LiveIsTyped DEF Near, InOrder
<1>6. Window.init => Below(Window, n) /\ 2 * Dist(Window.base, n) < SeqSpace
      BY DEF Near
<1>7. Live' = Live
      BY <1>2 DEF Live, LiveOf
<1> HIDE DEF n, s
<1>8. /\ Below(Recorded(Window, s), n)
      /\ \A y \in Seqs :
           2 * Dist(y, n) < SeqSpace
             /\ Covers(Recorded(Window, s).base, Recorded(Window, s).mask, y) =>
           \/ Window.init /\ Covers(Window.base, Window.mask, y)
           \/ y = s
           \/ Restarts(Window, s) /\ Dist(y, n) > Dist(s, n)
      BY <1>4, <1>5, <1>6, RecordedIsSound
<1>9. ASSUME NEW f \in Live, Covers(Window'.base, Window'.mask, f.seq)
      PROVE  f.id \in Known'
  <2>1. f.seq \in Seqs /\ f.id \in Int /\ f.id \in Ids /\ x.id \in Int
        BY <1>1, LiveIsTyped
  <2>2. 2 * Dist(f.seq, n) < SeqSpace
        BY DEF Near, n
  <2>3. CASE Window.init /\ Covers(Window.base, Window.mask, f.seq)
        BY <2>3, KnownGrows, <1>2 DEF CoversKnown, Known
  <2>4. CASE f.seq = s
    <3>1. ~(f.id < x.id) /\ ~(x.id < f.id)
      <4>1. Dist(s, n) \in Int
            BY <1>4, <1>5, AckWindowAssumption DEF Dist, Seqs
      <4> QED BY <1>3, <2>4, <4>1 DEF InOrder, n
    <3>2. f.id = air.id
          BY <1>3, <2>1, <3>1
    <3> QED BY <1>2, <3>2 DEF Known
  <2>5. CASE Restarts(Window, s) /\ Dist(f.seq, n) > Dist(s, n)
    <3>1. f.id < air.id
          BY <1>3, <2>5 DEF InOrder, n
    <3>2. f.id \in 1 .. air.id - 1
          BY <1>3, <2>1, <3>1 DEF Ids
    <3>3. Assumes(Window, air) = 1 .. air.id - 1
          BY <2>5 DEF Assumes, Restarts, s
    <3> QED BY <3>2, <3>3 DEF Known
  <2>6. Covers(Recorded(Window, s).base, Recorded(Window, s).mask, f.seq)
        BY <1>9 DEF s
  <2>7. \/ Window.init /\ Covers(Window.base, Window.mask, f.seq)
        \/ f.seq = s
        \/ Restarts(Window, s) /\ Dist(f.seq, n) > Dist(s, n)
        BY <1>8, <2>1, <2>2, <2>6
  <2> QED BY <2>3, <2>4, <2>5, <2>7
<1>10. Below(Window', nextSeq')
       BY <1>2, <1>8 DEF s, n
<1>11. CoversKnown'
       BY <1>7, <1>9 DEF CoversKnown
<1> QED BY <1>10, <1>11

\* Nothing is heard, and the node has one frame more at most.
LEMMA WindowStaysSound ==
  ASSUME LinkTyped, Turns, [LinkNext]_vars, ~SessionChanges, ~Reboot, Near(nextSeq),
         Window' = Window, Window.init, Below(Window, nextSeq), CoversKnown
  PROVE  Below(Window', nextSeq') /\ CoversKnown'
<1>1. Known \subseteq Known'
      BY KnownGrows
<1>2. CASE Live' \subseteq Live /\ nextSeq' = nextSeq
      BY <1>1, <1>2 DEF CoversKnown
<1>3. ASSUME NEW kind \in TelemetryKinds, Sample(kind), NewFrame(kind) \in Frames,
             Live' \subseteq Live \cup {NewFrame(kind)}
      PROVE  Below(Window', nextSeq') /\ CoversKnown'
  <2>1. nextSeq' = Advance(nextSeq, 1) /\ nextSeq \in Seqs
        BY <1>3 DEF Sample, Enqueue, LinkTyped, AirInv
  <2>2. Window.base \in Seqs /\ 2 * Dist(Window.base, nextSeq) < SeqSpace
        BY OneNode DEF Near, LinkTyped, AllGood, Trackers, Window, Windows
  <2>3. Dist(Window.base, nextSeq') = Dist(Window.base, nextSeq) + 1
        BY <2>1, <2>2, OneMoreBehind
  <2>4. Dist(Window.base, nextSeq) \in Nat /\ Window.mask \subseteq Int
        BY <2>1, <2>2, OneNode, AckWindowAssumption
           DEF Dist, Seqs, LinkTyped, AllGood, Trackers, Window, Windows, Masks
  <2>5. Below(Window', nextSeq')
        BY <2>3, <2>4 DEF Below
  <2>6. ~Covers(Window.base, Window.mask, nextSeq)
        BY <2>1, <2>2, NextIsNotCovered DEF Below
  <2>7. NewFrame(kind).seq = nextSeq
        BY DEF NewFrame
  <2>8. CoversKnown'
        BY <1>1, <1>3, <2>6, <2>7 DEF CoversKnown
  <2> QED BY <2>5, <2>8
<1> QED BY <1>2, <1>3, LiveSteps

LEMMA WindowNext ==
  ASSUME LinkTyped, Turns, AirIsPending, [LinkNext]_vars, ~SessionChanges,
         Near(nextSeq), Sound, Window'.init
  PROVE  Below(Window', nextSeq') /\ CoversKnown'
<1>1. ~Reboot
      BY RebootResets
<1>2. Window.init => Below(Window, nextSeq) /\ CoversKnown
      BY DEF Sound
<1>3. CASE Window' = Window
      BY <1>1, <1>2, <1>3, WindowStaysSound
<1>4. CASE FrameHeard /\ Window' # Window
      BY <1>2, <1>4, TelemetryIsRecorded, HearingIsSound DEF Sound
<1> QED BY <1>1, <1>3, <1>4, WindowSteps

\* While an acknowledgement is on the air the window does not change.
LEMMA AckNext ==
  ASSUME LinkTyped, Turns, [LinkNext]_vars, ackAir # NoAck => AckIsWindow, ackAir' # NoAck
  PROVE  AckIsWindow'
<1>1. CASE BasePass
  <2>1. /\ Window' = Window
        /\ \/ ackAir' = ackAir
           \/ Window.init /\ ackAir'.base = Window.base /\ ackAir'.mask = Window.mask
        BY <1>1, PassKeepsWindow
  <2> QED BY <2>1 DEF AckIsWindow
<1>2. CASE FrameHeard
  <2>1. ackAir = NoAck /\ ackAir' = ackAir
        BY <1>2 DEF FrameHeard, AirClears, HearTelemetry, HearEnd, HearBegin, Turns
  <2> QED BY <2>1
<1>3. CASE Reboot
  <2>1. ackAir = NoAck /\ ackAir' = ackAir
        BY <1>3 DEF Reboot, ResetAckTracker
  <2> QED BY <2>1
<1>4. CASE ~BasePass /\ ~FrameHeard /\ ~Reboot
  <2>1. Window' = Window
        BY <1>4, WindowSteps
  <2>2. ~AckHeard /\ ~AckLost
        BY DEF AckHeard, AckLost, AckClears
  <2>3. ackAir' = ackAir
        BY <1>4, <2>2 DEF LinkNext, vars, baseVars, NodeSlotComes, Sample, NodeUpdates,
             SendRefused, FrameLost, SlotPasses, FrameEnds, BaseTick, CloseWindow,
             EnterStandby, Wake, SessionChanges
  <2> QED BY <2>1, <2>3 DEF AckIsWindow
<1> QED BY <1>1, <1>2, <1>3, <1>4

LEMMA AckedNext ==
  ASSUME LinkTyped, [LinkNext]_vars, Sound
  PROVE  acked' \subseteq Known'
<1>1. Known \subseteq Known'
      BY KnownGrows
<1>2. CASE AckHeard
  <2>1. acked' = acked \cup Cleared(Window.base, Window.mask) /\ Window.init
        BY <1>2 DEF AckHeard, Sound, AckIsWindow
  <2>2. ASSUME NEW i \in Slots, IsUsed(pending[i]),
               ~IsUsed(Acknowledged(pending, Window.base, Window.mask)[i])
        PROVE  pending[i].frame.id \in Known
    <3>1. Covers(Window.base, Window.mask, pending[i].frame.seq)
          BY <2>2 DEF Acknowledged
    <3>2. pending[i].frame \in Live
          BY <2>2, WindowIsLive DEF LinkTyped, InWindow
    <3> QED BY <2>1, <3>1, <3>2 DEF Sound, CoversKnown
  <2>3. Cleared(Window.base, Window.mask) \subseteq Known
        BY <2>2 DEF Cleared
  <2> QED BY <1>1, <2>1, <2>3 DEF Sound
<1>3. CASE ~AckHeard
      BY <1>1, <1>3, KnownGrows DEF Sound
<1> QED BY <1>2, <1>3

LEMMA SoundInvInit == LinkInit => SoundInv
<1> SUFFICES ASSUME LinkInit  PROVE SoundInv
    OBVIOUS
<1>1. Live = {}
      BY FreeIsUnused DEF LinkInit, NodeInit, Live, LiveOf, InQueue, InWindow
<1>2. ~Window.init
      BY OneNode DEF LinkInit, BaseInit, Window, FreshTracker, FreshWindow
<1> QED BY <1>1, <1>2 DEF LinkInit, NodeInit, BaseInit, SoundInv, AirIsPending, Sound, InOrder

LEMMA SoundInvNext ==
  LinkTyped /\ Turns /\ SoundInv /\ NumbersAreNear /\ [LinkNext]_vars => SoundInv'
<1> SUFFICES ASSUME LinkTyped, Turns, SoundInv, NumbersAreNear, [LinkNext]_vars,
                    faults'["session"] = 0
             PROVE  Sound'
    BY AirStaysPending DEF SoundInv
<1>1. faults["session"] = 0 /\ ~SessionChanges
      BY SessionsOnlyGrow
<1>2. Sound /\ Near(nextSeq) /\ AirIsPending
      BY <1>1 DEF SoundInv, NumbersAreNear
<1>3. InOrder(Live', nextSeq')
      BY <1>1, <1>2, OrderNext DEF Sound
<1>4. Window'.init => Below(Window', nextSeq') /\ CoversKnown'
      BY <1>1, <1>2, WindowNext
<1>5. ackAir' # NoAck => AckIsWindow'
      BY <1>2, AckNext DEF Sound
<1>6. acked' \subseteq Known'
      BY <1>2, AckedNext
<1> QED BY <1>3, <1>4, <1>5, <1>6 DEF Sound

(***************************************************************************)
(* An acknowledgement means that the base has the frame, whatever is lost, *)
(* refused, late or rebooted, as long as the base and what the node still  *)
(* has stay less than half the sequence space behind: recordTelemetry-     *)
(* Sequence and applyAckSummary read a distance of half the space as the   *)
(* other way round.                                                        *)
(***************************************************************************)
THEOREM AcksAreSound == LinkSpec /\ []NumbersAreNear => []AckSound
<1>1. SoundInv => AckSound
      BY DEF SoundInv, Sound, Known, AckSound, AckMeansReceived
<1> QED BY <1>1, LinkTypedInit, TurnsInit, SoundInvInit, LinkTypedNext, TurnsNext, SoundInvNext,
           PTL DEF LinkSpec

-----------------------------------------------------------------------------
(***************************************************************************)
(* So it is from the start until half the numbers have been used: none has *)
(* wrapped, and nothing can be further behind than there are frames.       *)
(***************************************************************************)
Unwrapped ==
  /\ nextSeq < nextId
  /\ \A f \in Live : f.seq < nextSeq
  /\ Window.init => Window.base < nextSeq

UnwrappedInv == faults["session"] = 0 => Unwrapped

LEMMA UnwrappedInit == LinkInit => UnwrappedInv
<1> SUFFICES ASSUME LinkInit  PROVE Unwrapped
    BY DEF UnwrappedInv
<1>1. Live = {} /\ nextSeq = 0 /\ nextId = 1
      BY FreeIsUnused DEF LinkInit, NodeInit, Live, LiveOf, InQueue, InWindow
<1>2. ~Window.init
      BY OneNode DEF LinkInit, BaseInit, Window, FreshTracker, FreshWindow
<1> QED BY <1>1, <1>2 DEF Unwrapped

LEMMA RecordedStaysBelow ==
  ASSUME NEW w \in Windows, NEW s \in Seqs, NEW n \in Seqs,
         w.init => Below(w, n) /\ w.base < n, s < n, 2 * n < SeqSpace
  PROVE  Recorded(w, s).base < n
<1> DEFINE d == Dist(w.base, s)
           m == w.mask \cup {d}
           k == Run(m)
<1>1. w.base \in Seqs /\ w.mask \in Masks
      BY DEF Windows
<1>2. CASE Recorded(w, s).base \in {s, w.base} /\ (Recorded(w, s).base = s \/ w.init)
      BY <1>2
<1>3. CASE w.init /\ LessThanHalf(d) /\ d # 0 /\ ~(d > MaskBits)
  <2>1. w.base < n /\ Dist(w.base, n) = n - w.base
        BY <1>1, <1>3, AckWindowAssumption DEF Dist, Seqs
  <2>2. d = s - w.base /\ d < n - w.base /\ d \in 1 .. MaskBits
        BY <1>1, <1>3, <2>1, AckWindowAssumption DEF Dist, Seqs, LessThanHalf
  <2>3. m \in Masks /\ \A i \in m : i < n - w.base
        BY <1>1, <1>3, <2>1, <2>2 DEF Masks, Below
  <2>4. Recorded(w, s).base = Advance(w.base, k)
        BY <1>3 DEF Recorded, Slid
  <2>5. k \in 0 .. MaskBits /\ 1 .. k \subseteq m
        BY <2>3, RunProperties
  <2> HIDE DEF d, m, k
  <2>6. k < n - w.base
    <3>1. k = 0 \/ k \in m
          BY <2>5
    <3> QED BY <1>1, <2>1, <2>3, <3>1 DEF Seqs
  <2> QED BY <1>1, <2>4, <2>5, <2>6, AckWindowAssumption DEF Advance, Seqs
<1> HIDE DEF d, m, k
<1>4. \/ Recorded(w, s).base \in {s, w.base} /\ (Recorded(w, s).base = s \/ w.init)
      \/ w.init /\ LessThanHalf(d) /\ d # 0 /\ ~(d > MaskBits)
      BY DEF Recorded, d
<1> QED BY <1>2, <1>3, <1>4

LEMMA UnwrappedIsNear ==
  ASSUME LinkTyped, 2 * MaxId < SeqSpace, UnwrappedInv
  PROVE  NumbersAreNear
<1> SUFFICES ASSUME Unwrapped  PROVE Near(nextSeq)
    BY DEF UnwrappedInv, NumbersAreNear
<1>1. nextSeq \in Seqs /\ nextId \in 1 .. MaxId + 1
      BY DEF LinkTyped, AirInv
<1>2. 2 * nextSeq < SeqSpace
      BY <1>1, NodeTxAssumption, AckWindowAssumption DEF Unwrapped, Seqs
<1>3. ASSUME NEW s \in Seqs, s < nextSeq
      PROVE  2 * Dist(s, nextSeq) < SeqSpace
      BY <1>1, <1>2, <1>3, AckWindowAssumption DEF Dist, Seqs
<1>4. Window.base \in Seqs
      BY OneNode DEF LinkTyped, AllGood, Trackers, Window, Windows
<1>5. \A f \in Live : f.seq \in Seqs
      BY LiveIsTyped DEF LinkTyped
<1> QED BY <1>3, <1>4, <1>5 DEF Unwrapped, Near

LEMMA UnwrappedNext ==
  ASSUME LinkTyped, Turns, SoundInv, [LinkNext]_vars, 2 * MaxId < SeqSpace, UnwrappedInv
  PROVE  UnwrappedInv'
<1> SUFFICES ASSUME faults'["session"] = 0  PROVE Unwrapped'
    BY DEF UnwrappedInv
<1>1. faults["session"] = 0 /\ ~SessionChanges
      BY SessionsOnlyGrow
<1>2. Unwrapped /\ Sound
      BY <1>1 DEF UnwrappedInv, SoundInv
<1>3. nextSeq \in Seqs /\ nextId \in 1 .. MaxId + 1
      BY DEF LinkTyped, AirInv
<1>4. CASE Reboot
  <2>1. nextSeq' = 0 /\ nextId' = nextId
        BY <1>4 DEF Reboot
  <2>2. Live' = {}
        BY <1>4, FreeIsUnused DEF Reboot, Live, LiveOf, InQueue, InWindow
  <2> QED BY <1>3, <1>4, <2>1, <2>2, RebootResets DEF Unwrapped
<1>5. ASSUME NEW kind \in TelemetryKinds, Sample(kind), NewFrame(kind) \in Frames,
             Live' \subseteq Live \cup {NewFrame(kind)}
      PROVE  Unwrapped'
  <2>1. /\ nextSeq' = Advance(nextSeq, 1) /\ nextId' = nextId + 1
        /\ nextId \in Ids /\ Window' = Window
        BY <1>5 DEF Sample, Enqueue, baseVars, Window
  <2>2. nextSeq' = nextSeq + 1 /\ nextSeq \in Int /\ nextId \in Int
        BY <1>2, <1>3, <2>1, NodeTxAssumption, AckWindowAssumption
        DEF Unwrapped, Advance, Seqs, Ids
  <2>3. ASSUME NEW f \in Live
        PROVE  f.seq < nextSeq'
    <3>1. f.seq \in Int /\ f.seq < nextSeq
          BY <1>2, <2>3, LiveIsTyped DEF Unwrapped, LinkTyped, Seqs
    <3> QED BY <2>2, <3>1
  <2>4. NewFrame(kind).seq < nextSeq'
        BY <2>2 DEF NewFrame
  <2>5. Window.base \in Int
        BY OneNode DEF LinkTyped, AllGood, Trackers, Window, Windows, Seqs
  <2>6. Window'.init => Window'.base < nextSeq'
        BY <1>2, <2>1, <2>2, <2>5 DEF Unwrapped
  <2>7. nextSeq' < nextId'
        BY <1>2, <2>1, <2>2 DEF Unwrapped
  <2> QED BY <1>5, <2>3, <2>4, <2>6, <2>7 DEF Unwrapped
<1>6. CASE Live' \subseteq Live /\ nextSeq' = nextSeq /\ ~Reboot
  <2>1. nextId' \in {nextId, nextId + 1}
        BY <1>6, LinkSteps DEF Quiet, Sample, CloseWindow, Wake, Enqueue, SendRetx, SendFresh,
             DeferFresh, SendRefused
  <2>2. nextSeq' < nextId'
        BY <1>2, <1>3, <1>6, <2>1 DEF Unwrapped, Seqs
  <2>3. Window'.init => Window'.base < nextSeq'
    <3>1. CASE Window' = Window
          BY <1>2, <1>6, <3>1 DEF Unwrapped
    <3>2. CASE FrameHeard /\ Window' # Window
      <4>1. Window' = Recorded(Window, air.seq) /\ air.kind \in TelemetryKinds /\ air # None
            BY <3>2, TelemetryIsRecorded DEF FrameHeard, AirClears
      <4>2. PICK x \in Live : x.seq = air.seq
            BY <4>1, WindowIsLive DEF SoundInv, AirIsPending, LinkTyped
      <4>3. air.seq \in Seqs /\ air.seq < nextSeq
            BY <1>2, <4>2, LiveIsTyped DEF Unwrapped, LinkTyped
      <4>4. Window \in Windows /\ (Window.init => Below(Window, nextSeq) /\ Window.base < nextSeq)
            BY <1>2, OneNode DEF LinkTyped, AllGood, Trackers, Window, Unwrapped, Sound
      <4>5. 2 * nextSeq < SeqSpace
            BY <1>2, <1>3, NodeTxAssumption, AckWindowAssumption DEF Unwrapped, Seqs
      <4> QED BY <1>3, <1>6, <4>1, <4>3, <4>4, <4>5, RecordedStaysBelow
    <3> QED BY <1>6, <3>1, <3>2, WindowSteps
  <2> QED BY <1>2, <1>6, <2>2, <2>3 DEF Unwrapped
<1> QED BY <1>1, <1>4, <1>5, <1>6, LiveSteps

(***************************************************************************)
(* Until the node has numbered half the space an acknowledgement is sound  *)
(* without more ado: so it is in the run of AckSound (Link_Timed).         *)
(***************************************************************************)
COROLLARY AcksAreSoundUnwrapped ==
  ASSUME 2 * MaxId < SeqSpace
  PROVE  LinkSpec => []AckSound
<1>1. LinkInit => UnwrappedInv
      BY UnwrappedInit
<1>2. LinkTyped /\ UnwrappedInv => NumbersAreNear
      BY UnwrappedIsNear
<1>3. LinkTyped /\ Turns /\ SoundInv /\ UnwrappedInv /\ [LinkNext]_vars => UnwrappedInv'
      BY UnwrappedNext
<1>4. SoundInv => AckSound
      BY DEF SoundInv, Sound, Known, AckSound, AckMeansReceived
<1> QED BY <1>1, <1>2, <1>3, <1>4, LinkTypedInit, TurnsInit, SoundInvInit, LinkTypedNext,
           TurnsNext, SoundInvNext, PTL DEF LinkSpec

-----------------------------------------------------------------------------
(***************************************************************************)
(* What a window covers of the numbers before n it covers after a frame    *)
(* before n has been heard: no slide or jump withdraws it.                 *)
(***************************************************************************)
LEMMA WhatIsCoveredStays ==
  ASSUME NEW w \in Windows, NEW s \in Seqs, NEW n \in Seqs, NEW y \in Seqs,
         w.init, Below(w, n), 2 * Dist(w.base, n) < SeqSpace,
         2 * Dist(s, n) < SeqSpace, Dist(s, n) >= 1,
         2 * Dist(y, n) < SeqSpace,
         Covers(w.base, w.mask, y)
  PROVE  Covers(Recorded(w, s).base, Recorded(w, s).mask, y)
<1> DEFINE d == Dist(w.base, s)
           v == Recorded(w, s)
<1>1. w.base \in Seqs /\ w.mask \in Masks
      BY DEF Windows
<1>2. v \in Windows /\ v.base \in Seqs
      BY RecordedType DEF Windows
<1>3. d \in Int /\ Dist(w.base, n) \in Int /\ Dist(s, n) \in Int /\ Dist(y, n) \in Int
      BY <1>1, AckWindowAssumption DEF Dist, Seqs
<1>4. CASE d = 0 \/ ~LessThanHalf(d)
      BY <1>4 DEF Recorded
<1>5. CASE LessThanHalf(d) /\ d > MaskBits
  <2>1. v = [init |-> TRUE, base |-> s, mask |-> {}]
        BY <1>5, AckWindowAssumption DEF Recorded
  <2>2. Dist(w.base, n) >= Dist(s, n) /\ d = Dist(w.base, n) - Dist(s, n)
        BY <1>1, <1>5, BehindIsOrdered
  <2>3. CASE LessThanHalf(Dist(y, w.base))
    <3>1. Dist(y, n) >= Dist(w.base, n)
          BY <1>1, <2>3, BehindIsOrdered
    <3>2. Dist(y, n) >= Dist(s, n)
          BY <1>3, <2>2, <3>1
    <3> QED BY <2>1, <3>2, BehindIsOrdered DEF Covers
  <2>4. CASE Dist(w.base, y) \in w.mask
    <3>1. Dist(w.base, y) \in 1 .. MaskBits
          BY <1>1, <2>4 DEF Masks
    <3>2. LessThanHalf(Dist(w.base, y))
          BY <3>1, AckWindowAssumption DEF LessThanHalf
    <3>3. Dist(w.base, n) >= Dist(y, n) /\ Dist(w.base, y) = Dist(w.base, n) - Dist(y, n)
          BY <1>1, <3>2, BehindIsOrdered
    <3> HIDE DEF d
    <3>4. Dist(y, n) >= Dist(s, n)
          BY <1>3, <1>5, <2>2, <3>1, <3>3, AckWindowAssumption
    <3> QED BY <2>1, <3>4, BehindIsOrdered DEF Covers
  <2> QED BY <2>3, <2>4 DEF Covers
<1>6. CASE LessThanHalf(d) /\ d # 0 /\ ~(d > MaskBits)
  <2>1. CASE Dist(w.base, y) \in w.mask
    <3>1. w.mask \cup {d} \in Masks
          BY <1>1, <1>6, AckWindowAssumption DEF Masks, Dist, Seqs
    <3>2. v = Slid(w.base, w.mask \cup {d})
          BY <1>6 DEF Recorded
    <3> QED BY <1>1, <2>1, <3>1, <3>2, SlidCovers
  <2>2. CASE LessThanHalf(Dist(y, w.base))
    <3>1. Dist(y, n) >= Dist(w.base, n)
          BY <1>1, <2>2, BehindIsOrdered
    <3>2. Dist(v.base, n) <= Dist(w.base, n)
          BY <1>6, SlideIsSound
    <3>3. Dist(v.base, n) \in Int
          BY <1>2, AckWindowAssumption DEF Dist, Seqs
    <3> HIDE DEF v
    <3>4. Dist(y, n) >= Dist(v.base, n) /\ 2 * Dist(v.base, n) < SeqSpace
          BY <1>3, <3>1, <3>2, <3>3, AckWindowAssumption
    <3>5. LessThanHalf(Dist(y, v.base))
          BY <1>2, <3>4, BehindIsOrdered
    <3> QED BY <3>5 DEF Covers, v
  <2> QED BY <2>1, <2>2 DEF Covers
<1> QED BY <1>4, <1>5, <1>6

LEMMA AcknowledgedStays ==
  ASSUME LinkTyped, SoundInv, NumbersAreNear, [LinkNext]_vars
  PROVE  KeepsAcknowledging
<1> SUFFICES ASSUME faults["session"] = 0, Window'.init,
                    NEW i \in Slots, IsUsed(pending[i]),
                    Acknowledges(Window, pending[i].frame.seq)
             PROVE  Acknowledges(Window', pending[i].frame.seq)
    BY DEF KeepsAcknowledging, Window
<1>1. Sound /\ Near(nextSeq) /\ AirIsPending
      BY DEF SoundInv, NumbersAreNear
<1>2. AirInv /\ nextSeq \in Seqs
      BY DEF LinkTyped, AirInv
<1>3. CASE Window' = Window
      BY <1>3
<1>4. CASE FrameHeard /\ Window' # Window
  <2>1. Window' = Recorded(Window, air.seq) /\ air.kind \in TelemetryKinds /\ air # None
        BY <1>4, TelemetryIsRecorded DEF FrameHeard, AirClears
  <2>2. PICK x \in Live : x.seq = air.seq
        BY <1>1, <1>2, <2>1, WindowIsLive DEF AirIsPending
  <2>3. /\ air.seq \in Seqs /\ 2 * Dist(air.seq, nextSeq) < SeqSpace
        /\ Dist(air.seq, nextSeq) >= 1
        BY <1>1, <1>2, <2>2, LiveIsTyped DEF Near, Sound, InOrder
  <2>4. pending[i].frame \in Live
        BY <1>2, WindowIsLive DEF InWindow
  <2>5. pending[i].frame.seq \in Seqs /\ 2 * Dist(pending[i].frame.seq, nextSeq) < SeqSpace
        BY <1>1, <1>2, <2>4, LiveIsTyped DEF Near
  <2>6. Window \in Windows
        BY OneNode DEF LinkTyped, AllGood, Trackers, Window
  <2>7. /\ Window.init /\ Below(Window, nextSeq) /\ 2 * Dist(Window.base, nextSeq) < SeqSpace
        /\ Covers(Window.base, Window.mask, pending[i].frame.seq)
        BY <1>1 DEF Acknowledges, Sound, Near
  <2>8. Covers(Window'.base, Window'.mask, pending[i].frame.seq)
        BY <1>2, <2>1, <2>3, <2>5, <2>6, <2>7, WhatIsCoveredStays
  <2> QED BY <2>8 DEF Acknowledges
<1> QED BY <1>3, <1>4, WindowSteps, RebootResets

(***************************************************************************)
(* The base takes nothing back of what its window acknowledges, whatever   *)
(* is lost, refused, late or rebooted, while less than half of the numbers *)
(* lie between the two (recordTelemetrySequence).                          *)
(***************************************************************************)
THEOREM BaseTakesNothingBack == LinkSpec /\ []NumbersAreNear => NothingTakenBack
<1>1. LinkTyped /\ SoundInv /\ NumbersAreNear /\ [LinkNext]_vars => [KeepsAcknowledging]_vars
      BY AcknowledgedStays
<1> QED BY <1>1, LinkTypedInit, TurnsInit, SoundInvInit, LinkTypedNext, TurnsNext, SoundInvNext,
           PTL DEF LinkSpec, NothingTakenBack

(***************************************************************************)
(* So it is until the node has numbered half the space: so it is in the    *)
(* run of NothingTakenBack (Link_Timed).                                   *)
(***************************************************************************)
COROLLARY BaseTakesNothingBackUnwrapped ==
  ASSUME 2 * MaxId < SeqSpace
  PROVE  LinkSpec => NothingTakenBack
<1>1. LinkInit => UnwrappedInv
      BY UnwrappedInit
<1>2. LinkTyped /\ UnwrappedInv => NumbersAreNear
      BY UnwrappedIsNear
<1>3. LinkTyped /\ Turns /\ SoundInv /\ UnwrappedInv /\ [LinkNext]_vars => UnwrappedInv'
      BY UnwrappedNext
<1>4. LinkTyped /\ SoundInv /\ NumbersAreNear /\ [LinkNext]_vars => [KeepsAcknowledging]_vars
      BY AcknowledgedStays
<1> QED BY <1>1, <1>2, <1>3, <1>4, LinkTypedInit, TurnsInit, SoundInvInit, LinkTypedNext,
           TurnsNext, SoundInvNext, PTL DEF LinkSpec, NothingTakenBack

=============================================================================
