----------------------------- MODULE EdgeProofs -----------------------------
(***************************************************************************)
(* What the edge computer makes of what it hears, and the serial line it   *)
(* hears it on.  A row that comes promptly is stamped with its window, and *)
(* one row of a window is marked as its first, for any number of windows   *)
(* and restarts; the count of lost frames is right across wraps,           *)
(* duplicates and late frames, for every size of the wrap; and after any   *)
(* noise on the line a whole frame is handed on again.                     *)
(***************************************************************************)
EXTENDS EdgeLoss, EdgeWindows, UartFrames, FiniteSetTheorems, SequenceTheorems, TLAPS

-----------------------------------------------------------------------------
(***************************************************************************)
(* The tracker names the node's window as soon as its BEGIN was heard; no  *)
(* BEGIN has been heard of a window to come; and as long as a first row is *)
(* awaited none has been marked.                                           *)
(***************************************************************************)
HeardIsTracked == window \in begun => tracker.id = window
HeardHasBegun  == \A w \in begun : w <= window
AwaitedIsFirst == /\ firsts \in {0, 1}
                  /\ tracker.awaiting => firsts = 0

WindowInv ==
  /\ WindowTypeOK
  /\ HeardIsTracked
  /\ HeardHasBegun
  /\ AwaitedIsFirst
  /\ PromptRowsAreStamped

\* What the tracker and a row become is a tracker and a row.
LEMMA TrackerTypes ==
  ASSUME NEW t \in Trackers, NEW w \in Windows, NEW p \in BOOLEAN
  PROVE  /\ WindowBegun(t, w) \in Trackers /\ WindowEnded(t, w) \in Trackers
         /\ Annotated(t) \in Trackers /\ NotTracked \in Trackers
         /\ [w |-> w, id |-> t.id, prompt |-> p] \in Rows /\ NoRow \in Rows
<1>1. WindowBegun(t, w) \in Trackers /\ WindowEnded(t, w) \in Trackers
      BY DEF WindowBegun, WindowEnded, Trackers
<1>2. Annotated(t) \in Trackers /\ Annotated(t).id = t.id
      BY DEF Annotated, Trackers
<1>3. NotTracked \in Trackers
      BY DEF NotTracked, Trackers
<1>4. NoRow \in Rows
      BY WindowAssumption DEF NoRow, Rows, Windows
<1>5. [w |-> w, id |-> t.id, prompt |-> p] \in Rows
      BY DEF Rows, Trackers
<1> QED BY <1>1, <1>2, <1>3, <1>4, <1>5

\* The first mark comes off, and the window stays.
LEMMA AnnotatedOnce ==
  ASSUME NEW t \in Trackers
  PROVE  /\ Annotated(t).id = t.id
         /\ MarksFirst(t) => t.awaiting /\ ~Annotated(t).awaiting
         /\ ~MarksFirst(t) => Annotated(t) = t
  BY DEF Annotated, MarksFirst, Trackers

\* It holds at first: nothing is tracked, nothing was heard.
LEMMA WindowInvInit == WindowInit => WindowInv
<1> SUFFICES ASSUME WindowInit
             PROVE  WindowInv
    OBVIOUS
<1>1. 0 \in Windows /\ NotTracked \in Trackers /\ NoRow \in Rows
      BY WindowAssumption DEF NotTracked, NoRow, Trackers, Rows, Windows
<1>2. WindowTypeOK
  <2>1. 0 \in 0 .. MaxRestarts /\ 0 \in Nat /\ ~NotTracked.awaiting
        BY WindowAssumption DEF NotTracked
  <2> QED BY <1>1, <2>1 DEF WindowInit, WindowTypeOK
<1>3. HeardIsTracked /\ HeardHasBegun /\ AwaitedIsFirst /\ PromptRowsAreStamped
      BY DEF WindowInit, HeardIsTracked, HeardHasBegun, AwaitedIsFirst, PromptRowsAreStamped,
             NotTracked, NoRow
<1> QED BY <1>2, <1>3 DEF WindowInv

\* A bundle of window w: the row has the tracker's window, and it may be the first.
LEMMA HearingABundle ==
  ASSUME WindowInv, NEW w \in Windows, HearBundle(w),
         UNCHANGED <<window, inWindow, fresh, restarts>>,
         pend' \subseteq Windows
  PROVE  WindowInv'
<1>1. /\ tracker \in Trackers /\ window \in Windows /\ begun \subseteq Windows
      /\ firsts \in {0, 1}
      /\ tracker.awaiting => firsts = 0
      /\ tracker.awaiting => tracker.open
      BY DEF WindowInv, WindowTypeOK, AwaitedIsFirst
<1>2. tracker' \in Trackers /\ row' \in Rows
  <2>1. (w = window /\ w \in begun) \in BOOLEAN
        OBVIOUS
  <2> QED BY <1>1, <2>1, TrackerTypes DEF HearBundle
<1>3. tracker'.id = tracker.id
      BY <1>1, AnnotatedOnce DEF HearBundle
<1>4. tracker'.awaiting => tracker.awaiting /\ tracker' = tracker /\ ~MarksFirst(tracker)
      BY <1>1, AnnotatedOnce DEF HearBundle
<1>5. firsts' \in {0, 1} /\ (tracker'.awaiting => firsts' = 0)
  <2>1. CASE MarksFirst(tracker)
    <3>1. firsts = 0 /\ ~tracker'.awaiting
          BY <1>1, <1>4, <2>1, AnnotatedOnce
    <3> QED BY <2>1, <3>1 DEF HearBundle
  <2>2. CASE ~MarksFirst(tracker)
    <3>1. firsts' = firsts
          BY <1>1, <2>2 DEF HearBundle
    <3> QED BY <1>1, <1>4, <3>1
  <2> QED BY <2>1, <2>2
<1>6. row'.prompt => row'.id = row'.w
      BY <1>1 DEF HearBundle, WindowInv, HeardIsTracked
<1>7. WindowTypeOK'
      BY <1>1, <1>2, <1>4, <1>5 DEF HearBundle, WindowInv, WindowTypeOK
<1> QED BY <1>3, <1>5, <1>6, <1>7
        DEF HearBundle, WindowInv, HeardIsTracked, HeardHasBegun, AwaitedIsFirst,
            PromptRowsAreStamped

\* Each step keeps it, whatever is heard of what was sent.
LEMMA WindowInvStep == WindowInv /\ [WindowNext]_windowVars => WindowInv'
<1> SUFFICES ASSUME WindowInv, [WindowNext]_windowVars
             PROVE  WindowInv'
    OBVIOUS
<1> USE DEF WindowInv, HeardIsTracked, HeardHasBegun, AwaitedIsFirst, PromptRowsAreStamped
<1>1. /\ tracker \in Trackers /\ row \in Rows /\ window \in Windows
      /\ window \in Nat /\ MaxWindow \in Nat
      /\ begun \subseteq Windows /\ pend \subseteq Windows
      /\ tracker.awaiting => tracker.open
      BY WindowAssumption DEF WindowTypeOK, Windows
<1>2. CASE BeginWindow
  <2>1. window + 1 \in Windows /\ window + 1 # window
        BY <1>1, <1>2 DEF BeginWindow, Windows
  <2>2. CASE HearBegin(window + 1)
    <3>1. /\ tracker' \in Trackers /\ tracker'.id = window + 1 /\ tracker'.open
          BY <1>1, <2>1, <2>2, TrackerTypes DEF HearBegin, WindowBegun
    <3>2. \A w \in begun' : w <= window'
      <4>1. ASSUME NEW w \in begun'
            PROVE  w \in Nat /\ (w <= window \/ w = window + 1)
        <5>1. w \in begun \/ w = window + 1
              BY <2>2, <4>1 DEF HearBegin
        <5>2. \A v \in begun : v <= window
              OBVIOUS
        <5>3. \A v \in Windows : v \in Nat
              BY <1>1 DEF Windows
        <5> QED BY <1>1, <2>1, <5>1, <5>2, <5>3
      <4> QED BY <1>1, <1>2, <4>1 DEF BeginWindow
    <3>3. WindowTypeOK'
          BY <1>1, <1>2, <2>1, <2>2, <3>1 DEF HearBegin, BeginWindow, WindowTypeOK
    <3> QED BY <1>2, <2>2, <3>1, <3>2, <3>3 DEF HearBegin, BeginWindow
  <2>3. CASE Unheard
    <3>1. window + 1 \notin begun
          BY <1>1 DEF Windows
    <3>2. \A w \in begun : w <= window + 1
          BY <1>1 DEF Windows
    <3>3. WindowTypeOK'
          BY <1>1, <1>2, <2>1, <2>3 DEF Unheard, edgeRows, BeginWindow, WindowTypeOK
    <3> QED BY <1>2, <2>3, <3>1, <3>2, <3>3 DEF Unheard, edgeRows, BeginWindow
  <2> QED BY <1>2, <2>2, <2>3 DEF BeginWindow
<1>3. CASE EndWindow
  <2>1. CASE HearEnd(window)
    <3>1. tracker' \in Trackers /\ tracker'.id = window /\ ~tracker'.awaiting
          BY <1>1, <2>1, TrackerTypes DEF HearEnd, WindowEnded
    <3>2. WindowTypeOK'
          BY <1>1, <1>3, <2>1, <3>1 DEF HearEnd, EndWindow, WindowTypeOK
    <3> QED BY <1>3, <2>1, <3>1, <3>2 DEF HearEnd, EndWindow
  <2>2. CASE Unheard
        BY <1>3, <2>2 DEF EndWindow, Unheard, edgeRows, WindowTypeOK
  <2> QED BY <1>3, <2>1, <2>2 DEF EndWindow
<1>4. CASE SendBundle
  <2>1. pend' \subseteq Windows
        BY <1>1, <1>4 DEF SendBundle
  <2>2. CASE HearBundle(window)
        BY <1>1, <1>4, <2>1, <2>2, HearingABundle DEF SendBundle
  <2>3. CASE Unheard
        BY <1>4, <2>1, <2>3 DEF SendBundle, Unheard, edgeRows, WindowTypeOK
  <2> QED BY <1>4, <2>2, <2>3 DEF SendBundle
<1>5. ASSUME NEW w \in pend, SendLate(w)
      PROVE  WindowInv'
      BY <1>1, <1>5, HearingABundle DEF SendLate
<1>6. ASSUME NEW w \in pend, Forget(w)
      PROVE  WindowInv'
      BY <1>1, <1>6 DEF Forget, edgeRows, WindowTypeOK
<1>7. CASE SyncIsLost
  <2>1. restarts' \in 0 .. MaxRestarts
        BY <1>7, WindowAssumption DEF SyncIsLost, Restart, WindowTypeOK
  <2> QED BY <1>7, <2>1 DEF SyncIsLost, edgeRows, WindowTypeOK
<1>8. CASE CallsAwaken
      BY <1>1, <1>8, TrackerTypes DEF CallsAwaken, HearAwakenCall, NotTracked, WindowTypeOK
<1>9. CASE SyncIsHeard
      BY <1>9 DEF SyncIsHeard, edgeRows, WindowTypeOK
<1>10. CASE NodeStartsAgain
  <2>1. 0 \in Windows
        BY WindowAssumption DEF Windows
  <2>2. restarts' \in 0 .. MaxRestarts
        BY <1>10, WindowAssumption DEF NodeStartsAgain, Restart, WindowTypeOK
  <2> QED BY <1>10, <2>1, <2>2 DEF NodeStartsAgain, WindowTypeOK
<1>11. CASE EdgeStartsAgain
  <2>1. /\ tracker' \in Trackers /\ row' \in Rows
        /\ ~tracker'.awaiting /\ ~row'.prompt
        BY <1>1, <1>11, TrackerTypes DEF EdgeStartsAgain, NotTracked, NoRow
  <2>2. restarts' \in 0 .. MaxRestarts
        BY <1>11, WindowAssumption DEF EdgeStartsAgain, Restart, WindowTypeOK
  <2> QED BY <1>11, <2>1, <2>2 DEF EdgeStartsAgain, WindowTypeOK
<1>12. CASE UNCHANGED windowVars
      BY <1>12 DEF windowVars, edgeRows, WindowTypeOK
<1> QED
    BY <1>2, <1>3, <1>4, <1>5, <1>6, <1>7, <1>8, <1>9, <1>10, <1>11, <1>12
    DEF WindowNext

\* WindowInv holds throughout.
THEOREM WindowsAreTracked == WindowSpec => []WindowInv
  BY WindowInvInit, WindowInvStep, PTL DEF WindowSpec

(***************************************************************************)
(* A bundle that comes before the node's next window, from a window whose  *)
(* BEGIN was heard, gives rows stamped with that window.                   *)
(***************************************************************************)
THEOREM PromptRows == WindowSpec => []PromptRowsAreStamped
<1>1. WindowInv => PromptRowsAreStamped
      BY DEF WindowInv
<1> QED BY <1>1, WindowsAreTracked, PTL

(***************************************************************************)
(* At most one row is marked first after a BEGIN.                          *)
(***************************************************************************)
THEOREM OneFirstRow == WindowSpec => []OneRowIsFirst
<1>1. WindowInv => OneRowIsFirst
      BY DEF WindowInv, AwaitedIsFirst, OneRowIsFirst
<1> QED BY <1>1, WindowsAreTracked, PTL

-----------------------------------------------------------------------------
(***************************************************************************)
(* The count of lost frames.  As long as the statistics are honest, the    *)
(* numbers they hold are those of the frames heard, moved by what the      *)
(* first of them lost to the wrap.  The greatest frame heard is in the     *)
(* invariant as a witness, and so is the first, of which no frame may lie  *)
(* so far back that unwrapping would take it for a later one.              *)
(***************************************************************************)
Offset == stats.first - base

IsTop(m) == m \in heard /\ \A n \in heard : m >= n

Unwrapped ==
  /\ base \in heard /\ heard \subseteq 0 .. made - 1
  /\ stats.first = base % Modulus
  /\ stats.seen = {n + Offset : n \in heard}
  /\ \E m \in heard : IsTop(m) /\ stats.last = m + Offset
  /\ IsFiniteSet(stats.seen) /\ Cardinality(stats.seen) = Cardinality(heard)
  /\ Cardinality(heard) <= stats.valid

NodeSideOK ==
  /\ made \in 0 .. MaxMade /\ inSync \in BOOLEAN
  /\ awakens \in 0 .. MaxAwakens /\ cmdAcks \in 0 .. MaxUpsets
  /\ left \subseteq 0 .. MaxMade
  /\ upsets \in 0 .. MaxUpsets /\ cmdAcks <= upsets

StatsOK(s) ==
  /\ s \in [first : 0 .. Modulus - 1, last : Nat, seen : SUBSET Int, valid : Nat]
  /\ s.seen # {} => s.first \in s.seen /\ s.last \in s.seen

KnownOK ==
  /\ heard \subseteq 0 .. MaxMade /\ base \in 0 .. MaxMade /\ honest \in BOOLEAN
  /\ honest => (heard = {} <=> stats.seen = {})
  /\ honest /\ heard # {} => Unwrapped

LossInv == NodeSideOK /\ StatsOK(stats) /\ KnownOK

\* A remainder is the only one of its kind.
LEMMA RemainderIsUnique ==
  ASSUME NEW m \in Nat \ {0}, NEW k \in Int, NEW r \in 0 .. m - 1
  PROVE  (m * k + r) % m = r
<1> DEFINE x == m * k + r
           q == x \div m
           s == x % m
<1>1. x \in Int /\ q \in Int /\ s \in 0 .. m - 1 /\ x = m * q + s
      OBVIOUS
<1>2. m * k + r = m * q + s
      BY <1>1
<1> HIDE DEF q, s
<1>3. m * (k - q) = s - r
  <2>1. m * (k - q) = m * k - m * q
        BY <1>1
  <2>2. m * k \in Int /\ m * q \in Int
        BY <1>1
  <2> QED BY <1>1, <1>2, <2>1, <2>2
<1>4. k - q \in Int /\ m * (k - q) < m /\ m * (k - q) > -m
      BY <1>1, <1>3
<1>5. k - q = 0
  <2>1. ASSUME NEW d \in Int, d >= 1 PROVE m * d >= m
        BY <2>1
  <2>2. ASSUME NEW d \in Int, d <= -1 PROVE m * d <= -m
        BY <2>2
  <2> DEFINE d == k - q
  <2>3. d \in Int /\ m * d < m /\ m * d > -m
        BY <1>4
  <2> HIDE DEF d
  <2>4. ~ d >= 1 /\ ~ d <= -1
    <3>1. m * d \in Int
          BY <2>3
    <3> QED BY <2>1, <2>2, <2>3, <3>1
  <2>5. d = 0
        BY <2>3, <2>4
  <2> QED BY <2>5 DEF d
<1>6. s - r = 0
  <2>1. m * (k - q) = 0
        BY <1>5
  <2> QED BY <1>1, <1>3, <2>1
<1> QED BY <1>1, <1>6 DEF s

LEMMA QuotientAndRemainder ==
  ASSUME NEW m \in Int, m > 0, NEW x \in Int
  PROVE  x = m * (x \div m) + (x % m)
  OBVIOUS

\* A number within half the numbers of the last one is unwrapped to what it was.
LEMMA StepIsDistance ==
  ASSUME NEW b \in Nat, NEW m \in Nat, NEW n \in Nat, NEW last \in Int,
         last = m + ((b % Modulus) - b), n - m >= -Half, n - m < Half
  PROVE  Step(last, n % Modulus) = n - m
<1> DEFINE qb == b \div Modulus
           qn == n \div Modulus
           d  == ((n % Modulus) - last) % Modulus
<1>1. Modulus \in Nat \ {0} /\ Half \in Nat /\ Modulus = 2 * Half
  <2>1. Modulus \in Nat \ {0} /\ Modulus = 2 * Half
        BY EdgeAssumption
  <2> QED BY <2>1 DEF Half
<1> DEFINE rb == b % Modulus
           rn == n % Modulus
<1>2. /\ qb \in Int /\ rb \in Int /\ b = Modulus * qb + rb
      /\ qn \in Int /\ rn \in Int /\ n = Modulus * qn + rn
  <2>1. Modulus \in Int /\ Modulus > 0 /\ b \in Int /\ n \in Int
        BY <1>1
  <2>2. /\ b \div Modulus \in Int /\ b % Modulus \in Int
        /\ n \div Modulus \in Int /\ n % Modulus \in Int
        BY <2>1
  <2>3. b = Modulus * (b \div Modulus) + (b % Modulus)
        BY <2>1, QuotientAndRemainder
  <2>4. n = Modulus * (n \div Modulus) + (n % Modulus)
        BY <2>1, QuotientAndRemainder
  <2> QED BY <2>2, <2>3, <2>4
<1>6. last = m + (rb - b)
      OBVIOUS
<1> HIDE DEF qb, qn, rb, rn
<1>3. rn - last = Modulus * (qb - qn) + (n - m)
  <2>1. Modulus * (qb - qn) = Modulus * qb - Modulus * qn
        BY <1>1, <1>2
  <2>2. Modulus * qb \in Int /\ Modulus * qn \in Int
        BY <1>1, <1>2
  <2> QED BY <1>2, <1>6, <2>1, <2>2
<1>4. CASE n - m >= 0
  <2>1. n - m \in 0 .. Modulus - 1 /\ qb - qn \in Int
        BY <1>1, <1>2, <1>4
  <2>2. (Modulus * (qb - qn) + (n - m)) % Modulus = n - m
        BY <1>1, <2>1, RemainderIsUnique
  <2>3. d = n - m
        BY <1>3, <2>2 DEF rn
  <2>4. ~ n - m > Half - 1
        BY <1>1
  <2> QED BY <2>3, <2>4 DEF Step
<1>5. CASE n - m < 0
  <2>1. (n - m) + Modulus \in 0 .. Modulus - 1 /\ (qb - qn) - 1 \in Int
        BY <1>1, <1>2, <1>5
  <2>2. (Modulus * ((qb - qn) - 1) + ((n - m) + Modulus)) % Modulus = (n - m) + Modulus
        BY <1>1, <2>1, RemainderIsUnique
  <2>3. Modulus * ((qb - qn) - 1) = Modulus * (qb - qn) - Modulus /\ Modulus * (qb - qn) \in Int
        BY <1>1, <1>2
  <2>4. rn - last = Modulus * ((qb - qn) - 1) + ((n - m) + Modulus)
        BY <1>1, <1>3, <2>3
  <2>5. d = (n - m) + Modulus
        BY <2>2, <2>4 DEF rn
  <2>6. (n - m) + Modulus > Half - 1 /\ ((n - m) + Modulus) - Modulus = n - m
        BY <1>1
  <2> QED BY <2>5, <2>6 DEF Step
<1> QED BY <1>4, <1>5

\* What the statistics become, whatever number is observed.
LEMMA ObservedIs ==
  ASSUME NEW s, StatsOK(s), NEW seq \in 0 .. Modulus - 1
  PROVE  /\ StatsOK(Observed(s, seq)) /\ Observed(s, seq).seen # {}
         /\ s.seen = {} =>
              Observed(s, seq) = [first |-> seq, last |-> seq, seen |-> {seq}, valid |-> 1]
         /\ s.seen # {} =>
              LET abs == s.last + Step(s.last, seq)
              IN  /\ Observed(s, seq).first = s.first
                  /\ Observed(s, seq).last = IF abs > s.last THEN abs ELSE s.last
                  /\ Observed(s, seq).seen = s.seen \cup {abs}
                  /\ Observed(s, seq).valid = s.valid + 1
<1> DEFINE o == Observed(s, seq)
<1>1. /\ s \in [first : 0 .. Modulus - 1, last : Nat, seen : SUBSET Int, valid : Nat]
      /\ s.seen # {} => s.first \in s.seen /\ s.last \in s.seen
      /\ Modulus \in Int
      BY EdgeAssumption DEF StatsOK
<1>2. CASE s.seen = {}
  <2>1. o = [first |-> seq, last |-> seq, seen |-> {seq}, valid |-> 1]
        BY <1>2 DEF Observed
  <2>2. seq \in Nat /\ {seq} \in SUBSET Int
        BY <1>1
  <2>3. o \in [first : 0 .. Modulus - 1, last : Nat, seen : SUBSET Int, valid : Nat]
        BY <2>1, <2>2
  <2>4. o.first = seq /\ o.last = seq /\ o.seen = {seq}
        BY <2>1
  <2>5. StatsOK(o)
        BY <2>3, <2>4 DEF StatsOK
  <2> QED BY <1>2, <2>1, <2>4, <2>5
<1>3. CASE s.seen # {}
  <2> DEFINE abs == s.last + Step(s.last, seq)
             top == IF abs > s.last THEN abs ELSE s.last
  <2>1. o = [s EXCEPT !.seen = @ \cup {abs}, !.valid = @ + 1, !.last = top]
        BY <1>3 DEF Observed
  <2>2. abs \in Int
    <3>1. seq - s.last \in Int /\ Modulus \in Nat \ {0} /\ s.last \in Int
          BY <1>1, EdgeAssumption
    <3>2. (seq - s.last) % Modulus \in Int
          BY <3>1
    <3>3. Step(s.last, seq) \in Int
          BY <3>1, <3>2 DEF Step
    <3> QED BY <3>1, <3>3
  <2> HIDE DEF abs
  <2>3. top \in Nat /\ (top = abs \/ top = s.last)
        BY <1>1, <2>2
  <2> HIDE DEF top
  <2>4. o \in [first : 0 .. Modulus - 1, last : Nat, seen : SUBSET Int, valid : Nat]
    <3>1. s.seen \cup {abs} \in SUBSET Int /\ s.valid + 1 \in Nat
          BY <1>1, <2>2
    <3> QED BY <1>1, <2>1, <2>3, <3>1
  <2>5. /\ o.first = s.first /\ o.last = top
        /\ o.seen = s.seen \cup {abs} /\ o.valid = s.valid + 1
        BY <1>1, <2>1
  <2>6. StatsOK(o)
        BY <1>1, <1>3, <2>3, <2>4, <2>5 DEF StatsOK
  <2> QED BY <1>3, <2>5, <2>6 DEF abs, top
<1> QED BY <1>2, <1>3

LEMMA UnseenIsOK == StatsOK(Unseen) /\ Unseen.seen = {}
<1>1. Unseen.seen = {}
      BY DEF Unseen
<1>2. Modulus \in Nat \ {0}
      BY EdgeAssumption
<1>3. Unseen \in [first : 0 .. Modulus - 1, last : Nat, seen : SUBSET Int, valid : Nat]
      BY <1>2 DEF Unseen
<1> QED BY <1>1, <1>3 DEF StatsOK

\* Statistics that are known not to be honest say nothing.
LEMMA DishonestIsKnown == Dishonest => KnownOK'
<1>1. 0 \in 0 .. MaxMade
      BY EdgeAssumption
<1> QED BY <1>1 DEF Dishonest, KnownOK

LEMMA OnTheWire == ASSUME NEW n \in Int PROVE n % Modulus \in 0 .. Modulus - 1
  BY EdgeAssumption

\* A frame of this numbering, not too far back, is observed as what it was.
LEMMA FrameHeard ==
  ASSUME LossInv, NEW n \in 0 .. MaxMade, HearFrame(n), made' \in Nat, made' >= made,
         n < made', n >= made - Reach
  PROVE  StatsOK(stats)' /\ KnownOK'
<1>1. /\ StatsOK(stats) /\ made \in 0 .. MaxMade /\ MaxMade \in Nat
      /\ heard \subseteq 0 .. MaxMade /\ base \in 0 .. MaxMade /\ honest \in BOOLEAN
      /\ honest => (heard = {} <=> stats.seen = {})
      /\ honest /\ heard # {} => Unwrapped
      BY EdgeAssumption DEF LossInv, NodeSideOK, KnownOK
<1>2. /\ Modulus \in Nat \ {0} /\ Half \in Nat /\ Reach \in Int /\ Reach <= Half + 1
  <2>1. Modulus \in Nat \ {0} /\ Modulus = 2 * Half
        BY EdgeAssumption
  <2>2. Half \in Nat
        BY <2>1 DEF Half
  <2> QED BY <2>1, <2>2, EdgeAssumption
<1>8. n \in 0 .. made' - 1 /\ \A k \in 0 .. made - 1 : k \in 0 .. made' - 1
  <2>1. n \in 0 .. made' - 1
    <3>1. \A a, b \in Int : a >= 0 /\ a < b => a \in 0 .. b - 1
          OBVIOUS
    <3>2. n \in Int /\ n >= 0 /\ made' \in Int /\ n < made'
          BY <1>1
    <3> QED BY <3>1, <3>2
  <2>2. \A a, b \in Int : b >= a => \A k \in 0 .. a - 1 : k \in 0 .. b - 1
        OBVIOUS
  <2>3. made \in Int /\ made' \in Int /\ made' >= made
        BY <1>1
  <2> QED BY <2>1, <2>2, <2>3
<1> DEFINE seq == n % Modulus
<1>3. seq \in 0 .. Modulus - 1 /\ stats' = Observed(stats, seq)
      BY OnTheWire DEF HearFrame
<1>4. StatsOK(stats')
      BY <1>1, <1>3, ObservedIs
<1>5. CASE honest /\ heard = {}
  <2>1. heard' = {n} /\ base' = n /\ honest' = honest
        BY <1>5 DEF HearFrame
  <2>2. stats' = [first |-> seq, last |-> seq, seen |-> {seq}, valid |-> 1]
        BY <1>1, <1>3, <1>5, ObservedIs
  <2>3. stats'.first = seq /\ stats'.last = seq /\ stats'.seen = {seq} /\ stats'.valid = 1
        BY <2>2
  <2>4. Offset' = seq - n
        BY <2>1, <2>3 DEF Offset
  <2>5. n + Offset' = seq /\ n \in Int /\ seq \in Int
        BY <1>1, <1>2, <1>3, <2>4
  <2>6. stats'.seen = {k + Offset' : k \in heard'}
        BY <2>1, <2>3, <2>5
  <2>7. \E m \in heard' : IsTop(m)' /\ stats'.last = m + Offset'
    <3>1. IsTop(n)'
          BY <2>1, <2>5 DEF IsTop
    <3> QED BY <2>1, <2>3, <2>5, <3>1
  <2>8. IsFiniteSet(stats'.seen) /\ Cardinality(stats'.seen) = 1 /\ Cardinality(heard') = 1
        BY <2>1, <2>3, FS_Singleton
  <2>9. base' \in heard' /\ heard' \subseteq 0 .. made' - 1
        BY <1>8, <2>1
  <2>10. Unwrapped'
    <3>1. stats'.first = base' % Modulus
          BY <2>1, <2>3
    <3>2. Cardinality(stats'.seen) = Cardinality(heard') /\ Cardinality(heard') <= stats'.valid
          BY <2>3, <2>8
    <3> QED BY <2>6, <2>7, <2>8, <2>9, <3>1, <3>2 DEF Unwrapped
  <2> QED BY <1>1, <1>4, <2>1, <2>3, <2>10 DEF KnownOK
<1>6. CASE honest /\ heard # {} /\ n - Max(heard) < Half
  <2>1. heard' = heard \cup {n} /\ base' = base /\ honest' = honest
        BY <1>6 DEF HearFrame
  <2>2. Unwrapped /\ stats.seen # {}
        BY <1>1, <1>6
  <2>3. PICK m \in heard : IsTop(m) /\ stats.last = m + Offset
        BY <2>2 DEF Unwrapped
  <2>4. m \in Nat /\ n \in Nat /\ base \in Nat /\ m <= made - 1 /\ made \in Nat
        BY <1>1, <2>2 DEF Unwrapped
  <2>5. Max(heard) = m
    <3>1. \A x \in heard : x \in Int
          BY <1>1
    <3>2. \A x \in heard : (\A y \in heard : x >= y) => x = m
          BY <2>3, <3>1 DEF IsTop
    <3> QED BY <2>3, <3>2 DEF Max, IsTop
  <2>6. n - m < Half /\ n - m >= -Half
        BY <1>2, <1>6, <2>4, <2>5
  <2>7. Offset = (base % Modulus) - base /\ base % Modulus \in Int
        BY <1>2, <2>2, <2>4 DEF Offset, Unwrapped
  <2>8. stats.last \in Int /\ Offset \in Int
        BY <2>3, <2>4, <2>7
  <2>9. Step(stats.last, seq) = n - m
    <3>1. stats.last = m + ((base % Modulus) - base)
          BY <2>3, <2>7
    <3> QED BY <2>4, <2>6, <2>8, <3>1, StepIsDistance
  <2> DEFINE abs == stats.last + Step(stats.last, seq)
  <2>10. abs = n + Offset
        BY <2>3, <2>4, <2>8, <2>9
  <2>11. /\ stats'.first = stats.first
         /\ stats'.last = IF abs > stats.last THEN abs ELSE stats.last
         /\ stats'.seen = stats.seen \cup {abs} /\ stats'.valid = stats.valid + 1
    <3> HIDE DEF seq
    <3> QED BY <1>1, <1>3, <2>2, ObservedIs
  <2> HIDE DEF abs, seq
  <2>12. Offset' = Offset
        BY <2>1, <2>11 DEF Offset
  <2>13. stats'.seen = {k + Offset : k \in heard'}
        BY <2>1, <2>2, <2>10, <2>11 DEF Unwrapped
  <2>14. \E k \in heard' : IsTop(k)' /\ stats'.last = k + Offset'
    <3>1. \A y \in heard : m >= y /\ y \in Int
          BY <1>1, <2>3 DEF IsTop
    <3>2. CASE n > m
      <4>1. stats'.last = n + Offset
            BY <2>3, <2>4, <2>8, <2>10, <2>11, <3>2
      <4>2. IsTop(n)'
            BY <2>1, <2>4, <3>1, <3>2 DEF IsTop
      <4> QED BY <2>1, <2>12, <4>1, <4>2
    <3>3. CASE ~ n > m
      <4>1. stats'.last = m + Offset
            BY <2>3, <2>4, <2>8, <2>10, <2>11, <3>3
      <4>2. IsTop(m)'
            BY <2>1, <2>3, <2>4, <3>1, <3>3 DEF IsTop
      <4> QED BY <2>1, <2>12, <4>1, <4>2
    <3> QED BY <3>2, <3>3
  <2>15. IsFiniteSet(heard) /\ IsFiniteSet(stats.seen)
    <3>1. IsFiniteSet(0 .. MaxMade)
          BY <1>1, FS_Interval
    <3>2. IsFiniteSet(heard)
          BY <1>1, <3>1, FS_Subset
    <3> QED BY <2>2, <3>2 DEF Unwrapped
  <2>16. abs \in stats.seen <=> n \in heard
    <3>1. stats.seen = {k + Offset : k \in heard} /\ \A k \in heard : k \in Int
          BY <1>1, <2>2 DEF Unwrapped
    <3> QED BY <2>4, <2>8, <2>10, <3>1
  <2>17. /\ IsFiniteSet(stats'.seen) /\ Cardinality(stats'.seen) = Cardinality(heard')
         /\ Cardinality(heard') <= Cardinality(heard) + 1
    <3>1. /\ IsFiniteSet(stats'.seen)
          /\ Cardinality(stats'.seen) = IF abs \in stats.seen THEN Cardinality(stats.seen)
                                        ELSE Cardinality(stats.seen) + 1
      <4>1. /\ IsFiniteSet(stats.seen \cup {abs})
            /\ Cardinality(stats.seen \cup {abs}) =
                 IF abs \in stats.seen THEN Cardinality(stats.seen)
                 ELSE Cardinality(stats.seen) + 1
            BY <2>15, FS_AddElement
      <4> QED BY <2>11, <4>1
    <3>2. Cardinality(heard') = IF n \in heard THEN Cardinality(heard) ELSE Cardinality(heard) + 1
          BY <2>1, <2>15, FS_AddElement
    <3>3. Cardinality(stats.seen) = Cardinality(heard) /\ Cardinality(heard) \in Nat
          BY <2>2, <2>15, FS_CardinalityType DEF Unwrapped
    <3> QED BY <2>16, <3>1, <3>2, <3>3
  <2>18. Cardinality(heard') <= stats'.valid
    <3>1. Cardinality(heard) \in Nat /\ Cardinality(heard') \in Nat
      <4>1. IsFiniteSet(heard')
            BY <2>1, <2>15, FS_AddElement
      <4> QED BY <2>15, <4>1, FS_CardinalityType
    <3>2. stats.valid \in Nat /\ Cardinality(heard) <= stats.valid
          BY <1>1, <2>2 DEF StatsOK, Unwrapped
    <3> QED BY <2>11, <2>17, <3>1, <3>2
  <2>19. base' \in heard' /\ heard' \subseteq 0 .. made' - 1 /\ stats'.first = base' % Modulus
    <3>1. base \in heard /\ heard \subseteq 0 .. made - 1 /\ stats.first = base % Modulus
          BY <2>2 DEF Unwrapped
    <3>3. stats'.first = base' % Modulus
          BY <2>1, <2>11, <3>1
    <3> QED BY <1>8, <2>1, <3>1, <3>3
  <2>20. Unwrapped'
        BY <2>12, <2>13, <2>14, <2>17, <2>18, <2>19 DEF Unwrapped
  <2>21. heard' # {} /\ stats'.seen # {}
        BY <2>1, <2>11
  <2> QED BY <1>1, <1>4, <2>1, <2>20, <2>21 DEF KnownOK
<1>7. CASE ~(honest /\ (heard = {} \/ n - Max(heard) < Half))
  <2>1. Dishonest
        BY <1>7 DEF HearFrame
  <2> QED BY <1>4, <2>1, DishonestIsKnown
<1> QED BY <1>5, <1>6, <1>7

\* Anything else that is heard leaves statistics that are not honest.
LEMMA OtherHeard ==
  ASSUME LossInv, Dishonest, NEW n \in Int,
         stats' = Observed(stats, n % Modulus) \/ stats' = Observed(Unseen, n % Modulus)
  PROVE  StatsOK(stats)' /\ KnownOK'
<1>1. n % Modulus \in 0 .. Modulus - 1
      BY OnTheWire
<1>2. StatsOK(stats) /\ StatsOK(Unseen)
      BY UnseenIsOK DEF LossInv
<1>3. StatsOK(stats')
      BY <1>1, <1>2, ObservedIs
<1> QED BY <1>3, DishonestIsKnown

\* Nothing is heard, while the node's numbers go on.
LEMMA NothingHeard ==
  ASSUME LossInv, stats' = stats, heard' = heard, base' = base, honest' = honest,
         made' \in Nat, made' >= made
  PROVE  StatsOK(stats)' /\ KnownOK'
<1>1. /\ StatsOK(stats) /\ KnownOK /\ made \in Nat
      BY EdgeAssumption DEF LossInv, NodeSideOK
<1>2. heard \subseteq 0 .. made - 1 => heard \subseteq 0 .. made' - 1
  <2>1. \A a, b \in Int : b >= a => \A k \in 0 .. a - 1 : k \in 0 .. b - 1
        OBVIOUS
  <2>2. made \in Int /\ made' \in Int /\ made' >= made
        BY <1>1
  <2> QED BY <2>1, <2>2
<1>3. Offset' = Offset /\ \A m : IsTop(m)' <=> IsTop(m)
      BY DEF Offset, IsTop
<1>4. Unwrapped => Unwrapped'
      BY <1>2, <1>3 DEF Unwrapped
<1>5. KnownOK'
      BY <1>1, <1>4 DEF KnownOK
<1> QED BY <1>1, <1>5

\* The numbering begins again: honest statistics have seen nothing, or are so no longer.
LEMMA NumbersBeginAgain ==
  ASSUME LossInv, stats' = stats, IF heard = {} THEN UNCHANGED known ELSE Dishonest
  PROVE  StatsOK(stats)' /\ KnownOK'
<1>1. StatsOK(stats) /\ KnownOK
      BY DEF LossInv
<1>2. CASE heard = {}
      BY <1>1, <1>2 DEF known, KnownOK
<1>3. CASE heard # {}
      BY <1>1, <1>3, DishonestIsKnown
<1> QED BY <1>2, <1>3

LEMMA LossInvInit == LossInit => LossInv
<1> SUFFICES ASSUME LossInit PROVE LossInv
    OBVIOUS
<1>1. /\ made = 0 /\ inSync = FALSE /\ awakens = 0 /\ cmdAcks = 0 /\ left = {}
      /\ stats = Unseen /\ heard = {} /\ base = 0 /\ honest = TRUE /\ upsets = 0
      BY DEF LossInit
<1>2. 0 \in 0 .. MaxMade /\ 0 \in 0 .. MaxAwakens /\ 0 \in 0 .. MaxUpsets /\ 0 <= 0
      BY EdgeAssumption
<1>3. NodeSideOK
      BY <1>1, <1>2 DEF NodeSideOK
<1>4. KnownOK
      BY <1>1, <1>2, UnseenIsOK DEF KnownOK
<1> QED BY <1>1, <1>3, <1>4, UnseenIsOK DEF LossInv

LEMMA LossInvStep == LossInv /\ [LossNext]_lossVars => LossInv'
<1> SUFFICES ASSUME LossInv, [LossNext]_lossVars PROVE LossInv'
    OBVIOUS
<1>1. /\ made \in 0 .. MaxMade /\ inSync \in BOOLEAN
      /\ awakens \in 0 .. MaxAwakens /\ cmdAcks \in 0 .. MaxUpsets
      /\ left \subseteq 0 .. MaxMade
      /\ upsets \in 0 .. MaxUpsets /\ cmdAcks <= upsets
      BY DEF LossInv, NodeSideOK
<1>2. /\ MaxMade \in Nat /\ MaxAwakens \in Nat /\ MaxUpsets \in Nat
      /\ made \in Nat /\ awakens \in Nat /\ cmdAcks \in Nat
      /\ Reach \in Int /\ Reach >= 1
      BY <1>1, EdgeAssumption
<1>3. Upset => upsets' = upsets + 1 /\ upsets' \in 0 .. MaxUpsets
  <2>1. upsets \in Nat /\ MaxUpsets \in Nat
        BY <1>1, <1>2
  <2> QED BY <2>1 DEF Upset
<1>4. CASE SendNew
  <2>1. /\ made < MaxMade /\ made' = made + 1 /\ inSync' = inSync /\ awakens' = awakens
        /\ cmdAcks' = cmdAcks /\ left' = left /\ upsets' = upsets
        BY <1>4 DEF SendNew
  <2>2. made \in 0 .. MaxMade /\ made' \in 0 .. MaxMade /\ made' \in Nat /\ made' >= made
        BY <1>1, <1>2, <2>1
  <2>3. made < made' /\ made >= made - Reach
        BY <1>2, <2>1
  <2>4. NodeSideOK'
        BY <1>1, <2>1, <2>2 DEF NodeSideOK
  <2>5. CASE HearFrame(made)
        BY <2>2, <2>3, <2>4, <2>5, FrameHeard DEF LossInv
  <2>6. CASE HearNothing
        BY <2>2, <2>4, <2>6, NothingHeard DEF LossInv, HearNothing, known
  <2> QED BY <1>4, <2>5, <2>6 DEF SendNew
<1>5. CASE SendAgain
  <2>1. /\ made' = made /\ inSync' = inSync /\ awakens' = awakens
        /\ cmdAcks' = cmdAcks /\ left' = left /\ upsets' = upsets
        BY <1>5 DEF SendAgain, nodeSide
  <2>2. NodeSideOK'
        BY <1>1, <2>1 DEF NodeSideOK
  <2>3. ASSUME NEW n \in 0 .. made - 1, n >= made - Reach, HearFrame(n)
        PROVE  LossInv'
    <3>1. n \in 0 .. MaxMade /\ n < made' /\ made' \in Nat /\ made' >= made
          BY <1>1, <1>2, <2>1
    <3> QED BY <2>2, <2>3, <3>1, FrameHeard DEF LossInv
  <2>4. ASSUME NEW n \in left, HearLeft(n) PROVE LossInv'
    <3>1. n \in Int
          BY <1>1
    <3> QED BY <2>2, <2>4, <3>1, OtherHeard DEF LossInv, HearLeft
  <2> QED BY <1>5, <2>3, <2>4 DEF SendAgain
<1>6. CASE SendCmdAckFrame
  <2>1. /\ made' = made /\ inSync' = inSync /\ awakens' = awakens /\ left' = left
        /\ cmdAcks' = cmdAcks + 1 /\ Upset /\ HearCmdAck(cmdAcks)
        BY <1>6 DEF SendCmdAckFrame
  <2>2. upsets' \in 0 .. MaxUpsets /\ cmdAcks' \in 0 .. MaxUpsets /\ cmdAcks' <= upsets'
    <3>1. upsets' = upsets + 1 /\ upsets' \in 0 .. MaxUpsets /\ upsets \in Int
          BY <1>1, <1>3, <2>1
    <3>2. cmdAcks' = cmdAcks + 1 /\ cmdAcks \in Nat /\ cmdAcks <= upsets /\ MaxUpsets \in Nat
          BY <1>1, <1>2, <2>1
    <3> QED BY <3>1, <3>2
  <2>3. NodeSideOK'
        BY <1>1, <2>1, <2>2 DEF NodeSideOK
  <2>4. StatsOK(stats)' /\ KnownOK'
        BY <1>2, <2>1, OtherHeard DEF HearCmdAck
  <2> QED BY <2>3, <2>4 DEF LossInv
<1>7. CASE CallAwaken
  <2>1. /\ made' = made /\ inSync' = inSync /\ awakens' = awakens + 1 /\ left' = left
        /\ cmdAcks' = cmdAcks /\ upsets' = upsets /\ awakens < MaxAwakens
        BY <1>7 DEF CallAwaken
  <2>2. awakens' \in 0 .. MaxAwakens
        BY <1>1, <1>2, <2>1
  <2>3. NodeSideOK'
        BY <1>1, <2>1, <2>2 DEF NodeSideOK
  <2>4. CASE HearAwaken(awakens)
        BY <1>2, <2>3, <2>4, OtherHeard DEF HearAwaken, LossInv
  <2>5. CASE HearNothing
    <3>1. made' \in Nat /\ made' >= made
          BY <1>2, <2>1
    <3> QED BY <2>3, <2>5, <3>1, NothingHeard DEF LossInv, HearNothing, known
  <2> QED BY <1>7, <2>4, <2>5 DEF CallAwaken
<1>8. CASE SyncLost
  <2>1. /\ made' = made /\ inSync' = FALSE /\ awakens' = awakens /\ left' = left
        /\ cmdAcks' = cmdAcks /\ Upset
        /\ stats' = stats /\ heard' = heard /\ base' = base /\ honest' = honest
        BY <1>8 DEF SyncLost, known
  <2>2. upsets' \in 0 .. MaxUpsets /\ cmdAcks' <= upsets'
    <3>1. upsets' = upsets + 1 /\ upsets' \in 0 .. MaxUpsets /\ upsets \in Int
          BY <1>1, <1>3, <2>1
    <3>2. cmdAcks' = cmdAcks /\ cmdAcks \in Nat /\ cmdAcks <= upsets
          BY <1>1, <1>2, <2>1
    <3> QED BY <3>1, <3>2
  <2>3. NodeSideOK'
        BY <1>1, <2>1, <2>2 DEF NodeSideOK
  <2>4. made' \in Nat /\ made' >= made
        BY <1>2, <2>1
  <2> QED BY <2>1, <2>3, <2>4, NothingHeard DEF LossInv
<1>9. CASE SyncHeard
  <2>1. /\ made' = made /\ inSync' = TRUE /\ awakens' = awakens /\ left' = left
        /\ cmdAcks' = cmdAcks /\ upsets' = upsets
        /\ stats' = stats /\ heard' = heard /\ base' = base /\ honest' = honest
        BY <1>9 DEF SyncHeard, known
  <2>2. NodeSideOK'
        BY <1>1, <2>1 DEF NodeSideOK
  <2>3. made' \in Nat /\ made' >= made
        BY <1>2, <2>1
  <2> QED BY <2>1, <2>2, <2>3, NothingHeard DEF LossInv
<1>10. CASE SessionHeard
  <2>1. /\ made' = 0 /\ inSync' = TRUE /\ awakens' = awakens /\ cmdAcks' = cmdAcks /\ Upset
        /\ left' = {n \in 0 .. made - 1 : n >= made - Reach}
        /\ stats' = stats /\ (IF heard = {} THEN UNCHANGED known ELSE Dishonest)
        BY <1>10 DEF SessionHeard
  <2>2. upsets' \in 0 .. MaxUpsets /\ cmdAcks' <= upsets'
    <3>1. upsets' = upsets + 1 /\ upsets' \in 0 .. MaxUpsets /\ upsets \in Int
          BY <1>1, <1>3, <2>1
    <3>2. cmdAcks' = cmdAcks /\ cmdAcks \in Nat /\ cmdAcks <= upsets
          BY <1>1, <1>2, <2>1
    <3> QED BY <3>1, <3>2
  <2>3. left' \subseteq 0 .. MaxMade
    <3>1. \A n \in 0 .. made - 1 : n \in 0 .. MaxMade
          BY <1>1, <1>2
    <3> QED BY <2>1, <3>1
  <2>4. made' \in 0 .. MaxMade
        BY <1>2, <2>1
  <2>5. NodeSideOK'
        BY <1>1, <2>1, <2>2, <2>3, <2>4 DEF NodeSideOK
  <2> QED BY <2>1, <2>5, NumbersBeginAgain DEF LossInv
<1>11. CASE NodeReboots
  <2>1. /\ made' = 0 /\ inSync' = FALSE /\ awakens' = 0 /\ cmdAcks' = 0 /\ Upset /\ left' = {}
        /\ stats' = stats /\ (IF heard = {} THEN UNCHANGED known ELSE Dishonest)
        BY <1>11 DEF NodeReboots
  <2>2. /\ made' \in 0 .. MaxMade /\ awakens' \in 0 .. MaxAwakens /\ cmdAcks' \in 0 .. MaxUpsets
        BY <1>2, <2>1
  <2>3. upsets' \in 0 .. MaxUpsets /\ cmdAcks' <= upsets'
        BY <1>2, <1>3, <2>1
  <2>4. NodeSideOK'
        BY <2>1, <2>2, <2>3 DEF NodeSideOK
  <2> QED BY <2>1, <2>4, NumbersBeginAgain DEF LossInv
<1>12. CASE EdgeRestarts
  <2>1. /\ made' = made /\ inSync' = inSync /\ awakens' = awakens /\ left' = left
        /\ cmdAcks' = cmdAcks /\ Upset
        /\ stats' = Unseen /\ heard' = {} /\ base' = 0 /\ honest' = TRUE
        BY <1>12 DEF EdgeRestarts, nodeSide
  <2>2. upsets' \in 0 .. MaxUpsets /\ cmdAcks' <= upsets'
    <3>1. upsets' = upsets + 1 /\ upsets' \in 0 .. MaxUpsets /\ upsets \in Int
          BY <1>1, <1>3, <2>1
    <3>2. cmdAcks' = cmdAcks /\ cmdAcks \in Nat /\ cmdAcks <= upsets
          BY <1>1, <1>2, <2>1
    <3> QED BY <3>1, <3>2
  <2>3. NodeSideOK'
        BY <1>1, <2>1, <2>2 DEF NodeSideOK
  <2>4. 0 \in 0 .. MaxMade
        BY <1>2
  <2>5. KnownOK'
        BY <2>1, <2>4, UnseenIsOK DEF KnownOK
  <2> QED BY <2>1, <2>3, <2>5, UnseenIsOK DEF LossInv
<1>13. CASE UNCHANGED lossVars
  <2>1. /\ made' = made /\ inSync' = inSync /\ awakens' = awakens /\ left' = left
        /\ cmdAcks' = cmdAcks /\ upsets' = upsets
        /\ stats' = stats /\ heard' = heard /\ base' = base /\ honest' = honest
        BY <1>13 DEF lossVars, nodeSide, known
  <2>2. NodeSideOK'
        BY <1>1, <2>1 DEF NodeSideOK
  <2>3. made' \in Nat /\ made' >= made
        BY <1>2, <2>1
  <2> QED BY <2>1, <2>2, <2>3, NothingHeard DEF LossInv
<1> QED BY <1>4, <1>5, <1>6, <1>7, <1>8, <1>9, <1>10, <1>11, <1>12, <1>13 DEF LossNext

\* Of the numbers from the first frame to the greatest, those not heard are what is
\* lost; the frames older than the first make up for as many.
LEMMA LostLessEarly ==
  ASSUME NEW H, NEW b \in H, NEW m \in H, \A n \in H : n \in Nat /\ m >= n, IsFiniteSet(H)
  PROVE  Cardinality((b .. m) \ H) - Cardinality({n \in H : n < b})
           = m - b + 1 - Cardinality(H)
<1> DEFINE I == b .. m
           E == {n \in H : n < b}
<1>1. b \in Int /\ m \in Int /\ b <= m
      OBVIOUS
<1>2. IsFiniteSet(I) /\ Cardinality(I) = m - b + 1
      BY <1>1, FS_Interval
<1>3. H \ I = E /\ I \cap H = H \cap I
  <2>1. ASSUME NEW n \in H PROVE n \in I <=> ~ n < b
    <3>1. n \in Int /\ n <= m
          OBVIOUS
    <3> QED BY <1>1, <3>1
  <2> HIDE DEF I
  <2> QED BY <2>1
<1> HIDE DEF I, E
<1>4. Cardinality(I \ H) = Cardinality(I) - Cardinality(I \cap H)
      BY <1>2, FS_Difference
<1>5. Cardinality(E) = Cardinality(H) - Cardinality(H \cap I)
      BY <1>3, FS_Difference
<1>6. Cardinality(H) \in Int /\ Cardinality(H \cap I) \in Int
  <2>1. IsFiniteSet(H \cap I)
        BY FS_Intersection
  <2> QED BY <2>1, FS_CardinalityType
<1>7. Cardinality(I \ H) - Cardinality(E) = m - b + 1 - Cardinality(H)
  <2>1. \A i, h, c \in Int : (i - c) - (h - c) = i - h
        OBVIOUS
  <2>2. m - b + 1 \in Int
        BY <1>1
  <2> QED BY <1>2, <1>3, <1>4, <1>5, <1>6, <2>1, <2>2
<1> QED BY <1>7 DEF I, E

LEMMA InvAccounts == LossInv => LossAccounted
<1> SUFFICES ASSUME LossInv, honest, heard # {} PROVE LossAccounted
    BY DEF LossAccounted
<1>1. /\ StatsOK(stats) /\ heard \subseteq 0 .. MaxMade /\ MaxMade \in Nat
      /\ stats.seen # {} /\ Unwrapped
      BY EdgeAssumption DEF LossInv, KnownOK
<1>2. PICK m \in heard : IsTop(m) /\ stats.last = m + Offset
      BY <1>1 DEF Unwrapped
<1>3. base \in heard /\ \A n \in heard : n \in Nat
      BY <1>1 DEF Unwrapped
<1>4. Max(heard) = m
  <2>1. \A x \in heard : (\A y \in heard : x >= y) => x = m
        BY <1>2, <1>3 DEF IsTop
  <2> QED BY <1>2, <2>1 DEF Max, IsTop
<1>5. IsFiniteSet(heard)
  <2>1. IsFiniteSet(0 .. MaxMade)
        BY <1>1, FS_Interval
  <2> QED BY <1>1, <2>1, FS_Subset
<1>6. /\ Cardinality(heard) \in Nat /\ Cardinality(stats.seen) = Cardinality(heard)
      /\ Cardinality(heard) <= stats.valid /\ stats.valid \in Int
  <2>1. stats.valid \in Int
        BY <1>1 DEF StatsOK
  <2> QED BY <1>1, <1>5, <2>1, FS_CardinalityType DEF Unwrapped
<1>7. stats.first \in Int
  <2>1. stats.first \in 0 .. Modulus - 1
        BY <1>1 DEF StatsOK
  <2> QED BY <2>1, EdgeAssumption
<1>8. stats.seen = {n - base + stats.first : n \in heard}
  <2>1. \A n \in heard : n + Offset = n - base + stats.first
        BY <1>3, <1>7 DEF Offset
  <2>2. stats.seen = {n + Offset : n \in heard}
        BY <1>1 DEF Unwrapped
  <2> QED BY <2>1, <2>2
<1>9. stats.last - stats.first = m - base
      BY <1>2, <1>3, <1>7 DEF Offset
<1>10. Lost - Early = m - base + 1 - Cardinality(heard)
  <2>1. \A n \in heard : n \in Nat /\ m >= n
        BY <1>2, <1>3 DEF IsTop
  <2>2. Cardinality((base .. m) \ heard) - Cardinality({n \in heard : n < base})
          = m - base + 1 - Cardinality(heard)
        BY <1>2, <1>3, <1>5, <2>1, LostLessEarly
  <2> QED BY <1>4, <2>2 DEF Lost, Early
<1>11. Missing(stats) = AtLeastZero(Lost - Early)
  <2>1. SpanOf(stats) = m - base + 1
        BY <1>1, <1>9 DEF SpanOf
  <2>2. Received(stats) = Cardinality(heard)
        BY <1>6 DEF Received
  <2>3. SpanOf(stats) - Received(stats) = Lost - Early
    <3> DEFINE span == SpanOf(stats)
               lost == Lost - Early
    <3>1. span = m - base + 1 /\ lost = m - base + 1 - Cardinality(heard)
          BY <1>10, <2>1
    <3> HIDE DEF span, lost
    <3>2. span - Cardinality(heard) = lost
          BY <1>2, <1>3, <1>6, <3>1
    <3> QED BY <2>2, <3>2 DEF span, lost
  <2> QED BY <2>3 DEF Missing
<1>12. Duplicates(stats) = stats.valid - Cardinality(heard)
      BY <1>6 DEF Duplicates, Received, AtLeastZero
<1> QED BY <1>4, <1>8, <1>9, <1>11, <1>12 DEF LossAccounted

LEMMA InvTypesLoss == LossInv => LossTypeOK
  BY DEF LossInv, NodeSideOK, StatsOK, KnownOK, LossTypeOK

(***************************************************************************)
(* The types of the node's numbers and of the edge's statistics: a number  *)
(* unwrapped is never below zero where it is the last, and the first and   *)
(* the last are among those seen.                                          *)
(***************************************************************************)
THEOREM StatsAreTyped == LossSpec => []LossTypeOK
<1>1. LossInv /\ [LossNext]_lossVars => LossInv'
      BY LossInvStep
<1> QED BY <1>1, LossInvInit, InvTypesLoss, PTL DEF LossSpec

(***************************************************************************)
(* For every size of the wrap and any number of frames, losses, duplicates *)
(* and late frames: as long as frames come from no further back than half  *)
(* the numbers and no gap is as long, the span the edge computes is the    *)
(* true one, and what it calls missing is what was lost, less the frames   *)
(* older than the first that came.                                         *)
(***************************************************************************)
THEOREM LossIsAccounted == LossSpec => []LossAccounted
<1>1. LossInv /\ [LossNext]_lossVars => LossInv'
      BY LossInvStep
<1> QED BY <1>1, LossInvInit, InvAccounts, PTL DEF LossSpec

-----------------------------------------------------------------------------
(***************************************************************************)
(* The serial line.  The parser is in step with the frame under way, or is *)
(* behind, and then that frame is not one it owes: it has taken noise, or  *)
(* bytes inside a frame, for the start of one, and will have let go of it  *)
(* LongEnough bytes later or, where no second mark follows, with the next; *)
(* or it has refused the frame's length.                                   *)
(***************************************************************************)

Symbols == Nat \cup {Check(<<Len(d)>> \o d) : d \in Data}

\* What the parser gathers of a frame, and checks.
Body(d) == <<Len(d)>> \o d

\* Where the parser is when it has taken i bytes of the frame and was in step with it.
InStep(i) ==
  LET n == Len(frame) IN
  /\ i = 0 => stage = "WaitM0"
  /\ i = 1 => stage = "WaitM1"
  /\ i = 2 => stage = "WaitLen"
  /\ i \in 3 .. n + 2 => stage = "ReadData" /\ wanted = n /\ buf = SubSeq(Body(frame), 1, i - 2)
  /\ i = n + 3 => stage = "CheckCrc" /\ buf = Body(frame)
  /\ i = n + 4 => stage = "WaitM0" /\ event = frame
  /\ i > 2 => Accepted(frame)

\* How many bytes the parser may take before it looks for M0 again.
RemainingOf(s, w, b) ==
  CASE s = "WaitM1"   -> MaxLength + 3
    [] s = "WaitLen"  -> MaxLength + 2
    [] s = "ReadData" -> w + 2 - Len(b)
    [] OTHER          -> 1

Remaining == RemainingOf(stage, wanted, buf)

\* What was taken for the first mark has no second one behind it.
LetsGo == stage = "WaitM1" /\ wire # <<>> /\ Head(wire) # M1

Behind ==
  /\ clean => ~Accepted(frame)
  /\ stage # "WaitM0" => Remaining + quiet <= LongEnough \/ LetsGo

At(i) ==
  /\ i \in 0 .. Len(frame) + 4
  /\ wire = SubSeq(FrameOf(frame), i + 1, Len(frame) + 4)
  /\ InStep(i) \/ Behind

Gathering(w, b) ==
  /\ w \in Nat /\ LengthOK(w)
  /\ b \in Seq(Symbols) /\ Len(b) \in 1 .. w

BufOK == Gathering(wanted, buf)

UartInv ==
  /\ stage \in Stages
  /\ quiet \in 0 .. LongEnough
  /\ clean \in BOOLEAN
  /\ stage = "ReadData" => BufOK
  /\ \/ frame \in Data /\ Written(frame) /\ \E i \in Nat : At(i)
     \/ wire = <<>> /\ Behind /\ (clean => ~Written(frame) /\ stage = "WaitM0")

\* A frame byte by byte.
LEMMA FrameParts ==
  ASSUME NEW d \in Data
  PROVE  /\ Len(d) \in Nat /\ d \in Seq(Symbols)
         /\ Body(d) \in Seq(Symbols) /\ Len(Body(d)) = Len(d) + 1 /\ Tail(Body(d)) = d
         /\ FrameOf(d) \in Seq(Symbols) /\ Len(FrameOf(d)) = Len(d) + 4
         /\ FrameOf(d)[1] = M0 /\ FrameOf(d)[2] = M1 /\ FrameOf(d)[3] = Len(d)
         /\ \A i \in 3 .. Len(d) + 3 : FrameOf(d)[i] = Body(d)[i - 2]
         /\ FrameOf(d)[Len(d) + 4] = Check(Body(d))
<1> DEFINE n == Len(d)
           c == Check(Body(d))
<1>0. d \in Seq(Bytes) /\ Bytes \subseteq Nat /\ M0 \in Nat /\ M1 \in Nat
      BY UartAssumption
<1>1. n \in Nat /\ d \in Seq(Symbols)
  <2>1. d \in Seq(Symbols)
        BY <1>0, SeqMonotonic DEF Symbols
  <2> QED BY <2>1, LenProperties
<1>2. <<n>> \in Seq(Symbols) /\ Len(<<n>>) = 1 /\ <<n>>[1] = n
      BY <1>1 DEF Symbols
<1>3. /\ Body(d) \in Seq(Symbols) /\ Len(Body(d)) = n + 1
      /\ \A i \in 1 .. 1 + n : Body(d)[i] = IF i <= 1 THEN <<n>>[i] ELSE d[i - 1]
      BY <1>1, <1>2, ConcatProperties DEF Body
<1>4. Body(d)[1] = n /\ \A i \in 1 .. n : Body(d)[i + 1] = d[i]
      BY <1>1, <1>2, <1>3
<1>5. Tail(Body(d)) = d
  <2>1. Body(d) # <<>>
        BY <1>1, <1>3, EmptySeq
  <2>2. /\ Tail(Body(d)) \in Seq(Symbols) /\ Len(Tail(Body(d))) = n
        /\ \A i \in 1 .. n : Tail(Body(d))[i] = Body(d)[i + 1]
        BY <1>1, <1>3, <2>1, HeadTailProperties
  <2> QED BY <1>1, <1>4, <2>2, SeqEqual
<1>6. <<M0, M1, n>> \in Seq(Symbols) /\ Len(<<M0, M1, n>>) = 3
      BY <1>0, <1>1 DEF Symbols
<1>7. c \in Symbols /\ <<c>> \in Seq(Symbols) /\ Len(<<c>>) = 1 /\ <<c>>[1] = c
  <2>1. c \in Symbols
        BY DEF Symbols, Body
  <2> QED BY <2>1
<1> DEFINE G == <<M0, M1, n>> \o d
<1>8. /\ G \in Seq(Symbols) /\ Len(G) = n + 3
      /\ \A i \in 1 .. 3 + n : G[i] = IF i <= 3 THEN <<M0, M1, n>>[i] ELSE d[i - 3]
      BY <1>1, <1>6, ConcatProperties
<1>9. FrameOf(d) = G \o <<c>>
      BY DEF FrameOf, Body
<1>10. /\ FrameOf(d) \in Seq(Symbols) /\ Len(FrameOf(d)) = n + 4
       /\ \A i \in 1 .. 4 + n : FrameOf(d)[i] = IF i <= n + 3 THEN G[i] ELSE <<c>>[i - (n + 3)]
  <2> HIDE DEF G, c
  <2>1. Len(G) + Len(<<c>>) = 4 + n
        BY <1>1, <1>7, <1>8
  <2> QED BY <1>7, <1>8, <1>9, <2>1, ConcatProperties
<1>11. G[1] = M0 /\ G[2] = M1 /\ G[3] = n /\ \A i \in 1 .. n : G[i + 3] = d[i]
  <2>1. <<M0, M1, n>>[1] = M0 /\ <<M0, M1, n>>[2] = M1 /\ <<M0, M1, n>>[3] = n
        OBVIOUS
  <2> HIDE DEF G
  <2> QED BY <1>1, <1>8, <2>1
<1>12. \A i \in 3 .. n + 3 : G[i] = Body(d)[i - 2]
  <2> HIDE DEF G
  <2> SUFFICES ASSUME NEW i \in 3 .. n + 3 PROVE G[i] = Body(d)[i - 2]
      OBVIOUS
  <2>1. CASE i = 3
        BY <2>1, <1>1, <1>4, <1>11
  <2>2. CASE i # 3
    <3>1. i - 3 \in 1 .. n /\ (i - 3) + 3 = i /\ (i - 3) + 1 = i - 2
          BY <1>1, <2>2
    <3> QED BY <3>1, <1>4, <1>11
  <2> QED BY <2>1, <2>2
<1>13. FrameOf(d)[n + 4] = c
  <2> HIDE DEF G, c
  <2>1. (n + 4) - (n + 3) = 1 /\ ~ n + 4 <= n + 3 /\ n + 4 \in 1 .. 4 + n
        BY <1>1
  <2> QED BY <1>7, <1>10, <2>1
<1> HIDE DEF G, c
<1>14. /\ FrameOf(d)[1] = M0 /\ FrameOf(d)[2] = M1 /\ FrameOf(d)[3] = n
       /\ \A i \in 3 .. n + 3 : FrameOf(d)[i] = Body(d)[i - 2]
      BY <1>1, <1>10, <1>11, <1>12
<1> QED BY <1>1, <1>3, <1>5, <1>10, <1>13, <1>14 DEF c

\* The bytes still to come, and the next of them.
LEMMA StillToCome ==
  ASSUME frame \in Data, NEW i \in 0 .. Len(frame) + 4,
         wire = SubSeq(FrameOf(frame), i + 1, Len(frame) + 4)
  PROVE  /\ wire = <<>> <=> i = Len(frame) + 4
         /\ wire = FrameOf(frame) => i = 0
         /\ wire # <<>> => /\ i + 1 \in 0 .. Len(frame) + 4
                           /\ Head(wire) = FrameOf(frame)[i + 1] /\ Head(wire) \in Symbols
                           /\ Tail(wire) = SubSeq(FrameOf(frame), i + 2, Len(frame) + 4)
<1> DEFINE n == Len(frame)
           F == FrameOf(frame)
<1>1. n \in Nat /\ F \in Seq(Symbols) /\ Len(F) = n + 4
      BY FrameParts
<1> HIDE DEF n, F
<1>2. CASE i = n + 4
  <2>1. wire = <<>>
        BY <1>1, <1>2, SubSeqEmpty DEF n, F
  <2>2. Len(F) # 0
        BY <1>1
  <2>3. wire # F
        BY <1>1, <2>1, <2>2, EmptySeq
  <2> QED BY <1>2, <2>1, <2>3 DEF n, F
<1>3. CASE i # n + 4
  <2>1. i + 1 \in 1 .. n + 4 /\ i \in Int /\ i + 1 \in 0 .. n + 4
        BY <1>1, <1>3 DEF n
  <2>2. wire = SubSeq(F, i + 1, n + 4)
        BY DEF n, F
  <2>3. Head(wire) = F[i + 1] /\ Tail(wire) = SubSeq(F, i + 2, n + 4)
    <3>1. i + 1 \in 1 .. Len(F) /\ n + 4 \in i + 1 .. Len(F) /\ (i + 1) + 1 = i + 2
          BY <1>1, <2>1
    <3> QED BY <1>1, <2>2, <3>1, HeadTailOfSubSeq
  <2>4. F[i + 1] \in Symbols
        BY <1>1, <2>1, ElementOfSeq
  <2>5. wire # <<>> /\ (wire = F => i = 0)
    <3>1. \A j \in i + 1 .. n + 4 : F[j] \in Symbols
          BY <1>1, <2>1, ElementOfSeq
    <3>2. Len(wire) = (n + 4) - (i + 1) + 1
          BY <1>1, <2>1, <2>2, <3>1, SubSeqProperties
    <3>3. Len(wire) # 0 /\ (Len(wire) = Len(F) => i = 0)
          BY <1>1, <2>1, <3>2
    <3> QED BY <3>3, EmptySeq
  <2> QED BY <1>3, <2>1, <2>3, <2>4, <2>5 DEF n, F
<1> QED BY <1>2, <1>3

\* Taking a byte, whatever it is, leaves a parser, one byte nearer to its end.
LEMMA PushedByte ==
  ASSUME stage \in Stages, stage = "ReadData" => BufOK, NEW b \in Symbols, PushByte(b)
  PROVE  /\ stage' \in Stages
         /\ stage' = "ReadData" => BufOK'
         /\ stage = "WaitM0" /\ b # M0 => stage' = "WaitM0"
         /\ stage # "WaitM0" /\ stage' # "WaitM0" => Remaining' <= Remaining - 1
<1>1. CASE stage = "WaitM0"
      BY <1>1 DEF PushByte, Stages
<1>2. CASE stage = "WaitM1"
  <2>1. stage' \in {"WaitLen", "WaitM0"}
        BY <1>2 DEF PushByte
  <2>2. Remaining = MaxLength + 3 /\ (stage' = "WaitLen" => Remaining' = MaxLength + 2)
        BY <1>2 DEF Remaining, RemainingOf
  <2> QED BY <1>2, <2>1, <2>2, UartAssumption DEF Stages
<1>3. CASE stage = "WaitLen"
  <2>1. CASE ~LengthOK(b)
        BY <1>3, <2>1 DEF PushByte, Stages
  <2>2. CASE LengthOK(b)
    <3>1. stage' = "ReadData" /\ wanted' = b /\ buf' = <<b>>
          BY <1>3, <2>2 DEF PushByte
    <3>2. b \in Nat /\ b >= 1 /\ b <= MaxLength
          BY <2>2, UartAssumption DEF LengthOK
    <3>3. buf' \in Seq(Symbols) /\ Len(buf') = 1
          BY <3>1
    <3>4. BufOK'
          BY <2>2, <3>1, <3>2, <3>3 DEF BufOK, Gathering, LengthOK
    <3>5. Remaining = MaxLength + 2 /\ Remaining' = wanted' + 2 - Len(buf')
          BY <1>3, <3>1 DEF Remaining, RemainingOf
    <3>6. Remaining' <= Remaining - 1
          BY <3>1, <3>2, <3>3, <3>5, UartAssumption
    <3> QED BY <1>3, <3>1, <3>4, <3>6 DEF Stages
  <2> QED BY <2>1, <2>2
<1>4. CASE stage = "ReadData"
  <2>1. /\ wanted \in Nat /\ LengthOK(wanted)
        /\ buf \in Seq(Symbols) /\ Len(buf) \in 1 .. wanted
        BY <1>4 DEF BufOK, Gathering
  <2>2. /\ buf' = Append(buf, b) /\ wanted' = wanted
        /\ stage' = IF Len(buf') = 1 + wanted THEN "CheckCrc" ELSE "ReadData"
        BY <1>4 DEF PushByte
  <2>3. buf' \in Seq(Symbols) /\ Len(buf') = Len(buf) + 1
        BY <2>1, <2>2, AppendProperties
  <2>4. Remaining = wanted + 2 - Len(buf)
        BY <1>4 DEF Remaining, RemainingOf
  <2>5. CASE Len(buf') = 1 + wanted
    <3>1. stage' = "CheckCrc" /\ Remaining' = 1
          BY <2>2, <2>5 DEF Remaining, RemainingOf
    <3> QED BY <1>4, <2>1, <2>3, <2>4, <2>5, <3>1 DEF Stages
  <2>6. CASE Len(buf') # 1 + wanted
    <3>1. stage' = "ReadData" /\ Remaining' = wanted' + 2 - Len(buf')
          BY <2>2, <2>6 DEF Remaining, RemainingOf
    <3>2. Len(buf') \in 1 .. wanted
          BY <2>1, <2>3, <2>6
    <3>3. BufOK'
          BY <2>1, <2>2, <2>3, <3>2 DEF BufOK, Gathering, LengthOK
    <3>4. Remaining' <= Remaining - 1
          BY <2>1, <2>2, <2>3, <2>4, <3>1
    <3> QED BY <1>4, <3>1, <3>3, <3>4 DEF Stages
  <2> QED BY <2>5, <2>6
<1>5. CASE stage = "CheckCrc"
      BY <1>5 DEF PushByte, Stages
<1> QED BY <1>1, <1>2, <1>3, <1>4, <1>5 DEF Stages

\* No parser takes longer than LongEnough.
LEMMA RemainingBound ==
  ASSUME NEW s \in Stages, NEW w, NEW b, s = "ReadData" => Gathering(w, b)
  PROVE  /\ RemainingOf(s, w, b) \in Int
         /\ RemainingOf(s, w, b) >= 1 /\ RemainingOf(s, w, b) <= LongEnough
<1>1. CASE s = "ReadData"
  <2>1. RemainingOf(s, w, b) = w + 2 - Len(b)
        BY <1>1 DEF RemainingOf
  <2>2. w \in Nat /\ w <= MaxLength /\ Len(b) \in 1 .. w
        BY <1>1, UartAssumption DEF Gathering, LengthOK
  <2> QED BY <2>1, <2>2, UartAssumption DEF LongEnough
<1>2. CASE s # "ReadData"
  <2>1. RemainingOf(s, w, b) \in {MaxLength + 3, MaxLength + 2, 1}
        BY <1>2 DEF RemainingOf
  <2> QED BY <2>1, UartAssumption DEF LongEnough
<1> QED BY <1>1, <1>2

\* A parser in step that takes the next byte of the frame stays so, unless it refuses the length.
LEMMA StaysInStep ==
  ASSUME frame \in Data, Written(frame), NEW i \in 0 .. Len(frame) + 3, InStep(i),
         PushByte(FrameOf(frame)[i + 1]), frame' = frame
  PROVE  InStep(i + 1)' \/ (~Accepted(frame) /\ stage' = "WaitM0")
<1> DEFINE n == Len(frame)
           B == Body(frame)
           b == FrameOf(frame)[i + 1]
<1>0. n \in Nat
      BY FrameParts
<1>1. LengthOK(n) => Accepted(frame) /\ n >= 1
      BY <1>0, UartAssumption DEF LengthOK, Accepted
<1>2. i > 2 => LengthOK(n)
      BY DEF InStep, Accepted
<1>3. Accepted(frame)' = Accepted(frame)
      BY DEF Accepted, Written, LengthOK
<1>4. B \in Seq(Symbols) /\ Len(B) = n + 1 /\ Tail(B) = frame
      BY FrameParts
<1>5. /\ i = 0 => b = M0
      /\ i = 1 => b = M1
      /\ i = 2 => b = n
      /\ i = n + 3 => b = Check(B)
      BY FrameParts
<1>6. i \in 2 .. n + 2 => b = B[i - 1]
  <2> SUFFICES ASSUME i \in 2 .. n + 2 PROVE b = B[i - 1]
      OBVIOUS
  <2>1. i + 1 \in 3 .. n + 3 /\ (i + 1) - 2 = i - 1
        BY <1>0
  <2> QED BY <2>1, FrameParts
<1>7. PushByte(b)
      OBVIOUS
<1>8. Body(frame)' = B /\ Len(frame)' = n
      BY DEF Body
<1>9. CASE i = 2 /\ ~LengthOK(n)
  <2>1. stage = "WaitLen"
        BY <1>9 DEF InStep
  <2>2. stage' = "WaitM0"
        BY <1>5, <1>7, <1>9, <2>1 DEF PushByte
  <2>3. ~Accepted(frame)
        BY <1>9 DEF Accepted
  <2> QED BY <2>2, <2>3
<1> HIDE DEF b, B, n
<1>10. SUFFICES ASSUME i = 2 => LengthOK(n)
               PROVE  InStep(i + 1)'
      BY <1>9
<1>11. i >= 2 => LengthOK(n) /\ n >= 1
  <2>1. i \in Nat
        BY <1>0 DEF n
  <2> QED BY <1>10, <1>1, <1>2, <2>1
<1>12. SUFFICES /\ i + 1 = 1 => stage' = "WaitM1"
                /\ i + 1 = 2 => stage' = "WaitLen"
                /\ i + 1 \in 3 .. n + 2 =>
                     stage' = "ReadData" /\ wanted' = n /\ buf' = SubSeq(B, 1, i - 1)
                /\ i + 1 = n + 3 => stage' = "CheckCrc" /\ buf' = B
                /\ i + 1 = n + 4 => stage' = "WaitM0" /\ event' = frame
  <2>1. i \in Nat /\ i + 1 # 0 /\ (i + 1) - 2 = i - 1 /\ (i + 1 > 2 => i >= 2)
        BY <1>0 DEF n
  <2>2. i + 1 > 2 => Accepted(frame)'
        BY <1>1, <1>3, <1>11, <2>1
  <2> QED BY <1>8, <2>1, <2>2 DEF InStep
<1>13. CASE i = 0
  <2>1. stage = "WaitM0"
        BY <1>13 DEF InStep
  <2>2. stage' = "WaitM1"
        BY <1>5, <1>7, <1>13, <2>1 DEF PushByte
  <2> QED BY <1>0, <1>13, <2>2
<1>14. CASE i = 1
  <2>1. stage = "WaitM1"
        BY <1>14 DEF InStep
  <2>2. stage' = "WaitLen"
        BY <1>5, <1>7, <1>14, <2>1 DEF PushByte
  <2> QED BY <1>0, <1>14, <2>2
<1>15. CASE i = 2
  <2>1. stage = "WaitLen"
        BY <1>15 DEF InStep
  <2>2. stage' = "ReadData" /\ wanted' = n /\ buf' = <<n>>
        BY <1>0, <1>11, <1>5, <1>7, <1>15, <2>1 DEF PushByte
  <2>3. B[1] = n
        BY <1>0, <1>11, <1>5, <1>6, <1>15
  <2>4. SubSeq(B, 1, 1) = <<n>>
    <3>1. 1 \in 1 .. Len(B) /\ B[1] \in Symbols
          BY <1>0, <1>11, <1>4, ElementOfSeq
    <3>2. SubSeq(B, 1, 1) = <<B[1]>> \o SubSeq(B, 2, 1)
          BY <1>4, <3>1, SubSeqRecursiveFirst
    <3>3. SubSeq(B, 2, 1) = <<>>
          BY SubSeqEmpty
    <3>4. <<B[1]>> \in Seq(Symbols)
          BY <3>1
    <3> QED BY <2>3, <3>2, <3>3, <3>4, ConcatEmptySeq
  <2>5. i - 1 = 1 /\ SubSeq(B, 1, i - 1) = <<n>>
        BY <1>15, <2>4
  <2>6. i + 1 # 1 /\ i + 1 # 2 /\ i + 1 # n + 3 /\ i + 1 # n + 4
        BY <1>0, <1>11, <1>15
  <2> QED BY <2>2, <2>5, <2>6
<1>16. CASE i \in 3 .. n + 2
  <2>1. stage = "ReadData" /\ wanted = n /\ buf = SubSeq(B, 1, i - 2)
        BY <1>16 DEF InStep, B, n
  <2>2. /\ buf' = Append(buf, b) /\ wanted' = n
        /\ stage' = IF Len(buf') = 1 + n THEN "CheckCrc" ELSE "ReadData"
        BY <1>7, <2>1 DEF PushByte
  <2>3. i - 1 \in 1 .. Len(B) /\ i - 2 \in 1 .. Len(B) /\ i - 1 \in 1 .. n + 1
        BY <1>0, <1>11, <1>4, <1>16
  <2>4. B[i - 1] \in Symbols /\ \A j \in 1 .. i - 1 : B[j] \in Symbols
        BY <1>4, <2>3, ElementOfSeq
  <2>5. buf \in Seq(Symbols)
        BY <2>1, <2>3, <2>4, SubSeqProperties
  <2>6. SubSeq(B, 1, i - 1) = SubSeq(B, 1, (i - 1) - 1) \o <<B[i - 1]>>
        BY <1>4, <2>3, SubSeqRecursiveSecond
  <2>7. b = B[i - 1] /\ (i - 1) - 1 = i - 2
        BY <1>6, <1>16
  <2>8. buf' = SubSeq(B, 1, i - 1)
        BY <2>1, <2>2, <2>4, <2>5, <2>6, <2>7, AppendIsConcat
  <2>9. Len(buf') = i - 1
        BY <2>3, <2>4, <2>8, SubSeqProperties
  <2>10. CASE i = n + 2
    <3>1. stage' = "CheckCrc"
          BY <1>0, <1>11, <2>2, <2>9, <2>10
    <3>2. buf' = B
          BY <1>4, <2>8, <2>10, SubSeqFull, <1>0
    <3> QED BY <1>0, <1>11, <2>10, <3>1, <3>2
  <2>11. CASE i # n + 2
    <3>1. stage' = "ReadData"
          BY <1>0, <1>11, <1>16, <2>2, <2>9, <2>11
    <3> QED BY <1>0, <1>11, <1>16, <2>2, <2>8, <2>11, <3>1
  <2> QED BY <2>10, <2>11
<1>17. CASE i = n + 3
  <2>1. stage = "CheckCrc" /\ buf = B
        BY <1>17 DEF InStep, B, n
  <2>2. stage' = "WaitM0" /\ event' = frame
        BY <1>4, <1>5, <1>7, <1>17, <2>1 DEF PushByte
  <2> QED BY <1>0, <1>11, <1>17, <2>2
<1> QED BY <1>0, <1>13, <1>14, <1>15, <1>16, <1>17 DEF n

LEMMA UartInvInit == UartInit => UartInv
<1> SUFFICES ASSUME UartInit PROVE UartInv
    OBVIOUS
<1>1. stage = "WaitM0" /\ wire = <<>> /\ clean = FALSE /\ quiet = LongEnough
      BY DEF UartInit
<1>2. quiet \in 0 .. LongEnough
      BY <1>1, UartAssumption DEF LongEnough
<1> QED BY <1>1, <1>2 DEF UartInv, Behind, Stages

\* While nothing is on the wire, the parser waits for a frame, or noise is not long past.
LEMMA IdleParser ==
  ASSUME UartInv, wire = <<>>
  PROVE  stage = "WaitM0" \/ quiet < LongEnough
<1>1. Remaining \in Int /\ Remaining >= 1
      BY RemainingBound DEF UartInv, Remaining, BufOK
<1>2. LongEnough \in Nat /\ quiet \in 0 .. LongEnough
      BY UartAssumption DEF UartInv, LongEnough
<1>3. CASE Behind
  <2>1. stage # "WaitM0" => Remaining + quiet <= LongEnough
        BY <1>3 DEF Behind, LetsGo
  <2> QED BY <1>1, <1>2, <2>1
<1>4. CASE frame \in Data /\ \E i \in Nat : At(i)
  <2>1. PICK i \in Nat : At(i)
        BY <1>4
  <2>2. i = Len(frame) + 4
        BY <1>4, <2>1, StillToCome DEF At
  <2>3. InStep(i) => stage = "WaitM0"
        BY <2>2 DEF InStep
  <2> QED BY <1>3, <2>1, <2>3 DEF At
<1> QED BY <1>3, <1>4 DEF UartInv

\* And waits for one if it ought to be in step with what comes next.
LEMMA SettledWaits ==
  ASSUME UartInv, wire = <<>>, Settled
  PROVE  stage = "WaitM0"
<1>1. CASE quiet = LongEnough
  <2>1. LongEnough \in Nat
        BY UartAssumption DEF LongEnough
  <2> QED BY <1>1, <2>1, IdleParser
<1>2. CASE clean /\ (Written(frame) => Accepted(frame))
  <2>1. CASE frame \in Data /\ Written(frame) /\ \E i \in Nat : At(i)
    <3>1. PICK i \in Nat : At(i)
          BY <2>1
    <3>2. i = Len(frame) + 4
          BY <2>1, <3>1, StillToCome DEF At
    <3>3. ~Behind
          BY <1>2, <2>1 DEF Behind
    <3> QED BY <3>1, <3>2, <3>3 DEF At, InStep
  <2>2. CASE clean => ~Written(frame) /\ stage = "WaitM0"
        BY <1>2, <2>2
  <2> QED BY <2>1, <2>2 DEF UartInv
<1> QED BY <1>1, <1>2 DEF Settled

LEMMA FrameWritten ==
  ASSUME UartInv, NEW d \in Data, WriteFrame(d)
  PROVE  UartInv'
<1>1. Len(d) \in Nat /\ FrameOf(d) \in Seq(Symbols) /\ Len(FrameOf(d)) = Len(d) + 4
      BY FrameParts
<1>2. wire = <<>> /\ wire' = IF Written(d) THEN FrameOf(d) ELSE <<>>
      BY DEF WriteFrame
<1>3. /\ frame' = d /\ clean' = Settled /\ quiet' = quiet
      /\ stage' = stage /\ wanted' = wanted /\ buf' = buf
      BY DEF WriteFrame, parser
<1>4. /\ stage \in Stages /\ quiet \in 0 .. LongEnough
      /\ stage = "ReadData" => BufOK
      BY DEF UartInv
<1>5. BufOK' <=> BufOK
      BY <1>3 DEF BufOK, Gathering, LengthOK
<1>6. Remaining' = Remaining
      BY <1>3 DEF Remaining, RemainingOf
<1>7. stage = "WaitM0" \/ (~clean' /\ Remaining' + quiet' <= LongEnough)
  <2> SUFFICES ASSUME stage # "WaitM0" PROVE ~clean' /\ Remaining' + quiet' <= LongEnough
      OBVIOUS
  <2>1. ~clean'
        BY <1>2, <1>3, SettledWaits
  <2>2. Behind
    <3>1. CASE frame \in Data /\ \E i \in Nat : At(i)
      <4>1. PICK i \in Nat : At(i)
            BY <3>1
      <4>2. i = Len(frame) + 4
            BY <1>2, <3>1, <4>1, StillToCome DEF At
      <4>3. ~InStep(i)
            BY <4>2 DEF InStep
      <4> QED BY <4>1, <4>3 DEF At
    <3> QED BY <3>1 DEF UartInv
  <2>3. Remaining + quiet <= LongEnough
        BY <1>2, <2>2 DEF Behind, LetsGo
  <2> QED BY <1>3, <1>6, <2>1, <2>3
<1>8. clean' \in BOOLEAN
      BY <1>3 DEF Settled, UartInv
<1>9. CASE Written(d)
  <2>1. wire' = SubSeq(FrameOf(frame'), 0 + 1, Len(frame') + 4)
        BY <1>1, <1>2, <1>3, <1>9, SubSeqFull
  <2>2. 0 \in 0 .. Len(frame') + 4 /\ Len(frame') \in Nat
        BY <1>1, <1>3
  <2>3. InStep(0)' \/ Behind'
    <3>1. CASE stage = "WaitM0"
          BY <1>3, <2>2, <3>1 DEF InStep
    <3>2. CASE ~clean' /\ Remaining' + quiet' <= LongEnough
          BY <3>2 DEF Behind
    <3> QED BY <1>7, <3>1, <3>2
  <2>4. FrameOf(frame)' = FrameOf(frame') /\ Len(frame)' = Len(frame')
        BY DEF FrameOf
  <2>5. At(0)'
        BY <2>1, <2>2, <2>3, <2>4 DEF At
  <2>6. Written(frame)'
        BY <1>3, <1>9 DEF Written
  <2> QED BY <1>3, <1>4, <1>5, <1>8, <2>5, <2>6 DEF UartInv
<1>10. CASE ~Written(d)
  <2>1. ~Written(frame)' /\ ~Accepted(frame)'
        BY <1>3, <1>10 DEF Accepted, Written
  <2>2. Behind'
        BY <1>3, <1>7, <2>1 DEF Behind
  <2>3. wire' = <<>> /\ (clean' => stage' = "WaitM0")
        BY <1>2, <1>3, <1>7, <1>10
  <2> QED BY <1>3, <1>4, <1>5, <1>8, <2>1, <2>2, <2>3 DEF UartInv
<1> QED BY <1>9, <1>10

\* A byte that is taken, or lost, and is not one of noise later.
LEMMA ByteGone ==
  ASSUME UartInv, wire # <<>>, wire' = Tail(wire), frame' = frame, Written(frame),
         stage' \in Stages, stage' = "ReadData" => BufOK',
         quiet' \in 0 .. LongEnough, clean' \in BOOLEAN,
         NEW i \in Nat, At(i), frame \in Data,
         InStep(i + 1)' \/ Behind'
  PROVE  UartInv'
<1>1. i \in 0 .. Len(frame) + 4 /\ wire = SubSeq(FrameOf(frame), i + 1, Len(frame) + 4)
      BY DEF At
<1>2. i + 1 \in 0 .. Len(frame) + 4 /\ wire' = SubSeq(FrameOf(frame), i + 2, Len(frame) + 4)
      BY <1>1, StillToCome
<1>3. (i + 1) + 1 = i + 2
      BY <1>1
<1>4. FrameOf(frame)' = FrameOf(frame) /\ Len(frame)' = Len(frame)
      BY DEF FrameOf
<1>5. At(i + 1)'
      BY <1>2, <1>3, <1>4 DEF At
<1>6. Written(frame)'
      BY DEF Written
<1> QED BY <1>5, <1>6 DEF UartInv

LEMMA UartInvStep == UartInv /\ [UartNext]_uartVars => UartInv'
<1> SUFFICES ASSUME UartInv, [UartNext]_uartVars PROVE UartInv'
    OBVIOUS
<1>1. /\ stage \in Stages /\ quiet \in 0 .. LongEnough /\ clean \in BOOLEAN
      /\ stage = "ReadData" => BufOK
      BY DEF UartInv
<1>2. LongEnough \in Nat /\ Bytes \subseteq Symbols
  <2>1. LongEnough \in Nat
        BY UartAssumption DEF LongEnough
  <2>2. Bytes \subseteq Nat
        BY UartAssumption
  <2> QED BY <2>1, <2>2 DEF Symbols
<1>3. wire # <<>> => frame \in Data /\ Written(frame) /\ \E i \in Nat : At(i)
      BY DEF UartInv
<1>4. ASSUME NEW d \in Data, WriteFrame(d) PROVE UartInv'
      BY <1>4, FrameWritten
<1>5. CASE Transfer
  <2>1. PICK i \in Nat : At(i)
        BY <1>3, <1>5 DEF Transfer
  <2>2. /\ wire # <<>> /\ wire' = Tail(wire) /\ frame' = frame /\ clean' = clean
        /\ PushByte(Head(wire)) /\ frame \in Data /\ Written(frame)
        /\ quiet' = IF Misleads THEN 0 ELSE IF quiet < LongEnough THEN quiet + 1 ELSE quiet
        BY <1>3, <1>5 DEF Transfer
  <2>3. i \in 0 .. Len(frame) + 4 /\ wire = SubSeq(FrameOf(frame), i + 1, Len(frame) + 4)
        BY <2>1 DEF At
  <2>4. /\ Head(wire) = FrameOf(frame)[i + 1] /\ Head(wire) \in Symbols
        /\ i + 1 \in 0 .. Len(frame) + 4
        BY <2>2, <2>3, StillToCome
  <2>5. /\ stage' \in Stages /\ (stage' = "ReadData" => BufOK')
        /\ stage = "WaitM0" /\ Head(wire) # M0 => stage' = "WaitM0"
        /\ stage # "WaitM0" /\ stage' # "WaitM0" => Remaining' <= Remaining - 1
    <3> DEFINE b == Head(wire)
    <3>1. b \in Symbols /\ PushByte(b)
          BY <2>2, <2>4
    <3> HIDE DEF b
    <3>2. /\ stage' \in Stages /\ (stage' = "ReadData" => BufOK')
          /\ stage = "WaitM0" /\ b # M0 => stage' = "WaitM0"
          /\ stage # "WaitM0" /\ stage' # "WaitM0" => Remaining' <= Remaining - 1
          BY <1>1, <3>1, PushedByte
    <3> QED BY <3>2 DEF b
  <2>6. quiet' \in 0 .. LongEnough
        BY <1>1, <1>2, <2>2
  <2>7. Accepted(frame)' = Accepted(frame)
        BY <2>2 DEF Accepted, Written, LengthOK
  <2>8. stage' # "WaitM0" => Remaining' \in Int /\ Remaining' <= LongEnough
        BY <2>5, RemainingBound DEF Remaining, BufOK
  <2>9. InStep(i + 1)' \/ Behind'
    <3>1. Len(frame) \in Nat
          BY <2>2, FrameParts
    <3>2. i \in 0 .. Len(frame) + 3
          BY <2>3, <2>4, <3>1
    <3>3. CASE InStep(i)
      <4>1. PushByte(FrameOf(frame)[i + 1])
            BY <2>2, <2>4
      <4>2. InStep(i + 1)' \/ (~Accepted(frame) /\ stage' = "WaitM0")
            BY <2>2, <3>2, <3>3, <4>1, StaysInStep
      <4> QED BY <2>7, <4>2 DEF Behind
    <3>4. CASE ~InStep(i)
      <4>1. Behind
            BY <2>1, <3>4 DEF At
      <4>2. clean' => ~Accepted(frame)'
            BY <2>2, <2>7, <4>1 DEF Behind
      <4>3. SUFFICES ASSUME stage' # "WaitM0"
                     PROVE  Remaining' + quiet' <= LongEnough \/ LetsGo'
            BY <4>2 DEF Behind
      <4>4. CASE Misleads
        <5>1. quiet' = 0
              BY <2>2, <4>4
        <5> QED BY <2>8, <4>3, <5>1
      <4>5. CASE ~Misleads /\ stage = "WaitM0"
        <5>1. wire # FrameOf(frame)
          <6>1. i # 0
                BY <3>1, <3>4, <4>5 DEF InStep
          <6> QED BY <2>2, <2>3, <6>1, StillToCome
        <5>2. Head(wire) = M0
              BY <2>5, <4>3, <4>5
        <5>3. Tail(wire) # <<>> /\ Head(Tail(wire)) # M1
              BY <4>5, <5>1, <5>2 DEF Misleads
        <5>4. stage' = "WaitM1"
              BY <2>2, <4>5, <5>2 DEF PushByte
        <5> QED BY <2>2, <5>3, <5>4 DEF LetsGo
      <4>6. CASE ~Misleads /\ stage # "WaitM0"
        <5>1. ~LetsGo
          <6> SUFFICES ASSUME LetsGo PROVE FALSE
              OBVIOUS
          <6> QED BY <2>2, <4>3 DEF LetsGo, PushByte
        <5>2. Remaining + quiet <= LongEnough
              BY <4>1, <4>6, <5>1 DEF Behind
        <5>3. Remaining \in Int /\ Remaining >= 1
              BY <1>1, RemainingBound DEF Remaining, BufOK
        <5>4. quiet' = quiet + 1
              BY <1>1, <1>2, <2>2, <4>6, <5>2, <5>3
        <5>5. Remaining' \in Int /\ Remaining' <= Remaining - 1
              BY <2>5, <2>8, <4>3, <4>6
        <5>6. quiet \in Int /\ LongEnough \in Int
              BY <1>1, <1>2
        <5>7. \A r, s, q, l \in Int : r + q <= l /\ s <= r - 1 => s + (q + 1) <= l
              OBVIOUS
        <5> QED BY <5>2, <5>3, <5>4, <5>5, <5>6, <5>7
      <4> QED BY <4>4, <4>5, <4>6
    <3> QED BY <3>3, <3>4
  <2> QED BY <1>1, <2>1, <2>2, <2>5, <2>6, <2>9, ByteGone
<1>6. CASE LoseByte
  <2>1. PICK i \in Nat : At(i)
        BY <1>3, <1>6 DEF LoseByte
  <2>2. /\ wire # <<>> /\ wire' = Tail(wire) /\ frame' = frame /\ clean' = FALSE /\ quiet' = 0
        /\ stage' = stage /\ wanted' = wanted /\ buf' = buf /\ frame \in Data /\ Written(frame)
        BY <1>3, <1>6 DEF LoseByte, Disturbed, parser
  <2>3. BufOK' <=> BufOK
        BY <2>2 DEF BufOK, Gathering, LengthOK
  <2>4. Remaining' = Remaining /\ Remaining \in Int /\ Remaining <= LongEnough
        BY <1>1, <2>2, RemainingBound DEF Remaining, BufOK
  <2>5. Remaining' + quiet' <= LongEnough
        BY <2>2, <2>4
  <2>6. Behind'
        BY <2>2, <2>5 DEF Behind
  <2>7. quiet' \in 0 .. LongEnough
        BY <1>2, <2>2
  <2> QED BY <1>1, <2>1, <2>2, <2>3, <2>6, <2>7, ByteGone
<1>7. ASSUME NEW b \in Bytes, ChangeByte(b) PROVE UartInv'
  <2>1. PICK i \in Nat : At(i)
        BY <1>3, <1>7 DEF ChangeByte
  <2>2. /\ wire # <<>> /\ wire' = Tail(wire) /\ frame' = frame /\ clean' = FALSE /\ quiet' = 0
        /\ PushByte(b) /\ b \in Symbols
        /\ frame \in Data /\ Written(frame)
        BY <1>2, <1>3, <1>7 DEF ChangeByte, Disturbed
  <2>3. stage' \in Stages /\ (stage' = "ReadData" => BufOK')
        BY <1>1, <2>2, PushedByte
  <2>4. Remaining' \in Int /\ Remaining' <= LongEnough
        BY <2>3, RemainingBound DEF Remaining, BufOK
  <2>5. Remaining' + quiet' <= LongEnough
        BY <2>2, <2>4
  <2>6. Behind'
        BY <2>2, <2>5 DEF Behind
  <2>7. quiet' \in 0 .. LongEnough
        BY <1>2, <2>2
  <2> QED BY <2>1, <2>2, <2>3, <2>6, <2>7, ByteGone
<1>8. CASE UNCHANGED uartVars
  <2>1. /\ wire' = wire /\ frame' = frame /\ clean' = clean /\ quiet' = quiet /\ event' = event
        /\ stage' = stage /\ wanted' = wanted /\ buf' = buf
        BY <1>8 DEF uartVars, parser
  <2>2. BufOK' <=> BufOK
        BY <2>1 DEF BufOK, Gathering, LengthOK
  <2>3. Behind' <=> Behind
        BY <2>1 DEF Behind, LetsGo, Remaining, RemainingOf, Accepted, Written, LengthOK
  <2>4. ASSUME NEW i \in Nat PROVE At(i)' <=> At(i)
        BY <2>1, <2>3 DEF At, InStep, Body, FrameOf, Accepted, Written, LengthOK
  <2> QED BY <1>1, <2>1, <2>2, <2>3, <2>4 DEF UartInv
<1> QED BY <1>4, <1>5, <1>6, <1>7, <1>8 DEF UartNext

(***************************************************************************)
(* For any frames, the marks among their bytes, of any length, any number  *)
(* of checks and any noise, however much of it: a frame of a length the    *)
(* parser accepts that arrives whole is the one it hands on, if LongEnough *)
(* bytes before it were free of noise and of what reads as the start of a  *)
(* frame, or if the frame before it was such a one.                        *)
(***************************************************************************)
THEOREM FramesArrive == UartSpec => []CleanFramesArrive
<1>1. UartInv => CleanFramesArrive
  <2> SUFFICES ASSUME UartInv, clean, wire = <<>>, Accepted(frame) PROVE event = frame
      BY DEF CleanFramesArrive
  <2>1. ~Behind /\ Written(frame)
        BY DEF Behind, Accepted
  <2>2. frame \in Data /\ \E i \in Nat : At(i)
        BY <2>1 DEF UartInv
  <2>3. PICK i \in Nat : At(i)
        BY <2>2
  <2>4. i = Len(frame) + 4 /\ InStep(i)
        BY <2>1, <2>2, <2>3, StillToCome DEF At
  <2> QED BY <2>4 DEF InStep
<1>2. UartInv /\ [UartNext]_uartVars => UartInv'
      BY UartInvStep
<1> QED BY <1>1, <1>2, UartInvInit, PTL DEF UartSpec

=============================================================================
