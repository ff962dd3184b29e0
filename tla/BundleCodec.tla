----------------------------- MODULE BundleCodec ----------------------------
(***************************************************************************)
(* The node's PacketHandler packs readings into a bundle: the first whole, *)
(* each further one as differences to the first, in units of a field and   *)
(* clamped, with its time as ticks since the one before.  decode_bundle of *)
(* the edge unpacks it.  A reading is its time, the sensors that were valid*)
(* and a whole number per field; the conversion from and to floating point *)
(* is left out, and so are the checksum and the layout of the bytes.       *)
(*                                                                         *)
(* Time is counted from the bundle's first reading.                        *)
(***************************************************************************)
EXTENDS Integers, Sequences

CONSTANTS Fields,      \* the values of a reading
          SensorOf,    \* the sensor a field comes from
          Absolute,    \* fields sent as they are: the wind
          Unit,        \* of a field's differences: 10, 20 or 1
          Least, Most, \* of a field's difference in units: int8_t, int16_t
          Tick,        \* 250 ms
          MaxTicks,    \* 255
          MaxDeltas,   \* maxDeltas
          Values,      \* bound: what a field may be
          Gaps         \* bound: times between readings

FieldSensors == {SensorOf[f] : f \in Fields}

ASSUME CodecAssumption ==
  /\ Absolute \subseteq Fields
  /\ Unit \in [Fields -> Nat \ {0}]
  /\ Least \in [Fields -> Int] /\ Most \in [Fields -> Int]
  /\ \A f \in Fields : Least[f] <= 0 /\ 0 <= Most[f] /\ Values[f] \subseteq Int
  /\ Tick \in Nat \ {0} /\ MaxTicks \in Nat /\ MaxDeltas \in Nat \ {0}
  /\ Gaps \subseteq Nat

VARIABLES ref,       \* _ref; its time is 0
          prev,      \* _prevSample
          hasRef,    \* _hasRef
          deltas,    \* _deltas[0 .. _deltaCount - 1]
          lastGood,  \* _lastGood..., the last valid value of a field
          ready,     \* _bundleReady
          bundle,    \* _bundleBuf, while it holds a bundle nobody has taken
          encoding,  \* _bundleEncodingEnabled
          samples    \* history: the readings in the bundle, or being collected for it

codecVars == <<ref, prev, hasRef, deltas, lastGood, ready, bundle, encoding, samples>>

Readings == [time : Nat, valid : SUBSET FieldSensors, val : [Fields -> Int]]

\* DeltaPayload; what is sent as it is may be any value of the field.
Deltas == {d \in [dt : 0 .. MaxTicks, dtClamped : BOOLEAN, val : [Fields -> Int],
                  clamped : SUBSET Fields] :
             \A f \in Fields \ Absolute : d.val[f] \in Least[f] .. Most[f]}

Zeros == [f \in Fields |-> 0]
Blank == [time |-> 0, valid |-> {}, val |-> Zeros]
NoBundle == [ref |-> Blank, deltas |-> <<>>]

-----------------------------------------------------------------------------
\* Slip: a negative number is rounded like a positive one, by a division towards zero.
RoundDivideOneWay(v, u) ==
  LET w == v + (u \div 2) IN IF w >= 0 THEN w \div u ELSE -((-w) \div u)

\* To the nearest, halves away from zero.
RoundDivide(v, u) ==
  IF v >= 0 THEN (v + (u \div 2)) \div u ELSE -((-v + (u \div 2)) \div u)

\* Slip: no upper bound.
ClampedBelow(n, least, most) == IF n < least THEN least ELSE n

Clamped(n, least, most) == IF n < least THEN least ELSE IF n > most THEN most ELSE n

\* gateInvalidSensors.
GoodValues(s)  == [f \in Fields |-> IF SensorOf[f] \in s.valid THEN s.val[f] ELSE lastGood[f]]
Gated(s) == [s EXCEPT !.val = GoodValues(s)]

InUnits(r, s, f) == RoundDivide(s.val[f] - r.val[f], Unit[f])
Ticks(p, s)      == (s.time - p.time + (Tick \div 2)) \div Tick

\* Slip: the time is counted from the first reading, as the values are.
DeltaFromRef(r, p, s) ==
  [dt        |-> Clamped(Ticks(r, s), 0, MaxTicks),
   dtClamped |-> Ticks(r, s) > MaxTicks,
   val       |-> [f \in Fields |-> IF f \in Absolute THEN s.val[f]
                                   ELSE Clamped(InUnits(r, s, f), Least[f], Most[f])],
   clamped   |-> {f \in Fields \ Absolute : InUnits(r, s, f) \notin Least[f] .. Most[f]}]

\* makeDelta.
DeltaOf(r, p, s) ==
  [dt        |-> Clamped(Ticks(p, s), 0, MaxTicks),
   dtClamped |-> Ticks(p, s) > MaxTicks,
   val       |-> [f \in Fields |-> IF f \in Absolute THEN s.val[f]
                                   ELSE Clamped(InUnits(r, s, f), Least[f], Most[f])],
   clamped   |-> {f \in Fields \ Absolute : InUnits(r, s, f) \notin Least[f] .. Most[f]}]

-----------------------------------------------------------------------------
\* What the edge makes of it: the values, their times, and None for a field whose sensor
\* the first reading has as invalid.

ShownValue(b, i, f) ==
  IF i = 1 THEN b.ref.val[f]
  ELSE IF f \in Absolute THEN b.deltas[i - 1].val[f]
  ELSE b.ref.val[f] + b.deltas[i - 1].val[f] * Unit[f]

ShownTime(b, i) ==
  LET at[k \in 0 .. Len(b.deltas)] ==
        IF k = 0 THEN b.ref.time ELSE at[k - 1] + b.deltas[k].dt * Tick
  IN  at[i - 1]

IsShown(b, f) == SensorOf[f] \in b.ref.valid

-----------------------------------------------------------------------------
EncodeAccumulatedBundle(ds) ==
  /\ bundle' = [ref |-> ref, deltas |-> ds]
  /\ ready' = TRUE /\ hasRef' = FALSE
  /\ deltas' = <<>>

PushFirst(s) ==
  /\ encoding /\ ~hasRef
  /\ lastGood' = GoodValues(s)
  /\ ref' = [Gated(s) EXCEPT !.time = 0] /\ prev' = ref' /\ hasRef' = TRUE
  /\ deltas' = <<>>
  /\ samples' = <<ref'>>
  /\ ready' = FALSE /\ bundle' = NoBundle
  /\ UNCHANGED encoding

PushNext(s) ==
  /\ encoding /\ hasRef
  /\ lastGood' = GoodValues(s)
  /\ prev' = Gated(s)
  /\ samples' = Append(samples, Gated(s))
  /\ UNCHANGED <<ref, encoding>>
  /\ LET ds == Append(deltas, DeltaOf(ref, prev, Gated(s)))
     IN  IF Len(ds) < MaxDeltas
         THEN deltas' = ds /\ ready' = FALSE /\ UNCHANGED <<hasRef, bundle>>
         ELSE EncodeAccumulatedBundle(ds)

FlushWindow ==
  /\ ~ready /\ encoding /\ hasRef
  /\ EncodeAccumulatedBundle(deltas)
  /\ UNCHANGED <<ref, prev, lastGood, encoding, samples>>

TakeBundle ==
  /\ ready /\ ready' = FALSE
  /\ bundle' = NoBundle /\ samples' = <<>>
  /\ UNCHANGED <<ref, prev, hasRef, deltas, lastGood, encoding>>

ResetBundleState ==
  /\ ref' = Blank /\ prev' = Blank /\ hasRef' = FALSE /\ deltas' = <<>>
  /\ ready' = FALSE /\ bundle' = NoBundle
  /\ samples' = <<>>

SetBundleEncodingEnabled(on) ==
  /\ on # encoding /\ encoding' = on
  /\ IF on THEN UNCHANGED <<ref, prev, hasRef, deltas, ready, bundle, samples>>
     ELSE ResetBundleState
  /\ UNCHANGED lastGood

\* reset(), for a new session.
ResetHandler ==
  /\ ResetBundleState
  /\ lastGood' = Zeros
  /\ UNCHANGED encoding

Snapshots == {s \in [time : {prev.time + g : g \in Gaps}, valid : SUBSET FieldSensors,
                     val : [Fields -> UNION {Values[f] : f \in Fields}]] :
                \A f \in Fields : s.val[f] \in Values[f]}

CodecInit ==
  /\ ref = Blank /\ prev = Blank /\ hasRef = FALSE /\ deltas = <<>>
  /\ lastGood = Zeros /\ ready = FALSE /\ bundle = NoBundle
  /\ encoding = TRUE /\ samples = <<>>

CodecNext ==
  \/ \E s \in Snapshots : PushFirst(s) \/ PushNext(s)
  \/ FlushWindow \/ TakeBundle \/ ResetHandler
  \/ \E on \in BOOLEAN : SetBundleEncodingEnabled(on)

CodecSpec == CodecInit /\ [][CodecNext]_codecVars

-----------------------------------------------------------------------------
Distance(a, b) == IF a < b THEN b - a ELSE a - b

(***************************************************************************)
(* Every value the edge shows is within half a unit of the one the node    *)
(* took, or its delta says that it was clamped; errors do not add up over  *)
(* a bundle, since each difference is to the first reading.                *)
(***************************************************************************)
ReadingsAreClose ==
  ready =>
    \A i \in 1 .. Len(samples), f \in Fields :
      \/ 2 * Distance(ShownValue(bundle, i, f), samples[i].val[f]) <= Unit[f]
      \/ i > 1 /\ f \in bundle.deltas[i - 1].clamped

(***************************************************************************)
(* Times are counted from reading to reading, so that theirs do: the time  *)
(* of the i-th is off by at most half a tick for each before it, unless    *)
(* one of them was clamped.                                                *)
(***************************************************************************)
TimesAreClose ==
  ready =>
    \A i \in 1 .. Len(samples) :
      \/ 2 * Distance(ShownTime(bundle, i), samples[i].time) <= (i - 1) * Tick
      \/ \E k \in 1 .. i - 1 : bundle.deltas[k].dtClamped

CodecTypeOK ==
  /\ ref \in Readings /\ prev \in Readings /\ lastGood \in [Fields -> Int]
  /\ hasRef \in BOOLEAN /\ ready \in BOOLEAN /\ encoding \in BOOLEAN
  /\ deltas \in Seq(Deltas) /\ samples \in Seq(Readings)
  /\ bundle \in [ref : Readings, deltas : Seq(Deltas)]
  /\ hasRef => Len(deltas) < MaxDeltas
  /\ Len(bundle.deltas) <= MaxDeltas

(***************************************************************************)
(* A field is shown exactly when its sensor was valid at that reading.     *)
(***************************************************************************)
ShownWhenValid ==
  ready => \A i \in 1 .. Len(samples), f \in Fields :
             IsShown(bundle, f) <=> SensorOf[f] \in samples[i].valid

=============================================================================
