-------------------------- MODULE RainGaugeProofs ---------------------------
(***************************************************************************)
(* Theorems about RainGauge, for a gauge whose counter wraps where the     *)
(* code assumes it (after 4096, dbaccess.cc:283), whatever the amounts of  *)
(* rain, the bound on them and the number of interruptions.                *)
(***************************************************************************)
EXTENDS RainGauge, TLAPS

USE GaugeAssumption DEF GaugeAssumption

CodeWraps == GaugeMod = 4096 + 1

(* A reading is in the range of the counter. *)
LEMMA ReadingRange ==
  ASSUME CodeWraps, NEW p \in Nat
  PROVE  RainGaugeAt(p) \in 0 .. GaugeMod - 1
BY DEF CodeWraps, RainGaugeAt

(* Two readings less than a turn apart tell how far the gauge has gone.    *)
LEMMA DifferenceIsRain ==
  ASSUME CodeWraps, NEW p \in Nat, NEW q \in Nat, p <= q, q - p < GaugeMod,
         lastRain = RainGaugeAt(p)
  PROVE  RainGaugeDiff(RainGaugeAt(q)) = q - p
<1> DEFINE r == p % 4097  s == q % 4097
<1>1. r \in 0 .. 4096 /\ s \in 0 .. 4096
  OBVIOUS
<1>2. q - p < 4097
  BY DEF CodeWraps
<1>3. s - r = q - p \/ s - r = q - p - 4097
  BY <1>2, SMTT(60)
<1>4. lastRain = r /\ RainGaugeAt(q) = s
  BY DEF CodeWraps, RainGaugeAt
<1> HIDE DEF r, s
<1> QED
  BY <1>1, <1>2, <1>3, <1>4 DEF RainGaugeDiff, None

(* Without a kept reading the gauge has not gone anywhere. *)
LEMMA FirstReading ==
  ASSUME NEW g \in Nat, lastRain = None
  PROVE  RainGaugeDiff(g) = 0
BY DEF RainGaugeDiff

RainInv == TypeOK /\ RainLedger

LEMMA RainInit == Init => RainInv
BY DEF Init, RainInv, TypeOK, RainLedger, None

LEMMA RainStep ==
  ASSUME CodeWraps, RainInv, [Next]_vars
  PROVE  RainInv'
<1> USE DEF RainInv
<1>0. reading \in Nat /\ fallen \in Nat
  BY DEF TypeOK
<1>1. CASE Fall
  <2> PICK n \in Falls :
        /\ mark # None => fallen + n - mark < GaugeMod
        /\ pc # "read" => fallen + n - reading < GaugeMod
        /\ fallen' = fallen + n
        /\ UNCHANGED <<reading, lastRain, rainValue, tips, pc, mark, origin, rowAt, since,
                       repeated, faults>>
    BY <1>1 DEF Fall
  <2>1. n \in Nat
    OBVIOUS
  <2>2. TypeOK'
    BY <2>1 DEF TypeOK
  <2>3. RainLedger'
    BY <2>1 DEF TypeOK, RainLedger, RainGaugeAt, None
  <2> QED
    BY <2>2, <2>3
<1>2. CASE Read
  <2>1. TypeOK'
    BY <1>2 DEF Read, TypeOK
  <2>2. RainLedger'
    BY <1>2 DEF Read, TypeOK, RainLedger, RainGaugeAt, None
  <2> QED
    BY <2>1, <2>2
<1>3. CASE InsertDataset
  <2>1. CASE mark = None
    <3>1. lastRain = None /\ RainGaugeAt(reading) \in Nat
      BY <1>0, <2>1, ReadingRange DEF RainLedger
    <3>2. rainValue' = 0
      BY <1>3, <3>1, FirstReading DEF InsertDataset
    <3>3. TypeOK'
      BY <1>0, <1>3, <3>2 DEF InsertDataset, TypeOK, RainLedger, None
    <3>4. RainLedger'
      BY <1>0, <1>3, <2>1, <3>2 DEF InsertDataset, TypeOK, RainLedger, None
    <3> QED
      BY <3>3, <3>4
  <2>2. CASE mark # None
    <3>1. /\ mark \in Nat /\ mark <= reading /\ reading - mark < GaugeMod
          /\ lastRain = RainGaugeAt(mark)
      BY <1>3, <2>2 DEF InsertDataset, TypeOK, RainLedger, CodeWraps, None
    <3>2. rainValue' = reading - mark
      BY <1>0, <1>3, <3>1, DifferenceIsRain DEF InsertDataset
    <3>3. TypeOK'
      BY <1>0, <1>3, <3>1, <3>2 DEF InsertDataset, TypeOK, RainLedger, None
    <3>4. RainLedger'
      BY <1>0, <1>3, <2>2, <3>1, <3>2 DEF InsertDataset, TypeOK, RainLedger, RainGaugeAt, None
    <3> QED
      BY <3>3, <3>4
  <2> QED
    BY <2>1, <2>2
<1>4. CASE WriteLastRain
  <2>1. RainGaugeAt(reading) \in 0 .. GaugeMod - 1
    BY <1>0, ReadingRange
  <2>2. TypeOK'
    BY <1>4, <2>1 DEF WriteLastRain, TypeOK
  <2>3. RainLedger'
    BY <1>4, <2>1 DEF WriteLastRain, TypeOK, RainLedger, None
  <2> QED
    BY <2>2, <2>3
<1>5. CASE Interrupt
  <2>1. TypeOK'
    BY <1>5 DEF Interrupt, TypeOK
  <2>2. RainLedger'
    BY <1>5 DEF Interrupt, TypeOK, RainLedger, RainGaugeAt, None
  <2> QED
    BY <2>1, <2>2
<1>6. CASE UNCHANGED vars
  BY <1>6 DEF vars, TypeOK, RainLedger, RainGaugeAt
<1> QED
  BY <1>1, <1>2, <1>3, <1>4, <1>5, <1>6 DEF Next

(* Interruptions make rain appear twice but never make it disappear        *)
(* (dbaccess.cc:274-287, 344-345).                                         *)
THEOREM RainNeverLostHolds ==
  ASSUME CodeWraps
  PROVE  Spec => []RainNeverLost
<1>1. RainInv => RainNeverLost
  BY DEF RainInv, TypeOK, RainLedger, RainNeverLost, None
<1> QED
  BY RainInit, RainStep, <1>1, PTL DEF Spec
(* Without an interruption every wrap of the counter is put right: the     *)
(* rows add up to the rain.                                                *)
THEOREM RainExactHolds ==
  ASSUME CodeWraps
  PROVE  Spec => []RainExact
<1>1. RainInv => RainExact
  BY DEF RainInv, TypeOK, RainLedger, RainExact, None
<1> QED
  BY RainInit, RainStep, <1>1, PTL DEF Spec

(* The reading kept in misc is one the counter can have                    *)
(* (dbaccess.cc:252-256), for every sequence of falls.                     *)
THEOREM TypeCorrect ==
  ASSUME CodeWraps
  PROVE  Spec => []TypeOK
<1>1. RainInv => TypeOK
  BY DEF RainInv
<1> QED
  BY RainInit, RainStep, <1>1, PTL DEF Spec
=============================================================================
