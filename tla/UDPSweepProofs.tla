--------------------------- MODULE UDPSweepProofs ---------------------------
(***************************************************************************)
(* Proofs about UDPSweep for every ceiling, step budget, tolerance and     *)
(* number of datagram sizes.                                               *)
(***************************************************************************)
EXTENDS UDPSweep, TLAPS

\* The midpoint of a bracket lies in it, and below its upper end if the
\* bracket is not empty.
LEMMA Midpoint ==
    ASSUME NEW a \in Nat, NEW b \in Nat, a <= b
    PROVE  /\ (a + b) \div 2 \in Nat
           /\ a <= (a + b) \div 2 /\ (a + b) \div 2 <= b
           /\ a < b => (a + b) \div 2 < b
OBVIOUS

\* A configured ceiling is a positive number.
LEMMA CeilingIsPositive ==
    ASSUME maxRate \in MaxRates
    PROVE  maxRate \in Nat /\ maxRate > 0
BY RateAssumption

\* The rate of a probe lies in the bracket.  After the first probe it is below
\* a ceiling that was found lossy, since lo is below it.
LEMMA RateInBracket ==
    ASSUME BracketInvariant, CanProbe
    PROVE  /\ Rate \in 1..maxRate
           /\ lo <= Rate /\ Rate <= hi
           /\ step = 0 => Rate = maxRate
           /\ step > 0 => Rate < maxRate
<1>0. maxRate \in Nat /\ maxRate > 0
  BY CeilingIsPositive DEF BracketInvariant, TypeOK
<1>1. lo \in Nat /\ hi \in Nat /\ lo <= hi /\ hi <= maxRate
  BY <1>0 DEF BracketInvariant, TypeOK, Bracketed
<1>2. CASE step = 0
  BY <1>1, <1>2, <1>0 DEF BracketInvariant, Bracketed, CanProbe, Rate
<1>3. CASE step # 0
  <2>1. step > 0 /\ maxRate \in lossy
    BY <1>3, StepAssumption DEF BracketInvariant, TypeOK, CanProbe
  <2>2. lo < maxRate
    BY <2>1 DEF BracketInvariant, LimitingMeansCeiling, Bracketed
  <2>3. (lo + hi) \div 2 < maxRate
    <3>1. CASE lo < hi
      BY <1>1, <3>1, Midpoint, <1>0
    <3>2. CASE lo = hi
      BY <1>1, <2>2, <3>2, <1>0
    <3> QED BY <1>1, <3>1, <3>2
  <2> QED BY <1>1, <1>3, <2>3, Midpoint, <1>0 DEF CanProbe, Rate
<1> QED BY <1>2, <1>3

\* A verdict moves one end of the bracket to the rate that was probed.
LEMMA ProbeStep ==
    ASSUME BracketInvariant, ProbeIsInvalid \/ ProbeIsUsable \/ ProbeIsLossy
    PROVE  BracketInvariant'
<1>0. CanProbe
  BY DEF ProbeIsInvalid, ProbeIsUsable, ProbeIsLossy
<1>1. /\ Rate \in 1..maxRate /\ lo <= Rate /\ Rate <= hi
      /\ step = 0 => Rate = maxRate
      /\ step > 0 => Rate < maxRate
  BY <1>0, RateInBracket
<1>2. /\ step \in 0..MaxSteps /\ step + 1 \in 0..(MaxSteps + 1)
      /\ step + 1 # 0 /\ state = "probing"
  BY <1>0, StepAssumption DEF CanProbe, BracketInvariant, TypeOK
<1>3. step > 0 => maxRate \in lossy
  BY <1>0 DEF CanProbe, BracketInvariant
<1>m. maxRate \in Nat /\ maxRate > 0 /\ maxRate \in MaxRates
  BY CeilingIsPositive DEF BracketInvariant, TypeOK
<1>u. maxRate' = maxRate
  BY DEF ProbeIsInvalid, ProbeIsUsable, ProbeIsLossy
<1> HIDE DEF Rate
<1>4. CASE ProbeIsUsable
  <2>1. TypeOK'
    BY <1>1, <1>2, <1>4, <1>m, <1>u DEF ProbeIsUsable, BracketInvariant, TypeOK
  <2>2. Bracketed'
    BY <1>1, <1>2, <1>4, <1>m, <1>u
    DEF ProbeIsUsable, BracketInvariant, TypeOK, Bracketed
  <2>3. LimitingMeansCeiling'
    BY <1>1, <1>2, <1>4, <1>m, <1>u
    DEF ProbeIsUsable, BracketInvariant, TypeOK, Bracketed, LimitingMeansCeiling
  <2> QED BY <1>1, <1>2, <1>3, <1>4, <1>u, <2>1, <2>2, <2>3
          DEF ProbeIsUsable, BracketInvariant, TypeOK
<1>5. CASE ProbeIsInvalid \/ ProbeIsLossy
  <2>0. /\ hi' = Rate /\ lossy' = lossy \cup {Rate} /\ step' = step + 1
        /\ UNCHANGED <<lo, best, usable, sizes, limiting>>
        /\ state' \in {"probing", "swept"}
    BY <1>2, <1>5 DEF ProbeIsInvalid, ProbeIsLossy
  <2>1. TypeOK'
    BY <1>1, <1>2, <2>0, <1>m, <1>u DEF BracketInvariant, TypeOK
  <2>2. Bracketed'
    BY <1>1, <1>2, <2>0, <1>m, <1>u DEF BracketInvariant, TypeOK, Bracketed
  <2>3. LimitingMeansCeiling'
    BY <1>1, <1>2, <2>0, <1>m, <1>u
    DEF BracketInvariant, TypeOK, Bracketed, LimitingMeansCeiling
  <2>4. maxRate \in lossy'
    BY <1>1, <1>2, <1>3, <1>u, <2>0, StepAssumption
  <2> QED BY <1>2, <1>u, <2>0, <2>1, <2>2, <2>3, <2>4 DEF BracketInvariant
<1> QED BY <1>4, <1>5

\* Recording a size keeps LimitingResource exact, and the next sweep starts
\* from a fresh bracket.
LEMMA RecordSizeStep ==
    ASSUME BracketInvariant, RecordSize
    PROVE  BracketInvariant'
<1>m. maxRate \in Nat /\ maxRate > 0 /\ maxRate \in MaxRates
  BY CeilingIsPositive DEF BracketInvariant, TypeOK
<1>u. maxRate' = maxRate
  BY DEF RecordSize
<1>1. best \in 1..maxRate /\ (best >= maxRate <=> best = maxRate)
  BY <1>m DEF BracketInvariant, TypeOK, Bracketed, RecordSize
<1>2. /\ sizes' \in Seq(1..maxRate)
      /\ Len(sizes') = Len(sizes) + 1
      /\ \A i \in 1..Len(sizes) : sizes'[i] = sizes[i]
      /\ sizes'[Len(sizes) + 1] = best
  BY <1>1 DEF BracketInvariant, TypeOK, RecordSize
<1>3. Len(sizes) \in Nat /\ Len(sizes) < NumSizes /\ Len(sizes') <= NumSizes
  BY <1>2, SizeAssumption DEF BracketInvariant, TypeOK, RecordSize
<1>4. limiting' <=> \E i \in 1..Len(sizes') : sizes'[i] = maxRate
  <2>1. limiting' <=> (limiting \/ best = maxRate)
    BY <1>1 DEF RecordSize
  <2>2. limiting <=> \E i \in 1..Len(sizes) : sizes[i] = maxRate
    BY DEF BracketInvariant, LimitingMeansCeiling
  <2>3. (\E i \in 1..Len(sizes') : sizes'[i] = maxRate)
            <=> \/ \E i \in 1..Len(sizes) : sizes[i] = maxRate
                \/ best = maxRate
    BY <1>2, <1>3
  <2> QED BY <2>1, <2>2, <2>3
<1>5. CASE Len(sizes) + 1 = NumSizes
  <2>1. UNCHANGED <<lo, hi, step, best, usable, lossy>> /\ state' = "returned"
    BY <1>5 DEF RecordSize, sweep
  <2>2. TypeOK'
    BY <1>m, <1>u, <1>2, <1>3, <2>1 DEF RecordSize, BracketInvariant, TypeOK
  <2>3. Bracketed'
    BY <1>u, <2>1 DEF BracketInvariant, Bracketed
  <2>4. LimitingMeansCeiling'
    BY <1>u, <1>4, <2>1 DEF BracketInvariant, LimitingMeansCeiling
  <2> QED BY <1>u, <2>1, <2>2, <2>3, <2>4 DEF BracketInvariant
<1>6. CASE Len(sizes) + 1 # NumSizes
  <2>1. /\ lo' = 0 /\ hi' = maxRate /\ step' = 0 /\ best' = 0
        /\ usable' = {} /\ lossy' = {} /\ state' = "probing"
    BY <1>6 DEF RecordSize
  <2>2. limiting' \in BOOLEAN
    BY DEF RecordSize
  <2>3. TypeOK'
    BY <1>m, <1>u, <1>2, <1>3, <2>1, <2>2, StepAssumption DEF TypeOK
  <2>4. Bracketed'
    BY <1>m, <1>u, <2>1 DEF Bracketed
  <2>5. LimitingMeansCeiling'
    BY <1>u, <1>4, <2>1 DEF LimitingMeansCeiling
  <2>6. Len(sizes') < NumSizes
    BY <1>2, <1>3, <1>6, SizeAssumption
  <2> QED BY <2>1, <2>3, <2>4, <2>5, <2>6 DEF BracketInvariant
<1> QED BY <1>5, <1>6

\* The steps that only change the state of the search.
LEMMA OtherSteps ==
    ASSUME BracketInvariant, ProbeFails \/ StopSearch \/ NothingFound
           \/ UNCHANGED vars
    PROVE  BracketInvariant'
<1>1. UNCHANGED <<lo, hi, step, best, usable, lossy, sizes, limiting, maxRate>>
  BY DEF ProbeFails, StopSearch, NothingFound, sweep, vars
<1>2. \/ state' = state
      \/ state' = "failed"
      \/ state' = "swept" /\ state = "probing"
  BY DEF ProbeFails, StopSearch, NothingFound, vars
<1>3. TypeOK'
  BY <1>1, <1>2 DEF BracketInvariant, TypeOK
<1>4. Bracketed' /\ LimitingMeansCeiling'
  BY <1>1 DEF BracketInvariant, Bracketed, LimitingMeansCeiling
<1> QED BY <1>1, <1>2, <1>3, <1>4 DEF BracketInvariant

\* Half of a rate, times twice a factor.
LEMMA HalfTimesDouble ==
    ASSUME NEW h \in Nat, NEW k \in Nat
    PROVE  (h \div 2) * (2 * k) <= h * k
<1> DEFINE q == h \div 2
<1>1. q \in Nat /\ 2 * q <= h
  OBVIOUS
<1> HIDE DEF q
<1>2. PICK d \in Nat : h = 2 * q + d
  BY <1>1
<1>3. h * k = 2 * (q * k) + d * k /\ d * k \in Nat /\ q * k \in Nat
  BY <1>1, <1>2
<1>4. q * (2 * k) = 2 * (q * k)
  BY <1>1
<1> QED BY <1>3, <1>4 DEF q

\* A probe without a usable rate before it is the ceiling, or half of hi.
LEMMA ProbeHalves ==
    ASSUME SweepInvariant, ProbeIsInvalid \/ ProbeIsUsable \/ ProbeIsLossy
    PROVE  Halves'
<1>0. BracketInvariant /\ CanProbe
  BY DEF SweepInvariant, ProbeIsInvalid, ProbeIsUsable, ProbeIsLossy
<1>1. Rate \in 1..maxRate /\ (step = 0 => Rate = maxRate)
  BY <1>0, RateInBracket
<1>2. step \in 0..MaxSteps /\ step' = step + 1
  BY <1>0, StepAssumption
     DEF CanProbe, BracketInvariant, TypeOK, ProbeIsInvalid, ProbeIsUsable,
         ProbeIsLossy
<1>m. maxRate \in Nat /\ maxRate > 0 /\ maxRate' = maxRate
  BY <1>0, CeilingIsPositive
     DEF BracketInvariant, TypeOK, ProbeIsInvalid, ProbeIsUsable, ProbeIsLossy
<1> SUFFICES ASSUME usable' = {} PROVE Halves'
  BY DEF Halves
<1>3. usable = {} /\ lo = 0 /\ state' = "probing"
  /\ hi' = Rate /\ Rate \in lossy'
  <2>1. usable = {} /\ ~ProbeIsUsable
    BY DEF ProbeIsInvalid, ProbeIsUsable, ProbeIsLossy
  <2>2. lo = 0
    BY <1>0, <2>1 DEF BracketInvariant, Bracketed
  <2>3. ~Narrow(lo, Rate)
    BY <2>2 DEF Narrow
  <2> QED BY <1>0, <2>1, <2>2, <2>3
          DEF ProbeIsInvalid, ProbeIsLossy, CanProbe
<1>4. Rate * 2^step <= maxRate
  <2>1. CASE step = 0
    BY <1>1, <1>m, <2>1
  <2>2. CASE step > 0
    <3> DEFINE n == step - 1
    <3>1. n \in 0..MaxSteps /\ n + 1 = step
      BY <1>2, <2>2, StepAssumption
    <3>2. 2^n \in Nat /\ 2^step = 2 * 2^n
      BY <3>1, PowersOfTwo
    <3>3. hi \in Nat /\ hi * 2^n <= maxRate
      BY <1>0, <1>3, <1>m, <2>2
         DEF SweepInvariant, Halves, BracketInvariant, TypeOK
    <3>4. Rate = hi \div 2
      BY <1>3, <2>2, <3>3 DEF Rate
    <3> HIDE DEF n
    <3>5. Rate * (2 * 2^n) <= hi * 2^n
      BY <3>2, <3>3, <3>4, HalfTimesDouble
    <3>6. Rate * (2 * 2^n) \in Nat /\ hi * 2^n \in Nat
      BY <1>1, <1>m, <3>2, <3>3
    <3> QED BY <1>m, <3>2, <3>3, <3>5, <3>6
  <2> QED BY <1>2, <2>1, <2>2
<1>5. step' - 1 = step
  BY <1>2
<1> QED BY <1>m, <1>3, <1>4, <1>5 DEF Halves

\* A search that stops has spent its budget or has nothing left to try.
LEMMA StopHalves ==
    ASSUME SweepInvariant, StopSearch
    PROVE  Halves'
<1>0. BracketInvariant
  BY DEF SweepInvariant
<1>m. maxRate \in Nat /\ maxRate > 0
  BY <1>0, CeilingIsPositive DEF BracketInvariant, TypeOK
<1>1. UNCHANGED <<lo, hi, step, best, usable, lossy, maxRate>>
  BY DEF StopSearch, sweep
<1>2. state = "probing" /\ ~CanProbe /\ state' = "swept"
  BY DEF StopSearch
<1>3. /\ step \in 0..(MaxSteps + 1) /\ hi \in 0..maxRate
      /\ lossy \subseteq 1..maxRate
  BY <1>0 DEF BracketInvariant, TypeOK
<1>4. ASSUME usable = {} PROVE step = MaxSteps + 1 \/ (hi = 1 /\ step > 0)
  <2>1. CASE step = MaxSteps + 1
    BY <2>1
  <2>2. CASE step # MaxSteps + 1
    <3>1. step <= MaxSteps /\ ~(Rate > 0)
      BY <1>2, <1>3, <2>2, StepAssumption DEF CanProbe
    <3>2. step > 0
      BY <1>0, <1>m, <1>3, <3>1 DEF Rate, BracketInvariant, Bracketed
    <3>3. lo = 0 /\ hi \in lossy
      BY <1>0, <1>4, <3>2 DEF BracketInvariant, Bracketed, SweepInvariant, Halves
    <3>4. hi \div 2 <= 0 /\ hi > 0
      BY <1>m, <1>3, <3>1, <3>2, <3>3 DEF Rate
    <3> QED BY <1>m, <1>3, <3>2, <3>4
  <2> QED BY <2>1, <2>2
<1> QED BY <1>1, <1>2, <1>4 DEF SweepInvariant, Halves

\* The other steps end the search, or begin the next one.
LEMMA OtherStepsHalve ==
    ASSUME SweepInvariant,
           ProbeFails \/ NothingFound \/ RecordSize \/ UNCHANGED vars
    PROVE  Halves'
<1>1. CASE ProbeFails \/ NothingFound \/ UNCHANGED vars
  BY <1>1 DEF ProbeFails, NothingFound, vars, sweep, SweepInvariant, Halves
<1>2. CASE RecordSize
  <2>1. CASE Len(sizes) + 1 = NumSizes
    BY <1>2, <2>1 DEF RecordSize, sweep, Halves
  <2>2. CASE Len(sizes) + 1 # NumSizes
    BY <1>2, <2>2 DEF RecordSize, Halves
  <2> QED BY <2>1, <2>2
<1> QED BY <1>1, <1>2

\* The bracket separates usable from lossy rates in every reachable state, and
\* as long as it finds nothing usable the search halves it.
THEOREM SweepIsBracketed == Spec => []SweepInvariant
<1>0. Init => Halves
  BY DEF Init, Halves
<1>1. Init => BracketInvariant
  <2> SUFFICES ASSUME Init PROVE BracketInvariant
    OBVIOUS
  <2>m. maxRate \in MaxRates /\ maxRate \in Nat /\ maxRate > 0
    BY CeilingIsPositive DEF Init
  <2>1. Len(sizes) = 0 /\ sizes \in Seq(1..maxRate)
    BY DEF Init
  <2>2. TypeOK
    <3>1. /\ lo \in 0..maxRate /\ hi \in 0..maxRate /\ best \in 0..maxRate
          /\ step \in 0..(MaxSteps + 1) /\ Len(sizes) <= NumSizes
      BY <2>1, <2>m, StepAssumption, SizeAssumption DEF Init
    <3>2. usable \subseteq 1..maxRate /\ lossy \subseteq 1..maxRate
      BY DEF Init
    <3>3. state \in {"probing", "swept", "returned", "failed"}
      BY DEF Init
    <3>4. limiting \in BOOLEAN
      BY DEF Init
    <3> QED BY <2>m, <2>1, <3>1, <3>2, <3>3, <3>4 DEF TypeOK
  <2>3. Bracketed
    BY <2>m DEF Init, Bracketed
  <2>4. LimitingMeansCeiling
    BY <2>1 DEF Init, LimitingMeansCeiling
  <2> QED BY <2>1, <2>2, <2>3, <2>4, SizeAssumption DEF Init, BracketInvariant
<1>2. BracketInvariant /\ [Next]_vars => BracketInvariant'
  BY ProbeStep, RecordSizeStep, OtherSteps DEF Next
<1>3. SweepInvariant /\ [Next]_vars => Halves'
  BY ProbeHalves, StopHalves, OtherStepsHalve DEF Next
<1>4. SweepInvariant <=> BracketInvariant /\ Halves
  BY DEF SweepInvariant
<1> QED BY <1>0, <1>1, <1>2, <1>3, <1>4, PTL DEF Spec

\* The variables of the sweep keep their types.
THEOREM SweepIsTyped == Spec => []TypeOK
<1>1. SweepInvariant => TypeOK
  BY DEF SweepInvariant, BracketInvariant
<1> QED BY <1>1, SweepIsBracketed, PTL

\* runUDPSweep reports the highest rate judged usable, below every rate judged
\* lossy, for any verdicts.
THEOREM BestIsHighest == Spec => []BestIsHighestUsable
<1>1. SweepInvariant => BestIsHighestUsable
  BY CeilingIsPositive
  DEF SweepInvariant, BracketInvariant, TypeOK, Bracketed, BestIsHighestUsable
<1> QED BY <1>1, SweepIsBracketed, PTL

\* LimitingResource says "config-max-rate" exactly when a recorded size
\* sustained the configured ceiling.
THEOREM LimitingIsExact == Spec => []LimitingMeansCeiling
<1>1. SweepInvariant => LimitingMeansCeiling
  BY DEF SweepInvariant, BracketInvariant
<1> QED BY <1>1, SweepIsBracketed, PTL

\* runUDPSweep gives up on a datagram size only after it has probed down to
\* 1/2^maxSteps of the ceiling or to one packet per second, and every rate it
\* tried was lossy.
THEOREM FailuresAreThorough == Spec => []FailureIsThorough
<1>1. SweepInvariant => FailureIsThorough
  <2> SUFFICES ASSUME SweepInvariant, state = "swept", usable = {}
               PROVE  /\ hi \in lossy /\ \A r \in lossy : hi <= r
                      /\ hi = 1 \/ hi * 2^MaxSteps <= maxRate
    BY DEF FailureIsThorough
  <2>1. \A r \in lossy : hi <= r
    BY DEF SweepInvariant, BracketInvariant, Bracketed
  <2>2. /\ step > 0 => hi \in lossy /\ hi * 2^(step - 1) <= maxRate
        /\ step = MaxSteps + 1 \/ (hi = 1 /\ step > 0)
    BY DEF SweepInvariant, Halves
  <2>3. MaxSteps + 1 > 0 /\ (MaxSteps + 1) - 1 = MaxSteps
    BY StepAssumption
  <2> QED BY <2>1, <2>2, <2>3
<1> QED BY <1>1, SweepIsBracketed, PTL
=============================================================================
