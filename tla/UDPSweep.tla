------------------------------ MODULE UDPSweep ------------------------------
(***************************************************************************)
(* RunForwardingPPS: for each datagram size, runUDPSweep looks for the     *)
(* highest packet rate whose loss stays within the budget.  The ceiling is *)
(* probed first, then the bracket between the best usable rate (lo) and    *)
(* the lowest lossy one (hi) is bisected.                                  *)
(*                                                                         *)
(* A probe is a measurement of a real network, so its verdict is arbitrary *)
(* and need not be monotone in the rate, nor repeatable.  Loss, jitter and *)
(* throughput figures are left out: only the verdict steers the search.    *)
(***************************************************************************)
EXTENDS Integers, Sequences

CONSTANTS
    MaxRates,       \* the ceilings a configuration may set
    MaxSteps,       \* maxSteps: probes after the first one
    TolerancePct,   \* bracketTolerancePct
    NumSizes        \* how many datagram sizes are configured

ASSUME RateAssumption == MaxRates \subseteq Nat \ {0}
ASSUME StepAssumption == MaxSteps \in Nat
ASSUME ToleranceAssumption == TolerancePct \in Nat
ASSUME SizeAssumption == NumSizes \in Nat \ {0}

\* What exponentiation is, as far as the search goes: the provers know its value
\* for literals only.
ASSUME PowersOfTwo ==
    \A n \in 0..MaxSteps : 2^n \in Nat /\ 2^(n + 1) = 2 * 2^n

VARIABLES
    maxRate,    \* cfg.PPSMaxRatePPS, after defaults()
    lo, hi,     \* the bracket
    step,       \* probes made for this size
    best,       \* the offered rate of the best usable probe, 0 before one
    usable,     \* every rate of this size judged usable
    lossy,      \* every rate of this size judged lossy or invalid
    state,      \* "probing", then "swept", "returned" or "failed"
    sizes,      \* the rates recorded for the sizes before this one
    limiting    \* LimitingResource is "config-max-rate"

sweep == <<lo, hi, step, best, usable, lossy>>
vars ==
    <<maxRate, lo, hi, step, best, usable, lossy, state, sizes, limiting>>

Init ==
    /\ maxRate \in MaxRates
    /\ lo = 0 /\ hi = maxRate /\ step = 0 /\ best = 0
    /\ usable = {} /\ lossy = {}
    /\ state = "probing"
    /\ sizes = <<>> /\ limiting = FALSE

-----------------------------------------------------------------------------
Rate == IF step = 0 THEN hi ELSE (lo + hi) \div 2

\* float64(hi-lo)/float64(lo)*100 <= bracketTolerancePct
Narrow(low, high) == low > 0 /\ (high - low) * 100 <= TolerancePct * low

\* Mutants: one probe too few, one too many.
CanProbeOnceLess == state = "probing" /\ step < MaxSteps /\ Rate > 0
CanProbeOnceMore == state = "probing" /\ step <= MaxSteps + 1 /\ Rate > 0

CanProbe == state = "probing" /\ step <= MaxSteps /\ Rate > 0

\* The trial fails, or the sink's server did not start before the first one:
\* the sweep returns an error, and so does its caller.
ProbeFails ==
    /\ CanProbe
    /\ state' = "failed"
    /\ UNCHANGED <<sweep, sizes, limiting, maxRate>>

\* Mutant: a trial that cannot be judged starts the search again.
ProbeIsInvalidRestarts ==
    /\ CanProbe
    /\ lo' = 0 /\ hi' = maxRate /\ step' = 0 /\ best' = 0
    /\ usable' = {} /\ lossy' = {}
    /\ UNCHANGED <<state, sizes, limiting, maxRate>>

\* Receiver counters that make no sense count as loss; the width of the
\* bracket is not looked at.
ProbeIsInvalid ==
    /\ CanProbe
    /\ hi' = Rate /\ lossy' = lossy \cup {Rate}
    /\ step' = step + 1
    /\ UNCHANGED <<lo, best, usable, state, sizes, limiting, maxRate>>

\* Mutant: only the first usable trial is kept.
ProbeIsUsableKeepsFirst ==
    /\ CanProbe
    /\ lo' = Rate /\ usable' = usable \cup {Rate}
    /\ best' = IF usable = {} THEN Rate ELSE best
    /\ step' = step + 1
    /\ state' = IF step = 0 \/ Narrow(Rate, hi) THEN "swept" ELSE "probing"
    /\ UNCHANGED <<hi, lossy, sizes, limiting, maxRate>>

ProbeIsUsable ==
    /\ CanProbe
    /\ lo' = Rate /\ best' = Rate /\ usable' = usable \cup {Rate}
    /\ step' = step + 1
    /\ state' = IF step = 0 \/ Narrow(Rate, hi) THEN "swept" ELSE "probing"
    /\ UNCHANGED <<hi, lossy, sizes, limiting, maxRate>>

\* Mutant: the bracket keeps its upper end.
ProbeIsLossyUnbracketed ==
    /\ CanProbe
    /\ lossy' = lossy \cup {Rate}
    /\ step' = step + 1
    /\ UNCHANGED <<lo, hi, best, usable, state, sizes, limiting, maxRate>>

ProbeIsLossy ==
    /\ CanProbe
    /\ hi' = Rate /\ lossy' = lossy \cup {Rate}
    /\ step' = step + 1
    /\ state' = IF Narrow(lo, Rate) THEN "swept" ELSE "probing"
    /\ UNCHANGED <<lo, best, usable, sizes, limiting, maxRate>>

\* The step budget is spent, or there is no positive rate left to try.
StopSearch ==
    /\ state = "probing" /\ ~CanProbe
    /\ state' = "swept"
    /\ UNCHANGED <<sweep, sizes, limiting, maxRate>>

\* runUDPSweep returns: no usable rate is an error of the whole measurement.
NothingFound ==
    /\ state = "swept" /\ usable = {}
    /\ state' = "failed"
    /\ UNCHANGED <<sweep, sizes, limiting, maxRate>>

\* Mutant: the cap is blamed for any rate near it.
RecordSizeNearCap ==
    /\ state = "swept" /\ usable # {}
    /\ sizes' = Append(sizes, best)
    /\ limiting' = (limiting \/ best + 1 >= maxRate)
    /\ IF Len(sizes) + 1 = NumSizes
       THEN state' = "returned" /\ UNCHANGED sweep
       ELSE /\ state' = "probing"
            /\ lo' = 0 /\ hi' = maxRate /\ step' = 0 /\ best' = 0
            /\ usable' = {} /\ lossy' = {}
    /\ UNCHANGED maxRate

RecordSize ==
    /\ state = "swept" /\ usable # {}
    /\ sizes' = Append(sizes, best)
    /\ limiting' = (limiting \/ best >= maxRate)
    /\ IF Len(sizes) + 1 = NumSizes
       THEN state' = "returned" /\ UNCHANGED sweep
       ELSE /\ state' = "probing"
            /\ lo' = 0 /\ hi' = maxRate /\ step' = 0 /\ best' = 0
            /\ usable' = {} /\ lossy' = {}
    /\ UNCHANGED maxRate

Next ==
    \/ ProbeFails \/ ProbeIsInvalid \/ ProbeIsUsable \/ ProbeIsLossy
    \/ StopSearch \/ NothingFound \/ RecordSize

\* Every trial returns: it runs under a timeout of its own.
Spec == Init /\ [][Next]_vars /\ WF_vars(Next)

-----------------------------------------------------------------------------
TypeOK ==
    /\ maxRate \in MaxRates
    /\ lo \in 0..maxRate /\ hi \in 0..maxRate /\ best \in 0..maxRate
    /\ step \in 0..(MaxSteps + 1)
    /\ usable \subseteq 1..maxRate /\ lossy \subseteq 1..maxRate
    /\ state \in {"probing", "swept", "returned", "failed"}
    /\ sizes \in Seq(1..maxRate) /\ Len(sizes) <= NumSizes
    /\ limiting \in BOOLEAN

\* The rate that will be reported is the highest one judged usable, and no rate
\* judged lossy lies below it, however the verdicts fall: what the comment on
\* runUDPSweep calls the usable pps.
BestIsHighestUsable ==
    usable # {} =>
        /\ best \in usable
        /\ \A r \in usable : r <= best
        /\ \A r \in lossy : best <= r

\* "No offered rate sustained ..., the lowest probed rate was still lossy": the
\* search that finds nothing has gone down to 1/2^MaxSteps of the ceiling, or
\* to a single packet per second.
FailureIsThorough ==
    (state = "swept" /\ usable = {}) =>
        /\ hi \in lossy /\ \A r \in lossy : hi <= r
        /\ hi = 1 \/ hi * 2^MaxSteps <= maxRate

\* LimitingResource blames the configured cap only if a sweep sustained it, and
\* a sweep that found the cap lossy never reports it.
LimitingMeansCeiling ==
    /\ limiting <=> \E i \in 1..Len(sizes) : sizes[i] = maxRate
    /\ maxRate \in lossy => best < maxRate

\* The measurement ends: verdicts cannot keep it going.
SweepEnds == <>(state \in {"returned", "failed"})

-----------------------------------------------------------------------------
\* Why BestIsHighestUsable holds: the bracket separates the verdicts.
Bracketed ==
    /\ lo <= hi
    /\ \A r \in usable : r <= lo
    /\ \A r \in lossy : hi <= r
    /\ best = lo
    /\ usable = {} => lo = 0
    /\ usable # {} => lo \in usable
    /\ step = 0 => lossy = {} /\ usable = {} /\ hi = maxRate

\* Everything about the bracket that one probe hands to the next.
BracketInvariant ==
    /\ TypeOK
    /\ Bracketed
    /\ LimitingMeansCeiling
    /\ state = "probing" => Len(sizes) < NumSizes
    /\ state = "swept" => Len(sizes) < NumSizes
    /\ state = "probing" /\ step > 0 => maxRate \in lossy

\* Why FailureIsThorough holds: every probe after the first one that finds
\* nothing usable at least halves hi, and such a search only stops when its
\* budget is spent or there is nothing below hi.
Halves ==
    usable = {} =>
        /\ step > 0 => hi \in lossy /\ hi * 2^(step - 1) <= maxRate
        /\ state = "swept" => step = MaxSteps + 1 \/ (hi = 1 /\ step > 0)

\* The inductive invariant of the sweep.
SweepInvariant == BracketInvariant /\ Halves
=============================================================================
