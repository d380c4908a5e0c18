------------------------------- MODULE PitchYin -------------------------------
(***************************************************************************)
(* One analysis of the pitch detector (dsp/node-pitch-yin, prepare and     *)
(* analyse): the YIN difference function of a window, normalised by its    *)
(* cumulative mean, searched for the lag at which the window repeats.      *)
(*                                                                         *)
(* Samples are integers and a normalised difference is an exact fraction,  *)
(* compared by multiplying out, so rounding is left out; so is the         *)
(* parabolic interpolation, which moves the lag reported by at most one    *)
(* sample to either side of the lag chosen here.                           *)
(***************************************************************************)
EXTENDS Integers, Sequences, Sums

CONSTANTS Windows,                          \* windows to analyse
          sample_rate, fmin_hz, fmax_hz,
          yin_threshold                         \* a fraction

ASSUME YinHasLags ==
    /\ sample_rate \in Nat /\ fmin_hz \in 1..sample_rate - 1 /\ fmax_hz \in Nat \ {0}
    /\ \A samples \in Windows : samples \in Seq(Int) /\ Len(samples) >= 4
    /\ yin_threshold.den \in Nat /\ yin_threshold.num \in 1..yin_threshold.den

VARIABLES
    yin_window,     \* the samples, oldest first
    diff, dprime,  \* functions of the lag; dprime's values are fractions
    tau,        \* lag being looked at
    chosen_tau,     \* chosen_tau
    yin_step          \* what analyse does next

yin_vars == <<yin_window, diff, dprime, tau, chosen_tau, yin_step>>

Fraction(num, den) == [num |-> num, den |-> den]
Less(a, b) == a.num * b.den < b.num * a.den
One == Fraction(1, 1)
UnvoicedThreshold == Fraction(4, 5)
NoLag == 0

Least(a, b) == IF a <= b THEN a ELSE b
Greatest(a, b) == IF a >= b THEN a ELSE b

(* prepare: the lags of fmax and fmin, and the lag the search starts from. *)
half == Len(yin_window) \div 2
Clamped(lag) == Greatest(1, Least(lag, half))
tau_max == Clamped((sample_rate + fmin_hz - 1) \div fmin_hz)
tau_min == Least(Clamped(sample_rate \div fmax_hz), tau_max)
tau_search_min == Greatest(2, Least(tau_min, sample_rate \div 4000))
Lags == 1..tau_max

YinInit ==
    /\ yin_window \in Windows
    /\ diff = [t \in Lags |-> 0]
    /\ dprime = [t \in Lags |-> One]
    /\ tau = tau_search_min
    /\ chosen_tau = NoLag
    /\ yin_step = "difference"

Squared(x) == x * x
Difference(t) ==
    SumTo([j \in 1..Len(yin_window) - t |-> Squared(yin_window[j] - yin_window[j + t])],
          Len(yin_window) - t)

DifferenceFunction ==
    /\ yin_step = "difference"
    /\ yin_step' = "normalise"
    /\ diff' = [t \in Lags |-> Difference(t)]
    /\ UNCHANGED <<yin_window, dprime, tau, chosen_tau>>

(* The sum of d up to a lag; while it is zero the window has not moved at all. *)
RunningSum(t) == SumTo(diff, t)

Normalise ==
    /\ yin_step = "normalise"
    /\ yin_step' = "search"
    /\ dprime' = [t \in Lags |->
                   IF RunningSum(t) > 0 THEN Fraction(t * diff[t], RunningSum(t))
                   ELSE One]
    /\ UNCHANGED <<yin_window, diff, tau, chosen_tau>>

(* Below the threshold and a local minimum; the ends of the range count as high. *)
IsDip(t) ==
    /\ Less(dprime[t], yin_threshold)
    /\ t > tau_search_min => Less(dprime[t], dprime[t - 1])
    /\ t < tau_max => ~Less(dprime[t + 1], dprime[t])

Search ==
    /\ yin_step = "search"
    /\ tau <= tau_max
    /\ IF IsDip(tau)
       THEN yin_step' = "accept" /\ chosen_tau' = tau /\ UNCHANGED tau
       ELSE tau' = tau + 1 /\ UNCHANGED <<yin_step, chosen_tau>>
    /\ UNCHANGED <<yin_window, diff, dprime>>

(* No dip: the first of the lowest lags in the range. *)
Fallback ==
    /\ yin_step = "search"
    /\ tau > tau_max
    /\ yin_step' = "accept"
    /\ LET range == tau_search_min..tau_max
           lowest == {t \in range : \A u \in range : ~Less(dprime[u], dprime[t])}
       IN chosen_tau' = CHOOSE t \in lowest : \A u \in lowest : t <= u
    /\ UNCHANGED <<yin_window, diff, dprime, tau>>

(* Mutant of Accepted: a lag pinned to the end of the range is reported. *)
AcceptedAtFloor(t) == ~Less(UnvoicedThreshold, dprime[t])

Accepted(t) ==
    /\ ~Less(UnvoicedThreshold, dprime[t])
    /\ t >= tau_min
    /\ t < tau_max

Accept ==
    /\ yin_step = "accept"
    /\ yin_step' = "held"
    /\ chosen_tau' = IF Accepted(chosen_tau) THEN chosen_tau ELSE NoLag
    /\ UNCHANGED <<yin_window, diff, dprime, tau>>

YinNext == DifferenceFunction \/ Normalise \/ Search \/ Fallback \/ Accept
YinSpec == YinInit /\ [][YinNext]_yin_vars

-----------------------------------------------------------------------------
RepeatsAfter(t) == \A j \in 1..Len(yin_window) - t : yin_window[j] = yin_window[j + t]
Repeats == {t \in 1..half : RepeatsAfter(t)}
Period == CHOOSE t \in Repeats : \A u \in Repeats : t <= u

(* A window that repeats is never heard an octave below, at a later lag than its period,
   and it is heard at its period when no earlier lag is under the threshold, as if the
   window nearly repeated there; outside the user's range it is unvoiced rather than
   moved into the range; and a window that does not move at all, silence, has no pitch. *)
PeriodIsHeard ==
    yin_step = "held" =>
        /\ 1 \in Repeats => chosen_tau = NoLag
        /\ Repeats # {} /\ Period \in tau_search_min..tau_max =>
             /\ chosen_tau <= Period
             /\ (\A t \in tau_search_min..Period - 1 : ~Less(dprime[t], yin_threshold)) =>
                  chosen_tau = IF Period \in tau_min..tau_max - 1 THEN Period ELSE NoLag
=============================================================================
