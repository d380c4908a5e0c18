------------------------------- MODULE Vibrato -------------------------------
(***************************************************************************)
(* One analysis of the vibrato node (dsp/node-vibrato, analyse): fill the  *)
(* unvoiced gaps of the pitch contour, transform it, and look for a peak   *)
(* that stands out of the vibrato band.                                    *)
(*                                                                         *)
(* The three parts are run apart, each on any input the part before it     *)
(* could hand over.  Pitches are integers in cents, chosen so that a gap   *)
(* divides.  The transform only needs a field with a root of unity of      *)
(* order FFT_SIZE: the complex numbers are replaced by the integers modulo *)
(* a prime.  Centring, detrending, the Hann window and the interpolation   *)
(* of the peak are left out.                                               *)
(***************************************************************************)
EXTENDS Integers, Sequences, FiniteSets, Filtering, Sums

CONSTANTS Contours,             \* decimated pitch contours, Unvoiced in the gaps
          MinVoiced,            \* voiced slots below which there is no vibrato
          Signals,              \* what is to be transformed
          FFT_SIZE, LOG2_SIZE,  \* FFT_SIZE is two to the LOG2_SIZE
          Prime, Root,          \* Root has order FFT_SIZE modulo Prime
          Spectra               \* magnitudes of the bins of the band, by position

Unvoiced == 0

ASSUME SizeIsAPower == LOG2_SIZE \in Nat \ {0} /\ FFT_SIZE = Power(2, LOG2_SIZE)
ASSUME RootHasOrder ==      \* half way round the circle is -1
    /\ Prime \in Nat \ {0, 1} /\ Root \in Nat
    /\ Power(Root, FFT_SIZE \div 2) % Prime = Prime - 1
ASSUME InputsAreSampled ==
    /\ \A samples \in Signals : samples \in [0..FFT_SIZE - 1 -> Int]
    /\ \A bins \in Spectra : bins \in Seq(Int) /\ bins # <<>>
ASSUME GapsDivide ==
    \A cents \in Contours :
        /\ cents \in Seq(Int)
        /\ \A a, b \in DOMAIN cents :
             a < b /\ cents[a] # Unvoiced /\ cents[b] # Unvoiced =>
                 (cents[b] - cents[a]) % (b - a) = 0

VARIABLES
    contour, grid, anchor,      \* the gaps
    signal, buf, width,         \* the transform
    band, scratch, sorted,      \* the peak
    vibrato_held,                       \* what the analysis holds of the band
    vibrato_step                          \* what analyse does next

vibrato_vars ==
    <<contour, grid, anchor, signal, buf, width, band, scratch, sorted, vibrato_held,
      vibrato_step>>
gap_vars == <<contour, grid, anchor>>
fft_vars == <<signal, buf, width>>
band_vars == <<band, scratch, sorted>>

Idle == <<>>
NoVibrato == 0

VibratoInit ==
    /\ grid = Idle /\ anchor = 0
    /\ buf = Idle /\ width = 1
    /\ scratch = Idle /\ sorted = 0 /\ vibrato_held = NoVibrato
    /\ \/ vibrato_step = "voiced" /\ contour \in Contours /\ signal = Idle /\ band = Idle
       \/ vibrato_step = "permute" /\ signal \in Signals /\ contour = Idle /\ band = Idle
       \/ vibrato_step = "peak" /\ band \in Spectra /\ contour = Idle /\ signal = Idle

-----------------------------------------------------------------------------
(* The gaps. *)

GridSlots == DOMAIN contour
Voiced == {k \in GridSlots : contour[k] # Unvoiced}
FirstVoiced == CHOOSE k \in Voiced : \A j \in Voiced : k <= j
LastVoiced == CHOOSE k \in Voiced : \A j \in Voiced : j <= k

TooFewVoiced ==
    /\ vibrato_step = "voiced"
    /\ 2 * Cardinality(Voiced) < Len(contour) \/ Cardinality(Voiced) < MinVoiced
    /\ vibrato_step' = "rejected"
    /\ UNCHANGED <<gap_vars, fft_vars, band_vars, vibrato_held>>

(* Before the first voiced slot and after the last, its pitch is held. *)
FillEnds ==
    /\ vibrato_step = "voiced"
    /\ 2 * Cardinality(Voiced) >= Len(contour) /\ Cardinality(Voiced) >= MinVoiced
    /\ vibrato_step' = "gaps"
    /\ grid' = [k \in GridSlots |-> IF k < FirstVoiced THEN contour[FirstVoiced]
                                ELSE IF k > LastVoiced THEN contour[LastVoiced]
                                ELSE contour[k]]
    /\ anchor' = FirstVoiced
    /\ UNCHANGED <<contour, fft_vars, band_vars, vibrato_held>>

(* Mutant of Between: the step is divided by the slots inside the gap. *)
BetweenInside(from, to, k) ==
    grid[from] + ((k - from) * (grid[to] - grid[from])) \div (to - from - 1)

Between(from, to, k) ==
    grid[from] + ((k - from) * (grid[to] - grid[from])) \div (to - from)

FillGap ==
    /\ vibrato_step = "gaps"
    /\ anchor < LastVoiced
    /\ \E voiced_at \in anchor + 1..LastVoiced :
         /\ grid[voiced_at] # Unvoiced
         /\ \A k \in anchor + 1..voiced_at - 1 : grid[k] = Unvoiced
         /\ grid' = [k \in GridSlots |->
                       IF anchor < k /\ k < voiced_at THEN Between(anchor, voiced_at, k)
                       ELSE grid[k]]
         /\ anchor' = voiced_at
    /\ UNCHANGED <<contour, fft_vars, band_vars, vibrato_held, vibrato_step>>

GapsFilled ==
    /\ vibrato_step = "gaps"
    /\ anchor = LastVoiced
    /\ vibrato_step' = "filled"
    /\ UNCHANGED <<gap_vars, fft_vars, band_vars, vibrato_held>>

-----------------------------------------------------------------------------
(* The transform, in place. *)

Bins == 0..FFT_SIZE - 1
Twiddle(k) == Power(Root, k) % Prime
BitReversed(k) ==
    LET reversed[b \in 0..LOG2_SIZE] ==
            IF b = 0 THEN 0 ELSE 2 * reversed[b - 1] + ((k \div Power(2, b - 1)) % 2)
    IN reversed[LOG2_SIZE]

Permute ==
    /\ vibrato_step = "permute"
    /\ vibrato_step' = "stages"
    /\ buf' = [i \in Bins |-> signal[BitReversed(i)]]
    /\ UNCHANGED <<gap_vars, signal, width, band_vars, vibrato_held>>

(* Mutant of TwiddleOf: every stage strides through the table alike. *)
TwiddleOfLast(j) == Twiddle(j)

TwiddleOf(j) == Twiddle(j * (FFT_SIZE \div (2 * width)))

(* One stage of butterflies: i is in the lower half of its pair or in the upper. *)
Butterflies ==
    /\ vibrato_step = "stages"
    /\ width < FFT_SIZE
    /\ width' = 2 * width
    /\ buf' = [i \in Bins |->
                 LET j == i % width
                 IN IF (i \div width) % 2 = 0
                    THEN (buf[i] + TwiddleOf(j) * buf[i + width]) % Prime
                    ELSE (buf[i - width] - TwiddleOf(j) * buf[i]) % Prime]
    /\ UNCHANGED <<gap_vars, signal, band_vars, vibrato_held, vibrato_step>>

Transformed ==
    /\ vibrato_step = "stages"
    /\ width = FFT_SIZE
    /\ vibrato_step' = "transformed"
    /\ UNCHANGED <<gap_vars, fft_vars, band_vars, vibrato_held>>

-----------------------------------------------------------------------------
(* The peak of the band and the median of what is not next to it. *)

PeakBin == CHOOSE b \in DOMAIN band :
              /\ \A c \in DOMAIN band : band[c] <= band[b]
              /\ \A c \in 1..b - 1 : band[c] < band[b]

FarFromPeak ==
    Among([b \in DOMAIN band |-> b], DOMAIN band \ (PeakBin - 1..PeakBin + 1))

FindPeak ==
    /\ vibrato_step = "peak"
    /\ vibrato_step' = "median"
    /\ scratch' = [i \in DOMAIN FarFromPeak |-> band[FarFromPeak[i]]]
    /\ sorted' = 0
    /\ UNCHANGED <<gap_vars, fft_vars, band, vibrato_held>>

(* Indices of the code are one less: it sorts the smallest mid + 1 to the front. *)
middle == Len(scratch) \div 2

(* Mutant of SortedFar: the sort stops one short of the middle. *)
SortedShort == sorted >= middle - 1

SortedFar == sorted > middle \/ scratch = <<>>

SelectNext ==
    /\ vibrato_step = "median"
    /\ ~SortedFar
    /\ LET i == sorted + 1
           least == CHOOSE j \in i..Len(scratch) :
                       /\ \A k \in i..Len(scratch) : scratch[j] <= scratch[k]
                       /\ \A k \in i..j - 1 : scratch[j] < scratch[k]
       IN scratch' = [scratch EXCEPT ![i] = scratch[least], ![least] = scratch[i]]
    /\ sorted' = sorted + 1
    /\ UNCHANGED <<gap_vars, fft_vars, band, vibrato_held, vibrato_step>>

(* Twice the median, so that the mean of two middle values stays an integer. *)
TwiceMedian ==
    IF scratch = <<>> THEN 0
    ELSE IF Len(scratch) % 2 = 1 THEN 2 * scratch[middle + 1]
    ELSE scratch[middle] + scratch[middle + 1]

Dominates ==
    /\ vibrato_step = "median"
    /\ SortedFar
    /\ vibrato_step' = "judged"
    /\ vibrato_held' = IF band[PeakBin] < TwiceMedian THEN NoVibrato ELSE PeakBin
    /\ UNCHANGED <<gap_vars, fft_vars, band_vars>>

VibratoNext ==
    \/ TooFewVoiced \/ FillEnds \/ FillGap \/ GapsFilled
    \/ Permute \/ Butterflies \/ Transformed
    \/ FindPeak \/ SelectNext \/ Dominates

VibratoSpec == VibratoInit /\ [][VibratoNext]_vibrato_vars

-----------------------------------------------------------------------------
(* Filling leaves the voiced slots alone and every gap on the straight line between
   the voiced slots around it, on the same time axis. *)
GapsAreStraight ==
    vibrato_step = "filled" =>
        /\ \A k \in Voiced : grid[k] = contour[k]
        /\ \A k \in GridSlots \ Voiced :
             \/ k < FirstVoiced /\ grid[k] = contour[FirstVoiced]
             \/ k > LastVoiced /\ grid[k] = contour[LastVoiced]
             \/ \E a, b \in Voiced :
                  /\ a < k /\ k < b
                  /\ \A j \in a + 1..b - 1 : j \notin Voiced
                  /\ (grid[k] - grid[a]) * (b - a) = (grid[b] - grid[a]) * (k - a)

(* The staged transform is the discrete Fourier transform, by its definition. *)
TransformIsFourier ==
    vibrato_step = "transformed" =>
        \A k \in Bins :
            buf[k] = SumTo([n \in 1..FFT_SIZE |->
                              signal[n - 1] * Twiddle(((n - 1) * k) % FFT_SIZE)], FFT_SIZE) % Prime

(* Twice the median of a sequence, by counting. *)
MedianTwice(s) ==
    LET Below(v) == Cardinality({i \in DOMAIN s : s[i] < v})
        UpTo(v) == Cardinality({i \in DOMAIN s : s[i] <= v})
        Ranked(r) == CHOOSE v \in {s[i] : i \in DOMAIN s} : Below(v) < r /\ r <= UpTo(v)
    IN IF s = <<>> THEN 0
       ELSE IF Len(s) % 2 = 1 THEN 2 * Ranked((Len(s) + 1) \div 2)
       ELSE Ranked(Len(s) \div 2) + Ranked(Len(s) \div 2 + 1)

(* A vibrato is held for the first of the highest bins of the band when it is twice
   the median of the bins away from it, and for no other. *)
PeakStandsOut ==
    vibrato_step = "judged" =>
        LET far == [i \in DOMAIN FarFromPeak |-> band[FarFromPeak[i]]]
        IN vibrato_held = IF band[PeakBin] >= MedianTwice(far) THEN PeakBin ELSE NoVibrato

(* The analysis computes what it is said to, part by part. *)
AnalysisIsExact == GapsAreStraight /\ TransformIsFourier /\ PeakStandsOut
=============================================================================
