-------------------------------- MODULE Music --------------------------------
(***************************************************************************)
(* The pitch, tuning and scale arithmetic that the coach and the head      *)
(* share (domain-ports: pitch.rs, tuning.rs, scale.rs) and what the note   *)
(* dial makes of it (coach-game: widgets/note_dial).                       *)
(*                                                                         *)
(* A pitch is a position on the log2 helix, here a whole number of steps,  *)
(* Octave of them to the octave, and the angle of a tick the same number   *)
(* of steps.  The f32 sums of the code are exact here.  A scale's mask is  *)
(* the set of its slots.                                                   *)
(***************************************************************************)
EXTENDS Integers, Sequences, FiniteSets, SequencesExt, Filtering, Sums

CONSTANTS Nothing,          \* None
          Octave,           \* steps to the octave
          MAX_TUNING_SLOTS,
          RatioPitches,     \* TuningKind -> the pitches of its ratios, from 0 up
          Kinds,            \* tuning kinds the settings offer
          References,       \* reference pitches the settings offer
          Catalogue,        \* the widths of the scales, for all grids
          DefaultScale      \* SongTonality::default

ASSUME TuningsClimb ==
    /\ Kinds \subseteq DOMAIN RatioPitches /\ MAX_TUNING_SLOTS \in Nat
    /\ Octave \in Nat \ {0} /\ References \subseteq Int /\ Nothing \notin Int
    /\ \A kind \in Kinds : LET pitches == RatioPitches[kind]
                           IN /\ pitches \in Seq(Nat) /\ Len(pitches) \in 2..MAX_TUNING_SLOTS
                              /\ pitches[1] = 0 /\ pitches[Len(pitches)] < Octave
                              /\ \A i \in 2..Len(pitches) : pitches[i - 1] < pitches[i]

Distance(a, b) == IF a >= b THEN a - b ELSE b - a
Lesser(a, b) == IF a <= b THEN a ELSE b

-----------------------------------------------------------------------------
(* Intervals: an octave count and a rotation inside the octave. *)

FullOctaves(interval) == interval \div Octave
Fract(interval) == interval % Octave

-----------------------------------------------------------------------------
(* Tunings.  TuningIntervals is the sequence of gaps from one slot to the next; the
   last one closes the octave. *)

TuningIntervals(gaps) ==
    [i \in 1..Lesser(Len(gaps), MAX_TUNING_SLOTS) |-> Fract(gaps[i])]
GapAt(intervals, i) == intervals[(i % Len(intervals)) + 1]
CumulativeRotationTo(intervals, i) ==
    SumTo([k \in 1..i |-> GapAt(intervals, k - 1)], i)

TuningAbsolute(intervals, rotation) == [intervals |-> intervals, rotation |-> Fract(rotation)]

(* from_frequencies: the gaps between neighbours, the last one up to the root's octave. *)
FromFrequencies(pitches) ==
    LET n == Len(pitches)
        next_up(i) == IF i = n THEN pitches[1] + Octave ELSE pitches[i + 1]
    IN IF n = 0 THEN TuningAbsolute(<<>>, 0)
       ELSE TuningAbsolute(TuningIntervals([i \in 1..n |-> next_up(i) - pitches[i]]), pitches[1])

KindIntervals(kind) == FromFrequencies(RatioPitches[kind]).intervals

(* tuning_absolute *)
AbsoluteOf(settings) == TuningAbsolute(KindIntervals(settings.kind), settings.reference)

TuningRotated(tuning, start) ==
    LET n == Len(tuning.intervals)
    IN [tuning |-> tuning, start |-> IF n = 0 THEN 0 ELSE start % n]
ShiftUp(rotated, k) == TuningRotated(rotated.tuning, rotated.start + k)

(* Mutant of ShiftDown: it goes down one slot too many. *)
ShiftDownPast(rotated, k) ==
    LET n == Len(rotated.tuning.intervals)
    IN TuningRotated(rotated.tuning, rotated.start + (n - (k % n)) - 1)

ShiftDown(rotated, k) ==
    LET n == Len(rotated.tuning.intervals)
    IN TuningRotated(rotated.tuning, rotated.start + (n - (k % n)))

(* The gaps read from the start on, and the rotation of the slot it stands on. *)
Slots(rotated) == Len(rotated.tuning.intervals)
RotatedIntervals(rotated) ==
    TuningIntervals([i \in 1..Slots(rotated) |->
                       GapAt(rotated.tuning.intervals, rotated.start + i - 1)])
Rotation(rotated) ==
    Fract(rotated.tuning.rotation
            + CumulativeRotationTo(rotated.tuning.intervals, rotated.start))

(* Mutant of Resolve: the line that closes the octave is not among the candidates. *)
ResolveBelow(tuning, pitch) ==
    LET from_root == pitch - tuning.rotation
        n == Len(tuning.intervals)
        away(i) == Distance(Fract(from_root), CumulativeRotationTo(tuning.intervals, i))
        best == CHOOSE i \in 0..n - 1 :
                  \A j \in 0..n - 1 : away(i) < away(j) \/ (away(i) = away(j) /\ i <= j)
    IN [slot |-> best, octave |-> FullOctaves(from_root)]

(* resolve: the nearest line, the lower of two; past the last one is slot 0 again, an
   octave up. *)
Resolve(tuning, pitch) ==
    LET from_root == pitch - tuning.rotation
        n == Len(tuning.intervals)
        away(i) == Distance(Fract(from_root), CumulativeRotationTo(tuning.intervals, i))
        best == CHOOSE i \in 0..n :
                  \A j \in 0..n : away(i) < away(j) \/ (away(i) = away(j) /\ i <= j)
    IN IF n = 0 THEN [slot |-> 0, octave |-> 0]
       ELSE [slot |-> best % n,
             octave |-> FullOctaves(from_root) + IF best = n THEN 1 ELSE 0]

-----------------------------------------------------------------------------
(* Scales. *)

(* from_widths: every width but the last sets a degree. *)
FromWidths(widths) == {SumTo(widths, k) : k \in 0..Len(widths) - 1}

(* scales_for: the entries of the catalogue that close the grid. *)
GridOf(widths) == SumTo(widths, Len(widths))
ScalesFor(n) ==
    LET fitting == Among(Catalogue, {widths \in Range(Catalogue) : GridOf(widths) = n})
    IN [i \in DOMAIN fitting |-> FromWidths(fitting[i])]

(* A set of slots, from the lowest up: so many of them lie below each. *)
InOrder(slots) ==
    [k \in 1..Cardinality(slots) |->
        CHOOSE i \in slots : Cardinality({j \in slots : j < i}) = k - 1]

(* widths: what lies in the first n slots, and from the last degree up to n. *)
Widths(mask, n) ==
    LET degrees == InOrder({i \in mask : i < n})
        k == Len(degrees)
    IN [i \in 1..k |-> (IF i = k THEN n ELSE degrees[i + 1]) - degrees[i]]

(* slot_of_degree; no slot of the first n for it is a panic. *)
HasSlot(mask, degree, n) == (degree % Cardinality(mask)) < Cardinality({i \in mask : i < n})
SlotOfDegree(mask, degree, n) ==
    InOrder({i \in mask : i < n})[(degree % Cardinality(mask)) + 1]
        + (degree \div Cardinality(mask)) * n

Scale(mask, rotated, octave) == [mask |-> mask, tuning |-> rotated, octave |-> octave]
SlotsOf(scale) == Slots(scale.tuning)

(* What the catalogue and the default are made of: every width steps up, and the default
   is on a line of one of the tunings. *)
ASSUME ScalesClimb ==
    /\ Catalogue \in Seq(Seq(Nat \ {0})) /\ \A i \in DOMAIN Catalogue : Catalogue[i] # <<>>
    /\ LET mask == DefaultScale.mask
           rotated == DefaultScale.tuning
           tuning == rotated.tuning
       IN /\ DefaultScale = Scale(mask, rotated, DefaultScale.octave)
          /\ DefaultScale.octave \in Int
          /\ IsFiniteSet(mask) /\ mask \subseteq Nat /\ 0 \in mask
          /\ tuning.rotation \in Int /\ rotated.start \in Nat
          /\ rotated = TuningRotated(tuning, rotated.start)
          /\ \E kind \in Kinds : tuning = TuningAbsolute(KindIntervals(kind), tuning.rotation)

(* Mutant of PitchAt: the degree walks the gaps as they were authored. *)
PitchAtAuthored(scale, degree) ==
    Rotation(scale.tuning) + scale.octave * Octave
        + CumulativeRotationTo(scale.tuning.tuning.intervals,
                               SlotOfDegree(scale.mask, degree, SlotsOf(scale)))

PitchAt(scale, degree) ==
    Rotation(scale.tuning) + scale.octave * Octave
        + CumulativeRotationTo(RotatedIntervals(scale.tuning),
                               SlotOfDegree(scale.mask, degree, SlotsOf(scale)))

-----------------------------------------------------------------------------
(* The note dial. *)

TickAngle(scale, slot) == CumulativeRotationTo(RotatedIntervals(scale.tuning), slot)
NeedleAngle(scale, pitch) == Fract(pitch - PitchAt(scale, 0))

BuildSlots(scale) ==
    [i \in 1..SlotsOf(scale) |-> [angle |-> TickAngle(scale, i - 1),
                                  active |-> i - 1 \in scale.mask]]

(* current_slot: the nearest tick, when the needle is within a sixth of the smaller of
   the arcs beside it. *)
AngularDistance(a, b) ==
    LET d == Distance(a, b) % Octave IN Lesser(d, Octave - d)
CurrentSlot(slots, needle) ==
    LET n == Len(slots)
        away(i) == AngularDistance(Fract(slots[i].angle), needle)
        nearest == CHOOSE i \in 1..n :
                     \A j \in 1..n : away(i) < away(j) \/ (away(i) = away(j) /\ i <= j)
        arc(j) == AngularDistance(slots[nearest].angle, slots[j].angle)
        smaller_arc == Lesser(arc(((nearest - 2) % n) + 1), arc((nearest % n) + 1))
    IN IF n = 0 \/ needle = Nothing THEN Nothing
       ELSE IF 6 * away(nearest) <= smaller_arc THEN nearest ELSE Nothing

(* capture_scale: the same mask on the slot nearest to what is sung. *)
CaptureScale(absolute, current, pitch) ==
    LET line == Resolve(absolute, pitch)
    IN Scale(current.mask, TuningRotated(absolute, line.slot), line.octave)

(* select_scale: another mask on the same tonic. *)
SelectScale(current, mask) == Scale(mask, current.tuning, current.octave)
=============================================================================
