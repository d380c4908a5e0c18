------------------------------ MODULE Detectors ------------------------------
(***************************************************************************)
(* The detector nodes of the engine: Onset and Breath, which answer sample *)
(* by sample, PitchYin and Vibrato, which analyse a window every hop and   *)
(* hold the estimate (dsp/node-onset, -breath, -pitch-yin, -vibrato).      *)
(*                                                                         *)
(* Each keeps the recent past in a ring that it updates in place, is fed   *)
(* blocks of any length, and is reset after an interruption.  A sample is  *)
(* a small integer.  The logarithm of an energy is any increasing function *)
(* of it, and the slow average of a baseline one unit towards the present. *)
(* What an analysis makes of a window is in PitchYin and Vibrato; here the *)
(* estimate is the window itself.                                          *)
(***************************************************************************)
EXTENDS Integers, Sequences

CONSTANTS Levels,           \* samples
          BlockSizes,       \* frames of a block
          MaxSamples,       \* bound: samples between two resets
          frame_samples,    \* length of Onset's and Breath's rings
          onset_threshold,        \* Onset: units above the baseline
          min_separation,   \* Onset: samples from one pulse to the next
          min_release,      \* Breath: samples below the exit ratio
          window_samples, hop_samples       \* PitchYin, Vibrato

VARIABLES
    onset, breath, hop_held,    \* the nodes' states
    heard,                  \* history: the samples since the last reset
    pulses, breaths,        \* history: what the nodes have put out for them
    resets

detector_vars == <<onset, breath, hop_held, heard, pulses, breaths, resets>>

ASSUME DetectorAssumption ==
    /\ Levels \subseteq Int /\ BlockSizes \subseteq Nat /\ MaxSamples \in Nat
    /\ {frame_samples, window_samples, hop_samples} \subseteq Nat \ {0}
    /\ onset_threshold \in Int /\ {min_separation, min_release} \subseteq Nat

SumsOf(s) ==
    LET upto[k \in 0..Len(s)] == IF k = 0 THEN 0 ELSE upto[k - 1] + s[k] IN upto
SumOf(s) == SumsOf(s)[Len(s)]

-----------------------------------------------------------------------------
(* Onset. *)

NewOnset == [ring |-> [i \in 1..frame_samples |-> 0], write |-> 1, sum |-> 0,
             filled |-> FALSE, baseline |-> 0, initialised |-> FALSE,
             since |-> min_separation, out |-> <<>>]

Level(sum) == 2 * sum                   \* stands for the logarithm
Toward(baseline, level) ==              \* stands for the moving average
    IF level > baseline THEN baseline + 1
    ELSE IF level < baseline THEN baseline - 1 ELSE baseline

Advance(write) == (write % frame_samples) + 1
Saturated(n, limit) == IF n < limit THEN n + 1 ELSE limit

(* Mutant of Pulse: the cooldown counts from the samples, not from the pulse. *)
PulseAnyTime(level, o) == level - o.baseline > onset_threshold

Pulse(level, o) == level - o.baseline > onset_threshold /\ o.since >= min_separation

HearOnset(o, x) ==
    LET moved == [o EXCEPT !.ring[o.write] = x * x,
                           !.sum = @ + x * x - o.ring[o.write],
                           !.write = Advance(@),
                           !.filled = @ \/ Advance(o.write) = 1,
                           !.since = Saturated(@, min_separation)]
        level == Level(moved.sum)
    IN IF ~moved.filled THEN [moved EXCEPT !.out = Append(@, 0)]
       ELSE IF ~moved.initialised
       THEN [moved EXCEPT !.baseline = level, !.initialised = TRUE, !.out = Append(@, 0)]
       ELSE IF Pulse(level, moved)
       THEN [moved EXCEPT !.baseline = level, !.since = 0, !.out = Append(@, 1)]
       ELSE [moved EXCEPT !.baseline = Toward(@, level), !.out = Append(@, 0)]

-----------------------------------------------------------------------------
(* Breath. *)

NewBreath == [total_ring |-> [i \in 1..frame_samples |-> 0], total |-> 0,
              hf_ring |-> [i \in 1..frame_samples |-> 0], hf |-> 0, write |-> 1,
              filled |-> FALSE, prev |-> 0, latched |-> FALSE, below |-> 0, out |-> <<>>]

(* The ratio of the high frequencies to the whole, against the two thresholds. *)
Enters(hf, total) == total >= 1 /\ hf >= 2 * total
Exits(hf, total) == total < 1 \/ hf < total

(* Mutant of Latch: one quiet sample releases the latch. *)
LatchBare(b) == [b EXCEPT !.latched = IF @ THEN ~Exits(b.hf, b.total)
                                       ELSE Enters(b.hf, b.total)]

Latch(b) ==
    IF ~b.latched
    THEN IF Enters(b.hf, b.total) THEN [b EXCEPT !.latched = TRUE, !.below = 0] ELSE b
    ELSE IF ~Exits(b.hf, b.total) THEN [b EXCEPT !.below = 0]
    ELSE IF b.below + 1 >= min_release THEN [b EXCEPT !.latched = FALSE, !.below = 0]
    ELSE [b EXCEPT !.below = @ + 1]

HearBreath(b, x) ==
    LET hf == (x - b.prev) * (x - b.prev)
        moved == [b EXCEPT !.total_ring[b.write] = x * x,
                           !.total = @ + x * x - b.total_ring[b.write],
                           !.hf_ring[b.write] = hf,
                           !.hf = @ + hf - b.hf_ring[b.write],
                           !.prev = x,
                           !.write = Advance(@),
                           !.filled = @ \/ Advance(b.write) = 1]
        latch == IF moved.filled THEN Latch(moved) ELSE moved
    IN [latch EXCEPT !.out = Append(@, IF moved.filled /\ latch.latched THEN 1 ELSE 0)]

-----------------------------------------------------------------------------
(* PitchYin and Vibrato. *)

NoEstimate == <<>>
NewHeld == [ring |-> [i \in 0..window_samples - 1 |-> 0], write |-> 0, since |-> 0, total |-> 0,
            estimate |-> NoEstimate]

(* The window is read from the oldest sample, where the next one will be written. *)
Analyse(h) == [j \in 1..window_samples |-> h.ring[(h.write + j - 1) % window_samples]]

(* Mutant of Due: the first analysis does not wait for a full window. *)
DueEarly(h) == h.since >= hop_samples

Due(h) == h.since >= hop_samples /\ h.total >= window_samples

HearHeld(h, x) ==
    LET moved == [h EXCEPT !.ring[h.write] = x, !.write = (@ + 1) % window_samples,
                           !.since = @ + 1, !.total = Saturated(@, window_samples)]
    IN IF Due(moved) THEN [moved EXCEPT !.since = 0, !.estimate = Analyse(moved)]
       ELSE moved

-----------------------------------------------------------------------------
DetectorsInit ==
    /\ onset = NewOnset
    /\ breath = NewBreath
    /\ hop_held = NewHeld
    /\ heard = <<>>
    /\ pulses = <<>>
    /\ breaths = <<>>
    /\ resets = 0

(* The nodes after each sample of a block. *)
Hear(nodes, x) == [onset |-> HearOnset(nodes.onset, x), breath |-> HearBreath(nodes.breath, x),
                   held |-> HearHeld(nodes.held, x)]
AfterEach(nodes, samples) ==
    LET after[k \in 0..Len(samples)] ==
            IF k = 0 THEN nodes ELSE Hear(after[k - 1], samples[k])
    IN after

(* Every output of a block starts at zero; nothing of the last block is left in it. *)
BlockStart == [onset |-> [onset EXCEPT !.out = <<>>], breath |-> [breath EXCEPT !.out = <<>>],
               held |-> hop_held]

ProcessBlock(samples) ==
    /\ Len(heard) + Len(samples) <= MaxSamples
    /\ LET nodes == AfterEach(BlockStart, samples)[Len(samples)]
       IN onset' = nodes.onset /\ breath' = nodes.breath /\ hop_held' = nodes.held
    /\ heard' = heard \o samples
    /\ pulses' = pulses \o onset'.out
    /\ breaths' = breaths \o breath'.out
    /\ UNCHANGED resets

(* Mutant of Fresh: the rings are cleared, the latch and the held estimate are not. *)
FreshRings == [onset |-> NewOnset,
               breath |-> [NewBreath EXCEPT !.latched = breath.latched],
               held |-> [NewHeld EXCEPT !.estimate = hop_held.estimate]]

(* prepare and reset put every field back. *)
Fresh == [onset |-> NewOnset, breath |-> NewBreath, held |-> NewHeld]

ResetDetectors ==
    /\ resets = 0 /\ heard # <<>>
    /\ resets' = 1
    /\ onset' = Fresh.onset
    /\ breath' = Fresh.breath
    /\ hop_held' = Fresh.held
    /\ heard' = <<>>
    /\ pulses' = <<>>
    /\ breaths' = <<>>

DetectorsNext ==
    \/ \E n \in BlockSizes : \E samples \in [1..n -> Levels] : ProcessBlock(samples)
    \/ ResetDetectors

DetectorsSpec == DetectorsInit /\ [][DetectorsNext]_detector_vars

-----------------------------------------------------------------------------
(* Of the samples h: the energy of the frame that ends at the i-th, straight from them. *)
Energy(h, i) == SumOf([j \in 1..frame_samples |-> h[i - frame_samples + j] * h[i - frame_samples + j]])
SampleAt(h, i) == IF i = 0 THEN 0 ELSE h[i]
Rise(h, i) == SampleAt(h, i) - SampleAt(h, i - 1)
HighFrequency(h, i) ==
    SumOf([j \in 1..frame_samples |-> Rise(h, i - frame_samples + j) * Rise(h, i - frame_samples + j)])
FullFrames(h) == frame_samples..Len(h)

(* The baseline after the i-th sample, of the samples h and their pulses p. *)
Baseline(h, p) ==
    LET after[i \in FullFrames(h)] ==
            IF i = frame_samples \/ p[i] = 1 THEN Level(Energy(h, i))
            ELSE Toward(after[i - 1], Level(Energy(h, i)))
    IN after

(* A pulse is where the energy of the last frame rises above the baseline, once in
   min_separation samples, and never before there is a baseline to rise above: the
   cuts between blocks and all that was before a reset make no difference. *)
OnsetsAreTheRises ==
    /\ Len(pulses) = Len(heard)
    /\ \A i \in DOMAIN pulses :
         (pulses[i] = 1) <=>
            /\ i > frame_samples
            /\ Level(Energy(heard, i)) - Baseline(heard, pulses)[i - 1] > onset_threshold
            /\ \A j \in 1..i - 1 : pulses[j] = 1 => i - j >= min_separation

(* A release of no samples takes one all the same. *)
release_samples == IF min_release > 0 THEN min_release ELSE 1

Released(h, j, i) ==
    \E k \in j + 1..i :
        /\ k - j >= release_samples
        /\ \A l \in k - release_samples + 1..k : Exits(HighFrequency(h, l), Energy(h, l))

(* Breath is on from a sample that enters until min_release samples in a row have
   been below the exit, and off otherwise. *)
BreathHoldsItsLatch ==
    /\ Len(breaths) = Len(heard)
    /\ \A i \in DOMAIN breaths :
         (breaths[i] = 1) <=>
            \E j \in FullFrames(heard) :
                /\ j <= i
                /\ Enters(HighFrequency(heard, j), Energy(heard, j))
                /\ ~Released(heard, j, i)

(* At the end of any block the held estimate is of the latest window that was due:
   a full one, in the order it was heard, less than one hop old. *)
first_due == IF window_samples > hop_samples THEN window_samples ELSE hop_samples
LastDue(n) == first_due + hop_samples * ((n - first_due) \div hop_samples)
EstimateIsOfTheLatestHop ==
    LET n == Len(heard)
    IN hop_held.estimate =
         IF n < first_due THEN NoEstimate
         ELSE SubSeq(heard, LastDue(n) - window_samples + 1, LastDue(n))

(* Of any cut of the input into blocks, and after a reset, the detectors answer the
   samples alone. *)
DetectorsFollowTheirInput ==
    OnsetsAreTheRises /\ BreathHoldsItsLatch /\ EstimateIsOfTheLatestHop
=============================================================================
