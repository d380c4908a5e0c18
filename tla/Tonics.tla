-------------------------------- MODULE Tonics --------------------------------
(***************************************************************************)
(* A song on its way through captures, picks and retunings, in any order   *)
(* (coach-game/src: game/note_dial.rs, game/scale_picker.rs,               *)
(* menu/settings/music.rs), and whether the arithmetic of Music holds      *)
(* together wherever it gets to.  How the same steps travel between the    *)
(* head and the coach is in Tonality.                                      *)
(***************************************************************************)
EXTENDS Music

CONSTANT Pitches            \* pitches that may be sung

ASSUME PitchesAreSteps == Pitches \subseteq Int

VARIABLES
    song,                   \* AppSettings and SongTonality
    song_begun              \* history: a step was taken

song_vars == <<song, song_begun>>

SongInit ==
    /\ song \in [kind : Kinds, reference : References, scale : {DefaultScale}]
    /\ song_begun = FALSE

(* handle_hub_capture: the tuning is the settings', the mask the song's. *)
CaptureSa(pitch) ==
    song' = [song EXCEPT !.scale = CaptureScale(AbsoluteOf(song), @, pitch)]

(* handle_row_click: one of the scales of the song's grid. *)
PickScale ==
    \E i \in DOMAIN ScalesFor(SlotsOf(song.scale)) :
        song' = [song EXCEPT !.scale = SelectScale(@, ScalesFor(SlotsOf(@))[i])]

(* handle_tuning_kind_click, handle_reference_hz_click: the song is left as it is. *)
Retune == \E kind \in Kinds, hz \in References :
              song' = [song EXCEPT !.kind = kind, !.reference = hz]

SongNext ==
    /\ song_begun' = TRUE
    /\ (\E pitch \in Pitches : CaptureSa(pitch)) \/ PickScale \/ Retune

SongSpec == SongInit /\ [][SongNext]_song_vars

-----------------------------------------------------------------------------
(* The line of a slot, in an octave counted from the root of the tuning. *)
LineAt(tuning, slot, octave) ==
    tuning.rotation + CumulativeRotationTo(tuning.intervals, slot) + octave * Octave

(* The pitch on that line, in the register a capture leaves it in.  Rotation keeps the
   place in the octave of the line, not the octave that the root and the gaps to the line
   make up together: from there on the line is an octave lower than it was resolved. *)
CapturedAt(tuning, line) ==
    LET from_origin == tuning.rotation + CumulativeRotationTo(tuning.intervals, line.slot)
    IN LineAt(tuning, line.slot, line.octave) - (IF from_origin < Octave THEN 0 ELSE Octave)

(* A pitch resolves to the line nearest to it of all. *)
PitchFindsItsLine(tuning, pitch) ==
    LET line == Resolve(tuning, pitch)
        found == LineAt(tuning, line.slot, line.octave)
    IN \A slot \in 0..Len(tuning.intervals) - 1,
          octave \in line.octave - 1..line.octave + 1 :
         Distance(pitch, found) <= Distance(pitch, LineAt(tuning, slot, octave))

(* However a tuning is rotated its lines stay where they are, and down undoes up. *)
RotationMovesNoLine(rotated) ==
    LET n == Slots(rotated)
    IN \A i \in 0..n - 1 :
         /\ Fract(Rotation(rotated) + CumulativeRotationTo(RotatedIntervals(rotated), i)) =
              Fract(LineAt(rotated.tuning, (rotated.start + i) % n, 0))
         /\ ShiftDown(ShiftUp(rotated, i), i) = rotated

(* The degrees climb, the octave of one is the same slot, and each is sung where its
   tick is lit. *)
DegreesAreWhereTheyAreDrawn(scale) ==
    LET n == SlotsOf(scale)
        notes == Cardinality(scale.mask)
        slots == BuildSlots(scale)
    IN (\A d \in 0..notes - 1 : HasSlot(scale.mask, d, n)) =>
         \A d \in 0..notes - 1 :
           LET slot == SlotOfDegree(scale.mask, d, n)
           IN /\ PitchAt(scale, d) < PitchAt(scale, d + 1)
              /\ PitchAt(scale, d + notes) = PitchAt(scale, d) + Octave
              /\ slots[slot + 1].active
              /\ CurrentSlot(slots, NeedleAngle(scale, PitchAt(scale, d))) = slot + 1

(* In any tuning and any song the arithmetic agrees with itself: the pitch sung is
   resolved to the line nearest to it; capturing it keeps the mask and puts the tonic on
   that line, in the register it was resolved in, which tuning.rs and the dial's model.rs
   say of every capture, or an octave below where the line is past the octave of the
   tuning's root; rotating moves no line, a scale is what its widths say, and every
   degree sounds where the dial lights it. *)
MusicAgrees ==
    song_begun =>
        LET absolute == AbsoluteOf(song)
            scale == song.scale
        IN /\ RotationMovesNoLine(scale.tuning)
           /\ DegreesAreWhereTheyAreDrawn(scale)
           /\ FromWidths(Widths(scale.mask, SlotsOf(scale))) =
                {slot \in scale.mask : slot < SlotsOf(scale)}
           /\ \A pitch \in Pitches :
                LET line == Resolve(absolute, pitch)
                    captured == CaptureScale(absolute, scale, pitch)
                IN /\ PitchFindsItsLine(absolute, pitch)
                   /\ captured.mask = scale.mask
                   /\ PitchAt(captured, 0) = CapturedAt(absolute, line)
=============================================================================
