--------------------------- MODULE Tonality_proofs ---------------------------
(***************************************************************************)
(* The head and the coach agree on a scale: the proof, for every catalogue *)
(* and tuning, and for every number of visits and clicks.  And the         *)
(* arithmetic of pitches, tunings and scales agrees with itself wherever a *)
(* song gets to.                                                           *)
(***************************************************************************)
EXTENDS Tonality, Tonics, ProofFacts, FiniteSetTheorems

-----------------------------------------------------------------------------
(* The invariant.                                                          *)

IsQueue(s) == \E S : s \in Seq(S)

Configures(i) == mailbox[i].cmd = "MusicConfigureSession"

(* A queue holds commands of both kinds; every scale sent is one. *)
QueueInv ==
    /\ IsQueue(mailbox)
    /\ IsQueue(outbox)
    /\ \A i \in DOMAIN mailbox :
         \/ mailbox[i].cmd = "MusicListScales"
         \/ Configures(i) /\ mailbox[i].scale # NoModel
    /\ song_tonality # NoModel
    /\ visits \in Nat

(* Since the first visit of the game the last scale sent is the song's. *)
SongIsComing ==
    \E i \in DOMAIN mailbox :
        /\ Configures(i) /\ mailbox[i].scale = song_tonality
        /\ \A j \in DOMAIN mailbox : j > i => ~Configures(j)
SongIsHeld == session_model = song_tonality /\ \A j \in DOMAIN mailbox : ~Configures(j)
SentInv ==
    /\ visits > 0 => SongIsComing \/ SongIsHeld
    /\ game_shown => visits > 0

(* What the head knows is what the coach holds, or the coach has told it to look. *)
Told == \E i \in DOMAIN outbox : outbox[i].event = "configured"
KnownInv ==
    /\ music_info = session_model \/ Told
    /\ Told => session_model # NoModel

(* The dial has the slots of what the head knows, or will be painted for it. *)
DialInv ==
    game_shown =>
        \/ "repaint_slots" \in unread
        \/ music_info # NoModel /\ dial.slots = BuildSlots(music_info)
        \/ dial.slots = <<>> /\ (music_info = NoModel \/ "repaint_slots" \in to_run)

(* Before the head knows a scale the dial has no slots. *)
BlankInv == game_shown /\ music_info = NoModel => dial.slots = <<>>

(* An overlay that should not be there will be taken away, and its rows are the scales
   the head knows, or will be. *)
OverlayInv ==
    overlay # Nothing =>
        /\ showing_picker \/ "sync_picker" \in unread
        /\ overlay = known_scales \/ unread \cap {"sync_rows", "sync_picker"} # {}

TonalityInv == QueueInv /\ SentInv /\ KnownInv /\ DialInv /\ BlankInv /\ OverlayInv

-----------------------------------------------------------------------------
(* Queues. *)

Added(s, x, t) ==
    /\ IsQueue(t)
    /\ Len(s) \in Nat /\ DOMAIN s = 1..Len(s)
    /\ DOMAIN t = 1..(Len(s) + 1)
    /\ t[Len(s) + 1] = x
    /\ \A i \in DOMAIN s : i \in DOMAIN t /\ t[i] = s[i]

LEMMA AppendAdds ==
  ASSUME NEW s, IsQueue(s), NEW x, NEW t, t = Append(s, x)
  PROVE  Added(s, x, t)
<1>1. PICK S : s \in Seq(S) BY DEF IsQueue
<1>2. s \in Seq(S \cup {x}) BY <1>1
<1>3. t \in Seq(S \cup {x}) BY <1>2
<1>4. IsQueue(t) BY <1>3 DEF IsQueue
<1>5. QED BY <1>2, <1>3, <1>4 DEF Added

LEMMA TailShifts ==
  ASSUME NEW s, IsQueue(s), s # <<>>, NEW t, t = Tail(s)
  PROVE  /\ IsQueue(t)
         /\ Len(s) \in Nat \ {0} /\ DOMAIN s = 1..Len(s) /\ Head(s) = s[1]
         /\ DOMAIN t = 1..(Len(s) - 1)
         /\ \A i \in DOMAIN t : t[i] = s[i + 1]
<1>1. PICK S : s \in Seq(S) BY DEF IsQueue
<1>2. t \in Seq(S) BY <1>1
<1>3. IsQueue(t) BY <1>2 DEF IsQueue
<1>4. QED BY <1>1, <1>2, <1>3

(* A captured or selected scale is one. *)
LEMMA ScaleIsModel == ASSUME NEW m, NEW t, NEW o PROVE Scale(m, t, o) # NoModel
BY DEF Scale, NoModel

LEMMA CommandIsRead ==
  ASSUME NEW scale
  PROVE  /\ ConfigureSession(scale).cmd = "MusicConfigureSession"
         /\ ConfigureSession(scale).scale = scale
BY DEF ConfigureSession

-----------------------------------------------------------------------------
LEMMA TonalityStarts == TonalityInit => TonalityInv
<1>. SUFFICES ASSUME TonalityInit PROVE TonalityInv
  OBVIOUS
<1>0. mailbox \in Seq({}) /\ outbox \in Seq({}) BY DEF TonalityInit
<1>1. IsQueue(mailbox) /\ IsQueue(outbox) BY <1>0 DEF IsQueue
<1>2. QueueInv BY <1>1, DefaultIsAScale DEF TonalityInit, QueueInv
<1>3. SentInv /\ KnownInv BY DEF TonalityInit, SentInv, KnownInv, Told
<1>4. DialInv /\ BlankInv /\ OverlayInv
  BY DEF TonalityInit, DialInv, BlankInv, OverlayInv
<1>5. QED BY <1>2, <1>3, <1>4 DEF TonalityInv

(* A step that leaves the queues, the song and the models alone. *)
LEMMA QueuesStand ==
  ASSUME TonalityInv, UNCHANGED <<coach_side, song_tonality, music_info, visits>>,
         game_shown' => game_shown
  PROVE  QueueInv' /\ SentInv' /\ KnownInv'
<1>1. UNCHANGED <<mailbox, session_model, outbox>> BY DEF coach_side
<1>2. QueueInv' BY <1>1 DEF TonalityInv, QueueInv, Configures
<1>3. SentInv' BY <1>1 DEF TonalityInv, SentInv, SongIsComing, SongIsHeld, Configures
<1>4. KnownInv' BY <1>1 DEF TonalityInv, KnownInv, Told
<1>5. QED BY <1>2, <1>3, <1>4

(* Sending the song's scale makes it the last one sent. *)
LEMMA ConfigureSends ==
  ASSUME TonalityInv, Configure(song_tonality'), song_tonality' # NoModel,
         UNCHANGED <<session_model, outbox, music_info>>, visits' \in Nat,
         game_shown' => visits' > 0
  PROVE  QueueInv' /\ SentInv' /\ KnownInv'
<1>. DEFINE sent == ConfigureSession(song_tonality')
<1>1. mailbox' = Append(mailbox, sent) BY DEF Configure
<1>2. sent.cmd = "MusicConfigureSession" /\ sent.scale = song_tonality' BY CommandIsRead
<1>. HIDE DEF sent
<1>3. IsQueue(mailbox) BY DEF TonalityInv, QueueInv
<1>4. /\ IsQueue(mailbox')
      /\ Len(mailbox) \in Nat /\ DOMAIN mailbox = 1..Len(mailbox)
      /\ DOMAIN mailbox' = 1..(Len(mailbox) + 1)
      /\ mailbox'[Len(mailbox) + 1] = sent
      /\ \A i \in DOMAIN mailbox : mailbox'[i] = mailbox[i]
  <2>1. Added(mailbox, sent, mailbox') BY <1>1, <1>3, AppendAdds
  <2>2. QED BY <2>1 DEF Added
<1>5. \A i \in DOMAIN mailbox' : i = Len(mailbox) + 1 \/ i \in DOMAIN mailbox BY <1>4
<1>6. QueueInv' BY <1>2, <1>4, <1>5 DEF TonalityInv, QueueInv, Configures
<1>7. SongIsComing' BY <1>2, <1>4 DEF SongIsComing, Configures
<1>8. SentInv' BY <1>7 DEF SentInv
<1>9. KnownInv' BY DEF TonalityInv, KnownInv, Told
<1>10. QED BY <1>6, <1>8, <1>9

(* Asking for the scales leaves the last one sent. *)
LEMMA AskSends ==
  ASSUME TonalityInv, mailbox' = Append(mailbox, [cmd |-> "MusicListScales"]),
         UNCHANGED <<session_model, outbox, music_info, song_tonality, visits, game_shown>>
  PROVE  QueueInv' /\ SentInv' /\ KnownInv'
<1>. DEFINE sent == [cmd |-> "MusicListScales"]
<1>1. mailbox' = Append(mailbox, sent) /\ sent.cmd = "MusicListScales" OBVIOUS
<1>. HIDE DEF sent
<1>2. IsQueue(mailbox) BY DEF TonalityInv, QueueInv
<1>3. /\ IsQueue(mailbox')
      /\ Len(mailbox) \in Nat /\ DOMAIN mailbox = 1..Len(mailbox)
      /\ DOMAIN mailbox' = 1..(Len(mailbox) + 1)
      /\ mailbox'[Len(mailbox) + 1] = sent
      /\ \A i \in DOMAIN mailbox : mailbox'[i] = mailbox[i]
  <2>1. Added(mailbox, sent, mailbox') BY <1>1, <1>2, AppendAdds
  <2>2. QED BY <2>1 DEF Added
<1>4. \A i \in DOMAIN mailbox' : i = Len(mailbox) + 1 \/ i \in DOMAIN mailbox BY <1>3
<1>5. QueueInv' BY <1>1, <1>3, <1>4 DEF TonalityInv, QueueInv, Configures
<1>6. SongIsComing => SongIsComing'
  BY <1>1, <1>3, <1>4 DEF SongIsComing, Configures
<1>7. SongIsHeld => SongIsHeld'
  BY <1>1, <1>3, <1>4 DEF SongIsHeld, Configures
<1>8. SentInv' BY <1>6, <1>7 DEF TonalityInv, SentInv
<1>9. KnownInv' BY DEF TonalityInv, KnownInv, Told
<1>10. QED BY <1>5, <1>8, <1>9

(* The coach takes a command: the song's scale is its own when it takes the last one. *)
LEMMA CoachKeeps == TonalityInv /\ CoachTakesCommand => TonalityInv'
<1>. SUFFICES ASSUME TonalityInv, CoachTakesCommand PROVE TonalityInv'
  OBVIOUS
<1>1. /\ mailbox # <<>> /\ mailbox' = Tail(mailbox)
      /\ UNCHANGED <<screen_side, song_tonality, music_info, known_scales, unread, to_run,
                     visits>>
  BY DEF CoachTakesCommand
<1>2. IsQueue(mailbox) BY DEF TonalityInv, QueueInv
<1>3. /\ IsQueue(mailbox')
      /\ Len(mailbox) \in Nat \ {0} /\ DOMAIN mailbox = 1..Len(mailbox)
      /\ Head(mailbox) = mailbox[1]
      /\ DOMAIN mailbox' = 1..(Len(mailbox) - 1)
      /\ \A i \in DOMAIN mailbox' : mailbox'[i] = mailbox[i + 1]
  BY <1>1, <1>2, TailShifts
<1>4. \A i \in DOMAIN mailbox' : i + 1 \in DOMAIN mailbox /\ i + 1 > 1 BY <1>3
<1>5. \A i \in DOMAIN mailbox : i > 1 => i - 1 \in DOMAIN mailbox' BY <1>3
<1>6. IsQueue(outbox) BY DEF TonalityInv, QueueInv
<1>7. DialInv' /\ BlankInv' /\ OverlayInv'
  BY <1>1 DEF TonalityInv, DialInv, BlankInv, OverlayInv, screen_side
<1>8. CASE mailbox[1].cmd = "MusicListScales"
  <2>. DEFINE answer == [event |-> "listed", shapes |-> ListedFor(session_model)]
  <2>1. outbox' = Append(outbox, answer) /\ session_model' = session_model
    BY <1>3, <1>8 DEF CoachTakesCommand, AnswerListScales
  <2>2. answer.event # "configured" OBVIOUS
  <2>. HIDE DEF answer
  <2>3. /\ IsQueue(outbox')
        /\ Len(outbox) \in Nat /\ DOMAIN outbox = 1..Len(outbox)
        /\ DOMAIN outbox' = 1..(Len(outbox) + 1)
        /\ outbox'[Len(outbox) + 1] = answer
        /\ \A i \in DOMAIN outbox : i \in DOMAIN outbox' /\ outbox'[i] = outbox[i]
    <3>1. Added(outbox, answer, outbox') BY <2>1, <1>6, AppendAdds
    <3>2. QED BY <3>1 DEF Added
  <2>4. \A i \in DOMAIN outbox' : i = Len(outbox) + 1 \/ i \in DOMAIN outbox BY <2>3
  <2>5. QueueInv' BY <1>1, <1>3, <1>4, <2>3 DEF TonalityInv, QueueInv, Configures
  <2>6. Told' <=> Told BY <2>2, <2>3, <2>4 DEF Told
  <2>7. KnownInv' BY <1>1, <2>1, <2>6 DEF TonalityInv, KnownInv
  <2>8. ASSUME SongIsComing PROVE SongIsComing'
    <3>1. PICK i \in DOMAIN mailbox : /\ Configures(i) /\ mailbox[i].scale = song_tonality
                                      /\ \A j \in DOMAIN mailbox : j > i => ~Configures(j)
      BY <2>8 DEF SongIsComing
    <3>2. i > 1 /\ i \in Nat BY <3>1, <1>3, <1>8 DEF Configures
    <3>3. i - 1 \in DOMAIN mailbox' /\ mailbox'[i - 1] = mailbox[i]
      BY <3>2, <1>3, <1>5
    <3>4. \A j \in DOMAIN mailbox' : j > i - 1 => ~Configures(j + 1)
      BY <3>1, <3>2, <1>3, <1>4
    <3>5. QED BY <1>1, <1>3, <3>1, <3>3, <3>4 DEF SongIsComing, Configures
  <2>9. ASSUME SongIsHeld PROVE SongIsHeld'
    BY <1>1, <1>3, <1>4, <2>1, <2>9 DEF SongIsHeld, Configures
  <2>10. SentInv' BY <1>1, <2>8, <2>9 DEF TonalityInv, SentInv, screen_side
  <2>11. QED BY <1>7, <2>5, <2>7, <2>10 DEF TonalityInv
<1>9. CASE mailbox[1].cmd # "MusicListScales"
  <2>. DEFINE answer == [event |-> "configured"]
  <2>0. Configures(1) /\ mailbox[1].scale # NoModel
    BY <1>3, <1>9 DEF TonalityInv, QueueInv
  <2>1. outbox' = Append(outbox, answer) /\ session_model' = mailbox[1].scale
    BY <1>3, <1>9 DEF CoachTakesCommand, AnswerConfigure
  <2>2. answer.event = "configured" OBVIOUS
  <2>. HIDE DEF answer
  <2>3. /\ IsQueue(outbox')
        /\ Len(outbox) \in Nat
        /\ DOMAIN outbox' = 1..(Len(outbox) + 1)
        /\ outbox'[Len(outbox) + 1] = answer
    <3>1. Added(outbox, answer, outbox') BY <2>1, <1>6, AppendAdds
    <3>2. QED BY <3>1 DEF Added
  <2>5. QueueInv' BY <1>1, <1>3, <1>4, <2>3 DEF TonalityInv, QueueInv, Configures
  <2>6. Told' BY <2>2, <2>3 DEF Told
  <2>7. KnownInv' BY <2>0, <2>1, <2>6 DEF KnownInv
  <2>8. ASSUME SongIsComing PROVE SongIsComing' \/ SongIsHeld'
    <3>1. PICK i \in DOMAIN mailbox : /\ Configures(i) /\ mailbox[i].scale = song_tonality
                                      /\ \A j \in DOMAIN mailbox : j > i => ~Configures(j)
      BY <2>8 DEF SongIsComing
    <3>2. i \in Nat /\ i >= 1 BY <3>1, <1>3
    <3>3. CASE i = 1
      <4>1. \A j \in DOMAIN mailbox' : ~Configures(j + 1) BY <3>1, <3>3, <1>4
      <4>2. QED BY <1>1, <1>3, <2>1, <3>1, <3>3, <4>1 DEF SongIsHeld, Configures
    <3>4. CASE i > 1
      <4>1. i - 1 \in DOMAIN mailbox' /\ mailbox'[i - 1] = mailbox[i]
        BY <3>2, <3>4, <1>3, <1>5
      <4>2. \A j \in DOMAIN mailbox' : j > i - 1 => ~Configures(j + 1)
        BY <3>1, <3>2, <1>3, <1>4
      <4>3. QED BY <1>1, <1>3, <3>1, <4>1, <4>2 DEF SongIsComing, Configures
    <3>5. QED BY <3>2, <3>3, <3>4
  <2>9. ~SongIsHeld BY <1>3, <2>0 DEF SongIsHeld
  <2>10. SentInv' BY <1>1, <2>8, <2>9 DEF TonalityInv, SentInv, screen_side
  <2>11. QED BY <1>7, <2>5, <2>7, <2>10 DEF TonalityInv
<1>10. QED BY <1>8, <1>9

(* A poll takes every answer: the head knows what the coach holds now. *)
LEMMA DrainKeeps ==
  ASSUME TonalityInv, NEW pitch, DrainAnswers(pitch) PROVE TonalityInv'
<1>1. /\ outbox' = <<>>
      /\ music_info' = IF Told THEN session_model ELSE music_info
      /\ UNCHANGED <<screen_side, mailbox, session_model, song_tonality, visits>>
      /\ unread \subseteq unread'
      /\ Told => "repaint_slots" \in unread'
      /\ known_scales' = known_scales \/ "sync_rows" \in unread'
      /\ "drain" \in to_run /\ to_run' = to_run \ {"drain"}
  BY DEF DrainAnswers, Told
<1>2. IsQueue(outbox') /\ ~Told'
  <2>1. outbox' \in Seq({}) BY <1>1
  <2>2. QED BY <1>1, <2>1 DEF IsQueue, Told
<1>3. QueueInv' BY <1>1, <1>2 DEF TonalityInv, QueueInv, Configures
<1>4. SentInv'
  BY <1>1 DEF TonalityInv, SentInv, SongIsComing, SongIsHeld, Configures, screen_side
<1>5. KnownInv' BY <1>1, <1>2 DEF TonalityInv, KnownInv
<1>6. DialInv' BY <1>1 DEF TonalityInv, DialInv, screen_side
<1>7. BlankInv' BY <1>1 DEF TonalityInv, BlankInv, KnownInv, screen_side
<1>8. OverlayInv' BY <1>1 DEF TonalityInv, OverlayInv, screen_side
<1>9. QED BY <1>3, <1>4, <1>5, <1>6, <1>7, <1>8 DEF TonalityInv

(* Whatever a handler does, the dial and the overlay stand or are marked. *)
LEMMA HandlersKeep == TonalityInv /\ RunHandlers => TonalityInv'
<1>. SUFFICES ASSUME TonalityInv, RunHandlers PROVE TonalityInv'
  OBVIOUS
<1>1. /\ to_run' = to_run \ {"handlers"}
      /\ UNCHANGED <<game_shown, overlay, dial, session_model, outbox, music_info,
                     known_scales, visits>>
  BY DEF RunHandlers
<1>2. visits \in Nat /\ (game_shown => visits > 0)
  BY DEF TonalityInv, QueueInv, SentInv
<1>3. /\ unread \subseteq unread'
      /\ showing_picker' = showing_picker \/ "sync_picker" \in unread'
  BY DEF RunHandlers, HandleHubCapture, HandleHudClick, HandleRowClick, HandleCloseClick,
         SetShowing
<1>4. DialInv' /\ BlankInv' BY <1>1, <1>3 DEF TonalityInv, DialInv, BlankInv
<1>5. OverlayInv' BY <1>1, <1>3 DEF TonalityInv, OverlayInv
<1>6. CASE UNCHANGED <<song_tonality, mailbox>>
  BY <1>1, <1>4, <1>5, <1>6, QueuesStand DEF TonalityInv, coach_side
<1>7. CASE Configure(song_tonality') /\ song_tonality' # NoModel
  BY <1>1, <1>2, <1>4, <1>5, <1>7, ConfigureSends DEF TonalityInv
<1>8. CASE /\ mailbox' = Append(mailbox, [cmd |-> "MusicListScales"])
           /\ UNCHANGED song_tonality
  BY <1>1, <1>4, <1>5, <1>8, AskSends DEF TonalityInv
<1>9. \/ UNCHANGED <<song_tonality, mailbox>>
      \/ Configure(song_tonality') /\ song_tonality' # NoModel
      \/ /\ mailbox' = Append(mailbox, [cmd |-> "MusicListScales"])
         /\ UNCHANGED song_tonality
  <2>1. CASE HandleHubCapture
    <3>1. CaptureScale(AbsoluteOf(app_settings), song_tonality, sung) # NoModel
      BY ScaleIsModel DEF CaptureScale
    <3>2. QED BY <2>1, <3>1 DEF HandleHubCapture, Configure
  <2>2. CASE HandleHudClick BY <2>2 DEF HandleHudClick
  <2>3. CASE HandleRowClick
    <3>1. SelectScale(song_tonality, known_scales[clicked.row]) # NoModel
      BY ScaleIsModel DEF SelectScale
    <3>2. QED BY <2>3, <3>1 DEF HandleRowClick, Configure
  <2>4. CASE HandleCloseClick BY <2>4 DEF HandleCloseClick
  <2>5. CASE clicked = NoClick /\ UNCHANGED <<song_tonality, mailbox>> BY <2>5
  <2>6. QED BY <2>1, <2>2, <2>3, <2>4, <2>5 DEF RunHandlers
<1>10. QED BY <1>6, <1>7, <1>8, <1>9

(* A painter leaves alone all but what it paints. *)
LEMMA PaintersKeep == TonalityInv /\ (SyncPicker \/ SyncRows \/ PaintDial) => TonalityInv'
<1>. SUFFICES ASSUME TonalityInv, NEW painter \in Painters, RunPainter(painter),
                     \/ painter = "sync_picker" /\ SyncPicker
                     \/ painter = "sync_rows" /\ SyncRows
                     \/ painter = "repaint_slots" /\ PaintDial
              PROVE  TonalityInv'
  BY DEF SyncPicker, SyncRows, PaintDial, Painters
<1>1. /\ painter \in to_run /\ to_run' = to_run \ {painter}
      /\ unread' = unread \ {painter}
      /\ UNCHANGED <<coach_side, game_shown, showing_picker, song_tonality, music_info,
                     known_scales, visits>>
  BY DEF RunPainter
<1>2. QueueInv' /\ SentInv' /\ KnownInv' BY <1>1, QueuesStand
<1>3. CASE painter = "sync_picker" /\ SyncPicker
  <2>1. /\ dial' = dial
        /\ overlay' = IF "sync_picker" \notin unread THEN overlay
                      ELSE IF showing_picker THEN known_scales ELSE Nothing
    BY <1>3 DEF SyncPicker
  <2>2. DialInv' /\ BlankInv' BY <1>1, <1>3, <2>1 DEF TonalityInv, DialInv, BlankInv
  <2>3. OverlayInv' BY <1>1, <1>3, <2>1 DEF TonalityInv, OverlayInv
  <2>4. QED BY <1>2, <2>2, <2>3 DEF TonalityInv
<1>4. CASE painter = "sync_rows" /\ SyncRows
  <2>1. /\ dial' = dial
        /\ overlay' = IF showing_picker /\ "sync_rows" \in unread /\ overlay # Nothing
                      THEN known_scales ELSE overlay
    BY <1>4 DEF SyncRows
  <2>2. DialInv' /\ BlankInv' BY <1>1, <1>4, <2>1 DEF TonalityInv, DialInv, BlankInv
  <2>3. OverlayInv' BY <1>1, <1>4, <2>1 DEF TonalityInv, OverlayInv
  <2>4. QED BY <1>2, <2>2, <2>3 DEF TonalityInv
<1>5. CASE painter = "repaint_slots" /\ PaintDial
  <2>1. /\ overlay' = overlay
        /\ dial'.slots = IF music_info # NoModel /\ NeedsSlots THEN BuildSlots(music_info)
                         ELSE dial.slots
    BY <1>5 DEF PaintDial
  <2>2. BlankInv' BY <1>1, <2>1 DEF TonalityInv, BlankInv
  <2>3. DialInv'
    <3>1. CASE music_info = NoModel BY <1>1, <2>2, <3>1 DEF DialInv, BlankInv
    <3>2. CASE music_info # NoModel
      BY <1>1, <2>1, <3>2 DEF TonalityInv, DialInv, NeedsSlots, BuildSlots
    <3>3. QED BY <3>1, <3>2
  <2>4. OverlayInv' BY <1>1, <1>5, <2>1 DEF TonalityInv, OverlayInv
  <2>5. QED BY <1>2, <2>2, <2>3, <2>4 DEF TonalityInv
<1>6. QED BY <1>3, <1>4, <1>5

(* Screens come and go; entering the game sends the song's scale. *)
LEMMA ScreensKeep ==
  TonalityInv /\ (\/ EnterGameScreen \/ LeaveGameScreen \/ BeginGameFrame
                  \/ BeginMenuFrame \/ ClickSettings) => TonalityInv'
<1>1. ASSUME TonalityInv, EnterGameScreen PROVE TonalityInv'
  <2>1. /\ visits' = visits + 1 /\ visits \in Nat
        /\ Configure(song_tonality') /\ song_tonality' # NoModel
        /\ UNCHANGED <<session_model, outbox, music_info>>
    BY <1>1 DEF EnterGameScreen, Configure, TonalityInv, QueueInv
  <2>2. visits' \in Nat /\ visits' > 0 BY <2>1
  <2>3. QueueInv' /\ SentInv' /\ KnownInv' BY <1>1, <2>1, <2>2, ConfigureSends
  <2>4. dial'.slots = <<>> /\ "repaint_slots" \in to_run'
    BY <1>1 DEF EnterGameScreen, GameRuns, Painters
  <2>5. DialInv' /\ BlankInv' BY <2>4 DEF DialInv, BlankInv
  <2>6. OverlayInv' BY <1>1 DEF EnterGameScreen, TonalityInv, OverlayInv
  <2>7. QED BY <2>3, <2>5, <2>6 DEF TonalityInv
<1>2. ASSUME TonalityInv, LeaveGameScreen PROVE TonalityInv'
  <2>1. QueueInv' /\ SentInv' /\ KnownInv' BY <1>2, QueuesStand DEF LeaveGameScreen
  <2>2. DialInv' /\ BlankInv' /\ OverlayInv'
    BY <1>2 DEF LeaveGameScreen, DialInv, BlankInv, OverlayInv
  <2>3. QED BY <2>1, <2>2 DEF TonalityInv
<1>3. ASSUME TonalityInv, BeginGameFrame PROVE TonalityInv'
  <2>1. QueueInv' /\ SentInv' /\ KnownInv'
    BY <1>3, QueuesStand DEF BeginGameFrame, screen_side
  <2>2. "repaint_slots" \in to_run' BY <1>3 DEF BeginGameFrame, GameRuns, Painters
  <2>3. DialInv' /\ BlankInv' /\ OverlayInv'
    BY <1>3, <2>2 DEF BeginGameFrame, TonalityInv, DialInv, BlankInv, OverlayInv, screen_side
  <2>4. QED BY <2>1, <2>3 DEF TonalityInv
<1>4. ASSUME TonalityInv, BeginMenuFrame PROVE TonalityInv'
  <2>1. QueueInv' /\ SentInv' /\ KnownInv'
    BY <1>4, QueuesStand DEF BeginMenuFrame, screen_side
  <2>2. DialInv' /\ BlankInv' /\ OverlayInv'
    BY <1>4 DEF BeginMenuFrame, TonalityInv, DialInv, BlankInv, OverlayInv, screen_side
  <2>3. QED BY <2>1, <2>2 DEF TonalityInv
<1>5. ASSUME TonalityInv, ClickSettings PROVE TonalityInv'
  <2>1. QueueInv' /\ SentInv' /\ KnownInv'
    BY <1>5, QueuesStand DEF ClickSettings, screen_side
  <2>2. DialInv' /\ BlankInv' /\ OverlayInv'
    BY <1>5 DEF ClickSettings, TonalityInv, DialInv, BlankInv, OverlayInv, screen_side
  <2>3. QED BY <2>1, <2>2 DEF TonalityInv
<1>6. QED BY <1>1, <1>2, <1>3, <1>4, <1>5

-----------------------------------------------------------------------------
LEMMA TonalityStep == TonalityInv /\ [TonalityNext]_tonality_vars => TonalityInv'
<1>1. ASSUME TonalityInv, UNCHANGED tonality_vars PROVE TonalityInv'
  <2>1. UNCHANGED <<coach_side, screen_side, song_tonality, music_info, known_scales,
                    unread, to_run, visits>>
    BY <1>1 DEF tonality_vars
  <2>2. QueueInv' /\ SentInv' /\ KnownInv' BY <1>1, <2>1, QueuesStand DEF screen_side
  <2>3. DialInv' /\ BlankInv' /\ OverlayInv'
    BY <1>1, <2>1 DEF TonalityInv, DialInv, BlankInv, OverlayInv, screen_side
  <2>4. QED BY <2>2, <2>3 DEF TonalityInv
<1>2. QED
  BY <1>1, CoachKeeps, DrainKeeps, HandlersKeep, PaintersKeep, ScreensKeep
  DEF TonalityNext

LEMMA SettledAgrees == TonalityInv => HeadAndCoachAgree
<1>. SUFFICES ASSUME TonalityInv, IsSettled, game_shown
              PROVE  /\ session_model = song_tonality
                     /\ music_info = session_model
                     /\ dial.slots = BuildSlots(session_model)
                     /\ overlay # Nothing => showing_picker /\ overlay = known_scales
  BY DEF HeadAndCoachAgree
<1>1. /\ mailbox = <<>> /\ outbox = <<>> /\ to_run = {} /\ unread = {}
      /\ DOMAIN mailbox = {} /\ DOMAIN outbox = {}
  BY DEF IsSettled
<1>2. visits > 0 /\ song_tonality # NoModel BY DEF TonalityInv, SentInv, QueueInv
<1>3. session_model = song_tonality
  BY <1>1, <1>2 DEF TonalityInv, SentInv, SongIsComing, SongIsHeld
<1>4. music_info = session_model BY <1>1 DEF TonalityInv, KnownInv, Told
<1>5. dial.slots = BuildSlots(session_model)
  BY <1>1, <1>2, <1>3, <1>4 DEF TonalityInv, DialInv
<1>6. overlay # Nothing => showing_picker /\ overlay = known_scales
  BY <1>1 DEF TonalityInv, OverlayInv
<1>7. QED BY <1>3, <1>4, <1>5, <1>6

(* Whenever commands, answers and painters have come to rest on the game screen, the coach
   holds the song's scale (do_configure_session), the dial has its slots (repaint_slots)
   and an open picker lists what the head knows (sync_picker, sync_rows). *)
THEOREM HeadAndCoachAgreeAlways == TonalitySpec => []HeadAndCoachAgree
<1>1. TonalityInit => TonalityInv BY TonalityStarts
<1>2. TonalityInv /\ [TonalityNext]_tonality_vars => TonalityInv' BY TonalityStep
<1>3. TonalityInv => HeadAndCoachAgree BY SettledAgrees
<1>4. QED BY <1>1, <1>2, <1>3, PTL DEF TonalitySpec

-----------------------------------------------------------------------------
(* Tunings. *)

(* The gaps step up and close the octave. *)
Closes(g) ==
    /\ Len(g) \in 1..MAX_TUNING_SLOTS
    /\ g \in [1..Len(g) -> 1..Octave - 1]
    /\ CumulativeRotationTo(g, Len(g)) = Octave

LEMMA OctaveFacts ==
  Octave \in Nat \ {0} /\ MAX_TUNING_SLOTS \in Nat /\ References \subseteq Int /\ Nothing \notin Int
BY TuningsClimb

\* One turn more is the same place.
LEMMA TurnOn ==
  ASSUME NEW n \in Nat \ {0}, NEW i \in Nat
  PROVE  /\ i % n \in 0..n - 1 /\ (i + n) % n = i % n
         /\ \A s \in Nat : (s + (i % n)) % n = (s + i) % n
<1>1. i % n \in 0..n - 1 /\ Alike(n, i % n, i) BY AlikeRemainder
<1>2. (i + n) % n = i % n
  <2>1. i + n = i + n * 1 /\ 1 \in Int /\ i + n \in Int /\ i \in Int OBVIOUS
  <2>2. Alike(n, i + n, i) BY <2>1 DEF Alike
  <2>. QED BY <2>1, <2>2, RemaindersAgree
<1>3. ASSUME NEW s \in Nat PROVE (s + (i % n)) % n = (s + i) % n
  <2>1. s \in Int /\ i % n \in Int /\ i \in Int BY <1>1
  <2>2. Alike(n, s, s) BY AlikeSame
  <2>3. Alike(n, s + (i % n), s + i) BY <1>1, <2>1, <2>2, AlikeSum
  <2>4. s + (i % n) \in Int /\ s + i \in Int BY <2>1
  <2>. QED BY <2>3, <2>4, RemaindersAgree
<1>. QED BY <1>1, <1>2, <1>3

\* The gap at any place, and that the gaps repeat.
LEMMA GapIs ==
  ASSUME NEW g, Closes(g), NEW i \in Nat
  PROVE  /\ GapAt(g, i) \in 1..Octave - 1
         /\ GapAt(g, i + Len(g)) = GapAt(g, i)
         /\ i < Len(g) => GapAt(g, i) = g[i + 1]
<1>. DEFINE n == Len(g)
<1>1. n \in Nat \ {0} BY OctaveFacts DEF Closes
<1>. HIDE DEF n
<1>2. i % n \in 0..n - 1 /\ (i + n) % n = i % n BY <1>1, TurnOn
<1>3. (i % n) + 1 \in 1..n BY <1>1, <1>2
<1>4. g[(i % n) + 1] \in 1..Octave - 1 BY <1>3 DEF Closes, n
<1>5. i < n => i % n = i BY <1>1, SmallRemainder
<1>. QED BY <1>2, <1>4, <1>5 DEF GapAt, n

\* Lines climb, a gap at a time.
LEMMA LineNext ==
  ASSUME NEW g, Closes(g), NEW i \in Nat
  PROVE  /\ CumulativeRotationTo(g, 0) = 0
         /\ CumulativeRotationTo(g, i) \in Int
         /\ CumulativeRotationTo(g, i + 1) = CumulativeRotationTo(g, i) + GapAt(g, i)
<1>. DEFINE f(m) == [k \in 1..m |-> GapAt(g, k - 1)]
<1>1. \A m \in Nat : \A k \in 1..m : f(m)[k] = GapAt(g, k - 1) /\ f(m)[k] \in Int
  BY GapIs, OctaveFacts
<1>2. CumulativeRotationTo(g, 0) = 0 BY SumNone DEF CumulativeRotationTo
<1>3. CumulativeRotationTo(g, i) = SumTo(f(i), i)
      /\ CumulativeRotationTo(g, i + 1) = SumTo(f(i + 1), i + 1)
  BY DEF CumulativeRotationTo
<1>. HIDE DEF f
<1>4. i + 1 \in Nat /\ \A k \in 1..i : k \in 1..i + 1 OBVIOUS
<1>5. SumTo(f(i), i) \in Int BY <1>1, SumType
<1>6. SumTo(f(i + 1), i + 1) = SumTo(f(i + 1), i) + f(i + 1)[i + 1] BY <1>1, <1>4, SumNext
<1>7. SumTo(f(i), i) = SumTo(f(i + 1), i)
  <2>1. \A k \in 1..i : f(i)[k] \in Int /\ f(i)[k] = f(i + 1)[k] BY <1>1, <1>4
  <2>. QED BY <2>1, SumSame
<1>8. f(i + 1)[i + 1] = GapAt(g, i) BY <1>1, <1>4
<1>. QED BY <1>2, <1>3, <1>5, <1>6, <1>7, <1>8

LEMMA LinesClimb ==
  ASSUME NEW g, Closes(g), NEW i \in Nat, NEW j \in Nat, i < j
  PROVE  CumulativeRotationTo(g, i) < CumulativeRotationTo(g, j)
<1>. DEFINE C(k) == CumulativeRotationTo(g, k)
            T == {k \in i + 1..j : C(i) < C(k)}
<1>1. \A k \in Nat : C(k) \in Int /\ C(k + 1) > C(k)
  <2>. SUFFICES ASSUME NEW k \in Nat PROVE C(k) \in Int /\ C(k + 1) > C(k) OBVIOUS
  <2>1. C(k) \in Int /\ C(k + 1) = C(k) + GapAt(g, k) BY LineNext
  <2>2. GapAt(g, k) \in 1..Octave - 1 BY GapIs
  <2>. QED BY <2>1, <2>2, OctaveFacts
<1>. HIDE DEF C
<1>2. i + 1 \in Nat /\ i + 1 <= j OBVIOUS
<1>3. i + 1 <= j => i + 1 \in T BY <1>1
<1>4. ASSUME NEW k \in i + 1..j, k < j, k \in T PROVE k + 1 \in T
  <2>1. k \in Nat /\ k + 1 \in i + 1..j BY <1>4
  <2>. QED BY <1>1, <1>4, <2>1
<1>5. i + 1..j \subseteq T
  <2>. HIDE DEF T
  <2>. QED BY <1>2, <1>3, <1>4, RangeInduction
<1>6. j \in i + 1..j OBVIOUS
<1>. QED BY <1>5, <1>6 DEF C

\* Once round, an octave up.
LEMMA LinesRepeat ==
  ASSUME NEW g, Closes(g), NEW i \in Nat
  PROVE  CumulativeRotationTo(g, i + Len(g)) = CumulativeRotationTo(g, i) + Octave
<1>. DEFINE n == Len(g)
            C(k) == CumulativeRotationTo(g, k)
            T == {k \in Nat : C(k + n) = C(k) + Octave}
<1>1. n \in Nat \ {0} /\ Octave \in Nat /\ C(n) = Octave BY OctaveFacts DEF Closes
<1>2. C(0) = 0 /\ \A k \in Nat : C(k) \in Int /\ C(k + 1) = C(k) + GapAt(g, k) BY LineNext
<1>3. \A k \in Nat : GapAt(g, k) \in Int /\ GapAt(g, k + n) = GapAt(g, k) BY GapIs, OctaveFacts
<1>. HIDE DEF C, n
<1>4. 0 \in T BY <1>1, <1>2
<1>5. \A k \in Nat : k \in T => k + 1 \in T
  <2>. SUFFICES ASSUME NEW k \in Nat, k \in T PROVE k + 1 \in T OBVIOUS
  <2>1. k + n \in Nat /\ (k + 1) + n = (k + n) + 1 BY <1>1
  <2>2. C((k + n) + 1) = C(k + n) + GapAt(g, k + n) BY <1>2, <2>1
  <2>. QED BY <1>1, <1>2, <1>3, <2>1, <2>2
<1>6. Nat \subseteq T
  <2>. HIDE DEF T
  <2>. QED BY <1>4, <1>5, SetInduction
<1>. QED BY <1>6 DEF C, n

\* The lines below the octave, and the one that closes it.
LEMMA LinesOfOctave ==
  ASSUME NEW g, Closes(g), NEW i \in 0..Len(g)
  PROVE  /\ CumulativeRotationTo(g, i) \in 0..Octave
         /\ i < Len(g) => CumulativeRotationTo(g, i) \in 0..Octave - 1
<1>1. Len(g) \in Nat /\ i \in Nat BY OctaveFacts DEF Closes
<1>2. CumulativeRotationTo(g, i) \in Int /\ CumulativeRotationTo(g, 0) = 0 BY <1>1, LineNext
<1>3. i > 0 => CumulativeRotationTo(g, 0) < CumulativeRotationTo(g, i) BY <1>1, LinesClimb
<1>4. i < Len(g) => CumulativeRotationTo(g, i) < CumulativeRotationTo(g, Len(g))
  BY <1>1, LinesClimb
<1>5. CumulativeRotationTo(g, Len(g)) = Octave BY DEF Closes
<1>6. i = 0 \/ i > 0 BY <1>1
<1>7. i = Len(g) \/ i < Len(g) BY <1>1
<1>. QED BY <1>1, <1>2, <1>3, <1>4, <1>5, <1>6, <1>7, OctaveFacts

\* A rotated tuning reads the same gaps from its start on.
IsRotationOf(rotated, g) ==
    \E rotation \in Int, start \in Nat :
        /\ Closes(g) /\ start < Len(g)
        /\ rotated = [tuning |-> [intervals |-> g, rotation |-> rotation], start |-> start]
IsRotated(rotated) == \E g : IsRotationOf(rotated, g)

LEMMA RotatedIs ==
  ASSUME NEW g, Closes(g), NEW rotation \in Int, NEW start \in Nat, start < Len(g)
  PROVE  LET rotated == [tuning |-> [intervals |-> g, rotation |-> rotation], start |-> start]
             h == RotatedIntervals(rotated)
         IN /\ Closes(h) /\ Len(h) = Len(g) /\ Slots(rotated) = Len(g)
            /\ \A i \in Nat : CumulativeRotationTo(h, i) =
                 CumulativeRotationTo(g, start + i) - CumulativeRotationTo(g, start)
<1>. DEFINE n == Len(g)
            rotated == [tuning |-> [intervals |-> g, rotation |-> rotation], start |-> start]
            r == [i \in 1..n |-> GapAt(g, start + i - 1)]
            h == RotatedIntervals(rotated)
<1>1. n \in Nat \ {0} /\ n <= MAX_TUNING_SLOTS BY OctaveFacts DEF Closes
<1>2. Slots(rotated) = n BY DEF Slots
<1>3. \A i \in 1..n : r[i] = GapAt(g, start + i - 1) /\ r[i] \in 1..Octave - 1
  <2>. SUFFICES ASSUME NEW i \in 1..n PROVE r[i] = GapAt(g, start + i - 1) /\ r[i] \in 1..Octave - 1
    OBVIOUS
  <2>1. start + i - 1 \in Nat BY <1>1
  <2>. QED BY <2>1, GapIs
<1>4. Len(r) = n /\ Lesser(n, MAX_TUNING_SLOTS) = n BY <1>1 DEF Lesser
<1>5. h = [i \in 1..n |-> Fract(r[i])]
  <2>1. h = TuningIntervals(r) BY <1>2, Zenon DEF RotatedIntervals
  <2>. HIDE DEF r, h
  <2>. QED BY <1>4, <2>1, Zenon DEF TuningIntervals
<1>. HIDE DEF r, h
<1>6. \A i \in 1..n : h[i] = GapAt(g, start + i - 1) /\ h[i] \in 1..Octave - 1
  <2>. SUFFICES ASSUME NEW i \in 1..n PROVE h[i] = GapAt(g, start + i - 1) /\ h[i] \in 1..Octave - 1
    OBVIOUS
  <2>1. h[i] = r[i] % Octave BY <1>5 DEF Fract
  <2>2. r[i] \in Nat /\ r[i] < Octave /\ r[i] < 2 * Octave BY <1>3, OctaveFacts
  <2>3. r[i] % Octave = r[i] BY <2>2, OctaveFacts, SmallRemainder
  <2>. QED BY <1>3, <2>1, <2>3
<1>7. Len(h) = n BY <1>1, <1>5
<1>. HIDE DEF n
<1>8. \A i \in Nat : GapAt(h, i) = GapAt(g, start + i)
  <2>. SUFFICES ASSUME NEW i \in Nat PROVE GapAt(h, i) = GapAt(g, start + i) OBVIOUS
  <2>1. i % n \in 0..n - 1 /\ (start + (i % n)) % n = (start + i) % n BY <1>1, TurnOn
  <2>2. (i % n) + 1 \in 1..n /\ start + ((i % n) + 1) - 1 = start + (i % n) BY <1>1, <2>1
  <2>3. GapAt(h, i) = GapAt(g, start + (i % n)) BY <1>6, <1>7, <2>2 DEF GapAt
  <2>. QED BY <2>1, <2>3 DEF GapAt, n
<1>. DEFINE C(k) == CumulativeRotationTo(g, k)
            f(m) == [k \in 1..m |-> GapAt(h, k - 1)]
            l(m) == [k \in 0..m |-> C(start + k)]
<1>9. \A k \in Nat : C(k) \in Int /\ C(k + 1) = C(k) + GapAt(g, k) BY LineNext
<1>. HIDE DEF C
<1>10. ASSUME NEW m \in Nat PROVE SumTo(f(m), m) = C(start + m) - C(start)
  <2>1. \A k \in 0..m : l(m)[k] \in Int
    <3>. SUFFICES ASSUME NEW k \in 0..m PROVE C(start + k) \in Int OBVIOUS
    <3>1. start + k \in Nat OBVIOUS
    <3>. QED BY <1>9, <3>1
  <2>2. ASSUME NEW k \in 1..m PROVE f(m)[k] = l(m)[k] - l(m)[k - 1]
    <3>1. k - 1 \in Nat /\ k - 1 \in 0..m /\ k \in 0..m /\ start + (k - 1) \in Nat
          /\ (start + (k - 1)) + 1 = start + k
      OBVIOUS
    <3>2. f(m)[k] = GapAt(g, start + (k - 1)) BY <1>8, <3>1
    <3>3. C(start + k) = C(start + (k - 1)) + GapAt(g, start + (k - 1))
          /\ C(start + (k - 1)) \in Int
      BY <1>9, <3>1
    <3>4. GapAt(g, start + (k - 1)) \in 1..Octave - 1 BY <3>1, GapIs
    <3>. QED BY <3>1, <3>2, <3>3, <3>4, OctaveFacts
  <2>3. l(m)[m] = C(start + m) /\ l(m)[0] = C(start) /\ m \in 0..m
    <3>1. start + 0 = start /\ 0 \in 0..m /\ m \in 0..m OBVIOUS
    <3>. QED BY <3>1
  <2>. HIDE DEF f, l
  <2>4. \A k \in 0..m : SumTo(f(m), k) = l(m)[k] - l(m)[0] BY <2>1, <2>2, SumTelescopes
  <2>. QED BY <2>3, <2>4
<1>11. ASSUME NEW i \in Nat PROVE CumulativeRotationTo(h, i) = C(start + i) - C(start)
  BY <1>10 DEF CumulativeRotationTo
<1>12. CumulativeRotationTo(h, n) = Octave
  <2>1. C(start + n) = C(start) + Octave BY LinesRepeat DEF C, n
  <2>2. C(start) \in Int BY <1>9
  <2>. QED BY <1>1, <1>11, <2>1, <2>2, OctaveFacts
<1>13. Closes(h)
  <2>1. h = [i \in 1..n |-> h[i]] BY <1>5
  <2>2. h \in [1..n -> 1..Octave - 1] BY <1>6, <2>1
  <2>. QED BY <1>1, <1>7, <1>12, <2>2 DEF Closes
<1>. QED BY <1>2, <1>7, <1>11, <1>13 DEF C, n, h

\* The gaps between the pitches of a kind close the octave.
LEMMA KindCloses ==
  ASSUME NEW kind \in Kinds
  PROVE  Closes(KindIntervals(kind))
<1>. DEFINE pitches == RatioPitches[kind]
            n == Len(pitches)
            next_up(i) == IF i = n THEN pitches[1] + Octave ELSE pitches[i + 1]
            gaps == [i \in 1..n |-> next_up(i) - pitches[i]]
            g == KindIntervals(kind)
<1>1. /\ pitches \in Seq(Nat) /\ n \in 2..MAX_TUNING_SLOTS
      /\ pitches[1] = 0 /\ pitches[n] < Octave
      /\ \A i \in 2..n : pitches[i - 1] < pitches[i]
  BY TuningsClimb
<1>2. \A i \in 1..n : pitches[i] \in Nat BY <1>1, ElementOfSeq
<1>3. g = TuningIntervals(gaps)
  <2>. HIDE DEF pitches, gaps
  <2>1. n # 0 BY <1>1, OctaveFacts
  <2>2. FromFrequencies(pitches) = TuningAbsolute(TuningIntervals(gaps), pitches[1])
    BY <2>1, Zenon DEF FromFrequencies, gaps
  <2>3. FromFrequencies(pitches).intervals = TuningIntervals(gaps)
    <3>1. \A v, w : TuningAbsolute(v, w).intervals = v BY DEF TuningAbsolute
    <3>. QED BY <2>2, <3>1, Zenon
  <2>. QED BY <2>3, Zenon DEF KindIntervals, pitches
<1>. HIDE DEF pitches, n, g
<1>4. n \in Nat \ {0, 1} /\ n <= MAX_TUNING_SLOTS BY <1>1, OctaveFacts
<1>5. \A i \in 1..n : pitches[i] < Octave /\ (i > 1 => pitches[i] > 0)
  <2>. DEFINE T == {i \in 2..n : pitches[i] > 0}
              U == {i \in 0..n - 1 : pitches[n - i] < Octave}
  <2>1. 2 <= n => 2 \in T
    <3>1. 2 \in 2..n /\ 2 - 1 = 1 BY <1>4
    <3>. QED BY <1>1, <1>2, <3>1
  <2>2. ASSUME NEW i \in 2..n, i < n, i \in T PROVE i + 1 \in T
    <3>1. i + 1 \in 2..n /\ (i + 1) - 1 = i /\ i + 1 \in 1..n /\ i \in 1..n BY <1>4, <2>2
    <3>. QED BY <1>1, <1>2, <2>2, <3>1
  <2>3. 2..n \subseteq T
    <3>. HIDE DEF T
    <3>. QED BY <1>4, <2>1, <2>2, RangeInduction
  <2>4. 0 <= n - 1 => 0 \in U BY <1>1, <1>4
  <2>5. ASSUME NEW i \in 0..n - 1, i < n - 1, i \in U PROVE i + 1 \in U
    <3>1. n - i \in 2..n /\ (n - i) - 1 = n - (i + 1) /\ n - i \in 1..n /\ n - (i + 1) \in 1..n
          /\ i + 1 \in 0..n - 1
      BY <1>4, <2>5
    <3>. QED BY <1>1, <1>2, <2>5, <3>1, OctaveFacts
  <2>6. 0..n - 1 \subseteq U
    <3>1. 0 \in Nat /\ n - 1 \in Nat BY <1>4
    <3>. HIDE DEF U
    <3>. QED BY <2>4, <2>5, <3>1, RangeInduction
  <2>7. ASSUME NEW i \in 1..n PROVE pitches[i] < Octave /\ (i > 1 => pitches[i] > 0)
    <3>1. n - i \in 0..n - 1 /\ n - (n - i) = i BY <1>4
    <3>2. i > 1 => i \in 2..n BY <1>4
    <3>. QED BY <2>3, <2>6, <3>1, <3>2
  <2>. QED BY <2>7
<1>6. \A i \in 1..n : gaps[i] = next_up(i) - pitches[i] /\ gaps[i] \in 1..Octave - 1
  <2>. SUFFICES ASSUME NEW i \in 1..n
                PROVE  next_up(i) - pitches[i] \in 1..Octave - 1
    OBVIOUS
  <2>1. CASE i = n
    <3>1. pitches[n] > 0 /\ pitches[n] < Octave BY <1>4, <1>5
    <3>. QED BY <1>1, <1>2, <2>1, <3>1, OctaveFacts
  <2>2. CASE i # n
    <3>1. i + 1 \in 2..n /\ i + 1 \in 1..n /\ (i + 1) - 1 = i BY <1>4, <2>2
    <3>2. pitches[i] < pitches[i + 1] /\ pitches[i + 1] < Octave BY <1>1, <1>5, <3>1
    <3>. QED BY <1>2, <2>2, <3>1, <3>2, OctaveFacts
  <2>. QED BY <2>1, <2>2
<1>7. Len(gaps) = n /\ Lesser(n, MAX_TUNING_SLOTS) = n BY <1>4, OctaveFacts DEF Lesser
<1>. HIDE DEF gaps
<1>8. g = [i \in 1..n |-> Fract(gaps[i])] BY <1>3, <1>7, Zenon DEF TuningIntervals
<1>9. \A i \in 1..n : g[i] = gaps[i]
  <2>. SUFFICES ASSUME NEW i \in 1..n PROVE g[i] = gaps[i] OBVIOUS
  <2>1. g[i] = gaps[i] % Octave BY <1>8 DEF Fract
  <2>2. gaps[i] \in Nat /\ gaps[i] < Octave /\ gaps[i] < 2 * Octave BY <1>6, OctaveFacts
  <2>3. gaps[i] % Octave = gaps[i] BY <2>2, OctaveFacts, SmallRemainder
  <2>. QED BY <2>1, <2>3
<1>10. Len(g) = n BY <1>4, <1>8
<1>. DEFINE f == [k \in 1..n |-> GapAt(g, k - 1)]
            l == [k \in 0..n |-> IF k = n THEN Octave ELSE pitches[k + 1]]
<1>11. \A k \in 0..n : l[k] \in Int
  <2>. SUFFICES ASSUME NEW k \in 0..n, k # n PROVE pitches[k + 1] \in Int BY OctaveFacts
  <2>1. k + 1 \in 1..n BY <1>4
  <2>. QED BY <1>2, <2>1
<1>12. ASSUME NEW k \in 1..n PROVE f[k] = l[k] - l[k - 1]
  <2>1. k - 1 \in Nat /\ (k - 1) + 1 = k /\ k - 1 \in 0..n /\ k - 1 # n /\ k \in 0..n BY <1>4
  <2>2. (k - 1) % n = k - 1
    <3>1. k - 1 < n /\ k - 1 < 2 * n /\ n \in Nat \ {0} BY <1>4
    <3>. QED BY <2>1, <3>1, SmallRemainder
  <2>3. f[k] = gaps[k] BY <1>9, <1>10, <2>1, <2>2 DEF GapAt
  <2>4. l[k - 1] = pitches[k] BY <2>1
  <2>5. l[k] = next_up(k) BY <1>1, <2>1, OctaveFacts
  <2>. QED BY <1>6, <2>3, <2>4, <2>5
<1>13. l[n] = Octave /\ l[0] = 0
  <2>1. 0 \in 0..n /\ n \in 0..n /\ 0 # n BY <1>4
  <2>. QED BY <1>1, <2>1
<1>14. SumTo(f, n) = Octave
  <2>1. n \in Nat /\ n \in 0..n BY <1>4
  <2>. HIDE DEF f, l
  <2>2. \A k \in 0..n : SumTo(f, k) = l[k] - l[0] BY <1>11, <1>12, <2>1, SumTelescopes
  <2>. QED BY <1>13, <2>1, <2>2, OctaveFacts
<1>15. CumulativeRotationTo(g, n) = Octave BY <1>14 DEF CumulativeRotationTo
<1>16. g \in [1..n -> 1..Octave - 1]
  <2>1. g = [i \in 1..n |-> g[i]] /\ \A i \in 1..n : g[i] \in 1..Octave - 1 BY <1>6, <1>8, <1>9
  <2>. QED BY <2>1
<1>17. n \in 1..MAX_TUNING_SLOTS BY <1>4, OctaveFacts
<1>. QED BY <1>10, <1>15, <1>16, <1>17 DEF Closes, g

-----------------------------------------------------------------------------
(* Scales. *)

\* The slots of a mask in order: each once, climbing.
LEMMA OrderIs ==
  ASSUME NEW S, IsFiniteSet(S), S \subseteq Nat
  PROVE  /\ Cardinality(S) \in Nat
         /\ InOrder(S) \in [1..Cardinality(S) -> S]
         /\ \A i, j \in 1..Cardinality(S) : i < j => InOrder(S)[i] < InOrder(S)[j]
         /\ \A v \in S : \E i \in 1..Cardinality(S) : InOrder(S)[i] = v
<1>. DEFINE n == Cardinality(S)
            below(i) == {j \in S : j < i}
            rank == [i \in S |-> Cardinality(below(i)) + 1]
            d == InOrder(S)
<1>1. n \in Nat BY FS_CardinalityType
<1>2. ASSUME NEW i \in S
      PROVE  IsFiniteSet(below(i)) /\ Cardinality(below(i)) \in Nat /\ Cardinality(below(i)) < n
  <2>1. below(i) \in SUBSET S /\ below(i) # S OBVIOUS
  <2>. HIDE DEF below
  <2>2. IsFiniteSet(below(i)) /\ Cardinality(below(i)) <= n /\ Cardinality(below(i)) # n
    BY <2>1, FS_Subset
  <2>3. Cardinality(below(i)) \in Nat BY <2>2, FS_CardinalityType
  <2>. QED BY <1>1, <2>2, <2>3
<1>3. ASSUME NEW i \in S, NEW j \in S, i < j
      PROVE  Cardinality(below(i)) < Cardinality(below(j))
  <2>1. below(i) \in SUBSET below(j) /\ below(i) # below(j)
    <3>1. below(i) \in SUBSET below(j)
      <4>. SUFFICES ASSUME NEW k \in S, k < i PROVE k < j OBVIOUS
      <4>. k \in Nat /\ i \in Nat /\ j \in Nat OBVIOUS
      <4>. QED BY <1>3
    <3>2. i \in below(j) /\ i \notin below(i) BY <1>3
    <3>. QED BY <3>1, <3>2
  <2>. HIDE DEF below
  <2>2. Cardinality(below(i)) <= Cardinality(below(j))
        /\ Cardinality(below(i)) # Cardinality(below(j))
    BY <1>2, <2>1, FS_Subset
  <2>. QED BY <1>2, <2>2
<1>4. rank \in Surjection(S, 1..n)
  <2>1. \A i \in S : rank[i] = Cardinality(below(i)) + 1 OBVIOUS
  <2>. HIDE DEF below
  <2>2. rank \in [S -> 1..n]
    <3>. SUFFICES ASSUME NEW i \in S PROVE Cardinality(below(i)) + 1 \in 1..n BY DEF rank
    <3>. QED BY <1>1, <1>2
  <2>. HIDE DEF rank
  <2>3. \A i, j \in S : rank[i] = rank[j] => i = j
    <3>. SUFFICES ASSUME NEW i \in S, NEW j \in S, rank[i] = rank[j] PROVE i = j OBVIOUS
    <3>1. Cardinality(below(i)) = Cardinality(below(j)) BY <1>2, <2>1
    <3>2. ~(i < j) /\ ~(j < i) BY <1>2, <1>3, <3>1
    <3>. QED BY <3>2
  <2>4. rank \in Injection(S, 1..n) BY <2>2, <2>3 DEF Injection, IsInjective
  <2>5. IsFiniteSet(1..n) /\ Cardinality(1..n) = n BY <1>1, FS_Interval
  <2>. QED BY <2>4, <2>5, FS_Injection
<1>5. ASSUME NEW k \in 1..n
      PROVE  d[k] \in S /\ Cardinality(below(d[k])) = k - 1
  <2>1. \E i \in S : Cardinality(below(i)) = k - 1
    <3>1. PICK i \in S : rank[i] = k BY <1>4 DEF Surjection
    <3>2. rank[i] = Cardinality(below(i)) + 1 OBVIOUS
    <3>. HIDE DEF below, rank
    <3>. QED BY <1>2, <3>1, <3>2
  <2>2. d[k] = CHOOSE i \in S : Cardinality(below(i)) = k - 1 BY DEF InOrder
  <2>. HIDE DEF below, d
  <2>. QED BY <2>1, <2>2
<1>6. ASSUME NEW i \in 1..n, NEW j \in 1..n, i < j PROVE d[i] < d[j]
  <2>. HIDE DEF below, d
  <2>1. d[i] \in S /\ d[j] \in S /\ d[i] \in Nat /\ d[j] \in Nat BY <1>5
  <2>2. Cardinality(below(d[i])) = i - 1 /\ Cardinality(below(d[j])) = j - 1 BY <1>5
  <2>3. ~(d[j] < d[i])
    <3>. SUFFICES ASSUME d[j] < d[i] PROVE FALSE OBVIOUS
    <3>1. Cardinality(below(d[j])) < Cardinality(below(d[i])) BY <1>3, <2>1
    <3>. QED BY <1>6, <2>2, <3>1
  <2>4. d[i] # d[j] BY <1>6, <2>2
  <2>. QED BY <2>1, <2>3, <2>4
<1>7. ASSUME NEW v \in S PROVE \E i \in 1..n : d[i] = v
  <2>. DEFINE i == Cardinality(below(v)) + 1
  <2>1. i \in 1..n /\ i - 1 = Cardinality(below(v)) BY <1>1, <1>2
  <2>. HIDE DEF i
  <2>2. d[i] \in S /\ Cardinality(below(d[i])) = Cardinality(below(v)) BY <1>5, <2>1
  <2>. HIDE DEF below, d
  <2>3. PICK w \in S : w = d[i] BY <2>2
  <2>4. w \in Nat /\ v \in Nat /\ Cardinality(below(w)) = Cardinality(below(v))
        /\ Cardinality(below(v)) \in Nat
    BY <1>2, <2>2, <2>3
  <2>5. ~(w < v) BY <1>3, <2>4
  <2>6. ~(v < w) BY <1>3, <2>4
  <2>7. d[i] = v BY <2>3, <2>4, <2>5, <2>6
  <2>. QED BY <2>1, <2>7
<1>8. d \in [1..n -> S]
  <2>. DEFINE G(k) == CHOOSE i \in S : Cardinality(below(i)) = k - 1
  <2>1. d = [k \in 1..n |-> G(k)] BY Zenon DEF InOrder
  <2>2. \A k \in 1..n : G(k) = d[k] BY <2>1
  <2>. HIDE DEF d, G
  <2>3. \A k \in 1..n : G(k) \in S BY <1>5, <2>2
  <2>. QED BY <2>1, <2>3
<1>. QED BY <1>1, <1>6, <1>7, <1>8

IsMask(mask) == IsFiniteSet(mask) /\ mask \subseteq Nat /\ 0 \in mask

\* What a mask has of the first n slots, in order from 0 up.
Below(mask, n) == {i \in mask : i < n}
Degrees(mask, n) == InOrder(Below(mask, n))
HasDegrees(mask, n, k) ==
    /\ k = Cardinality(Below(mask, n)) /\ Len(Degrees(mask, n)) = k
    /\ Degrees(mask, n) \in [1..k -> Below(mask, n)] /\ Degrees(mask, n)[1] = 0
    /\ \A i, j \in 1..k : i < j => Degrees(mask, n)[i] < Degrees(mask, n)[j]
    /\ \A v \in Below(mask, n) : \E i \in 1..k : Degrees(mask, n)[i] = v
    /\ Cardinality(mask) \in Nat \ {0} /\ k <= Cardinality(mask)
    /\ k = Cardinality(mask) => Below(mask, n) = mask

LEMMA DegreesOf ==
  ASSUME NEW mask, IsMask(mask), NEW n \in Nat \ {0}
  PROVE  \E k \in Nat \ {0} : HasDegrees(mask, n, k)
<1>. DEFINE slots == {i \in mask : i < n}
            d == InOrder(slots)
            k == Cardinality(slots)
<1>1. slots \in SUBSET mask /\ 0 \in slots /\ slots \subseteq Nat
  <2>1. mask \subseteq Nat /\ 0 \in mask /\ 0 < n BY DEF IsMask
  <2>2. slots \in SUBSET mask /\ 0 \in slots BY <2>1
  <2>. HIDE DEF slots
  <2>. QED BY <2>1, <2>2
<1>. HIDE DEF slots
<1>2. IsFiniteSet(mask) /\ IsFiniteSet(slots) /\ k <= Cardinality(mask)
      /\ (Cardinality(mask) = k => mask = slots)
  BY <1>1, FS_Subset DEF IsMask
<1>3. k \in Nat /\ Cardinality(mask) \in Nat BY <1>2, FS_CardinalityType
<1>4. k # 0 BY <1>1, <1>2, FS_EmptySet
<1>5. /\ d \in [1..k -> slots]
      /\ \A i, j \in 1..k : i < j => d[i] < d[j]
      /\ \A v \in slots : \E i \in 1..k : d[i] = v
  BY <1>1, <1>2, OrderIs
<1>. HIDE DEF d, k
<1>6. d[1] = 0
  <2>1. PICK i \in 1..k : d[i] = 0 BY <1>1, <1>5
  <2>2. 1 \in 1..k /\ d[1] \in slots /\ d[1] \in Nat
    <3>1. 1 \in 1..k BY <1>3, <1>4
    <3>. QED BY <1>1, <1>5, <3>1
  <2>3. 1 < i => d[1] < d[i] BY <1>5, <2>2
  <2>4. i = 1 \/ 1 < i BY <2>1
  <2>. QED BY <2>1, <2>2, <2>3, <2>4
<1>7. Len(d) = k BY <1>3, <1>5
<1>8. Cardinality(mask) # 0 BY <1>2, <1>3, <1>4
<1>9. Below(mask, n) = slots /\ Degrees(mask, n) = d BY DEF Below, Degrees, slots, d
<1>. QED BY <1>2, <1>3, <1>4, <1>5, <1>6, <1>7, <1>8, <1>9 DEF k, HasDegrees

\* From its widths a mask comes back, as far as they go.
LEMMA WidthsSayTheMask ==
  ASSUME NEW mask, IsMask(mask), NEW n \in Nat \ {0}
  PROVE  FromWidths(Widths(mask, n)) = {slot \in mask : slot < n}
<1>1. PICK k \in Nat \ {0} : HasDegrees(mask, n, k) BY DegreesOf
<1>. DEFINE slots == Below(mask, n)
            d == Degrees(mask, n)
            w == [i \in 1..k |-> (IF i = k THEN n ELSE d[i + 1]) - d[i]]
            l == [i \in 0..k |-> IF i = k THEN n ELSE d[i + 1]]
<1>2. Widths(mask, n) = w
  BY <1>1 DEF Widths, Degrees, Below, HasDegrees
<1>3. slots \subseteq Nat BY DEF IsMask, Below
<1>0. /\ k \in Nat \ {0} /\ Len(d) = k /\ d \in [1..k -> slots] /\ d[1] = 0
      /\ \A v \in slots : \E i \in 1..k : d[i] = v
  BY <1>1 DEF HasDegrees
<1>. HIDE DEF slots, d
<1>4. \A i \in 1..k : d[i] \in Int
  <2>. SUFFICES ASSUME NEW i \in 1..k PROVE d[i] \in Int OBVIOUS
  <2>1. d[i] \in slots BY <1>0
  <2>2. d[i] \in Nat BY <1>3, <2>1
  <2>. QED BY <2>2
<1>5. Len(w) = k BY <1>0
<1>6. \A i \in 0..k : l[i] \in Int
  <2>. SUFFICES ASSUME NEW i \in 0..k, i # k PROVE d[i + 1] \in Int OBVIOUS
  <2>1. i + 1 \in 1..k BY <1>0
  <2>. QED BY <1>4, <2>1
<1>7. \A i \in 1..k : w[i] = l[i] - l[i - 1]
  <2>. SUFFICES ASSUME NEW i \in 1..k PROVE w[i] = l[i] - l[i - 1] OBVIOUS
  <2>1. i \in 0..k /\ i - 1 \in 0..k /\ i - 1 # k /\ (i - 1) + 1 = i BY <1>0
  <2>. QED BY <2>1
<1>8. \A i \in 0..k - 1 : SumTo(w, i) = d[i + 1]
  <2>1. l[0] = 0 /\ \A i \in 0..k - 1 : i \in 0..k /\ l[i] = d[i + 1] BY <1>0
  <2>2. k \in Nat BY <1>0
  <2>. HIDE DEF w, l
  <2>3. \A i \in 0..k : SumTo(w, i) = l[i] - l[0] BY <1>6, <1>7, <2>2, SumTelescopes
  <2>. QED BY <1>6, <2>1, <2>3
<1>9. FromWidths(w) = {SumTo(w, i) : i \in 0..k - 1}
  <2>. HIDE DEF w
  <2>. QED BY <1>5, Zenon DEF FromWidths
<1>. HIDE DEF w
<1>10. {SumTo(w, i) : i \in 0..k - 1} = slots
  <2>1. ASSUME NEW i \in 0..k - 1 PROVE SumTo(w, i) \in slots
    <3>1. i + 1 \in 1..k BY <1>0
    <3>. QED BY <1>0, <1>8, <3>1
  <2>2. ASSUME NEW v \in slots PROVE \E i \in 0..k - 1 : SumTo(w, i) = v
    <3>1. PICK i \in 1..k : d[i] = v BY <1>0
    <3>2. i - 1 \in 0..k - 1 /\ (i - 1) + 1 = i BY <1>0
    <3>. QED BY <1>8, <3>1, <3>2
  <2>. QED BY <2>1, <2>2
<1>. QED BY <1>2, <1>9, <1>10 DEF slots, Below

\* A row of the picker is a mask.
LEMMA ScalesAreMasks ==
  ASSUME NEW n, NEW i \in DOMAIN ScalesFor(n)
  PROVE  IsMask(ScalesFor(n)[i])
<1>. DEFINE U == Seq(Nat \ {0}) \ {<<>>}
            fitting == Among(Catalogue, {widths \in Range(Catalogue) : GridOf(widths) = n})
<1>1. Catalogue \in Seq(U)
  <2>1. /\ Catalogue \in Seq(Seq(Nat \ {0})) /\ \A j \in DOMAIN Catalogue : Catalogue[j] # <<>>
    BY ScalesClimb
  <2>2. DOMAIN Catalogue = 1..Len(Catalogue) /\ Len(Catalogue) \in Nat BY <2>1, LenProperties
  <2>3. \A j \in 1..Len(Catalogue) : Catalogue[j] \in U BY <2>1, <2>2, ElementOfSeq
  <2>4. Catalogue \in [1..Len(Catalogue) -> U] BY <2>1, <2>2, <2>3
  <2>. QED BY <2>2, <2>4
<1>2. fitting \in Seq(U)
  <2>. HIDE DEF U
  <2>. QED BY <1>1, AmongType
<1>3. ScalesFor(n) = [j \in DOMAIN fitting |-> FromWidths(fitting[j])] BY DEF ScalesFor
<1>. HIDE DEF fitting
<1>4. i \in DOMAIN fitting /\ ScalesFor(n)[i] = FromWidths(fitting[i]) BY <1>3
<1>5. fitting[i] \in U
  <2>. HIDE DEF U
  <2>. QED BY <1>2, <1>4, ElementOfSeq, LenProperties
<1>6. PICK w : w = fitting[i] OBVIOUS
<1>7. w \in Seq(Nat \ {0}) /\ w # <<>> BY <1>5, <1>6
<1>8. Len(w) \in Nat /\ Len(w) > 0 /\ \A j \in 1..Len(w) : w[j] \in Nat
  BY <1>7, LenProperties, ElementOfSeq, EmptySeq
<1>. DEFINE f == [k \in 0..Len(w) - 1 |-> SumTo(w, k)]
<1>9. \A k \in 0..Len(w) - 1 : SumTo(w, k) \in Nat
  <2>. SUFFICES ASSUME NEW k \in 0..Len(w) - 1 PROVE SumTo(w, k) \in Nat OBVIOUS
  <2>1. k \in Nat /\ \A j \in 1..k : w[j] \in Nat BY <1>8
  <2>. QED BY <2>1, SumGrows
<1>10. FromWidths(w) = {f[k] : k \in 0..Len(w) - 1} BY DEF FromWidths
<1>11. FromWidths(w) \subseteq Nat BY <1>9, <1>10
<1>12. 0 \in FromWidths(w)
  <2>1. 0 \in 0..Len(w) - 1 /\ f[0] = 0 BY <1>8, SumNone
  <2>. QED BY <1>10, <2>1
<1>13. IsFiniteSet(FromWidths(w))
  <2>1. f \in Surjection(0..Len(w) - 1, FromWidths(w)) BY <1>10 DEF Surjection
  <2>2. IsFiniteSet(0..Len(w) - 1) BY <1>8, FS_Interval
  <2>. HIDE DEF f
  <2>. QED BY <2>1, <2>2, FS_Surjection
<1>. QED BY <1>4, <1>6, <1>11, <1>12, <1>13 DEF IsMask

-----------------------------------------------------------------------------
(* Rotations move no line, and a pitch resolves to the nearest. *)

LEMMA FractIs ==
  ASSUME NEW a \in Int
  PROVE  Fract(a) \in 0..Octave - 1 /\ Alike(Octave, Fract(a), a)
BY OctaveFacts, AlikeRemainder DEF Fract

LEMMA SmallFract ==
  ASSUME NEW a \in 0..Octave - 1
  PROVE  Fract(a) = a
<1>1. a \in Nat /\ a < Octave /\ a < 2 * Octave BY OctaveFacts
<1>. QED BY <1>1, OctaveFacts, SmallRemainder DEF Fract

LEMMA RotationsMoveNoLine ==
  ASSUME NEW rotated, IsRotated(rotated)
  PROVE  RotationMovesNoLine(rotated)
<1>0. PICK g : IsRotationOf(rotated, g) BY DEF IsRotated
<1>1. PICK rotation \in Int, start \in Nat :
        /\ Closes(g) /\ start < Len(g)
        /\ rotated = [tuning |-> [intervals |-> g, rotation |-> rotation], start |-> start]
  BY <1>0 DEF IsRotationOf
<1>. DEFINE n == Len(g)
            h == RotatedIntervals(rotated)
            C(k) == CumulativeRotationTo(g, k)
<1>2. n \in Nat \ {0} BY <1>1, OctaveFacts DEF Closes
<1>3. /\ Slots(rotated) = n
      /\ \A i \in Nat : CumulativeRotationTo(h, i) = C(start + i) - C(start)
  BY <1>1, RotatedIs
<1>4. \A i \in Nat : C(i) \in Int /\ C(i + n) = C(i) + Octave BY <1>1, LineNext, LinesRepeat
<1>5. Rotation(rotated) = Fract(rotation + C(start)) BY <1>1 DEF Rotation
<1>6. /\ rotated.tuning.rotation = rotation /\ rotated.tuning.intervals = g
      /\ rotated.start = start
  BY <1>1
<1>. HIDE DEF h, C
<1>7. ASSUME NEW i \in 0..n - 1
      PROVE  Fract(Rotation(rotated) + CumulativeRotationTo(h, i)) =
               Fract(LineAt(rotated.tuning, (start + i) % n, 0))
  <2>. DEFINE m == (start + i) % n
  <2>1. i \in Nat /\ start + i \in Nat /\ start + i < 2 * n BY <1>1, <1>2
  <2>2. m = IF start + i < n THEN start + i ELSE start + i - n BY <1>2, <2>1, SmallRemainder
  <2>3. m \in Nat /\ (m = start + i \/ m + n = start + i) BY <1>2, <2>1, <2>2
  <2>. HIDE DEF m
  <2>4. C(m) \in Int /\ C(start + i) \in Int /\ C(start) \in Int
        /\ (C(start + i) = C(m) \/ C(start + i) = C(m) + Octave)
    BY <1>4, <2>1, <2>3
  <2>5. LineAt(rotated.tuning, m, 0) = rotation + C(m)
    BY <1>6, <2>4, OctaveFacts DEF LineAt, C
  <2>6. PICK c \in Int : c = rotation + C(start) BY <2>4
  <2>7. PICK k \in Int : Fract(c) = c + Octave * k BY <2>6, FractIs DEF Alike
  <2>8. PICK a \in Int : a = Fract(c) + (C(start + i) - C(start))
    BY <2>4, <2>6, FractIs, OctaveFacts
  <2>9. Alike(Octave, a, rotation + C(m))
    <3>1. Octave * k \in Int /\ Octave * (k + 1) = Octave * k + Octave BY OctaveFacts
    <3>2. a = rotation + C(start + i) + Octave * k BY <2>4, <2>6, <2>7, <2>8, <3>1, OctaveFacts
    <3>3. CASE C(start + i) = C(m)
      <4>1. a = (rotation + C(m)) + Octave * k BY <2>4, <3>1, <3>2, <3>3
      <4>. QED BY <4>1 DEF Alike
    <3>4. CASE C(start + i) = C(m) + Octave
      <4>1. a = (rotation + C(m)) + Octave * (k + 1) /\ k + 1 \in Int
        BY <2>4, <3>1, <3>2, <3>4, OctaveFacts
      <4>. QED BY <4>1 DEF Alike
    <3>. QED BY <2>4, <3>3, <3>4
  <2>10. rotation + C(m) \in Int BY <2>4
  <2>11. a % Octave = (rotation + C(m)) % Octave BY <2>9, <2>10, OctaveFacts, RemaindersAgree
  <2>12. Rotation(rotated) + CumulativeRotationTo(h, i) = a BY <1>3, <1>5, <2>1, <2>6, <2>8
  <2>. QED BY <2>5, <2>11, <2>12 DEF Fract, m
<1>8. ASSUME NEW i \in 0..n - 1 PROVE ShiftDown(ShiftUp(rotated, i), i) = rotated
  <2>. DEFINE m == (start + i) % n
              tuning == rotated.tuning
  <2>1. i \in Nat /\ start + i \in Nat /\ start + i < 2 * n /\ i < 2 * n BY <1>1, <1>2
  <2>2. m = IF start + i < n THEN start + i ELSE start + i - n
    <3>1. PICK q \in Nat : q = start + i BY <2>1
    <3>. HIDE DEF n
    <3>2. q % n = IF q < n THEN q ELSE q - n BY <1>2, <2>1, <3>1, SmallRemainder
    <3>3. m = q % n BY <3>1, Zenon
    <3>. HIDE DEF m
    <3>. QED BY <1>2, <2>1, <3>1, <3>2, <3>3
  <2>3. m \in Nat /\ (m = start + i \/ m + n = start + i) BY <1>2, <2>1, <2>2
  <2>4. i % n = i BY <1>2, <2>1, SmallRemainder
  <2>5. ShiftUp(rotated, i) = [tuning |-> tuning, start |-> m]
    BY <1>2, <1>6 DEF ShiftUp, TuningRotated
  <2>. HIDE DEF m
  <2>6. m + (n - i) = start \/ m + (n - i) = start + n BY <1>2, <2>1, <2>3
  <2>7. (m + (n - i)) % n = start
    <3>1. start % n = start /\ (start + n) % n = start
      <4>1. start < 2 * n /\ start + n < 2 * n /\ start + n \in Nat /\ ~(start + n < n)
        BY <1>1, <1>2
      <4>. QED BY <1>1, <1>2, <4>1, SmallRemainder
    <3>. QED BY <2>6, <3>1
  <2>8. ShiftDown(ShiftUp(rotated, i), i) = [tuning |-> tuning, start |-> start]
    <3>1. Len(tuning.intervals) = n BY <1>6
    <3>2. PICK x : x = ShiftUp(rotated, i) OBVIOUS
    <3>. HIDE DEF n, tuning
    <3>3. x.tuning = tuning /\ x.start = m BY <2>5, <3>2
    <3>4. ShiftDown(x, i) = TuningRotated(tuning, m + (n - i))
      BY <2>4, <3>1, <3>3, Zenon DEF ShiftDown
    <3>5. TuningRotated(tuning, m + (n - i)) = [tuning |-> tuning, start |-> start]
      BY <1>2, <2>7, <3>1 DEF TuningRotated
    <3>. QED BY <3>2, <3>4, <3>5
  <2>. QED BY <1>1, <2>8
<1>. QED BY <1>3, <1>6, <1>7, <1>8 DEF RotationMovesNoLine, h

\* The nearest of the lines of an octave, the lower of two.
IsNearest(g, r, b) ==
    LET away(i) == Distance(r, CumulativeRotationTo(g, i))
    IN \A j \in 0..Len(g) : away(b) < away(j) \/ (away(b) = away(j) /\ b <= j)
NearestLine(g, r) == CHOOSE b \in 0..Len(g) : IsNearest(g, r, b)

LEMMA ResolvesTo ==
  ASSUME NEW tuning, NEW pitch, Len(tuning.intervals) # 0
  PROVE  LET near == NearestLine(tuning.intervals, Fract(pitch - tuning.rotation))
             n == Len(tuning.intervals)
         IN Resolve(tuning, pitch) =
              [slot |-> near % n,
               octave |-> FullOctaves(pitch - tuning.rotation) + IF near = n THEN 1 ELSE 0]
BY Zenon DEF Resolve, NearestLine, IsNearest

\* The line a pitch resolves to, and that none is nearer.
LEMMA ResolveIs ==
  ASSUME NEW g, Closes(g), NEW rotation \in Int, NEW pitch \in Int
  PROVE  LET tuning == [intervals |-> g, rotation |-> rotation]
         IN /\ Resolve(tuning, pitch).slot \in 0..Len(g) - 1
            /\ Resolve(tuning, pitch).octave \in Int
            /\ PitchFindsItsLine(tuning, pitch)
<1>. DEFINE tuning == [intervals |-> g, rotation |-> rotation]
            n == Len(g)
            C(k) == CumulativeRotationTo(g, k)
            from_root == pitch - rotation
            r == Fract(from_root)
            q == FullOctaves(from_root)
            away == [i \in 0..n |-> Distance(r, C(i))]
            Best(b) == \A j \in 0..n : away[b] < away[j] \/ (away[b] = away[j] /\ b <= j)
            best == CHOOSE b \in 0..n : Best(b)
            up == IF best = n THEN 1 ELSE 0
            found == rotation + C(best) + q * Octave
<1>1. n \in Nat \ {0} BY OctaveFacts DEF Closes
<1>0. Resolve(tuning, pitch) = [slot |-> best % n, octave |-> q + up]
  <2>1. tuning.intervals = g /\ tuning.rotation = rotation OBVIOUS
  <2>2. Len(g) # 0 BY <1>1
  <2>. HIDE DEF tuning
  <2>3. NearestLine(g, r) = best
    <3>1. \A b \in 0..n : IsNearest(g, r, b) <=> Best(b) BY DEF IsNearest
    <3>. HIDE DEF Best, n
    <3>. QED BY <3>1, Zenon DEF NearestLine, n
  <2>. HIDE DEF best, r, q
  <2>4. Resolve(tuning, pitch) = [slot |-> NearestLine(g, r) % n,
                                  octave |-> q + IF NearestLine(g, r) = n THEN 1 ELSE 0]
    BY <2>1, <2>2, ResolvesTo, Zenon DEF r, q
  <2>. QED BY <2>3, <2>4, Zenon
<1>2. /\ \A i \in 0..n : C(i) \in Nat /\ C(i) <= Octave
      /\ \A i \in 0..n - 1 : C(i) < Octave
      /\ C(0) = 0 /\ C(n) = Octave
  <2>1. \A i \in 0..n : C(i) \in 0..Octave /\ (i < n => C(i) \in 0..Octave - 1) BY LinesOfOctave
  <2>2. \A i \in 0..n - 1 : i \in 0..n /\ i < n BY <1>1
  <2>3. C(0) = 0 BY LineNext
  <2>. HIDE DEF C
  <2>4. C(n) = Octave BY DEF Closes, C
  <2>. QED BY <2>1, <2>2, <2>3, <2>4, OctaveFacts
<1>3. q \in Int /\ r \in Nat /\ r < Octave /\ pitch = rotation + Octave * q + r
  BY OctaveFacts DEF Fract, FullOctaves
<1>. HIDE DEF C, q, r
<1>4. \A i \in 0..n : away[i] = Distance(r, C(i)) /\ away[i] \in Nat
  BY <1>2, <1>3 DEF Distance
<1>5. best \in 0..n /\ Best(best)
  <2>1. \E b \in 0..n : Best(b)
    <3>. HIDE DEF away
    <3>1. 0 \in Nat /\ n \in Nat /\ 0 <= n /\ \A i \in 0..n : away[i] \in Int BY <1>1, <1>4
    <3>2. PICK b \in 0..n : /\ \A k \in 0..n : away[b] <= away[k]
                            /\ \A k \in 0..b - 1 : away[b] < away[k]
      BY <3>1, FirstLowest
    <3>3. ASSUME NEW j \in 0..n PROVE away[b] < away[j] \/ (away[b] = away[j] /\ b <= j)
      <4>1. away[b] <= away[j] /\ away[b] \in Int /\ away[j] \in Int BY <3>1, <3>2
      <4>2. j < b => away[b] < away[j]
        <5>1. j < b => j \in 0..b - 1 BY <3>1
        <5>. QED BY <3>2, <5>1
      <4>. QED BY <4>1, <4>2
    <3>. QED BY <3>3
  <2>. HIDE DEF Best
  <2>. QED BY <2>1
<1>7. best % n = IF best = n THEN 0 ELSE best
  <2>. HIDE DEF best
  <2>1. best \in Nat /\ best < 2 * n BY <1>1, <1>5
  <2>. QED BY <1>1, <1>5, <2>1, SmallRemainder
<1>8. \A j \in 0..n : away[best] <= away[j]
  <2>. HIDE DEF best, away
  <2>. QED BY <1>4, <1>5
<1>. HIDE DEF best
<1>9. /\ LineAt(tuning, best % n, q + up) = found
      /\ found \in Int /\ Distance(pitch, found) = away[best]
  <2>1. q * Octave \in Int /\ (q + 1) * Octave = q * Octave + Octave /\ Octave * q = q * Octave
    BY <1>3, OctaveFacts
  <2>2. LineAt(tuning, best % n, q + up) = rotation + C(best % n) + (q + up) * Octave
    BY DEF LineAt, C
  <2>3. rotation + C(best % n) + (q + up) * Octave = found
    <3>1. CASE best = n
      <4>1. C(best % n) = 0 /\ C(best) = Octave /\ (q + up) * Octave = q * Octave + Octave
        BY <1>2, <1>7, <2>1, <3>1
      <4>. QED BY <2>1, <4>1, OctaveFacts
    <3>2. CASE best # n
      <4>1. best % n = best /\ q + up = q BY <1>3, <1>7, <3>2
      <4>. QED BY <4>1
    <3>. QED BY <3>1, <3>2
  <2>4. C(best) \in Nat BY <1>2, <1>5
  <2>5. Distance(pitch, found) = Distance(r, C(best))
    <3>1. pitch - found = r - C(best) /\ found \in Int BY <1>3, <2>1, <2>4
    <3>. QED BY <1>3, <2>4, <3>1 DEF Distance
  <2>6. found \in Int BY <2>1, <2>4
  <2>. QED BY <1>4, <1>5, <2>2, <2>3, <2>5, <2>6
<1>10. ASSUME NEW slot \in 0..n - 1, NEW octave \in Int
       PROVE  away[best] <= Distance(pitch, LineAt(tuning, slot, octave))
  <2>1. LineAt(tuning, slot, octave) = rotation + C(slot) + octave * Octave BY DEF LineAt, C
  <2>2. C(slot) \in Nat /\ C(slot) < Octave /\ slot \in 0..n BY <1>1, <1>2
  <2>3. PICK d \in Int : d = octave - q BY <1>3
  <2>4. octave * Octave = Octave * q + d * Octave /\ d * Octave \in Int /\ Octave * q \in Int
    BY <1>3, <2>3, OctaveFacts
  <2>5. pitch - LineAt(tuning, slot, octave) = r - C(slot) - d * Octave
        /\ LineAt(tuning, slot, octave) \in Int
    BY <1>3, <2>1, <2>2, <2>4
  <2>. DEFINE m == r - C(slot) - d * Octave
  <2>6. Distance(pitch, LineAt(tuning, slot, octave)) = IF m >= 0 THEN m ELSE -m
    <3>1. PICK l \in Int : l = LineAt(tuning, slot, octave) BY <2>5
    <3>2. m \in Int /\ pitch - l = m BY <1>3, <2>2, <2>4, <2>5, <3>1
    <3>. HIDE DEF m
    <3>3. Distance(pitch, l) = IF m >= 0 THEN m ELSE -m BY <3>2 DEF Distance
    <3>. QED BY <3>1, <3>3
  <2>. HIDE DEF m
  <2>7. CASE d = 0
    <3>1. m = r - C(slot) BY <1>3, <2>2, <2>7, OctaveFacts DEF m
    <3>2. (IF m >= 0 THEN m ELSE -m) = away[slot] BY <1>3, <1>4, <2>2, <3>1 DEF Distance
    <3>. QED BY <1>8, <2>2, <2>6, <3>2
  <2>8. CASE d > 0
    <3>1. \A x \in Nat : x > 0 => x * Octave >= Octave BY OctaveFacts
    <3>2. d * Octave >= Octave BY <2>8, <3>1
    <3>3. m <= r - Octave /\ m \in Int BY <1>3, <2>2, <2>4, <3>2, OctaveFacts DEF m
    <3>4. n \in 0..n /\ away[n] = Octave - r BY <1>1, <1>2, <1>3, <1>4, OctaveFacts DEF Distance
    <3>5. away[best] <= Octave - r BY <1>8, <3>4
    <3>. QED BY <1>3, <1>4, <1>5, <2>6, <3>3, <3>5, OctaveFacts
  <2>9. CASE d < 0
    <3>1. \A x \in Nat : x > 0 => x * Octave >= Octave BY OctaveFacts
    <3>2. -d \in Nat /\ -d > 0 /\ (-d) * Octave = -(d * Octave) BY <2>9, OctaveFacts
    <3>3. -(d * Octave) >= Octave BY <3>1, <3>2
    <3>4. m >= r /\ m \in Int BY <1>3, <2>2, <2>4, <3>3, OctaveFacts DEF m
    <3>5. 0 \in 0..n /\ away[0] = r BY <1>1, <1>2, <1>3, <1>4 DEF Distance
    <3>6. away[best] <= r BY <1>8, <3>5
    <3>. QED BY <1>3, <1>4, <1>5, <2>6, <3>4, <3>6
  <2>. QED BY <2>7, <2>8, <2>9
<1>. HIDE DEF away, found
<1>11. PitchFindsItsLine(tuning, pitch)
  <2>. HIDE DEF up
  <2>2. ASSUME NEW slot \in 0..n - 1, NEW octave \in (q + up) - 1..(q + up) + 1
        PROVE  Distance(pitch, found) <= Distance(pitch, LineAt(tuning, slot, octave))
    <3>1. octave \in Int BY <1>3 DEF up
    <3>. QED BY <1>9, <1>10, <3>1
  <2>3. LET line == Resolve(tuning, pitch) IN line.slot = best % n /\ line.octave = q + up BY <1>0
  <2>. QED BY <1>9, <2>2, <2>3 DEF PitchFindsItsLine, n
<1>12. best % n \in 0..n - 1 /\ q + up \in Int BY <1>1, <1>3, <1>5, <1>7
<1>. QED BY <1>0, <1>11, <1>12 DEF n

-----------------------------------------------------------------------------
(* Degrees on the dial. *)

IsScaleOf(scale, mask, rotated) ==
    \E octave \in Int :
        IsMask(mask) /\ IsRotated(rotated) /\ scale = Scale(mask, rotated, octave)
IsScale(scale) == \E mask, rotated : IsScaleOf(scale, mask, rotated)

LEMMA RotatedMade ==
  ASSUME NEW g, Closes(g), NEW rotation \in Int, NEW start \in Nat, start < Len(g)
  PROVE  IsRotated([tuning |-> [intervals |-> g, rotation |-> rotation], start |-> start])
BY Zenon DEF IsRotated, IsRotationOf

LEMMA ScaleMade ==
  ASSUME NEW mask, IsMask(mask), NEW rotated, IsRotated(rotated), NEW octave \in Int
  PROVE  IsScale(Scale(mask, rotated, octave))
BY Zenon DEF IsScale, IsScaleOf

\* The arc between two lines of an octave.
LEMMA ArcIs ==
  ASSUME NEW a \in 0..Octave - 1, NEW b \in 0..Octave - 1
  PROVE  /\ AngularDistance(a, b) \in Nat
         /\ AngularDistance(a, b) = 0 <=> a = b
<1>. DEFINE d == Distance(a, b)
<1>1. d \in Nat /\ d < Octave /\ d < 2 * Octave /\ (d = 0 <=> a = b) BY OctaveFacts DEF Distance
<1>. HIDE DEF d
<1>2. d % Octave = d BY <1>1, OctaveFacts, SmallRemainder
<1>3. AngularDistance(a, b) = Lesser(d, Octave - d) BY <1>2 DEF AngularDistance, d
<1>. QED BY <1>1, <1>3, OctaveFacts DEF Lesser

\* An arc from anywhere to anywhere.
LEMMA ArcType ==
  ASSUME NEW a \in Int, NEW b \in Int
  PROVE  AngularDistance(a, b) \in Nat
<1>. DEFINE d == Distance(a, b) % Octave
<1>1. d \in 0..Octave - 1 BY OctaveFacts DEF Distance
<1>. HIDE DEF d
<1>2. AngularDistance(a, b) = Lesser(d, Octave - d) BY DEF AngularDistance, d
<1>. QED BY <1>1, <1>2, OctaveFacts DEF Lesser

\* A needle on a tick lights that tick.
LEMMA TickIsCurrent ==
  ASSUME NEW slots, Len(slots) \in Nat \ {0},
         \A i \in 1..Len(slots) : slots[i].angle \in 0..Octave - 1,
         \A i, j \in 1..Len(slots) : slots[i].angle = slots[j].angle => i = j,
         NEW m \in 1..Len(slots), NEW needle, needle = slots[m].angle
  PROVE  CurrentSlot(slots, needle) = m
<1>. DEFINE n == Len(slots)
            away(i) == AngularDistance(Fract(slots[i].angle), needle)
            Is(i) == \A j \in 1..n : away(i) < away(j) \/ (away(i) = away(j) /\ i <= j)
            nearest == CHOOSE i \in 1..n : Is(i)
            arc(j) == AngularDistance(slots[nearest].angle, slots[j].angle)
            smaller_arc == Lesser(arc(((nearest - 2) % n) + 1), arc((nearest % n) + 1))
<1>1. \A i \in 1..n : away(i) \in Nat /\ (away(i) = 0 <=> i = m)
  <2>. SUFFICES ASSUME NEW i \in 1..n PROVE away(i) \in Nat /\ (away(i) = 0 <=> i = m) OBVIOUS
  <2>1. PICK a \in 0..Octave - 1 : a = slots[i].angle OBVIOUS
  <2>2. PICK b \in 0..Octave - 1 : b = needle OBVIOUS
  <2>3. Fract(a) = a BY SmallFract
  <2>4. away(i) = AngularDistance(a, b) BY <2>1, <2>2, <2>3
  <2>5. a = b <=> i = m BY <2>1, <2>2
  <2>. HIDE DEF away
  <2>. QED BY <2>4, <2>5, ArcIs
<1>2. nearest = m
  <2>. HIDE DEF away
  <2>1. Is(m) BY <1>1
  <2>2. \A i \in 1..n : Is(i) => i = m BY <1>1
  <2>. HIDE DEF Is
  <2>. QED BY <2>1, <2>2
<1>3. smaller_arc \in Nat
  <2>1. (m - 2) % n \in 0..n - 1 /\ m % n \in 0..n - 1 OBVIOUS
  <2>2. ((m - 2) % n) + 1 \in 1..n /\ (m % n) + 1 \in 1..n BY <2>1
  <2>3. \A j \in 1..n : arc(j) \in Nat
    <3>. SUFFICES ASSUME NEW j \in 1..n PROVE arc(j) \in Nat OBVIOUS
    <3>1. slots[nearest].angle \in Int /\ slots[j].angle \in Int
      <4>. HIDE DEF nearest
      <4>. QED BY <1>2, OctaveFacts
    <3>. HIDE DEF nearest
    <3>. QED BY <3>1, ArcType
  <2>4. ((nearest - 2) % n) + 1 \in 1..n /\ (nearest % n) + 1 \in 1..n
    <3>. HIDE DEF nearest
    <3>. QED BY <1>2, <2>2
  <2>. HIDE DEF arc, nearest
  <2>. QED BY <2>3, <2>4 DEF Lesser
<1>4. needle # Nothing BY OctaveFacts
<1>5. 6 * away(nearest) <= smaller_arc
  <2>. HIDE DEF away, nearest, smaller_arc
  <2>. QED BY <1>1, <1>2, <1>3
<1>6. CurrentSlot(slots, needle) = IF n = 0 \/ needle = Nothing THEN Nothing
                                  ELSE IF 6 * away(nearest) <= smaller_arc THEN nearest ELSE Nothing
  BY Zenon DEF CurrentSlot
<1>. HIDE DEF away, nearest, smaller_arc
<1>. QED BY <1>2, <1>4, <1>5, <1>6

\* The slots of the degrees of a scale all of whose notes are in the tuning.
LEMMA SlotsClimb ==
  ASSUME NEW mask, IsMask(mask), NEW n \in Nat \ {0},
         \A d \in 0..Cardinality(mask) - 1 : HasSlot(mask, d, n)
  PROVE  \E m \in Nat \ {0} :
           /\ m = Cardinality(mask)
           /\ \A d \in 0..m - 1 :
                /\ SlotOfDegree(mask, d, n) \in mask
                /\ SlotOfDegree(mask, d, n) \in 0..n - 1
                /\ SlotOfDegree(mask, d + m, n) = SlotOfDegree(mask, d, n) + n
                /\ SlotOfDegree(mask, d, n) < SlotOfDegree(mask, d + 1, n)
                /\ SlotOfDegree(mask, d + 1, n) \in Nat
           /\ SlotOfDegree(mask, 0, n) = 0
<1>1. PICK k \in Nat \ {0} : HasDegrees(mask, n, k) BY DegreesOf
<1>. DEFINE m == Cardinality(mask)
            D == Degrees(mask, n)
<1>2. /\ m \in Nat \ {0} /\ k <= m /\ k = Cardinality(Below(mask, n))
      /\ D \in [1..k -> Below(mask, n)] /\ D[1] = 0
      /\ \A i, j \in 1..k : i < j => D[i] < D[j]
  BY <1>1 DEF HasDegrees
<1>3. \A d \in Nat : SlotOfDegree(mask, d, n) = D[(d % m) + 1] + (d \div m) * n
  BY DEF SlotOfDegree, Degrees, Below
<1>4. m = k
  <2>1. m - 1 \in 0..m - 1 /\ m - 1 < 2 * m /\ m - 1 \in Nat BY <1>2
  <2>2. HasSlot(mask, m - 1, n) BY <2>1
  <2>3. ((m - 1) % m) < k BY <1>2, <2>2 DEF HasSlot, Below
  <2>. HIDE DEF m
  <2>4. (m - 1) % m = m - 1
    <3>1. PICK x \in Nat : x = m - 1 /\ x < m /\ x < 2 * m BY <1>2, <2>1
    <3>2. x % m = x BY <1>2, <3>1, SmallRemainder
    <3>. QED BY <3>1, <3>2
  <2>. QED BY <1>2, <2>3, <2>4
<1>5. \A i \in 1..k : D[i] \in mask /\ D[i] \in 0..n - 1
  <2>. SUFFICES ASSUME NEW i \in 1..k PROVE D[i] \in mask /\ D[i] \in 0..n - 1 OBVIOUS
  <2>1. D[i] \in Below(mask, n) BY <1>2
  <2>. HIDE DEF D
  <2>2. D[i] \in mask /\ D[i] < n BY <2>1 DEF Below
  <2>3. D[i] \in Nat BY <2>2 DEF IsMask
  <2>. QED BY <2>2, <2>3
<1>. HIDE DEF m, D
<1>6. ASSUME NEW d \in 0..m - 1
      PROVE  /\ d % m = d /\ d \div m = 0 /\ d \in Nat
             /\ (d + m) % m = d /\ (d + m) \div m = 1 /\ d + m \in Nat
  <2>1. d \in Nat /\ d < m /\ d < 2 * m /\ d + m \in Nat /\ d + m < 2 * m /\ ~(d + m < m)
        /\ (d + m) - m = d
    BY <1>2
  <2>2. d % m = d /\ (d + m) % m = d BY <1>2, <2>1, SmallRemainder
  <2>3. \A a \in Nat : a = m * (a \div m) + (a % m) /\ a \div m \in Int BY <1>2
  <2>4. \A q \in Int : m * q = 0 => q = 0 BY <1>2
  <2>5. \A q \in Int : m * q = m => q = 1 BY <1>2
  <2>6. PICK p \in Int : p = d \div m BY <2>1, <2>3
  <2>7. PICK q \in Int : q = (d + m) \div m BY <2>1, <2>3
  <2>8. d = m * p + d /\ d + m = m * q + d BY <2>1, <2>2, <2>3, <2>6, <2>7
  <2>9. m * p \in Int /\ m * q \in Int BY <1>2
  <2>10. m * p = 0 /\ m * q = m BY <1>2, <2>1, <2>8, <2>9
  <2>. QED BY <2>1, <2>2, <2>4, <2>5, <2>6, <2>7, <2>10
<1>7. ASSUME NEW d \in 0..m - 1
      PROVE  /\ SlotOfDegree(mask, d, n) = D[d + 1] /\ d + 1 \in 1..k
             /\ SlotOfDegree(mask, d + m, n) = D[d + 1] + n
  <2>1. d + 1 \in 1..k BY <1>2, <1>4
  <2>2. D[d + 1] \in Nat BY <1>5, <2>1
  <2>3. 0 * n = 0 /\ 1 * n = n OBVIOUS
  <2>. QED BY <1>3, <1>6, <2>1, <2>2, <2>3
<1>8. 0 \in 0..m - 1 /\ 0 + m = m BY <1>2
<1>9. SlotOfDegree(mask, 0, n) = 0 /\ SlotOfDegree(mask, m, n) = n
  BY <1>2, <1>7, <1>8
<1>10. ASSUME NEW d \in 0..m - 1
       PROVE  /\ SlotOfDegree(mask, d, n) < SlotOfDegree(mask, d + 1, n)
              /\ SlotOfDegree(mask, d + 1, n) \in Nat
  <2>1. SlotOfDegree(mask, d, n) = D[d + 1] /\ D[d + 1] \in 0..n - 1 /\ d + 1 \in 1..k
    BY <1>5, <1>7
  <2>2. CASE d + 1 = m
    BY <1>9, <2>1, <2>2
  <2>3. CASE d + 1 # m
    <3>1. d + 1 \in 0..m - 1 BY <1>2, <2>3
    <3>2. SlotOfDegree(mask, d + 1, n) = D[(d + 1) + 1] /\ (d + 1) + 1 \in 1..k BY <1>7, <3>1
    <3>3. D[(d + 1) + 1] \in 0..n - 1 /\ D[d + 1] < D[(d + 1) + 1] BY <1>2, <1>5, <2>1, <3>2
    <3>. QED BY <2>1, <3>2, <3>3
  <2>. QED BY <2>2, <2>3
<1>11. ASSUME NEW d \in 0..m - 1
       PROVE  /\ SlotOfDegree(mask, d, n) \in mask /\ SlotOfDegree(mask, d, n) \in 0..n - 1
              /\ SlotOfDegree(mask, d + m, n) = SlotOfDegree(mask, d, n) + n
  BY <1>5, <1>7
<1>12. m \in Nat \ {0} /\ m = Cardinality(mask) BY <1>2 DEF m
<1>. QED BY <1>9, <1>10, <1>11, <1>12

LEMMA DegreesAreDrawn ==
  ASSUME NEW scale, IsScale(scale)
  PROVE  DegreesAreWhereTheyAreDrawn(scale)
<1>0. PICK mask, rotated : IsScaleOf(scale, mask, rotated) BY DEF IsScale
<1>1. PICK octave \in Int :
        IsMask(mask) /\ IsRotated(rotated) /\ scale = Scale(mask, rotated, octave)
  BY <1>0 DEF IsScaleOf
<1>b. PICK g : IsRotationOf(rotated, g) BY <1>1 DEF IsRotated
<1>2. PICK rotation \in Int, start \in Nat :
        /\ Closes(g) /\ start < Len(g)
        /\ rotated = [tuning |-> [intervals |-> g, rotation |-> rotation], start |-> start]
  BY <1>b DEF IsRotationOf
<1>. DEFINE n == Len(g)
            h == RotatedIntervals(rotated)
            C(k) == CumulativeRotationTo(h, k)
            slots == BuildSlots(scale)
            S(d) == SlotOfDegree(mask, d, n)
            base == Rotation(rotated) + octave * Octave
<1>3. n \in Nat \ {0} BY <1>2, OctaveFacts DEF Closes
<1>4. scale.mask = mask /\ scale.tuning = rotated /\ scale.octave = octave BY <1>1 DEF Scale
<1>5. Closes(h) /\ Len(h) = n /\ Slots(rotated) = n BY <1>2, RotatedIs
<1>6. SlotsOf(scale) = n BY <1>4, <1>5 DEF SlotsOf
<1>7. base \in Int
  <2>1. PICK a \in Int : a = rotation + CumulativeRotationTo(g, start) BY <1>2, LineNext
  <2>2. Rotation(rotated) = Fract(a) BY <1>2, <2>1 DEF Rotation
  <2>3. Fract(a) \in Int BY FractIs, OctaveFacts
  <2>. QED BY <2>2, <2>3, OctaveFacts
<1>. HIDE DEF n, h
<1>8. \A d \in Nat : PitchAt(scale, d) = base + C(S(d)) BY <1>4, <1>6 DEF PitchAt, h
<1>. HIDE DEF base
<1>9. /\ \A i \in 0..n - 1 : C(i) \in 0..Octave - 1
      /\ \A i \in Nat : C(i) \in Int /\ C(i + n) = C(i) + Octave
      /\ \A i, j \in Nat : i < j => C(i) < C(j)
  <2>1. ASSUME NEW i \in 0..n - 1 PROVE C(i) \in 0..Octave - 1
    <3>1. i \in 0..Len(h) /\ i < Len(h) BY <1>3, <1>5
    <3>. QED BY <1>5, <3>1, LinesOfOctave
  <2>2. \A i \in Nat : C(i) \in Int /\ C(i + n) = C(i) + Octave BY <1>5, LineNext, LinesRepeat
  <2>3. \A i, j \in Nat : i < j => C(i) < C(j) BY <1>5, LinesClimb
  <2>. QED BY <2>1, <2>2, <2>3
<1>10. /\ Len(slots) = n
       /\ \A i \in 1..n : slots[i].angle = C(i - 1) /\ (slots[i].active <=> i - 1 \in mask)
  <2>1. slots = [i \in 1..n |-> [angle |-> C(i - 1), active |-> i - 1 \in mask]]
    BY <1>4, <1>6, Zenon DEF BuildSlots, TickAngle, h
  <2>. HIDE DEF slots, C
  <2>2. Len(slots) = n BY <1>3, <2>1
  <2>3. ASSUME NEW i \in 1..n
        PROVE  slots[i].angle = C(i - 1) /\ (slots[i].active <=> i - 1 \in mask)
    <3>1. slots[i] = [angle |-> C(i - 1), active |-> i - 1 \in mask] BY <2>1
    <3>2. slots[i].angle = C(i - 1) BY <3>1
    <3>3. slots[i].active = (i - 1 \in mask)
      <4>1. \A v, w : [angle |-> v, active |-> w].active = w OBVIOUS
      <4>. QED BY <3>1, <4>1, Zenon
    <3>. QED BY <3>2, <3>3, Zenon
  <2>. QED BY <2>2, <2>3
<1>. HIDE DEF C, slots
<1>11. SUFFICES ASSUME \A d \in 0..Cardinality(mask) - 1 : HasSlot(mask, d, n),
                       NEW e \in 0..Cardinality(mask) - 1
                PROVE  /\ PitchAt(scale, e) < PitchAt(scale, e + 1)
                       /\ PitchAt(scale, e + Cardinality(mask)) = PitchAt(scale, e) + Octave
                       /\ slots[S(e) + 1].active
                       /\ CurrentSlot(slots, NeedleAngle(scale, PitchAt(scale, e))) = S(e) + 1
  BY <1>4, <1>6 DEF DegreesAreWhereTheyAreDrawn, slots
<1>12. PICK m \in Nat \ {0} :
         /\ m = Cardinality(mask)
         /\ \A d \in 0..m - 1 :
              /\ S(d) \in mask /\ S(d) \in 0..n - 1 /\ S(d + m) = S(d) + n
              /\ S(d) < S(d + 1) /\ S(d + 1) \in Nat
         /\ S(0) = 0
  BY <1>1, <1>3, <1>11, SlotsClimb
<1>. HIDE DEF S
<1>13. /\ e \in 0..m - 1 /\ e \in Nat /\ e + 1 \in Nat /\ e + m \in Nat
       /\ S(e) \in mask /\ S(e) \in 0..n - 1 /\ S(e) \in Nat /\ S(e + m) = S(e) + n
       /\ S(e) < S(e + 1) /\ S(e + 1) \in Nat
  BY <1>11, <1>12
<1>14. PitchAt(scale, e) < PitchAt(scale, e + 1)
  <2>1. C(S(e)) < C(S(e + 1)) /\ C(S(e)) \in Int /\ C(S(e + 1)) \in Int BY <1>9, <1>13
  <2>2. PitchAt(scale, e) = base + C(S(e)) /\ PitchAt(scale, e + 1) = base + C(S(e + 1))
    BY <1>8, <1>13
  <2>. QED BY <1>7, <2>1, <2>2
<1>15. PitchAt(scale, e + m) = PitchAt(scale, e) + Octave
  <2>1. C(S(e) + n) = C(S(e)) + Octave /\ C(S(e)) \in Int BY <1>9, <1>13
  <2>2. PitchAt(scale, e) = base + C(S(e)) /\ PitchAt(scale, e + m) = base + C(S(e) + n)
    BY <1>8, <1>13
  <2>. QED BY <1>7, <2>1, <2>2, OctaveFacts
<1>16. S(e) + 1 \in 1..n /\ (S(e) + 1) - 1 = S(e) BY <1>3, <1>13
<1>17. slots[S(e) + 1].active BY <1>10, <1>13, <1>16
<1>18. NeedleAngle(scale, PitchAt(scale, e)) = slots[S(e) + 1].angle
  <2>1. C(0) = 0 BY <1>5, LineNext DEF C
  <2>2. PitchAt(scale, 0) = base + 0 BY <1>8, <1>12, <2>1
  <2>3. PICK c \in 0..Octave - 1 : c = C(S(e)) BY <1>9, <1>13
  <2>4. PitchAt(scale, e) - PitchAt(scale, 0) = c BY <1>7, <1>8, <1>13, <2>2, <2>3, OctaveFacts
  <2>5. Fract(c) = c BY SmallFract
  <2>6. slots[S(e) + 1].angle = c BY <1>10, <1>16, <2>3
  <2>. QED BY <2>4, <2>5, <2>6 DEF NeedleAngle
<1>19. CurrentSlot(slots, slots[S(e) + 1].angle) = S(e) + 1
  <2>1. \A i \in 1..n : slots[i].angle \in 0..Octave - 1
    <3>. SUFFICES ASSUME NEW i \in 1..n PROVE slots[i].angle \in 0..Octave - 1 OBVIOUS
    <3>1. i - 1 \in 0..n - 1 BY <1>3
    <3>. QED BY <1>9, <1>10, <3>1
  <2>2. \A i, j \in 1..n : slots[i].angle = slots[j].angle => i = j
    <3>. SUFFICES ASSUME NEW i \in 1..n, NEW j \in 1..n, slots[i].angle = slots[j].angle
                  PROVE  i = j
      OBVIOUS
    <3>1. i - 1 \in Nat /\ j - 1 \in Nat /\ C(i - 1) = C(j - 1) BY <1>3, <1>10
    <3>2. ~(i - 1 < j - 1) /\ ~(j - 1 < i - 1) BY <1>9, <3>1
    <3>. QED BY <1>3, <3>1, <3>2
  <2>3. /\ Len(slots) \in Nat \ {0} /\ S(e) + 1 \in 1..Len(slots)
        /\ \A i \in 1..Len(slots) : slots[i].angle \in 0..Octave - 1
        /\ \A i, j \in 1..Len(slots) : slots[i].angle = slots[j].angle => i = j
    BY <1>3, <1>10, <1>16, <2>1, <2>2
  <2>. QED BY <2>3, TickIsCurrent
<1>. QED BY <1>12, <1>14, <1>15, <1>17, <1>18, <1>19

-----------------------------------------------------------------------------
(* A song keeps to the tunings and masks it was made of. *)

SongInv ==
    /\ song \in [kind : Kinds, reference : References, scale : {song.scale}]
    /\ IsScale(song.scale)

\* The tuning of the settings.
LEMMA AbsoluteIs ==
  ASSUME song \in [kind : Kinds, reference : References, scale : {song.scale}]
  PROVE  \E rotation \in Int :
           /\ AbsoluteOf(song) = [intervals |-> KindIntervals(song.kind), rotation |-> rotation]
           /\ Closes(KindIntervals(song.kind))
           /\ rotation \in 0..Octave - 1
<1>1. song.kind \in Kinds /\ song.reference \in Int BY OctaveFacts
<1>2. Fract(song.reference) \in 0..Octave - 1 /\ Fract(song.reference) \in Int
  BY <1>1, FractIs, OctaveFacts
<1>3. AbsoluteOf(song) =
        [intervals |-> KindIntervals(song.kind), rotation |-> Fract(song.reference)]
  BY DEF AbsoluteOf, TuningAbsolute
<1>. QED BY <1>1, <1>2, <1>3, KindCloses

\* What a capture makes of a song is one, its tonic on the line that the pitch resolved to.
LEMMA CaptureIs ==
  ASSUME SongInv, NEW pitch \in Pitches
  PROVE  LET absolute == AbsoluteOf(song)
             line == Resolve(absolute, pitch)
             captured == CaptureScale(absolute, song.scale, pitch)
         IN /\ IsScale(captured)
            /\ PitchFindsItsLine(absolute, pitch)
            /\ captured.mask = song.scale.mask
            /\ PitchAt(captured, 0) = CapturedAt(absolute, line)
<1>. DEFINE absolute == AbsoluteOf(song)
            line == Resolve(absolute, pitch)
            g == KindIntervals(song.kind)
            n == Len(g)
            rotated == [tuning |-> absolute, start |-> line.slot]
            captured == CaptureScale(absolute, song.scale, pitch)
<1>0. PICK mask, old : IsScaleOf(song.scale, mask, old) BY DEF SongInv, IsScale
<1>1. IsMask(mask) /\ song.scale.mask = mask BY <1>0 DEF IsScaleOf, Scale
<1>2. PICK rotation \in Int :
        /\ absolute = [intervals |-> g, rotation |-> rotation] /\ Closes(g)
        /\ rotation \in 0..Octave - 1
  BY AbsoluteIs DEF SongInv
<1>3. n \in Nat \ {0} BY <1>2, OctaveFacts DEF Closes
<1>4. pitch \in Int BY PitchesAreSteps
<1>. HIDE DEF absolute, g
<1>5. /\ line.slot \in 0..n - 1 /\ line.octave \in Int /\ PitchFindsItsLine(absolute, pitch)
  BY <1>2, <1>4, ResolveIs
<1>. HIDE DEF line
<1>6. TuningRotated(absolute, line.slot) = rotated
  <2>1. line.slot \in Nat /\ line.slot < n /\ line.slot < 2 * n BY <1>3, <1>5
  <2>2. line.slot % n = line.slot BY <1>3, <2>1, SmallRemainder
  <2>3. absolute.intervals = g BY <1>2
  <2>4. TuningRotated(absolute, line.slot) = [tuning |-> absolute, start |-> line.slot % n]
    BY <1>3, <2>3 DEF TuningRotated
  <2>. QED BY <2>2, <2>4
<1>7. captured = Scale(mask, rotated, line.octave)
  BY <1>1, <1>6 DEF CaptureScale, line
<1>8. IsRotated(rotated)
  <2>1. line.slot \in Nat /\ line.slot < n BY <1>3, <1>5
  <2>2. rotated = [tuning |-> [intervals |-> g, rotation |-> rotation], start |-> line.slot]
    BY <1>2
  <2>. QED BY <1>2, <2>1, <2>2, RotatedMade
<1>. HIDE DEF captured
<1>9. IsScale(captured) BY <1>1, <1>5, <1>7, <1>8, ScaleMade
<1>10. captured.mask = mask /\ captured.tuning = rotated /\ captured.octave = line.octave
  BY <1>7 DEF Scale
<1>11. PitchAt(captured, 0) = CapturedAt(absolute, line)
  <2>. DEFINE C(k) == CumulativeRotationTo(g, k)
  <2>1. SlotsOf(captured) = n BY <1>2, <1>10 DEF SlotsOf, Slots
  <2>2. SlotOfDegree(mask, 0, n) = 0
    <3>1. PICK k \in Nat \ {0} : HasDegrees(mask, n, k) BY <1>1, <1>3, DegreesOf
    <3>2. Degrees(mask, n)[1] = 0 /\ Cardinality(mask) \in Nat \ {0} BY <3>1 DEF HasDegrees
    <3>3. 0 % Cardinality(mask) = 0 /\ 0 \div Cardinality(mask) = 0 BY <3>2
    <3>4. SlotOfDegree(mask, 0, n) = Degrees(mask, n)[0 + 1] + 0 * n
      BY <3>3 DEF SlotOfDegree, Degrees, Below
    <3>. QED BY <1>3, <3>2, <3>4
  <2>3. CumulativeRotationTo(RotatedIntervals(rotated), 0) = 0
    BY SumNone DEF CumulativeRotationTo
  <2>4. PICK c \in Int : c = C(line.slot)
    <3>1. line.slot \in Nat BY <1>3, <1>5
    <3>. QED BY <1>2, <3>1, LineNext
  <2>5. Rotation(rotated) = Fract(rotation + c)
    BY <1>2, <2>4 DEF Rotation
  <2>6. PICK a \in Nat : a = rotation + c /\ a < 2 * Octave
    <3>1. line.slot \in 0..n /\ line.slot < n /\ n = Len(g) BY <1>3, <1>5
    <3>2. c \in 0..Octave - 1 BY <1>2, <2>4, <3>1, LinesOfOctave
    <3>. QED BY <1>2, <3>2, OctaveFacts
  <2>7. Fract(a) = IF a < Octave THEN a ELSE a - Octave
    BY <2>6, SmallRemainder, OctaveFacts DEF Fract
  <2>8. PitchAt(captured, 0) = Fract(a) + line.octave * Octave
    <3>1. Fract(a) \in Int /\ line.octave * Octave \in Int
      <4>1. Fract(a) \in Int BY FractIs, OctaveFacts
      <4>2. line.octave * Octave \in Int BY <1>5, OctaveFacts
      <4>. QED BY <4>1, <4>2
    <3>. QED BY <1>10, <2>1, <2>2, <2>3, <2>5, <2>6, <3>1 DEF PitchAt
  <2>9. LineAt(absolute, line.slot, line.octave) = a + line.octave * Octave
    BY <1>2, <2>4, <2>6 DEF LineAt
  <2>10. PICK x \in Int : x = line.octave * Octave BY <1>5, OctaveFacts
  <2>11. Fract(a) + x = (a + x) - (IF a < Octave THEN 0 ELSE Octave)
    BY <2>6, <2>7, <2>10, OctaveFacts
  <2>12. CapturedAt(absolute, line) = (a + x) - (IF a < Octave THEN 0 ELSE Octave)
    <3>1. absolute.rotation + CumulativeRotationTo(absolute.intervals, line.slot) = a
      BY <1>2, <2>4, <2>6
    <3>. QED BY <2>9, <2>10, <3>1 DEF CapturedAt
  <2>. QED BY <2>8, <2>10, <2>11, <2>12
<1>. QED BY <1>1, <1>5, <1>9, <1>10, <1>11 DEF captured, line, absolute

LEMMA SongInitially == SongInit => SongInv
<1>. SUFFICES ASSUME SongInit PROVE SongInv OBVIOUS
<1>. DEFINE mask == DefaultScale.mask
            rotated == DefaultScale.tuning
            tuning == rotated.tuning
<1>1. song \in [kind : Kinds, reference : References, scale : {DefaultScale}]
      /\ song.scale = DefaultScale
  BY DEF SongInit
<1>2. /\ DefaultScale = Scale(mask, rotated, DefaultScale.octave)
      /\ DefaultScale.octave \in Int /\ IsMask(mask)
      /\ tuning.rotation \in Int /\ rotated.start \in Nat
      /\ rotated = TuningRotated(tuning, rotated.start)
  BY ScalesClimb DEF IsMask
<1>3. PICK kind \in Kinds : tuning = TuningAbsolute(KindIntervals(kind), tuning.rotation)
  BY ScalesClimb
<1>. DEFINE g == KindIntervals(kind)
            n == Len(g)
<1>4. Closes(g) BY KindCloses
<1>5. n \in Nat \ {0} BY <1>4, OctaveFacts DEF Closes
<1>. HIDE DEF g, mask, tuning
<1>6. PICK rotation \in Int : tuning = [intervals |-> g, rotation |-> rotation]
  <2>1. Fract(tuning.rotation) \in Int BY <1>2, FractIs, OctaveFacts
  <2>. QED BY <1>3, <2>1 DEF TuningAbsolute, g
<1>7. \E start \in Nat : start < n /\ rotated = [tuning |-> tuning, start |-> start]
  <2>1. tuning.intervals = g BY <1>6
  <2>2. rotated = [tuning |-> tuning, start |-> rotated.start % n]
    BY <1>2, <1>5, <2>1 DEF TuningRotated
  <2>3. rotated.start % n \in 0..n - 1 BY <1>2, <1>5
  <2>. QED BY <1>5, <2>2, <2>3
<1>8. IsRotated(rotated)
  <2>1. PICK start \in Nat : start < n /\ rotated = [tuning |-> tuning, start |-> start]
    BY <1>7
  <2>2. rotated = [tuning |-> [intervals |-> g, rotation |-> rotation], start |-> start]
    BY <1>6, <2>1
  <2>. HIDE DEF rotated
  <2>. QED BY <1>4, <2>1, <2>2, RotatedMade
<1>9. IsScale(Scale(mask, rotated, DefaultScale.octave)) BY <1>2, <1>8, ScaleMade
<1>. QED BY <1>1, <1>2, <1>9 DEF SongInv

LEMMA SongStep == SongInv /\ [SongNext]_song_vars => SongInv'
<1>. SUFFICES ASSUME SongInv, [SongNext]_song_vars PROVE SongInv' OBVIOUS
<1>1. CASE \E pitch \in Pitches : CaptureSa(pitch)
  <2>1. PICK pitch \in Pitches : CaptureSa(pitch) BY <1>1
  <2>2. PICK x : x = CaptureScale(AbsoluteOf(song), song.scale, pitch) OBVIOUS
  <2>3. IsScale(x) BY <2>2, CaptureIs
  <2>4. song' = [song EXCEPT !.scale = x] BY <2>1, <2>2 DEF CaptureSa
  <2>5. song' \in [kind : Kinds, reference : References, scale : {x}] /\ song'.scale = x
    BY <2>4 DEF SongInv
  <2>. QED BY <2>3, <2>5 DEF SongInv
<1>2. CASE PickScale
  <2>1. PICK i \in DOMAIN ScalesFor(SlotsOf(song.scale)) :
          song' = [song EXCEPT !.scale = SelectScale(@, ScalesFor(SlotsOf(@))[i])]
    BY <1>2 DEF PickScale
  <2>2. PICK mask : mask = ScalesFor(SlotsOf(song.scale))[i] OBVIOUS
  <2>3. IsMask(mask) BY <2>2, ScalesAreMasks
  <2>4. PICK x : x = SelectScale(song.scale, mask) OBVIOUS
  <2>5. IsScale(x)
    <3>0. PICK old, rotated : IsScaleOf(song.scale, old, rotated) BY DEF SongInv, IsScale
    <3>1. PICK octave \in Int : IsRotated(rotated) /\ song.scale = Scale(old, rotated, octave)
      BY <3>0 DEF IsScaleOf
    <3>2. x = Scale(mask, rotated, octave) BY <2>4, <3>1 DEF SelectScale, Scale
    <3>. QED BY <2>3, <3>1, <3>2, ScaleMade
  <2>6. song' = [song EXCEPT !.scale = x] BY <2>1, <2>2, <2>4
  <2>7. song' \in [kind : Kinds, reference : References, scale : {x}] /\ song'.scale = x
    BY <2>6 DEF SongInv
  <2>. QED BY <2>5, <2>7 DEF SongInv
<1>3. CASE Retune
  <2>1. PICK kind \in Kinds, hz \in References :
          song' = [song EXCEPT !.kind = kind, !.reference = hz]
    BY <1>3 DEF Retune
  <2>2. song' \in [kind : Kinds, reference : References, scale : {song.scale}]
        /\ song'.scale = song.scale
    BY <2>1 DEF SongInv
  <2>. QED BY <2>2 DEF SongInv
<1>4. CASE UNCHANGED song_vars
  BY <1>4 DEF SongInv, song_vars
<1>. QED BY <1>1, <1>2, <1>3, <1>4 DEF SongNext

\* The arithmetic agrees with itself in any such song.
LEMMA SongsAgree == SongInv => MusicAgrees
<1>. SUFFICES ASSUME SongInv PROVE MusicAgrees OBVIOUS
<1>0. PICK mask, rotated : IsScaleOf(song.scale, mask, rotated) BY DEF SongInv, IsScale
<1>1. PICK octave \in Int :
        IsMask(mask) /\ IsRotated(rotated) /\ song.scale = Scale(mask, rotated, octave)
  BY <1>0 DEF IsScaleOf
<1>2. song.scale.mask = mask /\ song.scale.tuning = rotated BY <1>1 DEF Scale
<1>3. RotationMovesNoLine(song.scale.tuning) BY <1>1, <1>2, RotationsMoveNoLine
<1>4. DegreesAreWhereTheyAreDrawn(song.scale) BY DegreesAreDrawn DEF SongInv
<1>5. SlotsOf(song.scale) \in Nat \ {0}
  <2>0. PICK g : IsRotationOf(rotated, g) BY <1>1 DEF IsRotated
  <2>1. PICK rotation \in Int, start \in Nat :
          /\ Closes(g)
          /\ rotated = [tuning |-> [intervals |-> g, rotation |-> rotation], start |-> start]
    BY <2>0 DEF IsRotationOf
  <2>2. SlotsOf(song.scale) = Len(g) BY <1>2, <2>1 DEF SlotsOf, Slots
  <2>. QED BY <2>1, <2>2, OctaveFacts DEF Closes
<1>6. FromWidths(Widths(mask, SlotsOf(song.scale))) = {slot \in mask : slot < SlotsOf(song.scale)}
  BY <1>1, <1>5, WidthsSayTheMask
<1>7. \A pitch \in Pitches :
        LET line == Resolve(AbsoluteOf(song), pitch)
            captured == CaptureScale(AbsoluteOf(song), song.scale, pitch)
        IN /\ PitchFindsItsLine(AbsoluteOf(song), pitch)
           /\ captured.mask = song.scale.mask
           /\ PitchAt(captured, 0) = CapturedAt(AbsoluteOf(song), line)
  BY CaptureIs
<1>. QED BY <1>2, <1>3, <1>4, <1>6, <1>7 DEF MusicAgrees

(* The pitch and scale arithmetic of tuning.rs, scale.rs and the note dial agrees with
   itself, whatever is captured, picked and retuned in whatever order: a pitch resolves
   to the nearest line, a capture keeps the mask and puts the tonic on that line, an
   octave low exactly where the root and the gaps to it exceed an octave, a rotation
   moves no line, widths say their mask, and every degree sounds where the dial lights
   it.  For every tuning, catalogue and octave. *)
THEOREM MusicAgreesAlways == SongSpec => []MusicAgrees
<1>1. SongInit => SongInv BY SongInitially
<1>2. SongInv /\ [SongNext]_song_vars => SongInv' BY SongStep
<1>3. SongInv => MusicAgrees BY SongsAgree
<1>. QED BY <1>1, <1>2, <1>3, PTL DEF SongSpec
=============================================================================
