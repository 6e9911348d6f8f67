----------------------------- MODULE ImeBridge -----------------------------
\* The Android keyboard bridge: an EditText the keyboard edits (EguiImeBridge.java and
\* EguiNativeActivity.java, on the UI thread) and the egui field it stands for
\* (ime_bridge.rs and the frame of lib.rs, on the render thread), kept equal by a queue of
\* events one way and by posted pushes the other way.
EXTENDS Naturals, Sequences, SequencesExt

CONSTANTS Letters,      \* the characters of texts
          Strokes,      \* the texts a keyboard commits or composes in one call
          MaxLen,       \* bound: the longest text the keyboard makes of the EditText's
          MaxActs,      \* bound: calls of the keyboard and moves of the others together
          MaxMoves,     \* bound: moves, which are taps, the application's edits and dismissals
          AppTexts,     \* what it writes
          Notifies,     \* whether it reports an edit: a set of booleans
          None

ASSUME ImeAssumption ==
  /\ {MaxLen, MaxActs, MaxMoves} \subseteq Nat
  /\ Strokes \cup AppTexts \subseteq Seq(Letters) /\ Notifies \subseteq BOOLEAN
  /\ None \notin Seq(Letters) \cup (Nat \X Nat) \cup [text : Seq(Letters), sel : Nat \X Nat]

VARIABLES
  edit,       \* the EditText: text, caret, composing span or None
  late,       \* what the keyboard's running call has changed and not yet queued
  queue,      \* `pending`: events for Rust
  posted,     \* what runOnUiThread has not run yet
  shown,      \* softImeRequested: the keyboard is up
  dismissed,  \* imeDismissed
  field,      \* egui's TextEdit: text, selection, whether it is composing
  fed, snap,  \* its undoer: text and selection last fed, and last kept
  aged,       \* what it was last fed has been the same for `stable_time`
  focused, hot, force, seedRestart,        \* the adapter: last_focus, ime_bridge_hot, ...
  preedit, carry, word, sync,              \* LAST_PREEDIT, CARRY, SELECTION_WORD, LAST_SYNC
  needs, restart,                          \* NEEDS_RESEED, RESEED_RESTART
  staged,     \* pending_events: what egui handles in this frame
  phase, tap, applied,                     \* the frame: its step, its pointer input, ime_applied
  plain,      \* the keyboard has only typed and deleted, and never into a posted push
  keys, moves         \* how often the keyboard and others have acted

javaVars == <<edit, late, queue, posted, shown, dismissed>>
eguiVars == <<field, fed, snap, aged>>
adapterVars == <<focused, hot, force, seedRestart>>
bridgeVars == <<preedit, carry, word, sync, needs, restart>>
frameVars == <<staged, phase, tap, applied>>
counts == <<plain, keys, moves>>
imeVars == <<javaVars, eguiVars, adapterVars, bridgeVars, frameVars, counts>>

\* The characters of t between two offsets, and t with them replaced.
Slice(t, a, b) == SubSeq(t, a + 1, b)
Splice(t, a, b, w) == SubSeq(t, 1, a) \o w \o SubSeq(t, b + 1, Len(t))
Least(a, b) == IF a < b THEN a ELSE b
Most(a, b) == IF a < b THEN b ELSE a

Commit(t) == [k |-> "T", t |-> t]
Preedit(t) == [k |-> "C", t |-> t]
Finish == [k |-> "F"]
Region(a, b, t) == [k |-> "R", a |-> a, b |-> b, t |-> t]
Delete(n, m, a, b) == [k |-> "D", n |-> n, m |-> m, a |-> a, b |-> b]
DelSpan(back, n, a) == [k |-> "K", back |-> back, n |-> n, a |-> a]
Selection(c, strong) == [k |-> "S", c |-> c, strong |-> strong]
SyncDropped == [k |-> "Y"]

Push(t, c, re) == [op |-> "state", t |-> t, c |-> c, re |-> re]
PushCaret(c, clear) == [op |-> "caret", c |-> c, clear |-> clear]

Init ==
  /\ edit = [text |-> <<>>, caret |-> 0, span |-> None]
  /\ late = <<>> /\ queue = <<>> /\ posted = <<>> /\ shown = FALSE /\ dismissed = FALSE
  /\ field = [text |-> <<>>, sel |-> <<0, 0>>, comp |-> FALSE]
  /\ fed = None /\ snap = None /\ aged = FALSE
  /\ focused = FALSE /\ hot = FALSE /\ force = FALSE /\ seedRestart = FALSE
  /\ preedit = <<>> /\ carry = <<>> /\ word = None /\ sync = None
  /\ needs = FALSE /\ restart = FALSE
  /\ staged = <<>> /\ phase = "drain" /\ tap = None /\ applied = FALSE
  /\ plain = TRUE /\ keys = 0 /\ moves = 0

------------------------------------------------------------------------------
\* The UI thread: the keyboard's calls on the InputConnection. Each changes the EditText
\* and then queues what it did: Rust can read the text in between.

Keyboard(e, events, ordinary) ==
  /\ shown /\ late = <<>> /\ keys + moves < MaxActs /\ keys' = keys + 1
  /\ Len(e.text) <= MaxLen
  /\ edit' = e /\ late' = events
  /\ plain' = (plain /\ ordinary /\ posted = <<>>)
  /\ UNCHANGED <<queue, posted, shown, dismissed, eguiVars, adapterVars, bridgeVars,
                 frameVars, moves>>

Enqueue ==
  /\ late # <<>> /\ late' = <<>> /\ queue' = queue \o late
  /\ UNCHANGED <<edit, posted, shown, dismissed, eguiVars, adapterVars, bridgeVars,
                 frameVars, counts>>

\* What commitText and setComposingText replace: the composing span, or nothing at the caret.
Target == IF edit.span = None THEN <<edit.caret, edit.caret>> ELSE edit.span

\* The caret lands after the text, or before it when newCursorPosition says so.
CommitText(t, after) ==
  LET c == Target[1] + (IF after THEN Len(t) ELSE 0)
  IN  Keyboard([text |-> Splice(edit.text, Target[1], Target[2], t), caret |-> c, span |-> None],
               <<Commit(t)>> \o (IF after THEN <<>> ELSE <<Selection(c, TRUE)>>), after)

SetComposingText(t) ==
  LET end == Target[1] + Len(t)
  IN  Keyboard([text |-> Splice(edit.text, Target[1], Target[2], t), caret |-> end,
                span |-> IF t = <<>> THEN None ELSE <<Target[1], end>>],
               <<Preedit(t)>>, TRUE)

FinishComposingText == Keyboard([edit EXCEPT !.span = None], <<Finish>>, TRUE)

SetComposingRegion(a, b) ==
  /\ a < b /\ b <= Len(edit.text)
  /\ Keyboard([edit EXCEPT !.span = <<a, b>>], <<Region(a, b, Slice(edit.text, a, b))>>, FALSE)

\* deleteSpansCp: around the union of caret and composing span, within the text.
DeleteSurroundingText(n, m) ==
  LET a == IF edit.span = None THEN edit.caret ELSE Least(edit.caret, edit.span[1])
      b == IF edit.span = None THEN edit.caret ELSE Most(edit.caret, edit.span[2])
      before == Least(n, a)
      behind == Least(m, Len(edit.text) - b)
  IN  Keyboard([text |-> Splice(Splice(edit.text, b, b + behind, <<>>), a - before, a, <<>>),
                caret |-> edit.caret - before,
                span |-> IF edit.span = None THEN None
                         ELSE <<edit.span[1] - before, edit.span[2] - before>>],
               <<Delete(before, behind, a, b)>>, TRUE)

\* mirrorDeleteInComposition takes a backspace behind the word's start, and a delete before its
\* end: the character may all the same lie outside the word. The composing span follows its text.
AtWord(back) ==
  edit.span # None /\ IF back THEN edit.caret > edit.span[1] ELSE edit.caret < edit.span[2]
Shrunk(span, a) ==
  CASE a < span[1] -> <<span[1] - 1, span[2] - 1>>
    [] span[1] <= a /\ a < span[2] -> <<span[1], span[2] - 1>>
    [] span[2] <= a -> span

\* Mutant: a word deleted to nothing stays a composing span.
DelKeyInWordEmpty(back) ==
  LET a == IF back THEN edit.caret - 1 ELSE edit.caret
      span == Shrunk(edit.span, a)
      text == Splice(edit.text, a, a + 1, <<>>)
  IN  /\ AtWord(back)
      /\ Keyboard([text |-> text, caret |-> a, span |-> span],
                  <<Preedit(Slice(text, span[1], span[2]))>>, TRUE)

\* A DEL key at the composing word: one character goes, and what is left of the word is sent.
DelKeyInWord(back) ==
  LET a == IF back THEN edit.caret - 1 ELSE edit.caret
      span == Shrunk(edit.span, a)
      text == Splice(edit.text, a, a + 1, <<>>)
  IN  /\ AtWord(back)
      /\ Keyboard([text |-> text, caret |-> a,
                   span |-> IF span[1] = span[2] THEN None ELSE span],
                  <<Preedit(Slice(text, span[1], span[2]))>>, TRUE)

\* mirrorDeleteKey: otherwise it deletes the composing span, or one character at the caret.
DelKey(back) ==
  LET a == IF edit.span # None THEN edit.span[1]
           ELSE IF back /\ edit.caret > 0 THEN edit.caret - 1 ELSE edit.caret
      b == IF edit.span # None THEN edit.span[2]
           ELSE IF ~back /\ edit.caret < Len(edit.text) THEN edit.caret + 1 ELSE edit.caret
  IN  /\ ~AtWord(back)
      /\ Keyboard([text |-> Splice(edit.text, a, b, <<>>),
                   caret |-> IF edit.caret > b THEN edit.caret - (b - a) ELSE Least(a, edit.caret),
                   span |-> None],
                  <<DelSpan(back, b - a, a)>>, TRUE)

SetSelection(c) ==
  /\ c # edit.caret /\ c <= Len(edit.text)
  /\ Keyboard([edit EXCEPT !.caret = c], <<Selection(c, FALSE)>>, FALSE)

\* One keystroke of any of these kinds.
Type ==
  \/ \E t \in Strokes : SetComposingText(t) \/ CommitText(t, TRUE) \/ CommitText(t, FALSE)
  \/ FinishComposingText
  \/ \E a, b \in 0..Len(edit.text) : SetComposingRegion(a, b)
  \/ \E n, m \in 0..1 : DeleteSurroundingText(n, m)
  \/ \E back \in BOOLEAN : DelKeyInWord(back) \/ DelKey(back)
  \/ \E c \in 0..Len(edit.text) : SetSelection(c)

Move == moves < MaxMoves /\ keys + moves < MaxActs /\ moves' = moves + 1

------------------------------------------------------------------------------
\* The UI thread: what Rust posted to it, in order, and a dismissal by the user.

\* setImeState: a push over undrained events is dropped and says so, unless it restarts the
\* session, in which case the events are dropped.
RunState(p) ==
  /\ UNCHANGED <<shown, dismissed>>
  /\ IF queue = <<>> \/ p.re
     THEN /\ queue' = <<>>
          /\ edit' = [text |-> p.t, caret |-> Least(p.c, Len(p.t)), span |-> None]
     ELSE queue' = Append(queue, SyncDropped) /\ UNCHANGED edit

RunCaret(p) ==
  /\ UNCHANGED <<shown, dismissed>>
  /\ IF queue = <<>>
     THEN /\ edit' = [edit EXCEPT !.caret = Least(p.c, Len(edit.text)),
                                  !.span = IF p.clear THEN None ELSE @]
          /\ UNCHANGED queue
     ELSE queue' = Append(queue, SyncDropped) /\ UNCHANGED edit

RunShow == shown' = TRUE /\ dismissed' = FALSE /\ UNCHANGED <<edit, queue>>
RunHide == shown' = FALSE /\ dismissed' = FALSE /\ queue' = <<>> /\ UNCHANGED edit

RunPosted ==
  /\ posted # <<>> /\ late = <<>> /\ posted' = Tail(posted)
  /\ LET p == Head(posted)
     IN  \/ p.op = "state" /\ RunState(p)
         \/ p.op = "caret" /\ RunCaret(p)
         \/ p.op = "show" /\ RunShow
         \/ p.op = "hide" /\ RunHide
  /\ UNCHANGED <<late, eguiVars, adapterVars, bridgeVars, frameVars, counts>>

\* noteImeDismissed: the back gesture.
Dismiss ==
  /\ shown /\ late = <<>> /\ Move
  /\ dismissed' = TRUE /\ shown' = FALSE /\ queue' = <<>>
  /\ UNCHANGED <<edit, late, posted, eguiVars, adapterVars, bridgeVars, frameVars,
                 plain, keys>>

------------------------------------------------------------------------------
\* The frame, first step: the adapter drains the queue into egui's events (apply_pending).
\* A batch is one record: what its events read and change, in order.

Mark(t) == [e |-> "preedit", t |-> t]
Insert(t) == [e |-> "commit", t |-> t]
Around(n, m) == [e |-> "around", n |-> n, m |-> m]
Press(back) == [e |-> "key", back |-> back]

\* egui's selection is one the EditText does not have, and this is not its deletion.
Outranks(b, span) == b.sel[1] # b.sel[2] /\ b.sel # span

Staged(b, events) == [b EXCEPT !.out = @ \o events, !.mutated = TRUE]
Deferred(b, ev) == [b EXCEPT !.later = Append(@, ev)]
Reseed(b) == [b EXCEPT !.needs = TRUE, !.restart = TRUE]
SyncCaret(b, c) == IF b.sync = None THEN b ELSE [b EXCEPT !.sync.caret = c]

\* egui_mobile_core::ime::caret_placement, and apply_ime_selection.
ShowsPreedit(b) == b.sel[2] - b.sel[1] = Len(b.preedit)
Strongly(c) == <<Selection(c, TRUE)>>
PlaceCaret(b, c) ==
  LET untracked == [b EXCEPT !.preedit = <<>>]
      after(d) == [d EXCEPT !.later = @ \o Strongly(c)]
  IN  CASE b.preedit = <<>> -> [b EXCEPT !.sel = <<c, c>>]
        [] b.preedit # <<>> /\ ShowsPreedit(b) /\ b.sel[1] <= c /\ c <= b.sel[2] ->
             Staged(b, <<Mark(b.preedit)>>)
        [] b.preedit # <<>> /\ ShowsPreedit(b) /\ ~(b.sel[1] <= c /\ c <= b.sel[2]) ->
             after(Staged(untracked, <<Insert(b.preedit)>>))
        [] b.preedit # <<>> /\ ~ShowsPreedit(b) /\ b.sel[1] = b.sel[2] ->
             after(Staged(untracked, <<Mark(<<>>)>>))
        [] b.preedit # <<>> /\ ~ShowsPreedit(b) /\ b.sel[1] # b.sel[2] ->
             [untracked EXCEPT !.sel = <<c, c>>]

ApplySelection(b, ev) ==
  IF ~ev.strong THEN [b EXCEPT !.lastSel = ev.c]
  ELSE IF b.mutated THEN Deferred(b, ev)
  ELSE [SyncCaret(PlaceCaret(b, ev.c), ev.c) EXCEPT !.lastSel = None]

ApplyCommit(b, ev) == Staged([b EXCEPT !.preedit = <<>>], <<Insert(ev.t)>>)

\* composition_over_selection: an update to a word the keyboard re-composed inside egui's
\* selection deletes the selection or replaces it.
Compose(b, t) == Staged([b EXCEPT !.preedit = t], <<Mark(t)>>)
ApplyPreedit(b, ev) ==
  LET w == b.word.t
      free == [b EXCEPT !.word = None]
      shortened == Len(ev.t) < Len(w)
                   /\ (IsPrefix(ev.t, w) \/ IsSuffix(ev.t, w))
      lengthened == Len(ev.t) > Len(w) /\ IsPrefix(w, ev.t)
  IN  IF b.word = None THEN Compose(b, ev.t)
      ELSE IF b.mutated THEN Deferred(b, ev)
      ELSE CASE shortened -> Reseed(Staged(free, <<Press(TRUE)>>))
             [] lengthened -> Reseed(Staged(free, <<Insert(Slice(ev.t, Len(w), Len(ev.t)))>>))
             [] ~shortened /\ ~lengthened ->
                  Compose([free EXCEPT !.sel = <<b.word.a, b.word.b>>], ev.t)

\* egui_mobile_core::ime::finish.
ApplyFinish(b) ==
  LET done == [b EXCEPT !.preedit = <<>>]
  IN  IF b.preedit = <<>> THEN b
      ELSE IF b.mutated \/ ShowsPreedit(b) THEN Staged(done, <<Insert(b.preedit)>>)
      ELSE IF b.sel[1] = b.sel[2] THEN Staged(done, <<Mark(<<>>)>>)
      ELSE done

ApplyDelete(b, ev) ==
  IF b.preedit = <<>> /\ ev.a = ev.b /\ Outranks(b, <<ev.a, ev.b>>)
  THEN IF b.mutated THEN Deferred(b, ev) ELSE Reseed(Staged(b, <<Press(TRUE)>>))
  ELSE IF ev.n = 0 /\ ev.m = 0 THEN b
  ELSE IF b.mutated THEN Deferred(b, ev)
  ELSE Staged([b EXCEPT !.sel = <<ev.a, ev.b>>], <<Around(ev.n, ev.m)>>)

\* The undoer's text when it has settled: flux is a difference from its last snapshot.
Settled == IF fed = snap THEN snap.text ELSE None

\* A region that egui's settled text contradicts restarts the session, and the rest of the
\* batch is dropped (resync_after_stale).
Resync(b) ==
  [b EXCEPT !.preedit = <<>>, !.out = Append(@, Mark(<<>>)), !.dead = TRUE,
            !.sync = [text |-> Settled, caret |-> b.sel[2]]]
ApplyRegion(b, ev) ==
  IF b.mutated THEN Deferred(b, ev)
  ELSE IF b.sel[1] < b.sel[2] /\ b.sel[1] <= ev.a /\ ev.b <= b.sel[2]
  THEN [b EXCEPT !.word = [a |-> ev.a, b |-> ev.b, t |-> ev.t]]
  ELSE IF Settled # None /\ Slice(Settled, ev.a, Least(ev.b, Len(Settled))) # ev.t
  THEN Resync([b EXCEPT !.word = None])
  ELSE Compose([b EXCEPT !.word = None, !.sel = <<ev.a, ev.b>>], ev.t)

\* Mutant: the span is deleted in the frame of the text before it.
ApplyDelSpanAtOnce(b, ev) ==
  IF b.preedit # <<>> THEN Staged([b EXCEPT !.preedit = <<>>], <<Mark(<<>>)>>)
  ELSE IF Outranks(b, <<ev.a, ev.a + ev.n>>) THEN Reseed(Staged(b, <<Press(ev.back)>>))
  ELSE IF ev.n = 0 THEN b
  ELSE Staged([b EXCEPT !.sel = <<ev.a, ev.a + ev.n>>], <<Press(ev.back)>>)

ApplyDelSpan(b, ev) ==
  LET span == <<ev.a, ev.a + ev.n>>
  IN  IF b.preedit # <<>> THEN Staged([b EXCEPT !.preedit = <<>>], <<Mark(<<>>)>>)
      ELSE IF Outranks(b, span)
      THEN IF b.mutated THEN Deferred(b, ev) ELSE Reseed(Staged(b, <<Press(ev.back)>>))
      ELSE IF ev.n = 0 THEN b
      ELSE IF b.mutated THEN Deferred(b, ev)
      ELSE Staged([b EXCEPT !.sel = span], <<Press(ev.back)>>)

\* Once an event waits for the next frame, everything behind it does.
ApplyEvent(b, ev) ==
  LET c == IF ev.k \in {"C", "R", "S"} THEN b ELSE [b EXCEPT !.word = None]
  IN  IF b.dead THEN b
      ELSE IF b.later # <<>> THEN Deferred(b, ev)
      ELSE CASE ev.k = "S" -> ApplySelection(b, ev)
             [] ev.k = "T" -> ApplyCommit(c, ev)
             [] ev.k = "C" -> ApplyPreedit(b, ev)
             [] ev.k = "F" -> ApplyFinish(c)
             [] ev.k = "D" -> ApplyDelete(c, ev)
             [] ev.k = "R" -> ApplyRegion(b, ev)
             [] ev.k = "K" -> ApplyDelSpan(c, ev)
             [] ev.k = "Y" -> [c EXCEPT !.sync = None, !.needs = TRUE]

\* A caret the keyboard only moved counts when nothing in the batch changed text.
ApplyBatch(events) ==
  LET start == [sel |-> field.sel, preedit |-> preedit, sync |-> sync, word |-> word,
                needs |-> needs, restart |-> restart, out |-> <<>>, later |-> <<>>,
                lastSel |-> None, mutated |-> FALSE, dead |-> FALSE]
      upTo[n \in 0..Len(events)] ==
        IF n = 0 THEN start ELSE ApplyEvent(upTo[n - 1], events[n])
      end == upTo[Len(events)]
  IN  IF end.mutated \/ end.dead \/ end.lastSel = None THEN end
      ELSE SyncCaret(PlaceCaret(end, end.lastSel), end.lastSel)

\* Mutant: what waits for the next frame survives the session.
TeardownKeepsCarry ==
  /\ hot /\ dismissed
  /\ dismissed' = FALSE /\ posted' = Append(posted, [op |-> "hide"])
  /\ hot' = FALSE /\ focused' = FALSE /\ force' = FALSE /\ seedRestart' = FALSE
  /\ preedit' = <<>> /\ staged' = <<>> /\ sync' = None /\ applied' = FALSE
  /\ UNCHANGED <<queue, field, carry, word, needs, restart>>

\* ime_teardown after a dismissal. SELECTION_WORD survives it.
Teardown ==
  /\ hot /\ dismissed
  /\ dismissed' = FALSE /\ posted' = Append(posted, [op |-> "hide"])
  /\ hot' = FALSE /\ focused' = FALSE /\ force' = FALSE /\ seedRestart' = FALSE
  /\ preedit' = <<>> /\ carry' = <<>> /\ staged' = <<>> /\ sync' = None
  /\ applied' = FALSE
  /\ UNCHANGED <<queue, field, word, needs, restart>>

\* Events drained in a frame with a tap wait for the next: egui moves its cursor first.
WaitOutTap(events) ==
  /\ carry' = events /\ applied' = FALSE
  /\ UNCHANGED <<posted, field, preedit, word, sync, needs, restart, staged>>

Apply(events) ==
  LET end == ApplyBatch(events)
  IN  /\ field' = [field EXCEPT !.sel = end.sel]
      /\ preedit' = end.preedit /\ word' = end.word /\ sync' = end.sync
      /\ needs' = end.needs /\ restart' = end.restart
      /\ posted' = IF end.dead THEN Append(posted, Push(Settled, end.sel[2], TRUE)) ELSE posted
      /\ staged' = staged \o end.out
      /\ carry' = end.later /\ applied' = TRUE

DrainQueue ==
  /\ hot /\ ~dismissed
  /\ queue' = <<>>
  /\ LET events == carry \o queue
     IN  IF events = <<>>
         THEN applied' = FALSE /\ UNCHANGED <<posted, field, bridgeVars, staged>>
         ELSE IF tap' # None THEN WaitOutTap(events) ELSE Apply(events)
  /\ UNCHANGED <<dismissed, adapterVars>>

Cold ==
  /\ ~hot /\ applied' = FALSE
  /\ UNCHANGED <<queue, posted, dismissed, field, adapterVars, bridgeVars, staged>>

\* A tap gives the field focus; in a focused field it moves the cursor or selects.
Tap ==
  \/ tap' = None /\ UNCHANGED moves
  \/ /\ ~focused /\ \E c \in 0..Len(field.text) : tap' = <<c, c>>
     /\ UNCHANGED moves
  \/ /\ focused /\ Move
     /\ \E a, b \in 0..Len(field.text) : a <= b /\ tap' = <<a, b>>

Drain ==
  /\ phase = "drain" /\ phase' = "show"
  /\ Tap
  /\ Teardown \/ DrainQueue \/ Cold
  /\ UNCHANGED <<edit, late, shown, fed, snap, aged, plain, keys>>

------------------------------------------------------------------------------
\* The frame, second step: the application's update, with egui's TextEdit in it.

Clamped(s, t) == <<Least(s[1], Len(t)), Least(s[2], Len(t))>>
Replaced(f, t) == [f EXCEPT !.text = Splice(f.text, f.sel[1], f.sel[2], t)]
After(f, t) == LET c == f.sel[1] + Len(t) IN <<c, c>>

\* An empty preedit or commit counts only while egui is composing.
TakePreedit(f, t) ==
  IF t = <<>> /\ ~f.comp THEN f
  ELSE [Replaced(f, t) EXCEPT !.sel = <<f.sel[1], f.sel[1] + Len(t)>>, !.comp = t # <<>>]
TakeCommit(f, t) ==
  IF t = <<>> /\ ~f.comp THEN f
  ELSE [Replaced(f, t) EXCEPT !.sel = After(f, t), !.comp = FALSE]
TakeAround(f, n, m) ==
  LET a == f.sel[1]
      b == f.sel[2]
      before == Least(n, a)
      behind == Least(m, Len(f.text) - b)
  IN  [f EXCEPT !.text = Splice(Splice(f.text, b, b + behind, <<>>), a - before, a, <<>>),
                !.sel = <<a - before, b - before>>]
TakeKey(f, back) ==
  LET a == IF f.sel[1] = f.sel[2] /\ back /\ f.sel[1] > 0 THEN f.sel[1] - 1 ELSE f.sel[1]
      b == IF f.sel[1] = f.sel[2] /\ ~back /\ f.sel[2] < Len(f.text) THEN f.sel[2] + 1
           ELSE f.sel[2]
  IN  [f EXCEPT !.text = Splice(f.text, a, b, <<>>), !.sel = <<a, a>>]

TakeEvent(f, ev) ==
  CASE ev.e = "preedit" -> TakePreedit(f, ev.t)
    [] ev.e = "commit" -> TakeCommit(f, ev.t)
    [] ev.e = "around" -> TakeAround(f, ev.n, ev.m)
    [] ev.e = "key" -> TakeKey(f, ev.back)

Tapped(f) == [f EXCEPT !.sel = Clamped(IF tap = None THEN @ ELSE tap, f.text)]
Fed(f) == [text |-> f.text, sel |-> f.sel]

\* The undoer keeps its first state, and then one that has been fed unchanged for a while.
Snapshot(f) == IF snap = None \/ (aged /\ f = fed) THEN f ELSE snap

Shown(f) ==
  LET g == Tapped(f)
      upTo[n \in 0..Len(staged)] == IF n = 0 THEN g ELSE TakeEvent(upTo[n - 1], staged[n])
      h == upTo[Len(staged)]
  IN  [field |-> h, fed |-> Fed(h), snap |-> Snapshot(Fed(g)),
       emitted |-> tap # None \/ h # g]
Unfocused(f) == [field |-> f, fed |-> fed, snap |-> snap, emitted |-> FALSE]

\* The application writes the field before or after it shows it, and may say so
\* (notify_out_of_band_edit).
Written(f, t) == IF t = None THEN f ELSE [f EXCEPT !.text = t]

------------------------------------------------------------------------------
\* The frame, last step: the adapter opens the session, seeds the EditText or brings it up to
\* date. Each piece takes and returns the bridge's state; u is what the TextEdit left.

Found(notified) ==
  [preedit |-> IF notified THEN <<>> ELSE preedit, carry |-> IF notified THEN <<>> ELSE carry,
   word |-> word, sync |-> IF notified THEN None ELSE sync,
   needs |-> needs \/ notified, restart |-> restart \/ notified,
   queue |-> queue, post |-> <<>>, hot |-> hot, force |-> force, seedRestart |-> seedRestart]

\* A focused field without a session gets one; what was queued before it is discarded.
Opened(r, focus) ==
  IF ~focus \/ r.hot THEN r
  ELSE [r EXCEPT !.preedit = <<>>, !.carry = <<>>, !.word = None, !.queue = <<>>,
                 !.post = <<[op |-> "show"]>>,
                 !.hot = TRUE, !.force = TRUE, !.seedRestart = TRUE]

\* The text to seed with: a settled one, or one only the cursor has moved in.
SeedText(u) ==
  IF u.fed = u.snap \/ (u.emitted /\ u.fed.text = u.snap.text) THEN u.snap.text ELSE None

Seeded(r, u, focus) ==
  LET t == SeedText(u)
      caret == u.field.sel[2]
  IN  IF ~focus THEN [r EXCEPT !.sync = None, !.force = FALSE, !.seedRestart = FALSE]
      ELSE IF t = None THEN [r EXCEPT !.sync = None, !.force = TRUE]
      ELSE [r EXCEPT !.sync = [text |-> t, caret |-> caret], !.force = FALSE,
                     !.seedRestart = FALSE,
                     !.post = Append(@, Push(t, caret, r.seedRestart))]

\* sync_caret_to_ime: a tap out of a composing word finishes it first.
CaretSynced(r, u) ==
  LET c == u.field.sel[2]
      far == c > r.sync.caret + Len(r.preedit) \/ r.sync.caret > c + Len(r.preedit)
      moved(clear) == [r EXCEPT !.sync.caret = c, !.post = Append(@, PushCaret(c, clear))]
  IN  IF r.sync = None THEN r
      ELSE IF r.sync.caret = c THEN r
      ELSE IF r.preedit = <<>> THEN moved(FALSE)
      ELSE IF tap # None \/ far THEN [moved(TRUE) EXCEPT !.carry = Append(@, Finish)]
      ELSE r

\* Mutant: text the EditText lacks is taken for pushed.
AlignedAdopts(r, u) ==
  IF r.preedit = <<>> /\ u.fed = u.snap /\ r.sync # None /\ r.queue = <<>>
  THEN CaretSynced([r EXCEPT !.sync.text = edit.text], u)
  ELSE CaretSynced(r, u)

\* resync_out_of_band: settled text the EditText was not given is adopted when it has it all
\* the same, and pushed when it has not.
Aligned(r, u) ==
  LET settled == u.fed = u.snap
      behind == r.preedit = <<>> /\ settled /\ r.sync # None /\ r.sync.text # u.snap.text
      mirror == IF r.queue = <<>> THEN edit.text ELSE None
  IN  IF behind /\ mirror = u.snap.text
      THEN CaretSynced([r EXCEPT !.sync.text = u.snap.text], u)
      ELSE IF behind /\ mirror # None
      THEN [r EXCEPT !.sync = [text |-> u.snap.text, caret |-> u.field.sel[2]],
                     !.post = Append(@, Push(u.snap.text, u.field.sel[2], TRUE))]
      ELSE CaretSynced(r, u)

\* The latch NEEDS_RESEED is not read while `force` already asks for a seed.
Synced(r, u, focus) ==
  LET need == r.force \/ r.needs
      latched == [r EXCEPT !.seedRestart = @ \/ r.restart, !.restart = FALSE,
                           !.needs = r.force /\ @]
  IN  IF need THEN Seeded(latched, u, focus)
      ELSE IF r.hot /\ ~applied /\ focus THEN Aligned(latched, u)
      ELSE latched

\* A field that gains focus loses its selection, and any composition it was left in.
Refocused(u) == [u EXCEPT !.field.sel = <<@[2], @[2]>>]

Show(before, behind, notified) ==
  LET focus == focused \/ tap # None
      f == Written(field, before)
      v == IF focus THEN Shown(f) ELSE Unfocused(f)
      w == IF focus /\ ~focused THEN Refocused(v) ELSE v
      r == Synced(Opened(Found(notified), focus), w, focus)
  IN  /\ phase = "show" /\ phase' = "drain"
      /\ field' = Written(w.field, behind) /\ fed' = w.fed /\ snap' = w.snap
      /\ aged' = (aged /\ w.fed = fed)
      /\ focused' = focus /\ tap' = None
      /\ staged' = IF focus /\ ~focused THEN <<Mark(<<>>)>> ELSE <<>>
      /\ preedit' = r.preedit /\ carry' = r.carry /\ word' = r.word /\ sync' = r.sync
      /\ needs' = r.needs /\ restart' = r.restart /\ queue' = r.queue
      /\ posted' = posted \o r.post
      /\ hot' = r.hot /\ force' = r.force /\ seedRestart' = r.seedRestart
      /\ plain' = (plain /\ (r.post # <<>> => late = <<>> /\ queue = <<>>))
      /\ UNCHANGED <<edit, late, shown, dismissed, applied, keys>>

\* A frame in which the application leaves the field alone, and one in which it does not.
Frame == Show(None, None, FALSE) /\ UNCHANGED moves
EditingFrame ==
  /\ Move
  /\ \E t \in AppTexts, notified \in Notifies :
       Show(t, None, notified) \/ Show(None, t, notified)

\* stable_time, a second, passes: within it the UI thread gets to what was posted to it.
Age ==
  /\ fed # None /\ ~aged /\ aged' = TRUE
  /\ late = <<>> /\ posted = <<>>
  /\ UNCHANGED <<javaVars, field, fed, snap, adapterVars, bridgeVars, frameVars, counts>>

------------------------------------------------------------------------------
Next ==
  \/ Type \/ Enqueue \/ RunPosted \/ Dismiss
  \/ Drain \/ Frame \/ EditingFrame \/ Age

\* Frames go on: a queued event or a 100 ms backstop wakes the loop while the keyboard is up.
FramesGoOn == []<>(phase = "show") /\ []<>(phase = "drain")

\* The UI thread finishes its call and runs what is posted to it, and time passes.
Spec ==
  /\ Init /\ [][Next]_imeVars
  /\ FramesGoOn /\ WF_imeVars(Enqueue) /\ WF_imeVars(RunPosted) /\ WF_imeVars(Age)

------------------------------------------------------------------------------
\* Types of what both sides hold: a composing span is never empty, a selection is never
\* reversed, and the session is hot only for a focused field.
ImeTypeOK ==
  /\ edit.text \in Seq(Letters) /\ edit.caret \in 0..Len(edit.text)
  /\ edit.span # None => edit.span[1] < edit.span[2] /\ edit.span[2] <= Len(edit.text)
  /\ field.text \in Seq(Letters) /\ field.sel[1] <= field.sel[2]
  /\ {focused, hot, force, seedRestart, needs, restart, shown, dismissed} \subseteq BOOLEAN
  /\ hot => focused /\ fed # None

\* Once the UI thread has run what was posted, no session means no keyboard and nothing of the
\* last session left to apply to the next field; and a session has its keyboard, unless the
\* user has just dismissed it.
SessionFollowsKeyboard ==
  posted = <<>> =>
    /\ ~hot => ~shown /\ queue = <<>> /\ carry = <<>> /\ preedit = <<>>
    /\ hot => shown # dismissed

\* Nothing is on its way between the EditText and the field.
Quiet == late = <<>> /\ queue = <<>> /\ posted = <<>> /\ carry = <<>> /\ staged = <<>>
         /\ phase = "drain" /\ ~force /\ ~needs

\* Typing, composing and deleting come out in the field exactly as in the EditText, however
\* the calls fall into frames and whatever waits for the next frame, as long as nobody else
\* touches the field and no call crosses a push.
PlainTypingIsExact == hot /\ Quiet /\ plain /\ moves = 0 => field.text = edit.text

\* To resync, the EditText holds the field's text.
LooksPushed == sync # None /\ sync.text = field.text

\* Whatever crosses whatever, the EditText ends up holding the field's text, unless the field
\* is back at the text Rust last pushed (resync keeps then) or egui is composing.
ImeConverges == <>[](hot /\ preedit = <<>> => field.text = edit.text \/ LooksPushed)

\* What the comment on resync_out_of_band says: text changed outside the keyboard is pushed.
\* An application that clears the field before its text has settled leaves the EditText with
\* what was typed (shown by a run that expects the violation).
OutsideEditsArePushed == <>[](hot /\ preedit = <<>> => field.text = edit.text)
=============================================================================
