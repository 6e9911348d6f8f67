----------------------------- MODULE VimEngine ----------------------------
\* The modal engine of the rvim plugin (rvim vim.rs): one key at a time, its pending count,
\* operator and awaited second key, the undo steps of what it edits, dot-repeat and macros, which
\* feed keys back into it, and the window the keys go to, which a tap changes at any moment.
\* Two windows show a file each, of one line. A replay is a frame on a stack, one key a step.
EXTENDS TextBuffer, SequencesExt, FiniteSets

CONSTANTS MaxKeys,     \* bound: keys pressed
          MaxTaps,     \* bound: taps
          StackSize,   \* bound: nested replays the call stack has room for
          MaxReplayDepth, MaxSteps,   \* MAX_REPLAY_DEPTH, MAX_MACRO_STEPS
          MaxLen       \* bound: characters typed into a line

\* The stack has room for the macros that may call each other, and for a dot-repeat in the last.
ASSUME VimAssumption ==
  /\ {MaxKeys, MaxTaps, StackSize, MaxReplayDepth, MaxSteps, MaxLen} \subseteq Nat
  /\ MaxReplayDepth < StackSize

VARIABLES
  vim,       \* VimEngine
  bufs,      \* the two buffers
  win,       \* active_win, which is also the buffer it shows
  disk,      \* what was last written of each
  calls,     \* replays under way, innermost last
  trapped,   \* the call stack of the guest has overflowed
  keys, taps

vimVars == <<vim, bufs, win, disk, calls, trapped, keys, taps>>

Windows == {1, 2}
Letters == {"a", "x", "c", "f", "u", "q"}
Chars == Letters \cup {"2", ".", "@", ":"}   \* a: append, x: delete, c: change, f: find, u: undo
Keys == Chars \cup {"^r", "Esc", "Enter"}

Idle(v) == v.count = 0 /\ v.opcount = 0 /\ v.op = FALSE /\ v.awaiting = "none"
Reset(v) == [v EXCEPT !.count = 0, !.opcount = 0, !.op = FALSE, !.awaiting = "none"]
\* The count before an operator times the one after it.
AtLeastOne(n) == IF n = 0 THEN 1 ELSE n
TotalCount(v) == AtLeastOne(v.count) * AtLeastOne(v.opcount)

NewVim ==
  [mode |-> "Normal", count |-> 0, opcount |-> 0, op |-> FALSE, awaiting |-> "none",
   keybuf |-> <<>>, kbver |-> 0, norepeat |-> FALSE, lastChange |-> <<>>, replaying |-> FALSE,
   recording |-> FALSE, recorded |-> <<>>, macro |-> <<>>, lastMacro |-> FALSE, steps |-> 0]

Init ==
  /\ vim = NewVim
  /\ bufs = [w \in Windows |-> NewBuffer(<<"a", "x">>)] /\ disk = [w \in Windows |-> <<"a", "x">>]
  /\ win = 1 /\ calls = <<>> /\ trapped = FALSE
  /\ keys = 0 /\ taps = 0

------------------------------------------------------------------------------
\* One key. An operation takes and returns the engine with the buffer it works on, and the replay
\* it starts, if any.

State(v, b) == [v |-> v, b |-> b, save |-> FALSE, play |-> <<>>]

EnterInsert(s) == [s EXCEPT !.v = [Reset(@) EXCEPT !.mode = "Insert"]]

LeaveInsert(s) ==
  LET c == EndGroup(s.b)
  IN  [s EXCEPT !.b = Clamp([c EXCEPT !.col = IF c.col = 0 THEN 0 ELSE c.col - 1], FALSE),
                !.v = [Reset(@) EXCEPT !.mode = "Normal"]]

\* The text without the n characters from col on.
Without(t, col, n) == SubSeq(t, 1, col) \o SubSeq(t, col + n + 1, Len(t))
WithAt(t, col, k) == SubSeq(t, 1, col) \o <<k>> \o SubSeq(t, col + 1, Len(t))

DeleteChars(s) ==
  LET left == Len(s.b.text) - s.b.col
      n == IF TotalCount(s.v) < left THEN TotalCount(s.v) ELSE left
  IN  [s EXCEPT !.v = Reset(@),
                !.b = IF n = 0 THEN @
                      ELSE Clamp(Edit(@, @.col, Without(@.text, @.col, n)), FALSE)]

\* cc: the line goes, and an empty one comes.
ChangeLine(s) ==
  EnterInsert([s EXCEPT !.b = [Edit(Edit(BeginGroup(@), 0, <<>>), 0, <<>>) EXCEPT !.col = 0]])

Append_(s) ==
  LET g == BeginGroup(s.b)
  IN  EnterInsert([s EXCEPT !.b = [g EXCEPT !.col = IF g.text = <<>> THEN 0 ELSE g.col + 1]])

\* f: the count'th such character after the cursor; under c what lies up to it is changed.
Found(t, col, k, n) ==
  {i \in (col + 1)..(Len(t) - 1) :
     t[i + 1] = k /\ Cardinality({j \in (col + 1)..i : t[j + 1] = k}) = n}

Find(s, k) ==
  LET t == s.b.text
      found == Found(t, s.b.col, k, TotalCount(s.v))
      at == CHOOSE i \in found : TRUE
  IN  IF found = {} THEN [s EXCEPT !.v = Reset(@)]
      ELSE IF s.v.op
      THEN EnterInsert([s EXCEPT !.b = LET g == BeginGroup(@) IN
                          Edit(g, g.col, Without(t, g.col, at + 1 - g.col))])
      ELSE [s EXCEPT !.v = Reset(@), !.b = [@ EXCEPT !.col = at]]

Undo(s) == [s EXCEPT !.v = Reset(@), !.b = UndoTimes(@, TotalCount(s.v))]
Redo(s) == [s EXCEPT !.v = Reset(@), !.b = RedoTimes(@, TotalCount(s.v))]

\* repeat_last, play_macro: what is to be replayed.
Replay(what, ks, runs) ==
  <<[what |-> what, of |-> ks, runs |-> runs, i |-> 1, was |-> vim.replaying]>>

RepeatLast(s) ==
  LET v == Reset(s.v)
  IN  IF v.lastChange = <<>> THEN [s EXCEPT !.v = v]
      ELSE [s EXCEPT !.v = [v EXCEPT !.replaying = TRUE],
                     !.play = Replay("dot", v.lastChange, TotalCount(s.v))]

Depth == Cardinality({j \in DOMAIN calls : calls[j].what = "macro"})

\* Mutant: a macro may call itself for ever.
PlayMacroAnyway(s) ==
  LET v == Reset(s.v)
  IN  IF v.macro = <<>> THEN [s EXCEPT !.v = v]
      ELSE [s EXCEPT !.v = [v EXCEPT !.lastMacro = TRUE, !.replaying = TRUE],
                     !.play = Replay("macro", v.macro, TotalCount(s.v))]

PlayMacro(s) ==
  LET v == Reset(s.v)
  IN  IF v.macro = <<>> \/ Depth >= MaxReplayDepth THEN [s EXCEPT !.v = v]
      ELSE [s EXCEPT !.v = [v EXCEPT !.lastMacro = TRUE, !.replaying = TRUE],
                     !.play = Replay("macro", v.macro, TotalCount(s.v))]

\* q: stops a recording, without its own key, or asks for a register; not while replaying.
Record(s) ==
  IF s.v.replaying \/ (s.v.op /\ ~s.v.recording) THEN [s EXCEPT !.v = Reset(@)]
  ELSE IF s.v.recording
  THEN [s EXCEPT !.v = [Reset(s.v) EXCEPT !.recording = FALSE, !.recorded = <<>>,
                                          !.macro = Front(s.v.recorded)]]
  ELSE [s EXCEPT !.v.awaiting = "reg"]

\* The second key of q, @ and f; under an operator, a and the next key name an object, which
\* there is none of here.
SecondKey(s, k) ==
  LET now == [s EXCEPT !.v.awaiting = "none"]
  IN  CASE s.v.awaiting = "reg" ->
             [now EXCEPT !.v = IF k = "a" THEN [Reset(@) EXCEPT !.recording = TRUE] ELSE Reset(@)]
        [] s.v.awaiting = "play" ->
             IF k = "a" \/ (k = "@" /\ s.v.lastMacro) THEN PlayMacro(now)
             ELSE [now EXCEPT !.v = Reset(@)]
        [] s.v.awaiting = "find" /\ k \in Chars -> Find(now, k)
        [] OTHER -> [now EXCEPT !.v = Reset(@)]

NormalKey(s, k) ==
  CASE k = "2" /\ s.v.op -> [s EXCEPT !.v.opcount = @ * 10 + 2]
    [] k = "2" /\ ~s.v.op -> [s EXCEPT !.v.count = @ * 10 + 2]
    [] k = "x" -> DeleteChars(s)
    [] k = "a" /\ s.v.op -> [s EXCEPT !.v.awaiting = "object"]
    [] k = "a" /\ ~s.v.op -> Append_(s)
    [] k = "c" /\ s.v.op -> ChangeLine(s)
    [] k = "c" /\ ~s.v.op -> [s EXCEPT !.v.op = TRUE]
    [] k = "f" -> [s EXCEPT !.v.awaiting = "find"]
    [] k = "u" -> Undo(s)
    [] k = "^r" -> Redo(s)
    [] k = "." -> RepeatLast(s)
    [] k = "q" -> Record(s)
    [] k = "@" -> [s EXCEPT !.v.awaiting = "play"]
    [] k = ":" -> [s EXCEPT !.v = [Reset(@) EXCEPT !.mode = "Command"]]
    [] OTHER -> [s EXCEPT !.v = Reset(@)]

InsertKey(s, k) ==
  CASE k = "Esc" -> LeaveInsert(s)
    [] k \in Chars ->
         LET c == Edit(s.b, s.b.col, WithAt(s.b.text, s.b.col, k))
         IN  [s EXCEPT !.b = [c EXCEPT !.col = c.col + 1]]
    [] OTHER -> s

\* The command is :w.
CommandKey(s, k) ==
  CASE k = "Enter" -> [s EXCEPT !.v.mode = "Normal", !.b.saved = s.b.version, !.save = TRUE]
    [] k = "Esc" -> [s EXCEPT !.v.mode = "Normal"]
    [] OTHER -> s

\* handle_key: what is kept of the key, before it is looked at ...
Kept(v, k) ==
  LET r == IF v.recording THEN [v EXCEPT !.recorded = Append(@, k)] ELSE v
      c == IF v.mode = "Normal" /\ Idle(v)
           THEN [r EXCEPT !.keybuf = <<>>, !.kbver = bufs[win].version,
                          !.norepeat = k \in {"u", ".", ":", "q", "@", "^r"}]
           ELSE r
  IN  IF v.replaying THEN v ELSE [c EXCEPT !.keybuf = Append(@, k)]

\* ... and when it is done: a change that is complete can be repeated.
Done(v, b) ==
  IF v.replaying \/ v.mode # "Normal" \/ ~Idle(v) THEN v
  ELSE [v EXCEPT !.keybuf = <<>>,
                 !.lastChange = IF ~v.norepeat /\ b.version # v.kbver THEN v.keybuf ELSE @]

Dispatched(s, k) ==
  CASE s.v.mode = "Normal" /\ s.v.awaiting # "none" -> SecondKey(s, k)
    [] s.v.mode = "Normal" /\ s.v.awaiting = "none" -> NormalKey(s, k)
    [] s.v.mode = "Insert" -> InsertKey(s, k)
    [] s.v.mode = "Command" -> CommandKey(s, k)

\* A key that starts a replay is done when that has come back.
HandleKey(k, v, frames) ==
  \E s \in {Dispatched(State(Kept(v, k), bufs[win]), k)} :
    LET b == Clamp(s.b, s.v.mode = "Insert") IN
    /\ bufs' = [bufs EXCEPT ![win] = b]
    /\ disk' = IF s.save THEN [disk EXCEPT ![win] = b.text] ELSE disk
    /\ vim' = IF s.play = <<>> THEN Done(s.v, b) ELSE s.v
    /\ trapped' = (Len(frames \o s.play) > StackSize)
    /\ calls' = IF trapped' THEN frames ELSE frames \o s.play

------------------------------------------------------------------------------
\* The user's keys: one register for macros, two letters to type.
Offered ==
  CASE vim.mode = "Insert" -> {"Esc"} \cup (IF Len(bufs[win].text) < MaxLen THEN {"a", "x"} ELSE {})
    [] vim.mode = "Command" -> {"Enter", "Esc"}
    [] vim.awaiting \in {"reg", "play"} -> {"a", "@", "Esc"}
    [] vim.awaiting \in {"find", "object"} -> {"x", "Esc"}
    [] OTHER -> IF (IF vim.op THEN vim.opcount ELSE vim.count) = 0 THEN Keys \ {"Enter"}
                ELSE Keys \ {"Enter", "2"}

Press ==
  /\ calls = <<>> /\ ~trapped /\ keys < MaxKeys /\ keys' = keys + 1
  /\ \E k \in Offered : HandleKey(k, vim, <<>>)
  /\ UNCHANGED <<win, taps>>

\* A tap focuses a window and places its cursor.
Tap ==
  /\ calls = <<>> /\ ~trapped /\ taps < MaxTaps /\ taps' = taps + 1
  /\ \E w \in Windows : \E c \in 0..Len(bufs[w].text) :
       /\ win' = w
       /\ bufs' = [bufs EXCEPT ![w] = Clamp([@ EXCEPT !.col = c], vim.mode = "Insert")]
  /\ UNCHANGED <<vim, disk, calls, trapped, keys>>

\* The next key of the innermost replay, its next run, or its end.
Top == calls[Len(calls)]
Exhausted == Top.what = "macro" /\ vim.steps >= MaxSteps
ReplayOver == Exhausted \/ (Top.i > Len(Top.of) /\ Top.runs = 1)

ReplayKey ==
  /\ calls # <<>> /\ ~trapped /\ ~ReplayOver /\ Top.i <= Len(Top.of)
  /\ HandleKey(Top.of[Top.i],
               IF Top.what = "macro" THEN [vim EXCEPT !.steps = @ + 1] ELSE vim,
               [calls EXCEPT ![Len(calls)].i = @ + 1])
  /\ UNCHANGED <<win, keys, taps>>

ReplayAgain ==
  /\ calls # <<>> /\ ~trapped /\ ~ReplayOver /\ Top.i > Len(Top.of)
  /\ calls' = [calls EXCEPT ![Len(calls)].i = 1, ![Len(calls)].runs = @ - 1]
  /\ UNCHANGED <<vim, bufs, win, disk, trapped, keys, taps>>

ReplayEnd ==
  /\ calls # <<>> /\ ~trapped /\ ReplayOver /\ calls' = Front(calls)
  /\ LET macro == Top.what = "macro"
         v == [vim EXCEPT !.replaying = macro /\ Top.was,
                          !.steps = IF macro /\ Depth = 1 THEN 0 ELSE @]
     IN  vim' = Done(v, bufs[win])
  /\ UNCHANGED <<bufs, win, disk, trapped, keys, taps>>

Next == Press \/ Tap \/ ReplayKey \/ ReplayAgain \/ ReplayEnd

Spec == Init /\ [][Next]_vimVars

------------------------------------------------------------------------------
\* Types: the cursor stays in the line, and no buffer keeps more undo steps than the cap.
VimTypeOK ==
  /\ vim.mode \in {"Normal", "Insert", "Command"} /\ {vim.count, vim.opcount} \subseteq Nat
  /\ vim.awaiting \in {"none", "reg", "play", "find", "object"}
  /\ \A w \in Windows : bufs[w].col \in 0..Len(bufs[w].text) /\ Len(bufs[w].undo) <= UndoCap

\* What the user can undo to, and redo to, in a buffer.
Changed(b) == b.group.open /\ b.version # b.group.at
TextsOf(stack) == [j \in DOMAIN stack |-> stack[j].text]
Past(b) == TextsOf(Capped(b.undo \o IF Changed(b) THEN <<b.group.snap>> ELSE <<>>))
Future(b) == IF Changed(b) THEN <<>> ELSE Reverse(TextsOf(b.redo))
History(w) == INSTANCE UndoHistory WITH
  past <- Past(bufs[w]), present <- bufs[w].text, future <- Future(bufs[w]),
  Text <- {}, Capacity <- UndoCap

\* A tap has left the buffer in the middle of an insert session: the session's step stays open.
Strayed(w) == bufs[w].group.open # (vim.mode = "Insert" /\ win = w)

\* Every normal-mode command is one step of the undo history, and so is an insert session, however
\* many keys, edits and replays it takes (buffer.rs, enter_insert).
UndoStepsAreCommands ==
  [][\A w \in Windows :
       \/ taps > 0 /\ Strayed(w)
       \/ UNCHANGED <<Past(bufs[w]), bufs[w].text, Future(bufs[w])>>
       \/ ~Changed(bufs[w]) /\ History(w)!Record(bufs'[w].text)
       \/ vim.mode = "Insert" /\ History(w)!Amend(bufs'[w].text)
       \/ vim.mode = "Normal" /\ \E n \in 1..Len(Past(bufs[w])) : History(w)!Back(n)
       \/ vim.mode = "Normal" /\ \E n \in 1..Len(Future(bufs[w])) : History(w)!Forth(n)]_vimVars

\* A buffer that is not marked as modified is the file as it was last written: :q closes it
\* without a word (state.rs close_buffer).
NotModifiedMeansSaved == \A w \in Windows : ~Modified(bufs[w]) => bufs[w].text = disk[w]

\* Macros that call themselves come back: only a dot-repeat can use up the stack.
MacrosAreBounded == trapped => \E j \in DOMAIN calls : calls[j].what = "dot"

\* What vim.rs:127-140 and the field norepeat say: repeats are bounded, and a repeat is not itself
\* repeated. A count before the dot makes it so (shown by a run that expects the violation).
RepeatsAreBounded == ~trapped
=============================================================================
