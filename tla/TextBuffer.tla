---------------------------- MODULE TextBuffer ----------------------------
\* The text of one open file of the rvim plugin (rvim buffer.rs and Buffer of state.rs): its
\* version, and its undo and redo stacks of snapshots, with the open group of an insert session.
\* A text is a sequence of characters; operations take and return a buffer.
EXTENDS Naturals, Sequences

CONSTANT UndoCap   \* UNDO_CAP

ASSUME UndoAssumption == UndoCap \in Nat \ {0}

NoGroup == [open |-> FALSE]

NewBuffer(t) ==
  [text |-> t, col |-> 0, version |-> 0, saved |-> 0, undo |-> <<>>, redo |-> <<>>,
   group |-> NoGroup]

Modified(b) == b.version # b.saved

\* Mutant: the column of before is kept.
ClampNothing(b, allowEnd) == b

\* The cursor moved back into the text, one past its end only where that is allowed.
Clamp(b, allowEnd) ==
  LET n == Len(b.text)
      max == IF allowEnd \/ n = 0 THEN n ELSE n - 1
  IN  IF b.col <= max THEN b ELSE [b EXCEPT !.col = max]

Snapshot(t, col) == [text |-> t, col |-> col]

\* The oldest snapshots are forgotten.
Capped(stack) ==
  IF Len(stack) > UndoCap THEN SubSeq(stack, Len(stack) - UndoCap + 1, Len(stack)) ELSE stack

PushUndo(b, snap) == [b EXCEPT !.undo = Capped(Append(@, snap)), !.redo = <<>>]

\* Mutant: an edit is a step of its own even inside a group.
TouchAlways(b, col) ==
  LET c == PushUndo(b, Snapshot(b.text, col)) IN [c EXCEPT !.version = @ + 1]

\* Before an edit at col: outside a group, a snapshot.
Touch(b, col) ==
  LET c == IF b.group.open THEN b ELSE PushUndo(b, Snapshot(b.text, col))
  IN  [c EXCEPT !.version = @ + 1]

Edit(b, col, t) == [Touch(b, col) EXCEPT !.text = t]

BeginGroup(b) ==
  IF b.group.open THEN b
  ELSE [b EXCEPT !.group = [open |-> TRUE, snap |-> Snapshot(b.text, b.col), at |-> b.version]]

EndGroup(b) ==
  LET c == [b EXCEPT !.group = NoGroup]
  IN  IF b.group.open /\ b.version # b.group.at THEN PushUndo(c, b.group.snap) ELSE c

\* Undo and redo as often as a count asks and there are steps: the text goes through the top k
\* snapshots of one stack and leaves as many on the other, of where it was each time.
Steps(stack, n) == IF n < Len(stack) THEN n ELSE Len(stack)
Landed(stack, k) == Clamp(stack[Len(stack) - k + 1], FALSE)
Left(b, stack, k) ==
  [i \in 1..k |-> IF i = 1 THEN Snapshot(b.text, b.col) ELSE Landed(stack, i - 1)]
Below(stack, k) == SubSeq(stack, 1, Len(stack) - k)

Stepped(b, undo, redo, at, k) ==
  [b EXCEPT !.undo = undo, !.redo = redo, !.text = at.text, !.col = at.col, !.version = @ + k]

\* Mutant: the version is taken back with the text.
UndoTimesBack(b, n) ==
  LET c == EndGroup(b)
      k == Steps(c.undo, n)
      d == Stepped(c, Below(c.undo, k), c.redo \o Left(c, c.undo, k), Landed(c.undo, k), k)
  IN  IF k = 0 THEN c ELSE [d EXCEPT !.version = c.version - k]

UndoTimes(b, n) ==
  LET c == EndGroup(b)
      k == Steps(c.undo, n)
  IN  IF k = 0 THEN c
      ELSE Stepped(c, Below(c.undo, k), c.redo \o Left(c, c.undo, k), Landed(c.undo, k), k)

RedoTimes(b, n) ==
  LET k == Steps(b.redo, n)
  IN  IF k = 0 THEN b
      ELSE Stepped(b, Capped(b.undo \o Left(b, b.redo, k)), Below(b.redo, k), Landed(b.redo, k), k)
=============================================================================
