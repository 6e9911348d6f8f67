---------------------------- MODULE UndoHistory ---------------------------
\* What the undo of an editor promises: a line of texts with a place in it. A change leaves the
\* texts before it to go back to and gives up those after it; a change made in the same step, as
\* the typing of one insert session, alters the present only.
EXTENDS Naturals, Sequences

CONSTANTS Text,      \* all texts
          Capacity   \* how many texts are kept before the present one

VARIABLES past, present, future

historyVars == <<past, present, future>>

LastOf(s, n) == IF Len(s) <= n THEN s ELSE SubSeq(s, Len(s) - n + 1, Len(s))

Record(t) ==
  /\ past' = LastOf(Append(past, present), Capacity) /\ present' = t /\ future' = <<>>

Amend(t) ==
  /\ past # <<>> /\ future = <<>> /\ present' = t /\ UNCHANGED <<past, future>>

\* n steps back, or forth.
Back(n) ==
  LET line == past \o <<present>> \o future
  IN  /\ past' = SubSeq(line, 1, Len(past) - n) /\ present' = line[Len(past) - n + 1]
      /\ future' = SubSeq(line, Len(past) - n + 2, Len(line))
Forth(n) ==
  LET line == past \o <<present>> \o future
  IN  /\ past' = LastOf(SubSeq(line, 1, Len(past) + n), Capacity)
      /\ present' = line[Len(past) + n + 1]
      /\ future' = SubSeq(line, Len(past) + n + 2, Len(line))

HistoryInit == past = <<>> /\ present \in Text /\ future = <<>>

HistoryNext ==
  \/ \E t \in Text : Record(t) \/ Amend(t)
  \/ \E n \in 1..Len(past) : Back(n)
  \/ \E n \in 1..Len(future) : Forth(n)

HistorySpec == HistoryInit /\ [][HistoryNext]_historyVars
=============================================================================
