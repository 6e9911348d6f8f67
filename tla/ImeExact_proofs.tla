-------------------------- MODULE ImeExact_proofs --------------------------
(***************************************************************************)
(* A keyboard that only types is mirrored exactly. What is on its way from *)
(* the EditText to the field is a run of typing: from the field, once it   *)
(* has taken what is staged for it, through the events carried over, the   *)
(* queue and what the running call has still to queue, each event changes  *)
(* the text as the call that made it changed the EditText (Types, Ran),    *)
(* and the run ends with the EditText (Exact). The proof follows an event: *)
(* what a call makes of the EditText, what a batch stages or puts off, and *)
(* what egui makes of what is staged.                                      *)
(***************************************************************************)
EXTENDS ImeBridge_proofs

-----------------------------------------------------------------------------
(* More about texts.                                                       *)

\* Texts of the same characters are the same.
LEMMA SameText ==
  ASSUME NEW s \in Words, NEW t \in Words, Len(s) = Len(t), \A i \in 1..Len(s) : s[i] = t[i]
  PROVE  s = t
BY SeqEqual DEF Words

\* A text with a part replaced, from one index to its characters.
SplicedAt(t, a, b, w, x) ==
  /\ x \in Words /\ Len(x) = a + Len(w) + (Len(t) - b)
  /\ \A i \in 1..Len(x) :
       x[i] = IF i <= a THEN t[i]
              ELSE IF i <= a + Len(w) THEN w[i - a] ELSE t[b + (i - (a + Len(w)))]

\* Splice makes such a text.
LEMMA SpliceAt ==
  ASSUME NEW t \in Words, NEW a \in Nat, NEW b \in Nat, a <= b, b <= Len(t), NEW w \in Words
  PROVE  SplicedAt(t, a, b, w, Splice(t, a, b, w))
<1>. DEFINE x == Splice(t, a, b, w)
<1>0. Len(t) \in Nat /\ Len(w) \in Nat
  BY LenProperties DEF Words
<1>1. SplicedIs(t, a, b, w, x)
  BY SpliceIs
<1>. HIDE DEF x
<1>2. x \in Words /\ Len(x) = a + Len(w) + (Len(t) - b)
  BY <1>1 DEF SplicedIs
<1>3. ASSUME NEW i \in 1..Len(x)
      PROVE  x[i] = IF i <= a THEN t[i]
                    ELSE IF i <= a + Len(w) THEN w[i - a] ELSE t[b + (i - (a + Len(w)))]
  <2>1. CASE i <= a
    <3>1. i \in 1..a
      BY <1>0, <1>2, <2>1
    <3>. QED BY <1>1, <2>1, <3>1 DEF SplicedIs
  <2>2. CASE ~(i <= a) /\ i <= a + Len(w)
    <3>. DEFINE j == i - a
    <3>1. j \in 1..Len(w) /\ a + j = i
      BY <1>0, <1>2, <2>2
    <3>. HIDE DEF j
    <3>2. x[i] = w[j]
      BY <1>1, <3>1 DEF SplicedIs
    <3>. QED BY <2>2, <3>2 DEF j
  <2>3. CASE ~(i <= a) /\ ~(i <= a + Len(w))
    <3>. DEFINE j == i - (a + Len(w))
    <3>1. j \in 1..(Len(t) - b) /\ a + Len(w) + j = i
      BY <1>0, <1>2, <2>3
    <3>. HIDE DEF j
    <3>2. x[i] = t[b + j]
      BY <1>1, <3>1 DEF SplicedIs
    <3>. QED BY <2>3, <3>2 DEF j
  <2>. QED BY <2>1, <2>2, <2>3
<1>4. SplicedAt(t, a, b, w, x)
  BY <1>2, <1>3 DEF SplicedAt
<1>. QED BY <1>4 DEF x

\* A part replaced by itself changes nothing.
LEMMA SpliceSelf ==
  ASSUME NEW t \in Words, NEW a \in Nat, NEW b \in Nat, a <= b, b <= Len(t)
  PROVE  Splice(t, a, b, Slice(t, a, b)) = t
<1>. DEFINE w == Slice(t, a, b)
            x == Splice(t, a, b, w)
<1>0. Len(t) \in Nat
  BY LenProperties DEF Words
<1>1. w \in Words /\ Len(w) = b - a /\ \A i \in 1..(b - a) : w[i] = t[a + i]
  BY SliceIs DEF SlicedIs
<1>. HIDE DEF w
<1>2. SplicedAt(t, a, b, w, x)
  BY <1>1, SpliceAt
<1>. HIDE DEF x
<1>3. x \in Words /\ Len(x) = Len(t)
  BY <1>0, <1>1, <1>2 DEF SplicedAt
<1>4. ASSUME NEW i \in 1..Len(x) PROVE x[i] = t[i]
  <2>1. CASE i <= a
    BY <1>2, <2>1 DEF SplicedAt
  <2>2. CASE ~(i <= a) /\ i <= b
    <3>. DEFINE j == i - a
    <3>1. j \in 1..(b - a) /\ a + j = i /\ i <= a + Len(w)
      BY <1>0, <1>1, <1>3, <2>2
    <3>2. x[i] = w[j]
      BY <1>2, <2>2, <3>1 DEF SplicedAt
    <3>. HIDE DEF j
    <3>. QED BY <1>1, <3>1, <3>2
  <2>3. CASE ~(i <= a) /\ ~(i <= b)
    <3>1. ~(i <= a + Len(w)) /\ b + (i - (a + Len(w))) = i
      BY <1>0, <1>1, <1>3, <2>3
    <3>. QED BY <1>2, <2>3, <3>1 DEF SplicedAt
  <2>. QED BY <2>1, <2>2, <2>3
<1>5. x = t
  BY <1>3, <1>4, SameText
<1>. QED BY <1>5 DEF x, w

\* Nothing put nowhere changes nothing.
LEMMA SpliceNothing ==
  ASSUME NEW t \in Words, NEW a \in Nat, a <= Len(t)
  PROVE  Splice(t, a, a, <<>>) = t
<1>1. Slice(t, a, a) = <<>>
  <2>1. Slice(t, a, a) \in Words /\ Len(Slice(t, a, a)) = a - a
    BY SliceIs DEF SlicedIs
  <2>. QED BY <2>1, EmptySeq DEF Words
<1>. QED BY <1>1, SpliceSelf

\* What was put into a text is found there.
LEMMA SliceSpliced ==
  ASSUME NEW t \in Words, NEW a \in Nat, NEW b \in Nat, a <= b, b <= Len(t), NEW w \in Words
  PROVE  Slice(Splice(t, a, b, w), a, a + Len(w)) = w
<1>. DEFINE x == Splice(t, a, b, w)
            y == Slice(x, a, a + Len(w))
<1>0. Len(t) \in Nat /\ Len(w) \in Nat
  BY LenProperties DEF Words
<1>1. /\ x \in Words /\ Len(x) = a + Len(w) + (Len(t) - b)
      /\ \A i \in 1..Len(w) : x[a + i] = w[i]
  BY SpliceIs DEF SplicedIs
<1>. HIDE DEF x
<1>2. y \in Words /\ Len(y) = Len(w) /\ \A i \in 1..Len(w) : y[i] = x[a + i]
  <2>1. a + Len(w) \in Nat /\ a <= a + Len(w) /\ a + Len(w) <= Len(x)
    BY <1>0, <1>1
  <2>2. SlicedIs(x, a, a + Len(w), y)
    BY <1>1, <2>1, SliceIs
  <2>3. (a + Len(w)) - a = Len(w)
    BY <1>0
  <2>. HIDE DEF y
  <2>. QED BY <2>2, <2>3 DEF SlicedIs
<1>. HIDE DEF y
<1>3. y = w
  BY <1>1, <1>2, SameText
<1>. QED BY <1>3 DEF y, x

\* The place a deletion goes around is left as it is.
LEMMA SliceTaken ==
  ASSUME NEW t \in Words, NEW a \in Nat, NEW b \in Nat, a <= b, b <= Len(t),
         NEW n \in Nat, n <= a, NEW m \in Nat, b + m <= Len(t)
  PROVE  Slice(Taken(t, a, b, n, m), a - n, b - n) = Slice(t, a, b)
<1>. DEFINE x == Splice(t, b, b + m, <<>>)
            y == Splice(x, a - n, a, <<>>)
            v == Slice(y, a - n, b - n)
            w == Slice(t, a, b)
<1>0. Len(t) \in Nat /\ <<>> \in Words /\ Len(<<>>) = 0
  BY LenProperties, EmptySeq DEF Words
<1>1. SplicedAt(t, b, b + m, <<>>, x)
  BY <1>0, SpliceAt
<1>. HIDE DEF x
<1>2. x \in Words /\ Len(x) = Len(t) - m /\ \A i \in 1..b : x[i] = t[i]
  <2>1. x \in Words /\ Len(x) = Len(t) - m
    BY <1>0, <1>1 DEF SplicedAt
  <2>2. \A i \in 1..b : i \in 1..Len(x) /\ i <= b
    BY <1>0, <2>1
  <2>. QED BY <1>1, <2>1, <2>2 DEF SplicedAt
<1>3. SplicedAt(x, a - n, a, <<>>, y)
  <2>1. a - n \in Nat /\ a - n <= a /\ a <= Len(x)
    BY <1>0, <1>2
  <2>. QED BY <1>0, <1>2, <2>1, SpliceAt
<1>. HIDE DEF y
<1>4. y \in Words /\ Len(y) = Len(t) - m - n
  BY <1>0, <1>2, <1>3 DEF SplicedAt
<1>5. SlicedIs(y, a - n, b - n, v) /\ SlicedIs(t, a, b, w)
  <2>1. a - n \in Nat /\ b - n \in Nat /\ a - n <= b - n /\ b - n <= Len(y)
    BY <1>0, <1>4
  <2>. QED BY <1>4, <2>1, SliceIs
<1>. HIDE DEF v, w
<1>6. v \in Words /\ w \in Words /\ Len(v) = b - a /\ Len(w) = b - a
  BY <1>0, <1>5 DEF SlicedIs
<1>7. ASSUME NEW i \in 1..(b - a) PROVE v[i] = w[i]
  <2>. DEFINE j == (a - n) + i
  <2>1. i \in 1..((b - n) - (a - n))
    OBVIOUS
  <2>2. v[i] = y[j] /\ w[i] = t[a + i]
    BY <1>5, <2>1 DEF SlicedIs
  <2>3. j \in 1..Len(y) /\ ~(j <= a - n) /\ ~(j <= (a - n) + 0) /\ a + (j - ((a - n) + 0)) = a + i
    BY <1>0, <1>4
  <2>4. y[j] = x[a + i]
    <3>. HIDE DEF j
    <3>1. y[j] = x[a + (j - ((a - n) + 0))]
      BY <1>0, <1>3, <2>3 DEF SplicedAt
    <3>. QED BY <2>3, <3>1
  <2>5. a + i \in 1..b
    OBVIOUS
  <2>. QED BY <1>2, <2>2, <2>4, <2>5
<1>8. v = w
  BY <1>6, <1>7, SameText
<1>. QED BY <1>8 DEF Taken, v, w, y, x

\* A word without its last character is the word replaced by what is left of it.
LEMMA SpliceShorter ==
  ASSUME NEW t \in Words, NEW p \in Nat, NEW q \in Nat, p < q, q <= Len(t)
  PROVE  LET x == Splice(t, q - 1, q, <<>>)
         IN  x = Splice(t, p, q, Slice(x, p, q - 1)) /\ Len(Slice(x, p, q - 1)) = q - 1 - p
                /\ Slice(x, p, q - 1) \in Words
<1>. DEFINE x == Splice(t, q - 1, q, <<>>)
            w == Slice(x, p, q - 1)
            y == Splice(t, p, q, w)
<1>0. Len(t) \in Nat /\ <<>> \in Words /\ Len(<<>>) = 0 /\ q - 1 \in Nat /\ q - 1 <= q /\ p <= q - 1
  BY LenProperties, EmptySeq DEF Words
<1>1. SplicedAt(t, q - 1, q, <<>>, x)
  BY <1>0, SpliceAt
<1>. HIDE DEF x
<1>2. x \in Words /\ Len(x) = Len(t) - 1 /\ q - 1 <= Len(x)
  BY <1>0, <1>1 DEF SplicedAt
<1>3. SlicedIs(x, p, q - 1, w)
  BY <1>0, <1>2, SliceIs
<1>. HIDE DEF w
<1>4. w \in Words /\ Len(w) = q - 1 - p /\ \A i \in 1..(q - 1 - p) : w[i] = x[p + i]
  BY <1>3 DEF SlicedIs
<1>5. SplicedAt(t, p, q, w, y)
  BY <1>4, SpliceAt
<1>. HIDE DEF y
<1>6. y \in Words /\ Len(y) = Len(x)
  BY <1>0, <1>2, <1>4, <1>5 DEF SplicedAt
<1>7. ASSUME NEW i \in 1..Len(x) PROVE x[i] = y[i]
  <2>1. CASE i <= p
    <3>1. i <= q - 1
      BY <1>0, <2>1
    <3>. QED BY <1>1, <1>5, <1>6, <2>1, <3>1 DEF SplicedAt
  <2>2. CASE ~(i <= p) /\ i <= q - 1
    <3>. DEFINE j == i - p
    <3>1. j \in 1..(q - 1 - p) /\ p + j = i /\ i <= p + Len(w)
      BY <1>0, <1>4, <2>2
    <3>2. y[i] = w[j]
      BY <1>5, <1>6, <2>2, <3>1 DEF SplicedAt
    <3>. HIDE DEF j
    <3>. QED BY <1>4, <3>1, <3>2
  <2>3. CASE ~(i <= p) /\ ~(i <= q - 1)
    <3>1. ~(i <= p + Len(w)) /\ ~(i <= (q - 1) + 0)
          /\ q + (i - (p + Len(w))) = q + (i - ((q - 1) + 0))
      BY <1>0, <1>4, <2>3
    <3>2. y[i] = t[q + (i - (p + Len(w)))]
      BY <1>5, <1>6, <2>3, <3>1 DEF SplicedAt
    <3>3. x[i] = t[q + (i - ((q - 1) + 0))]
      BY <1>0, <1>1, <2>3, <3>1 DEF SplicedAt
    <3>. QED BY <3>1, <3>2, <3>3
  <2>. QED BY <2>1, <2>2, <2>3
<1>8. x = y
  BY <1>2, <1>6, <1>7, SameText
<1>. QED BY <1>4, <1>8 DEF x, w, y

-----------------------------------------------------------------------------
(* Typing.                                                                 *)

\* A keyboard that types keeps the caret at the end of what it composes.
Lines == {e \in Edits : e.span # None => e.caret = e.span[2]}

\* What the next keystroke replaces.
Spot(e) == IF e.span = None THEN <<e.caret, e.caret>> ELSE e.span

\* What typing makes of such a text: a word committed, composed or left as it is, characters
\* deleted around the spot, or a span of them.
Replacing(e, t) == Splice(e.text, Spot(e)[1], Spot(e)[2], t)
Committed(e, t) == [text |-> Replacing(e, t), caret |-> Spot(e)[1] + Len(t), span |-> None]
Composed(e, t) ==
  [text |-> Replacing(e, t), caret |-> Spot(e)[1] + Len(t),
   span |-> IF t = <<>> THEN None ELSE <<Spot(e)[1], Spot(e)[1] + Len(t)>>]
Finished(e) == [text |-> e.text, caret |-> e.caret, span |-> None]
Thinned(e, n, m) ==
  [text |-> Taken(e.text, Spot(e)[1], Spot(e)[2], n, m), caret |-> Spot(e)[2] - n,
   span |-> IF e.span = None THEN None ELSE <<e.span[1] - n, e.span[2] - n>>]
Struck(e, a, n) == [text |-> Splice(e.text, a, a + n, <<>>), caret |-> a, span |-> None]

\* The event of a keystroke, and the text before and after it.
Reaches(e, n, m) == n <= Spot(e)[1] /\ Spot(e)[2] + m <= Len(e.text)
Strikes(e, a, n) ==
  /\ a + n <= Len(e.text)
  /\ IF e.span = None THEN a <= e.caret /\ e.caret <= a + n ELSE e.span = <<a, a + n>>
Types(e, ev, d) ==
  \/ ev.k = "T" /\ d = Committed(e, ev.t)
  \/ ev.k = "C" /\ d = Composed(e, ev.t)
  \/ ev.k = "F" /\ d = Finished(e)
  \/ /\ ev.k = "D" /\ <<ev.a, ev.b>> = Spot(e) /\ Reaches(e, ev.n, ev.m)
     /\ d = Thinned(e, ev.n, ev.m)
  \/ ev.k = "K" /\ Strikes(e, ev.a, ev.n) /\ d = Struck(e, ev.a, ev.n)

\* The spot is in the text, and the caret at its end.
SpotFits(e) ==
  /\ EditIs(e) /\ Spot(e)[1] \in Nat /\ Spot(e)[2] \in Nat /\ Spot(e)[1] <= Spot(e)[2]
  /\ Spot(e)[2] <= Len(e.text) /\ e.caret = Spot(e)[2]
  /\ e.span # None => e.span = <<Spot(e)[1], Spot(e)[2]>> /\ Spot(e)[1] < Spot(e)[2]

\* It is, of such a text.
LEMMA SpotIs == ASSUME NEW e \in Lines PROVE SpotFits(e)
<1>1. EditIs(e) /\ (e.span # None => e.caret = e.span[2])
  BY EditParts DEF Lines
<1>2. CASE e.span = None
  BY <1>1, <1>2 DEF SpotFits, EditIs, Spot
<1>3. CASE e.span # None
  <2>1. e.span = <<e.span[1], e.span[2]>>
    BY <1>1, <1>3 DEF EditIs, Spans
  <2>. QED BY <1>1, <1>3, <2>1 DEF SpotFits, EditIs, Spot
<1>. QED BY <1>2, <1>3

\* An EditText and its parts.
LEMMA EditWhole ==
  ASSUME NEW e \in Edits
  PROVE  e = [text |-> e.text, caret |-> e.caret, span |-> e.span]
BY DEF Edits

\* Changing its composing span, or its caret, changes one part.
LEMMA EditWith ==
  ASSUME NEW e \in Edits, NEW s
  PROVE  [e EXCEPT !.span = s] = [text |-> e.text, caret |-> e.caret, span |-> s]
BY DEF Edits

\* What one ordinary call of the keyboard does.
Keystroke(ev, e) ==
  /\ posted = <<>> /\ late = <<>> /\ late' = <<ev>> /\ edit' = e
  /\ UNCHANGED <<queue, posted, shown, dismissed, eguiVars, adapterVars, bridgeVars,
                 frameVars, moves>>

\* The model's call says so.
LEMMA KeyboardIs ==
  ASSUME NEW e, NEW ev, NEW ordinary \in BOOLEAN, Keyboard(e, <<ev>>, ordinary), plain'
  PROVE  plain /\ ordinary /\ Keystroke(ev, e)
BY DEF Keyboard, Keystroke

\* A commit with the caret behind it is one.
LEMMA CommitTypes ==
  ASSUME edit \in Lines, NEW t \in Words, NEW after \in BOOLEAN, CommitText(t, after), plain'
  PROVE  Keystroke(Commit(t), Committed(edit, t)) /\ Types(edit, Commit(t), Committed(edit, t))
<1>. DEFINE c == Target[1] + (IF after THEN Len(t) ELSE 0)
            e == [text |-> Splice(edit.text, Target[1], Target[2], t), caret |-> c, span |-> None]
            events == <<Commit(t)>> \o (IF after THEN <<>> ELSE <<Selection(c, TRUE)>>)
<1>1. Keyboard(e, events, after)
  BY DEF CommitText
<1>2. after
  <2>. HIDE DEF e, events
  <2>. QED BY <1>1 DEF Keyboard
<1>3. events = <<Commit(t)>>
  BY <1>2
<1>4. e = Committed(edit, t)
  BY <1>2 DEF Committed, Replacing, Spot, Target
<1>. HIDE DEF e, events
<1>5. Keystroke(Commit(t), Committed(edit, t))
  BY <1>1, <1>2, <1>3, <1>4, KeyboardIs
<1>. QED BY <1>5 DEF Types, Commit

\* So is a composition.
LEMMA ComposeTypes ==
  ASSUME edit \in Lines, NEW t \in Words, SetComposingText(t), plain'
  PROVE  Keystroke(Preedit(t), Composed(edit, t)) /\ Types(edit, Preedit(t), Composed(edit, t))
<1>1. Keyboard(Composed(edit, t), <<Preedit(t)>>, TRUE)
  BY DEF SetComposingText, Composed, Replacing, Spot, Target
<1>2. Keystroke(Preedit(t), Composed(edit, t))
  BY <1>1, KeyboardIs
<1>. QED BY <1>2 DEF Types, Preedit

\* So is the end of one.
LEMMA FinishTypes ==
  ASSUME edit \in Lines, FinishComposingText, plain'
  PROVE  Keystroke(Finish, Finished(edit)) /\ Types(edit, Finish, Finished(edit))
<1>1. Keyboard([edit EXCEPT !.span = None], <<Finish>>, TRUE)
  BY DEF FinishComposingText
<1>2. [edit EXCEPT !.span = None] = Finished(edit)
  BY EditWith DEF Finished, Lines
<1>3. Keystroke(Finish, Finished(edit))
  BY <1>1, <1>2, KeyboardIs
<1>. QED BY <1>3 DEF Types, Finish

\* So is a deletion around the spot.
LEMMA DeleteTypes ==
  ASSUME edit \in Lines, NEW n \in Nat, NEW m \in Nat, DeleteSurroundingText(n, m), plain'
  PROVE  \E ev \in Events : \E d : Keystroke(ev, d) /\ Types(edit, ev, d)
<1>. DEFINE a == IF edit.span = None THEN edit.caret ELSE Least(edit.caret, edit.span[1])
            b == IF edit.span = None THEN edit.caret ELSE Most(edit.caret, edit.span[2])
            before == Least(n, a)
            behind == Least(m, Len(edit.text) - b)
            e == [text |-> Splice(Splice(edit.text, b, b + behind, <<>>), a - before, a, <<>>),
                  caret |-> edit.caret - before,
                  span |-> IF edit.span = None THEN None
                           ELSE <<edit.span[1] - before, edit.span[2] - before>>]
            ev == Delete(before, behind, a, b)
<1>1. Keyboard(e, <<ev>>, TRUE)
  BY DEF DeleteSurroundingText
<1>2. SpotFits(edit)
  BY SpotIs
<1>3. a = Spot(edit)[1] /\ b = Spot(edit)[2] /\ edit.caret = Spot(edit)[2]
  <2>1. CASE edit.span = None
    BY <1>2, <2>1 DEF SpotFits, Spot
  <2>2. CASE edit.span # None
    <3>1. /\ edit.caret = edit.span[2] /\ edit.span[1] < edit.span[2]
          /\ edit.span[1] \in Nat /\ edit.span[2] \in Nat
      BY <1>2, <2>2 DEF SpotFits, Spot
    <3>. QED BY <2>2, <3>1 DEF Least, Most, Spot
  <2>. QED BY <2>1, <2>2
<1>. HIDE DEF a, b
<1>4. /\ before \in Nat /\ behind \in Nat /\ before <= a /\ b + behind <= Len(edit.text)
      /\ a \in Nat /\ b \in Nat /\ a <= b
  <2>1. /\ a \in Nat /\ b \in Nat /\ a <= b /\ Len(edit.text) \in Nat
        /\ Len(edit.text) - b \in Nat
    BY <1>2, <1>3 DEF SpotFits, EditIs
  <2>2. before \in Nat /\ before <= a /\ behind \in Nat /\ behind <= Len(edit.text) - b
    BY <2>1, LeastIs
  <2>. HIDE DEF before, behind
  <2>. QED BY <2>1, <2>2
<1>. HIDE DEF before, behind
<1>5. e = Thinned(edit, before, behind)
  BY <1>3 DEF Thinned, Taken
<1>6. Keystroke(ev, Thinned(edit, before, behind))
  <2>. HIDE DEF e, ev
  <2>. QED BY <1>1, <1>5, KeyboardIs
<1>7. ev \in Events
  BY <1>4, EventsMade
<1>8. Types(edit, ev, Thinned(edit, before, behind))
  <2>1. <<a, b>> = Spot(edit)
    BY <1>3 DEF Spot, Lines, Edits, Spans
  <2>2. Reaches(edit, before, behind)
    BY <1>3, <1>4 DEF Reaches
  <2>3. ev.k = "D" /\ ev.a = a /\ ev.b = b /\ ev.n = before /\ ev.m = behind
    BY DEF Delete
  <2>. HIDE DEF ev
  <2>. QED BY <2>1, <2>2, <2>3 DEF Types
<1>. QED BY <1>6, <1>7, <1>8

\* So is a DEL key inside the composing word, which composes what is left of it.
LEMMA DelInWordTypes ==
  ASSUME edit \in Lines, NEW back \in BOOLEAN, DelKeyInWord(back), plain'
  PROVE  \E ev \in Events : \E d : Keystroke(ev, d) /\ Types(edit, ev, d)
<1>. DEFINE a == IF back THEN edit.caret - 1 ELSE edit.caret
            span == Shrunk(edit.span, a)
            text == Splice(edit.text, a, a + 1, <<>>)
            e == [text |-> text, caret |-> a,
                  span |-> IF span[1] = span[2] THEN None ELSE span]
            w == Slice(text, span[1], span[2])
            p == edit.span[1]
            q == edit.span[2]
<1>1. /\ edit.span # None /\ (IF back THEN edit.caret > p ELSE edit.caret < q)
      /\ Keyboard(e, <<Preedit(w)>>, TRUE)
  BY DEF DelKeyInWord, AtWord
<1>2. /\ p \in Nat /\ q \in Nat /\ p < q /\ q <= Len(edit.text) /\ edit.caret = q
      /\ edit.text \in Words /\ Spot(edit)[1] = p /\ Spot(edit)[2] = q
  BY <1>1, SpotIs DEF SpotFits, EditIs, Spot
<1>3. back /\ a = q - 1 /\ a + 1 = q /\ span = <<p, q - 1>>
  <2>. HIDE DEF p, q
  <2>1. back
    BY <1>1, <1>2
  <2>2. a = q - 1 /\ q - 1 >= p
    BY <1>2, <2>1
  <2>3. a + 1 = q
    BY <1>2, <2>2
  <2>. QED BY <1>2, <2>1, <2>2, <2>3 DEF p, q, Shrunk
<1>. HIDE DEF span, a
<1>4. text = Splice(edit.text, q - 1, q, <<>>) /\ w = Slice(text, p, q - 1)
  BY <1>3
<1>. HIDE DEF p, q, text, w
<1>5. text = Splice(edit.text, p, q, w) /\ Len(w) = q - 1 - p /\ w \in Words
  <2>. DEFINE x == Splice(edit.text, q - 1, q, <<>>)
  <2>1. /\ x = Splice(edit.text, p, q, Slice(x, p, q - 1)) /\ Len(Slice(x, p, q - 1)) = q - 1 - p
        /\ Slice(x, p, q - 1) \in Words
    BY <1>2, SpliceShorter
  <2>. QED BY <1>4, <2>1
<1>6. e = Composed(edit, w)
  <2>1. p + Len(w) = q - 1 /\ (w = <<>> <=> p = q - 1)
    <3>1. w = <<>> <=> Len(w) = 0
      BY <1>5, EmptySeq DEF Words
    <3>. QED BY <1>2, <1>5, <3>1
  <2>2. span[1] = p /\ span[2] = q - 1 /\ span = <<p, p + Len(w)>>
    BY <1>3, <2>1
  <2>3. Replacing(edit, w) = text
    BY <1>2, <1>5 DEF Replacing
  <2>4. Composed(edit, w) = [text |-> text, caret |-> p + Len(w),
                             span |-> IF w = <<>> THEN None ELSE <<p, p + Len(w)>>]
    BY <1>2, <2>3 DEF Composed
  <2>5. (IF span[1] = span[2] THEN None ELSE span) = IF w = <<>> THEN None ELSE <<p, p + Len(w)>>
    BY <2>1, <2>2
  <2>. QED BY <1>3, <2>1, <2>4, <2>5
<1>. HIDE DEF e
<1>7. Keystroke(Preedit(w), Composed(edit, w))
  BY <1>1, <1>6, KeyboardIs
<1>8. Preedit(w) \in Events
  BY <1>5, EventsMade
<1>9. Types(edit, Preedit(w), Composed(edit, w))
  BY DEF Types, Preedit
<1>. QED BY <1>7, <1>8, <1>9

\* So is any other DEL key.
LEMMA DelTypes ==
  ASSUME edit \in Lines, NEW back \in BOOLEAN, DelKey(back), plain'
  PROVE  \E ev \in Events : \E d : Keystroke(ev, d) /\ Types(edit, ev, d)
<1>. DEFINE t == edit.text
            a == IF edit.span # None THEN edit.span[1]
                 ELSE IF back /\ edit.caret > 0 THEN edit.caret - 1 ELSE edit.caret
            b == IF edit.span # None THEN edit.span[2]
                 ELSE IF ~back /\ edit.caret < Len(edit.text) THEN edit.caret + 1 ELSE edit.caret
            c == IF edit.caret > b THEN edit.caret - (b - a) ELSE Least(a, edit.caret)
            e == [text |-> Splice(edit.text, a, b, <<>>), caret |-> c, span |-> None]
            n == b - a
            ev == DelSpan(back, n, a)
<1>1. Keyboard(e, <<ev>>, TRUE)
  BY DEF DelKey
<1>2. SpotFits(edit)
  BY SpotIs
<1>3. /\ a \in Nat /\ b \in Nat /\ a <= b /\ b <= Len(t) /\ a <= edit.caret /\ edit.caret <= b
      /\ edit.span # None => edit.span = <<a, b>>
  <2>1. CASE edit.span = None
    <3>. DEFINE k == edit.caret
    <3>1. k \in Nat /\ k <= Len(t) /\ Len(t) \in Nat
      BY <1>2 DEF SpotFits, EditIs
    <3>2. a = (IF back /\ k > 0 THEN k - 1 ELSE k) /\ b = (IF ~back /\ k < Len(t) THEN k + 1 ELSE k)
      BY <2>1
    <3>. HIDE DEF k, t, a, b
    <3>3. /\ a \in Nat /\ b \in Nat /\ a <= b /\ b <= Len(t) /\ a <= k /\ k <= b
      BY <3>1, <3>2
    <3>. QED BY <2>1, <3>3 DEF k
  <2>2. CASE edit.span # None
    BY <1>2, <2>2 DEF SpotFits, Spot
  <2>. QED BY <2>1, <2>2
<1>. HIDE DEF a, b
<1>4. c = a
  <2>1. ~(edit.caret > b) /\ edit.caret \in Nat
    BY <1>2, <1>3 DEF SpotFits, EditIs
  <2>. QED BY <1>3, <2>1 DEF Least
<1>5. n \in Nat /\ a + n = b
  BY <1>3
<1>6. e = Struck(edit, a, n)
  BY <1>4, <1>5 DEF Struck
<1>7. Strikes(edit, a, n)
  BY <1>3, <1>5 DEF Strikes
<1>. HIDE DEF e, n
<1>8. Keystroke(ev, Struck(edit, a, n))
  <2>. HIDE DEF ev
  <2>. QED BY <1>1, <1>6, KeyboardIs
<1>9. ev \in Events
  BY <1>3, <1>5, EventsMade
<1>10. Types(edit, ev, Struck(edit, a, n))
  <2>1. ev.k = "K" /\ ev.a = a /\ ev.n = n
    BY DEF DelSpan
  <2>. HIDE DEF ev
  <2>. QED BY <1>7, <2>1 DEF Types
<1>. QED BY <1>8, <1>9, <1>10

\* Every call of a keyboard that types is the event of a keystroke.
LEMMA TypeTypes ==
  ASSUME edit \in Lines, Type, plain'
  PROVE  \E ev \in Events : \E d : Keystroke(ev, d) /\ Types(edit, ev, d)
<1>1. ASSUME NEW t \in Strokes, SetComposingText(t) \/ CommitText(t, TRUE) \/ CommitText(t, FALSE)
      PROVE  \E ev \in Events : \E d : Keystroke(ev, d) /\ Types(edit, ev, d)
  <2>1. t \in Words
    BY ImeAssumption DEF Words
  <2>2. Preedit(t) \in Events /\ Commit(t) \in Events
    BY <2>1, EventsMade
  <2>3. CASE SetComposingText(t)
    <3>1. Keystroke(Preedit(t), Composed(edit, t)) /\ Types(edit, Preedit(t), Composed(edit, t))
      BY <2>1, <2>3, ComposeTypes
    <3>. QED BY <2>2, <3>1
  <2>4. ASSUME NEW after \in BOOLEAN, CommitText(t, after)
        PROVE  \E ev \in Events : \E d : Keystroke(ev, d) /\ Types(edit, ev, d)
    <3>1. Keystroke(Commit(t), Committed(edit, t)) /\ Types(edit, Commit(t), Committed(edit, t))
      BY <2>1, <2>4, CommitTypes
    <3>. QED BY <2>2, <3>1
  <2>. QED BY <1>1, <2>3, <2>4
<1>2. CASE FinishComposingText
  <2>1. Keystroke(Finish, Finished(edit)) /\ Types(edit, Finish, Finished(edit))
    BY <1>2, FinishTypes
  <2>. QED BY <2>1, EventsMade
<1>3. ASSUME NEW a, NEW b, SetComposingRegion(a, b) PROVE FALSE
  BY <1>3 DEF SetComposingRegion, Keyboard
<1>4. ASSUME NEW n \in 0..1, NEW m \in 0..1, DeleteSurroundingText(n, m)
      PROVE  \E ev \in Events : \E d : Keystroke(ev, d) /\ Types(edit, ev, d)
  BY <1>4, DeleteTypes
<1>5. ASSUME NEW back \in BOOLEAN, DelKeyInWord(back) \/ DelKey(back)
      PROVE  \E ev \in Events : \E d : Keystroke(ev, d) /\ Types(edit, ev, d)
  BY <1>5, DelInWordTypes, DelTypes
<1>6. ASSUME NEW c, SetSelection(c) PROVE FALSE
  BY <1>6 DEF SetSelection, Keyboard
<1>. QED BY <1>1, <1>2, <1>3, <1>4, <1>5, <1>6 DEF Type

\* A text that typing has made has its caret at the end of what is composed.
LEMMA TypesLine ==
  ASSUME NEW e \in Lines, NEW ev, NEW d, Types(e, ev, d)
  PROVE  d.span # None => d.caret = d.span[2]
<1>1. SpotFits(e)
  BY SpotIs
<1>2. \A t : Committed(e, t).span = None /\ Finished(e).span = None
  BY DEF Committed, Finished
<1>3. \A a, n : Struck(e, a, n).span = None
  BY DEF Struck
<1>4. \A t : Composed(e, t).span # None => Composed(e, t).caret = Composed(e, t).span[2]
  BY DEF Composed
<1>5. \A n, m : Thinned(e, n, m).span # None => Thinned(e, n, m).caret = Thinned(e, n, m).span[2]
  BY <1>1 DEF Thinned, SpotFits, Spot
<1>. QED BY <1>2, <1>3, <1>4, <1>5 DEF Types

-----------------------------------------------------------------------------
(* Runs.                                                                   *)

\* One by one, what q holds leads from e to d, each by a step of R.
Leads(S, R, q, e, d) ==
  \E r \in [0..Len(q) -> S] :
    r[0] = e /\ r[Len(q)] = d /\ \A n \in 1..Len(q) : <<r[n - 1], q[n], r[n]>> \in R

\* Nothing leads nowhere.
LEMMA LeadsNone ==
  ASSUME NEW S, NEW R
  PROVE  /\ \A e \in S : Leads(S, R, <<>>, e, e)
         /\ \A e, d : Leads(S, R, <<>>, e, d) => e = d
<1>1. Len(<<>>) = 0
  BY EmptySeq
<1>2. ASSUME NEW e \in S PROVE Leads(S, R, <<>>, e, e)
  <2>. DEFINE r == [n \in 0..0 |-> e]
  <2>1. r \in [0..0 -> S] /\ r[0] = e
    OBVIOUS
  <2>. HIDE DEF r
  <2>. QED BY <1>1, <2>1 DEF Leads
<1>3. \A e, d : Leads(S, R, <<>>, e, d) => e = d
  BY <1>1 DEF Leads
<1>. QED BY <1>2, <1>3

\* One thing is a step.
LEMMA LeadsOne ==
  ASSUME NEW S, NEW R, NEW e \in S, NEW d \in S, NEW x, <<e, x, d>> \in R
  PROVE  Leads(S, R, <<x>>, e, d)
<1>1. Len(<<x>>) = 1 /\ <<x>>[1] = x
  OBVIOUS
<1>. DEFINE r == [n \in 0..1 |-> IF n = 0 THEN e ELSE d]
<1>2. r \in [0..1 -> S] /\ r[0] = e /\ r[1] = d
  OBVIOUS
<1>. HIDE DEF r
<1>3. \A n \in 1..1 : <<r[n - 1], <<x>>[n], r[n]>> \in R
  <2>1. \A n \in 1..1 : n = 1 /\ n - 1 = 0
    OBVIOUS
  <2>. QED BY <1>1, <1>2, <2>1
<1>. QED BY <1>1, <1>2, <1>3 DEF Leads

\* Two runs are one.
LEMMA LeadsOn ==
  ASSUME NEW S, NEW R, NEW E, NEW p \in Seq(E), NEW q \in Seq(E), NEW e, NEW m, NEW d,
         Leads(S, R, p, e, m), Leads(S, R, q, m, d)
  PROVE  Leads(S, R, p \o q, e, d)
<1>. DEFINE K == Len(p)
            L == Len(q)
            s == p \o q
<1>1. /\ K \in Nat /\ L \in Nat /\ Len(s) = K + L
      /\ \A i \in 1..(K + L) : s[i] = IF i <= K THEN p[i] ELSE q[i - K]
  BY LenProperties, ConcatProperties
<1>2. PICK f \in [0..K -> S] :
        f[0] = e /\ f[K] = m /\ \A n \in 1..K : <<f[n - 1], p[n], f[n]>> \in R
  BY DEF Leads
<1>3. PICK g \in [0..L -> S] :
        g[0] = m /\ g[L] = d /\ \A n \in 1..L : <<g[n - 1], q[n], g[n]>> \in R
  BY DEF Leads
<1>. HIDE DEF K, L, s
<1>. DEFINE r == [n \in 0..(K + L) |-> IF n <= K THEN f[n] ELSE g[n - K]]
<1>4. r \in [0..(K + L) -> S]
  <2>1. ASSUME NEW n \in 0..(K + L) PROVE (IF n <= K THEN f[n] ELSE g[n - K]) \in S
    <3>1. n <= K => n \in 0..K
      BY <1>1
    <3>2. ~(n <= K) => n - K \in 0..L
      BY <1>1
    <3>. QED BY <1>2, <1>3, <3>1, <3>2
  <2>. QED BY <2>1
<1>5. \A n \in 0..(K + L) : r[n] = IF n <= K THEN f[n] ELSE g[n - K]
  OBVIOUS
<1>. HIDE DEF r
<1>6. r[0] = e /\ r[K + L] = d
  <2>1. 0 \in 0..(K + L) /\ K + L \in 0..(K + L) /\ 0 <= K /\ (K + L) - K = L
    BY <1>1
  <2>2. CASE K + L <= K
    <3>1. L = 0 /\ K + L = K
      BY <1>1, <2>2
    <3>. QED BY <1>2, <1>3, <1>5, <2>1, <3>1
  <2>3. CASE ~(K + L <= K)
    BY <1>2, <1>3, <1>5, <2>1, <2>3
  <2>. QED BY <2>2, <2>3
<1>7. ASSUME NEW n \in 1..(K + L) PROVE <<r[n - 1], s[n], r[n]>> \in R
  <2>1. n \in 0..(K + L) /\ n - 1 \in 0..(K + L)
    BY <1>1
  <2>2. CASE n <= K
    <3>1. n \in 1..K /\ n - 1 <= K
      BY <1>1, <2>2
    <3>2. r[n - 1] = f[n - 1] /\ r[n] = f[n] /\ s[n] = p[n]
      BY <1>1, <1>5, <2>1, <2>2, <3>1
    <3>. QED BY <1>2, <3>1, <3>2
  <2>3. CASE ~(n <= K)
    <3>. DEFINE i == n - K
    <3>1. i \in 1..L /\ (n - 1) - K = i - 1
      BY <1>1, <2>3
    <3>2. r[n] = g[i] /\ s[n] = q[i]
      BY <1>1, <1>5, <2>1, <2>3
    <3>3. r[n - 1] = g[i - 1]
      <4>1. CASE n - 1 <= K
        <5>1. n - 1 = K /\ i - 1 = 0
          BY <1>1, <2>3, <4>1
        <5>2. r[n - 1] = f[K]
          BY <1>5, <2>1, <4>1, <5>1
        <5>. HIDE DEF i
        <5>. QED BY <1>2, <1>3, <5>1, <5>2
      <4>2. CASE ~(n - 1 <= K)
        <5>1. r[n - 1] = g[(n - 1) - K]
          BY <1>5, <2>1, <4>2
        <5>. QED BY <3>1, <5>1
      <4>. QED BY <4>1, <4>2
    <3>. HIDE DEF i
    <3>. QED BY <1>3, <3>1, <3>2, <3>3
  <2>. QED BY <2>2, <2>3
<1>8. Leads(S, R, s, e, d)
  BY <1>1, <1>4, <1>6, <1>7 DEF Leads
<1>. QED BY <1>8 DEF s

\* And one thing more.
LEMMA LeadsMore ==
  ASSUME NEW S, NEW R, NEW E, NEW p \in Seq(E), NEW e, NEW m \in S, NEW d \in S, NEW x \in E,
         Leads(S, R, p, e, m), <<m, x, d>> \in R
  PROVE  Leads(S, R, Append(p, x), e, d)
<1>1. <<x>> \in Seq(E) /\ Append(p, x) = p \o <<x>>
  BY EmptySeq, OneMore, AppendIsConcat
<1>2. Leads(S, R, <<x>>, m, d)
  BY LeadsOne
<1>. QED BY <1>1, <1>2, LeadsOn

\* Events of typing lead from one text to another.
Typing == {x \in Lines \X Events \X Lines : Types(x[1], x[2], x[3])}
Ran(e, q, d) == Leads(Lines, Typing, q, e, d)

\* And inputs from one field to another.
InTexts == {g \in Fields : InText(g)}
Taking == {x \in InTexts \X Inputs \X InTexts : x[3] = TakeEvent(x[1], x[2])}
Took(f, q, g) == Leads(InTexts, Taking, q, f, g)

-----------------------------------------------------------------------------
(* What egui makes of what it takes.                                       *)

\* The EditText of a field, given the composition the adapter knows of.
Image(g, p) == [text |-> g.text, caret |-> g.sel[2], span |-> IF p = <<>> THEN None ELSE g.sel]

\* The field agrees with that composition: it is selected, or nothing is.
Fit(g, p) ==
  /\ InText(g) /\ p \in Words
  /\ IF p = <<>> THEN g.sel[1] = g.sel[2] /\ ~g.comp
     ELSE g.comp /\ Slice(g.text, g.sel[1], g.sel[2]) = p /\ g.sel[1] < g.sel[2]

\* What such a field holds, and its image.
FitIs(g, p) ==
  /\ g \in Fields /\ g.text \in Words /\ Len(g.text) \in Nat /\ g.sel[1] \in Nat /\ g.sel[2] \in Nat
  /\ g.sel = <<g.sel[1], g.sel[2]>> /\ g.sel[1] <= g.sel[2] /\ g.sel[2] <= Len(g.text)
  /\ (p = <<>> <=> ~g.comp) /\ (p = <<>> <=> g.sel[1] = g.sel[2])
  /\ Image(g, p) \in Lines /\ Spot(Image(g, p)) = g.sel

\* It is so.
LEMMA FitParts == ASSUME NEW g, NEW p, Fit(g, p) PROVE FitIs(g, p)
<1>. DEFINE a == g.sel[1]
            b == g.sel[2]
            e == Image(g, p)
<1>1. /\ g \in Fields /\ g.text \in Words /\ Len(g.text) \in Nat /\ a \in Nat /\ b \in Nat
      /\ g.sel \in Spans /\ a <= b /\ b <= Len(g.text) /\ g.comp \in BOOLEAN
  BY FieldParts DEF Fit, InText, FieldIs
<1>2. g.sel = <<a, b>>
  BY <1>1 DEF Spans
<1>3. (p = <<>> <=> ~g.comp) /\ (p = <<>> <=> a = b)
  <2>1. p = <<>> => a = b /\ ~g.comp
    BY DEF Fit
  <2>2. p # <<>> => a < b /\ g.comp
    BY DEF Fit
  <2>. HIDE DEF a, b
  <2>. QED BY <1>1, <2>1, <2>2
<1>4. e = [text |-> g.text, caret |-> b, span |-> IF p = <<>> THEN None ELSE <<a, b>>]
  BY <1>2 DEF Image
<1>5. e \in Edits
  <2>1. p # <<>> => a < b
    BY <1>1, <1>3
  <2>. HIDE DEF a, b, e
  <2>2. [text |-> g.text, caret |-> b, span |-> None] \in Edits
    BY <1>1, EditMade
  <2>3. p # <<>> => [text |-> g.text, caret |-> b, span |-> <<a, b>>] \in Edits
    BY <1>1, <2>1, EditMade
  <2>. QED BY <1>4, <2>2, <2>3
<1>6. <<a, b>> # None
  BY <1>1, ImeAssumption
<1>7. e.span # None => e.caret = e.span[2]
  BY <1>2 DEF Image
<1>8. Spot(e) = g.sel
  BY <1>2, <1>3, <1>6 DEF Spot, Image
<1>. QED BY <1>1, <1>2, <1>3, <1>5, <1>7, <1>8 DEF FitIs, Lines
\* A field from its parts agrees with a composition it has selected, or with none.
LEMMA FitMade ==
  ASSUME NEW f \in Fields, NEW t \in Words, NEW a \in Nat, NEW b \in Nat, a <= b, b <= Len(t)
  PROVE  /\ a = b => Fit(AtAs(f, t, a, b, FALSE), <<>>)
         /\ a = b /\ ~f.comp => Fit(At(f, t, a, b), <<>>)
         /\ a < b => Fit(AtAs(f, t, a, b, TRUE), Slice(t, a, b))
         /\ a < b /\ f.comp => Fit(At(f, t, a, b), Slice(t, a, b))
<1>1. <<>> \in Words /\ Slice(t, a, b) \in Words /\ (a < b => Slice(t, a, b) # <<>>)
  <2>1. Slice(t, a, b) \in Words /\ Len(Slice(t, a, b)) = b - a
    BY SliceIs DEF SlicedIs
  <2>2. a < b => b - a # 0
    OBVIOUS
  <2>. QED BY <2>1, <2>2, EmptySeq DEF Words
<1>2. ASSUME NEW g, InText(g), g.text = t, g.sel = <<a, b>>
      PROVE  /\ a = b /\ ~g.comp => Fit(g, <<>>)
             /\ a < b /\ g.comp => Fit(g, Slice(t, a, b))
  <2>1. g.sel[1] = a /\ g.sel[2] = b
    BY <1>2
  <2>2. CASE a = b /\ ~g.comp
    BY <1>1, <1>2, <2>1, <2>2 DEF Fit
  <2>3. CASE a < b /\ g.comp
    BY <1>1, <1>2, <2>1, <2>3 DEF Fit
  <2>. QED BY <2>2, <2>3
<1>. DEFINE g == At(f, t, a, b)
            h == AtAs(f, t, a, b, FALSE)
            k == AtAs(f, t, a, b, TRUE)
<1>3. InText(g) /\ InText(h) /\ InText(k)
  BY FieldMade
<1>4. /\ g.text = t /\ g.sel = <<a, b>> /\ g.comp = f.comp
      /\ h.text = t /\ h.sel = <<a, b>> /\ ~h.comp
      /\ k.text = t /\ k.sel = <<a, b>> /\ k.comp
  BY DEF At, AtAs, Fields
<1>. HIDE DEF g, h, k
<1>5. /\ a = b /\ ~f.comp => Fit(g, <<>>)
      /\ a < b /\ f.comp => Fit(g, Slice(t, a, b))
  BY <1>2, <1>3, <1>4
<1>6. a = b => Fit(h, <<>>)
  BY <1>2, <1>3, <1>4
<1>7. a < b => Fit(k, Slice(t, a, b))
  BY <1>2, <1>3, <1>4
<1>. QED BY <1>5, <1>6, <1>7 DEF g, h, k

\* A composition shows in the field as in the EditText.
LEMMA TakeComposed ==
  ASSUME NEW g, NEW p, Fit(g, p), NEW t \in Words
  PROVE  /\ Fit(TakePreedit(g, t), t)
         /\ Image(TakePreedit(g, t), t) = Composed(Image(g, p), t)
<1>. DEFINE a == g.sel[1]
            b == g.sel[2]
            x == Splice(g.text, a, b, t)
            c == a + Len(t)
<1>1. /\ FitIs(g, p) /\ g \in Fields /\ g.text \in Words /\ Len(g.text) \in Nat
      /\ a \in Nat /\ b \in Nat /\ a <= b /\ b <= Len(g.text)
  BY FitParts DEF FitIs
<1>2. Composed(Image(g, p), t) =
        [text |-> x, caret |-> c, span |-> IF t = <<>> THEN None ELSE <<a, c>>]
  <2>1. Spot(Image(g, p)) = g.sel /\ Image(g, p).text = g.text
    BY <1>1 DEF FitIs, Image
  <2>. QED BY <2>1 DEF Composed, Replacing
<1>3. CASE t = <<>> /\ ~g.comp
  <2>1. p = <<>> /\ a = b /\ c = b
    <3>1. p = <<>> /\ a = b
      BY <1>1, <1>3 DEF FitIs
    <3>2. Len(t) = 0
      BY <1>3, EmptySeq
    <3>. QED BY <1>1, <3>1, <3>2
  <2>2. TakePreedit(g, t) = g
    BY <1>3 DEF TakePreedit
  <2>3. x = g.text
    BY <1>1, <1>3, <2>1, SpliceNothing
  <2>4. Image(g, t) = [text |-> g.text, caret |-> b, span |-> None]
    BY <1>3 DEF Image
  <2>. HIDE DEF a, b, c, x
  <2>. QED BY <1>2, <1>3, <2>1, <2>2, <2>3, <2>4
<1>4. CASE ~(t = <<>> /\ ~g.comp)
  <2>1. TakePreedit(g, t) = AtAs(g, x, a, c, t # <<>>)
    BY <1>1, <1>4 DEF TakePreedit, Replaced, Fields, AtAs
  <2>2. x \in Words /\ c \in Nat /\ a <= c /\ c <= Len(x) /\ (t = <<>> <=> a = c)
    <3>1. ReplacedFits(x, a, t)
      BY ReplacedIs DEF Fit
    <3>2. Len(t) \in Nat /\ (t = <<>> <=> Len(t) = 0)
      BY LenProperties, EmptySeq DEF Words
    <3>. HIDE DEF a, x
    <3>. QED BY <1>1, <3>1, <3>2 DEF ReplacedFits
  <2>3. Slice(x, a, c) = t
    BY <1>1, SliceSpliced
  <2>. HIDE DEF a, b, c, x
  <2>4. Fit(AtAs(g, x, a, c, t # <<>>), t)
    <3>1. CASE t = <<>>
      <4>1. (t # <<>>) = FALSE /\ a = c
        BY <2>2, <3>1
      <4>2. Fit(AtAs(g, x, a, c, FALSE), <<>>)
        BY <1>1, <2>2, <4>1, FitMade
      <4>. QED BY <3>1, <4>1, <4>2
    <3>2. CASE t # <<>>
      <4>1. (t # <<>>) = TRUE /\ a < c
        BY <1>1, <2>2, <3>2
      <4>2. Fit(AtAs(g, x, a, c, TRUE), Slice(x, a, c))
        BY <1>1, <2>2, <4>1, FitMade
      <4>. QED BY <2>3, <4>1, <4>2
    <3>. QED BY <3>1, <3>2
  <2>5. Image(AtAs(g, x, a, c, t # <<>>), t) =
          [text |-> x, caret |-> c, span |-> IF t = <<>> THEN None ELSE <<a, c>>]
    BY <1>1 DEF Image, AtAs, Fields
  <2>. QED BY <1>2, <2>1, <2>4, <2>5
<1>. QED BY <1>3, <1>4

\* So does a commit.
LEMMA TakeCommitted ==
  ASSUME NEW g, NEW p, Fit(g, p), NEW t \in Words
  PROVE  /\ Fit(TakeCommit(g, t), <<>>)
         /\ Image(TakeCommit(g, t), <<>>) = Committed(Image(g, p), t)
<1>. DEFINE a == g.sel[1]
            b == g.sel[2]
            x == Splice(g.text, a, b, t)
            c == a + Len(t)
<1>1. /\ FitIs(g, p) /\ g \in Fields /\ g.text \in Words /\ Len(g.text) \in Nat
      /\ a \in Nat /\ b \in Nat /\ a <= b /\ b <= Len(g.text)
  BY FitParts DEF FitIs
<1>2. Committed(Image(g, p), t) = [text |-> x, caret |-> c, span |-> None]
  <2>1. Spot(Image(g, p)) = g.sel /\ Image(g, p).text = g.text
    BY <1>1 DEF FitIs, Image
  <2>. QED BY <2>1 DEF Committed, Replacing
<1>3. CASE t = <<>> /\ ~g.comp
  <2>1. p = <<>> /\ a = b /\ c = b
    <3>1. p = <<>> /\ a = b
      BY <1>1, <1>3 DEF FitIs
    <3>2. Len(t) = 0
      BY <1>3, EmptySeq
    <3>. QED BY <1>1, <3>1, <3>2
  <2>2. TakeCommit(g, t) = g
    BY <1>3 DEF TakeCommit
  <2>3. x = g.text
    BY <1>1, <1>3, <2>1, SpliceNothing
  <2>4. Image(g, <<>>) = [text |-> g.text, caret |-> b, span |-> None]
    BY DEF Image
  <2>. HIDE DEF a, b, c, x
  <2>. QED BY <1>2, <2>1, <2>2, <2>3, <2>4
<1>4. CASE ~(t = <<>> /\ ~g.comp)
  <2>1. TakeCommit(g, t) = AtAs(g, x, c, c, FALSE)
    BY <1>1, <1>4 DEF TakeCommit, Replaced, After, Fields, AtAs
  <2>2. x \in Words /\ c \in Nat /\ c <= c /\ c <= Len(x)
    <3>1. ReplacedFits(x, a, t)
      BY ReplacedIs DEF Fit
    <3>. HIDE DEF a, x
    <3>. QED BY <3>1 DEF ReplacedFits
  <2>. HIDE DEF a, b, c, x
  <2>3. Fit(AtAs(g, x, c, c, FALSE), <<>>)
    BY <1>1, <2>2, FitMade
  <2>4. Image(AtAs(g, x, c, c, FALSE), <<>>) = [text |-> x, caret |-> c, span |-> None]
    BY <1>1 DEF Image, AtAs, Fields
  <2>. QED BY <1>2, <2>1, <2>3, <2>4
<1>. QED BY <1>3, <1>4

\* A composition that is committed as it stands is finished.
LEMMA FinishedIs ==
  ASSUME NEW g, NEW p, Fit(g, p)
  PROVE  /\ p = <<>> => Finished(Image(g, p)) = Image(g, p)
         /\ p # <<>> => Finished(Image(g, p)) = Committed(Image(g, p), p)
<1>. DEFINE a == g.sel[1]
            b == g.sel[2]
<1>1. /\ FitIs(g, p) /\ g.text \in Words /\ Len(g.text) \in Nat
      /\ a \in Nat /\ b \in Nat /\ a <= b /\ b <= Len(g.text)
  BY FitParts DEF FitIs
<1>2. Finished(Image(g, p)) = [text |-> g.text, caret |-> b, span |-> None]
  BY DEF Finished, Image
<1>3. CASE p = <<>>
  BY <1>2, <1>3 DEF Image
<1>4. CASE p # <<>>
  <2>1. p = Slice(g.text, a, b)
    BY <1>4 DEF Fit
  <2>2. Splice(g.text, a, b, p) = g.text /\ a + Len(p) = b
    <3>1. Splice(g.text, a, b, Slice(g.text, a, b)) = g.text
      BY <1>1, SpliceSelf
    <3>2. Len(Slice(g.text, a, b)) = b - a
      BY <1>1, SliceIs DEF SlicedIs
    <3>3. a + (b - a) = b
      BY <1>1
    <3>. QED BY <2>1, <3>1, <3>2, <3>3
  <2>3. Spot(Image(g, p)) = g.sel /\ Image(g, p).text = g.text
    BY <1>1 DEF FitIs, Image
  <2>4. Committed(Image(g, p), p) = [text |-> Splice(g.text, a, b, p), caret |-> a + Len(p),
                                     span |-> None]
    BY <2>3 DEF Committed, Replacing
  <2>. QED BY <1>2, <1>4, <2>2, <2>4
<1>. QED BY <1>3, <1>4

\* A deletion around the selection is one around the spot.
LEMMA TakeThinned ==
  ASSUME NEW g, NEW p, Fit(g, p), NEW n \in Nat, NEW m \in Nat, Reaches(Image(g, p), n, m)
  PROVE  /\ Fit(TakeAround(g, n, m), p)
         /\ Image(TakeAround(g, n, m), p) = Thinned(Image(g, p), n, m)
         /\ n = 0 /\ m = 0 => Thinned(Image(g, p), n, m) = Image(g, p)
<1>. DEFINE a == g.sel[1]
            b == g.sel[2]
            t == g.text
            x == Taken(t, a, b, n, m)
            c == a - n
            d == b - n
<1>1. /\ FitIs(g, p) /\ g \in Fields /\ t \in Words /\ Len(t) \in Nat
      /\ a \in Nat /\ b \in Nat /\ a <= b /\ b <= Len(t) /\ g.sel = <<a, b>>
      /\ (p = <<>> <=> ~g.comp) /\ (p = <<>> <=> a = b)
  BY FitParts DEF FitIs
<1>2. n <= a /\ b + m <= Len(t)
  BY <1>1 DEF Reaches, FitIs, Image
<1>3. Least(n, a) = n /\ Least(m, Len(t) - b) = m
  <2>1. n <= a /\ m <= Len(t) - b /\ Len(t) - b \in Nat
    BY <1>1, <1>2
  <2>. HIDE DEF a, b, t
  <2>. QED BY <1>1, <2>1 DEF Least
<1>4. TakeAround(g, n, m) = At(g, x, c, d)
  BY <1>3 DEF TakeAround, Taken, At
<1>5. Thinned(Image(g, p), n, m) =
        [text |-> x, caret |-> d, span |-> IF p = <<>> THEN None ELSE <<c, d>>]
  <2>1. <<a, b>> # None
    BY <1>1, ImeAssumption
  <2>2. /\ Spot(Image(g, p))[1] = a /\ Spot(Image(g, p))[2] = b /\ Image(g, p).text = t
        /\ Image(g, p).span = IF p = <<>> THEN None ELSE <<a, b>>
    BY <1>1 DEF FitIs, Image
  <2>. HIDE DEF a, b, t
  <2>3. p # <<>> => Image(g, p).span[1] = a /\ Image(g, p).span[2] = b
    BY <2>2
  <2>. QED BY <2>1, <2>2, <2>3 DEF Thinned
<1>6. x \in Words /\ Len(x) = Len(t) - n - m /\ Slice(x, c, d) = Slice(t, a, b)
  <2>. HIDE DEF a, b, t
  <2>1. x \in Words /\ Len(x) = Len(t) - n - m
    BY <1>1, <1>2, AroundIs
  <2>2. Slice(x, c, d) = Slice(t, a, b)
    BY <1>1, <1>2, SliceTaken
  <2>. QED BY <2>1, <2>2
<1>7. p # <<>> => Slice(t, a, b) = p
  BY DEF Fit
<1>8. n = 0 /\ m = 0 => x = t
  <2>. SUFFICES ASSUME n = 0, m = 0 PROVE x = t
    OBVIOUS
  <2>1. Splice(t, b, b, <<>>) = t /\ Splice(t, a, a, <<>>) = t /\ a <= Len(t)
    <3>1. a <= Len(t)
      BY <1>1
    <3>. QED BY <1>1, <3>1, SpliceNothing
  <2>2. b + 0 = b /\ a - 0 = a
    BY <1>1
  <2>. QED BY <2>1, <2>2 DEF Taken
<1>9. Image(g, p) = [text |-> t, caret |-> b, span |-> IF p = <<>> THEN None ELSE <<a, b>>]
  BY <1>1 DEF Image
<1>. HIDE DEF a, b, t, x
<1>10. c \in Nat /\ d \in Nat /\ c <= d /\ d <= Len(x) /\ (a = b <=> c = d) /\ (a # b => c < d)
  BY <1>1, <1>2, <1>6
<1>11. n = 0 => c = a /\ d = b
  BY <1>1
<1>. HIDE DEF c, d
<1>12. Image(At(g, x, c, d), p) =
         [text |-> x, caret |-> d, span |-> IF p = <<>> THEN None ELSE <<c, d>>]
  BY <1>1 DEF Image, At, Fields
<1>13. Fit(At(g, x, c, d), p)
  <2>1. CASE p = <<>>
    <3>1. c = d /\ ~g.comp
      BY <1>1, <1>10, <2>1
    <3>. QED BY <1>1, <1>6, <1>10, <2>1, <3>1, FitMade
  <2>2. CASE p # <<>>
    <3>1. c < d /\ g.comp
      BY <1>1, <1>10, <2>2
    <3>. QED BY <1>1, <1>6, <1>7, <1>10, <2>2, <3>1, FitMade
  <2>. QED BY <2>1, <2>2
<1>14. n = 0 /\ m = 0 => Thinned(Image(g, p), n, m) = Image(g, p)
  BY <1>5, <1>8, <1>9, <1>11
<1>. QED BY <1>4, <1>5, <1>12, <1>13, <1>14

\* A composition that is emptied is a span deleted.
LEMMA EmptiedIs ==
  ASSUME NEW g, NEW p, Fit(g, p), p # <<>>, NEW a \in Nat, NEW n \in Nat,
         Strikes(Image(g, p), a, n)
  PROVE  Composed(Image(g, p), <<>>) = Struck(Image(g, p), a, n)
<1>1. FitIs(g, p) /\ g.sel \in Nat \X Nat
  BY FitParts DEF Fit, InText, Fields, Spans
<1>2. g.sel # None
  BY <1>1, ImeAssumption
<1>3. g.sel = <<a, a + n>>
  BY <1>2 DEF Strikes, Image
<1>4. Spot(Image(g, p))[1] = a /\ Spot(Image(g, p))[2] = a + n /\ Image(g, p).text = g.text
  BY <1>1, <1>3 DEF FitIs, Image
<1>5. Len(<<>>) = 0 /\ a + 0 = a
  BY EmptySeq
<1>6. Composed(Image(g, p), <<>>) =
        [text |-> Splice(g.text, a, a + n, <<>>), caret |-> a + Len(<<>>), span |-> None]
  BY <1>4 DEF Composed, Replacing
<1>. QED BY <1>4, <1>5, <1>6 DEF Struck

\* A span selected and deleted is a span deleted, and an empty one is none.
LEMMA TakeStruck ==
  ASSUME NEW g, Fit(g, <<>>), NEW a \in Nat, NEW n \in Nat, Strikes(Image(g, <<>>), a, n)
  PROVE  /\ n = 0 => Struck(Image(g, <<>>), a, n) = Image(g, <<>>)
         /\ LET s == [g EXCEPT !.sel = <<a, a + n>>]
            IN  /\ InText(s)
                /\ \A back \in BOOLEAN :
                     n # 0 => /\ Fit(TakeKey(s, back), <<>>)
                              /\ Image(TakeKey(s, back), <<>>) = Struck(Image(g, <<>>), a, n)
<1>. DEFINE t == g.text
            b == a + n
            e == Image(g, <<>>)
            s == [g EXCEPT !.sel = <<a, b>>]
            x == Splice(t, a, b, <<>>)
<1>1. /\ g \in Fields /\ t \in Words /\ Len(t) \in Nat /\ ~g.comp /\ g.sel[2] \in Nat
  BY FitParts DEF FitIs
<1>2. e = [text |-> t, caret |-> g.sel[2], span |-> None]
  BY DEF Image
<1>3. b <= Len(t) /\ a <= g.sel[2] /\ g.sel[2] <= b
  BY <1>2 DEF Strikes
<1>4. Struck(e, a, n) = [text |-> x, caret |-> a, span |-> None]
  BY <1>2 DEF Struck
<1>5. n = 0 => Struck(e, a, n) = e
  <2>. SUFFICES ASSUME n = 0 PROVE Struck(e, a, n) = e
    OBVIOUS
  <2>1. b = a /\ a <= Len(t) /\ g.sel[2] = a
    BY <1>1, <1>3
  <2>2. Splice(t, a, a, <<>>) = t
    BY <1>1, <2>1, SpliceNothing
  <2>. HIDE DEF t, b, e
  <2>. QED BY <1>2, <1>4, <2>1, <2>2
<1>6. InText(s) /\ s \in Fields /\ s.text = t /\ s.sel = <<a, b>> /\ s.comp = g.comp
  <2>1. b \in Nat /\ a <= b
    OBVIOUS
  <2>. DEFINE u == <<a, b>>
  <2>2. u \in Spans /\ u[2] = b
    BY <2>1 DEF Spans
  <2>. HIDE DEF u
  <2>3. [g EXCEPT !.sel = u] \in Fields
    BY <1>1, <2>2 DEF Fields
  <2>4. [g EXCEPT !.sel = u].text = t /\ [g EXCEPT !.sel = u].sel = u
        /\ [g EXCEPT !.sel = u].comp = g.comp
    BY <1>1 DEF Fields
  <2>5. InText([g EXCEPT !.sel = u])
    BY <1>3, <2>2, <2>3, <2>4 DEF InText
  <2>. QED BY <2>3, <2>4, <2>5 DEF u
<1>7. x \in Words /\ a <= Len(x)
  <2>1. b \in Nat /\ a <= b /\ <<>> \in Words /\ Len(<<>>) = 0
    BY EmptySeq DEF Words
  <2>. HIDE DEF b, t
  <2>2. SplicedIs(t, a, b, <<>>, x)
    BY <1>1, <1>3, <2>1, SpliceIs
  <2>. HIDE DEF x
  <2>. QED BY <1>1, <1>3, <2>1, <2>2 DEF SplicedIs
<1>8. ASSUME NEW back \in BOOLEAN, n # 0
      PROVE  Fit(TakeKey(s, back), <<>>) /\ Image(TakeKey(s, back), <<>>) = Struck(e, a, n)
  <2>1. s.sel[1] = a /\ s.sel[2] = b
    BY <1>6
  <2>2. a # b
    BY <1>8
  <2>. HIDE DEF s, b, t, e
  <2>3. TakeKey(s, back) = At(s, x, a, a)
    <3>1. TakeKey(s, back) = [s EXCEPT !.text = Splice(s.text, a, b, <<>>), !.sel = <<a, a>>]
      BY <2>1, <2>2 DEF TakeKey
    <3>. QED BY <1>6, <3>1 DEF At
  <2>. HIDE DEF x
  <2>4. Fit(At(s, x, a, a), <<>>)
    <3>1. ~s.comp /\ a <= a
      BY <1>1, <1>6
    <3>. QED BY <1>6, <1>7, <3>1, FitMade
  <2>5. Image(At(s, x, a, a), <<>>) = [text |-> x, caret |-> a, span |-> None]
    BY <1>6 DEF Image, At, Fields
  <2>. QED BY <1>4, <2>3, <2>4, <2>5
<1>. QED BY <1>5, <1>6, <1>8

-----------------------------------------------------------------------------
(* A batch of typing.                                                      *)

\* The field as a batch has placed its selection.
FieldOf(b) == [field EXCEPT !.sel = b.sel]

\* A batch under way: egui, once it has taken what is staged, holds a text from which what is
\* put off leads to e.
Along(b, e) ==
  /\ b \in Batches /\ ~b.dead /\ b.word = None /\ b.lastSel = None /\ ~b.needs
  /\ ~b.mutated => b.out = <<>>
  /\ \E g : /\ Took(FieldOf(b), b.out, g) /\ Fit(g, b.preedit)
            /\ Ran(Image(g, b.preedit), b.later, e)

\* What staging leaves, and putting off.
LEMMA StagingIs ==
  ASSUME NEW b \in Batches, NEW i \in Inputs, NEW ev \in Events
  PROVE  LET s == Staged(b, <<i>>)
             d == Deferred(b, ev)
         IN  /\ s \in Batches /\ s.out = Append(b.out, i) /\ s.mutated
             /\ s.sel = b.sel /\ s.preedit = b.preedit /\ s.later = b.later /\ s.dead = b.dead
             /\ s.word = b.word /\ s.lastSel = b.lastSel /\ s.needs = b.needs
             /\ d \in Batches /\ d.out = b.out /\ d.mutated = b.mutated
             /\ d.sel = b.sel /\ d.preedit = b.preedit /\ d.later = Append(b.later, ev)
             /\ d.dead = b.dead /\ d.word = b.word /\ d.lastSel = b.lastSel /\ d.needs = b.needs
<1>. DEFINE s == Staged(b, <<i>>)
            d == Deferred(b, ev)
<1>1. s \in Batches /\ d \in Batches
  BY StagedOne, DeferredIs DEF Alike
<1>2. b.out \in Seq(Inputs) /\ b.out \o <<i>> = Append(b.out, i)
  BY BatchParts, AppendIsConcat
<1>3. /\ s.out = b.out \o <<i>> /\ s.mutated = TRUE
      /\ s.sel = b.sel /\ s.preedit = b.preedit /\ s.later = b.later /\ s.dead = b.dead
      /\ s.word = b.word /\ s.lastSel = b.lastSel /\ s.needs = b.needs
  BY DEF Staged, Batches
<1>4. /\ d.out = b.out /\ d.mutated = b.mutated
      /\ d.sel = b.sel /\ d.preedit = b.preedit /\ d.later = Append(b.later, ev)
      /\ d.dead = b.dead /\ d.word = b.word /\ d.lastSel = b.lastSel /\ d.needs = b.needs
  BY DEF Deferred, Batches
<1>. HIDE DEF s, d
<1>5. s.out = Append(b.out, i)
  BY <1>2, <1>3
<1>. QED BY <1>1, <1>3, <1>4, <1>5 DEF s, d

\* Staging what egui makes the next text of goes along.
LEMMA AlongStaged ==
  ASSUME NEW c \in Batches, ~c.dead, c.word = None, c.lastSel = None, ~c.needs, c.later = <<>>,
         NEW g, Took(FieldOf(c), c.out, g), NEW i \in Inputs, NEW d,
         Fit(TakeEvent(g, i), c.preedit), Image(TakeEvent(g, i), c.preedit) = d
  PROVE  Along(Staged(c, <<i>>), d)
<1>. DEFINE s == Staged(c, <<i>>)
            h == TakeEvent(g, i)
<1>1. /\ s \in Batches /\ s.out = Append(c.out, i) /\ s.mutated /\ s.sel = c.sel
      /\ s.preedit = c.preedit /\ s.later = c.later /\ s.dead = c.dead
      /\ s.word = c.word /\ s.lastSel = c.lastSel /\ s.needs = c.needs
  BY EventsMade, StagingIs
<1>2. FieldOf(s) = FieldOf(c)
  BY <1>1 DEF FieldOf
<1>3. c.out \in Seq(Inputs) /\ Len(c.out) \in Nat
  BY BatchParts, LenProperties
<1>4. g \in InTexts
  <2>1. Len(c.out) \in 0..Len(c.out)
    BY <1>3
  <2>. QED BY <2>1 DEF Took, Leads
<1>5. h \in InTexts /\ InText(h)
  BY DEF Fit, InText, InTexts
<1>6. d \in Lines
  BY FitParts DEF FitIs
<1>. HIDE DEF s
<1>7. <<g, i, h>> \in Taking
  BY <1>4, <1>5 DEF Taking
<1>. HIDE DEF h
<1>8. Took(FieldOf(s), s.out, h)
  BY <1>1, <1>2, <1>3, <1>4, <1>5, <1>7, LeadsMore DEF Took
<1>9. Ran(d, s.later, d)
  BY <1>1, <1>6, LeadsNone DEF Ran
<1>10. Fit(h, s.preedit) /\ Image(h, s.preedit) = d
  BY <1>1 DEF h
<1>. QED BY <1>1, <1>8, <1>9, <1>10 DEF Along, s

\* Putting an event off goes along.
LEMMA AlongDeferred ==
  ASSUME NEW b, NEW e \in Lines, Along(b, e), NEW ev \in Events, NEW d \in Lines, Types(e, ev, d)
  PROVE  Along(Deferred(b, ev), d)
<1>. DEFINE s == Deferred(b, ev)
<1>0. b \in Batches /\ Finish \in Events
  BY EventsMade DEF Along
<1>1. /\ s \in Batches /\ s.out = b.out /\ s.mutated = b.mutated
      /\ s.sel = b.sel /\ s.preedit = b.preedit /\ s.later = Append(b.later, ev)
      /\ s.dead = b.dead /\ s.word = b.word /\ s.lastSel = b.lastSel /\ s.needs = b.needs
  BY <1>0, InputsMade, StagingIs
<1>2. FieldOf(s) = FieldOf(b)
  BY <1>1 DEF FieldOf
<1>3. PICK g : /\ Took(FieldOf(b), b.out, g) /\ Fit(g, b.preedit)
               /\ Ran(Image(g, b.preedit), b.later, e)
  BY DEF Along
<1>4. b.later \in Seq(Events)
  BY <1>0, BatchParts
<1>5. <<e, ev, d>> \in Typing
  BY DEF Typing
<1>. HIDE DEF s
<1>6. Ran(Image(g, b.preedit), s.later, d)
  BY <1>1, <1>3, <1>4, <1>5, LeadsMore DEF Ran
<1>7. ~s.dead /\ s.word = None /\ s.lastSel = None /\ ~s.needs /\ (~s.mutated => s.out = <<>>)
  BY <1>1 DEF Along
<1>8. Took(FieldOf(s), s.out, g) /\ Fit(g, s.preedit) /\ Ran(Image(g, s.preedit), s.later, d)
  BY <1>1, <1>2, <1>3, <1>6
<1>9. Along(s, d)
  BY <1>1, <1>7, <1>8 DEF Along
<1>. QED BY <1>9 DEF s

\* A batch that has staged nothing has not touched the field.
LEMMA AlongFresh ==
  ASSUME EguiOK, NEW b \in Batches, ~b.mutated => b.out = <<>>, ~b.mutated,
         NEW g, Took(FieldOf(b), b.out, g)
  PROVE  g = FieldOf(b) /\ g.sel = b.sel
<1>1. FieldOf(b) = g
  BY LeadsNone DEF Took
<1>2. FieldOf(b).sel = b.sel
  BY DEF FieldOf, EguiOK, Fields
<1>. QED BY <1>1, <1>2

\* A batch with another selection, or composition, and not otherwise changed.
LEMMA AlongWith ==
  ASSUME NEW b \in Batches, NEW s, NEW p
  PROVE  /\ [b EXCEPT !.sel = s].sel = s /\ [b EXCEPT !.sel = s].out = b.out
         /\ [b EXCEPT !.sel = s].preedit = b.preedit /\ [b EXCEPT !.sel = s].later = b.later
         /\ [b EXCEPT !.sel = s].dead = b.dead /\ [b EXCEPT !.sel = s].word = b.word
         /\ [b EXCEPT !.sel = s].lastSel = b.lastSel /\ [b EXCEPT !.sel = s].needs = b.needs
         /\ [b EXCEPT !.preedit = p].sel = b.sel /\ [b EXCEPT !.preedit = p].out = b.out
         /\ [b EXCEPT !.preedit = p].preedit = p /\ [b EXCEPT !.preedit = p].later = b.later
         /\ [b EXCEPT !.preedit = p].dead = b.dead /\ [b EXCEPT !.preedit = p].word = b.word
         /\ [b EXCEPT !.preedit = p].lastSel = b.lastSel
         /\ [b EXCEPT !.preedit = p].needs = b.needs
BY DEF Batches

\* A commit, a composition or the end of one goes along.
LEMMA AlongWord ==
  ASSUME NEW b, NEW e, Along(b, e), b.later = <<>>, NEW i \in Inputs, NEW q \in Words,
         NEW g, Took(FieldOf(b), b.out, g), NEW d,
         Fit(TakeEvent(g, i), q), Image(TakeEvent(g, i), q) = d
  PROVE  Along(Staged([b EXCEPT !.preedit = q], <<i>>), d)
<1>. DEFINE c == [b EXCEPT !.preedit = q]
<1>1. b \in Batches /\ ~b.dead /\ b.word = None /\ b.lastSel = None /\ ~b.needs
  BY DEF Along
<1>2. c \in Batches
  BY <1>1, BatchWith DEF Alike
<1>3. /\ c.sel = b.sel /\ c.out = b.out /\ c.preedit = q /\ c.later = b.later /\ c.dead = b.dead
      /\ c.word = b.word /\ c.lastSel = b.lastSel /\ c.needs = b.needs
  BY <1>1, AlongWith
<1>. HIDE DEF c
<1>4. FieldOf(c) = FieldOf(b)
  BY <1>3 DEF FieldOf
<1>5. Along(Staged(c, <<i>>), d)
  BY <1>1, <1>2, <1>3, <1>4, AlongStaged
<1>. QED BY <1>5 DEF c

\* What has come along so far, and the text it has come to if nothing was put off.
LEMMA AlongParts ==
  ASSUME EguiOK, NEW b, NEW e, Along(b, e), b.later = <<>>
  PROVE  \E g : /\ Took(FieldOf(b), b.out, g) /\ Fit(g, b.preedit) /\ Image(g, b.preedit) = e
                /\ ~b.mutated => g = FieldOf(b) /\ g.sel = b.sel
<1>1. PICK g : /\ Took(FieldOf(b), b.out, g) /\ Fit(g, b.preedit)
               /\ Ran(Image(g, b.preedit), b.later, e)
  BY DEF Along
<1>2. Image(g, b.preedit) = e
  <2>1. Leads(Lines, Typing, <<>>, Image(g, b.preedit), e)
    BY <1>1 DEF Ran
  <2>2. \A x, y : Leads(Lines, Typing, <<>>, x, y) => x = y
    BY LeadsNone
  <2>. QED BY <2>1, <2>2
<1>3. ~b.mutated => g = FieldOf(b) /\ g.sel = b.sel
  BY <1>1, AlongFresh DEF Along
<1>. QED BY <1>1, <1>2, <1>3

\* A commit goes along.
LEMMA AlongT ==
  ASSUME EguiOK, NEW b, NEW e, Along(b, e), b.later = <<>>, NEW ev \in Events, ev.k = "T", NEW d,
         d = Committed(e, ev.t)
  PROVE  Along(ApplyCommit(b, ev), d)
<1>1. PICK g : Took(FieldOf(b), b.out, g) /\ Fit(g, b.preedit) /\ Image(g, b.preedit) = e
  BY AlongParts
<1>2. ev.t \in Words /\ <<>> \in Words
  BY EventParts, EmptySeq DEF EventIs, Words
<1>3. Insert(ev.t) \in Inputs /\ TakeEvent(g, Insert(ev.t)) = TakeCommit(g, ev.t)
  BY <1>2, InputsMade DEF TakeEvent, Insert
<1>4. Fit(TakeEvent(g, Insert(ev.t)), <<>>) /\ Image(TakeEvent(g, Insert(ev.t)), <<>>) = d
  BY <1>1, <1>2, <1>3, TakeCommitted
<1>. QED BY <1>1, <1>2, <1>3, <1>4, AlongWord DEF ApplyCommit

\* So does a composition.
LEMMA AlongC ==
  ASSUME EguiOK, NEW b, NEW e, Along(b, e), b.later = <<>>, NEW ev \in Events, ev.k = "C", NEW d,
         d = Composed(e, ev.t)
  PROVE  Along(ApplyPreedit(b, ev), d)
<1>1. PICK g : Took(FieldOf(b), b.out, g) /\ Fit(g, b.preedit) /\ Image(g, b.preedit) = e
  BY AlongParts
<1>2. ev.t \in Words
  BY EventParts DEF EventIs
<1>3. Mark(ev.t) \in Inputs /\ TakeEvent(g, Mark(ev.t)) = TakePreedit(g, ev.t)
  BY <1>2, InputsMade DEF TakeEvent, Mark
<1>4. Fit(TakeEvent(g, Mark(ev.t)), ev.t) /\ Image(TakeEvent(g, Mark(ev.t)), ev.t) = d
  BY <1>1, <1>2, <1>3, TakeComposed
<1>5. ApplyPreedit(b, ev) = Staged([b EXCEPT !.preedit = ev.t], <<Mark(ev.t)>>)
  BY DEF ApplyPreedit, Compose, Along
<1>. QED BY <1>1, <1>2, <1>3, <1>4, <1>5, AlongWord

\* So does the end of one.
LEMMA AlongF ==
  ASSUME EguiOK, NEW b, NEW e, Along(b, e), b.later = <<>>, NEW d, d = Finished(e)
  PROVE  Along(ApplyFinish(b), d)
<1>1. PICK g : /\ Took(FieldOf(b), b.out, g) /\ Fit(g, b.preedit) /\ Image(g, b.preedit) = e
               /\ ~b.mutated => g.sel = b.sel
  BY AlongParts
<1>2. b.preedit \in Words /\ <<>> \in Words
  BY <1>1, EmptySeq DEF Fit, Words
<1>3. CASE b.preedit = <<>>
  <2>1. ApplyFinish(b) = b
    BY <1>3 DEF ApplyFinish
  <2>2. d = e
    BY <1>1, <1>3, FinishedIs
  <2>. QED BY <2>1, <2>2
<1>4. CASE b.preedit # <<>>
  <2>1. b.mutated \/ ShowsPreedit(b)
    <3>1. ~b.mutated => b.sel[2] - b.sel[1] = Len(b.preedit)
      <4>0. /\ g.text \in Words /\ g.sel[1] \in Nat /\ g.sel[2] \in Nat
            /\ g.sel[1] <= g.sel[2] /\ g.sel[2] <= Len(g.text)
        BY <1>1, FitParts DEF FitIs
      <4>1. Len(Slice(g.text, g.sel[1], g.sel[2])) = g.sel[2] - g.sel[1]
        BY <4>0, SliceIs DEF SlicedIs
      <4>2. Slice(g.text, g.sel[1], g.sel[2]) = b.preedit
        BY <1>1, <1>4 DEF Fit
      <4>. QED BY <1>1, <4>1, <4>2
    <3>. QED BY <3>1 DEF ShowsPreedit
  <2>2. ApplyFinish(b) = Staged([b EXCEPT !.preedit = <<>>], <<Insert(b.preedit)>>)
    BY <1>4, <2>1 DEF ApplyFinish
  <2>3. /\ Insert(b.preedit) \in Inputs
        /\ TakeEvent(g, Insert(b.preedit)) = TakeCommit(g, b.preedit)
    BY <1>2, InputsMade DEF TakeEvent, Insert
  <2>4. /\ Fit(TakeEvent(g, Insert(b.preedit)), <<>>)
        /\ Image(TakeEvent(g, Insert(b.preedit)), <<>>) = d
    BY <1>1, <1>2, <1>4, <2>3, TakeCommitted, FinishedIs
  <2>. QED BY <1>1, <1>2, <2>2, <2>3, <2>4, AlongWord
<1>. QED BY <1>3, <1>4

\* A batch that has staged nothing and composes nothing has no selection of its own.
LEMMA NoneOutranks ==
  ASSUME NEW b, NEW g, Fit(g, b.preedit), b.preedit = <<>>, g.sel = b.sel, NEW s
  PROVE  ~Outranks(b, s)
BY DEF Fit, Outranks

\* So does a deletion around the spot.
LEMMA AlongD ==
  ASSUME EguiOK, NEW b, NEW e \in Lines, Along(b, e), b.later = <<>>, NEW ev \in Events,
         ev.k = "D", NEW d \in Lines, Types(e, ev, d)
  PROVE  Along(ApplyDelete(b, ev), d)
<1>1. PICK g : /\ Took(FieldOf(b), b.out, g) /\ Fit(g, b.preedit) /\ Image(g, b.preedit) = e
               /\ ~b.mutated => g = FieldOf(b) /\ g.sel = b.sel
  BY AlongParts
<1>2. ev.n \in Nat /\ ev.m \in Nat
  BY EventParts DEF EventIs
<1>3. <<ev.a, ev.b>> = Spot(e) /\ Reaches(e, ev.n, ev.m) /\ d = Thinned(e, ev.n, ev.m)
  BY DEF Types
<1>4. CASE ApplyDelete(b, ev) = Deferred(b, ev)
  BY <1>4, AlongDeferred
<1>5. CASE ev.n = 0 /\ ev.m = 0 /\ ApplyDelete(b, ev) = b
  <2>1. d = e
    BY <1>1, <1>2, <1>3, <1>5, TakeThinned
  <2>. QED BY <1>5, <2>1
<1>6. CASE ~b.mutated /\ ApplyDelete(b, ev) = Staged([b EXCEPT !.sel = <<ev.a, ev.b>>],
                                                      <<Around(ev.n, ev.m)>>)
  <2>1. <<ev.a, ev.b>> = b.sel
    BY <1>1, <1>3, <1>6, FitParts DEF FitIs
  <2>2. b \in Batches /\ [b EXCEPT !.sel = b.sel] = b
    BY DEF Along, Batches
  <2>3. /\ Around(ev.n, ev.m) \in Inputs
        /\ TakeEvent(g, Around(ev.n, ev.m)) = TakeAround(g, ev.n, ev.m)
    BY <1>2, InputsMade DEF TakeEvent, Around
  <2>4. /\ Fit(TakeEvent(g, Around(ev.n, ev.m)), b.preedit)
        /\ Image(TakeEvent(g, Around(ev.n, ev.m)), b.preedit) = d
    BY <1>1, <1>2, <1>3, <2>3, TakeThinned
  <2>5. ~b.dead /\ b.word = None /\ b.lastSel = None /\ ~b.needs
    BY DEF Along
  <2>6. Along(Staged(b, <<Around(ev.n, ev.m)>>), d)
    BY <1>1, <2>2, <2>3, <2>4, <2>5, AlongStaged
  <2>. QED BY <1>6, <2>1, <2>2, <2>6
<1>7. ~b.mutated /\ b.preedit = <<>> => ~Outranks(b, <<ev.a, ev.b>>)
  BY <1>1, NoneOutranks
<1>. QED BY <1>4, <1>5, <1>6, <1>7 DEF ApplyDelete

\* So does the deletion of a span.
LEMMA AlongK ==
  ASSUME EguiOK, NEW b, NEW e \in Lines, Along(b, e), b.later = <<>>, NEW ev \in Events,
         ev.k = "K", NEW d \in Lines, Types(e, ev, d)
  PROVE  Along(ApplyDelSpan(b, ev), d)
<1>. DEFINE span == <<ev.a, ev.a + ev.n>>
            c == [b EXCEPT !.sel = span]
<1>1. PICK g : /\ Took(FieldOf(b), b.out, g) /\ Fit(g, b.preedit) /\ Image(g, b.preedit) = e
               /\ ~b.mutated => g = FieldOf(b) /\ g.sel = b.sel
  BY AlongParts
<1>2. ev.n \in Nat /\ ev.a \in Nat /\ ev.back \in BOOLEAN /\ <<>> \in Words
  BY EventParts, EmptySeq DEF EventIs, Words
<1>3. Strikes(e, ev.a, ev.n) /\ d = Struck(e, ev.a, ev.n)
  BY DEF Types
<1>4. CASE ApplyDelSpan(b, ev) = Deferred(b, ev)
  BY <1>4, AlongDeferred
<1>5. CASE b.preedit # <<>>
  <2>1. ApplyDelSpan(b, ev) = Staged([b EXCEPT !.preedit = <<>>], <<Mark(<<>>)>>)
    BY <1>5 DEF ApplyDelSpan
  <2>2. Mark(<<>>) \in Inputs /\ TakeEvent(g, Mark(<<>>)) = TakePreedit(g, <<>>)
    BY <1>2, InputsMade DEF TakeEvent, Mark
  <2>3. d = Composed(e, <<>>)
    BY <1>1, <1>2, <1>3, <1>5, EmptiedIs
  <2>4. Fit(TakeEvent(g, Mark(<<>>)), <<>>) /\ Image(TakeEvent(g, Mark(<<>>)), <<>>) = d
    BY <1>1, <1>2, <2>2, <2>3, TakeComposed
  <2>. QED BY <1>1, <1>2, <2>1, <2>2, <2>4, AlongWord
<1>6. CASE b.preedit = <<>> /\ ev.n = 0 /\ ApplyDelSpan(b, ev) = b
  <2>1. d = e
    <3>1. Fit(g, <<>>) /\ Image(g, <<>>) = e /\ Strikes(Image(g, <<>>), ev.a, ev.n)
      BY <1>1, <1>3, <1>6
    <3>2. Struck(Image(g, <<>>), ev.a, ev.n) = Image(g, <<>>)
      BY <1>2, <1>6, <3>1, TakeStruck
    <3>. QED BY <1>3, <3>1, <3>2
  <2>. QED BY <1>6, <2>1
<1>7. CASE /\ b.preedit = <<>> /\ ~b.mutated /\ ev.n # 0
           /\ ApplyDelSpan(b, ev) = Staged(c, <<Press(ev.back)>>)
  <2>. DEFINE s == [g EXCEPT !.sel = span]
  <2>1. /\ InText(s) /\ Fit(TakeKey(s, ev.back), <<>>)
        /\ Image(TakeKey(s, ev.back), <<>>) = d
    <3>1. Fit(g, <<>>) /\ Image(g, <<>>) = e /\ Strikes(Image(g, <<>>), ev.a, ev.n)
      BY <1>1, <1>3, <1>7
    <3>2. /\ InText(s) /\ Fit(TakeKey(s, ev.back), <<>>)
          /\ Image(TakeKey(s, ev.back), <<>>) = Struck(Image(g, <<>>), ev.a, ev.n)
      BY <1>2, <1>7, <3>1, TakeStruck
    <3>. HIDE DEF s
    <3>. QED BY <1>3, <3>1, <3>2
  <2>2. b \in Batches /\ ~b.dead /\ b.word = None /\ b.lastSel = None /\ ~b.needs /\ b.out = <<>>
    BY <1>7 DEF Along
  <2>3. c \in Batches
    <3>1. span \in Spans
      BY <1>2 DEF Spans
    <3>. QED BY <2>2, <3>1, BatchWith DEF Alike
  <2>4. /\ c.sel = span /\ c.out = b.out /\ c.preedit = b.preedit /\ c.later = b.later
        /\ c.dead = b.dead /\ c.word = b.word /\ c.lastSel = b.lastSel /\ c.needs = b.needs
    BY <2>2, AlongWith
  <2>5. FieldOf(c) = s
    <3>1. g = FieldOf(b)
      BY <1>1, <1>7
    <3>2. [[field EXCEPT !.sel = b.sel] EXCEPT !.sel = span] = [field EXCEPT !.sel = span]
      BY DEF EguiOK, Fields
    <3>3. s = [field EXCEPT !.sel = span]
      BY <3>1, <3>2 DEF FieldOf
    <3>4. FieldOf(c) = [field EXCEPT !.sel = span]
      BY <2>4 DEF FieldOf
    <3>. QED BY <3>3, <3>4
  <2>6. Press(ev.back) \in Inputs /\ TakeEvent(s, Press(ev.back)) = TakeKey(s, ev.back)
    BY <1>2, InputsMade DEF TakeEvent, Press
  <2>. HIDE DEF c, s, span
  <2>7. Took(FieldOf(c), c.out, s)
    <3>1. s \in InTexts
      BY <2>1 DEF InText, InTexts
    <3>. QED BY <2>2, <2>4, <2>5, <3>1, LeadsNone DEF Took
  <2>8. Along(Staged(c, <<Press(ev.back)>>), d)
    BY <1>7, <2>1, <2>2, <2>3, <2>4, <2>6, <2>7, AlongStaged
  <2>. QED BY <1>7, <2>8
<1>8. ~b.mutated /\ b.preedit = <<>> => ~Outranks(b, span)
  BY <1>1, NoneOutranks
<1>. QED BY <1>4, <1>5, <1>6, <1>7, <1>8 DEF ApplyDelSpan

\* Each event of typing goes along.
LEMMA AlongOn ==
  ASSUME EguiOK, NEW b, NEW e \in Lines, Along(b, e), NEW ev \in Events, NEW d \in Lines,
         Types(e, ev, d)
  PROVE  Along(ApplyEvent(b, ev), d)
<1>1. b \in Batches /\ ~b.dead /\ b.word = None
  BY DEF Along
<1>2. [b EXCEPT !.word = None] = b
  BY <1>1 DEF Batches
<1>3. ev.k \in {"T", "C", "F", "D", "K"}
  BY DEF Types
<1>4. CASE b.later # <<>>
  <2>1. ApplyEvent(b, ev) = Deferred(b, ev)
    BY <1>1, <1>4 DEF ApplyEvent
  <2>. QED BY <2>1, AlongDeferred
<1>5. CASE b.later = <<>>
  <2>1. /\ ev.k = "T" => ApplyEvent(b, ev) = ApplyCommit(b, ev) /\ d = Committed(e, ev.t)
        /\ ev.k = "C" => ApplyEvent(b, ev) = ApplyPreedit(b, ev) /\ d = Composed(e, ev.t)
        /\ ev.k = "F" => ApplyEvent(b, ev) = ApplyFinish(b) /\ d = Finished(e)
        /\ ev.k = "D" => ApplyEvent(b, ev) = ApplyDelete(b, ev)
        /\ ev.k = "K" => ApplyEvent(b, ev) = ApplyDelSpan(b, ev)
    BY <1>1, <1>2, <1>5 DEF ApplyEvent, Types
  <2>. QED BY <1>3, <1>5, <2>1, AlongT, AlongC, AlongF, AlongD, AlongK
<1>. QED BY <1>4, <1>5


\* Where a batch starts, nothing has come of it yet.
LEMMA AlongStart ==
  ASSUME EguiOK, RustOK, word = None, ~needs, Fit(field, preedit)
  PROVE  Along(BatchStart, Image(field, preedit))
<1>. DEFINE b == BatchStart
            e == Image(field, preedit)
<1>1. /\ b.sel = field.sel /\ b.preedit = preedit /\ b.word = word /\ b.needs = needs
      /\ b.out = <<>> /\ b.later = <<>> /\ b.lastSel = None /\ b.mutated = FALSE /\ b.dead = FALSE
  BY DEF BatchStart
<1>2. b \in Batches
  <2>1. field.sel \in Spans /\ <<>> \in Seq(Inputs) /\ <<>> \in Seq(Events)
    BY EmptySeq DEF EguiOK, Fields
  <2>. QED BY <2>1 DEF BatchStart, Batches, RustOK
<1>. HIDE DEF b
<1>3. FieldOf(b) = field
  BY <1>1 DEF FieldOf, EguiOK, Fields
<1>4. field \in InTexts /\ e \in Lines
  BY FitParts DEF Fit, FitIs, InText, InTexts
<1>5. Took(field, <<>>, field)
  BY <1>4, LeadsNone DEF Took
<1>. HIDE DEF e
<1>6. Ran(e, <<>>, e)
  BY <1>4, LeadsNone DEF Ran
<1>7. Took(FieldOf(b), b.out, field) /\ Fit(field, b.preedit)
      /\ Ran(Image(field, b.preedit), b.later, e)
  BY <1>1, <1>3, <1>5, <1>6 DEF e
<1>8. Along(b, e)
  BY <1>1, <1>2, <1>7 DEF Along
<1>. QED BY <1>8 DEF b, e

\* A whole batch of typing goes along.
LEMMA AlongBatch ==
  ASSUME EguiOK, RustOK, fed # None, word = None, ~needs, Fit(field, preedit),
         NEW events \in Seq(Events), NEW d, Ran(Image(field, preedit), events, d)
  PROVE  Along(ApplyBatch(events), d)
<1>. DEFINE N == Len(events)
<1>1. PICK f : BatchRun(events, f) /\ ApplyBatch(events) = BatchEnd(f[Len(events)])
  BY BatchRuns
<1>2. PICK r \in [0..N -> Lines] :
        /\ r[0] = Image(field, preedit) /\ r[N] = d
        /\ \A n \in 1..N : <<r[n - 1], events[n], r[n]>> \in Typing
  BY DEF Ran, Leads
<1>3. N \in Nat /\ \A n \in 1..N : events[n] \in Events
  BY LenProperties, ElementOfSeq
<1>4. f[0] = BatchStart /\ \A n \in 1..N : f[n] = ApplyEvent(f[n - 1], events[n])
  BY <1>1 DEF BatchRun
<1>. DEFINE T == {n \in 0..N : Along(f[n], r[n])}
<1>. HIDE DEF N
<1>5. 0 \in T
  BY <1>2, <1>3, <1>4, AlongStart
<1>6. ASSUME NEW n \in 0..N, n < N, n \in T PROVE n + 1 \in T
  <2>1. n + 1 \in 1..N /\ n + 1 \in 0..N /\ (n + 1) - 1 = n
    BY <1>3, <1>6
  <2>2. /\ Along(f[n], r[n]) /\ f[n + 1] = ApplyEvent(f[n], events[n + 1])
        /\ events[n + 1] \in Events /\ r[n] \in Lines /\ r[n + 1] \in Lines
    BY <1>2, <1>3, <1>4, <1>6, <2>1
  <2>3. <<r[n], events[n + 1], r[n + 1]>> \in Typing
    BY <1>2, <2>1
  <2>4. Types(r[n], events[n + 1], r[n + 1])
    BY <2>3 DEF Typing
  <2>5. Along(f[n + 1], r[n + 1])
    BY <2>2, <2>4, AlongOn
  <2>. QED BY <2>1, <2>5
<1>. HIDE DEF T
<1>7. N \in T
  <2>1. Climbs(T, N)
    BY <1>5, <1>6 DEF Climbs
  <2>2. \A n \in 0..N : n \in T
    BY <1>3, <2>1, UpToN
  <2>3. N \in 0..N
    BY <1>3
  <2>. QED BY <2>2, <2>3
<1>8. Along(f[N], d)
  BY <1>2, <1>7 DEF T
<1>9. ApplyBatch(events) = f[N]
  BY <1>1, <1>8 DEF BatchEnd, Along, N
<1>. QED BY <1>8, <1>9

-----------------------------------------------------------------------------
(* The field when it is shown.                                             *)

\* Without a tap, a field is shown as it is.
LEMMA NotTapped ==
  ASSUME NEW f, InText(f), tap = None
  PROVE  Tapped(f) = f
<1>1. f \in Fields /\ FieldIs(f) /\ f.sel[2] <= Len(f.text)
  BY FieldParts DEF InText
<1>2. Least(f.sel[1], Len(f.text)) = f.sel[1] /\ Least(f.sel[2], Len(f.text)) = f.sel[2]
  BY <1>1 DEF Least, FieldIs
<1>3. Clamped(f.sel, f.text) = f.sel
  BY <1>1, <1>2 DEF Clamped, FieldIs, Spans
<1>4. Tapped(f) = [f EXCEPT !.sel = f.sel]
  BY <1>3 DEF Tapped
<1>. QED BY <1>1, <1>4 DEF Fields

\* And comes to what it takes.
LEMMA ShownTook ==
  ASSUME FrameOK, NEW f, InText(f), tap = None, NEW g, Took(f, staged, g)
  PROVE  Shown(f) = ShownEnd(f, g) /\ InText(g)
<1>. DEFINE N == Len(staged)
<1>1. f \in Fields /\ Tapped(f) = f
  BY NotTapped DEF InText
<1>2. PICK k : ShownRun(f, k) /\ Shown(f) = ShownEnd(f, k[Len(staged)])
  BY <1>1, ShownRuns
<1>3. PICK r \in [0..N -> InTexts] :
        /\ r[0] = f /\ r[N] = g /\ \A n \in 1..N : <<r[n - 1], staged[n], r[n]>> \in Taking
  BY DEF Took, Leads
<1>4. N \in Nat
  BY LenProperties DEF FrameOK
<1>5. k[0] = f /\ \A n \in 1..N : k[n] = TakeEvent(k[n - 1], staged[n])
  BY <1>1, <1>2 DEF ShownRun
<1>. DEFINE T == {n \in 0..N : k[n] = r[n]}
<1>6. k[N] = g
  <2>. HIDE DEF N
  <2>1. 0 \in T
    BY <1>3, <1>4, <1>5
  <2>2. ASSUME NEW n \in 0..N, n < N, n \in T PROVE n + 1 \in T
    <3>1. n + 1 \in 1..N /\ n + 1 \in 0..N /\ (n + 1) - 1 = n
      BY <1>4, <2>2
    <3>2. k[n + 1] = TakeEvent(r[n], staged[n + 1])
      BY <1>5, <2>2, <3>1
    <3>3. <<r[n], staged[n + 1], r[n + 1]>> \in Taking
      BY <1>3, <3>1
    <3>4. r[n + 1] = TakeEvent(r[n], staged[n + 1])
      BY <3>3 DEF Taking
    <3>. QED BY <3>1, <3>2, <3>4
  <2>. HIDE DEF T
  <2>3. Climbs(T, N)
    BY <2>1, <2>2 DEF Climbs
  <2>4. \A n \in 0..N : n \in T
    BY <1>4, <2>3, UpToN
  <2>5. N \in 0..N
    BY <1>4
  <2>. QED BY <1>3, <2>4, <2>5 DEF T
<1>7. InText(g)
  <2>1. N \in 0..N
    BY <1>4
  <2>. QED BY <1>3, <2>1 DEF InTexts
<1>. QED BY <1>2, <1>6, <1>7

\* Nothing is staged, or what opened the field and changes nothing.
Idle(q, f) == q = <<>> \/ (q = <<Mark(<<>>)>> /\ ~f.comp)

\* A field that is idle stays as it is.
LEMMA IdleTakes ==
  ASSUME NEW q, NEW f, Idle(q, f), InText(f)
  PROVE  Took(f, q, f) /\ \A g : Took(f, q, g) => g = f
<1>1. f \in InTexts
  BY DEF InText, InTexts
<1>2. CASE q = <<>>
  BY <1>1, <1>2, LeadsNone DEF Took
<1>3. CASE q = <<Mark(<<>>)>> /\ ~f.comp
  <2>1. TakeEvent(f, Mark(<<>>)) = f
    BY <1>3 DEF TakeEvent, Mark, TakePreedit
  <2>2. Mark(<<>>) \in Inputs
    BY EmptySeq, InputsMade DEF Words
  <2>3. <<f, Mark(<<>>), f>> \in Taking
    BY <1>1, <2>1, <2>2 DEF Taking
  <2>4. Took(f, q, f)
    BY <1>1, <1>3, <2>3, LeadsOne DEF Took
  <2>5. ASSUME NEW g, Took(f, q, g) PROVE g = f
    <3>1. Len(q) = 1 /\ q[1] = Mark(<<>>)
      BY <1>3
    <3>2. PICK r \in [0..1 -> InTexts] :
            r[0] = f /\ r[1] = g /\ \A n \in 1..1 : <<r[n - 1], q[n], r[n]>> \in Taking
      BY <2>5, <3>1 DEF Took, Leads
    <3>3. <<r[0], q[1], r[1]>> \in Taking
      <4>1. 1 \in 1..1 /\ 1 - 1 = 0
        OBVIOUS
      <4>. QED BY <3>2, <4>1
    <3>4. g = TakeEvent(f, Mark(<<>>))
      BY <3>1, <3>2, <3>3 DEF Taking
    <3>. QED BY <2>1, <3>4
  <2>. QED BY <2>4, <2>5
<1>. QED BY <1>2, <1>3 DEF Idle

-----------------------------------------------------------------------------
(* The invariant, and the UI thread's steps.                               *)

\* Runs start and end where they may.
LEMMA LeadsIn ==
  ASSUME NEW S, NEW R, NEW E, NEW q \in Seq(E), NEW e, NEW d, Leads(S, R, q, e, d)
  PROVE  e \in S /\ d \in S
<1>1. Len(q) \in Nat
  BY LenProperties
<1>2. 0 \in 0..Len(q) /\ Len(q) \in 0..Len(q)
  BY <1>1
<1>. QED BY <1>2 DEF Leads

\* What is on its way: from the field through what is staged, and from its image through what is
\* carried over, queued and still to be queued, to e.
Path(f, st, p, c, q, l, e) ==
  \E g, k, m :
    /\ Took(f, st, g) /\ Fit(g, p)
    /\ Ran(Image(g, p), c, k) /\ Ran(k, q, m) /\ Ran(m, l, e)

\* The end is the EditText, but for a composition that a posted caret is to end.
Clears(p) == \E i \in DOMAIN p : p[i].op = "caret" /\ p[i].clear
Ends(x, p, e) == x = e \/ (Clears(p) /\ e = [x EXCEPT !.span = None])

\* What is posted changes nothing else.
Tells(x, p, e) ==
  \A i \in DOMAIN p :
    /\ p[i].op = "state" => p[i].t = x.text /\ p[i].c = x.caret /\ x.span = None
    /\ p[i].op = "caret" => p[i].c = x.caret /\ (p[i].clear => e.span = None)

\* A session that only the keyboard has touched, and no session yet.
Mirrored ==
  /\ ~force /\ tap = None
  /\ posted # <<>> => late = <<>> /\ queue = <<>>
  /\ phase = "drain" => Idle(staged, field)
  /\ phase = "show" /\ ~applied => carry = <<>>
  /\ \E e : Path(field, staged, preedit, carry, queue, late, e) /\ Ends(edit, posted, e)
            /\ Tells(edit, posted, e)
Untouched ==
  /\ edit = [text |-> <<>>, caret |-> 0, span |-> None]
  /\ field = [text |-> <<>>, sel |-> <<0, 0>>, comp |-> FALSE]
  /\ late = <<>> /\ queue = <<>> /\ posted = <<>> /\ carry = <<>> /\ staged = <<>>
  /\ preedit = <<>> /\ snap = None /\ ~shown /\ ~focused /\ ~force /\ tap \in {None, <<0, 0>>}
Exact == ~dismissed /\ ~needs /\ word = None /\ (hot => Mirrored) /\ (~hot => Untouched)
ExactInv == moves \in Nat /\ (plain /\ moves = 0 => Exact)

\* Nothing posted ends nothing.
LEMMA NoClears == ASSUME NEW x, NEW e, Ends(x, <<>>, e) PROVE x = e
<1>1. ~Clears(<<>>)
  BY EmptySeq, LenProperties DEF Clears
<1>. QED BY <1>1 DEF Ends

\* Nothing posted tells nothing.
LEMMA NoTells == ASSUME NEW x, NEW e PROVE Tells(x, <<>>, e)
BY EmptySeq, LenProperties DEF Tells

\* The keyboard types.
LEMMA TypeExact == ASSUME TypeInv, ExactInv, Type PROVE ExactInv'
<1>0. /\ shown /\ UNCHANGED <<queue, posted, shown, dismissed, hot, carry, preedit>>
      /\ plain' => plain /\ posted = <<>> /\ late = <<>>
      /\ moves' = moves
  BY TypeUp
<1>. SUFFICES ASSUME plain', moves' = 0 PROVE Exact'
  BY <1>0 DEF ExactInv
<1>1. Exact /\ hot /\ posted = <<>> /\ late = <<>> /\ Mirrored
  BY <1>0 DEF ExactInv, Exact, Untouched
<1>2. PICK e : Path(field, staged, preedit, carry, queue, late, e) /\ Ends(edit, posted, e)
  BY <1>1 DEF Mirrored
<1>3. PICK g, k, m : /\ Took(field, staged, g) /\ Fit(g, preedit)
                     /\ Ran(Image(g, preedit), carry, k) /\ Ran(k, queue, m) /\ Ran(m, late, e)
  BY <1>2 DEF Path
<1>4. edit = e
  BY <1>1, <1>2, NoClears
<1>5. m = e /\ e \in Lines
  <2>1. Leads(Lines, Typing, <<>>, m, e)
    BY <1>1, <1>3 DEF Ran
  <2>2. \A x, y : Leads(Lines, Typing, <<>>, x, y) => x = y
    BY LeadsNone
  <2>3. late \in Seq(Events)
    BY DEF TypeInv, JavaOK
  <2>4. e \in Lines
    BY <1>3, <2>3, LeadsIn DEF Ran
  <2>. QED BY <2>1, <2>2, <2>4
<1>6. PICK ev \in Events : \E d : Keystroke(ev, d) /\ Types(edit, ev, d)
  BY <1>4, <1>5, TypeTypes
<1>7. PICK d : Keystroke(ev, d) /\ Types(edit, ev, d)
  BY <1>6
<1>8. late' = <<ev>> /\ edit' = d
  BY <1>7 DEF Keystroke
<1>9. d \in Lines
  <2>1. TypeInv'
    BY TypeType
  <2>2. d \in Edits
    BY <1>8, <2>1 DEF TypeInv, JavaOK
  <2>3. d.span # None => d.caret = d.span[2]
    BY <1>4, <1>5, <1>7, TypesLine
  <2>. QED BY <2>2, <2>3 DEF Lines
<1>10. Ran(m, <<ev>>, d)
  <2>1. <<m, ev, d>> \in Typing
    BY <1>4, <1>5, <1>7, <1>9 DEF Typing
  <2>. QED BY <1>5, <1>9, <2>1, LeadsOne DEF Ran
<1>11. Path(field, staged, preedit, carry, queue, <<ev>>, d)
  BY <1>3, <1>10 DEF Path
<1>12. Ends(d, <<>>, d) /\ Tells(d, <<>>, d)
  BY NoTells DEF Ends
<1>13. UNCHANGED <<field, staged, preedit, carry, queue, posted, tap, phase, applied, force, hot,
                   dismissed, needs, word>>
  BY <1>7 DEF Keystroke, eguiVars, adapterVars, bridgeVars, frameVars
<1>14. Mirrored'
  <2>1. /\ ~force' /\ tap' = None /\ posted' = <<>>
        /\ phase' = "drain" => Idle(staged', field')
        /\ phase' = "show" /\ ~applied' => carry' = <<>>
    BY <1>1, <1>13 DEF Mirrored
  <2>2. /\ Path(field', staged', preedit', carry', queue', late', d)
        /\ Ends(edit', posted', d) /\ Tells(edit', posted', d)
    BY <1>1, <1>8, <1>11, <1>12, <1>13
  <2>. QED BY <2>1, <2>2 DEF Mirrored
<1>. QED BY <1>1, <1>13, <1>14 DEF Exact

\* The call queues what it did.
LEMMA EnqueueExact == ASSUME TypeInv, ExactInv, Enqueue PROVE ExactInv'
<1>0. /\ late # <<>> /\ late' = <<>> /\ queue' = queue \o late
      /\ UNCHANGED <<edit, field, staged, preedit, carry, posted, tap, phase, applied, force, hot,
                     dismissed, needs, word, plain, moves>>
  BY DEF Enqueue, eguiVars, adapterVars, bridgeVars, frameVars, counts
<1>. SUFFICES ASSUME plain, moves = 0 PROVE Exact'
  BY <1>0 DEF ExactInv
<1>1. Exact /\ hot /\ posted = <<>> /\ Mirrored
  BY <1>0 DEF ExactInv, Exact, Untouched, Mirrored
<1>2. PICK e : /\ Path(field, staged, preedit, carry, queue, late, e) /\ Ends(edit, posted, e)
               /\ Tells(edit, posted, e)
  BY <1>1 DEF Mirrored
<1>3. PICK g, k, m : /\ Took(field, staged, g) /\ Fit(g, preedit)
                     /\ Ran(Image(g, preedit), carry, k) /\ Ran(k, queue, m) /\ Ran(m, late, e)
  BY <1>2 DEF Path
<1>4. queue \in Seq(Events) /\ late \in Seq(Events)
  BY DEF TypeInv, JavaOK
<1>5. Ran(k, queue \o late, e)
  BY <1>3, <1>4, LeadsOn DEF Ran
<1>6. Ran(e, <<>>, e)
  <2>1. e \in Lines
    BY <1>3, <1>4, LeadsIn DEF Ran
  <2>. QED BY <2>1, LeadsNone DEF Ran
<1>7. Path(field, staged, preedit, carry, queue \o late, <<>>, e)
  BY <1>3, <1>5, <1>6 DEF Path
<1>8. Mirrored'
  <2>1. /\ ~force' /\ tap' = None /\ posted' = <<>>
        /\ phase' = "drain" => Idle(staged', field')
        /\ phase' = "show" /\ ~applied' => carry' = <<>>
    BY <1>0, <1>1 DEF Mirrored
  <2>2. /\ Path(field', staged', preedit', carry', queue', late', e)
        /\ Ends(edit', posted', e) /\ Tells(edit', posted', e)
    BY <1>0, <1>2, <1>7
  <2>. QED BY <2>1, <2>2 DEF Mirrored
<1>. QED BY <1>0, <1>1, <1>8 DEF Exact

\* What is posted, without its first.
LEMMA TellsTail ==
  ASSUME NEW p \in Seq(Posts), p # <<>>, NEW x, NEW e, Tells(x, p, e)
  PROVE  /\ Head(p) \in Posts /\ Tells(x, Tail(p), e)
         /\ Head(p).op = "state" => Head(p).t = x.text /\ Head(p).c = x.caret /\ x.span = None
         /\ Head(p).op = "caret" => Head(p).c = x.caret /\ (Head(p).clear => e.span = None)
         /\ Clears(p) => Clears(Tail(p)) \/ (Head(p).op = "caret" /\ Head(p).clear)
<1>. DEFINE t == Tail(p)
<1>1. /\ Len(p) \in Nat /\ Len(p) > 0 /\ DOMAIN p = 1..Len(p) /\ Head(p) = p[1]
      /\ t \in Seq(Posts) /\ Len(t) = Len(p) - 1 /\ Head(p) \in Posts
      /\ \A i \in 1..Len(t) : t[i] = p[i + 1]
  BY LenProperties, EmptySeq, HeadTailProperties
<1>2. DOMAIN t = 1..Len(t)
  BY <1>1, LenProperties
<1>. HIDE DEF t
<1>3. /\ \A i \in DOMAIN t : i + 1 \in DOMAIN p /\ t[i] = p[i + 1]
      /\ \A i \in DOMAIN p : i # 1 => i - 1 \in DOMAIN t /\ t[i - 1] = p[i]
  <2>1. ASSUME NEW i \in DOMAIN p, i # 1 PROVE i - 1 \in DOMAIN t /\ t[i - 1] = p[i]
    <3>1. i - 1 \in 1..Len(t) /\ (i - 1) + 1 = i
      BY <1>1, <2>1
    <3>. QED BY <1>1, <1>2, <3>1
  <2>. QED BY <1>1, <1>2, <2>1
<1>4. 1 \in DOMAIN p
  BY <1>1
<1>5. Tells(x, t, e)
  BY <1>3 DEF Tells
<1>6. Clears(p) => Clears(t) \/ (p[1].op = "caret" /\ p[1].clear)
  BY <1>3 DEF Clears
<1>. QED BY <1>1, <1>4, <1>5, <1>6 DEF Tells, t

\* What was posted leaves the EditText as it is, but for a composition it ends.
LEMMA PostedExact ==
  ASSUME TypeInv, posted # <<>>, queue = <<>>, NEW e, Ends(edit, posted, e),
         Tells(edit, posted, e), RunPosted
  PROVE  queue' = <<>> /\ Ends(edit', posted', e) /\ Tells(edit', posted', e)
<1>. DEFINE p == Head(posted)
            q == Tail(posted)
<1>0. /\ edit \in Edits /\ posted \in Seq(Posts) /\ EditIs(edit)
      /\ edit = [text |-> edit.text, caret |-> edit.caret, span |-> edit.span]
  BY EditParts, EditWhole DEF TypeInv, JavaOK
<1>1. /\ p \in Posts /\ Tells(edit, q, e)
      /\ p.op = "state" => p.t = edit.text /\ p.c = edit.caret /\ edit.span = None
      /\ p.op = "caret" => p.c = edit.caret /\ (p.clear => e.span = None)
      /\ Clears(posted) => Clears(q) \/ (p.op = "caret" /\ p.clear)
  BY <1>0, TellsTail
<1>2. posted' = q /\ (\/ p.op = "state" /\ RunState(p)
                      \/ p.op = "caret" /\ RunCaret(p)
                      \/ p.op = "show" /\ RunShow
                      \/ p.op = "hide" /\ RunHide)
  BY DEF RunPosted
<1>. HIDE DEF p, q
<1>3. Least(edit.caret, Len(edit.text)) = edit.caret
  BY <1>0 DEF EditIs, Least
<1>4. CASE edit' = edit /\ queue' = <<>> /\ ~(p.op = "caret" /\ p.clear)
  BY <1>1, <1>2, <1>4 DEF Ends
<1>5. CASE p.op = "state" /\ RunState(p)
  <2>1. queue' = <<>> /\ edit' = [text |-> p.t, caret |-> Least(p.c, Len(p.t)), span |-> None]
    BY <1>5 DEF RunState
  <2>2. edit' = edit
    BY <1>0, <1>1, <1>3, <1>5, <2>1
  <2>. QED BY <1>4, <1>5, <2>1, <2>2
<1>6. CASE p.op = "caret" /\ RunCaret(p)
  <2>1. /\ queue' = <<>>
        /\ edit' = [edit EXCEPT !.caret = Least(p.c, Len(edit.text)),
                                !.span = IF p.clear THEN None ELSE @]
    BY <1>6 DEF RunCaret
  <2>2. CASE ~p.clear
    <3>1. edit' = edit
      BY <1>0, <1>1, <1>3, <1>6, <2>1, <2>2 DEF Edits
    <3>. QED BY <1>4, <1>6, <2>1, <2>2, <3>1
  <2>3. CASE p.clear
    <3>1. edit' = [edit EXCEPT !.span = None]
      BY <1>0, <1>1, <1>3, <1>6, <2>1, <2>3 DEF Edits
    <3>2. e.span = None
      BY <1>1, <1>6, <2>3
    <3>3. edit' = e
      BY <1>0, <3>1, <3>2 DEF Ends, Edits
    <3>4. e.text = edit.text /\ e.caret = edit.caret
      BY <1>0, <3>1, <3>3 DEF Edits
    <3>5. Tells(e, q, e)
      BY <1>1, <3>2, <3>4 DEF Tells
    <3>. QED BY <1>2, <2>1, <3>3, <3>5 DEF Ends
  <2>. QED BY <2>2, <2>3
<1>7. CASE p.op \in {"show", "hide"} /\ (RunShow \/ RunHide)
  BY <1>4, <1>7 DEF RunShow, RunHide
<1>. QED BY <1>2, <1>5, <1>6, <1>7

\* The UI thread runs what was posted to it.
LEMMA RunPostedExact == ASSUME TypeInv, ExactInv, RunPosted PROVE ExactInv'
<1>0. /\ posted # <<>> /\ late = <<>>
      /\ UNCHANGED <<late, field, staged, preedit, carry, tap, phase, applied, force, hot, needs,
                     word, plain, moves>>
  BY DEF RunPosted, eguiVars, adapterVars, bridgeVars, frameVars, counts
<1>. SUFFICES ASSUME plain, moves = 0 PROVE Exact'
  BY <1>0 DEF ExactInv
<1>1. Exact /\ hot /\ queue = <<>> /\ Mirrored
  BY <1>0 DEF ExactInv, Exact, Untouched, Mirrored
<1>2. PICK e : /\ Path(field, staged, preedit, carry, queue, late, e) /\ Ends(edit, posted, e)
               /\ Tells(edit, posted, e)
  BY <1>1 DEF Mirrored
<1>3. queue' = <<>> /\ Ends(edit', posted', e) /\ Tells(edit', posted', e)
  BY <1>0, <1>1, <1>2, PostedExact
<1>4. ~dismissed'
  BY <1>1 DEF Exact, RunPosted, RunState, RunCaret, RunShow, RunHide
<1>5. Mirrored'
  <2>1. /\ ~force' /\ tap' = None /\ late' = <<>> /\ queue' = <<>>
        /\ phase' = "drain" => Idle(staged', field')
        /\ phase' = "show" /\ ~applied' => carry' = <<>>
    BY <1>0, <1>1, <1>3 DEF Mirrored
  <2>2. Path(field', staged', preedit', carry', queue', late', e)
    BY <1>0, <1>1, <1>2, <1>3
  <2>. QED BY <1>3, <2>1, <2>2 DEF Mirrored
<1>. QED BY <1>0, <1>1, <1>4, <1>5 DEF Exact

-----------------------------------------------------------------------------
(* The frame.                                                              *)

\* A batch of typing leaves what it stages on the way, and nothing else.
LEMMA ApplyExact ==
  ASSUME EguiOK, RustOK, fed # None, word = None, ~needs, Fit(field, preedit),
         Idle(staged, field), NEW events \in Seq(Events), NEW d,
         Ran(Image(field, preedit), events, d), Apply(events)
  PROVE  /\ ~needs' /\ word' = None /\ posted' = posted /\ applied'
         /\ \E g : /\ Took(field', staged', g) /\ Fit(g, preedit')
                   /\ Ran(Image(g, preedit'), carry', d)
<1>. DEFINE b == ApplyBatch(events)
<1>1. Along(b, d)
  BY AlongBatch
<1>2. /\ field' = FieldOf(b) /\ preedit' = b.preedit /\ word' = b.word /\ needs' = b.needs
      /\ posted' = IF b.dead THEN Append(posted, Push(Settled, b.sel[2], TRUE)) ELSE posted
      /\ staged' = staged \o b.out /\ carry' = b.later /\ applied' = TRUE
  BY DEF Apply, FieldOf
<1>. HIDE DEF b
<1>3. PICK g : /\ Took(FieldOf(b), b.out, g) /\ Fit(g, b.preedit)
               /\ Ran(Image(g, b.preedit), b.later, d)
  BY <1>1 DEF Along
<1>4. b.out \in Seq(Inputs) /\ staged \in Seq(Inputs)
  <2>1. b.out \in Seq(Inputs)
    BY <1>1, BatchParts DEF Along
  <2>2. staged \in Seq(Inputs)
    <3>1. <<>> \in Words
      BY EmptySeq DEF Words
    <3>2. <<>> \in Seq(Inputs) /\ <<Mark(<<>>)>> \in Seq(Inputs)
      BY <3>1, EmptySeq, InputsMade, OneMore
    <3>. QED BY <3>2 DEF Idle
  <2>. QED BY <2>1, <2>2
<1>5. Took(FieldOf(b), staged, FieldOf(b))
  <2>1. InText(FieldOf(b))
    BY <1>3, <1>4, LeadsIn DEF Took, InTexts
  <2>2. FieldOf(b).comp = field.comp
    BY DEF FieldOf, EguiOK, Fields
  <2>3. Idle(staged, FieldOf(b))
    BY <2>2 DEF Idle
  <2>. QED BY <2>1, <2>3, IdleTakes
<1>6. Took(field', staged', g)
  BY <1>2, <1>3, <1>4, <1>5, LeadsOn DEF Took
<1>. QED BY <1>1, <1>2, <1>3, <1>6 DEF Along

\* Draining the queue takes what is on its way on.
LEMMA DrainExact == ASSUME TypeInv, ExactInv, Drain PROVE ExactInv'
<1>0. /\ phase = "drain" /\ phase' = "show" /\ Tap
      /\ UNCHANGED <<edit, late, shown, fed, snap, plain>>
      /\ Teardown \/ DrainQueue \/ Cold
  BY DEF Drain
<1>1. moves' \in Nat /\ (moves' = 0 => moves = 0 /\ ~Move)
  BY <1>0 DEF ExactInv, Tap, Move
<1>. SUFFICES ASSUME plain, moves' = 0 PROVE Exact'
  BY <1>0, <1>1 DEF ExactInv
<1>2. Exact /\ ~Move
  BY <1>1 DEF ExactInv
<1>3. CASE ~hot
  <2>1. Untouched /\ ~dismissed /\ ~needs /\ word = None
    BY <1>2, <1>3 DEF Exact
  <2>2. Cold
    BY <1>0, <1>3 DEF Teardown, DrainQueue
  <2>3. tap' \in {None, <<0, 0>>}
    <3>1. ~focused /\ field.text = <<>> /\ Len(<<>>) = 0
      BY <2>1, EmptySeq DEF Untouched
    <3>2. tap' = None \/ \E c \in 0..0 : tap' = <<c, c>>
      BY <1>0, <3>1 DEF Tap
    <3>. QED BY <3>2
  <2>4. Untouched'
    BY <1>0, <2>1, <2>2, <2>3 DEF Untouched, Cold, adapterVars, bridgeVars
  <2>. QED BY <1>3, <2>1, <2>2, <2>4 DEF Exact, Cold, adapterVars, bridgeVars
<1>4. CASE hot
  <2>1. Mirrored /\ ~dismissed /\ ~needs /\ word = None /\ focused /\ fed # None
    BY <1>2, <1>4 DEF Exact, TypeInv, FrameOK
  <2>2. DrainQueue /\ tap' = None
    BY <1>0, <1>2, <1>4, <2>1 DEF Teardown, Cold, Tap
  <2>. DEFINE events == carry \o queue
  <2>3. /\ queue' = <<>> /\ UNCHANGED <<dismissed, focused, hot, force>>
        /\ \/ /\ events = <<>> /\ applied' = FALSE
              /\ UNCHANGED <<posted, field, preedit, carry, word, needs, staged>>
           \/ Apply(events)
    BY <2>2 DEF DrainQueue, adapterVars, bridgeVars
  <2>4. PICK e : /\ Path(field, staged, preedit, carry, queue, late, e) /\ Ends(edit, posted, e)
                 /\ Tells(edit, posted, e)
    BY <2>1 DEF Mirrored
  <2>5. PICK g, k, m : /\ Took(field, staged, g) /\ Fit(g, preedit)
                       /\ Ran(Image(g, preedit), carry, k) /\ Ran(k, queue, m) /\ Ran(m, late, e)
    BY <2>4 DEF Path
  <2>6. carry \in Seq(Events) /\ queue \in Seq(Events) /\ events \in Seq(Events)
        /\ staged \in Seq(Inputs)
    <3>1. carry \in Seq(Events) /\ queue \in Seq(Events) /\ staged \in Seq(Inputs)
      BY DEF TypeInv, JavaOK, RustOK, FrameOK
    <3>. QED BY <3>1, ConcatProperties
  <2>7. Idle(staged, field) /\ ~force
    BY <1>0, <2>1 DEF Mirrored
  <2>8. g = field
    <3>1. InText(field)
      BY <2>5, <2>6, LeadsIn DEF Took, InTexts
    <3>. QED BY <2>5, <2>7, <3>1, IdleTakes
  <2>9. Ran(Image(field, preedit), events, m) /\ Ran(m, <<>>, m)
    <3>1. Ran(Image(field, preedit), events, m)
      BY <2>5, <2>6, <2>8, LeadsOn DEF Ran
    <3>2. m \in Lines
      BY <2>5, <2>6, LeadsIn DEF Ran
    <3>. QED BY <3>1, <3>2, LeadsNone DEF Ran
  <2>10. /\ ~needs' /\ word' = None /\ posted' = posted /\ (~applied' => carry' = <<>>)
         /\ Path(field', staged', preedit', carry', <<>>, late, e)
    <3>1. CASE /\ events = <<>> /\ applied' = FALSE
               /\ UNCHANGED <<posted, field, preedit, carry, word, needs, staged>>
      <4>1. carry = <<>>
        <5>1. Len(events) = Len(carry) + Len(queue) /\ Len(carry) \in Nat /\ Len(queue) \in Nat
          BY <2>6, ConcatProperties, LenProperties
        <5>. QED BY <2>6, <3>1, <5>1, EmptySeq
      <4>2. Ran(Image(field, preedit), <<>>, m)
        BY <2>9, <3>1
      <4>3. Path(field, staged, preedit, <<>>, <<>>, late, e)
        BY <2>5, <2>8, <2>9, <4>2 DEF Path
      <4>. QED BY <2>1, <3>1, <4>1, <4>3
    <3>2. CASE Apply(events)
      <4>. HIDE DEF events
      <4>1. /\ ~needs' /\ word' = None /\ posted' = posted /\ applied'
            /\ \E h : /\ Took(field', staged', h) /\ Fit(h, preedit')
                      /\ Ran(Image(h, preedit'), carry', m)
        BY <2>1, <2>5, <2>6, <2>7, <2>8, <2>9, <3>2, ApplyExact DEF TypeInv
      <4>2. Path(field', staged', preedit', carry', <<>>, late, e)
        BY <2>5, <2>9, <4>1 DEF Path
      <4>. QED BY <4>1, <4>2
    <3>. QED BY <2>3, <3>1, <3>2
  <2>11. posted # <<>> => late = <<>>
    BY <2>1 DEF Mirrored
  <2>. HIDE DEF events
  <2>12. Mirrored'
    <3>1. /\ ~force' /\ tap' = None /\ (posted' # <<>> => late' = <<>> /\ queue' = <<>>)
          /\ phase' # "drain" /\ (~applied' => carry' = <<>>)
      BY <1>0, <2>2, <2>3, <2>7, <2>10, <2>11
    <3>2. /\ Path(field', staged', preedit', carry', queue', late', e)
          /\ Ends(edit', posted', e) /\ Tells(edit', posted', e)
      BY <1>0, <2>3, <2>4, <2>10
    <3>. QED BY <3>1, <3>2 DEF Mirrored
  <2>. QED BY <1>4, <2>1, <2>3, <2>10, <2>12 DEF Exact
<1>. QED BY <1>3, <1>4

\* A session as a frame leaves it, but for what it carries over and posts.
Left(r, c, p) ==
  /\ r \in Bridges /\ r.hot /\ ~r.force /\ ~r.needs /\ r.word = None
  /\ r.preedit = preedit /\ r.queue = queue /\ r.carry = c /\ r.post = p

\* A frame may post where the caret is, or end the composition there and then.
LeftAt(r, c) ==
  \/ Left(r, <<>>, <<>>) \/ Left(r, <<>>, <<PushCaret(c, FALSE)>>)
  \/ Left(r, <<Finish>>, <<PushCaret(c, TRUE)>>)

\* Bringing the caret up to date does.
LEMMA CaretLeaves ==
  ASSUME NEW r, Left(r, <<>>, <<>>), NEW u, Leaves(u)
  PROVE  LeftAt(CaretSynced(r, u), u.field.sel[2])
<1>. DEFINE c == u.field.sel[2]
            moved(clear) == [r EXCEPT !.sync.caret = c, !.post = Append(@, PushCaret(c, clear))]
            done == [moved(TRUE) EXCEPT !.carry = Append(@, Finish)]
<1>1. c \in Nat /\ r \in Bridges /\ r.sync \in {None} \cup Syncs
  BY SeedTextIs, BridgeParts DEF Left
<1>2. CASE r.sync = None
  BY <1>2 DEF CaretSynced, LeftAt
<1>3. CASE r.sync # None
  <2>1. CaretSynced(r, u) \in {r, moved(FALSE), done}
    BY <1>3 DEF CaretSynced
  <2>. HIDE DEF c
  <2>. DEFINE z == [r.sync EXCEPT !.caret = c]
  <2>2. z \in Syncs
    BY <1>1, <1>3 DEF Syncs
  <2>3. ASSUME NEW clear \in BOOLEAN
        PROVE  Left(moved(clear), <<>>, <<PushCaret(c, clear)>>)
    <3>. DEFINE x == PushCaret(c, clear)
    <3>1. x \in Posts
      BY <1>1, PostsMade
    <3>. HIDE DEF x
    <3>2. <<x>> \in Seq(Posts) /\ Append(<<>>, x) = <<x>>
      BY <3>1, EmptySeq, OneMore, AppendIsConcat
    <3>3. moved(clear) = [r EXCEPT !.sync = z, !.post = <<x>>]
      BY <1>1, <3>2 DEF Bridges, Left, x
    <3>. HIDE DEF z, moved
    <3>4. Left([r EXCEPT !.sync = z, !.post = <<x>>], <<>>, <<x>>)
      BY <1>1, <2>2, <3>2 DEF Left, Bridges
    <3>. QED BY <3>3, <3>4 DEF x
  <2>. HIDE DEF moved, z
  <2>4. Left(done, <<Finish>>, <<PushCaret(c, TRUE)>>)
    <3>. DEFINE m == moved(TRUE)
    <3>1. Left(m, <<>>, <<PushCaret(c, TRUE)>>)
      BY <2>3
    <3>. HIDE DEF m
    <3>2. <<Finish>> \in Seq(Events) /\ Append(<<>>, Finish) = <<Finish>>
      BY EventsMade, EmptySeq, OneMore, AppendIsConcat
    <3>3. [m EXCEPT !.carry = Append(@, Finish)] = [m EXCEPT !.carry = <<Finish>>]
      BY <3>1, <3>2 DEF Left
    <3>4. Left([m EXCEPT !.carry = <<Finish>>], <<Finish>>, <<PushCaret(c, TRUE)>>)
      BY <3>1, <3>2 DEF Left, Bridges
    <3>. QED BY <3>3, <3>4 DEF m
  <2>. HIDE DEF done
  <2>5. Left(moved(FALSE), <<>>, <<PushCaret(c, FALSE)>>)
    BY <2>3
  <2>6. LeftAt(CaretSynced(r, u), c)
    BY <2>1, <2>4, <2>5 DEF LeftAt
  <2>. QED BY <2>6 DEF c
<1>. QED BY <1>2, <1>3

\* A frame may post what a running call of the keyboard crosses.
Crosses(r) == r.post # <<>> /\ late # <<>>

\* A settled text is not pushed to an EditText that has it: only where a call has run ahead.
LEMMA AlignedLeaves ==
  ASSUME NEW r, Left(r, <<>>, <<>>), NEW u, Leaves(u),
         queue = <<>> /\ late = <<>> => u.fed.text = edit.text
  PROVE  LeftAt(Aligned(r, u), u.field.sel[2]) \/ Crosses(Aligned(r, u))
<1>. DEFINE t == u.snap.text
            c == u.field.sel[2]
            z == [r.sync EXCEPT !.text = t]
            s == [r EXCEPT !.sync = z]
<1>1. t \in Words /\ r \in Bridges /\ r.sync \in {None} \cup Syncs
  BY SeedTextIs, BridgeParts DEF Left
<1>2. \/ r.sync # None /\ Aligned(r, u) = CaretSynced([r EXCEPT !.sync.text = t], u)
      \/ Aligned(r, u) = CaretSynced(r, u)
      \/ /\ u.fed = u.snap /\ r.queue = <<>> /\ edit.text # t
         /\ Aligned(r, u) = [r EXCEPT !.sync = [text |-> t, caret |-> c],
                                      !.post = Append(@, Push(t, c, TRUE))]
  BY DEF Aligned
<1>3. CASE r.sync # None /\ Aligned(r, u) = CaretSynced([r EXCEPT !.sync.text = t], u)
  <2>. HIDE DEF t
  <2>1. z \in Syncs
    BY <1>1, <1>3 DEF Syncs
  <2>2. [r EXCEPT !.sync.text = t] = s
    BY <1>1 DEF Bridges
  <2>. HIDE DEF z
  <2>3. Left(s, <<>>, <<>>)
    BY <2>1 DEF Left, Bridges
  <2>. HIDE DEF s
  <2>. QED BY <1>3, <2>2, <2>3, CaretLeaves
<1>4. CASE /\ u.fed = u.snap /\ r.queue = <<>> /\ edit.text # t
           /\ Aligned(r, u) = [r EXCEPT !.sync = [text |-> t, caret |-> c],
                                        !.post = Append(@, Push(t, c, TRUE))]
  <2>1. late # <<>>
    BY <1>4 DEF Left
  <2>2. Aligned(r, u).post = Append(<<>>, Push(t, c, TRUE))
    BY <1>1, <1>4 DEF Left, Bridges
  <2>3. Push(t, c, TRUE) \in Posts /\ <<>> \in Seq(Posts)
    BY <1>1, SeedTextIs, PostsMade, EmptySeq
  <2>. DEFINE x == Push(t, c, TRUE)
  <2>. HIDE DEF x
  <2>4. Len(Append(<<>>, x)) = 1 /\ Len(<<>>) = 0
    <3>1. Len(Append(<<>>, x)) = Len(<<>>) + 1 /\ Len(<<>>) = 0
      BY <2>3, AppendProperties, EmptySeq DEF x
    <3>. QED BY <3>1
  <2>5. Append(<<>>, x) # <<>>
    BY <2>4
  <2>. QED BY <2>1, <2>2, <2>5 DEF Crosses, x
<1>. QED BY <1>2, <1>3, <1>4, CaretLeaves

\* A frame of a session that nothing was changed in.
LEMMA SyncedLeaves ==
  ASSUME JavaOK, RustOK, hot, ~force, ~needs, word = None, NEW u, Leaves(u),
         ~applied => carry = <<>>,
         ~applied /\ queue = <<>> /\ late = <<>> => u.fed.text = edit.text
  PROVE  LET r == Synced(Opened(Found(FALSE), TRUE), u, TRUE)
         IN  IF applied THEN Left(r, carry, <<>>)
             ELSE LeftAt(r, u.field.sel[2]) \/ Crosses(r)
<1>. DEFINE o == Found(FALSE)
            f == o.seedRestart \/ o.restart
            l == [o EXCEPT !.seedRestart = f, !.restart = FALSE, !.needs = FALSE]
<1>1. o = [preedit |-> preedit, carry |-> carry, word |-> word, sync |-> sync,
           needs |-> needs \/ FALSE, restart |-> restart \/ FALSE, queue |-> queue, post |-> <<>>,
           hot |-> hot, force |-> force, seedRestart |-> seedRestart]
  BY DEF Found
<1>2. o \in Bridges
  BY FoundIs
<1>. HIDE DEF o
<1>3. Opened(o, TRUE) = o
  BY <1>1 DEF Opened
<1>4. f \in BOOLEAN /\ ~o.force /\ ~o.needs /\ o.hot
  BY <1>1, <1>2, BridgeParts DEF RustOK
<1>5. [o EXCEPT !.seedRestart = @ \/ o.restart, !.restart = FALSE, !.needs = o.force /\ @] = l
  BY <1>2, <1>4 DEF Bridges
<1>6. Synced(o, u, TRUE) = IF applied THEN l ELSE Aligned(l, u)
  BY <1>4, <1>5 DEF Synced
<1>. HIDE DEF f
<1>7. Left(l, carry, <<>>)
  <2>1. /\ o.word = None /\ o.preedit = preedit /\ o.queue = queue /\ o.carry = carry
        /\ o.post = <<>>
    BY <1>1
  <2>2. Left(o, carry, <<>>)
    BY <1>2, <1>4, <2>1 DEF Left
  <2>3. /\ l \in Bridges /\ l.hot = o.hot /\ l.force = o.force /\ l.needs = FALSE
        /\ l.word = o.word /\ l.preedit = o.preedit /\ l.queue = o.queue /\ l.carry = o.carry
        /\ l.post = o.post
    BY <1>2, <1>4 DEF Bridges
  <2>. HIDE DEF l
  <2>. QED BY <2>2, <2>3 DEF Left
<1>. HIDE DEF l
<1>8. ~applied => LeftAt(Aligned(l, u), u.field.sel[2]) \/ Crosses(Aligned(l, u))
  BY <1>7, AlignedLeaves
<1>. QED BY <1>3, <1>6, <1>7, <1>8 DEF o

\* What was posted to the EditText and a caret more.
LEMMA TellsMore ==
  ASSUME NEW p \in Seq(Posts), NEW x, NEW e, Tells(x, p, e), NEW q \in Posts, q.op = "caret",
         q.c = x.caret, q.clear => e.span = None
  PROVE  /\ Tells(x, p \o <<q>>, e)
         /\ Clears(p) \/ q.clear => Clears(p \o <<q>>)
<1>. DEFINE y == p \o <<q>>
<1>1. /\ y = Append(p, q) /\ Len(p) \in Nat /\ DOMAIN p = 1..Len(p) /\ y \in Seq(Posts)
      /\ Len(y) = Len(p) + 1 /\ \A i \in 1..Len(p) : y[i] = p[i]
      /\ y[Len(p) + 1] = q
  BY AppendIsConcat, AppendProperties, LenProperties
<1>2. DOMAIN y = 1..Len(y)
  BY <1>1, LenProperties
<1>. HIDE DEF y
<1>3. /\ \A i \in DOMAIN p : i \in DOMAIN y /\ y[i] = p[i]
      /\ \A i \in DOMAIN y : i \notin DOMAIN p => i = Len(p) + 1
      /\ Len(p) + 1 \in DOMAIN y
  BY <1>1, <1>2
<1>4. Tells(x, y, e)
  <2>1. ASSUME NEW i \in DOMAIN y
        PROVE  /\ y[i].op = "state" => y[i].t = x.text /\ y[i].c = x.caret /\ x.span = None
               /\ y[i].op = "caret" => y[i].c = x.caret /\ (y[i].clear => e.span = None)
    <3>1. CASE i \in DOMAIN p
      BY <1>3, <3>1 DEF Tells
    <3>2. CASE i \notin DOMAIN p
      <4>1. y[i] = q
        BY <1>1, <1>3, <3>2
      <4>. QED BY <4>1
    <3>. QED BY <3>1, <3>2
  <2>. QED BY <2>1 DEF Tells
<1>5. Clears(p) \/ q.clear => Clears(y)
  BY <1>1, <1>3 DEF Clears
<1>. QED BY <1>4, <1>5 DEF y

\* What a frame posts to a mirrored session tells it what it holds.
LEMMA PostsExact ==
  ASSUME JavaOK, NEW g, Fit(g, preedit), NEW e, Ends(edit, posted, e), Tells(edit, posted, e),
         e = Image(g, preedit), NEW clear \in BOOLEAN, NEW p, p = PushCaret(g.sel[2], clear)
  PROVE  LET d == IF clear THEN Finished(e) ELSE e
         IN  /\ Ends(edit, posted \o <<p>>, d) /\ Tells(edit, posted \o <<p>>, d)
             /\ Ran(e, IF clear THEN <<Finish>> ELSE <<>>, d)
<1>. DEFINE d == IF clear THEN Finished(e) ELSE e
            c == g.sel[2]
<1>1. /\ e \in Lines /\ e \in Edits /\ c \in Nat /\ e.caret = c /\ edit \in Edits
      /\ posted \in Seq(Posts)
  BY FitParts DEF FitIs, Image, Lines, JavaOK
<1>2. /\ edit = [text |-> edit.text, caret |-> edit.caret, span |-> edit.span]
      /\ [edit EXCEPT !.span = None] = [text |-> edit.text, caret |-> edit.caret, span |-> None]
  BY <1>1, EditWhole, EditWith
<1>3. edit.caret = c /\ edit.text = e.text
  BY <1>1, <1>2 DEF Ends
<1>4. p \in Posts /\ p.op = "caret" /\ p.c = edit.caret /\ p.clear = clear
  BY <1>1, <1>3, PostsMade DEF PushCaret
<1>5. d.span = None \/ ~clear
  BY DEF Finished
<1>6. Tells(edit, posted, d)
  BY <1>5 DEF Tells
<1>7. Tells(edit, posted \o <<p>>, d) /\ (Clears(posted) \/ clear => Clears(posted \o <<p>>))
  <2>. HIDE DEF d
  <2>. QED BY <1>1, <1>4, <1>5, <1>6, TellsMore
<1>8. Ends(edit, posted \o <<p>>, d)
  <2>1. CASE ~clear
    BY <1>7, <2>1 DEF Ends
  <2>2. CASE clear
    <3>1. d = [text |-> e.text, caret |-> e.caret, span |-> None]
      BY <2>2 DEF Finished
    <3>2. d = [edit EXCEPT !.span = None]
      BY <1>1, <1>2, <1>3, <3>1
    <3>. QED BY <1>7, <2>2, <3>2 DEF Ends
  <2>. QED BY <2>1, <2>2
<1>9. Ran(e, IF clear THEN <<Finish>> ELSE <<>>, d)
  <2>1. CASE ~clear
    BY <1>1, <2>1, LeadsNone DEF Ran
  <2>2. CASE clear
    <3>1. Finished(e) \in Lines
      <4>1. Finished(e) \in Edits
        BY <1>1, EditParts, EditMade DEF Finished, EditIs
      <4>. QED BY <4>1 DEF Finished, Lines
    <3>2. Finish \in Events /\ Finish.k = "F"
      BY EventsMade DEF Finish
    <3>3. <<e, Finish, Finished(e)>> \in Typing
      BY <1>1, <3>1, <3>2 DEF Typing, Types
    <3>4. Ran(e, <<Finish>>, Finished(e))
      BY <1>1, <3>1, <3>3, LeadsOne DEF Ran
    <3>. QED BY <2>2, <3>4
  <2>. QED BY <2>1, <2>2
<1>. QED BY <1>7, <1>8, <1>9

\* A frame of a mirrored session.
LEMMA ShowHot ==
  ASSUME TypeInv, hot, Mirrored, ~needs, word = None, Show(None, None, FALSE), plain'
  PROVE  hot' /\ Mirrored' /\ ~needs' /\ word' = None
<1>. DEFINE v == Shown(field)
            r == Synced(Opened(Found(FALSE), TRUE), v, TRUE)
<1>1. focused /\ ~force /\ tap = None /\ (posted # <<>> => late = <<>> /\ queue = <<>>)
  BY DEF Mirrored, TypeInv, FrameOK
<1>2. /\ phase = "show" /\ phase' = "drain" /\ field' = v.field /\ tap' = None /\ staged' = <<>>
      /\ preedit' = r.preedit /\ carry' = r.carry /\ word' = r.word /\ needs' = r.needs
      /\ queue' = r.queue /\ posted' = posted \o r.post /\ hot' = r.hot /\ force' = r.force
      /\ (r.post # <<>> => late = <<>> /\ queue = <<>>)
      /\ UNCHANGED <<edit, late>>
  BY <1>1 DEF Show, Written
<1>3. PICK e : /\ Path(field, staged, preedit, carry, queue, late, e) /\ Ends(edit, posted, e)
               /\ Tells(edit, posted, e)
  BY DEF Mirrored
<1>4. PICK g, k, m : /\ Took(field, staged, g) /\ Fit(g, preedit)
                     /\ Ran(Image(g, preedit), carry, k) /\ Ran(k, queue, m) /\ Ran(m, late, e)
  BY <1>3 DEF Path
<1>5. v = ShownEnd(field, g) /\ InText(g) /\ InText(field) /\ Leaves(v)
  <2>1. staged \in Seq(Inputs) /\ field \in Fields
    BY DEF TypeInv, FrameOK, EguiOK
  <2>2. InText(field)
    BY <1>4, <2>1, LeadsIn DEF Took, InTexts
  <2>. HIDE DEF v
  <2>. QED BY <1>1, <1>4, <2>1, <2>2, ShownTook, ShownIs DEF TypeInv, v
<1>6. v.field = g /\ v.fed.text = g.text
  BY <1>5 DEF ShownEnd, Fed
<1>. HIDE DEF v
<1>7. posted \in Seq(Posts) /\ posted \o <<>> = posted
  BY ConcatEmptySeq DEF TypeInv, JavaOK
<1>8. Idle(<<>>, g) /\ Took(g, <<>>, g)
  BY <1>5, IdleTakes DEF Idle
<1>9. ASSUME ~applied PROVE carry = <<>> /\ k = Image(g, preedit)
  <2>1. carry = <<>>
    BY <1>2, <1>9 DEF Mirrored
  <2>2. Leads(Lines, Typing, <<>>, Image(g, preedit), k)
    BY <1>4, <2>1 DEF Ran
  <2>3. \A x, y : Leads(Lines, Typing, <<>>, x, y) => x = y
    BY LeadsNone
  <2>. QED BY <2>1, <2>2, <2>3
<1>10. ASSUME ~applied, late = <<>>, queue = <<>>
       PROVE  e = Image(g, preedit) /\ v.fed.text = edit.text
  <2>1. Leads(Lines, Typing, <<>>, k, m) /\ Leads(Lines, Typing, <<>>, m, e)
    BY <1>4, <1>10 DEF Ran
  <2>2. \A x, y : Leads(Lines, Typing, <<>>, x, y) => x = y
    BY LeadsNone
  <2>3. e = Image(g, preedit)
    BY <1>9, <1>10, <2>1, <2>2
  <2>4. e.text = g.text
    BY <2>3 DEF Image
  <2>5. e.text = edit.text
    BY <1>3, EditWith DEF Ends, TypeInv, JavaOK
  <2>. QED BY <1>6, <2>3, <2>4, <2>5
<1>11. /\ applied => Left(r, carry, <<>>)
       /\ ~applied => LeftAt(r, g.sel[2])
  <2>1. IF applied THEN Left(r, carry, <<>>) ELSE LeftAt(r, g.sel[2]) \/ Crosses(r)
    BY <1>1, <1>5, <1>6, <1>9, <1>10, SyncedLeaves DEF TypeInv
  <2>2. ~Crosses(r)
    BY <1>2 DEF Crosses
  <2>. QED BY <2>1, <2>2
<1>. HIDE DEF r
<1>12. CASE Left(r, carry, <<>>)
  <2>1. /\ preedit' = preedit /\ carry' = carry /\ word' = None /\ ~needs' /\ queue' = queue
        /\ posted' = posted /\ hot' /\ ~force' /\ field' = g
    BY <1>2, <1>6, <1>7, <1>12 DEF Left
  <2>2. Path(field', staged', preedit', carry', queue', late', e)
    <3>1. Path(g, <<>>, preedit, carry, queue, late, e)
      BY <1>4, <1>8 DEF Path
    <3>. QED BY <1>2, <2>1, <3>1
  <2>3. Ends(edit', posted', e) /\ Tells(edit', posted', e)
    BY <1>2, <1>3, <2>1
  <2>4. Mirrored'
    BY <1>1, <1>2, <1>8, <2>1, <2>2, <2>3 DEF Mirrored
  <2>. QED BY <2>1, <2>4
<1>13. ASSUME NEW clear \in BOOLEAN, ~applied,
              Left(r, IF clear THEN <<Finish>> ELSE <<>>, <<PushCaret(g.sel[2], clear)>>)
       PROVE  hot' /\ Mirrored' /\ ~needs' /\ word' = None
  <2>. DEFINE p == PushCaret(g.sel[2], clear)
              d == IF clear THEN Finished(e) ELSE e
              c == IF clear THEN <<Finish>> ELSE <<>>
  <2>1. <<p>> # <<>>
    OBVIOUS
  <2>2. late = <<>> /\ queue = <<>>
    BY <1>2, <1>13, <2>1 DEF Left
  <2>3. e = Image(g, preedit)
    BY <1>10, <1>13, <2>2
  <2>4. Ends(edit, posted \o <<p>>, d) /\ Tells(edit, posted \o <<p>>, d) /\ Ran(e, c, d)
    BY <1>3, <1>4, <2>3, PostsExact DEF TypeInv
  <2>5. Ran(d, <<>>, d)
    <3>1. c \in Seq(Events)
      BY EventsMade, EmptySeq, OneMore
    <3>. HIDE DEF c, d
    <3>2. d \in Lines
      BY <2>4, <3>1, LeadsIn DEF Ran
    <3>. QED BY <3>2, LeadsNone DEF Ran
  <2>6. /\ preedit' = preedit /\ carry' = c /\ word' = None /\ ~needs' /\ queue' = <<>>
        /\ posted' = posted \o <<p>> /\ hot' /\ ~force' /\ field' = g
    BY <1>2, <1>6, <1>13, <2>2 DEF Left
  <2>. HIDE DEF p, d, c
  <2>7. Path(g, <<>>, preedit, c, <<>>, <<>>, d)
    BY <1>4, <1>8, <2>3, <2>4, <2>5 DEF Path
  <2>8. /\ Path(field', staged', preedit', carry', queue', late', d)
        /\ Ends(edit', posted', d) /\ Tells(edit', posted', d)
    BY <1>2, <2>2, <2>4, <2>6, <2>7
  <2>9. Mirrored'
    BY <1>2, <1>8, <2>2, <2>6, <2>8 DEF Mirrored
  <2>. QED BY <2>6, <2>9
<1>14. CASE ~applied
  <2>1. \/ Left(r, carry, <<>>)
        \/ Left(r, <<>>, <<PushCaret(g.sel[2], FALSE)>>)
        \/ Left(r, <<Finish>>, <<PushCaret(g.sel[2], TRUE)>>)
    BY <1>9, <1>11, <1>14 DEF LeftAt
  <2>. QED BY <1>12, <1>13, <1>14, <2>1
<1>. QED BY <1>11, <1>12, <1>14

\* A frame in which no session is open yet, or one opens.
LEMMA ShowCold ==
  ASSUME TypeInv, ~hot, Untouched, ~needs, word = None, Show(None, None, FALSE)
  PROVE  /\ ~needs' /\ word' = None
         /\ IF tap = None THEN ~hot' /\ Untouched' ELSE hot' /\ Mirrored'
<1>. DEFINE f == [text |-> <<>>, sel |-> <<0, 0>>, comp |-> FALSE]
            e == [text |-> <<>>, caret |-> 0, span |-> None]
<1>1. /\ field = f /\ edit = e
      /\ late = <<>> /\ queue = <<>> /\ posted = <<>> /\ carry = <<>> /\ staged = <<>>
      /\ preedit = <<>> /\ snap = None /\ ~shown /\ ~focused /\ ~force
      /\ tap \in {None, <<0, 0>>}
  BY DEF Untouched
<1>2. CASE tap = None
  <2>. DEFINE r == Synced(Opened(Found(FALSE), FALSE), Unfocused(field), FALSE)
  <2>1. /\ field' = field /\ snap' = snap /\ focused' = FALSE /\ tap' = None /\ staged' = <<>>
        /\ preedit' = r.preedit /\ carry' = r.carry /\ word' = r.word /\ needs' = r.needs
        /\ queue' = r.queue /\ posted' = posted \o r.post /\ hot' = r.hot /\ force' = r.force
        /\ UNCHANGED <<edit, late, shown>>
    BY <1>1, <1>2 DEF Show, Written, Unfocused
  <2>2. /\ r.preedit = preedit /\ r.carry = carry /\ r.word = word /\ r.needs = FALSE
        /\ r.queue = queue /\ r.post = <<>> /\ r.hot = hot /\ r.force = force
    BY <1>1 DEF Synced, Opened, Found
  <2>. HIDE DEF r
  <2>3. ~hot' /\ Untouched' /\ ~needs' /\ word' = None
    BY <1>1, <2>1, <2>2 DEF Untouched
  <2>. QED BY <1>2, <2>3
<1>3. CASE tap # None
  <2>. DEFINE v == Shown(field)
              w == Refocused(v)
              o == Opened(Found(FALSE), TRUE)
              r == Synced(o, w, TRUE)
  <2>1. /\ phase' = "drain" /\ field' = w.field /\ tap' = None /\ staged' = <<Mark(<<>>)>>
        /\ preedit' = r.preedit /\ carry' = r.carry /\ word' = r.word /\ needs' = r.needs
        /\ queue' = r.queue /\ posted' = posted \o r.post /\ hot' = r.hot /\ force' = r.force
        /\ UNCHANGED <<edit, late>>
    BY <1>1, <1>3 DEF Show, Written
  <2>2. tap = <<0, 0>> /\ Len(<<>>) = 0 /\ Least(0, 0) = 0
    BY <1>1, <1>3, EmptySeq DEF Least
  <2>3. Tapped(field) = field
    <3>1. Clamped(<<0, 0>>, <<>>) = <<0, 0>>
      BY <2>2 DEF Clamped
    <3>. QED BY <1>1, <2>2, <3>1 DEF Tapped
  <2>4. v = ShownEnd(field, field)
    <3>1. PICK k : ShownRun(field, k) /\ Shown(field) = ShownEnd(field, k[Len(staged)])
      BY ShownRuns DEF TypeInv, EguiOK
    <3>2. k[0] = field /\ Len(staged) = 0
      BY <1>1, <2>2, <2>3, <3>1 DEF ShownRun
    <3>. QED BY <3>1, <3>2
  <2>5. v = [field |-> f, fed |-> Fed(f), snap |-> Fed(f), emitted |-> TRUE]
    BY <1>1, <1>3, <2>3, <2>4 DEF ShownEnd, Snapshot
  <2>. HIDE DEF v
  <2>6. w = [field |-> f, fed |-> Fed(f), snap |-> Fed(f), emitted |-> TRUE]
    <3>1. v.field = f /\ f.sel = <<0, 0>> /\ f.sel[2] = 0
      BY <2>5
    <3>2. [f EXCEPT !.sel = <<0, 0>>] = f
      OBVIOUS
    <3>. HIDE DEF f
    <3>3. w = [v EXCEPT !.field = f]
      BY <3>1, <3>2 DEF Refocused
    <3>. QED BY <2>5, <3>3
  <2>. HIDE DEF w
  <2>7. SeedText(w) = <<>> /\ w.field.sel[2] = 0 /\ <<>> # None
    <3>1. <<>> # None
      BY ImeAssumption, EmptySeq
    <3>. QED BY <2>6, <3>1 DEF SeedText, Fed
  <2>8. o = [preedit |-> <<>>, carry |-> <<>>, word |-> None, sync |-> sync,
             needs |-> FALSE, restart |-> restart, queue |-> <<>>, post |-> <<[op |-> "show"]>>,
             hot |-> TRUE, force |-> TRUE, seedRestart |-> TRUE]
    BY <1>1 DEF Opened, Found, TypeInv, RustOK
  <2>. DEFINE x == Push(<<>>, 0, TRUE)
              show == [op |-> "show"]
  <2>9. /\ r.preedit = <<>> /\ r.carry = <<>> /\ r.word = None /\ r.needs = FALSE
        /\ r.queue = <<>> /\ r.post = Append(<<show>>, x) /\ r.hot = TRUE /\ r.force = FALSE
    <3>. HIDE DEF o
    <3>1. r = Seeded([o EXCEPT !.seedRestart = @ \/ o.restart, !.restart = FALSE,
                               !.needs = o.force /\ @], w, TRUE)
      BY <2>8 DEF Synced
    <3>. HIDE DEF r
    <3>. QED BY <2>7, <2>8, <3>1 DEF Seeded
  <2>. HIDE DEF r, o
  <2>10. /\ field' = f /\ posted' = <<show, x>> /\ hot' /\ ~force' /\ ~needs' /\ word' = None
         /\ preedit' = <<>> /\ carry' = <<>> /\ queue' = <<>> /\ late' = <<>> /\ edit' = e
    <3>1. posted \o Append(<<show>>, x) = <<show, x>>
      <4>1. show \in Posts /\ x \in Posts
        BY EmptySeq, PostsMade DEF Words
      <4>. HIDE DEF show, x
      <4>2. Append(<<show>>, x) = <<show, x>>
        <5>. DEFINE s == Append(<<show>>, x)
                    t == <<show, x>>
        <5>1. <<show>> \in Seq(Posts) /\ Len(<<show>>) = 1 /\ <<show>>[1] = show
          BY <4>1
        <5>2. s \in Seq(Posts) /\ Len(s) = 2 /\ s[1] = show /\ s[2] = x
          BY <4>1, <5>1, AppendProperties
        <5>3. t \in Seq(Posts) /\ Len(t) = 2 /\ t[1] = show /\ t[2] = x
          BY <4>1
        <5>. HIDE DEF s, t
        <5>4. \A i \in 1..Len(s) : s[i] = t[i]
          BY <5>2, <5>3
        <5>5. s = t
          BY <5>2, <5>3, <5>4, SeqEqual
        <5>. QED BY <5>5 DEF s, t
      <4>3. <<show, x>> \in Seq(Posts)
        BY <4>1
      <4>. QED BY <1>1, <4>2, <4>3, ConcatEmptySeq
    <3>. QED BY <1>1, <2>1, <2>6, <2>9, <3>1
  <2>11. Fit(f, <<>>) /\ Image(f, <<>>) = e /\ InText(f)
    <3>1. f \in Fields /\ <<>> \in Words
      BY <1>1, EmptySeq DEF TypeInv, EguiOK, Words
    <3>. QED BY <2>2, <3>1 DEF Fit, Image, InText
  <2>12. Idle(<<Mark(<<>>)>>, f) /\ Took(f, <<Mark(<<>>)>>, f)
    BY <2>11, IdleTakes DEF Idle
  <2>. HIDE DEF f
  <2>13. Path(f, <<Mark(<<>>)>>, <<>>, <<>>, <<>>, <<>>, e)
    <3>1. e \in Lines
      BY <2>11, FitParts DEF FitIs
    <3>. HIDE DEF e
    <3>2. Ran(e, <<>>, e)
      BY <3>1, LeadsNone DEF Ran
    <3>. QED BY <2>11, <2>12, <3>2 DEF Path
  <2>14. Ends(e, <<show, x>>, e) /\ Tells(e, <<show, x>>, e)
    BY DEF Ends, Tells, Push
  <2>15. Mirrored'
    BY <2>1, <2>10, <2>12, <2>13, <2>14 DEF Mirrored
  <2>. QED BY <1>3, <2>10, <2>15
<1>. QED BY <1>2, <1>3

\* A frame in which nobody touches the field keeps a session mirrored.
LEMMA FrameExact == ASSUME TypeInv, ExactInv, Frame PROVE ExactInv'
<1>1. Show(None, None, FALSE) /\ moves' = moves /\ dismissed' = dismissed /\ (plain' => plain)
  BY DEF Frame, Show
<1>. SUFFICES ASSUME plain', moves' = 0 PROVE Exact'
  BY <1>1 DEF ExactInv
<1>2. Exact
  BY <1>1 DEF ExactInv
<1>3. CASE hot
  BY <1>1, <1>2, <1>3, ShowHot DEF Exact
<1>4. CASE ~hot
  <2>1. /\ ~needs' /\ word' = None
        /\ IF tap = None THEN ~hot' /\ Untouched' ELSE hot' /\ Mirrored'
    BY <1>1, <1>2, <1>4, ShowCold DEF Exact
  <2>. QED BY <1>1, <1>2, <2>1 DEF Exact
<1>. QED BY <1>3, <1>4

\* Every step keeps it.
LEMMA NextExact == TypeInv /\ ExactInv /\ [Next]_imeVars => ExactInv'
<1>. SUFFICES ASSUME TypeInv, ExactInv, [Next]_imeVars PROVE ExactInv'
  OBVIOUS
<1>1. CASE Type \/ Enqueue \/ RunPosted
  BY <1>1, TypeExact, EnqueueExact, RunPostedExact
<1>2. CASE Dismiss \/ EditingFrame
  <2>1. moves' = moves + 1
    BY <1>2 DEF Dismiss, EditingFrame, Move
  <2>2. moves' \in Nat /\ moves' # 0
    BY <2>1 DEF ExactInv
  <2>. QED BY <2>2 DEF ExactInv
<1>3. CASE Drain \/ Frame
  BY <1>3, DrainExact, FrameExact
<1>4. CASE Age \/ UNCHANGED imeVars
  <2>1. UNCHANGED <<edit, late, queue, posted, shown, dismissed, field, snap, focused, hot, force,
                    preedit, carry, word, needs, staged, phase, tap, applied, plain, moves>>
    <3>1. CASE Age
      BY <3>1 DEF Age, javaVars, adapterVars, bridgeVars, frameVars, counts
    <3>2. CASE UNCHANGED imeVars
      BY <3>2 DEF imeVars, javaVars, eguiVars, adapterVars, bridgeVars, frameVars, counts
    <3>. QED BY <1>4, <3>1, <3>2
  <2>2. Untouched' <=> Untouched
    BY <2>1 DEF Untouched
  <2>3. Mirrored' <=> Mirrored
    BY <2>1 DEF Mirrored
  <2>. QED BY <2>1, <2>2, <2>3 DEF ExactInv, Exact
<1>. QED BY <1>1, <1>2, <1>3, <1>4 DEF Next

-----------------------------------------------------------------------------
(* The theorem.                                                            *)

\* Typing, composing and deleting come out in the field exactly as in the EditText, however the
\* calls fall into frames and whatever waits for the next frame, as long as nobody else touches
\* the field and no call crosses a push.
THEOREM TypingIsMirrored == Spec => []PlainTypingIsExact
<1>1. Init => ExactInv
  <2>. SUFFICES ASSUME Init PROVE ExactInv
    OBVIOUS
  <2>1. Untouched
    BY DEF Init, Untouched
  <2>. QED BY <2>1 DEF Init, ExactInv, Exact
<1>2. TypeInv /\ ExactInv => PlainTypingIsExact
  <2>. SUFFICES ASSUME TypeInv, ExactInv, hot, Quiet, plain, moves = 0
                PROVE  field.text = edit.text
    BY DEF PlainTypingIsExact
  <2>1. Mirrored /\ staged = <<>> /\ carry = <<>> /\ queue = <<>> /\ late = <<>> /\ posted = <<>>
    BY DEF ExactInv, Exact, Quiet
  <2>2. PICK e : Path(field, <<>>, preedit, <<>>, <<>>, <<>>, e) /\ Ends(edit, <<>>, e)
    BY <2>1 DEF Mirrored
  <2>3. PICK g, k, m : /\ Took(field, <<>>, g) /\ Ran(Image(g, preedit), <<>>, k)
                       /\ Ran(k, <<>>, m) /\ Ran(m, <<>>, e)
    BY <2>2 DEF Path
  <2>4. g = field
    <3>1. \A x, y : Leads(InTexts, Taking, <<>>, x, y) => x = y
      BY LeadsNone
    <3>. QED BY <2>3, <3>1 DEF Took
  <2>5. Image(field, preedit) = e
    <3>1. \A x, y : Leads(Lines, Typing, <<>>, x, y) => x = y
      BY LeadsNone
    <3>. QED BY <2>3, <2>4, <3>1 DEF Ran
  <2>6. edit = e
    BY <2>2, NoClears
  <2>. QED BY <2>5, <2>6 DEF Image
<1>. QED BY <1>1, <1>2, ImeTypes, NextExact, PTL DEF Spec
=============================================================================
