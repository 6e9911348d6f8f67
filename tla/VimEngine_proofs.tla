-------------------------- MODULE VimEngine_proofs -------------------------
(***************************************************************************)
(* What the modal engine of VimEngine guarantees, for every number of      *)
(* keys, taps and steps, every cap of the undo stack and every depth of    *)
(* replays: its types, that a buffer which is not marked as modified is    *)
(* the file, that macros come back, and that every command is one step of  *)
(* the undo history.                                                       *)
(*                                                                         *)
(* A buffer comes first: what each of its operations keeps (Good), what    *)
(* becomes of its version (Later) and of its history (Same, Recorded,      *)
(* Amended, Undone, Redone).  A key of the engine is one of these on the   *)
(* buffer of the window, and a replay adds a frame to a stack.             *)
(***************************************************************************)
EXTENDS VimEngine, SequenceTheorems, FiniteSetTheorems, TLAPS

-----------------------------------------------------------------------------
(* Sequences.                                                              *)

Words == Seq(Chars)
Snaps == [text : Words, col : Nat]

\* A stack without its top.
LEMMA FrontType ==
  ASSUME NEW S, NEW s \in Seq(S), NEW k \in Nat
  PROVE  /\ Below(s, k) \in Seq(S)
         /\ Len(Below(s, k)) = IF k <= Len(s) THEN Len(s) - k ELSE 0
         /\ \A i \in 1..(Len(s) - k) : Below(s, k)[i] = s[i]
<1>. DEFINE n == Len(s) - k
<1>1. n \in Int /\ \A i \in 1..n : s[i] \in S
  BY LenProperties, ElementOfSeq
<1>. HIDE DEF n
<1>2. /\ SubSeq(s, 1, n) \in Seq(S) /\ Len(SubSeq(s, 1, n)) = IF 1 <= n THEN n - 1 + 1 ELSE 0
      /\ \A i \in 1..(n - 1 + 1) : SubSeq(s, 1, n)[i] = s[1 + i - 1]
  BY <1>1, SubSeqProperties
<1>. QED BY <1>1, <1>2, LenProperties DEF Below, n

\* What is kept of a stack is its top.
LEMMA CappedIs ==
  ASSUME NEW S, NEW s \in Seq(S)
  PROVE  /\ Capped(s) \in Seq(S)
         /\ Len(Capped(s)) = IF Len(s) <= UndoCap THEN Len(s) ELSE UndoCap
         /\ \A i \in 1..Len(Capped(s)) : Capped(s)[i] = s[i + (Len(s) - Len(Capped(s)))]
         /\ Len(s) <= UndoCap => Capped(s) = s
<1>1. UndoCap \in Nat /\ UndoCap >= 1 /\ Len(s) \in Nat
  BY UndoAssumption, LenProperties
<1>2. CASE Len(s) <= UndoCap
  <2>1. Capped(s) = s
    BY <1>1, <1>2 DEF Capped
  <2>2. \A i \in 1..Len(s) : i + (Len(s) - Len(s)) = i
    BY <1>1
  <2>. QED BY <1>1, <1>2, <2>1, <2>2
<1>3. CASE ~(Len(s) <= UndoCap)
  <2>. DEFINE m == Len(s) - UndoCap + 1
  <2>1. m \in Int /\ \A i \in m..Len(s) : s[i] \in S
    BY <1>1, <1>3, ElementOfSeq
  <2>2. Capped(s) = SubSeq(s, m, Len(s))
    BY <1>1, <1>3 DEF Capped
  <2>. HIDE DEF m
  <2>3. /\ SubSeq(s, m, Len(s)) \in Seq(S)
        /\ Len(SubSeq(s, m, Len(s))) = IF m <= Len(s) THEN Len(s) - m + 1 ELSE 0
        /\ \A i \in 1..(Len(s) - m + 1) : SubSeq(s, m, Len(s))[i] = s[m + i - 1]
    BY <1>1, <2>1, SubSeqProperties
  <2>. QED BY <1>1, <1>3, <2>1, <2>2, <2>3 DEF m
<1>. QED BY <1>2, <1>3

\* The texts of a stack of snapshots.
LEMMA TextsType ==
  ASSUME NEW s \in Seq(Snaps)
  PROVE  /\ TextsOf(s) \in Seq(Words) /\ Len(TextsOf(s)) = Len(s)
         /\ \A i \in 1..Len(s) : TextsOf(s)[i] = s[i].text
<1>1. Len(s) \in Nat /\ DOMAIN s = 1..Len(s) /\ \A i \in 1..Len(s) : s[i].text \in Words
  <2>1. Len(s) \in Nat /\ DOMAIN s = 1..Len(s) /\ \A i \in 1..Len(s) : s[i] \in Snaps
    BY LenProperties, ElementOfSeq
  <2>. QED BY <2>1 DEF Snaps
<1>2. TextsOf(s) \in [1..Len(s) -> Words]
  BY <1>1 DEF TextsOf
<1>3. TextsOf(s) \in Seq(Words)
  BY <1>1, <1>2, SeqDef
<1>. QED BY <1>1, <1>2, <1>3, LenProperties DEF TextsOf

\* Forgetting the oldest and looking at the texts commute.
LEMMA TextsOfCapped ==
  ASSUME NEW s \in Seq(Snaps)
  PROVE  TextsOf(Capped(s)) = Capped(TextsOf(s))
<1>1. Capped(s) \in Seq(Snaps) /\ TextsOf(s) \in Seq(Words) /\ Len(TextsOf(s)) = Len(s)
  BY CappedIs, TextsType
<1>2. TextsOf(Capped(s)) \in Seq(Words) /\ Capped(TextsOf(s)) \in Seq(Words)
  BY <1>1, CappedIs, TextsType
<1>3. /\ Len(Capped(s)) = Len(Capped(TextsOf(s))) /\ Len(TextsOf(Capped(s))) = Len(Capped(s))
      /\ Len(Capped(s)) \in Nat /\ Len(s) \in Nat /\ Len(Capped(s)) <= Len(s)
  BY <1>1, CappedIs, TextsType, LenProperties, UndoAssumption
<1>4. ASSUME NEW i \in 1..Len(Capped(s)) PROVE TextsOf(Capped(s))[i] = Capped(TextsOf(s))[i]
  <2>. DEFINE j == i + (Len(s) - Len(Capped(s)))
  <2>1. j \in 1..Len(s)
    BY <1>3
  <2>2. TextsOf(Capped(s))[i] = Capped(s)[i].text /\ Capped(s)[i] = s[j]
    BY <1>1, TextsType, CappedIs
  <2>3. Capped(TextsOf(s))[i] = TextsOf(s)[j]
    BY <1>1, <1>3, CappedIs
  <2>. QED BY <2>1, <2>2, <2>3, TextsType
<1>. QED BY <1>2, <1>3, <1>4, SeqEqual

\* The texts of a stack with one more.
LEMMA TextsOfAppend ==
  ASSUME NEW s \in Seq(Snaps), NEW x \in Snaps
  PROVE  /\ TextsOf(Append(s, x)) = Append(TextsOf(s), x.text)
         /\ s \o <<x>> = Append(s, x) /\ Append(s, x) \in Seq(Snaps)
<1>1. /\ Append(s, x) \in Seq(Snaps) /\ Len(Append(s, x)) = Len(s) + 1 /\ Len(s) \in Nat
      /\ \A i \in 1..Len(s) : Append(s, x)[i] = s[i]
      /\ Append(s, x)[Len(s) + 1] = x
  BY AppendProperties, LenProperties
<1>2. /\ TextsOf(s) \in Seq(Words) /\ Len(TextsOf(s)) = Len(s) /\ x.text \in Words
      /\ \A i \in 1..Len(s) : TextsOf(s)[i] = s[i].text
  BY TextsType DEF Snaps
<1>3. /\ Append(TextsOf(s), x.text) \in Seq(Words)
      /\ Len(Append(TextsOf(s), x.text)) = Len(s) + 1
      /\ \A i \in 1..Len(s) : Append(TextsOf(s), x.text)[i] = TextsOf(s)[i]
      /\ Append(TextsOf(s), x.text)[Len(s) + 1] = x.text
  BY <1>2, AppendProperties
<1>4. /\ TextsOf(Append(s, x)) \in Seq(Words) /\ Len(TextsOf(Append(s, x))) = Len(s) + 1
      /\ \A i \in 1..(Len(s) + 1) : TextsOf(Append(s, x))[i] = Append(s, x)[i].text
  BY <1>1, TextsType
<1>5. ASSUME NEW i \in 1..(Len(s) + 1)
      PROVE  TextsOf(Append(s, x))[i] = Append(TextsOf(s), x.text)[i]
  BY <1>1, <1>2, <1>3, <1>4
<1>6. TextsOf(Append(s, x)) = Append(TextsOf(s), x.text)
  BY <1>1, <1>3, <1>4, <1>5, SeqEqual
<1>. QED BY <1>1, <1>6, AppendIsConcat

\* A sequence backwards.
LEMMA ReverseType ==
  ASSUME NEW S, NEW s \in Seq(S)
  PROVE  /\ Reverse(s) \in Seq(S) /\ Len(Reverse(s)) = Len(s)
         /\ \A i \in 1..Len(s) : Reverse(s)[i] = s[(Len(s) - i) + 1]
<1>1. Len(s) \in Nat /\ \A i \in 1..Len(s) : (Len(s) - i) + 1 \in 1..Len(s)
  BY LenProperties
<1>2. Reverse(s) \in [1..Len(s) -> S]
  BY <1>1, ElementOfSeq DEF Reverse
<1>3. Reverse(s) \in Seq(S)
  BY <1>1, <1>2, SeqDef
<1>. QED BY <1>1, <1>2, <1>3, LenProperties DEF Reverse

-----------------------------------------------------------------------------
(* Buffers, and what becomes of their version and their history.           *)

Groups == {NoGroup} \cup [open : {TRUE}, snap : Snaps, at : Nat]
Buffers ==
  [text : Words, col : Nat, version : Nat, saved : Nat, undo : Seq(Snaps), redo : Seq(Snaps),
   group : Groups]

\* A group that has not changed the text yet has the present text as its snapshot.
Good(b) ==
  /\ b \in Buffers /\ b.saved <= b.version /\ Len(b.undo) <= UndoCap
  /\ b.group.open => b.group.at <= b.version
                     /\ (b.group.at = b.version => b.group.snap.text = b.text)

\* The text changes with the version.
Later(b, c) ==
  c.saved = b.saved /\ b.version <= c.version /\ (c.version = b.version => c.text = b.text)

\* The history is what it was, has one step more, or the present text is another.
Same(b, c) == Past(c) = Past(b) /\ c.text = b.text /\ Future(c) = Future(b)
Recorded(b, c) ==
  ~Changed(b) /\ Past(c) = Capped(Append(Past(b), b.text)) /\ Future(c) = <<>>
Amended(b, c) ==
  Past(b) # <<>> /\ Future(b) = <<>> /\ Past(c) = Past(b) /\ Future(c) = <<>>

\* The fields of a buffer are of their types.
LEMMA BufferTypes ==
  ASSUME NEW b \in Buffers
  PROVE  /\ b.text \in Words /\ b.col \in Nat /\ b.version \in Nat /\ b.saved \in Nat
         /\ b.undo \in Seq(Snaps) /\ b.redo \in Seq(Snaps) /\ b.group \in Groups
         /\ Len(b.text) \in Nat /\ Len(b.undo) \in Nat /\ Len(b.redo) \in Nat
         /\ b.group.open \in BOOLEAN
         /\ b.group.open => b.group.snap \in Snaps /\ b.group.at \in Nat
<1>1. /\ b.text \in Words /\ b.col \in Nat /\ b.version \in Nat /\ b.saved \in Nat
      /\ b.undo \in Seq(Snaps) /\ b.redo \in Seq(Snaps) /\ b.group \in Groups
  BY DEF Buffers
<1>2. /\ b.group.open \in BOOLEAN
      /\ b.group.open => b.group.snap \in Snaps /\ b.group.at \in Nat
  <2>1. CASE b.group = NoGroup
    BY <2>1 DEF NoGroup
  <2>2. CASE b.group \in [open : {TRUE}, snap : Snaps, at : Nat]
    BY <2>2
  <2>. QED BY <1>1, <2>1, <2>2 DEF Groups
<1>. QED BY <1>1, <1>2, LenProperties DEF Words

\* What can be undone and redone: the stacks, and the group once it has changed the text.
LEMMA HistoryIs ==
  ASSUME NEW b \in Buffers, Len(b.undo) <= UndoCap
  PROVE  /\ Past(b) \in Seq(Words) /\ Future(b) \in Seq(Words)
         /\ Changed(b) => /\ Past(b) = TextsOf(Capped(Append(b.undo, b.group.snap)))
                          /\ Past(b) = Capped(Append(TextsOf(b.undo), b.group.snap.text))
                          /\ Past(b) # <<>> /\ Future(b) = <<>>
         /\ ~Changed(b) => Past(b) = TextsOf(b.undo) /\ Future(b) = Reverse(TextsOf(b.redo))
<1>0. b.undo \in Seq(Snaps) /\ b.redo \in Seq(Snaps) /\ Len(b.undo) \in Nat
  BY BufferTypes
<1>1. CASE Changed(b)
  <2>1. b.group.snap \in Snaps
    BY <1>1, BufferTypes DEF Changed
  <2>2. /\ b.undo \o <<b.group.snap>> = Append(b.undo, b.group.snap)
        /\ Append(b.undo, b.group.snap) \in Seq(Snaps)
        /\ TextsOf(Append(b.undo, b.group.snap)) = Append(TextsOf(b.undo), b.group.snap.text)
    BY <1>0, <2>1, TextsOfAppend
  <2>3. Past(b) = TextsOf(Capped(Append(b.undo, b.group.snap))) /\ Future(b) = <<>>
    BY <1>1, <2>2 DEF Past, Future
  <2>. DEFINE u == Append(b.undo, b.group.snap)
  <2>4. Capped(u) \in Seq(Snaps) /\ Len(Capped(u)) # 0
    <3>1. u \in Seq(Snaps) /\ Len(u) = Len(b.undo) + 1
      BY <1>0, <2>1, AppendProperties
    <3>. HIDE DEF u
    <3>2. Len(Capped(u)) = IF Len(u) <= UndoCap THEN Len(u) ELSE UndoCap
      BY <3>1, CappedIs
    <3>. QED BY <1>0, <3>1, <3>2, CappedIs, UndoAssumption
  <2>5. Past(b) \in Seq(Words) /\ Len(Past(b)) # 0
    BY <2>3, <2>4, TextsType
  <2>6. Past(b) # <<>> /\ Future(b) \in Seq(Words)
    BY <2>3, <2>5, EmptySeq
  <2>. QED BY <1>1, <2>2, <2>3, <2>5, <2>6, TextsOfCapped
<1>2. CASE ~Changed(b)
  <2>1. b.undo \o <<>> = b.undo /\ Capped(b.undo) = b.undo
    BY <1>0, ConcatEmptySeq, CappedIs
  <2>2. Past(b) = TextsOf(b.undo) /\ Future(b) = Reverse(TextsOf(b.redo))
    BY <1>2, <2>1 DEF Past, Future
  <2>3. Reverse(TextsOf(b.redo)) \in Seq(Words)
    <3>1. TextsOf(b.redo) \in Seq(Words)
      BY <1>0, TextsType
    <3>. QED BY <3>1, ReverseType
  <2>. QED BY <1>0, <1>2, <2>2, <2>3, TextsType
<1>. QED BY <1>1, <1>2

\* Only the column is another.
Like(b, c) ==
  /\ c.text = b.text /\ c.version = b.version /\ c.saved = b.saved
  /\ c.undo = b.undo /\ c.redo = b.redo /\ c.group = b.group

\* A cursor that moves changes nothing else.
LEMMA LikeKeeps ==
  ASSUME NEW b, NEW c \in Buffers, Good(b), Like(b, c)
  PROVE  Good(c) /\ Later(b, c) /\ Same(b, c)
<1>1. Changed(c) = Changed(b)
  BY DEF Changed, Like
<1>2. Past(c) = Past(b) /\ Future(c) = Future(b)
  BY <1>1 DEF Past, Future, Like
<1>3. Good(c) /\ Later(b, c)
  BY DEF Good, Later, Like, Buffers
<1>. QED BY <1>2, <1>3 DEF Same, Like

\* A cursor moved anywhere: the rest of the buffer is the same.
LEMMA MovedIs ==
  ASSUME NEW b \in Buffers, NEW n \in Nat
  PROVE  /\ [b EXCEPT !.col = n] \in Buffers /\ Like(b, [b EXCEPT !.col = n])
         /\ [b EXCEPT !.col = n].col = n
BY DEF Buffers, Like

\* Clamp puts the cursor into the text.
LEMMA ClampIs ==
  ASSUME NEW b \in Buffers, NEW e \in BOOLEAN
  PROVE  /\ Clamp(b, e) \in Buffers /\ Like(b, Clamp(b, e))
         /\ Clamp(b, e).col \in 0..Len(Clamp(b, e).text)
<1>. DEFINE n == Len(b.text)
            max == IF e \/ n = 0 THEN n ELSE n - 1
<1>1. n \in Nat /\ max \in Nat /\ max <= n /\ b.col \in Nat
  BY BufferTypes
<1>2. Clamp(b, e) = IF b.col <= max THEN b ELSE [b EXCEPT !.col = max]
  BY DEF Clamp
<1>. HIDE DEF max
<1>3. CASE b.col <= max
  BY <1>1, <1>2, <1>3 DEF Like
<1>4. CASE ~(b.col <= max)
  <2>1. Clamp(b, e) \in Buffers /\ Like(b, Clamp(b, e)) /\ Clamp(b, e).col = max
    BY <1>1, <1>2, <1>4, MovedIs
  <2>. QED BY <1>1, <2>1 DEF Like
<1>. QED BY <1>3, <1>4

\* A snapshot lands in its text as well.
LEMMA LandedIs ==
  ASSUME NEW stack \in Seq(Snaps), NEW k \in 1..Len(stack)
  PROVE  /\ Landed(stack, k) \in Snaps
         /\ Landed(stack, k).text = stack[Len(stack) - k + 1].text
<1>. DEFINE s == stack[Len(stack) - k + 1]
            n == Len(s.text)
            max == IF FALSE \/ n = 0 THEN n ELSE n - 1
<1>1. Len(stack) - k + 1 \in 1..Len(stack)
  BY LenProperties
<1>2. s \in Snaps
  BY <1>1, ElementOfSeq
<1>3. s.text \in Words /\ s.col \in Nat
  BY <1>2 DEF Snaps
<1>4. n \in Nat /\ max \in Nat
  BY <1>3, LenProperties DEF Words
<1>5. Landed(stack, k) = IF s.col <= max THEN s ELSE [s EXCEPT !.col = max]
  BY DEF Landed, Clamp
<1>. HIDE DEF s, max
<1>6. [s EXCEPT !.col = max] \in Snaps /\ [s EXCEPT !.col = max].text = s.text
  BY <1>2, <1>4 DEF Snaps
<1>. QED BY <1>2, <1>5, <1>6 DEF s

\* With an empty stack there is nothing to redo.
LEMMA NothingToRedo == Reverse(TextsOf(<<>>)) = <<>>
<1>1. TextsOf(<<>>) \in Seq(Words) /\ Len(TextsOf(<<>>)) = 0
  BY TextsType, EmptySeq
<1>2. Reverse(TextsOf(<<>>)) \in Seq(Words) /\ Len(Reverse(TextsOf(<<>>))) = 0
  BY <1>1, ReverseType
<1>. QED BY <1>2, EmptySeq

\* A step more on the undo stack.
LEMMA PushUndoIs ==
  ASSUME NEW b \in Buffers, NEW x \in Snaps, NEW c, c = PushUndo(b, x)
  PROVE  /\ c \in Buffers /\ c.undo = Capped(Append(b.undo, x)) /\ c.redo = <<>>
         /\ Len(c.undo) <= UndoCap
         /\ c.text = b.text /\ c.col = b.col /\ c.version = b.version /\ c.saved = b.saved
         /\ c.group = b.group
<1>. DEFINE u == Capped(Append(b.undo, x))
<1>1. b.undo \in Seq(Snaps) /\ Append(b.undo, x) \in Seq(Snaps)
  BY BufferTypes, AppendProperties
<1>2. u \in Seq(Snaps) /\ Len(u) <= UndoCap
  <2>1. /\ u \in Seq(Snaps) /\ Len(Append(b.undo, x)) \in Nat
        /\ Len(u) = IF Len(Append(b.undo, x)) <= UndoCap THEN Len(Append(b.undo, x)) ELSE UndoCap
    BY <1>1, CappedIs, LenProperties
  <2>. QED BY <2>1, UndoAssumption
<1>3. c = [b EXCEPT !.undo = u, !.redo = <<>>] /\ <<>> \in Seq(Snaps)
  BY EmptySeq DEF PushUndo
<1>. HIDE DEF u
<1>4. c \in Buffers /\ c.undo = u
  BY <1>2, <1>3 DEF Buffers
<1>5. /\ c.redo = <<>> /\ c.text = b.text /\ c.col = b.col /\ c.version = b.version
      /\ c.saved = b.saved /\ c.group = b.group
  BY <1>3 DEF Buffers
<1>. QED BY <1>2, <1>4, <1>5 DEF u

\* An open group takes its snapshot at once.
LEMMA BeginGroupIs ==
  ASSUME NEW b, Good(b), NEW c, c = BeginGroup(b)
  PROVE  /\ Good(c) /\ Later(b, c) /\ Same(b, c) /\ c.group.open /\ c.text = b.text /\ c.col = b.col
         /\ ~b.group.open => ~Changed(c)
<1>0. b \in Buffers
  BY DEF Good
<1>1. CASE b.group.open
  <2>1. c = b
    BY <1>1 DEF BeginGroup
  <2>. QED BY <1>0, <1>1, <2>1, BufferTypes DEF Later, Same
<1>2. CASE ~b.group.open
  <2>. DEFINE g == [open |-> TRUE, snap |-> Snapshot(b.text, b.col), at |-> b.version]
  <2>1. c = [b EXCEPT !.group = g]
    BY <1>2 DEF BeginGroup
  <2>2. /\ g \in Groups /\ g.open = TRUE /\ g.at = b.version /\ g.snap.text = b.text
        /\ b.version \in Nat
    BY <1>0, BufferTypes DEF Groups, Snaps, Snapshot
  <2>. HIDE DEF g
  <2>3. c \in Buffers /\ c.group = g
    BY <1>0, <2>1, <2>2 DEF Buffers
  <2>4. /\ c.text = b.text /\ c.col = b.col /\ c.version = b.version /\ c.saved = b.saved
        /\ c.undo = b.undo /\ c.redo = b.redo
    BY <1>0, <2>1 DEF Buffers
  <2>5. ~Changed(b) /\ ~Changed(c)
    BY <1>2, <2>2, <2>3, <2>4 DEF Changed
  <2>6. Past(c) = Past(b) /\ Future(c) = Future(b)
    BY <2>4, <2>5 DEF Past, Future
  <2>. QED BY <2>2, <2>3, <2>4, <2>5, <2>6 DEF Good, Later, Same
<1>. QED BY <1>1, <1>2

\* The end of a group makes it a step of its own, which it was already.
LEMMA EndGroupIs ==
  ASSUME NEW b, Good(b), NEW c, c = EndGroup(b)
  PROVE  /\ Good(c) /\ Later(b, c) /\ Same(b, c) /\ ~c.group.open
         /\ c.text = b.text /\ c.col = b.col /\ c.version = b.version
<1>. DEFINE d == [b EXCEPT !.group = NoGroup]
<1>0. b \in Buffers /\ Len(b.undo) <= UndoCap
  BY DEF Good
<1>1. d \in Buffers /\ d.group = NoGroup
  BY <1>0 DEF Buffers, Groups
<1>2. /\ d.text = b.text /\ d.col = b.col /\ d.version = b.version /\ d.saved = b.saved
      /\ d.undo = b.undo /\ d.redo = b.redo
  BY <1>0 DEF Buffers
<1>3. c = IF Changed(b) THEN PushUndo(d, b.group.snap) ELSE d
  BY DEF EndGroup, Changed
<1>. HIDE DEF d
<1>4. CASE ~Changed(b)
  <2>1. c = d /\ ~Changed(c) /\ ~c.group.open
    BY <1>1, <1>3, <1>4 DEF Changed, NoGroup
  <2>2. Past(c) = Past(b) /\ Future(c) = Future(b)
    BY <1>2, <1>4, <2>1 DEF Past, Future
  <2>. QED BY <1>0, <1>1, <1>2, <2>1, <2>2, BufferTypes DEF Good, Later, Same
<1>5. CASE Changed(b)
  <2>1. b.group.snap \in Snaps
    BY <1>0, <1>5, BufferTypes DEF Changed
  <2>2. /\ c \in Buffers /\ c.undo = Capped(Append(b.undo, b.group.snap)) /\ c.redo = <<>>
        /\ Len(c.undo) <= UndoCap /\ c.text = b.text /\ c.col = b.col
        /\ c.version = b.version /\ c.saved = b.saved /\ c.group = NoGroup
    BY <1>1, <1>2, <1>3, <1>5, <2>1, PushUndoIs
  <2>3. ~c.group.open /\ ~Changed(c)
    BY <2>2 DEF Changed, NoGroup
  <2>4. Past(c) = TextsOf(c.undo) /\ Future(c) = Reverse(TextsOf(c.redo))
    BY <2>2, <2>3, HistoryIs
  <2>5. Past(c) = Past(b) /\ Future(b) = <<>>
    BY <1>0, <1>5, <2>2, <2>4, HistoryIs
  <2>6. Future(c) = <<>>
    BY <2>2, <2>4, NothingToRedo
  <2>. QED BY <1>0, <2>2, <2>3, <2>5, <2>6, BufferTypes DEF Good, Later, Same
<1>. QED BY <1>4, <1>5

\* An edit outside a group is a step; within one the first edit is, and those after it are not.
LEMMA EditIs ==
  ASSUME NEW b, Good(b), NEW col \in Nat, NEW t \in Words, NEW c, c = Edit(b, col, t)
  PROVE  /\ Good(c) /\ Later(b, c) /\ c.text = t /\ c.col = b.col
         /\ c.group.open = b.group.open
         /\ c.group.open => Changed(c)
         /\ IF Changed(b) THEN Amended(b, c) ELSE Recorded(b, c)
<1>. DEFINE x == Snapshot(b.text, col)
            p == IF b.group.open THEN b ELSE PushUndo(b, x)
<1>0. b \in Buffers /\ Len(b.undo) <= UndoCap /\ x \in Snaps /\ x.text = b.text
  <2>1. b \in Buffers /\ Len(b.undo) <= UndoCap
    BY DEF Good
  <2>. QED BY <2>1, BufferTypes DEF Snaps, Snapshot
<1>1. c = [[p EXCEPT !.version = @ + 1] EXCEPT !.text = t]
  BY DEF Edit, Touch
<1>2. /\ p \in Buffers /\ Len(p.undo) <= UndoCap
      /\ p.text = b.text /\ p.col = b.col /\ p.version = b.version /\ p.saved = b.saved
      /\ p.group = b.group
      /\ b.group.open => p.undo = b.undo /\ p.redo = b.redo
      /\ ~b.group.open => p.undo = Capped(Append(b.undo, x)) /\ p.redo = <<>>
  BY <1>0, PushUndoIs
<1>. HIDE DEF p, x
<1>3. c \in Buffers /\ c.text = t /\ c.version = b.version + 1
  <2>1. p.version \in Nat
    BY <1>2, BufferTypes
  <2>2. [p EXCEPT !.version = @ + 1] \in Buffers
    BY <1>2, <2>1 DEF Buffers
  <2>3. c \in Buffers
    BY <1>1, <2>2 DEF Buffers
  <2>4. c.text = t /\ c.version = p.version + 1
    BY <1>1, <1>2 DEF Buffers
  <2>. QED BY <1>2, <2>3, <2>4
<1>4. /\ c.col = b.col /\ c.saved = b.saved /\ c.group = b.group
      /\ c.undo = p.undo /\ c.redo = p.redo
  BY <1>1, <1>2 DEF Buffers
<1>5. /\ b.version \in Nat /\ b.saved \in Nat /\ b.group.open \in BOOLEAN
      /\ b.group.open => b.group.at \in Nat /\ b.group.at <= b.version /\ b.group.snap \in Snaps
      /\ b.saved <= b.version
  BY <1>0, BufferTypes DEF Good
<1>6. Good(c) /\ Later(b, c)
  BY <1>2, <1>3, <1>4, <1>5 DEF Good, Later
<1>7. c.group.open => Changed(c)
  BY <1>3, <1>4, <1>5 DEF Changed
<1>8. CASE Changed(b)
  <2>1. Changed(c) /\ c.undo = b.undo /\ c.group = b.group
    BY <1>2, <1>4, <1>7, <1>8 DEF Changed
  <2>2. /\ Past(b) # <<>> /\ Future(b) = <<>> /\ Future(c) = <<>>
        /\ Past(b) = Capped(Append(TextsOf(b.undo), b.group.snap.text))
        /\ Past(c) = Capped(Append(TextsOf(c.undo), c.group.snap.text))
    BY <1>0, <1>2, <1>3, <1>4, <1>8, <2>1, HistoryIs
  <2>. QED BY <1>3, <1>4, <1>6, <1>7, <1>8, <2>1, <2>2 DEF Amended
<1>9. CASE ~Changed(b) /\ b.group.open
  <2>1. Changed(c) /\ c.undo = b.undo /\ c.group = b.group
    BY <1>2, <1>4, <1>7, <1>9
  <2>2. b.group.snap.text = b.text
    BY <1>9 DEF Changed, Good
  <2>3. /\ Past(b) = TextsOf(b.undo) /\ Future(c) = <<>>
        /\ Past(c) = Capped(Append(TextsOf(c.undo), c.group.snap.text))
    BY <1>0, <1>2, <1>3, <1>4, <1>9, <2>1, HistoryIs
  <2>. QED BY <1>3, <1>4, <1>6, <1>7, <1>9, <2>1, <2>2, <2>3 DEF Recorded
<1>10. CASE ~Changed(b) /\ ~b.group.open
  <2>1. ~Changed(c) /\ c.undo = Capped(Append(b.undo, x)) /\ c.redo = <<>>
    BY <1>2, <1>4, <1>10 DEF Changed
  <2>2. /\ Past(b) = TextsOf(b.undo)
        /\ Past(c) = TextsOf(c.undo) /\ Future(c) = Reverse(TextsOf(c.redo))
    BY <1>0, <1>2, <1>3, <1>4, <1>10, <2>1, HistoryIs
  <2>3. Past(c) = Capped(Append(Past(b), b.text))
    <3>1. b.undo \in Seq(Snaps)
      BY <1>0, BufferTypes
    <3>2. /\ Append(b.undo, x) \in Seq(Snaps)
          /\ TextsOf(Append(b.undo, x)) = Append(TextsOf(b.undo), b.text)
      BY <1>0, <3>1, TextsOfAppend
    <3>. QED BY <2>1, <2>2, <3>2, TextsOfCapped
  <2>4. Future(c) = <<>>
    BY <2>1, <2>2, NothingToRedo
  <2>. QED BY <1>3, <1>4, <1>6, <1>7, <1>10, <2>3, <2>4 DEF Recorded
<1>. QED BY <1>8, <1>9, <1>10

-----------------------------------------------------------------------------
(* Undo and redo.                                                          *)

\* Going back or forth along the line of texts that are before, present and after.
LineOf(p, t, f) == p \o <<t>> \o f
Line(b) == LineOf(Past(b), b.text, Future(b))
Undone(b, c, k) ==
  /\ k \in 1..Len(Past(b))
  /\ Past(c) = SubSeq(Line(b), 1, Len(Past(b)) - k)
  /\ c.text = Line(b)[Len(Past(b)) - k + 1]
  /\ Future(c) = SubSeq(Line(b), Len(Past(b)) - k + 2, Len(Line(b)))
Redone(b, c, k) ==
  /\ k \in 1..Len(Future(b))
  /\ Past(c) = Capped(SubSeq(Line(b), 1, Len(Past(b)) + k))
  /\ c.text = Line(b)[Len(Past(b)) + k + 1]
  /\ Future(c) = SubSeq(Line(b), Len(Past(b)) + k + 2, Len(Line(b)))

\* A line, index by index.
LEMMA LineIs ==
  ASSUME NEW p \in Seq(Words), NEW t \in Words, NEW f \in Seq(Words)
  PROVE  /\ LineOf(p, t, f) \in Seq(Words) /\ Len(LineOf(p, t, f)) = Len(p) + 1 + Len(f)
         /\ \A i \in 1..Len(p) : LineOf(p, t, f)[i] = p[i]
         /\ LineOf(p, t, f)[Len(p) + 1] = t
         /\ \A i \in 1..Len(f) : LineOf(p, t, f)[Len(p) + 1 + i] = f[i]
<1>. DEFINE line == LineOf(p, t, f)
<1>1. p \o <<t>> = Append(p, t)
  BY AppendIsConcat
<1>2. /\ Append(p, t) \in Seq(Words) /\ Len(Append(p, t)) = Len(p) + 1
      /\ \A i \in 1..Len(p) : Append(p, t)[i] = p[i]
      /\ Append(p, t)[Len(p) + 1] = t
      /\ Len(p) \in Nat /\ Len(f) \in Nat
  BY AppendProperties, LenProperties
<1>. DEFINE a == Append(p, t)
<1>3. /\ a \o f \in Seq(Words) /\ Len(a \o f) = Len(a) + Len(f)
      /\ \A i \in 1..(Len(a) + Len(f)) : (a \o f)[i] = IF i <= Len(a) THEN a[i] ELSE f[i - Len(a)]
  BY <1>2, ConcatProperties
<1>4. line = a \o f
  BY <1>1 DEF LineOf
<1>. HIDE DEF a, line
<1>5. ASSUME NEW i \in 1..Len(f) PROVE line[Len(p) + 1 + i] = f[i]
  <2>1. /\ Len(a) = Len(p) + 1 /\ Len(p) + 1 + i \in 1..(Len(a) + Len(f))
        /\ ~(Len(p) + 1 + i <= Len(a))
    BY <1>2 DEF a
  <2>2. Len(p) + 1 + i - Len(a) = i
    BY <1>2, <2>1
  <2>. QED BY <1>3, <1>4, <2>1, <2>2
<1>6. ASSUME NEW i \in 1..(Len(p) + 1) PROVE line[i] = a[i]
  BY <1>2, <1>3, <1>4 DEF a
<1>7. /\ line \in Seq(Words) /\ Len(line) = Len(p) + 1 + Len(f) /\ line[Len(p) + 1] = t
      /\ \A i \in 1..Len(p) : line[i] = p[i]
  BY <1>2, <1>3, <1>4, <1>6 DEF a
<1>. QED BY <1>5, <1>7 DEF line

\* A part of a line is what has its elements.
LEMMA PartIs ==
  ASSUME NEW line \in Seq(Words), NEW m \in Nat, NEW n \in Nat, m >= 1, n <= Len(line), m <= n + 1,
         NEW y \in Seq(Words), Len(y) = n - m + 1, \A i \in 1..Len(y) : y[i] = line[m + i - 1]
  PROVE  SubSeq(line, m, n) = y
<1>1. m \in Int /\ n \in Int /\ Len(line) \in Nat /\ \A i \in m..n : line[i] \in Words
  BY LenProperties, ElementOfSeq
<1>2. /\ SubSeq(line, m, n) \in Seq(Words)
      /\ Len(SubSeq(line, m, n)) = IF m <= n THEN n - m + 1 ELSE 0
      /\ \A i \in 1..(n - m + 1) : SubSeq(line, m, n)[i] = line[m + i - 1]
  BY <1>1, SubSeqProperties
<1>3. Len(SubSeq(line, m, n)) = Len(y) /\ \A i \in 1..Len(y) : SubSeq(line, m, n)[i] = y[i]
  BY <1>1, <1>2
<1>. QED BY <1>2, <1>3, SeqEqual

\* The snapshots left behind on the way through a stack: the present text, then those above the
\* one that is landed on.
LEMMA LeftIs ==
  ASSUME NEW b \in Buffers, NEW stack \in Seq(Snaps), NEW k \in 1..Len(stack)
  PROVE  /\ Left(b, stack, k) \in Seq(Snaps) /\ Len(Left(b, stack, k)) = k
         /\ Left(b, stack, k)[1].text = b.text
         /\ \A j \in 2..k : Left(b, stack, k)[j].text = stack[Len(stack) - j + 2].text
<1>1. Len(stack) \in Nat /\ k \in Nat
  BY LenProperties
<1>. DEFINE x == Snapshot(b.text, b.col)
            L == Left(b, stack, k)
<1>2. x \in Snaps /\ x.text = b.text
  BY BufferTypes DEF Snapshot, Snaps
<1>3. ASSUME NEW j \in 2..k
      PROVE  /\ Landed(stack, j - 1) \in Snaps
             /\ Landed(stack, j - 1).text = stack[Len(stack) - j + 2].text
  <2>1. j - 1 \in 1..Len(stack) /\ Len(stack) - (j - 1) + 1 = Len(stack) - j + 2
    BY <1>1
  <2>2. /\ Landed(stack, j - 1) \in Snaps
        /\ Landed(stack, j - 1).text = stack[Len(stack) - (j - 1) + 1].text
    BY <2>1, LandedIs
  <2>. QED BY <2>1, <2>2
<1>4. L = [i \in 1..k |-> IF i = 1 THEN x ELSE Landed(stack, i - 1)]
  BY DEF Left
<1>5. L \in [1..k -> Snaps] /\ L[1] = x /\ \A j \in 2..k : L[j] = Landed(stack, j - 1)
  <2>1. \A i \in 1..k : i = 1 \/ i \in 2..k
    BY <1>1
  <2>. HIDE DEF x, L
  <2>2. ASSUME NEW i \in 1..k PROVE (IF i = 1 THEN x ELSE Landed(stack, i - 1)) \in Snaps
    BY <1>2, <1>3, <2>1
  <2>3. L \in [1..k -> Snaps]
    BY <1>4, <2>2
  <2>4. L[1] = x
    BY <1>1, <1>4
  <2>5. ASSUME NEW j \in 2..k PROVE L[j] = Landed(stack, j - 1)
    BY <1>1, <1>4
  <2>. QED BY <2>3, <2>4, <2>5
<1>. HIDE DEF L
<1>6. L \in Seq(Snaps) /\ Len(L) = k
  BY <1>1, <1>5, SeqDef, LenProperties
<1>. QED BY <1>2, <1>3, <1>5, <1>6 DEF L

\* What is after the text that is k steps back: the texts above it, the present one, the future.
After(p, t, f, k, y) ==
  /\ y \in Seq(Words) /\ Len(y) = k + Len(f)
  /\ \A i \in 1..(k - 1) : y[i] = p[Len(p) - k + 1 + i]
  /\ y[k] = t
  /\ \A i \in 1..Len(f) : y[k + i] = f[i]

\* What is before the text that is k steps forth, and what is left after it.
Before(p, t, f, k, x) ==
  /\ x \in Seq(Words) /\ Len(x) = Len(p) + k
  /\ \A i \in 1..Len(p) : x[i] = p[i]
  /\ x[Len(p) + 1] = t
  /\ \A i \in 2..k : x[Len(p) + i] = f[i - 1]
Ahead(f, k, z) ==
  z \in Seq(Words) /\ Len(z) = Len(f) - k /\ \A i \in 1..Len(z) : z[i] = f[k + i]

\* k steps back: the texts above the one landed on are what can be redone.
BackOn(line, p, k, y) ==
  /\ SubSeq(line, 1, Len(p) - k) = Below(p, k)
  /\ line[Len(p) - k + 1] = p[Len(p) - k + 1]
  /\ SubSeq(line, Len(p) - k + 2, Len(line)) = y

\* Such a step is one back on the line.
LEMMA BackIs ==
  ASSUME NEW p \in Seq(Words), NEW t \in Words, NEW f \in Seq(Words), NEW k \in 1..Len(p),
         NEW y, After(p, t, f, k, y)
  PROVE  BackOn(LineOf(p, t, f), p, k, y)
<1>. DEFINE line == LineOf(p, t, f)
<1>1. /\ line \in Seq(Words) /\ Len(line) = Len(p) + 1 + Len(f)
      /\ \A i \in 1..Len(p) : line[i] = p[i]
      /\ line[Len(p) + 1] = t
      /\ \A i \in 1..Len(f) : line[Len(p) + 1 + i] = f[i]
  BY LineIs
<1>. HIDE DEF line
<1>0. /\ y \in Seq(Words) /\ Len(y) = k + Len(f) /\ y[k] = t
      /\ \A i \in 1..(k - 1) : y[i] = p[Len(p) - k + 1 + i]
      /\ \A i \in 1..Len(f) : y[k + i] = f[i]
  BY DEF After
<1>2. Len(p) \in Nat /\ Len(f) \in Nat /\ k \in Nat /\ k >= 1 /\ k <= Len(p)
  BY LenProperties
<1>. DEFINE n == Len(p) - k
            q == Below(p, k)
<1>3. SubSeq(line, 1, n) = q
  <2>1. q \in Seq(Words) /\ Len(q) = n /\ \A i \in 1..n : q[i] = p[i]
    BY <1>2, FrontType
  <2>2. n \in Nat /\ n <= Len(p)
    BY <1>2
  <2>. HIDE DEF n, q
  <2>3. \A i \in 1..Len(q) : q[i] = line[1 + i - 1]
    BY <1>1, <1>2, <2>1, <2>2
  <2>4. 1 \in Nat /\ n <= Len(line) /\ 1 <= n + 1 /\ Len(q) = n - 1 + 1
    BY <1>1, <1>2, <2>1, <2>2
  <2>. QED BY <1>1, <2>1, <2>2, <2>3, <2>4, PartIs
<1>4. line[n + 1] = p[n + 1]
  <2>. DEFINE e == n + 1
  <2>1. e \in 1..Len(p)
    BY <1>2
  <2>. HIDE DEF e
  <2>2. line[e] = p[e]
    BY <1>1, <2>1
  <2>. QED BY <2>2 DEF e
<1>5. SubSeq(line, n + 2, Len(line)) = y
  <2>. DEFINE m == n + 2
              e == Len(line)
  <2>1. /\ m \in Nat /\ m >= 1 /\ e \in Nat /\ e <= Len(line) /\ m <= e + 1
        /\ Len(y) = e - m + 1
    BY <1>0, <1>1, <1>2
  <2>2. ASSUME NEW i \in 1..Len(y) PROVE y[i] = line[m + i - 1]
    <3>1. CASE i \in 1..(k - 1)
      <4>1. m + i - 1 = Len(p) - k + 1 + i /\ m + i - 1 \in 1..Len(p)
        BY <1>0, <1>2, <3>1
      <4>. QED BY <1>0, <1>1, <3>1, <4>1
    <3>2. CASE i = k
      <4>1. m + i - 1 = Len(p) + 1
        BY <1>0, <1>2, <3>2
      <4>. QED BY <1>0, <1>1, <3>2, <4>1
    <3>3. CASE i - k \in 1..Len(f)
      <4>. DEFINE j == i - k
      <4>1. m + i - 1 = Len(p) + 1 + j /\ k + j = i /\ j \in 1..Len(f)
        BY <1>2, <3>3
      <4>. HIDE DEF j
      <4>2. line[Len(p) + 1 + j] = f[j] /\ y[k + j] = f[j]
        BY <1>0, <1>1, <4>1
      <4>. QED BY <4>1, <4>2
    <3>. QED BY <1>0, <1>2, <3>1, <3>2, <3>3
  <2>. HIDE DEF m
  <2>3. SubSeq(line, m, e) = y
    <3>. HIDE DEF e
    <3>. QED BY <1>0, <1>1, <2>1, <2>2, PartIs
  <2>. QED BY <2>3 DEF m, e
<1>. QED BY <1>3, <1>4, <1>5 DEF line, BackOn

\* k steps forth: what was gone back over is before the text again.
ForthOn(line, p, f, k, x, z) ==
  /\ SubSeq(line, 1, Len(p) + k) = x
  /\ line[Len(p) + k + 1] = f[k]
  /\ SubSeq(line, Len(p) + k + 2, Len(line)) = z

\* Such a step is one forth on the line.
LEMMA ForthIs ==
  ASSUME NEW p \in Seq(Words), NEW t \in Words, NEW f \in Seq(Words), NEW k \in 1..Len(f),
         NEW x, Before(p, t, f, k, x), NEW z, Ahead(f, k, z)
  PROVE  ForthOn(LineOf(p, t, f), p, f, k, x, z)
<1>. DEFINE line == LineOf(p, t, f)
<1>1. /\ line \in Seq(Words) /\ Len(line) = Len(p) + 1 + Len(f)
      /\ \A i \in 1..Len(p) : line[i] = p[i]
      /\ line[Len(p) + 1] = t
      /\ \A i \in 1..Len(f) : line[Len(p) + 1 + i] = f[i]
  BY LineIs
<1>. HIDE DEF line
<1>0. /\ x \in Seq(Words) /\ Len(x) = Len(p) + k /\ x[Len(p) + 1] = t
      /\ \A i \in 1..Len(p) : x[i] = p[i]
      /\ \A i \in 2..k : x[Len(p) + i] = f[i - 1]
      /\ z \in Seq(Words) /\ Len(z) = Len(f) - k /\ \A i \in 1..Len(z) : z[i] = f[k + i]
  BY DEF Before, Ahead
<1>2. Len(p) \in Nat /\ Len(f) \in Nat /\ k \in Nat /\ k >= 1 /\ k <= Len(f)
  BY LenProperties
<1>3. SubSeq(line, 1, Len(p) + k) = x
  <2>. DEFINE n == Len(p) + k
  <2>1. 1 \in Nat /\ n \in Nat /\ n <= Len(line) /\ 1 <= n + 1 /\ Len(x) = n - 1 + 1
    BY <1>0, <1>1, <1>2
  <2>2. ASSUME NEW i \in 1..Len(x) PROVE x[i] = line[1 + i - 1]
    <3>1. CASE i \in 1..Len(p)
      BY <1>0, <1>1, <1>2, <3>1
    <3>2. CASE i = Len(p) + 1
      BY <1>0, <1>1, <1>2, <3>2
    <3>0. i \in 1..Len(p) \/ i = Len(p) + 1 \/ i - Len(p) \in 2..k
      <4>1. i \in 1..(Len(p) + k)
        BY <1>0
      <4>. QED BY <1>2, <4>1
    <3>3. CASE i - Len(p) \in 2..k
      <4>. DEFINE j == i - Len(p)
      <4>1. j \in 2..k /\ i = Len(p) + j /\ j - 1 \in 1..Len(f) /\ 1 + i - 1 = Len(p) + 1 + (j - 1)
        BY <1>0, <1>2, <3>3
      <4>. HIDE DEF j
      <4>. QED BY <1>0, <1>1, <4>1
    <3>. QED BY <3>0, <3>1, <3>2, <3>3
  <2>. HIDE DEF n
  <2>. QED BY <1>0, <1>1, <2>1, <2>2, PartIs DEF n
<1>4. line[Len(p) + k + 1] = f[k]
  <2>1. Len(p) + k + 1 = Len(p) + 1 + k
    BY <1>0, <1>2
  <2>. QED BY <1>0, <1>1, <2>1
<1>5. SubSeq(line, Len(p) + k + 2, Len(line)) = z
  <2>. DEFINE m == Len(p) + k + 2
              e == Len(line)
  <2>1. /\ m \in Nat /\ m >= 1 /\ e \in Nat /\ e <= Len(line) /\ m <= e + 1
        /\ Len(z) = e - m + 1
    BY <1>0, <1>1, <1>2
  <2>2. ASSUME NEW i \in 1..Len(z) PROVE z[i] = line[m + i - 1]
    <3>1. m + i - 1 = Len(p) + 1 + (k + i) /\ k + i \in 1..Len(f)
      BY <1>0, <1>2
    <3>. QED BY <1>0, <1>1, <3>1
  <2>. HIDE DEF m
  <2>3. SubSeq(line, m, e) = z
    <3>. HIDE DEF e
    <3>. QED BY <1>0, <1>1, <2>1, <2>2, PartIs
  <2>. QED BY <2>3 DEF m, e
<1>. QED BY <1>3, <1>4, <1>5 DEF line, ForthOn

\* The texts of a redo stack, as they come.
LEMMA ReversedTexts ==
  ASSUME NEW s \in Seq(Snaps)
  PROVE  /\ Reverse(TextsOf(s)) \in Seq(Words) /\ Len(Reverse(TextsOf(s))) = Len(s)
         /\ \A i \in 1..Len(s) : Reverse(TextsOf(s))[i] = s[(Len(s) - i) + 1].text
<1>1. /\ TextsOf(s) \in Seq(Words) /\ Len(TextsOf(s)) = Len(s) /\ Len(s) \in Nat
      /\ \A i \in 1..Len(s) : TextsOf(s)[i] = s[i].text
  BY TextsType, LenProperties
<1>2. /\ Reverse(TextsOf(s)) \in Seq(Words) /\ Len(Reverse(TextsOf(s))) = Len(s)
      /\ \A i \in 1..Len(s) : Reverse(TextsOf(s))[i] = TextsOf(s)[(Len(s) - i) + 1]
  BY <1>1, ReverseType
<1>3. \A i \in 1..Len(s) : (Len(s) - i) + 1 \in 1..Len(s)
  BY <1>1
<1>. QED BY <1>1, <1>2, <1>3

\* The texts of a stack without its top.
LEMMA TextsOfBelow ==
  ASSUME NEW s \in Seq(Snaps), NEW k \in Nat, k <= Len(s)
  PROVE  TextsOf(Below(s, k)) = Below(TextsOf(s), k)
<1>1. /\ TextsOf(s) \in Seq(Words) /\ Len(TextsOf(s)) = Len(s) /\ Len(s) \in Nat
      /\ \A i \in 1..Len(s) : TextsOf(s)[i] = s[i].text
  BY TextsType, LenProperties
<1>2. /\ Below(s, k) \in Seq(Snaps) /\ Len(Below(s, k)) = Len(s) - k
      /\ \A i \in 1..(Len(s) - k) : Below(s, k)[i] = s[i]
  BY FrontType
<1>3. /\ Below(TextsOf(s), k) \in Seq(Words) /\ Len(Below(TextsOf(s), k)) = Len(s) - k
      /\ \A i \in 1..(Len(s) - k) : Below(TextsOf(s), k)[i] = TextsOf(s)[i]
  BY <1>1, FrontType
<1>4. /\ TextsOf(Below(s, k)) \in Seq(Words) /\ Len(TextsOf(Below(s, k))) = Len(s) - k
      /\ \A i \in 1..(Len(s) - k) : TextsOf(Below(s, k))[i] = Below(s, k)[i].text
  BY <1>2, TextsType
<1>5. ASSUME NEW i \in 1..(Len(s) - k) PROVE TextsOf(Below(s, k))[i] = Below(TextsOf(s), k)[i]
  <2>1. i \in 1..Len(s)
    BY <1>1
  <2>. QED BY <1>1, <1>2, <1>3, <1>4, <2>1
<1>. QED BY <1>3, <1>4, <1>5, SeqEqual

\* Places on the way.
LEMMA Indices ==
  ASSUME NEW k \in Nat, NEW n \in Nat, NEW m \in Nat, k <= n, NEW i \in 1..(k - 1)
  PROVE  /\ k - i + 1 \in 2..k /\ i \in 1..(m + k)
         /\ (m + k - i) + 1 = m + (k - i + 1)
         /\ m + (k - i + 1) \in 1..(m + k) /\ ~(m + (k - i + 1) <= m)
         /\ (m + (k - i + 1)) - m = k - i + 1
         /\ n - (k - i + 1) + 2 = n - k + 1 + i
         /\ n - k + 1 + i \in 1..n
OBVIOUS

\* The indices of what could be redone before.
LEMMA MoreIndices ==
  ASSUME NEW k \in Nat, NEW m \in Nat, NEW i \in 1..m
  PROVE  /\ k + i \in 1..(m + k) /\ (m + k - (k + i)) + 1 = (m - i) + 1
         /\ (m - i) + 1 \in 1..(m + k) /\ (m - i) + 1 <= m
OBVIOUS

\* A buffer with other stacks, another text and a later version.
Moved(d, u, r, x, k, c) ==
  /\ c \in Buffers /\ c.undo = u /\ c.redo = r /\ c.text = x.text
  /\ c.version = d.version + k /\ c.saved = d.saved /\ c.group = d.group

\* What a jump over several snapshots makes of a buffer.
LEMMA SteppedIs ==
  ASSUME NEW d \in Buffers, NEW u \in Seq(Snaps), NEW r \in Seq(Snaps), NEW x \in Snaps,
         NEW k \in Nat
  PROVE  Moved(d, u, r, x, k, Stepped(d, u, r, x, k))
<1>. DEFINE c == Stepped(d, u, r, x, k)
            e == [d EXCEPT !.undo = u, !.redo = r]
            t == x.text
            col == x.col
            v == d.version + k
<1>1. /\ e \in Buffers /\ e.undo = u /\ e.redo = r /\ e.saved = d.saved
      /\ e.group = d.group /\ e.version = d.version
  BY DEF Buffers
<1>2. c = [e EXCEPT !.text = t, !.col = col, !.version = v]
  BY DEF Stepped, Buffers
<1>3. t \in Words /\ col \in Nat /\ v \in Nat
  BY BufferTypes DEF Snaps
<1>. HIDE DEF c, e, t, col, v
<1>4. c \in Buffers
  BY <1>1, <1>2, <1>3 DEF Buffers
<1>5. /\ c.undo = e.undo /\ c.redo = e.redo /\ c.text = t /\ c.version = v
      /\ c.saved = e.saved /\ c.group = e.group
  BY <1>1, <1>2 DEF Buffers
<1>6. Moved(d, u, r, x, k, c)
  BY <1>1, <1>4, <1>5 DEF t, v, Moved
<1>. QED BY <1>6 DEF c

\* Undo ends the group, and goes back as far as asked and possible.
LEMMA UndoTimesIs ==
  ASSUME NEW b, Good(b), NEW n \in Nat, NEW c, c = UndoTimes(b, n)
  PROVE  /\ Good(c) /\ Later(b, c) /\ ~c.group.open
         /\ Same(b, c) \/ \E k \in Nat : Undone(b, c, k)
<1>. DEFINE d == EndGroup(b)
            k == Steps(d.undo, n)
            L == Left(d, d.undo, k)
            at == Landed(d.undo, k)
<1>1. Good(d) /\ Later(b, d) /\ Same(b, d) /\ ~d.group.open /\ d.version = b.version
  BY EndGroupIs
<1>2. c = IF k = 0 THEN d ELSE Stepped(d, Below(d.undo, k), d.redo \o L, at, k)
  BY DEF UndoTimes
<1>3. /\ d \in Buffers /\ d.undo \in Seq(Snaps) /\ d.redo \in Seq(Snaps) /\ d.version \in Nat
      /\ d.text \in Words /\ d.saved \in Nat /\ d.saved <= d.version
      /\ Len(d.undo) \in Nat /\ Len(d.redo) \in Nat /\ Len(d.undo) <= UndoCap
  <2>. HIDE DEF d
  <2>. QED BY <1>1, BufferTypes DEF Good
<1>4. k \in Nat /\ k <= Len(d.undo)
  <2>. HIDE DEF d
  <2>. QED BY <1>3 DEF Steps
<1>. HIDE DEF d, k, L, at
<1>5. CASE k = 0
  BY <1>1, <1>2, <1>5
<1>6. CASE k # 0
  <2>0. k \in 1..Len(d.undo)
    BY <1>4, <1>6
  <2>1. /\ L \in Seq(Snaps) /\ Len(L) = k /\ L[1].text = d.text
        /\ \A j \in 2..k : L[j].text = d.undo[Len(d.undo) - j + 2].text
    BY <1>3, <2>0, LeftIs DEF L
  <2>2. /\ Below(d.undo, k) \in Seq(Snaps) /\ Len(Below(d.undo, k)) = Len(d.undo) - k
        /\ \A i \in 1..(Len(d.undo) - k) : Below(d.undo, k)[i] = d.undo[i]
    BY <1>3, <1>4, FrontType
  <2>3. at \in Snaps /\ at.text = d.undo[Len(d.undo) - k + 1].text
    BY <1>3, <2>0, LandedIs DEF at
  <2>5. /\ d.redo \o L \in Seq(Snaps) /\ Len(d.redo \o L) = Len(d.redo) + k
        /\ \A i \in 1..(Len(d.redo) + k) :
             (d.redo \o L)[i] = IF i <= Len(d.redo) THEN d.redo[i] ELSE L[i - Len(d.redo)]
    BY <1>3, <2>1, ConcatProperties
  <2>. DEFINE u == Below(d.undo, k)
              r == d.redo \o L
              t == at.text
  <2>6. c = Stepped(d, u, r, at, k)
    BY <1>2, <1>6
  <2>7. u \in Seq(Snaps) /\ r \in Seq(Snaps)
    BY <2>2, <2>5
  <2>. HIDE DEF u, r
  <2>8. /\ c \in Buffers /\ c.undo = u /\ c.redo = r /\ c.text = t
        /\ c.version = d.version + k /\ c.saved = d.saved /\ c.group = d.group
    <3>1. d \in Buffers /\ k \in Nat /\ at \in Snaps
      BY <1>3, <1>4, <2>3
    <3>2. Moved(d, u, r, at, k, Stepped(d, u, r, at, k))
      BY <2>7, <3>1, SteppedIs
    <3>. QED BY <2>6, <3>2 DEF Moved
  <2>. HIDE DEF t
  <2>10. Good(c) /\ Later(b, c) /\ ~c.group.open
    <3>1. Len(c.undo) <= UndoCap
      BY <1>3, <1>4, <2>2, <2>8, UndoAssumption DEF u
    <3>2. ~c.group.open
      BY <1>1, <2>8
    <3>3. d.version < c.version /\ c.saved <= c.version /\ c.saved = b.saved
      <4>1. d.saved = b.saved
        BY <1>1 DEF Later
      <4>. QED BY <1>3, <1>4, <1>6, <2>8, <4>1
    <3>4. Good(c)
      BY <2>8, <3>1, <3>2, <3>3 DEF Good
    <3>5. c.version \in Nat /\ b.version \in Nat /\ b.version < c.version
      BY <1>1, <1>3, <1>4, <2>8, <3>3
    <3>6. Later(b, c)
      BY <3>3, <3>5 DEF Later
    <3>. QED BY <3>2, <3>4, <3>6
  <2>11. Undone(d, c, k)
    <3>1. ~Changed(d) /\ ~Changed(c) /\ Len(c.undo) <= UndoCap
      BY <1>1, <2>8, <2>10 DEF Changed, Good
    <3>. DEFINE p == TextsOf(d.undo)
                f == Reverse(TextsOf(d.redo))
                y == Reverse(TextsOf(r))
    <3>2. Past(d) = p /\ Future(d) = f /\ Past(c) = TextsOf(u) /\ Future(c) = y
      BY <1>3, <2>8, <3>1, HistoryIs
    <3>3. /\ p \in Seq(Words) /\ Len(p) = Len(d.undo)
          /\ \A i \in 1..Len(d.undo) : p[i] = d.undo[i].text
      BY <1>3, TextsType
    <3>4. /\ f \in Seq(Words) /\ Len(f) = Len(d.redo)
          /\ \A i \in 1..Len(d.redo) : f[i] = d.redo[(Len(d.redo) - i) + 1].text
      BY <1>3, ReversedTexts
    <3>5. /\ y \in Seq(Words) /\ Len(y) = Len(d.redo) + k
          /\ \A i \in 1..(Len(d.redo) + k) : y[i] = r[(Len(d.redo) + k - i) + 1].text
      <4>1. r \in Seq(Snaps) /\ Len(r) = Len(d.redo) + k
        BY <2>5 DEF r
      <4>2. /\ y \in Seq(Words) /\ Len(y) = Len(r)
            /\ \A i \in 1..Len(r) : y[i] = r[(Len(r) - i) + 1].text
        BY <4>1, ReversedTexts
      <4>. QED BY <1>3, <1>4, <4>1, <4>2
    <3>. HIDE DEF p, f, y
    <3>6. ASSUME NEW i \in 1..(k - 1) PROVE y[i] = p[Len(p) - k + 1 + i]
      <4>. DEFINE j == k - i + 1
      <4>1. /\ j \in 2..k /\ i \in 1..(Len(d.redo) + k)
            /\ (Len(d.redo) + k - i) + 1 = Len(d.redo) + j
            /\ Len(d.redo) + j \in 1..(Len(d.redo) + k) /\ ~(Len(d.redo) + j <= Len(d.redo))
            /\ (Len(d.redo) + j) - Len(d.redo) = j
            /\ Len(d.undo) - j + 2 = Len(d.undo) - k + 1 + i
            /\ Len(d.undo) - k + 1 + i \in 1..Len(d.undo)
        BY <1>3, <1>4, Indices
      <4>. HIDE DEF j
      <4>2. y[i] = r[Len(d.redo) + j].text
        BY <3>5, <4>1
      <4>3. r[Len(d.redo) + j] = L[j]
        BY <2>5, <4>1 DEF r
      <4>4. L[j].text = d.undo[Len(d.undo) - k + 1 + i].text
        BY <2>1, <4>1
      <4>. QED BY <3>3, <4>1, <4>2, <4>3, <4>4
    <3>7. y[k] = d.text
      <4>1. /\ k \in 1..(Len(d.redo) + k) /\ (Len(d.redo) + k - k) + 1 = Len(d.redo) + 1
            /\ Len(d.redo) + 1 \in 1..(Len(d.redo) + k) /\ ~(Len(d.redo) + 1 <= Len(d.redo))
            /\ (Len(d.redo) + 1) - Len(d.redo) = 1
        BY <1>3, <1>4, <1>6
      <4>2. y[k] = r[Len(d.redo) + 1].text
        BY <3>5, <4>1
      <4>3. r[Len(d.redo) + 1] = L[1]
        BY <2>5, <4>1 DEF r
      <4>. QED BY <2>1, <4>2, <4>3
    <3>8. ASSUME NEW i \in 1..Len(f) PROVE y[k + i] = f[i]
      <4>1. /\ i \in 1..Len(d.redo) /\ k + i \in 1..(Len(d.redo) + k)
            /\ (Len(d.redo) + k - (k + i)) + 1 = (Len(d.redo) - i) + 1
            /\ (Len(d.redo) - i) + 1 \in 1..(Len(d.redo) + k)
            /\ (Len(d.redo) - i) + 1 <= Len(d.redo)
        <5>1. i \in 1..Len(d.redo)
          BY <3>4
        <5>. QED BY <1>3, <1>4, <5>1, MoreIndices
      <4>2. y[k + i] = r[(Len(d.redo) - i) + 1].text
        BY <3>5, <4>1
      <4>3. r[(Len(d.redo) - i) + 1] = d.redo[(Len(d.redo) - i) + 1]
        BY <2>5, <4>1 DEF r
      <4>. QED BY <3>4, <4>1, <4>2, <4>3
    <3>9. /\ SubSeq(Line(d), 1, Len(p) - k) = Below(p, k)
          /\ Line(d)[Len(p) - k + 1] = p[Len(p) - k + 1]
          /\ SubSeq(Line(d), Len(p) - k + 2, Len(Line(d))) = y
      <4>1. Line(d) = LineOf(p, d.text, f)
        BY <3>2 DEF Line
      <4>2. k \in 1..Len(p) /\ Len(y) = k + Len(f)
        BY <1>3, <1>4, <2>0, <3>3, <3>4, <3>5
      <4>3. After(p, d.text, f, k, y)
        BY <3>5, <3>6, <3>7, <3>8, <4>2 DEF After
      <4>4. p \in Seq(Words) /\ f \in Seq(Words) /\ d.text \in Words /\ k \in 1..Len(p)
        BY <1>3, <3>3, <3>4, <4>2
      <4>5. BackOn(LineOf(p, d.text, f), p, k, y)
        BY <4>3, <4>4, BackIs
      <4>. QED BY <4>1, <4>5 DEF BackOn
    <3>10. TextsOf(u) = Below(p, k)
      BY <1>3, <1>4, TextsOfBelow DEF p, u
    <3>11. t = p[Len(p) - k + 1]
      <4>1. Len(d.undo) - k + 1 \in 1..Len(d.undo)
        BY <1>3, <1>4, <1>6
      <4>. QED BY <2>3, <3>3, <4>1 DEF t
    <3>. QED BY <2>0, <2>8, <3>2, <3>3, <3>9, <3>10, <3>11 DEF Undone
  <2>12. Undone(b, c, k)
    BY <1>1, <2>11 DEF Same, Undone, Line
  <2>. QED BY <1>4, <2>10, <2>12
<1>. QED BY <1>5, <1>6

\* Places on the way forth.
LEMMA ForthIndices ==
  ASSUME NEW k \in Nat, NEW n \in Nat, NEW m \in Nat, k <= m, NEW i \in 2..k
  PROVE  /\ n + i \in 1..(n + k) /\ ~(n + i <= n) /\ (n + i) - n = i
         /\ i - 1 \in 1..m /\ (m - (i - 1)) + 1 = m - i + 2
OBVIOUS

\* The indices of what can still be redone.
LEMMA AheadIndices ==
  ASSUME NEW k \in Nat, NEW m \in Nat, k <= m, NEW i \in 1..(m - k)
  PROVE  /\ k + i \in 1..m /\ (m - (k + i)) + 1 = ((m - k) - i) + 1
         /\ ((m - k) - i) + 1 \in 1..(m - k)
OBVIOUS

\* Redo goes forth as far as asked and possible; an open group stays.
LEMMA RedoTimesIs ==
  ASSUME NEW b, Good(b), NEW n \in Nat, NEW c, c = RedoTimes(b, n)
  PROVE  /\ Good(c) /\ Later(b, c) /\ c.group.open = b.group.open
         /\ ~b.group.open => Same(b, c) \/ \E k \in Nat : Redone(b, c, k)
<1>. DEFINE k == Steps(b.redo, n)
            L == Left(b, b.redo, k)
            at == Landed(b.redo, k)
            w == b.undo \o L
<1>1. /\ b \in Buffers /\ b.undo \in Seq(Snaps) /\ b.redo \in Seq(Snaps) /\ b.version \in Nat
      /\ b.text \in Words /\ b.saved \in Nat /\ b.saved <= b.version
      /\ Len(b.undo) \in Nat /\ Len(b.redo) \in Nat /\ Len(b.undo) <= UndoCap
  BY BufferTypes DEF Good
<1>2. c = IF k = 0 THEN b ELSE Stepped(b, Capped(w), Below(b.redo, k), at, k)
  BY DEF RedoTimes
<1>3. k \in Nat /\ k <= Len(b.redo)
  BY <1>1 DEF Steps
<1>. HIDE DEF k, L, at, w
<1>4. CASE k = 0
  BY <1>1, <1>2, <1>4 DEF Later, Same
<1>5. CASE k # 0
  <2>0. k \in 1..Len(b.redo)
    BY <1>3, <1>5
  <2>1. /\ L \in Seq(Snaps) /\ Len(L) = k /\ L[1].text = b.text
        /\ \A j \in 2..k : L[j].text = b.redo[Len(b.redo) - j + 2].text
    BY <1>1, <2>0, LeftIs DEF L
  <2>2. /\ w \in Seq(Snaps) /\ Len(w) = Len(b.undo) + k
        /\ \A i \in 1..(Len(b.undo) + k) :
             w[i] = IF i <= Len(b.undo) THEN b.undo[i] ELSE L[i - Len(b.undo)]
    BY <1>1, <2>1, ConcatProperties DEF w
  <2>3. Capped(w) \in Seq(Snaps) /\ Len(Capped(w)) <= UndoCap
    <3>1. Len(Capped(w)) = IF Len(w) <= UndoCap THEN Len(w) ELSE UndoCap
      BY <2>2, CappedIs
    <3>2. Len(w) \in Nat
      BY <1>1, <1>3, <2>2
    <3>. QED BY <2>2, <3>1, <3>2, CappedIs, UndoAssumption
  <2>4. /\ Below(b.redo, k) \in Seq(Snaps) /\ Len(Below(b.redo, k)) = Len(b.redo) - k
        /\ \A i \in 1..(Len(b.redo) - k) : Below(b.redo, k)[i] = b.redo[i]
    BY <1>1, <1>3, FrontType
  <2>5. at \in Snaps /\ at.text = b.redo[Len(b.redo) - k + 1].text
    BY <1>1, <2>0, LandedIs DEF at
  <2>. DEFINE u == Capped(w)
              r == Below(b.redo, k)
  <2>6. u \in Seq(Snaps) /\ r \in Seq(Snaps) /\ c = Stepped(b, u, r, at, k)
    BY <1>2, <1>5, <2>3, <2>4
  <2>. HIDE DEF u, r
  <2>7. /\ c \in Buffers /\ c.undo = u /\ c.redo = r /\ c.text = at.text
        /\ c.version = b.version + k /\ c.saved = b.saved /\ c.group = b.group
    <3>1. Moved(b, u, r, at, k, Stepped(b, u, r, at, k))
      BY <1>1, <1>3, <2>5, <2>6, SteppedIs
    <3>. QED BY <2>6, <3>1 DEF Moved
  <2>8. b.version < c.version /\ b.version <= c.version /\ c.saved <= c.version
    BY <1>1, <1>3, <1>5, <2>7
  <2>9. Good(c) /\ Later(b, c) /\ c.group.open = b.group.open
    <3>1. c.group.open => c.group.at <= c.version /\ c.group.at # c.version
      <4>1. b.group.open => b.group.at \in Nat /\ b.group.at <= b.version
        BY <1>1, BufferTypes DEF Good
      <4>. QED BY <1>1, <1>3, <1>5, <2>7, <4>1
    <3>. QED BY <1>1, <2>3, <2>7, <2>8, <3>1 DEF Good, Later, u
  <2>10. ASSUME ~b.group.open PROVE Redone(b, c, k)
    <3>1. ~Changed(b) /\ ~Changed(c) /\ Len(c.undo) <= UndoCap
      BY <2>7, <2>9, <2>10 DEF Changed, Good
    <3>. DEFINE p == TextsOf(b.undo)
                f == Reverse(TextsOf(b.redo))
                x == TextsOf(w)
                z == Reverse(TextsOf(r))
    <3>2. Past(b) = p /\ Future(b) = f /\ Past(c) = Capped(x) /\ Future(c) = z
      <4>1. Past(b) = TextsOf(b.undo) /\ Future(b) = Reverse(TextsOf(b.redo))
        BY <1>1, <3>1, HistoryIs
      <4>2. Past(c) = TextsOf(c.undo) /\ Future(c) = Reverse(TextsOf(c.redo))
        BY <2>7, <3>1, HistoryIs
      <4>3. TextsOf(Capped(w)) = Capped(TextsOf(w))
        BY <2>2, TextsOfCapped
      <4>. QED BY <2>7, <4>1, <4>2, <4>3 DEF u
    <3>3. /\ p \in Seq(Words) /\ Len(p) = Len(b.undo)
          /\ \A i \in 1..Len(b.undo) : p[i] = b.undo[i].text
      BY <1>1, TextsType
    <3>4. /\ f \in Seq(Words) /\ Len(f) = Len(b.redo)
          /\ \A i \in 1..Len(b.redo) : f[i] = b.redo[(Len(b.redo) - i) + 1].text
      BY <1>1, ReversedTexts
    <3>5. /\ x \in Seq(Words) /\ Len(x) = Len(b.undo) + k
          /\ \A i \in 1..(Len(b.undo) + k) : x[i] = w[i].text
      BY <2>2, TextsType
    <3>6. /\ z \in Seq(Words) /\ Len(z) = Len(b.redo) - k
          /\ \A i \in 1..(Len(b.redo) - k) : z[i] = r[((Len(b.redo) - k) - i) + 1].text
      <4>1. r \in Seq(Snaps) /\ Len(r) = Len(b.redo) - k
        BY <2>4 DEF r
      <4>. QED BY <4>1, ReversedTexts
    <3>. HIDE DEF p, f, x, z
    <3>7. ASSUME NEW i \in 1..Len(p) PROVE x[i] = p[i]
      <4>1. i \in 1..Len(b.undo) /\ i <= Len(b.undo) /\ i \in 1..(Len(b.undo) + k)
        BY <1>1, <1>3, <3>3
      <4>. QED BY <2>2, <3>3, <3>5, <4>1
    <3>8. x[Len(p) + 1] = b.text
      <4>1. /\ Len(b.undo) + 1 \in 1..(Len(b.undo) + k) /\ ~(Len(b.undo) + 1 <= Len(b.undo))
            /\ (Len(b.undo) + 1) - Len(b.undo) = 1
        BY <1>1, <1>3, <1>5
      <4>2. x[Len(b.undo) + 1] = w[Len(b.undo) + 1].text /\ w[Len(b.undo) + 1] = L[1]
        BY <2>2, <3>5, <4>1
      <4>. QED BY <2>1, <3>3, <4>2
    <3>9. ASSUME NEW i \in 2..k PROVE x[Len(p) + i] = f[i - 1]
      <4>1. /\ Len(b.undo) + i \in 1..(Len(b.undo) + k) /\ ~(Len(b.undo) + i <= Len(b.undo))
            /\ (Len(b.undo) + i) - Len(b.undo) = i
            /\ i - 1 \in 1..Len(b.redo) /\ (Len(b.redo) - (i - 1)) + 1 = Len(b.redo) - i + 2
        BY <1>1, <1>3, ForthIndices
      <4>2. x[Len(b.undo) + i] = w[Len(b.undo) + i].text /\ w[Len(b.undo) + i] = L[i]
        BY <2>2, <3>5, <4>1
      <4>3. f[i - 1] = b.redo[Len(b.redo) - i + 2].text
        BY <3>4, <4>1
      <4>. QED BY <2>1, <3>3, <4>2, <4>3
    <3>10. ASSUME NEW i \in 1..Len(z) PROVE z[i] = f[k + i]
      <4>0. i \in 1..(Len(b.redo) - k)
        BY <3>6
      <4>1. /\ k + i \in 1..Len(b.redo)
            /\ (Len(b.redo) - (k + i)) + 1 = ((Len(b.redo) - k) - i) + 1
            /\ ((Len(b.redo) - k) - i) + 1 \in 1..(Len(b.redo) - k)
        BY <1>1, <1>3, <4>0, AheadIndices
      <4>2. z[i] = b.redo[((Len(b.redo) - k) - i) + 1].text
        BY <2>4, <3>6, <4>0, <4>1 DEF r
      <4>. QED BY <3>4, <4>1, <4>2
    <3>11. Before(p, b.text, f, k, x) /\ Ahead(f, k, z)
      BY <3>3, <3>4, <3>5, <3>6, <3>7, <3>8, <3>9, <3>10 DEF Before, Ahead
    <3>12. p \in Seq(Words) /\ f \in Seq(Words) /\ b.text \in Words /\ k \in 1..Len(f)
      BY <1>1, <2>0, <3>3, <3>4
    <3>13. ForthOn(LineOf(p, b.text, f), p, f, k, x, z)
      BY <3>11, <3>12, ForthIs
    <3>14. Line(b) = LineOf(p, b.text, f)
      BY <3>2 DEF Line
    <3>15. c.text = f[k]
      BY <2>0, <2>5, <2>7, <3>4
    <3>. QED BY <3>2, <3>12, <3>13, <3>14, <3>15 DEF ForthOn, Redone
  <2>. QED BY <1>3, <2>9, <2>10
<1>. QED BY <1>4, <1>5

-----------------------------------------------------------------------------
(* The engine: its types, and what a key makes of it and of the buffer.    *)

Modes == {"Normal", "Insert", "Command"}
Engines ==
  [mode : Modes, count : Nat, opcount : Nat, op : BOOLEAN,
   awaiting : {"none", "reg", "play", "find", "object"},
   keybuf : Seq(Keys), kbver : Nat, norepeat : BOOLEAN, lastChange : Seq(Keys),
   replaying : BOOLEAN, recording : BOOLEAN, recorded : Seq(Keys), macro : Seq(Keys),
   lastMacro : BOOLEAN, steps : Nat]
Frames ==
  [what : {"dot", "macro"}, of : Seq(Keys), runs : Nat \ {0}, i : Nat \ {0}, was : BOOLEAN]
States == [v : Engines, b : Buffers, save : BOOLEAN, play : Seq(Frames)]

\* An engine and a buffer a key may come to.
Ready(s) ==
  /\ s \in States /\ s.save = FALSE /\ s.play = <<>>
  /\ Good(s.b) /\ s.b.col <= Len(s.b.text)

\* The group is open while an insert session is on: no tap has led away from it.
InSession(s) == s.b.group.open <=> s.v.mode = "Insert"

\* What a command may make of the history.
Becomes(mode, b, c) ==
  \/ Same(b, c) \/ Recorded(b, c)
  \/ mode = "Insert" /\ Amended(b, c)
  \/ mode = "Normal" /\ \E k \in Nat : Undone(b, c, k) \/ Redone(b, c, k)

\* The replay that a key starts, if any, has room.
Plays(t) ==
  t.play = <<>> \/ \E f \in Frames : t.play = <<f>> /\ (f.what = "macro" => Depth < MaxReplayDepth)

\* What a key makes of s.
Reply(s, t) ==
  /\ t \in States /\ Good(t.b) /\ Plays(t)
  /\ IF t.save THEN t.b.saved = t.b.version /\ t.b.text = s.b.text ELSE Later(s.b, t.b)
  /\ InSession(s) => InSession(t) /\ Becomes(s.v.mode, s.b, t.b)

\* The parts of a state that a key comes to.
LEMMA ReadyIs ==
  ASSUME NEW s, Ready(s)
  PROVE  /\ s.v \in Engines /\ s.b \in Buffers /\ Good(s.b) /\ s.b.col \in Nat
         /\ s.b.text \in Words /\ Len(s.b.text) \in Nat /\ s.b.col <= Len(s.b.text)
         /\ s.v.mode \in Modes /\ s.v.count \in Nat /\ s.v.opcount \in Nat /\ s.v.op \in BOOLEAN
         /\ s.v.replaying \in BOOLEAN /\ s.v.recording \in BOOLEAN
         /\ s.v.recorded \in Seq(Keys) /\ s.v.macro \in Seq(Keys) /\ s.v.lastChange \in Seq(Keys)
<1>1. s.v \in Engines /\ s.b \in Buffers
  BY DEF Ready, States
<1>2. /\ s.v.mode \in Modes /\ s.v.count \in Nat /\ s.v.opcount \in Nat /\ s.v.op \in BOOLEAN
      /\ s.v.replaying \in BOOLEAN /\ s.v.recording \in BOOLEAN
      /\ s.v.recorded \in Seq(Keys) /\ s.v.macro \in Seq(Keys) /\ s.v.lastChange \in Seq(Keys)
  BY <1>1 DEF Engines
<1>. QED BY <1>1, <1>2, BufferTypes DEF Ready

\* A state with another engine and another buffer.
Put(s, v, b) == [s EXCEPT !.v = v, !.b = b]
Holds(t, v, b) == t \in States /\ t.v = v /\ t.b = b /\ t.save = FALSE /\ t.play = <<>>

LEMMA PutIs ==
  ASSUME NEW s, Ready(s), NEW v \in Engines, NEW b \in Buffers
  PROVE  Holds(Put(s, v, b), v, b)
<1>1. Put(s, v, b) \in States
  BY DEF Ready, States, Put
<1>2. /\ Put(s, v, b).v = v /\ Put(s, v, b).b = b
      /\ Put(s, v, b).save = FALSE /\ Put(s, v, b).play = <<>>
  BY DEF Ready, States, Put
<1>. QED BY <1>1, <1>2 DEF Holds

\* A buffer that is followed by another, in a mode that fits.
LEMMA PutReplies ==
  ASSUME NEW s, Ready(s), NEW v \in Engines, NEW b, Good(b), Later(s.b, b),
         InSession(s) => (b.group.open <=> v.mode = "Insert") /\ Becomes(s.v.mode, s.b, b)
  PROVE  Reply(s, Put(s, v, b))
<1>. DEFINE t == Put(s, v, b)
<1>0. b \in Buffers
  BY DEF Good
<1>1. Holds(t, v, b)
  BY <1>0, PutIs
<1>. HIDE DEF t
<1>2. InSession(s) => InSession(t) /\ Becomes(s.v.mode, s.b, t.b)
  BY <1>1 DEF InSession, Holds
<1>3. Reply(s, t)
  BY <1>1, <1>2 DEF Reply, Plays, Holds
<1>. QED BY <1>3 DEF t

\* A buffer is its own successor.
LEMMA SameSelf ==
  ASSUME NEW b, Good(b) PROVE Later(b, b) /\ Same(b, b) /\ \A m : Becomes(m, b, b)
BY BufferTypes DEF Later, Same, Becomes, Good

\* The buffer stays, and the mode does or is neither before nor after an insert session.
LEMMA TurnReplies ==
  ASSUME NEW s, Ready(s), NEW v \in Engines,
         v.mode = s.v.mode \/ (v.mode # "Insert" /\ s.v.mode # "Insert")
  PROVE  Reply(s, [s EXCEPT !.v = v])
<1>1. [s EXCEPT !.v = v] = Put(s, v, s.b)
  BY DEF Ready, States, Put
<1>2. Good(s.b) /\ Later(s.b, s.b) /\ Becomes(s.v.mode, s.b, s.b)
  BY SameSelf DEF Ready
<1>3. InSession(s) => (s.b.group.open <=> v.mode = "Insert")
  BY DEF InSession
<1>. QED BY <1>1, <1>2, <1>3, PutReplies

\* The pending count, operator and second key are forgotten.
LEMMA ResetIs ==
  ASSUME NEW v \in Engines
  PROVE  /\ Reset(v) \in Engines /\ Reset(v).mode = v.mode
         /\ Reset(v).lastChange = v.lastChange /\ Reset(v).macro = v.macro
<1>1. Reset(v) \in Engines
  BY DEF Reset, Engines
<1>. QED BY <1>1 DEF Reset, Engines

\* Updates of the engine keep its types.
LEMMA EngineIs ==
  ASSUME NEW v \in Engines
  PROVE  /\ \A m \in Modes : [v EXCEPT !.mode = m] \in Engines /\ [v EXCEPT !.mode = m].mode = m
         /\ \A n \in Nat : /\ [v EXCEPT !.count = n] \in Engines
                           /\ [v EXCEPT !.count = n].mode = v.mode
                           /\ [v EXCEPT !.opcount = n] \in Engines
                           /\ [v EXCEPT !.opcount = n].mode = v.mode
         /\ [v EXCEPT !.op = TRUE] \in Engines /\ [v EXCEPT !.op = TRUE].mode = v.mode
         /\ \A a \in {"none", "reg", "play", "find", "object"} :
              /\ [v EXCEPT !.awaiting = a] \in Engines /\ [v EXCEPT !.awaiting = a].mode = v.mode
<1>1. ASSUME NEW m \in Modes
      PROVE  [v EXCEPT !.mode = m] \in Engines /\ [v EXCEPT !.mode = m].mode = m
  BY DEF Engines
<1>2. ASSUME NEW n \in Nat
      PROVE  /\ [v EXCEPT !.count = n] \in Engines /\ [v EXCEPT !.count = n].mode = v.mode
             /\ [v EXCEPT !.opcount = n] \in Engines /\ [v EXCEPT !.opcount = n].mode = v.mode
  BY DEF Engines
<1>3. [v EXCEPT !.op = TRUE] \in Engines /\ [v EXCEPT !.op = TRUE].mode = v.mode
  BY DEF Engines
<1>4. ASSUME NEW a \in {"none", "reg", "play", "find", "object"}
      PROVE  [v EXCEPT !.awaiting = a] \in Engines /\ [v EXCEPT !.awaiting = a].mode = v.mode
  BY DEF Engines
<1>. QED BY <1>1, <1>2, <1>3, <1>4

\* A command is carried out at least once.
LEMMA TotalCountIs == ASSUME NEW v \in Engines PROVE TotalCount(v) \in Nat /\ TotalCount(v) # 0
<1>1. v.count \in Nat /\ v.opcount \in Nat
  BY DEF Engines
<1>2. /\ AtLeastOne(v.count) \in Nat \ {0} /\ AtLeastOne(v.opcount) \in Nat \ {0}
  BY <1>1 DEF AtLeastOne
<1>3. \A m, n \in Nat \ {0} : m * n \in Nat /\ m * n # 0
  OBVIOUS
<1>. QED BY <1>2, <1>3 DEF TotalCount

\* What becomes of the version and of the history in two steps.
LEMMA LaterTwice ==
  ASSUME NEW b, NEW c, NEW d, Good(b), Good(c), Good(d), Later(b, c), Later(c, d)
  PROVE  Later(b, d)
<1>1. b.version \in Nat /\ c.version \in Nat /\ d.version \in Nat
  BY BufferTypes DEF Good
<1>. QED BY <1>1 DEF Later

\* A cursor that moves afterwards does not matter.
LEMMA RecordedThen ==
  ASSUME NEW b, NEW c, NEW d, Recorded(b, c), Same(c, d) \/ Amended(c, d) PROVE Recorded(b, d)
BY DEF Recorded, Same, Amended

LEMMA AmendedThen ==
  ASSUME NEW b, NEW c, NEW d, Amended(b, c), Same(c, d) PROVE Amended(b, d)
BY DEF Amended, Same

LEMMA SameThen ==
  ASSUME NEW b, NEW c, NEW d, Same(b, c), ~Changed(b), Recorded(c, d) PROVE Recorded(b, d)
BY DEF Recorded, Same

LEMMA SameTwice == ASSUME NEW b, NEW c, NEW d, Same(b, c), Same(c, d) PROVE Same(b, d)
BY DEF Same

\* A cursor that moves, and is clamped, changes nothing else.
LEMMA ClampKeeps ==
  ASSUME NEW b, Good(b), NEW e \in BOOLEAN
  PROVE  /\ Good(Clamp(b, e)) /\ Later(b, Clamp(b, e)) /\ Same(b, Clamp(b, e))
         /\ Clamp(b, e).group = b.group /\ Clamp(b, e).text = b.text
         /\ Clamp(b, e).version = b.version /\ Clamp(b, e).saved = b.saved
         /\ Clamp(b, e).col \in 0..Len(Clamp(b, e).text)
<1>1. b \in Buffers
  BY DEF Good
<1>2. /\ Clamp(b, e) \in Buffers /\ Like(b, Clamp(b, e))
      /\ Clamp(b, e).col \in 0..Len(Clamp(b, e).text)
  BY <1>1, ClampIs
<1>. QED BY <1>2, LikeKeeps DEF Like

\* A cursor that moves keeps a buffer good.
LEMMA MoveKeeps ==
  ASSUME NEW b, Good(b), NEW n \in Nat
  PROVE  /\ Good([b EXCEPT !.col = n]) /\ Later(b, [b EXCEPT !.col = n])
         /\ Same(b, [b EXCEPT !.col = n]) /\ [b EXCEPT !.col = n].group = b.group
<1>1. b \in Buffers
  BY DEF Good
<1>. DEFINE c == [b EXCEPT !.col = n]
<1>2. c \in Buffers /\ Like(b, c)
  BY <1>1, MovedIs
<1>. HIDE DEF c
<1>3. Good(c) /\ Later(b, c) /\ Same(b, c) /\ c.group = b.group
  BY <1>2, LikeKeeps DEF Like
<1>. QED BY <1>3 DEF c

\* The first edit of an insert session is a step.
Opens(b, c) ==
  Good(c) /\ Later(b, c) /\ c.group.open /\ Changed(c) /\ (~b.group.open => Recorded(b, c))

LEMMA FirstEditIs ==
  ASSUME NEW b, Good(b), NEW col \in Nat, NEW t \in Words
  PROVE  Opens(b, Edit(BeginGroup(b), col, t))
<1>. DEFINE g == BeginGroup(b)
            c == Edit(g, col, t)
<1>1. /\ Good(g) /\ Later(b, g) /\ Same(b, g) /\ g.group.open
      /\ ~b.group.open => ~Changed(g)
  BY BeginGroupIs
<1>. HIDE DEF g
<1>2. /\ Good(c) /\ Later(g, c) /\ c.group.open = g.group.open /\ (c.group.open => Changed(c))
      /\ IF Changed(g) THEN Amended(g, c) ELSE Recorded(g, c)
  BY <1>1, EditIs
<1>. HIDE DEF c
<1>3. Later(b, c)
  BY <1>1, <1>2, LaterTwice
<1>4. ~b.group.open => Recorded(b, c)
  <2>1. ~b.group.open => ~Changed(b)
    BY DEF Changed
  <2>. QED BY <1>1, <1>2, <2>1, SameThen
<1>5. Opens(b, c)
  BY <1>1, <1>2, <1>3, <1>4 DEF Opens
<1>. QED BY <1>5 DEF c, g

\* Parts of a text.
LEMMA PartOfText ==
  ASSUME NEW t \in Words, NEW m \in Nat, NEW n \in Nat, m >= 1, n <= Len(t)
  PROVE  SubSeq(t, m, n) \in Words
<1>1. Len(t) \in Nat
  BY LenProperties DEF Words
<1>2. m \in Int /\ n \in Int /\ \A i \in m..n : t[i] \in Chars
  BY <1>1, ElementOfSeq DEF Words
<1>. QED BY <1>2, SubSeqProperties DEF Words

\* A text without some of its characters is a text.
LEMMA WithoutIs ==
  ASSUME NEW t \in Words, NEW col \in Nat, NEW n \in Nat, col <= Len(t)
  PROVE  Without(t, col, n) \in Words
<1>1. Len(t) \in Nat
  BY LenProperties DEF Words
<1>2. SubSeq(t, 1, col) \in Words
  BY PartOfText
<1>3. SubSeq(t, col + n + 1, Len(t)) \in Words
  <2>1. col + n + 1 \in Nat /\ col + n + 1 >= 1
    OBVIOUS
  <2>. QED BY <1>1, <2>1, PartOfText
<1>. QED BY <1>2, <1>3, ConcatProperties DEF Without, Words

\* So is one with a character more.
LEMMA WithAtIs ==
  ASSUME NEW t \in Words, NEW col \in Nat, NEW k \in Chars, col <= Len(t)
  PROVE  WithAt(t, col, k) \in Words
<1>1. Len(t) \in Nat
  BY LenProperties DEF Words
<1>2. SubSeq(t, 1, col) \in Words
  BY PartOfText
<1>3. SubSeq(t, col + 1, Len(t)) \in Words
  <2>1. col + 1 \in Nat /\ col + 1 >= 1
    OBVIOUS
  <2>. QED BY <1>1, <2>1, PartOfText
<1>4. <<k>> \in Words
  BY DEF Words
<1>5. SubSeq(t, 1, col) \o <<k>> \in Words
  BY <1>2, <1>4, ConcatProperties DEF Words
<1>. QED BY <1>3, <1>5, ConcatProperties DEF WithAt, Words

-----------------------------------------------------------------------------
(* The operations.                                                         *)

\* i and its kin open the insert session.
LEMMA EnterInsertIs ==
  ASSUME NEW s, Ready(s), NEW b
  PROVE  EnterInsert([s EXCEPT !.b = b]) = Put(s, [Reset(s.v) EXCEPT !.mode = "Insert"], b)
BY DEF Ready, States, EnterInsert, Put

\* An engine that enters insert mode is an engine.
LEMMA InsertEngine ==
  ASSUME NEW v \in Engines, NEW m \in Modes
  PROVE  [Reset(v) EXCEPT !.mode = m] \in Engines /\ [Reset(v) EXCEPT !.mode = m].mode = m
<1>. DEFINE r == Reset(v)
<1>1. r \in Engines
  BY ResetIs
<1>. HIDE DEF r
<1>2. [r EXCEPT !.mode = m] \in Engines /\ [r EXCEPT !.mode = m].mode = m
  BY <1>1, EngineIs
<1>. QED BY <1>2 DEF r

\* A session that begins with an edit is one step, and one that begins without is none yet.
LEMMA EnterReplies ==
  ASSUME NEW s, Ready(s), s.v.mode = "Normal", NEW b, Good(b), Later(s.b, b), b.group.open,
         ~s.b.group.open => Recorded(s.b, b) \/ Same(s.b, b)
  PROVE  Reply(s, EnterInsert([s EXCEPT !.b = b]))
<1>. DEFINE v == [Reset(s.v) EXCEPT !.mode = "Insert"]
<1>1. v \in Engines /\ v.mode = "Insert"
  BY ReadyIs, InsertEngine DEF Modes
<1>2. EnterInsert([s EXCEPT !.b = b]) = Put(s, v, b)
  BY EnterInsertIs
<1>. HIDE DEF v
<1>3. InSession(s) => (b.group.open <=> v.mode = "Insert") /\ Becomes(s.v.mode, s.b, b)
  BY <1>1 DEF InSession, Becomes
<1>4. Reply(s, Put(s, v, b))
  BY <1>1, <1>3, PutReplies
<1>. QED BY <1>2, <1>4

\* a: the session opens, and nothing is changed yet.
LEMMA AppendReplies ==
  ASSUME NEW s, Ready(s), s.v.mode = "Normal"
  PROVE  Reply(s, Append_(s))
<1>. DEFINE g == BeginGroup(s.b)
            n == IF g.text = <<>> THEN 0 ELSE g.col + 1
            b == [g EXCEPT !.col = n]
<1>1. Good(s.b) /\ s.b.col \in Nat
  BY ReadyIs
<1>2. Good(g) /\ Later(s.b, g) /\ Same(s.b, g) /\ g.group.open /\ g.col = s.b.col
  BY <1>1, BeginGroupIs
<1>3. Append_(s) = EnterInsert([s EXCEPT !.b = b])
  BY DEF Append_
<1>4. n \in Nat
  BY <1>1, <1>2
<1>. HIDE DEF g, n
<1>5. Good(b) /\ Later(g, b) /\ Same(g, b) /\ b.group = g.group
  BY <1>2, <1>4, MoveKeeps
<1>. HIDE DEF b
<1>6. Later(s.b, b) /\ Same(s.b, b)
  BY <1>1, <1>2, <1>5, LaterTwice, SameTwice
<1>7. Reply(s, EnterInsert([s EXCEPT !.b = b]))
  BY <1>2, <1>5, <1>6, EnterReplies
<1>. QED BY <1>3, <1>7

\* cc: the session opens with an edit.
LEMMA ChangeLineReplies ==
  ASSUME NEW s, Ready(s), s.v.mode = "Normal"
  PROVE  Reply(s, ChangeLine(s))
<1>. DEFINE c == Edit(BeginGroup(s.b), 0, <<>>)
            d == Edit(c, 0, <<>>)
            b == [d EXCEPT !.col = 0]
<1>0. <<>> \in Words
  BY EmptySeq DEF Words
<1>1. Good(s.b)
  BY ReadyIs
<1>2. Opens(s.b, c)
  BY <1>0, <1>1, FirstEditIs
<1>3. ChangeLine(s) = EnterInsert([s EXCEPT !.b = b])
  BY DEF ChangeLine, Ready, States
<1>. HIDE DEF c
<1>4. /\ Good(c) /\ Later(s.b, c) /\ c.group.open /\ Changed(c)
      /\ (~s.b.group.open => Recorded(s.b, c))
  BY <1>2 DEF Opens
<1>5. Good(d) /\ Later(c, d) /\ Amended(c, d) /\ d.group.open
  BY <1>0, <1>4, EditIs
<1>. HIDE DEF d
<1>6. Good(b) /\ Later(d, b) /\ Same(d, b) /\ b.group = d.group
  BY <1>5, MoveKeeps
<1>. HIDE DEF b
<1>7. Later(s.b, b)
  <2>1. Later(s.b, d)
    BY <1>1, <1>4, <1>5, LaterTwice
  <2>. QED BY <1>1, <1>5, <1>6, <2>1, LaterTwice
<1>8. ~s.b.group.open => Recorded(s.b, b)
  BY <1>4, <1>5, <1>6, RecordedThen
<1>9. Reply(s, EnterInsert([s EXCEPT !.b = b]))
  BY <1>5, <1>6, <1>7, <1>8, EnterReplies
<1>. QED BY <1>3, <1>9

\* Leaving the session closes its step.
LEMMA LeaveInsertReplies ==
  ASSUME NEW s, Ready(s), s.v.mode = "Insert"
  PROVE  Reply(s, LeaveInsert(s))
<1>. DEFINE c == EndGroup(s.b)
            n == IF c.col = 0 THEN 0 ELSE c.col - 1
            d == [c EXCEPT !.col = n]
            b == Clamp(d, FALSE)
            v == [Reset(s.v) EXCEPT !.mode = "Normal"]
<1>1. Good(s.b) /\ s.b.col \in Nat
  BY ReadyIs
<1>2. Good(c) /\ Later(s.b, c) /\ Same(s.b, c) /\ ~c.group.open /\ c.col = s.b.col
  BY <1>1, EndGroupIs
<1>3. LeaveInsert(s) = Put(s, v, b)
  BY DEF LeaveInsert, Put, Ready, States
<1>4. v \in Engines /\ v.mode = "Normal"
  BY ReadyIs, InsertEngine DEF Modes
<1>5. n \in Nat
  BY <1>1, <1>2
<1>. HIDE DEF c, n, v
<1>6. Good(d) /\ Later(c, d) /\ Same(c, d) /\ d.group = c.group
  BY <1>2, <1>5, MoveKeeps
<1>. HIDE DEF d
<1>7. Good(b) /\ Later(d, b) /\ Same(d, b) /\ b.group = d.group
  BY <1>6, ClampKeeps
<1>. HIDE DEF b
<1>8. Later(s.b, b)
  <2>1. Later(s.b, d)
    BY <1>1, <1>2, <1>6, LaterTwice
  <2>. QED BY <1>1, <1>6, <1>7, <2>1, LaterTwice
<1>9. Same(s.b, b)
  BY <1>2, <1>6, <1>7 DEF Same
<1>10. InSession(s) => (b.group.open <=> v.mode = "Insert") /\ Becomes(s.v.mode, s.b, b)
  BY <1>2, <1>4, <1>6, <1>7, <1>9 DEF Becomes
<1>11. Reply(s, Put(s, v, b))
  BY <1>4, <1>7, <1>8, <1>10, PutReplies
<1>. QED BY <1>3, <1>11

\* A key typed in the session edits the text.
LEMMA TypeReplies ==
  ASSUME NEW s, Ready(s), s.v.mode = "Insert", NEW k \in Keys
  PROVE  Reply(s, InsertKey(s, k))
<1>1. CASE k = "Esc"
  <2>1. InsertKey(s, k) = LeaveInsert(s)
    BY <1>1 DEF InsertKey, Chars, Letters
  <2>. QED BY <2>1, LeaveInsertReplies
<1>2. CASE k # "Esc" /\ k \in Chars
  <2>. DEFINE t == WithAt(s.b.text, s.b.col, k)
              c == Edit(s.b, s.b.col, t)
              n == c.col + 1
              b == [c EXCEPT !.col = n]
  <2>1. Good(s.b) /\ s.b.col \in Nat /\ s.v \in Engines
    BY ReadyIs
  <2>2. t \in Words
    BY <1>2, ReadyIs, WithAtIs
  <2>3. InsertKey(s, k) = Put(s, s.v, b)
    BY <1>2 DEF InsertKey, Put, Ready, States
  <2>. HIDE DEF t
  <2>4. /\ Good(c) /\ Later(s.b, c) /\ c.col = s.b.col /\ c.group.open = s.b.group.open
        /\ IF Changed(s.b) THEN Amended(s.b, c) ELSE Recorded(s.b, c)
    BY <2>1, <2>2, EditIs
  <2>5. n \in Nat
    BY <2>1, <2>4
  <2>. HIDE DEF c, n
  <2>6. Good(b) /\ Later(c, b) /\ Same(c, b) /\ b.group = c.group
    BY <2>4, <2>5, MoveKeeps
  <2>. HIDE DEF b
  <2>7. Later(s.b, b)
    BY <2>1, <2>4, <2>6, LaterTwice
  <2>8. Recorded(s.b, b) \/ Amended(s.b, b)
    BY <2>4, <2>6, RecordedThen, AmendedThen
  <2>9. InSession(s) => (b.group.open <=> s.v.mode = "Insert") /\ Becomes(s.v.mode, s.b, b)
    BY <2>4, <2>6, <2>8 DEF Becomes, InSession
  <2>10. Reply(s, Put(s, s.v, b))
    BY <2>1, <2>6, <2>7, <2>9, PutReplies
  <2>. QED BY <2>3, <2>10
<1>3. CASE k # "Esc" /\ k \notin Chars
  <2>1. InsertKey(s, k) = [s EXCEPT !.v = s.v]
    BY <1>3 DEF InsertKey, Ready, States
  <2>2. s.v \in Engines
    BY ReadyIs
  <2>. QED BY <2>1, <2>2, TurnReplies
<1>. QED BY <1>1, <1>2, <1>3

\* x is an edit of its own.
LEMMA DeleteReplies ==
  ASSUME NEW s, Ready(s), s.v.mode = "Normal"
  PROVE  Reply(s, DeleteChars(s))
<1>. DEFINE left == Len(s.b.text) - s.b.col
            n == IF TotalCount(s.v) < left THEN TotalCount(s.v) ELSE left
            t == Without(s.b.text, s.b.col, n)
            c == Edit(s.b, s.b.col, t)
            b == Clamp(c, FALSE)
            v == Reset(s.v)
<1>1. /\ Good(s.b) /\ s.b.col \in Nat /\ s.b.text \in Words /\ s.b.col <= Len(s.b.text)
      /\ Len(s.b.text) \in Nat /\ s.v \in Engines
  BY ReadyIs
<1>2. v \in Engines /\ v.mode = s.v.mode
  BY <1>1, ResetIs
<1>3. n \in Nat
  BY <1>1, TotalCountIs
<1>4. DeleteChars(s) = IF n = 0 THEN [s EXCEPT !.v = v] ELSE Put(s, v, b)
  BY DEF DeleteChars, Put, Ready, States
<1>. HIDE DEF n, v
<1>5. CASE n = 0
  BY <1>2, <1>4, <1>5, TurnReplies
<1>6. CASE n # 0
  <2>1. t \in Words
    BY <1>1, <1>3, WithoutIs
  <2>. DEFINE a == s.b
              col == s.b.col
  <2>2. a = s.b /\ col = s.b.col /\ c = Edit(a, col, t) /\ Good(a) /\ col \in Nat
    BY <1>1
  <2>. HIDE DEF a, col, t, c
  <2>3. /\ Good(c) /\ Later(s.b, c) /\ c.group.open = s.b.group.open
        /\ IF Changed(s.b) THEN Amended(s.b, c) ELSE Recorded(s.b, c)
    <3>1. /\ Good(c) /\ Later(a, c) /\ c.group.open = a.group.open
          /\ IF Changed(a) THEN Amended(a, c) ELSE Recorded(a, c)
      BY <2>1, <2>2, EditIs
    <3>. QED BY <2>2, <3>1
  <2>4. Good(b) /\ Later(c, b) /\ Same(c, b) /\ b.group = c.group
    BY <2>3, ClampKeeps
  <2>. HIDE DEF b
  <2>5. Later(s.b, b)
    BY <1>1, <2>3, <2>4, LaterTwice
  <2>6. InSession(s) => ~s.b.group.open /\ Recorded(s.b, b)
    <3>1. InSession(s) => ~s.b.group.open /\ ~Changed(s.b)
      BY DEF InSession, Changed
    <3>. QED BY <2>3, <2>4, <3>1, RecordedThen
  <2>7. InSession(s) => (b.group.open <=> v.mode = "Insert") /\ Becomes(s.v.mode, s.b, b)
    BY <1>2, <2>3, <2>4, <2>6 DEF Becomes
  <2>8. Reply(s, Put(s, v, b))
    BY <1>2, <2>4, <2>5, <2>7, PutReplies
  <2>. QED BY <1>4, <1>6, <2>8
<1>. QED BY <1>5, <1>6

\* f moves, or changes up to what it finds, or gives up.
LEMMA FindReplies ==
  ASSUME NEW s, Ready(s), s.v.mode = "Normal", NEW k
  PROVE  Reply(s, Find(s, k))
<1>. DEFINE found == Found(s.b.text, s.b.col, k, TotalCount(s.v))
            at == CHOOSE i \in found : TRUE
            g == BeginGroup(s.b)
            t == Without(s.b.text, g.col, at + 1 - g.col)
            c == Edit(g, g.col, t)
            d == [s.b EXCEPT !.col = at]
            v == Reset(s.v)
<1>1. /\ Good(s.b) /\ s.b.col \in Nat /\ s.b.text \in Words /\ s.b.col <= Len(s.b.text)
      /\ Len(s.b.text) \in Nat /\ s.v \in Engines
  BY ReadyIs
<1>2. v \in Engines /\ v.mode = s.v.mode
  BY <1>1, ResetIs
<1>3. Find(s, k) = IF found = {} THEN [s EXCEPT !.v = v]
                   ELSE IF s.v.op THEN EnterInsert([s EXCEPT !.b = c])
                   ELSE Put(s, v, d)
  BY DEF Find, Put, Ready, States
<1>4. ASSUME found # {} PROVE at \in (s.b.col + 1)..(Len(s.b.text) - 1)
  BY <1>4 DEF Found
<1>. HIDE DEF found, at, v
<1>5. CASE found = {}
  BY <1>2, <1>3, <1>5, TurnReplies
<1>6. CASE found # {} /\ s.v.op
  <2>1. g.col = s.b.col
    BY <1>1, BeginGroupIs
  <2>2. t \in Words /\ g.col \in Nat
    <3>1. at + 1 - g.col \in Nat
      BY <1>1, <1>4, <1>6, <2>1
    <3>. QED BY <1>1, <2>1, <3>1, WithoutIs
  <2>. HIDE DEF t
  <2>3. Opens(s.b, c)
    <3>. DEFINE col == g.col
    <3>. HIDE DEF col
    <3>1. Opens(s.b, Edit(g, col, t))
      BY <1>1, <2>2, FirstEditIs DEF col
    <3>. QED BY <3>1 DEF col
  <2>. HIDE DEF c
  <2>4. Reply(s, EnterInsert([s EXCEPT !.b = c]))
    BY <2>3, EnterReplies DEF Opens
  <2>. QED BY <1>3, <1>6, <2>4
<1>7. CASE found # {} /\ ~s.v.op
  <2>1. at \in Nat
    BY <1>1, <1>4, <1>7
  <2>2. Good(d) /\ Later(s.b, d) /\ Same(s.b, d) /\ d.group = s.b.group
    BY <1>1, <2>1, MoveKeeps
  <2>. HIDE DEF d
  <2>3. InSession(s) => (d.group.open <=> v.mode = "Insert") /\ Becomes(s.v.mode, s.b, d)
    BY <1>2, <2>2 DEF InSession, Becomes
  <2>4. Reply(s, Put(s, v, d))
    BY <1>2, <2>2, <2>3, PutReplies
  <2>. QED BY <1>3, <1>7, <2>4
<1>. QED BY <1>5, <1>6, <1>7

\* u goes back, and ^r forth.
LEMMA UndoReplies ==
  ASSUME NEW s, Ready(s), s.v.mode = "Normal"
  PROVE  Reply(s, Undo(s))
<1>. DEFINE b == UndoTimes(s.b, TotalCount(s.v))
            v == Reset(s.v)
<1>1. Good(s.b) /\ s.v \in Engines /\ TotalCount(s.v) \in Nat
  BY ReadyIs, TotalCountIs
<1>2. v \in Engines /\ v.mode = s.v.mode
  BY <1>1, ResetIs
<1>3. Undo(s) = Put(s, v, b)
  BY DEF Undo, Put, Ready, States
<1>4. /\ Good(b) /\ Later(s.b, b) /\ ~b.group.open
      /\ Same(s.b, b) \/ \E k \in Nat : Undone(s.b, b, k)
  BY <1>1, UndoTimesIs
<1>. HIDE DEF b, v
<1>5. InSession(s) => (b.group.open <=> v.mode = "Insert") /\ Becomes(s.v.mode, s.b, b)
  BY <1>2, <1>4 DEF Becomes
<1>6. Reply(s, Put(s, v, b))
  BY <1>2, <1>4, <1>5, PutReplies
<1>. QED BY <1>3, <1>6

\* ^r goes forth along the line.
LEMMA RedoReplies ==
  ASSUME NEW s, Ready(s), s.v.mode = "Normal"
  PROVE  Reply(s, Redo(s))
<1>. DEFINE b == RedoTimes(s.b, TotalCount(s.v))
            v == Reset(s.v)
<1>1. Good(s.b) /\ s.v \in Engines /\ TotalCount(s.v) \in Nat
  BY ReadyIs, TotalCountIs
<1>2. v \in Engines /\ v.mode = s.v.mode
  BY <1>1, ResetIs
<1>3. Redo(s) = Put(s, v, b)
  BY DEF Redo, Put, Ready, States
<1>4. /\ Good(b) /\ Later(s.b, b) /\ b.group.open = s.b.group.open
      /\ ~s.b.group.open => Same(s.b, b) \/ \E k \in Nat : Redone(s.b, b, k)
  BY <1>1, RedoTimesIs
<1>. HIDE DEF b, v
<1>5. InSession(s) => (b.group.open <=> v.mode = "Insert") /\ Becomes(s.v.mode, s.b, b)
  BY <1>2, <1>4 DEF Becomes, InSession
<1>6. Reply(s, Put(s, v, b))
  BY <1>2, <1>4, <1>5, PutReplies
<1>. QED BY <1>3, <1>6

\* A replay begins with the buffer as it is.
LEMMA PlayReplies ==
  ASSUME NEW s, Ready(s), NEW v \in Engines, v.mode = s.v.mode, NEW f \in Frames,
         f.what = "macro" => Depth < MaxReplayDepth
  PROVE  Reply(s, [s EXCEPT !.v = v, !.play = <<f>>])
<1>. DEFINE t == [s EXCEPT !.v = v, !.play = <<f>>]
<1>1. <<f>> \in Seq(Frames)
  OBVIOUS
<1>2. t \in States /\ t.v = v /\ t.b = s.b /\ t.save = FALSE /\ t.play = <<f>>
  <2>. DEFINE p == <<f>>
  <2>1. p \in Seq(Frames)
    BY <1>1
  <2>. HIDE DEF p
  <2>2. [s EXCEPT !.v = v, !.play = p] \in States
    BY <2>1 DEF Ready, States
  <2>3. /\ [s EXCEPT !.v = v, !.play = p].v = v /\ [s EXCEPT !.v = v, !.play = p].b = s.b
        /\ [s EXCEPT !.v = v, !.play = p].save = FALSE
        /\ [s EXCEPT !.v = v, !.play = p].play = p
    BY <2>1 DEF Ready, States
  <2>. QED BY <2>2, <2>3 DEF p
<1>. HIDE DEF t
<1>3. Plays(t)
  BY <1>2 DEF Plays
<1>4. Good(s.b) /\ Later(s.b, s.b) /\ Becomes(s.v.mode, s.b, s.b)
  BY SameSelf DEF Ready
<1>5. InSession(s) => InSession(t)
  BY <1>2 DEF InSession
<1>6. Reply(s, t)
  BY <1>2, <1>3, <1>4, <1>5 DEF Reply
<1>. QED BY <1>6 DEF t

\* A replay is a frame.
LEMMA ReplayIs ==
  ASSUME vim \in Engines, NEW what \in {"dot", "macro"}, NEW ks \in Seq(Keys), NEW n \in Nat \ {0}
  PROVE  \E f \in Frames : Replay(what, ks, n) = <<f>> /\ f.what = what
<1>. DEFINE f == [what |-> what, of |-> ks, runs |-> n, i |-> 1, was |-> vim.replaying]
<1>1. vim.replaying \in BOOLEAN
  BY DEF Engines
<1>2. f \in Frames
  BY <1>1 DEF Frames
<1>3. Replay(what, ks, n) = <<f>> /\ f.what = what
  BY DEF Replay
<1>. QED BY <1>2, <1>3

\* A dot leaves the buffer to its replay.
LEMMA RepeatReplies ==
  ASSUME NEW s, Ready(s), vim \in Engines
  PROVE  Reply(s, RepeatLast(s))
<1>. DEFINE v == Reset(s.v)
            x == [v EXCEPT !.replaying = TRUE]
            ks == v.lastChange
            n == TotalCount(s.v)
<1>1. s.v \in Engines /\ n \in Nat \ {0}
  BY ReadyIs, TotalCountIs
<1>2. v \in Engines /\ v.mode = s.v.mode
  BY <1>1, ResetIs
<1>3. RepeatLast(s) = IF ks = <<>> THEN [s EXCEPT !.v = v]
                      ELSE [s EXCEPT !.v = x, !.play = Replay("dot", ks, n)]
  BY DEF RepeatLast
<1>. HIDE DEF v, n
<1>4. ks \in Seq(Keys) /\ x \in Engines
  BY <1>2 DEF Engines
<1>5. x.mode = s.v.mode
  BY <1>2 DEF Engines
<1>. HIDE DEF ks, x
<1>6. PICK f \in Frames : Replay("dot", ks, n) = <<f>> /\ f.what = "dot"
  BY <1>1, <1>4, ReplayIs
<1>7. Reply(s, [s EXCEPT !.v = v])
  BY <1>2, TurnReplies
<1>8. Reply(s, [s EXCEPT !.v = x, !.play = <<f>>])
  BY <1>4, <1>5, <1>6, PlayReplies
<1>. QED BY <1>3, <1>6, <1>7, <1>8

\* So does @, which has room left for its macro.
LEMMA MacroReplies ==
  ASSUME NEW s, Ready(s), vim \in Engines, Depth \in Nat
  PROVE  Reply(s, PlayMacro(s))
<1>. DEFINE v == Reset(s.v)
            x == [v EXCEPT !.lastMacro = TRUE, !.replaying = TRUE]
            ks == v.macro
            n == TotalCount(s.v)
<1>1. s.v \in Engines /\ n \in Nat \ {0}
  BY ReadyIs, TotalCountIs
<1>2. v \in Engines /\ v.mode = s.v.mode
  BY <1>1, ResetIs
<1>3. PlayMacro(s) = IF ks = <<>> \/ Depth >= MaxReplayDepth THEN [s EXCEPT !.v = v]
                     ELSE [s EXCEPT !.v = x, !.play = Replay("macro", ks, n)]
  BY DEF PlayMacro
<1>. HIDE DEF v, n
<1>4. ks \in Seq(Keys) /\ x \in Engines
  BY <1>2 DEF Engines
<1>5. x.mode = s.v.mode
  BY <1>2 DEF Engines
<1>. HIDE DEF ks, x
<1>6. PICK f \in Frames : Replay("macro", ks, n) = <<f>> /\ f.what = "macro"
  BY <1>1, <1>4, ReplayIs
<1>7. Reply(s, [s EXCEPT !.v = v])
  BY <1>2, TurnReplies
<1>8. CASE ks = <<>> \/ Depth >= MaxReplayDepth
  BY <1>3, <1>7, <1>8
<1>9. CASE ~(ks = <<>> \/ Depth >= MaxReplayDepth)
  <2>1. Depth < MaxReplayDepth
    BY <1>9, VimAssumption
  <2>2. Reply(s, [s EXCEPT !.v = x, !.play = <<f>>])
    BY <1>4, <1>5, <1>6, <2>1, PlayReplies
  <2>. QED BY <1>3, <1>6, <1>9, <2>2
<1>. QED BY <1>8, <1>9

\* What is asked of the engine only.
LEMMA RecordReplies ==
  ASSUME NEW s, Ready(s)
  PROVE  Reply(s, Record(s))
<1>. DEFINE v == Reset(s.v)
            m == Front(s.v.recorded)
            x == [v EXCEPT !.recording = FALSE, !.recorded = <<>>, !.macro = m]
            y == [s.v EXCEPT !.awaiting = "reg"]
<1>1. s.v \in Engines /\ s.v.recorded \in Seq(Keys)
  BY ReadyIs
<1>2. v \in Engines /\ v.mode = s.v.mode
  BY <1>1, ResetIs
<1>3. m \in Seq(Keys)
  <2>. DEFINE r == s.v.recorded
  <2>1. r \in Seq(Keys) /\ Len(r) \in Nat
    BY <1>1, LenProperties
  <2>. HIDE DEF r
  <2>2. \A i \in 1..(Len(r) - 1) : r[i] \in Keys
    BY <2>1, ElementOfSeq
  <2>3. SubSeq(r, 1, Len(r) - 1) \in Seq(Keys)
    BY <2>1, <2>2, SubSeqProperties
  <2>. QED BY <2>3 DEF Front, r
<1>4. Record(s) = IF s.v.replaying \/ (s.v.op /\ ~s.v.recording) THEN [s EXCEPT !.v = v]
                  ELSE IF s.v.recording THEN [s EXCEPT !.v = x] ELSE [s EXCEPT !.v = y]
  BY DEF Record
<1>5. y \in Engines /\ y.mode = s.v.mode
  BY <1>1, EngineIs
<1>. HIDE DEF v, m
<1>6. x \in Engines /\ x.mode = s.v.mode
  <2>1. <<>> \in Seq(Keys)
    BY EmptySeq
  <2>2. x \in Engines
    BY <1>2, <1>3, <2>1 DEF Engines
  <2>3. x.mode = s.v.mode
    BY <1>2 DEF Engines
  <2>. QED BY <2>2, <2>3
<1>. HIDE DEF x, y
<1>7. /\ Reply(s, [s EXCEPT !.v = v]) /\ Reply(s, [s EXCEPT !.v = x])
      /\ Reply(s, [s EXCEPT !.v = y])
  BY <1>2, <1>5, <1>6, TurnReplies
<1>. QED BY <1>4, <1>7

\* :w saves the text as it is.
LEMMA CommandReplies ==
  ASSUME NEW s, Ready(s), s.v.mode = "Command", NEW k
  PROVE  Reply(s, CommandKey(s, k))
<1>1. s.v \in Engines /\ Good(s.b) /\ s.b \in Buffers
  BY ReadyIs
<1>. DEFINE v == [s.v EXCEPT !.mode = "Normal"]
            n == s.b.version
            b == [s.b EXCEPT !.saved = n]
            t == [s EXCEPT !.v = v, !.b = b, !.save = TRUE]
<1>2. v \in Engines /\ v.mode = "Normal"
  BY <1>1, EngineIs DEF Modes
<1>3. CASE k = "Enter"
  <2>1. n \in Nat /\ n = s.b.version
    BY <1>1, BufferTypes
  <2>2. CommandKey(s, k) = t
    BY <1>3 DEF CommandKey, Ready, States
  <2>. HIDE DEF v, n
  <2>3. b \in Buffers
    BY <1>1, <2>1 DEF Buffers
  <2>4. /\ b.saved = n /\ b.version = n /\ b.text = s.b.text /\ b.undo = s.b.undo
        /\ b.redo = s.b.redo /\ b.group = s.b.group
    BY <1>1, <2>1 DEF Buffers
  <2>. HIDE DEF b
  <2>5. Good(b)
    BY <1>1, <2>1, <2>3, <2>4 DEF Good
  <2>6. Same(s.b, b)
    <3>1. Changed(b) = Changed(s.b)
      BY <2>1, <2>4 DEF Changed
    <3>2. Past(b) = Past(s.b) /\ Future(b) = Future(s.b)
      BY <2>4, <3>1 DEF Past, Future
    <3>. QED BY <2>4, <3>2 DEF Same
  <2>7. t \in States
    BY <1>2, <2>3 DEF Ready, States
  <2>8. t.v = v /\ t.b = b /\ t.save = TRUE /\ t.play = <<>>
    BY DEF Ready, States
  <2>. HIDE DEF t
  <2>9. InSession(s) => InSession(t) /\ Becomes(s.v.mode, s.b, t.b)
    BY <1>2, <2>4, <2>6, <2>8 DEF InSession, Becomes
  <2>10. Reply(s, t)
    BY <2>4, <2>5, <2>7, <2>8, <2>9 DEF Reply, Plays
  <2>. QED BY <2>2, <2>10
<1>4. CASE k = "Esc"
  <2>1. CommandKey(s, k) = [s EXCEPT !.v = v]
    BY <1>4 DEF CommandKey
  <2>. HIDE DEF v
  <2>2. Reply(s, [s EXCEPT !.v = v])
    BY <1>2, TurnReplies
  <2>. QED BY <2>1, <2>2
<1>5. CASE k # "Enter" /\ k # "Esc"
  <2>1. CommandKey(s, k) = [s EXCEPT !.v = s.v]
    BY <1>5 DEF CommandKey, Ready, States
  <2>2. Reply(s, [s EXCEPT !.v = s.v])
    BY <1>1, TurnReplies
  <2>. QED BY <2>1, <2>2
<1>. QED BY <1>3, <1>4, <1>5

\* The second key of a command works on the state without the first.
LEMMA SecondReplies ==
  ASSUME NEW s, Ready(s), s.v.mode = "Normal", vim \in Engines, Depth \in Nat, NEW k \in Keys
  PROVE  Reply(s, SecondKey(s, k))
<1>. DEFINE w == [s.v EXCEPT !.awaiting = "none"]
            now == [s EXCEPT !.v.awaiting = "none"]
            v == Reset(w)
            x == [v EXCEPT !.recording = TRUE]
<1>1. s.v \in Engines
  BY ReadyIs
<1>2. w \in Engines /\ w.mode = "Normal"
  BY <1>1, EngineIs
<1>3. now \in States /\ now.v = w /\ now.b = s.b /\ now.save = FALSE /\ now.play = <<>>
  <2>1. now = [s EXCEPT !.v = w]
    BY DEF Ready, States
  <2>. HIDE DEF w
  <2>2. [s EXCEPT !.v = w] \in States
    BY <1>2 DEF Ready, States
  <2>3. /\ [s EXCEPT !.v = w].v = w /\ [s EXCEPT !.v = w].b = s.b
        /\ [s EXCEPT !.v = w].save = FALSE /\ [s EXCEPT !.v = w].play = <<>>
    BY DEF Ready, States
  <2>. QED BY <2>1, <2>2, <2>3
<1>. HIDE DEF w
<1>4. v \in Engines /\ v.mode = "Normal"
  BY <1>2, ResetIs
<1>5. x \in Engines /\ x.mode = "Normal"
  <2>. HIDE DEF v
  <2>1. x \in Engines
    BY <1>4 DEF Engines
  <2>. QED BY <1>4, <2>1 DEF Engines
<1>6. SecondKey(s, k) \in {[now EXCEPT !.v = x], [now EXCEPT !.v = v], PlayMacro(now), Find(now, k)}
  <2>1. CASE s.v.awaiting = "reg"
    <3>1. SecondKey(s, k) = [now EXCEPT !.v = IF k = "a" THEN x ELSE v]
      BY <1>3, <2>1 DEF SecondKey
    <3>. QED BY <3>1
  <2>2. CASE s.v.awaiting = "play"
    <3>1. SecondKey(s, k) = IF k = "a" \/ (k = "@" /\ s.v.lastMacro) THEN PlayMacro(now)
                            ELSE [now EXCEPT !.v = v]
      BY <1>3, <2>2 DEF SecondKey
    <3>. QED BY <3>1
  <2>3. CASE s.v.awaiting = "find" /\ k \in Chars
    <3>1. SecondKey(s, k) = Find(now, k)
      BY <2>3 DEF SecondKey
    <3>. QED BY <3>1
  <2>4. CASE s.v.awaiting \notin {"reg", "play"} /\ ~(s.v.awaiting = "find" /\ k \in Chars)
    <3>1. SecondKey(s, k) = [now EXCEPT !.v = v]
      BY <1>3, <2>4 DEF SecondKey
    <3>. QED BY <3>1
  <2>. QED BY <2>1, <2>2, <2>3, <2>4
<1>. HIDE DEF now, v, x
<1>7. Ready(now) /\ now.v.mode = "Normal"
  BY <1>2, <1>3 DEF Ready
<1>8. /\ Reply(now, [now EXCEPT !.v = x]) /\ Reply(now, [now EXCEPT !.v = v])
      /\ Reply(now, PlayMacro(now)) /\ Reply(now, Find(now, k))
  BY <1>4, <1>5, <1>7, TurnReplies, MacroReplies, FindReplies
<1>9. ASSUME NEW t, Reply(now, t) PROVE Reply(s, t)
  <2>1. InSession(s) <=> InSession(now)
    BY <1>2, <1>3 DEF InSession
  <2>. QED BY <1>2, <1>3, <1>9, <2>1 DEF Reply
<1>. QED BY <1>6, <1>8, <1>9

\* A key in normal mode.
LEMMA NormalReplies ==
  ASSUME NEW s, Ready(s), s.v.mode = "Normal", vim \in Engines, NEW k \in Keys
  PROVE  Reply(s, NormalKey(s, k))
<1>1. s.v \in Engines /\ s.v.count \in Nat /\ s.v.opcount \in Nat
  BY ReadyIs
<1>. DEFINE n == s.v.count * 10 + 2
            m == s.v.opcount * 10 + 2
            count == [s.v EXCEPT !.count = n]
            opcount == [s.v EXCEPT !.opcount = m]
            op == [s.v EXCEPT !.op = TRUE]
            object == [s.v EXCEPT !.awaiting = "object"]
            find == [s.v EXCEPT !.awaiting = "find"]
            play == [s.v EXCEPT !.awaiting = "play"]
            reset == Reset(s.v)
            command == [Reset(s.v) EXCEPT !.mode = "Command"]
            Turns == {count, opcount, op, object, find, play, reset, command}
<1>2. NormalKey(s, k) \in {[s EXCEPT !.v = v] : v \in Turns}
        \cup {DeleteChars(s), Append_(s), ChangeLine(s), Undo(s), Redo(s), RepeatLast(s), Record(s)}
  <2>1. /\ [s EXCEPT !.v.count = @ * 10 + 2] = [s EXCEPT !.v = count]
        /\ [s EXCEPT !.v.opcount = @ * 10 + 2] = [s EXCEPT !.v = opcount]
        /\ [s EXCEPT !.v.awaiting = "object"] = [s EXCEPT !.v = object]
        /\ [s EXCEPT !.v.awaiting = "find"] = [s EXCEPT !.v = find]
        /\ [s EXCEPT !.v.awaiting = "play"] = [s EXCEPT !.v = play]
        /\ [s EXCEPT !.v.op = TRUE] = [s EXCEPT !.v = op]
        /\ [s EXCEPT !.v = Reset(@)] = [s EXCEPT !.v = reset]
        /\ [s EXCEPT !.v = [Reset(@) EXCEPT !.mode = "Command"]] = [s EXCEPT !.v = command]
    OBVIOUS
  <2>. HIDE DEF count, opcount, op, object, find, play, reset, command
  <2>2. /\ k = "2" => NormalKey(s, k) = [s EXCEPT !.v = IF s.v.op THEN opcount ELSE count]
        /\ k = "x" => NormalKey(s, k) = DeleteChars(s)
        /\ k = "a" => NormalKey(s, k) = IF s.v.op THEN [s EXCEPT !.v = object] ELSE Append_(s)
        /\ k = "c" => NormalKey(s, k) = IF s.v.op THEN ChangeLine(s) ELSE [s EXCEPT !.v = op]
        /\ k = "f" => NormalKey(s, k) = [s EXCEPT !.v = find]
        /\ k = "u" => NormalKey(s, k) = Undo(s)
        /\ k = "^r" => NormalKey(s, k) = Redo(s)
        /\ k = "." => NormalKey(s, k) = RepeatLast(s)
        /\ k = "q" => NormalKey(s, k) = Record(s)
        /\ k = "@" => NormalKey(s, k) = [s EXCEPT !.v = play]
        /\ k = ":" => NormalKey(s, k) = [s EXCEPT !.v = command]
        /\ k \notin Chars \cup {"^r"} => NormalKey(s, k) = [s EXCEPT !.v = reset]
    BY <2>1 DEF NormalKey, Chars, Letters
  <2>3. k \in {"2", "x", "a", "c", "f", "u", "^r", ".", "q", "@", ":"} \/ k \notin Chars \cup {"^r"}
    BY DEF Chars, Letters
  <2>. QED BY <2>2, <2>3
<1>3. ASSUME NEW v \in Turns PROVE v \in Engines /\ v.mode # "Insert"
  <2>1. /\ count \in Engines /\ count.mode = "Normal"
        /\ opcount \in Engines /\ opcount.mode = "Normal" /\ op \in Engines /\ op.mode = "Normal"
        /\ object \in Engines /\ object.mode = "Normal" /\ find \in Engines /\ find.mode = "Normal"
        /\ play \in Engines /\ play.mode = "Normal"
    <3>1. n \in Nat /\ m \in Nat
      BY <1>1
    <3>. HIDE DEF n, m
    <3>. QED BY <1>1, <3>1, EngineIs
  <2>2. /\ reset \in Engines /\ reset.mode = "Normal"
        /\ command \in Engines /\ command.mode = "Command"
    BY <1>1, ResetIs, InsertEngine DEF Modes
  <2>. HIDE DEF count, opcount, op, object, find, play, reset, command
  <2>. QED BY <2>1, <2>2
<1>. HIDE DEF Turns
<1>4. ASSUME NEW v \in Turns PROVE Reply(s, [s EXCEPT !.v = v])
  <2>1. v \in Engines /\ v.mode # "Insert" /\ s.v.mode # "Insert"
    BY <1>3
  <2>. QED BY <2>1, TurnReplies
<1>5. /\ Reply(s, DeleteChars(s)) /\ Reply(s, Append_(s)) /\ Reply(s, ChangeLine(s))
      /\ Reply(s, Undo(s)) /\ Reply(s, Redo(s)) /\ Reply(s, RepeatLast(s)) /\ Reply(s, Record(s))
  BY DeleteReplies, AppendReplies, ChangeLineReplies, UndoReplies, RedoReplies, RepeatReplies,
     RecordReplies
<1>. QED BY <1>2, <1>4, <1>5

\* A key in any mode.
LEMMA KeyReplies ==
  ASSUME NEW s, Ready(s), vim \in Engines, Depth \in Nat, NEW k \in Keys
  PROVE  Reply(s, Dispatched(s, k))
<1>1. s.v.mode \in Modes
  BY ReadyIs
<1>2. CASE s.v.mode = "Normal"
  <2>1. Dispatched(s, k) = IF s.v.awaiting # "none" THEN SecondKey(s, k) ELSE NormalKey(s, k)
    BY <1>2 DEF Dispatched
  <2>. QED BY <1>2, <2>1, SecondReplies, NormalReplies
<1>3. CASE s.v.mode = "Insert"
  <2>1. Dispatched(s, k) = InsertKey(s, k)
    BY <1>3 DEF Dispatched
  <2>. QED BY <1>3, <2>1, TypeReplies
<1>4. CASE s.v.mode = "Command"
  <2>1. Dispatched(s, k) = CommandKey(s, k)
    BY <1>4 DEF Dispatched
  <2>. QED BY <1>4, <2>1, CommandReplies
<1>. QED BY <1>1, <1>2, <1>3, <1>4 DEF Modes

-----------------------------------------------------------------------------
(* The stack of replays.                                                   *)

MacrosOf(cs) == {j \in DOMAIN cs : cs[j].what = "macro"}
Macros(cs) == Cardinality(MacrosOf(cs))

\* Macros of a stack are counted by a number, at most all its frames.
LEMMA MacrosAre ==
  ASSUME NEW cs \in Seq(Frames)
  PROVE  /\ IsFiniteSet(MacrosOf(cs)) /\ Macros(cs) \in Nat /\ Len(cs) \in Nat
         /\ (\A j \in DOMAIN cs : cs[j].what # "dot") => Macros(cs) = Len(cs)
<1>1. Len(cs) \in Nat /\ DOMAIN cs = 1..Len(cs)
  BY LenProperties
<1>2. IsFiniteSet(1..Len(cs)) /\ Cardinality(1..Len(cs)) = Len(cs)
  BY <1>1, FS_Interval
<1>3. MacrosOf(cs) \subseteq 1..Len(cs)
  BY <1>1 DEF MacrosOf
<1>4. IsFiniteSet(MacrosOf(cs)) /\ Macros(cs) \in Nat
  BY <1>2, <1>3, FS_Subset, FS_CardinalityType DEF Macros
<1>5. ASSUME \A j \in DOMAIN cs : cs[j].what # "dot" PROVE Macros(cs) = Len(cs)
  <2>1. ASSUME NEW j \in DOMAIN cs PROVE cs[j].what = "macro"
    <3>1. cs[j] \in Frames
      BY <1>1, ElementOfSeq
    <3>2. cs[j].what \in {"dot", "macro"}
      BY <3>1 DEF Frames
    <3>. QED BY <1>5, <3>2
  <2>2. MacrosOf(cs) = 1..Len(cs)
    BY <1>1, <2>1 DEF MacrosOf
  <2>. QED BY <1>2, <2>2 DEF Macros
<1>. QED BY <1>1, <1>4, <1>5

\* Where the frames are the same replays, so many are macros.
LEMMA MacrosSame ==
  ASSUME NEW cs \in Seq(Frames), NEW ds \in Seq(Frames), Len(ds) = Len(cs),
         \A j \in 1..Len(cs) : ds[j].what = cs[j].what
  PROVE  Macros(ds) = Macros(cs)
<1>1. DOMAIN cs = 1..Len(cs) /\ DOMAIN ds = 1..Len(cs)
  BY LenProperties
<1>2. MacrosOf(ds) = MacrosOf(cs)
  BY <1>1 DEF MacrosOf
<1>. QED BY <1>2 DEF Macros

\* Without its last frame a stack has no more macros.
LEMMA MacrosOfFront ==
  ASSUME NEW cs \in Seq(Frames), cs # <<>>
  PROVE  Front(cs) \in Seq(Frames) /\ Macros(Front(cs)) <= Macros(cs)
<1>1. Len(cs) \in Nat /\ Len(cs) # 0 /\ DOMAIN cs = 1..Len(cs)
  BY LenProperties, EmptySeq
<1>. DEFINE n == Len(cs) - 1
            fs == SubSeq(cs, 1, n)
<1>2. n \in Nat /\ n + 1 = Len(cs) /\ \A i \in 1..n : cs[i] \in Frames
  BY <1>1, ElementOfSeq
<1>. HIDE DEF n
<1>3. fs \in Seq(Frames) /\ Len(fs) = n /\ \A i \in 1..n : fs[i] = cs[i]
  <2>1. /\ fs \in Seq(Frames) /\ Len(fs) = IF 1 <= n THEN n - 1 + 1 ELSE 0
        /\ \A i \in 1..(n - 1 + 1) : fs[i] = cs[1 + i - 1]
    BY <1>2, SubSeqProperties
  <2>. QED BY <1>2, <2>1
<1>. HIDE DEF fs
<1>4. MacrosOf(fs) \subseteq MacrosOf(cs)
  <2>1. DOMAIN fs = 1..n /\ 1..n \subseteq 1..Len(cs)
    BY <1>2, <1>3, LenProperties
  <2>. QED BY <1>1, <1>3, <2>1 DEF MacrosOf
<1>5. Macros(fs) <= Macros(cs)
  BY <1>4, MacrosAre, FS_Subset DEF Macros
<1>6. Front(cs) = fs
  BY DEF Front, fs, n
<1>. QED BY <1>3, <1>5, <1>6

\* With one frame more it has at most one more, if that is a macro.
LEMMA MacrosOfPush ==
  ASSUME NEW cs \in Seq(Frames), NEW f \in Frames
  PROVE  /\ cs \o <<f>> \in Seq(Frames) /\ Len(cs \o <<f>>) = Len(cs) + 1
         /\ Macros(cs \o <<f>>) <= IF f.what = "macro" THEN Macros(cs) + 1 ELSE Macros(cs)
<1>. DEFINE ds == Append(cs, f)
<1>1. cs \o <<f>> = ds
  BY AppendIsConcat
<1>2. /\ ds \in Seq(Frames) /\ Len(ds) = Len(cs) + 1 /\ Len(cs) \in Nat
      /\ \A i \in 1..Len(cs) : ds[i] = cs[i]
      /\ ds[Len(cs) + 1] = f
  BY AppendProperties, LenProperties
<1>. HIDE DEF ds
<1>3. DOMAIN cs = 1..Len(cs) /\ DOMAIN ds = 1..(Len(cs) + 1)
  BY <1>2, LenProperties
<1>. DEFINE A == MacrosOf(cs)
            B == IF f.what = "macro" THEN A \cup {Len(cs) + 1} ELSE A
<1>4. IsFiniteSet(A) /\ Cardinality(A) \in Nat /\ Cardinality(A) = Macros(cs)
  BY MacrosAre DEF Macros
<1>5. MacrosOf(ds) \subseteq B
  <2>1. ASSUME NEW j \in 1..(Len(cs) + 1), ds[j].what = "macro" PROVE j \in B
    <3>1. CASE j = Len(cs) + 1
      BY <1>2, <2>1, <3>1
    <3>2. CASE j # Len(cs) + 1
      <4>1. j \in 1..Len(cs)
        BY <1>2, <3>2
      <4>. QED BY <1>2, <1>3, <2>1, <4>1 DEF MacrosOf
    <3>. QED BY <3>1, <3>2
  <2>. QED BY <1>3, <2>1 DEF MacrosOf
<1>. HIDE DEF A
<1>6. IsFiniteSet(B) /\ Cardinality(B) <= IF f.what = "macro" THEN Macros(cs) + 1 ELSE Macros(cs)
  <2>1. /\ IsFiniteSet(A \cup {Len(cs) + 1})
        /\ Cardinality(A \cup {Len(cs) + 1}) =
             IF Len(cs) + 1 \in A THEN Cardinality(A) ELSE Cardinality(A) + 1
    BY <1>4, FS_AddElement
  <2>. QED BY <1>4, <2>1
<1>. HIDE DEF B
<1>7. Cardinality(MacrosOf(ds)) <= Cardinality(B)
  BY <1>5, <1>6, FS_Subset
<1>8. Cardinality(B) \in Nat /\ Macros(ds) \in Nat
  BY <1>2, <1>6, FS_CardinalityType, MacrosAre
<1>9. Macros(ds) <= IF f.what = "macro" THEN Macros(cs) + 1 ELSE Macros(cs)
  BY <1>4, <1>6, <1>7, <1>8 DEF Macros
<1>. QED BY <1>1, <1>2, <1>9

\* The innermost frame moved on, or begun again, is the same replay.
LEMMA TopMoved ==
  ASSUME NEW cs \in Seq(Frames), cs # <<>>, NEW f \in Frames, f.what = cs[Len(cs)].what
  PROVE  /\ [cs EXCEPT ![Len(cs)] = f] \in Seq(Frames)
         /\ Len([cs EXCEPT ![Len(cs)] = f]) = Len(cs)
         /\ Macros([cs EXCEPT ![Len(cs)] = f]) = Macros(cs)
<1>1. Len(cs) \in Nat /\ Len(cs) # 0 /\ Len(cs) \in 1..Len(cs)
  BY LenProperties, EmptySeq
<1>. DEFINE n == Len(cs)
            ds == [cs EXCEPT ![n] = f]
<1>. HIDE DEF n
<1>2. /\ ds \in Seq(Frames) /\ Len(ds) = Len(cs)
      /\ \A j \in 1..Len(cs) : ds[j] = IF j = n THEN f ELSE cs[j]
  BY <1>1, ExceptSeq DEF n
<1>. HIDE DEF ds
<1>3. Macros(ds) = Macros(cs)
  <2>1. \A j \in 1..Len(cs) : ds[j].what = cs[j].what
    BY <1>2 DEF n
  <2>. QED BY <1>2, <2>1, MacrosSame
<1>. QED BY <1>2, <1>3 DEF ds, n

-----------------------------------------------------------------------------
(* The invariant.                                                          *)

\* A buffer of the editor: its cursor is in the line, and unmodified it is the file.
Shown(b, t) ==
  /\ Good(b) /\ b.col <= Len(b.text)
  /\ (b.version = b.saved => b.text = t)

\* The macros that run are few, and a stack that overflowed holds more than those.
CallsOK ==
  /\ calls \in Seq(Frames) /\ Depth <= MaxReplayDepth
  /\ trapped => MaxReplayDepth < Len(calls)

IInv ==
  /\ vim \in Engines /\ win \in Windows /\ taps \in Nat
  /\ DOMAIN bufs = Windows /\ DOMAIN disk = Windows
  /\ bufs = [w \in Windows |-> bufs[w]] /\ disk = [w \in Windows |-> disk[w]]
  /\ \A w \in Windows : Shown(bufs[w], disk[w])
  /\ CallsOK
  /\ taps = 0 => \A w \in Windows : ~Strayed(w)

\* What a key makes of the buffer it works on: c instead of b, with the file t or u.
KeyStep(b, c, t, u) ==
  /\ Shown(c, u)
  /\ (b.group.open <=> vim.mode = "Insert") =>
       (c.group.open <=> vim'.mode = "Insert") /\ Becomes(vim.mode, b, c)

\* A key is recorded, and remembered when its command is done, without a change of the mode.
LEMMA KeptIs ==
  ASSUME NEW v \in Engines, NEW k \in Keys, bufs[win].version \in Nat
  PROVE  Kept(v, k) \in Engines /\ Kept(v, k).mode = v.mode
<1>. DEFINE r == IF v.recording THEN [v EXCEPT !.recorded = Append(@, k)] ELSE v
            no == k \in {"u", ".", ":", "q", "@", "^r"}
            n == bufs[win].version
            d == [r EXCEPT !.keybuf = <<>>, !.kbver = n, !.norepeat = no]
            c == IF v.mode = "Normal" /\ Idle(v) THEN d ELSE r
            x == [c EXCEPT !.keybuf = Append(@, k)]
<1>1. Kept(v, k) = IF v.replaying THEN v ELSE x
  BY DEF Kept
<1>2. r \in Engines /\ r.mode = v.mode
  <2>. DEFINE s == Append(v.recorded, k)
  <2>1. s \in Seq(Keys)
    BY DEF Engines
  <2>. HIDE DEF s
  <2>2. [v EXCEPT !.recorded = s] \in Engines /\ [v EXCEPT !.recorded = s].mode = v.mode
    BY <2>1 DEF Engines
  <2>. QED BY <2>2 DEF s
<1>3. no \in BOOLEAN /\ n \in Nat /\ <<>> \in Seq(Keys)
  BY EmptySeq
<1>. HIDE DEF r, no, n
<1>4. d \in Engines
  BY <1>2, <1>3 DEF Engines
<1>5. d.mode = v.mode
  BY <1>2 DEF Engines
<1>. HIDE DEF d
<1>6. c \in Engines /\ c.mode = v.mode
  BY <1>2, <1>4, <1>5
<1>. HIDE DEF c
<1>7. x \in Engines /\ x.mode = v.mode
  <2>. DEFINE s == Append(c.keybuf, k)
  <2>1. s \in Seq(Keys)
    BY <1>6 DEF Engines
  <2>. HIDE DEF s
  <2>2. [c EXCEPT !.keybuf = s] \in Engines /\ [c EXCEPT !.keybuf = s].mode = c.mode
    BY <1>6, <2>1 DEF Engines
  <2>. QED BY <1>6, <2>2 DEF s
<1>. HIDE DEF x
<1>. QED BY <1>1, <1>7

\* What is remembered when a command is done.
LEMMA DoneIs ==
  ASSUME NEW v \in Engines, NEW b
  PROVE  Done(v, b) \in Engines /\ Done(v, b).mode = v.mode
<1>. DEFINE s == IF ~v.norepeat /\ b.version # v.kbver THEN v.keybuf ELSE v.lastChange
            x == [v EXCEPT !.keybuf = <<>>, !.lastChange = s]
<1>1. Done(v, b) = IF v.replaying \/ v.mode # "Normal" \/ ~Idle(v) THEN v ELSE x
  BY DEF Done
<1>2. s \in Seq(Keys) /\ <<>> \in Seq(Keys)
  BY EmptySeq DEF Engines
<1>. HIDE DEF s
<1>3. x \in Engines
  BY <1>2 DEF Engines
<1>4. x.mode = v.mode
  BY DEF Engines
<1>. HIDE DEF x
<1>. QED BY <1>1, <1>3, <1>4

\* The windows' buffers after a key.
LEMMA KeyMakes ==
  ASSUME IInv, NEW k \in Keys, NEW v \in Engines, v.mode = vim.mode,
         NEW frames \in Seq(Frames), Macros(frames) = Depth, ~trapped,
         HandleKey(k, v, frames)
  PROVE  /\ vim' \in Engines /\ CallsOK'
         /\ \E c, u : /\ bufs' = [bufs EXCEPT ![win] = c] /\ disk' = [disk EXCEPT ![win] = u]
                      /\ KeyStep(bufs[win], c, disk[win], u)
<1>. DEFINE b == bufs[win]
            x == Kept(v, k)
            s == State(x, b)
            t == Dispatched(s, k)
<1>1. /\ vim \in Engines /\ win \in Windows /\ Shown(b, disk[win]) /\ CallsOK
      /\ DOMAIN disk = Windows
  BY DEF IInv
<1>2. /\ Good(b) /\ b \in Buffers /\ b.col <= Len(b.text) /\ b.version \in Nat /\ b.saved \in Nat
      /\ b.saved <= b.version /\ (b.version = b.saved => b.text = disk[win])
  BY <1>1, BufferTypes DEF Shown, Good
<1>3. x \in Engines /\ x.mode = vim.mode
  BY <1>2, KeptIs
<1>. DEFINE e == t.v.mode = "Insert"
            c == Clamp(t.b, e)
            cs == frames \o t.play
<1>4. /\ bufs' = [bufs EXCEPT ![win] = c]
      /\ disk' = IF t.save THEN [disk EXCEPT ![win] = c.text] ELSE disk
      /\ vim' = IF t.play = <<>> THEN Done(t.v, c) ELSE t.v
      /\ trapped' = (Len(cs) > StackSize)
      /\ calls' = IF trapped' THEN frames ELSE cs
  BY DEF HandleKey
<1>. HIDE DEF x
<1>5. Ready(s) /\ s.v = x /\ s.b = b
  <2>1. s \in States /\ s.v = x /\ s.b = b /\ s.save = FALSE /\ s.play = <<>>
    <3>1. <<>> \in Seq(Frames)
      BY EmptySeq
    <3>. HIDE DEF b
    <3>. QED BY <1>2, <1>3, <3>1 DEF State, States
  <2>. QED BY <1>2, <2>1 DEF Ready
<1>6. Depth \in Nat
  BY MacrosAre
<1>. HIDE DEF b, s
<1>7. Reply(s, t)
  BY <1>1, <1>5, <1>6, KeyReplies
<1>. HIDE DEF t
<1>8. /\ t \in States /\ Good(t.b) /\ Plays(t)
      /\ IF t.save THEN t.b.saved = t.b.version /\ t.b.text = b.text ELSE Later(b, t.b)
      /\ InSession(s) => InSession(t) /\ Becomes(vim.mode, b, t.b)
  BY <1>3, <1>5, <1>7 DEF Reply
<1>9. t.v \in Engines
  BY <1>8 DEF States
<1>10. e \in BOOLEAN
  OBVIOUS
<1>. HIDE DEF e
<1>11. /\ Good(c) /\ Same(t.b, c) /\ c.group = t.b.group /\ c.text = t.b.text
       /\ c.version = t.b.version /\ c.saved = t.b.saved /\ c.col \in 0..Len(c.text)
  BY <1>8, <1>10, ClampKeeps
<1>. HIDE DEF c
<1>12. vim' \in Engines /\ vim'.mode = t.v.mode
  BY <1>4, <1>9, DoneIs
<1>13. CallsOK'
  <2>1. \/ t.play = <<>> /\ cs = frames
        \/ \E f \in Frames : t.play = <<f>> /\ (f.what = "macro" => Depth < MaxReplayDepth)
    BY <1>8, ConcatEmptySeq DEF Plays
  <2>2. Depth <= MaxReplayDepth /\ MaxReplayDepth \in Nat /\ StackSize \in Nat
        /\ MaxReplayDepth < StackSize
    BY <1>1, VimAssumption DEF CallsOK
  <2>3. CASE t.play = <<>> /\ cs = frames
    <3>1. calls' = frames /\ Depth' <= MaxReplayDepth
      BY <1>4, <2>2, <2>3 DEF Depth, Macros, MacrosOf
    <3>2. trapped' => MaxReplayDepth < Len(frames)
      <4>1. Len(frames) \in Nat
        BY MacrosAre
      <4>2. trapped' => Len(frames) > StackSize
        BY <1>4, <2>3
      <4>3. Len(frames) > StackSize => MaxReplayDepth < Len(frames)
        BY <2>2, <4>1
      <4>. QED BY <4>2, <4>3
    <3>. QED BY <3>1, <3>2 DEF CallsOK
  <2>4. ASSUME NEW f \in Frames, t.play = <<f>>, f.what = "macro" => Depth < MaxReplayDepth
        PROVE  CallsOK'
    <3>1. /\ cs \in Seq(Frames) /\ Len(cs) = Len(frames) + 1
          /\ Macros(cs) <= IF f.what = "macro" THEN Macros(frames) + 1 ELSE Macros(frames)
      BY <2>4, MacrosOfPush
    <3>2. Macros(cs) \in Nat /\ Macros(frames) \in Nat /\ Len(frames) \in Nat
      BY <3>1, MacrosAre
    <3>3. Macros(cs) <= MaxReplayDepth
      BY <1>6, <2>2, <2>4, <3>1, <3>2
    <3>. HIDE DEF cs
    <3>4. Depth' = Macros(calls')
      BY DEF Depth, Macros, MacrosOf
    <3>5. calls' \in Seq(Frames) /\ Macros(calls') <= MaxReplayDepth
      BY <1>4, <2>2, <3>1, <3>3
    <3>6. trapped' => MaxReplayDepth < Len(calls')
      <4>1. trapped' => calls' = frames /\ Len(cs) > StackSize
        BY <1>4
      <4>2. Len(frames) + 1 > StackSize => MaxReplayDepth < Len(frames)
        BY <2>2, <3>2
      <4>. QED BY <3>1, <4>1, <4>2
    <3>. QED BY <3>4, <3>5, <3>6 DEF CallsOK
  <2>. QED BY <2>1, <2>3, <2>4
<1>. DEFINE u == IF t.save THEN c.text ELSE disk[win]
<1>14. disk' = [disk EXCEPT ![win] = u]
  <2>1. disk = [disk EXCEPT ![win] = disk[win]]
    BY <1>1 DEF IInv
  <2>. QED BY <1>4, <2>1
<1>15. Shown(c, u)
  <2>1. c.version = c.saved => c.text = u
    <3>1. CASE t.save
      BY <3>1
    <3>2. CASE ~t.save
      <4>1. /\ t.b.saved = b.saved /\ b.version <= t.b.version
            /\ (t.b.version = b.version => t.b.text = b.text)
        BY <1>8, <3>2 DEF Later
      <4>2. t.b.version \in Nat /\ t.b.saved \in Nat
        BY <1>8, BufferTypes DEF Good
      <4>3. t.b.version = t.b.saved => t.b.version = b.version /\ b.version = b.saved
        BY <1>2, <4>1, <4>2
      <4>. QED BY <1>2, <1>11, <3>2, <4>1, <4>3 DEF b
    <3>. QED BY <3>1, <3>2
  <2>2. c.col <= Len(c.text)
    BY <1>11
  <2>. QED BY <1>11, <2>1, <2>2 DEF Shown
<1>16. ASSUME b.group.open <=> vim.mode = "Insert"
       PROVE  (c.group.open <=> vim'.mode = "Insert") /\ Becomes(vim.mode, b, c)
  <2>1. InSession(s)
    BY <1>3, <1>5, <1>16 DEF InSession
  <2>2. InSession(t) /\ Becomes(vim.mode, b, t.b)
    BY <1>8, <2>1
  <2>3. Becomes(vim.mode, b, c)
    BY <1>11, <2>2 DEF Becomes, Same, Recorded, Amended, Undone, Redone
  <2>. QED BY <1>11, <1>12, <2>2, <2>3 DEF InSession
<1>17. KeyStep(b, c, disk[win], u)
  BY <1>15, <1>16 DEF KeyStep
<1>. QED BY <1>4, <1>12, <1>13, <1>14, <1>17 DEF b

\* A group is open or closed.
LEMMA OpenIsBoolean ==
  ASSUME NEW b \in Buffers, NEW here \in BOOLEAN
  PROVE  ~(b.group.open # here) <=> (b.group.open <=> here)
<1>1. b.group.open \in BOOLEAN
  BY BufferTypes
<1>. QED BY <1>1

\* The parts of Shown.
LEMMA ShownIs ==
  ASSUME NEW b, NEW t, Shown(b, t)
  PROVE  b \in Buffers /\ Good(b) /\ b.col <= Len(b.text) /\ (b.version = b.saved => b.text = t)
BY DEF Shown, Good

\* It holds at first.
LEMMA InitInv == Init => IInv
<1>. DEFINE t == <<"a", "x">>
            b == NewBuffer(t)
<1>1. SUFFICES ASSUME Init PROVE IInv
  OBVIOUS
<1>2. /\ t \in Words /\ Len(t) \in Nat
      /\ <<>> \in Seq(Snaps) /\ <<>> \in Seq(Keys) /\ <<>> \in Seq(Frames)
  <2>1. "a" \in Chars /\ "x" \in Chars
    BY DEF Chars, Letters
  <2>2. t \in Seq(Chars)
    BY <2>1
  <2>. QED BY <2>2, EmptySeq, LenProperties DEF Words
<1>. HIDE DEF t
<1>3. b \in Buffers /\ ~b.group.open
  BY <1>2 DEF NewBuffer, Buffers, Groups, NoGroup
<1>4. b.col = 0 /\ b.version = 0 /\ b.saved = 0 /\ b.text = t /\ b.undo = <<>>
  BY DEF NewBuffer
<1>. HIDE DEF b
<1>5. Shown(b, t)
  <2>1. Len(b.undo) <= UndoCap
    BY <1>4, EmptySeq, UndoAssumption
  <2>. QED BY <1>2, <1>3, <1>4, <2>1 DEF Shown, Good
<1>6. bufs = [w \in Windows |-> b] /\ disk = [w \in Windows |-> t]
  BY <1>1 DEF Init, b, t
<1>7. vim \in Engines /\ vim.mode = "Normal"
  BY <1>1, <1>2 DEF Init, NewVim, Engines, Modes
<1>8. CallsOK
  <2>1. calls = <<>> /\ DOMAIN calls = {} /\ ~trapped
    BY <1>1, EmptySeq DEF Init
  <2>2. Depth = 0
    BY <2>1, FS_EmptySet DEF Depth
  <2>. QED BY <1>2, <2>1, <2>2, VimAssumption DEF CallsOK
<1>9. ASSUME NEW w \in Windows PROVE ~Strayed(w)
  <2>1. bufs[w] = b
    BY <1>6
  <2>. QED BY <1>3, <1>7, <2>1, OpenIsBoolean DEF Strayed
<1>10. win \in Windows /\ taps \in Nat
  BY <1>1 DEF Init, Windows
<1>. QED BY <1>5, <1>6, <1>7, <1>8, <1>9, <1>10 DEF IInv

\* The buffers after a key: that of the window, and the other, which it leaves alone.
LEMMA KeyInv ==
  ASSUME IInv, NEW k \in Keys, NEW v \in Engines, v.mode = vim.mode,
         NEW frames \in Seq(Frames), Macros(frames) = Depth, ~trapped,
         HandleKey(k, v, frames), win' = win, taps' = taps
  PROVE  /\ IInv'
         /\ \A w \in Windows : w # win => bufs'[w] = bufs[w]
         /\ ~Strayed(win) => Becomes(vim.mode, bufs[win], bufs'[win])
<1>1. PICK c, u : /\ bufs' = [bufs EXCEPT ![win] = c] /\ disk' = [disk EXCEPT ![win] = u]
                  /\ KeyStep(bufs[win], c, disk[win], u)
  BY KeyMakes
<1>2. vim' \in Engines /\ CallsOK'
  BY KeyMakes
<1>3. /\ vim \in Engines /\ win \in Windows /\ taps \in Nat
      /\ DOMAIN bufs = Windows /\ DOMAIN disk = Windows
      /\ \A w \in Windows : Shown(bufs[w], disk[w])
      /\ taps = 0 => \A w \in Windows : ~Strayed(w)
  BY DEF IInv
<1>4. /\ DOMAIN bufs' = Windows /\ DOMAIN disk' = Windows
      /\ bufs' = [w \in Windows |-> bufs'[w]] /\ disk' = [w \in Windows |-> disk'[w]]
      /\ bufs'[win] = c /\ disk'[win] = u
      /\ \A w \in Windows : w # win => bufs'[w] = bufs[w] /\ disk'[w] = disk[w]
  BY <1>1, <1>3
<1>5. /\ Shown(c, u)
      /\ (bufs[win].group.open <=> vim.mode = "Insert") =>
            (c.group.open <=> vim'.mode = "Insert") /\ Becomes(vim.mode, bufs[win], c)
  BY <1>1 DEF KeyStep
<1>6. ASSUME NEW w \in Windows PROVE Shown(bufs'[w], disk'[w])
  BY <1>3, <1>4, <1>5
<1>7. ~Strayed(win) => (bufs[win].group.open <=> vim.mode = "Insert")
  <2>1. bufs[win] \in Buffers
    BY <1>3, ShownIs
  <2>. DEFINE here == vim.mode = "Insert"
  <2>2. Strayed(win) = (bufs[win].group.open # (here /\ TRUE))
    BY DEF Strayed
  <2>3. here \in BOOLEAN
    OBVIOUS
  <2>. QED BY <2>1, <2>2, <2>3, OpenIsBoolean
<1>8. ASSUME taps = 0, NEW w \in Windows PROVE ~Strayed(w)'
  <2>1. bufs'[w] \in Buffers /\ bufs[w] \in Buffers
    BY <1>3, <1>6, ShownIs
  <2>2. ~Strayed(w)
    BY <1>3, <1>8
  <2>3. CASE w = win
    <3>1. c.group.open <=> (vim'.mode = "Insert" /\ win' = w)
      BY <1>5, <1>7, <2>2, <2>3
    <3>. DEFINE here == vim'.mode = "Insert" /\ win' = w
    <3>2. ~(c.group.open # here)
      BY <1>4, <2>1, <2>3, <3>1, OpenIsBoolean
    <3>. QED BY <1>4, <2>3, <3>2 DEF Strayed
  <2>4. CASE w # win
    <3>. DEFINE here == vim.mode = "Insert" /\ win = w
                then == vim'.mode = "Insert" /\ win' = w
    <3>1. here = then
      BY <2>4
    <3>2. bufs'[w] = bufs[w]
      BY <1>4, <2>4
    <3>. QED BY <2>2, <3>1, <3>2 DEF Strayed
  <2>. QED BY <2>3, <2>4
<1>9. IInv'
  BY <1>2, <1>3, <1>4, <1>6, <1>8 DEF IInv
<1>. QED BY <1>4, <1>5, <1>7, <1>9

\* What a step makes of the buffers: what a command may make of the window's, unless a tap has led
\* away from an insert session in it, and nothing of the other's.
Keeps ==
  /\ IInv'
  /\ \A w \in Windows :
       \/ Same(bufs[w], bufs'[w])
       \/ taps > 0 /\ Strayed(w)
       \/ Becomes(vim.mode, bufs[w], bufs'[w])

\* A key makes of a window what a command may.
LEMMA KeyKeeps ==
  ASSUME IInv, NEW k \in Keys, NEW v \in Engines, v.mode = vim.mode,
         NEW frames \in Seq(Frames), Macros(frames) = Depth, ~trapped,
         HandleKey(k, v, frames), win' = win, taps' = taps
  PROVE  Keeps
<1>1. /\ IInv'
      /\ \A w \in Windows : w # win => bufs'[w] = bufs[w]
      /\ ~Strayed(win) => Becomes(vim.mode, bufs[win], bufs'[win])
  BY KeyInv
<1>2. taps \in Nat /\ (taps = 0 => \A w \in Windows : ~Strayed(w))
  BY DEF IInv
<1>3. ASSUME NEW w \in Windows
      PROVE  \/ Same(bufs[w], bufs'[w])
             \/ taps > 0 /\ Strayed(w)
             \/ Becomes(vim.mode, bufs[w], bufs'[w])
  <2>1. CASE w # win
    <3>1. bufs'[w] = bufs[w]
      BY <1>1, <2>1
    <3>. QED BY <3>1 DEF Same
  <2>2. CASE w = win
    <3>1. CASE Strayed(win)
      BY <1>2, <2>2, <3>1
    <3>2. CASE ~Strayed(win)
      BY <1>1, <2>2, <3>2
    <3>. QED BY <3>1, <3>2
  <2>. QED BY <2>1, <2>2
<1>. QED BY <1>1, <1>3 DEF Keeps

\* A step that leaves the buffers and the mode alone.
LEMMA IdleKeeps ==
  ASSUME IInv, vim' \in Engines, vim'.mode = vim.mode, CallsOK',
         UNCHANGED <<bufs, win, disk, taps>>
  PROVE  Keeps
<1>1. IInv'
  <2>1. ASSUME taps' = 0, NEW w \in Windows PROVE ~Strayed(w)'
    <3>1. ~Strayed(w)
      BY <2>1 DEF IInv
    <3>. QED BY <3>1 DEF Strayed
  <2>. QED BY <2>1 DEF IInv
<1>. QED BY <1>1 DEF Keeps, Same

\* The user has only keys.
LEMMA OfferedAreKeys == Offered \subseteq Keys
BY DEF Offered, Keys, Chars, Letters

\* A key of the user.
LEMMA PressKeeps ==
  ASSUME IInv, Press
  PROVE  Keeps
<1>1. PICK k \in Offered : HandleKey(k, vim, <<>>)
  BY DEF Press
<1>2. calls = <<>> /\ ~trapped /\ win' = win /\ taps' = taps
  BY DEF Press
<1>3. k \in Keys /\ vim \in Engines /\ <<>> \in Seq(Frames)
  BY <1>1, OfferedAreKeys, EmptySeq DEF IInv
<1>4. Macros(<<>>) = Depth
  BY <1>2 DEF Depth, Macros, MacrosOf
<1>. QED BY <1>1, <1>2, <1>3, <1>4, KeyKeeps

\* A tap changes nothing but a cursor.
LEMMA TapKeeps ==
  ASSUME IInv, Tap
  PROVE  Keeps
<1>1. PICK w \in Windows : \E c \in 0..Len(bufs[w].text) :
        /\ win' = w
        /\ bufs' = [bufs EXCEPT ![w] = Clamp([@ EXCEPT !.col = c], vim.mode = "Insert")]
  BY DEF Tap
<1>2. PICK c \in 0..Len(bufs[w].text) :
        /\ win' = w
        /\ bufs' = [bufs EXCEPT ![w] = Clamp([bufs[w] EXCEPT !.col = c], vim.mode = "Insert")]
  BY <1>1
<1>3. /\ vim \in Engines /\ taps \in Nat /\ CallsOK
      /\ DOMAIN bufs = Windows /\ DOMAIN disk = Windows
      /\ bufs = [x \in Windows |-> bufs[x]] /\ disk = [x \in Windows |-> disk[x]]
      /\ \A x \in Windows : Shown(bufs[x], disk[x])
  BY DEF IInv
<1>4. vim' = vim /\ disk' = disk /\ calls' = calls /\ trapped' = trapped /\ taps' = taps + 1
  BY DEF Tap
<1>. DEFINE m == [bufs[w] EXCEPT !.col = c]
            e == vim.mode = "Insert"
            d == Clamp(m, e)
<1>5. Good(bufs[w]) /\ c \in Nat
  <2>1. Good(bufs[w])
    BY <1>3, ShownIs
  <2>. QED BY <2>1, BufferTypes DEF Good
<1>6. Good(m) /\ Later(bufs[w], m) /\ Same(bufs[w], m)
  BY <1>5, MoveKeeps
<1>7. e \in BOOLEAN
  OBVIOUS
<1>8. bufs' = [bufs EXCEPT ![w] = d]
  BY <1>2
<1>. HIDE DEF m, e
<1>9. Good(d) /\ Later(m, d) /\ Same(m, d) /\ d.col \in 0..Len(d.text)
  BY <1>6, <1>7, ClampKeeps
<1>. HIDE DEF d
<1>10. Good(d) /\ Later(bufs[w], d) /\ Same(bufs[w], d) /\ d.col <= Len(d.text)
  <2>1. /\ m.version \in Nat /\ d.version \in Nat /\ bufs[w].version \in Nat
        /\ Len(d.text) \in Nat
    BY <1>5, <1>6, <1>9, BufferTypes DEF Good
  <2>. QED BY <1>6, <1>9, <2>1 DEF Later, Same
<1>11. /\ bufs'[w] = d /\ DOMAIN bufs' = Windows /\ bufs' = [x \in Windows |-> bufs'[x]]
       /\ \A x \in Windows : x # w => bufs'[x] = bufs[x]
  BY <1>3, <1>8
<1>12. ASSUME NEW x \in Windows
       PROVE  Shown(bufs'[x], disk'[x]) /\ Same(bufs[x], bufs'[x])
  <2>1. CASE x = w
    <3>1. Shown(bufs[w], disk[w])
      BY <1>3
    <3>2. d.version = d.saved => d.text = disk[w]
      BY <1>10, <3>1, BufferTypes DEF Shown, Later, Good
    <3>. QED BY <1>4, <1>10, <1>11, <2>1, <3>2 DEF Shown
  <2>2. CASE x # w
    BY <1>3, <1>4, <1>11, <2>2 DEF Same
  <2>. QED BY <2>1, <2>2
<1>13. CallsOK'
  BY <1>3, <1>4 DEF CallsOK, Depth
<1>14. taps' \in Nat /\ taps' # 0
  BY <1>3, <1>4
<1>15. IInv'
  BY <1>2, <1>3, <1>4, <1>11, <1>12, <1>13, <1>14 DEF IInv
<1>. QED BY <1>12, <1>15 DEF Keeps

\* The frame of the innermost replay.
LEMMA TopIs ==
  ASSUME IInv, calls # <<>>
  PROVE  /\ Top \in Frames /\ Len(calls) \in DOMAIN calls /\ calls \in Seq(Frames)
         /\ Top.of \in Seq(Keys) /\ Top.i \in Nat \ {0} /\ Top.runs \in Nat \ {0}
<1>1. calls \in Seq(Frames)
  BY DEF IInv, CallsOK
<1>2. Len(calls) \in 1..Len(calls) /\ DOMAIN calls = 1..Len(calls)
  BY <1>1, LenProperties, EmptySeq
<1>3. Top \in Frames
  BY <1>1, <1>2, ElementOfSeq DEF Top
<1>. QED BY <1>1, <1>2, <1>3 DEF Frames

\* A replay at another of its keys.
LEMMA FrameAt ==
  ASSUME NEW f \in Frames, NEW i \in Nat \ {0}
  PROVE  [f EXCEPT !.i = i] \in Frames /\ [f EXCEPT !.i = i].what = f.what
BY DEF Frames

\* A key of the innermost replay.
LEMMA ReplayKeyKeeps ==
  ASSUME IInv, ReplayKey
  PROVE  Keeps
<1>. DEFINE k == Top.of[Top.i]
            v == IF Top.what = "macro" THEN [vim EXCEPT !.steps = @ + 1] ELSE vim
            i == Top.i + 1
            f == [Top EXCEPT !.i = i]
            frames == [calls EXCEPT ![Len(calls)] = f]
<1>1. /\ calls # <<>> /\ ~trapped /\ Top.i <= Len(Top.of) /\ win' = win /\ taps' = taps
      /\ HandleKey(k, v, [calls EXCEPT ![Len(calls)].i = @ + 1])
  BY DEF ReplayKey
<1>2. /\ Top \in Frames /\ Len(calls) \in DOMAIN calls /\ calls \in Seq(Frames)
      /\ Top.of \in Seq(Keys) /\ Top.i \in Nat \ {0}
  BY <1>1, TopIs
<1>3. k \in Keys
  <2>1. Len(Top.of) \in Nat /\ Top.i \in 1..Len(Top.of)
    BY <1>1, <1>2, LenProperties
  <2>. QED BY <1>2, <2>1, ElementOfSeq
<1>4. v \in Engines /\ v.mode = vim.mode
  <2>. DEFINE n == vim.steps + 1
  <2>1. vim \in Engines /\ n \in Nat
    BY DEF IInv, Engines
  <2>. HIDE DEF n
  <2>2. [vim EXCEPT !.steps = n] \in Engines /\ [vim EXCEPT !.steps = n].mode = vim.mode
    BY <2>1 DEF Engines
  <2>. QED BY <2>1, <2>2 DEF n
<1>5. i \in Nat \ {0}
  BY <1>2
<1>6. [calls EXCEPT ![Len(calls)].i = @ + 1] = frames
  BY DEF Top
<1>. HIDE DEF k, v, i
<1>7. f \in Frames /\ f.what = Top.what
  BY <1>2, <1>5, FrameAt
<1>. HIDE DEF f
<1>8. frames \in Seq(Frames) /\ Macros(frames) = Macros(calls)
  BY <1>1, <1>2, <1>7, TopMoved DEF Top
<1>9. Macros(calls) = Depth
  BY DEF Depth, Macros, MacrosOf
<1>. HIDE DEF frames
<1>10. HandleKey(k, v, frames)
  BY <1>1, <1>6
<1>. QED BY <1>1, <1>3, <1>4, <1>8, <1>9, <1>10, KeyKeeps

\* A replay begins again.
LEMMA ReplayAgainKeeps ==
  ASSUME IInv, ReplayAgain
  PROVE  Keeps
<1>. DEFINE n == Top.runs - 1
            f == [Top EXCEPT !.i = 1, !.runs = n]
            frames == [calls EXCEPT ![Len(calls)] = f]
<1>1. /\ calls # <<>> /\ ~trapped /\ Top.i > Len(Top.of) /\ ~ReplayOver
      /\ calls' = [calls EXCEPT ![Len(calls)].i = 1, ![Len(calls)].runs = @ - 1]
      /\ UNCHANGED <<vim, bufs, win, disk, trapped, taps>>
  BY DEF ReplayAgain
<1>2. /\ Top \in Frames /\ Len(calls) \in DOMAIN calls /\ calls \in Seq(Frames)
      /\ Top.runs \in Nat \ {0}
  BY <1>1, TopIs
<1>3. n \in Nat \ {0}
  BY <1>1, <1>2 DEF ReplayOver
<1>4. calls' = frames
  BY <1>1, <1>2 DEF Top, Frames
<1>. HIDE DEF n
<1>5. f \in Frames /\ f.what = Top.what
  <2>. DEFINE g == [Top EXCEPT !.i = 1]
  <2>1. 1 \in Nat \ {0}
    OBVIOUS
  <2>2. g \in Frames /\ g.what = Top.what
    BY <1>2, <2>1, FrameAt
  <2>. HIDE DEF g
  <2>3. [g EXCEPT !.runs = n] \in Frames
    BY <1>3, <2>2 DEF Frames
  <2>4. [g EXCEPT !.runs = n].what = g.what
    BY <2>2 DEF Frames
  <2>. QED BY <2>2, <2>3, <2>4 DEF g
<1>. HIDE DEF f
<1>6. frames \in Seq(Frames) /\ Len(frames) = Len(calls) /\ Macros(frames) = Macros(calls)
  BY <1>1, <1>2, <1>5, TopMoved DEF Top
<1>. HIDE DEF frames
<1>7. Macros(calls) = Depth /\ Macros(calls') = Depth'
  BY DEF Depth, Macros, MacrosOf
<1>8. CallsOK'
  BY <1>1, <1>4, <1>6, <1>7 DEF CallsOK, IInv
<1>9. vim' \in Engines /\ vim'.mode = vim.mode
  BY <1>1 DEF IInv
<1>. QED BY <1>1, <1>8, <1>9, IdleKeeps

\* A replay comes back.
LEMMA ReplayEndKeeps ==
  ASSUME IInv, ReplayEnd
  PROVE  Keeps
<1>. DEFINE macro == Top.what = "macro"
            was == macro /\ Top.was
            n == IF macro /\ Depth = 1 THEN 0 ELSE vim.steps
            v == [vim EXCEPT !.replaying = was, !.steps = n]
<1>1. /\ calls # <<>> /\ ~trapped /\ calls' = Front(calls)
      /\ UNCHANGED <<bufs, win, disk, trapped, taps>>
  BY DEF ReplayEnd
<1>2. vim' = Done(v, bufs[win])
  BY DEF ReplayEnd
<1>3. Top \in Frames /\ calls \in Seq(Frames)
  BY <1>1, TopIs
<1>4. was \in BOOLEAN
  BY <1>3 DEF Frames
<1>5. vim \in Engines /\ n \in Nat
  BY DEF IInv, Engines
<1>. HIDE DEF was, n
<1>6. v \in Engines /\ v.mode = vim.mode
  BY <1>4, <1>5 DEF Engines
<1>. HIDE DEF v
<1>7. vim' \in Engines /\ vim'.mode = vim.mode
  BY <1>2, <1>6, DoneIs
<1>8. /\ Front(calls) \in Seq(Frames) /\ Macros(Front(calls)) <= Macros(calls)
      /\ Macros(Front(calls)) \in Nat /\ Macros(calls) \in Nat
  BY <1>1, <1>3, MacrosOfFront, MacrosAre
<1>9. Macros(calls) = Depth /\ Macros(calls') = Depth'
  BY DEF Depth, Macros, MacrosOf
<1>10. Depth <= MaxReplayDepth /\ MaxReplayDepth \in Nat
  BY VimAssumption DEF IInv, CallsOK
<1>11. Depth' <= MaxReplayDepth
  BY <1>1, <1>8, <1>9, <1>10
<1>12. CallsOK'
  BY <1>1, <1>8, <1>11 DEF CallsOK
<1>. QED BY <1>1, <1>7, <1>12, IdleKeeps

\* Every step.
LEMMA NextKeeps ==
  ASSUME IInv, [Next]_vimVars
  PROVE  Keeps
<1>1. CASE UNCHANGED vimVars
  <2>1. vim' = vim /\ UNCHANGED <<bufs, win, disk, taps, calls, trapped>>
    BY <1>1 DEF vimVars
  <2>2. CallsOK' /\ vim' \in Engines
    BY <2>1 DEF IInv, CallsOK, Depth
  <2>. QED BY <2>1, <2>2, IdleKeeps
<1>2. CASE Next
  BY <1>2, PressKeeps, TapKeeps, ReplayKeyKeeps, ReplayAgainKeeps, ReplayEndKeeps DEF Next
<1>. QED BY <1>1, <1>2

\* Typed and tied, in every state that can be reached.
LEMMA IInvAlways == Spec => []IInv
<1>1. IInv /\ [Next]_vimVars => IInv'
  BY NextKeeps DEF Keeps
<1>. QED BY <1>1, InitInv, PTL DEF Spec

-----------------------------------------------------------------------------
(* The theorems.                                                           *)

\* The engine is of its types: the cursor stays in the line through every edit, undo, redo, tap
\* and replay, and no buffer keeps more undo steps than the cap.
THEOREM VimTypeCorrect == Spec => []VimTypeOK
<1>1. IInv => VimTypeOK
  <2>1. SUFFICES ASSUME IInv PROVE VimTypeOK
    OBVIOUS
  <2>2. vim \in Engines /\ \A w \in Windows : Shown(bufs[w], disk[w])
    BY <2>1 DEF IInv
  <2>3. ASSUME NEW w \in Windows
        PROVE  bufs[w].col \in 0..Len(bufs[w].text) /\ Len(bufs[w].undo) <= UndoCap
    BY <2>2, ShownIs, BufferTypes DEF Good
  <2>4. /\ vim.mode \in {"Normal", "Insert", "Command"} /\ {vim.count, vim.opcount} \subseteq Nat
        /\ vim.awaiting \in {"none", "reg", "play", "find", "object"}
    BY <2>2 DEF Engines, Modes
  <2>. QED BY <2>3, <2>4 DEF VimTypeOK
<1>. QED BY <1>1, IInvAlways, PTL

\* A buffer that is not marked as modified is the file as it was last written, whatever was undone
\* and redone since: a version never comes back.
THEOREM UnmodifiedIsSaved == Spec => []NotModifiedMeansSaved
<1>1. IInv => NotModifiedMeansSaved
  BY ShownIs DEF IInv, NotModifiedMeansSaved, Modified
<1>. QED BY <1>1, IInvAlways, PTL

\* Macros that call themselves come back: when the stack overflows a dot-repeat is on it.
THEOREM MacrosComeBack == Spec => []MacrosAreBounded
<1>1. IInv => MacrosAreBounded
  <2>1. SUFFICES ASSUME IInv, trapped PROVE \E j \in DOMAIN calls : calls[j].what = "dot"
    BY DEF MacrosAreBounded
  <2>2. calls \in Seq(Frames) /\ Depth <= MaxReplayDepth /\ MaxReplayDepth < Len(calls)
    BY <2>1 DEF IInv, CallsOK
  <2>3. Depth = Macros(calls)
    BY DEF Depth, Macros, MacrosOf
  <2>4. /\ Macros(calls) \in Nat /\ Len(calls) \in Nat
        /\ (\A j \in DOMAIN calls : calls[j].what # "dot") => Macros(calls) = Len(calls)
    BY <2>2, MacrosAre
  <2>5. Macros(calls) # Len(calls)
    BY <2>2, <2>3, <2>4, VimAssumption
  <2>. QED BY <2>4, <2>5
<1>. QED BY <1>1, IInvAlways, PTL

\* Every normal-mode command is one step of the undo history, and so is an insert session, however
\* many keys, edits and replays it takes: each step of the engine leaves the history of a window
\* alone, records the text, alters the present of the step that is open, or goes back or forth
\* along the line of texts.
THEOREM CommandsAreUndoSteps == Spec => UndoStepsAreCommands
<1>. DEFINE Records(w) == ~Changed(bufs[w]) /\ History(w)!Record(bufs'[w].text)
            Amends(w) == vim.mode = "Insert" /\ History(w)!Amend(bufs'[w].text)
            Backs(w) == vim.mode = "Normal" /\ \E n \in 1..Len(Past(bufs[w])) : History(w)!Back(n)
            Forths(w) == vim.mode = "Normal"
                         /\ \E n \in 1..Len(Future(bufs[w])) : History(w)!Forth(n)
            Rests(w) == UNCHANGED <<Past(bufs[w]), bufs[w].text, Future(bufs[w])>>
            StepOf(w) == \/ taps > 0 /\ Strayed(w)
                         \/ Rests(w) \/ Records(w) \/ Amends(w) \/ Backs(w) \/ Forths(w)
<1>1. ASSUME IInv, [Next]_vimVars, NEW w \in Windows PROVE StepOf(w)
  <2>. DEFINE b == bufs[w]
              c == bufs'[w]
  <2>1. \/ Same(b, c)
        \/ taps > 0 /\ Strayed(w)
        \/ Becomes(vim.mode, b, c)
    BY <1>1, NextKeeps DEF Keeps
  <2>2. b.text \in Words /\ Past(b) \in Seq(Words) /\ Future(b) \in Seq(Words)
    <3>1. Good(b)
      BY <1>1, ShownIs DEF IInv
    <3>. QED BY <3>1, HistoryIs, BufferTypes DEF Good
  <2>3. ASSUME NEW s \in Seq(Words) PROVE Capped(s) = History(w)!LastOf(s, UndoCap)
    <3>1. Len(s) \in Nat /\ UndoCap \in Nat
      BY LenProperties, UndoAssumption
    <3>. QED BY <3>1 DEF Capped, History!LastOf
  <2>4. Same(b, c) => Rests(w)
    BY DEF Same
  <2>5. Recorded(b, c) => Records(w)
    <3>1. Append(Past(b), b.text) \in Seq(Words)
      BY <2>2, AppendProperties
    <3>2. Capped(Append(Past(b), b.text)) = History(w)!LastOf(Append(Past(b), b.text), UndoCap)
      BY <2>3, <3>1
    <3>. QED BY <3>2 DEF Recorded, History!Record
  <2>6. vim.mode = "Insert" /\ Amended(b, c) => Amends(w)
    BY DEF Amended, History!Amend
  <2>7. ASSUME vim.mode = "Normal", NEW k \in Nat, Undone(b, c, k) PROVE Backs(w)
    BY <2>7 DEF Undone, Line, LineOf, History!Back
  <2>8. ASSUME vim.mode = "Normal", NEW k \in Nat, Redone(b, c, k) PROVE Forths(w)
    <3>. DEFINE n == Len(Past(b)) + k
                x == SubSeq(Line(b), 1, n)
    <3>1. k \in 1..Len(Future(b)) /\ Past(c) = Capped(x)
      BY <2>8 DEF Redone
    <3>2. Line(b) \in Seq(Words) /\ Len(Line(b)) = Len(Past(b)) + 1 + Len(Future(b))
      BY <2>2, LineIs DEF Line
    <3>3. x \in Seq(Words)
      <4>1. Len(Past(b)) \in Nat /\ Len(Future(b)) \in Nat
        BY <2>2, LenProperties
      <4>2. n \in Nat /\ n <= Len(Line(b))
        BY <3>1, <3>2, <4>1
      <4>. HIDE DEF n
      <4>3. n \in Int /\ \A i \in 1..n : Line(b)[i] \in Words
        <5>1. Len(Line(b)) \in Nat
          BY <3>2, LenProperties
        <5>. QED BY <3>2, <4>2, <5>1, ElementOfSeq
      <4>. QED BY <4>3, SubSeqProperties
    <3>4. Past(c) = History(w)!LastOf(x, UndoCap)
      BY <2>3, <3>1, <3>3
    <3>. QED BY <2>8, <3>4 DEF Redone, Line, LineOf, History!Forth
  <2>. HIDE DEF Records, Amends, Backs, Forths, Rests
  <2>9. CASE Becomes(vim.mode, b, c)
    BY <2>4, <2>5, <2>6, <2>7, <2>8, <2>9 DEF Becomes
  <2>. QED BY <2>1, <2>4, <2>9
<1>2. IInv /\ [Next]_vimVars =>
        [\A w \in Windows :
           \/ taps > 0 /\ Strayed(w)
           \/ UNCHANGED <<Past(bufs[w]), bufs[w].text, Future(bufs[w])>>
           \/ ~Changed(bufs[w]) /\ History(w)!Record(bufs'[w].text)
           \/ vim.mode = "Insert" /\ History(w)!Amend(bufs'[w].text)
           \/ vim.mode = "Normal" /\ \E n \in 1..Len(Past(bufs[w])) : History(w)!Back(n)
           \/ vim.mode = "Normal"
              /\ \E n \in 1..Len(Future(bufs[w])) : History(w)!Forth(n)]_vimVars
  BY <1>1
<1>. QED BY <1>2, IInvAlways, PTL DEF Spec, UndoStepsAreCommands
=============================================================================
