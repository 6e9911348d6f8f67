---------------------------- MODULE ImeBridge_proofs ---------------------------
(***************************************************************************)
(* What the keyboard bridge of ImeBridge guarantees, for all letters,      *)
(* texts and numbers of calls and moves: its types, and that the keyboard  *)
(* follows the session.                                                    *)
(*                                                                         *)
(* A frame goes through a queue of events and through what egui is given,  *)
(* one at a time.  Folded and UpToN are what is needed of induction for    *)
(* that, from the least element of a set of numbers.  After the types come *)
(* the posted calls: which of them may still bring the keyboard up or      *)
(* down, and that the last to do so agrees with the session (Session).     *)
(***************************************************************************)
EXTENDS ImeBridge, SequenceTheorems, WellFoundedInduction, TLAPS

\* Texts, and selections of them.
Words == Seq(Letters)
Spans == {s \in Nat \X Nat : s[1] <= s[2]}

\* What an EditText may hold.
Edits ==
  {e \in [text : Words, caret : Nat, span : {None} \cup Spans] :
     /\ e.caret <= Len(e.text)
     /\ e.span # None => e.span[1] < e.span[2] /\ e.span[2] <= Len(e.text)}

\* And a field, and its undoer.
Fields == [text : Words, sel : Spans, comp : BOOLEAN]
Feeds == [text : Words, sel : Spans]

\* What the keyboard queues, what is posted to it, and what egui is given.
Events ==
  [k : {"T", "C"}, t : Words] \cup [k : {"F", "Y"}]
    \cup {e \in [k : {"R"}, a : Nat, b : Nat, t : Words] : e.a <= e.b}
    \cup {e \in [k : {"D"}, n : Nat, m : Nat, a : Nat, b : Nat] : e.a <= e.b}
    \cup [k : {"K"}, back : BOOLEAN, n : Nat, a : Nat]
    \cup [k : {"S"}, c : Nat, strong : BOOLEAN]
Posts ==
  [op : {"state"}, t : Words, c : Nat, re : BOOLEAN]
    \cup [op : {"caret"}, c : Nat, clear : BOOLEAN] \cup [op : {"show", "hide"}]
Inputs ==
  [e : {"preedit", "commit"}, t : Words] \cup [e : {"around"}, n : Nat, m : Nat]
    \cup [e : {"key"}, back : BOOLEAN]

\* A word composed again, and what was last pushed.
ReWords == {w \in [a : Nat, b : Nat, t : Words] : w.a <= w.b}
Syncs == [text : Words, caret : Nat]

\* The types of either side.
JavaOK ==
  /\ edit \in Edits /\ late \in Seq(Events) /\ queue \in Seq(Events) /\ posted \in Seq(Posts)
  /\ shown \in BOOLEAN /\ dismissed \in BOOLEAN
EguiOK ==
  /\ field \in Fields /\ fed \in {None} \cup Feeds /\ snap \in {None} \cup Feeds
  /\ aged \in BOOLEAN /\ (fed = None <=> snap = None)
RustOK ==
  /\ focused \in BOOLEAN /\ hot \in BOOLEAN /\ force \in BOOLEAN /\ seedRestart \in BOOLEAN
  /\ preedit \in Words /\ carry \in Seq(Events) /\ word \in {None} \cup ReWords
  /\ sync \in {None} \cup Syncs /\ needs \in BOOLEAN /\ restart \in BOOLEAN
FrameOK ==
  /\ staged \in Seq(Inputs) /\ phase \in {"drain", "show"} /\ tap \in {None} \cup Spans
  /\ applied \in BOOLEAN
  /\ hot => focused /\ fed # None
  /\ force => hot
TypeInv == JavaOK /\ EguiOK /\ RustOK /\ FrameOK /\ plain \in BOOLEAN

\* Posted calls that do not bring the keyboard up, or down, and one that does for good.
NoShow(p) == \A i \in DOMAIN p : p[i].op # "show"
NoHide(p) == \A i \in DOMAIN p : p[i].op # "hide"
Opening(p, i) ==
  /\ i \in DOMAIN p /\ p[i].op = "show"
  /\ \A j \in DOMAIN p : (j # i => p[j].op # "show") /\ (j > i => p[j].op # "hide")
\* No session, no keyboard and none on its way; or a session with its keyboard, or one that has
\* just been dismissed; or a session whose keyboard is still to come.
Session ==
  \/ ~hot /\ ~shown /\ ~dismissed /\ NoShow(posted) /\ carry = <<>> /\ preedit = <<>>
  \/ hot /\ (shown # dismissed) /\ NoShow(posted) /\ NoHide(posted)
  \/ hot /\ ~shown /\ ~dismissed /\ \E i \in DOMAIN posted : Opening(posted, i)
\* A keyboard that is down has queued nothing.
Silent == ~shown => late = <<>> /\ queue = <<>>

-----------------------------------------------------------------------------
(* Induction.                                                              *)

\* A set of numbers has a least one.
LEMMA LeastNumber ==
  ASSUME NEW T \in SUBSET Nat, T # {}
  PROVE  \E x \in T : \A y \in T : x <= y
<1>1. \E x \in T : \A y \in T : ~(<<y, x>> \in OpToRel(<, Nat))
  BY NatLessThanWellFounded, WFMin, Zenon
<1>2. ASSUME NEW x \in T, NEW y \in T, ~(<<y, x>> \in OpToRel(<, Nat)) PROVE x <= y
  BY <1>2 DEF OpToRel
<1>. QED BY <1>1, <1>2, Zenon

\* What holds of 0 and of the next of each is so up to N.
Climbs(T, N) == 0 \in T /\ \A n \in 0..N : n < N /\ n \in T => n + 1 \in T

LEMMA UpToN ==
  ASSUME NEW N \in Nat, NEW T, Climbs(T, N)
  PROVE  \A n \in 0..N : n \in T
<1>. DEFINE bad == {n \in 0..N : n \notin T}
<1>1. SUFFICES ASSUME bad # {} PROVE FALSE
  OBVIOUS
<1>2. bad \in SUBSET Nat
  OBVIOUS
<1>3. PICK x \in bad : \A y \in bad : x <= y
  <2>. HIDE DEF bad
  <2>. QED BY <1>1, <1>2, LeastNumber
<1>4. x \in 0..N /\ x \notin T /\ x # 0
  BY DEF Climbs
<1>5. x - 1 \in 0..N /\ x - 1 < N /\ (x - 1) + 1 = x /\ ~(x <= x - 1)
  BY <1>4
<1>6. x - 1 \in T
  BY <1>3, <1>5
<1>. QED BY <1>4, <1>5, <1>6 DEF Climbs

\* A sequence can be gone through step by step.
Goes(g, m, S, F, start, q) ==
  /\ g \in [0..m -> S] /\ g[0] = start
  /\ \A n \in 1..m : g[n] = F[<<g[n - 1], q[n]>>]

LEMMA Folded ==
  ASSUME NEW S, NEW E, NEW F \in [S \X E -> S], NEW start \in S, NEW q \in Seq(E)
  PROVE  \E g : Goes(g, Len(q), S, F, start, q)
<1>. DEFINE is(g, m) == Goes(g, m, S, F, start, q)
            T == {m \in 0..Len(q) : \E g : is(g, m)}
<1>1. Len(q) \in Nat /\ \A n \in 1..Len(q) : q[n] \in E
  BY LenProperties, ElementOfSeq
<1>2. 0 \in T
  <2>. DEFINE g == [n \in 0..0 |-> start]
  <2>1. is(g, 0)
    BY DEF Goes
  <2>. HIDE DEF is, g
  <2>. QED BY <1>1, <2>1
<1>3. ASSUME NEW m \in 0..Len(q), m < Len(q), m \in T PROVE m + 1 \in T
  <2>1. PICK g : is(g, m)
    BY <1>3
  <2>. DEFINE x == F[<<g[m], q[m + 1]>>]
              h == [n \in 0..(m + 1) |-> IF n <= m THEN g[n] ELSE x]
  <2>2. m \in Nat /\ m + 1 \in 1..Len(q) /\ m + 1 \in 0..Len(q) /\ m \in 0..m
    BY <1>1, <1>3
  <2>3. g \in [0..m -> S] /\ g[0] = start /\ \A n \in 1..m : g[n] = F[<<g[n - 1], q[n]>>]
    BY <2>1 DEF Goes
  <2>4. x \in S
    BY <1>1, <2>2, <2>3
  <2>5. h \in [0..(m + 1) -> S] /\ h[0] = start
    <3>. HIDE DEF x
    <3>1. ASSUME NEW n \in 0..(m + 1) PROVE (IF n <= m THEN g[n] ELSE x) \in S
      BY <2>2, <2>3, <2>4
    <3>. QED BY <2>2, <2>3, <3>1
  <2>6. ASSUME NEW n \in 1..(m + 1) PROVE h[n] = F[<<h[n - 1], q[n]>>]
    <3>1. n \in 0..(m + 1) /\ n - 1 \in 0..(m + 1) /\ n - 1 <= m /\ h[n - 1] = g[n - 1]
      BY <2>2
    <3>2. CASE n <= m
      <4>1. n \in 1..m /\ h[n] = g[n]
        BY <2>2, <3>1, <3>2
      <4>. QED BY <2>3, <3>1, <4>1
    <3>3. CASE ~(n <= m)
      <4>1. n = m + 1 /\ n - 1 = m /\ h[n] = x
        BY <2>2, <3>1, <3>3
      <4>. QED BY <3>1, <4>1
    <3>. QED BY <3>2, <3>3
  <2>. HIDE DEF h
  <2>7. is(h, m + 1)
    BY <2>5, <2>6 DEF Goes
  <2>. HIDE DEF is
  <2>. QED BY <2>2, <2>7
<1>4. Len(q) \in T
  <2>. HIDE DEF T
  <2>1. Climbs(T, Len(q))
    BY <1>2, <1>3 DEF Climbs
  <2>. QED BY <1>1, <2>1, UpToN
<1>. QED BY <1>4

-----------------------------------------------------------------------------
(* Texts.                                                                  *)

\* A part of a text, character by character.
SlicedIs(t, a, b, x) ==
  x \in Words /\ Len(x) = b - a /\ \A i \in 1..(b - a) : x[i] = t[a + i]

\* A slice is such a part.
LEMMA SliceIs ==
  ASSUME NEW t \in Words, NEW a \in Nat, NEW b \in Nat, a <= b, b <= Len(t)
  PROVE  SlicedIs(t, a, b, Slice(t, a, b))
<1>. DEFINE x == SubSeq(t, a + 1, b)
<1>1. a + 1 \in Int /\ b \in Int /\ \A i \in (a + 1)..b : t[i] \in Letters
  <2>1. \A i \in (a + 1)..b : i \in 1..Len(t)
    BY LenProperties DEF Words
  <2>. QED BY <2>1, ElementOfSeq DEF Words
<1>2. /\ x \in Seq(Letters) /\ Len(x) = IF a + 1 <= b THEN b - (a + 1) + 1 ELSE 0
      /\ \A i \in 1..(b - (a + 1) + 1) : x[i] = t[a + 1 + i - 1]
  BY <1>1, SubSeqProperties
<1>. HIDE DEF x
<1>3. \A i \in 1..(b - a) : i \in 1..(b - (a + 1) + 1) /\ a + 1 + i - 1 = a + i
  OBVIOUS
<1>4. SlicedIs(t, a, b, x)
  BY <1>2, <1>3 DEF SlicedIs, Words
<1>. QED BY <1>4 DEF Slice, x

\* Two texts in one, character by character.
JoinedIs(s, t, x) ==
  /\ x \in Words /\ Len(x) = Len(s) + Len(t)
  /\ \A i \in 1..(Len(s) + Len(t)) : x[i] = IF i <= Len(s) THEN s[i] ELSE t[i - Len(s)]

\* Concatenation is such a join.
LEMMA JoinIs ==
  ASSUME NEW s \in Words, NEW t \in Words
  PROVE  JoinedIs(s, t, s \o t)
<1>. DEFINE x == s \o t
<1>1. /\ x \in Seq(Letters) /\ Len(x) = Len(s) + Len(t)
      /\ \A i \in 1..Len(s) + Len(t) : x[i] = IF i <= Len(s) THEN s[i] ELSE t[i - Len(s)]
  BY ConcatProperties DEF Words
<1>. HIDE DEF x
<1>2. JoinedIs(s, t, x)
  BY <1>1 DEF JoinedIs, Words
<1>. QED BY <1>2 DEF x

\* A text with a part replaced, character by character.
SplicedIs(t, a, b, w, x) ==
  /\ x \in Words /\ Len(x) = a + Len(w) + (Len(t) - b)
  /\ \A i \in 1..a : x[i] = t[i]
  /\ \A i \in 1..Len(w) : x[a + i] = w[i]
  /\ \A i \in 1..(Len(t) - b) : x[a + Len(w) + i] = t[b + i]

\* Splice makes such a text.
LEMMA SpliceIs ==
  ASSUME NEW t \in Words, NEW a \in Nat, NEW b \in Nat, a <= b, b <= Len(t), NEW w \in Words
  PROVE  SplicedIs(t, a, b, w, Splice(t, a, b, w))
<1>. DEFINE l == SubSeq(t, 1, a)
            r == SubSeq(t, b + 1, Len(t))
<1>0. Len(t) \in Nat /\ Len(w) \in Nat
  BY LenProperties DEF Words
<1>1. SlicedIs(t, 0, a, l) /\ SlicedIs(t, b, Len(t), r)
  <2>1. SlicedIs(t, 0, a, Slice(t, 0, a)) /\ SlicedIs(t, b, Len(t), Slice(t, b, Len(t)))
    BY <1>0, SliceIs
  <2>. QED BY <2>1 DEF Slice
<1>. HIDE DEF l, r
<1>2. /\ l \in Words /\ Len(l) = a /\ \A i \in 1..a : l[i] = t[i]
      /\ r \in Words /\ Len(r) = Len(t) - b /\ \A i \in 1..(Len(t) - b) : r[i] = t[b + i]
  BY <1>0, <1>1 DEF SlicedIs
<1>. DEFINE lw == l \o w
            x == lw \o r
<1>3. /\ lw \in Words /\ Len(lw) = a + Len(w)
      /\ \A i \in 1..(a + Len(w)) : lw[i] = IF i <= a THEN l[i] ELSE w[i - a]
  <2>1. JoinedIs(l, w, lw)
    BY <1>2, JoinIs
  <2>. HIDE DEF lw
  <2>. QED BY <1>2, <2>1 DEF JoinedIs
<1>. HIDE DEF lw
<1>4. /\ x \in Words /\ Len(x) = a + Len(w) + (Len(t) - b)
      /\ \A i \in 1..(a + Len(w) + (Len(t) - b)) :
           x[i] = IF i <= a + Len(w) THEN lw[i] ELSE r[i - (a + Len(w))]
  <2>1. JoinedIs(lw, r, x)
    BY <1>2, <1>3, JoinIs
  <2>. HIDE DEF x
  <2>. QED BY <1>2, <1>3, <2>1 DEF JoinedIs
<1>. HIDE DEF x
<1>5. ASSUME NEW i \in 1..a PROVE x[i] = t[i]
  <2>1. i \in 1..(a + Len(w)) /\ i \in 1..(a + Len(w) + (Len(t) - b)) /\ i <= a + Len(w) /\ i <= a
    BY <1>0
  <2>. QED BY <1>2, <1>3, <1>4, <2>1
<1>6. ASSUME NEW i \in 1..Len(w) PROVE x[a + i] = w[i]
  <2>1. /\ a + i \in 1..(a + Len(w)) /\ a + i \in 1..(a + Len(w) + (Len(t) - b))
        /\ a + i <= a + Len(w) /\ ~(a + i <= a) /\ (a + i) - a = i
    BY <1>0
  <2>. QED BY <1>3, <1>4, <2>1
<1>7. ASSUME NEW i \in 1..(Len(t) - b) PROVE x[a + Len(w) + i] = t[b + i]
  <2>1. /\ a + Len(w) + i \in 1..(a + Len(w) + (Len(t) - b))
        /\ ~(a + Len(w) + i <= a + Len(w)) /\ (a + Len(w) + i) - (a + Len(w)) = i
    BY <1>0
  <2>. QED BY <1>2, <1>4, <2>1
<1>8. Splice(t, a, b, w) = x
  BY DEF Splice, l, r, x, lw
<1>. QED BY <1>4, <1>5, <1>6, <1>7, <1>8 DEF SplicedIs

\* The smaller and the larger of two numbers.
LEMMA LeastIs ==
  ASSUME NEW a \in Nat, NEW b \in Nat
  PROVE  /\ Least(a, b) \in Nat /\ Least(a, b) <= a /\ Least(a, b) <= b
         /\ Most(a, b) \in Nat /\ a <= Most(a, b) /\ b <= Most(a, b)
         /\ Least(a, b) \in {a, b} /\ Most(a, b) \in {a, b}
BY DEF Least, Most

-----------------------------------------------------------------------------
(* What travels between the threads.                                       *)

\* What each event carries, by its kind.
EventIs(e) ==
  /\ e.k \in {"T", "C", "F", "Y", "R", "D", "K", "S"}
  /\ e.k \in {"T", "C", "R"} => e.t \in Words
  /\ e.k \in {"R", "D"} => e.a \in Nat /\ e.b \in Nat /\ e.a <= e.b
  /\ e.k = "D" => e.n \in Nat /\ e.m \in Nat
  /\ e.k = "K" => e.back \in BOOLEAN /\ e.n \in Nat /\ e.a \in Nat
  /\ e.k = "S" => e.c \in Nat /\ e.strong \in BOOLEAN

\* The fields of an event are of the types its kind asks for.
LEMMA EventParts == ASSUME NEW e \in Events PROVE EventIs(e)
BY DEF Events, EventIs

\* What the constructors make are events.
LEMMA EventsMade ==
  /\ \A t \in Words : Commit(t) \in Events /\ Preedit(t) \in Events
  /\ Finish \in Events /\ SyncDropped \in Events
  /\ \A a, b \in Nat, t \in Words : a <= b => Region(a, b, t) \in Events
  /\ \A n, m, a, b \in Nat : a <= b => Delete(n, m, a, b) \in Events
  /\ \A back \in BOOLEAN, n, a \in Nat : DelSpan(back, n, a) \in Events
  /\ \A c \in Nat, strong \in BOOLEAN : Selection(c, strong) \in Events
<1>1. \A t \in Words : Commit(t) \in Events /\ Preedit(t) \in Events
  BY DEF Events, Commit, Preedit
<1>2. Finish \in Events /\ SyncDropped \in Events
  BY DEF Events, Finish, SyncDropped
<1>3. \A a, b \in Nat, t \in Words : a <= b => Region(a, b, t) \in Events
  BY DEF Events, Region
<1>4. \A n, m, a, b \in Nat : a <= b => Delete(n, m, a, b) \in Events
  BY DEF Events, Delete
<1>5. \A back \in BOOLEAN, n, a \in Nat : DelSpan(back, n, a) \in Events
  BY DEF Events, DelSpan
<1>6. \A c \in Nat, strong \in BOOLEAN : Selection(c, strong) \in Events
  BY DEF Events, Selection
<1>. QED BY <1>1, <1>2, <1>3, <1>4, <1>5, <1>6

\* What each posted call carries.
PostIs(p) ==
  /\ p.op \in {"state", "caret", "show", "hide"}
  /\ p.op = "state" => p.t \in Words /\ p.c \in Nat /\ p.re \in BOOLEAN
  /\ p.op = "caret" => p.c \in Nat /\ p.clear \in BOOLEAN

\* The fields of a posted call are of its types.
LEMMA PostParts == ASSUME NEW p \in Posts PROVE PostIs(p)
BY DEF Posts, PostIs

\* What the constructors make are posted calls.
LEMMA PostsMade ==
  /\ \A t \in Words, c \in Nat, re \in BOOLEAN :
       Push(t, c, re) \in Posts /\ Push(t, c, re).op = "state"
  /\ \A c \in Nat, clear \in BOOLEAN :
       PushCaret(c, clear) \in Posts /\ PushCaret(c, clear).op = "caret"
  /\ [op |-> "show"] \in Posts /\ [op |-> "hide"] \in Posts
<1>1. \A t \in Words, c \in Nat, re \in BOOLEAN :
        Push(t, c, re) \in Posts /\ Push(t, c, re).op = "state"
  BY DEF Posts, Push
<1>2. \A c \in Nat, clear \in BOOLEAN :
        PushCaret(c, clear) \in Posts /\ PushCaret(c, clear).op = "caret"
  BY DEF Posts, PushCaret
<1>3. [op |-> "show"] \in Posts /\ [op |-> "hide"] \in Posts
  BY DEF Posts
<1>. QED BY <1>1, <1>2, <1>3

\* What egui is given.
InputIs(i) ==
  /\ i.e \in {"preedit", "commit", "around", "key"}
  /\ i.e \in {"preedit", "commit"} => i.t \in Words
  /\ i.e = "around" => i.n \in Nat /\ i.m \in Nat
  /\ i.e = "key" => i.back \in BOOLEAN

\* The fields of an input are of its types.
LEMMA InputParts == ASSUME NEW i \in Inputs PROVE InputIs(i)
BY DEF Inputs, InputIs

\* What the constructors make are inputs.
LEMMA InputsMade ==
  /\ \A t \in Words : Mark(t) \in Inputs /\ Insert(t) \in Inputs
  /\ \A n, m \in Nat : Around(n, m) \in Inputs
  /\ \A back \in BOOLEAN : Press(back) \in Inputs
<1>1. \A t \in Words : Mark(t) \in Inputs /\ Insert(t) \in Inputs
  BY DEF Inputs, Mark, Insert
<1>2. \A n, m \in Nat : Around(n, m) \in Inputs
  BY DEF Inputs, Around
<1>3. \A back \in BOOLEAN : Press(back) \in Inputs
  BY DEF Inputs, Press
<1>. QED BY <1>1, <1>2, <1>3

\* A sequence with one thing more, and one without its first.
LEMMA OneMore ==
  ASSUME NEW S, NEW s \in Seq(S), NEW x \in S
  PROVE  s \o <<x>> \in Seq(S) /\ Append(s, x) \in Seq(S) /\ <<x>> \in Seq(S)
<1>1. Append(s, x) \in Seq(S) /\ Append(s, x) = s \o <<x>>
  BY AppendProperties, AppendIsConcat
<1>. QED BY <1>1

-----------------------------------------------------------------------------
(* A batch of events.                                                      *)

\* What a batch may be, part by part.
Batches ==
  [sel : Spans, preedit : Words, sync : {None} \cup Syncs, word : {None} \cup ReWords,
   needs : BOOLEAN, restart : BOOLEAN, out : Seq(Inputs), later : Seq(Events),
   lastSel : {None} \cup Nat, mutated : BOOLEAN, dead : BOOLEAN]

\* The parts of a batch are of their types.
LEMMA BatchParts ==
  ASSUME NEW b \in Batches
  PROVE  /\ b.sel \in Spans /\ b.preedit \in Words /\ b.sync \in {None} \cup Syncs
         /\ b.word \in {None} \cup ReWords /\ b.needs \in BOOLEAN /\ b.restart \in BOOLEAN
         /\ b.out \in Seq(Inputs) /\ b.later \in Seq(Events) /\ b.lastSel \in {None} \cup Nat
         /\ b.mutated \in BOOLEAN /\ b.dead \in BOOLEAN
BY DEF Batches

\* A batch that has become another one, no nearer to its end.
Alike(b, c) == c \in Batches /\ c.dead = b.dead

\* Two changes are one.
LEMMA AlikeOn ==
  ASSUME NEW b, NEW c, NEW d, Alike(b, c), Alike(c, d)
  PROVE  Alike(b, d)
BY DEF Alike

\* A batch with one part changed.
LEMMA BatchWith ==
  ASSUME NEW b \in Batches
  PROVE  /\ \A s \in Spans : Alike(b, [b EXCEPT !.sel = s])
         /\ \A t \in Words : Alike(b, [b EXCEPT !.preedit = t])
         /\ \A s \in {None} \cup Syncs : Alike(b, [b EXCEPT !.sync = s])
         /\ \A w \in {None} \cup ReWords : Alike(b, [b EXCEPT !.word = w])
         /\ \A q \in Seq(Inputs) : Alike(b, [b EXCEPT !.out = q])
         /\ \A q \in Seq(Events) : Alike(b, [b EXCEPT !.later = q])
         /\ \A c \in {None} \cup Nat : Alike(b, [b EXCEPT !.lastSel = c])
         /\ \A x \in BOOLEAN : /\ Alike(b, [b EXCEPT !.needs = x])
                               /\ Alike(b, [b EXCEPT !.restart = x])
                               /\ Alike(b, [b EXCEPT !.mutated = x])
                               /\ [b EXCEPT !.dead = x] \in Batches
<1>1. \A s \in Spans : Alike(b, [b EXCEPT !.sel = s])
  BY DEF Batches, Alike
<1>2. \A t \in Words : Alike(b, [b EXCEPT !.preedit = t])
  BY DEF Batches, Alike
<1>3. \A s \in {None} \cup Syncs : Alike(b, [b EXCEPT !.sync = s])
  BY DEF Batches, Alike
<1>4. \A w \in {None} \cup ReWords : Alike(b, [b EXCEPT !.word = w])
  BY DEF Batches, Alike
<1>5. \A q \in Seq(Inputs) : Alike(b, [b EXCEPT !.out = q])
  BY DEF Batches, Alike
<1>6. \A q \in Seq(Events) : Alike(b, [b EXCEPT !.later = q])
  BY DEF Batches, Alike
<1>7. \A c \in {None} \cup Nat : Alike(b, [b EXCEPT !.lastSel = c])
  BY DEF Batches, Alike
<1>8. \A x \in BOOLEAN : Alike(b, [b EXCEPT !.needs = x]) /\ Alike(b, [b EXCEPT !.restart = x])
  BY DEF Batches, Alike
<1>9. \A x \in BOOLEAN : Alike(b, [b EXCEPT !.mutated = x]) /\ [b EXCEPT !.dead = x] \in Batches
  BY DEF Batches, Alike
<1>. QED BY <1>1, <1>2, <1>3, <1>4, <1>5, <1>6, <1>7, <1>8, <1>9

-----------------------------------------------------------------------------
(* The EditText and its keyboard.                                          *)

\* What an EditText holds.
EditIs(e) ==
  /\ e.text \in Words /\ Len(e.text) \in Nat /\ e.caret \in Nat /\ e.caret <= Len(e.text)
  /\ e.span # None =>
       /\ e.span \in Spans /\ e.span[1] \in Nat /\ e.span[2] \in Nat
       /\ e.span[1] < e.span[2] /\ e.span[2] <= Len(e.text)

\* An EditText holds what its type says.
LEMMA EditParts == ASSUME NEW e \in Edits PROVE EditIs(e)
<1>1. /\ e.text \in Words /\ e.caret \in Nat /\ e.caret <= Len(e.text)
      /\ e.span \in {None} \cup Spans
      /\ e.span # None => e.span[1] < e.span[2] /\ e.span[2] <= Len(e.text)
  BY DEF Edits
<1>2. Len(e.text) \in Nat
  BY <1>1, LenProperties DEF Words
<1>. QED BY <1>1, <1>2 DEF EditIs, Spans

\* An EditText from its parts, with a composing span and without one.
LEMMA EditMade ==
  ASSUME NEW t \in Words, NEW c \in Nat, c <= Len(t)
  PROVE  /\ [text |-> t, caret |-> c, span |-> None] \in Edits
         /\ \A a, b \in Nat : a < b /\ b <= Len(t) =>
              [text |-> t, caret |-> c, span |-> <<a, b>>] \in Edits
<1>1. [text |-> t, caret |-> c, span |-> None] \in Edits
  BY DEF Edits
<1>2. ASSUME NEW a \in Nat, NEW b \in Nat, a < b, b <= Len(t)
      PROVE  [text |-> t, caret |-> c, span |-> <<a, b>>] \in Edits
  <2>1. <<a, b>> \in Spans /\ <<a, b>>[1] = a /\ <<a, b>>[2] = b
    BY <1>2 DEF Spans
  <2>. DEFINE s == <<a, b>>
  <2>. HIDE DEF s
  <2>2. [text |-> t, caret |-> c, span |-> s] \in Edits
    BY <1>2, <2>1 DEF Edits, s
  <2>. QED BY <2>2 DEF s
<1>. QED BY <1>1, <1>2

\* The invariant, but for what a keyboard's call changes.
LEMMA KeyboardType ==
  ASSUME TypeInv, NEW e \in Edits, NEW events \in Seq(Events), NEW ordinary \in BOOLEAN,
         Keyboard(e, events, ordinary)
  PROVE  TypeInv'
<1>1. /\ edit' = e /\ late' = events /\ plain' \in BOOLEAN
      /\ UNCHANGED <<queue, posted, shown, dismissed, eguiVars, adapterVars, bridgeVars,
                     frameVars>>
  BY DEF Keyboard
<1>2. JavaOK'
  BY <1>1 DEF TypeInv, JavaOK
<1>3. EguiOK' /\ RustOK' /\ FrameOK'
  BY <1>1 DEF TypeInv, EguiOK, RustOK, FrameOK, eguiVars, adapterVars, bridgeVars, frameVars
<1>. QED BY <1>1, <1>2, <1>3 DEF TypeInv

\* What a commit or a composition replaces.
LEMMA TargetIs ==
  ASSUME edit \in Edits
  PROVE  /\ Target[1] \in Nat /\ Target[2] \in Nat /\ Target[1] <= Target[2]
         /\ Target[2] <= Len(edit.text)
BY EditParts DEF EditIs, Target

\* A commit keeps the types.
LEMMA CommitTextType ==
  ASSUME TypeInv, NEW t \in Words, NEW after \in BOOLEAN, CommitText(t, after)
  PROVE  TypeInv'
<1>. DEFINE a == Target[1]
            x == Splice(edit.text, Target[1], Target[2], t)
            c == a + (IF after THEN Len(t) ELSE 0)
            e == [text |-> x, caret |-> c, span |-> None]
            events == <<Commit(t)>> \o (IF after THEN <<>> ELSE <<Selection(c, TRUE)>>)
<1>0. edit \in Edits /\ EditIs(edit) /\ Len(t) \in Nat
  BY EditParts, LenProperties DEF TypeInv, JavaOK, Words
<1>1. a \in Nat /\ x \in Words /\ a + Len(t) <= Len(x)
  <2>1. SplicedIs(edit.text, Target[1], Target[2], t, x)
    BY <1>0, TargetIs, SpliceIs DEF EditIs
  <2>. HIDE DEF x
  <2>. QED BY <1>0, <2>1, TargetIs DEF SplicedIs, EditIs
<1>2. c \in Nat /\ c <= Len(x)
  BY <1>0, <1>1, LenProperties DEF Words
<1>3. Keyboard(e, events, after)
  BY DEF CommitText
<1>4. e \in Edits
  <2>. HIDE DEF x, c
  <2>. QED BY <1>1, <1>2, EditMade
<1>5. events \in Seq(Events)
  <2>. HIDE DEF c
  <2>1. Commit(t) \in Events /\ Selection(c, TRUE) \in Events
    BY <1>2, EventsMade
  <2>2. <<Commit(t)>> \in Seq(Events) /\ <<Selection(c, TRUE)>> \in Seq(Events)
        /\ <<>> \in Seq(Events)
    BY <2>1, EmptySeq, OneMore
  <2>. QED BY <2>2, ConcatProperties
<1>. HIDE DEF e, events
<1>. QED BY <1>3, <1>4, <1>5, KeyboardType

\* A composition keeps the types.
LEMMA SetComposingTextType ==
  ASSUME TypeInv, NEW t \in Words, SetComposingText(t)
  PROVE  TypeInv'
<1>. DEFINE a == Target[1]
            x == Splice(edit.text, Target[1], Target[2], t)
            c == a + Len(t)
            e == [text |-> x, caret |-> c, span |-> IF t = <<>> THEN None ELSE <<a, c>>]
<1>0. edit \in Edits /\ EditIs(edit) /\ Len(t) \in Nat /\ (t # <<>> => Len(t) > 0)
  BY EditParts, LenProperties, EmptySeq DEF TypeInv, JavaOK, Words
<1>1. a \in Nat /\ x \in Words /\ c \in Nat /\ c <= Len(x)
  <2>1. SplicedIs(edit.text, Target[1], Target[2], t, x)
    BY <1>0, TargetIs, SpliceIs DEF EditIs
  <2>. HIDE DEF x
  <2>. QED BY <1>0, <2>1, TargetIs DEF SplicedIs, EditIs
<1>2. t # <<>> => a < c
  BY <1>0, <1>1
<1>3. Keyboard(e, <<Preedit(t)>>, TRUE)
  BY DEF SetComposingText
<1>4. e \in Edits
  <2>. HIDE DEF x, c, a
  <2>1. CASE t = <<>>
    BY <1>1, <2>1, EditMade
  <2>2. CASE t # <<>>
    BY <1>1, <1>2, <2>2, EditMade
  <2>. QED BY <2>1, <2>2
<1>5. <<Preedit(t)>> \in Seq(Events)
  BY EventsMade, EmptySeq, OneMore
<1>. HIDE DEF e
<1>. QED BY <1>3, <1>4, <1>5, KeyboardType

\* A finished composition keeps the types.
LEMMA FinishComposingTextType == ASSUME TypeInv, FinishComposingText PROVE TypeInv'
<1>. DEFINE e == [edit EXCEPT !.span = None]
<1>1. e \in Edits
  BY DEF TypeInv, JavaOK, Edits
<1>2. <<Finish>> \in Seq(Events)
  BY EventsMade, EmptySeq, OneMore
<1>3. Keyboard(e, <<Finish>>, TRUE)
  BY DEF FinishComposingText
<1>. HIDE DEF e
<1>. QED BY <1>1, <1>2, <1>3, KeyboardType

\* A word composed again keeps the types.
LEMMA SetComposingRegionType ==
  ASSUME TypeInv, NEW a \in Nat, NEW b \in Nat, SetComposingRegion(a, b)
  PROVE  TypeInv'
<1>. DEFINE e == [edit EXCEPT !.span = <<a, b>>]
            w == Slice(edit.text, a, b)
<1>0. edit \in Edits /\ EditIs(edit) /\ a < b /\ b <= Len(edit.text)
  BY EditParts DEF TypeInv, JavaOK, SetComposingRegion
<1>1. e \in Edits
  <2>1. <<a, b>> \in Spans /\ <<a, b>>[1] = a /\ <<a, b>>[2] = b
    BY <1>0 DEF Spans
  <2>. DEFINE s == <<a, b>>
  <2>. HIDE DEF s
  <2>2. [edit EXCEPT !.span = s] \in Edits
    BY <1>0, <2>1 DEF Edits, s
  <2>. QED BY <2>2 DEF s
<1>2. w \in Words
  BY <1>0, SliceIs DEF SlicedIs, EditIs
<1>3. Keyboard(e, <<Region(a, b, w)>>, FALSE)
  BY DEF SetComposingRegion
<1>. HIDE DEF e, w
<1>4. <<Region(a, b, w)>> \in Seq(Events)
  BY <1>0, <1>2, EventsMade, EmptySeq, OneMore
<1>. QED BY <1>1, <1>3, <1>4, KeyboardType

\* Two deletions around a place that stays.
Taken(t, a, b, n, m) == Splice(Splice(t, b, b + m, <<>>), a - n, a, <<>>)

\* What is left of the text.
LEMMA AroundIs ==
  ASSUME NEW t \in Words, NEW a \in Nat, NEW b \in Nat, a <= b, b <= Len(t),
         NEW n \in Nat, n <= a, NEW m \in Nat, b + m <= Len(t)
  PROVE  Taken(t, a, b, n, m) \in Words /\ Len(Taken(t, a, b, n, m)) = Len(t) - n - m
<1>. DEFINE x == Splice(t, b, b + m, <<>>)
            y == Splice(x, a - n, a, <<>>)
<1>0. Len(t) \in Nat /\ <<>> \in Words /\ Len(<<>>) = 0
  BY LenProperties, EmptySeq DEF Words
<1>1. x \in Words /\ Len(x) = Len(t) - m
  <2>1. SplicedIs(t, b, b + m, <<>>, x)
    BY <1>0, SpliceIs
  <2>. HIDE DEF x
  <2>. QED BY <1>0, <2>1 DEF SplicedIs
<1>2. y \in Words /\ Len(y) = Len(x) - n
  <2>. HIDE DEF x
  <2>1. a - n \in Nat /\ a - n <= a /\ a <= Len(x)
    BY <1>0, <1>1
  <2>2. SplicedIs(x, a - n, a, <<>>, y)
    BY <1>0, <1>1, <2>1, SpliceIs
  <2>. HIDE DEF y
  <2>. QED BY <1>0, <1>1, <2>1, <2>2 DEF SplicedIs
<1>3. Len(y) = Len(t) - n - m
  <2>. HIDE DEF x, y
  <2>. QED BY <1>0, <1>1, <1>2
<1>. QED BY <1>2, <1>3 DEF Taken

\* A deletion around the caret keeps the types.
LEMMA DeleteSurroundingTextType ==
  ASSUME TypeInv, NEW n \in Nat, NEW m \in Nat, DeleteSurroundingText(n, m)
  PROVE  TypeInv'
<1>. DEFINE a == IF edit.span = None THEN edit.caret ELSE Least(edit.caret, edit.span[1])
            b == IF edit.span = None THEN edit.caret ELSE Most(edit.caret, edit.span[2])
            before == Least(n, a)
            behind == Least(m, Len(edit.text) - b)
            x == Splice(Splice(edit.text, b, b + behind, <<>>), a - before, a, <<>>)
            c == edit.caret - before
            s == IF edit.span = None THEN None
                 ELSE <<edit.span[1] - before, edit.span[2] - before>>
            e == [text |-> x, caret |-> c, span |-> s]
<1>0. edit \in Edits /\ EditIs(edit)
  BY EditParts DEF TypeInv, JavaOK
<1>1. /\ a \in Nat /\ b \in Nat /\ a <= edit.caret /\ edit.caret <= b /\ b <= Len(edit.text)
      /\ edit.span # None => a <= edit.span[1] /\ edit.span[2] <= b
  BY <1>0, LeastIs DEF EditIs
<1>3. Keyboard(e, <<Delete(before, behind, a, b)>>, TRUE)
  BY DEF DeleteSurroundingText
<1>. HIDE DEF a, b
<1>2. /\ before \in Nat /\ behind \in Nat /\ before <= a /\ b + behind <= Len(edit.text)
  <2>1. Len(edit.text) - b \in Nat
    BY <1>0, <1>1 DEF EditIs
  <2>2. before \in Nat /\ before <= a /\ behind \in Nat /\ behind <= Len(edit.text) - b
    BY <1>1, <2>1, LeastIs
  <2>. HIDE DEF before, behind
  <2>. QED BY <1>0, <1>1, <2>2 DEF EditIs
<1>. HIDE DEF before, behind
<1>4. x \in Words /\ Len(x) = Len(edit.text) - before - behind
  <2>1. a <= b /\ edit.text \in Words
    BY <1>0, <1>1 DEF EditIs
  <2>. DEFINE t == edit.text
  <2>2. t \in Words /\ b <= Len(t) /\ b + behind <= Len(t)
    BY <1>1, <1>2, <2>1
  <2>. HIDE DEF t
  <2>3. /\ Taken(t, a, b, before, behind) \in Words
        /\ Len(Taken(t, a, b, before, behind)) = Len(t) - before - behind
    BY <1>1, <1>2, <2>1, <2>2, AroundIs
  <2>. QED BY <2>3 DEF t, Taken
<1>. HIDE DEF x
<1>5. c \in Nat /\ c <= Len(x)
  BY <1>0, <1>1, <1>2, <1>4 DEF EditIs
<1>6. e \in Edits
  <2>1. CASE edit.span = None
    <3>1. s = None
      BY <2>1
    <3>. HIDE DEF s, c
    <3>. QED BY <1>4, <1>5, <3>1, EditMade
  <2>2. CASE edit.span # None
    <3>1. /\ edit.span[1] - before \in Nat /\ edit.span[2] - before \in Nat
          /\ edit.span[1] - before < edit.span[2] - before
          /\ edit.span[2] - before <= Len(x)
      <4>. DEFINE p == edit.span[1]
                  q == edit.span[2]
                  l == Len(edit.text)
      <4>1. /\ p \in Nat /\ q \in Nat /\ l \in Nat /\ p < q /\ a <= p /\ q <= b
            /\ before \in Nat /\ behind \in Nat /\ before <= a /\ b + behind <= l
            /\ Len(x) = l - before - behind /\ a \in Nat /\ b \in Nat
        BY <1>0, <1>1, <1>2, <1>4, <2>2 DEF EditIs
      <4>. HIDE DEF p, q, l
      <4>2. p - before \in Nat /\ q - before \in Nat /\ p - before < q - before
            /\ q - before <= Len(x)
        BY <4>1
      <4>. QED BY <4>2 DEF p, q
    <3>2. s = <<edit.span[1] - before, edit.span[2] - before>>
      BY <2>2
    <3>. HIDE DEF c, s
    <3>. QED BY <1>4, <1>5, <3>1, <3>2, EditMade
  <2>. QED BY <2>1, <2>2
<1>7. <<Delete(before, behind, a, b)>> \in Seq(Events)
  <2>1. a <= b
    BY <1>0, <1>1 DEF EditIs
  <2>. QED BY <1>1, <1>2, <2>1, EventsMade, EmptySeq, OneMore
<1>. HIDE DEF e
<1>. QED BY <1>3, <1>6, <1>7, KeyboardType

\* A DEL key inside the composing word keeps the types.
LEMMA DelKeyInWordType ==
  ASSUME TypeInv, NEW back \in BOOLEAN, DelKeyInWord(back)
  PROVE  TypeInv'
<1>. DEFINE p == edit.span[1]
            q == edit.span[2]
            t == edit.text
            a == IF back THEN edit.caret - 1 ELSE edit.caret
            span == Shrunk(edit.span, a)
            x == Splice(edit.text, a, a + 1, <<>>)
            s == IF span[1] = span[2] THEN None ELSE span
            e == [text |-> x, caret |-> a, span |-> s]
            w == Slice(x, span[1], span[2])
<1>0. edit \in Edits /\ EditIs(edit)
  BY EditParts DEF TypeInv, JavaOK
<1>1. /\ p \in Nat /\ q \in Nat /\ p < q /\ q <= Len(t) /\ t \in Words /\ Len(t) \in Nat
      /\ edit.caret \in Nat /\ edit.caret <= Len(t)
      /\ edit.span \in Spans
      /\ IF back THEN edit.caret > p ELSE edit.caret < q
  BY <1>0 DEF EditIs, DelKeyInWord, AtWord
<1>2. Keyboard(e, <<Preedit(w)>>, TRUE)
  BY DEF DelKeyInWord
<1>. HIDE DEF t
<1>3. a \in Nat /\ a < Len(t)
  BY <1>1
<1>4. /\ span = <<span[1], span[2]>> /\ span[1] \in Nat /\ span[2] \in Nat
      /\ span[1] <= span[2] /\ span[2] <= Len(t) - 1
  <2>. HIDE DEF a, p, q
  <2>1. edit.span[1] = p /\ edit.span[2] = q /\ edit.span = <<p, q>>
    BY <1>1 DEF p, q, Spans
  <2>2. CASE a < p
    BY <1>1, <1>3, <2>1, <2>2 DEF Shrunk
  <2>3. CASE p <= a /\ a < q
    BY <1>1, <1>3, <2>1, <2>3 DEF Shrunk
  <2>4. CASE q <= a
    BY <1>1, <1>3, <2>1, <2>4 DEF Shrunk
  <2>. QED BY <1>1, <1>3, <2>2, <2>3, <2>4
<1>5. x \in Words /\ Len(x) = Len(t) - 1
  <2>1. <<>> \in Words /\ Len(<<>>) = 0 /\ a + 1 \in Nat /\ a <= a + 1 /\ a + 1 <= Len(t)
    BY <1>1, <1>3, EmptySeq DEF Words
  <2>. HIDE DEF a
  <2>2. SplicedIs(t, a, a + 1, <<>>, Splice(t, a, a + 1, <<>>))
    BY <1>1, <1>3, <2>1, SpliceIs
  <2>3. x = Splice(t, a, a + 1, <<>>)
    BY DEF t
  <2>. HIDE DEF x
  <2>. QED BY <1>1, <1>3, <2>1, <2>2, <2>3 DEF SplicedIs
<1>. HIDE DEF a, x, span
<1>7. span[2] <= Len(x) /\ a <= Len(x) /\ Len(x) \in Nat
  <2>. HIDE DEF p, q
  <2>. QED BY <1>1, <1>3, <1>4, <1>5
<1>8. e \in Edits
  <2>1. CASE span[1] = span[2]
    <3>1. s = None
      BY <2>1
    <3>. HIDE DEF s
    <3>. QED BY <1>3, <1>5, <1>7, <3>1, EditMade
  <2>2. CASE span[1] # span[2]
    <3>1. s = <<span[1], span[2]>> /\ span[1] < span[2]
      BY <1>4, <2>2
    <3>. HIDE DEF s
    <3>. QED BY <1>3, <1>4, <1>5, <1>7, <3>1, EditMade
  <2>. QED BY <2>1, <2>2
<1>9. <<Preedit(w)>> \in Seq(Events)
  <2>1. w \in Words
    BY <1>4, <1>5, <1>7, SliceIs DEF SlicedIs
  <2>. HIDE DEF w
  <2>. QED BY <2>1, EventsMade, EmptySeq, OneMore
<1>. HIDE DEF e, w
<1>. QED BY <1>2, <1>8, <1>9, KeyboardType

\* Any other DEL key keeps the types.
LEMMA DelKeyType ==
  ASSUME TypeInv, NEW back \in BOOLEAN, DelKey(back)
  PROVE  TypeInv'
<1>. DEFINE t == edit.text
            a == IF edit.span # None THEN edit.span[1]
                 ELSE IF back /\ edit.caret > 0 THEN edit.caret - 1 ELSE edit.caret
            b == IF edit.span # None THEN edit.span[2]
                 ELSE IF ~back /\ edit.caret < Len(edit.text) THEN edit.caret + 1 ELSE edit.caret
            x == Splice(edit.text, a, b, <<>>)
            c == IF edit.caret > b THEN edit.caret - (b - a) ELSE Least(a, edit.caret)
            e == [text |-> x, caret |-> c, span |-> None]
<1>0. edit \in Edits /\ EditIs(edit)
  BY EditParts DEF TypeInv, JavaOK
<1>1. /\ a \in Nat /\ b \in Nat /\ a <= b /\ b <= Len(t) /\ t \in Words /\ Len(t) \in Nat
      /\ edit.caret \in Nat /\ edit.caret <= Len(t)
  BY <1>0 DEF EditIs
<1>2. Keyboard(e, <<DelSpan(back, b - a, a)>>, TRUE)
  BY DEF DelKey
<1>. HIDE DEF a, b
<1>3. x \in Words /\ Len(x) = Len(t) - (b - a)
  <2>1. <<>> \in Words /\ Len(<<>>) = 0
    BY EmptySeq DEF Words
  <2>2. x = Splice(t, a, b, <<>>)
    OBVIOUS
  <2>. HIDE DEF t, x
  <2>3. SplicedIs(t, a, b, <<>>, x)
    BY <1>1, <2>1, <2>2, SpliceIs
  <2>. QED BY <1>1, <2>1, <2>3 DEF SplicedIs
<1>4. c \in Nat /\ c <= Len(x)
  <2>. HIDE DEF x, t
  <2>1. Least(a, edit.caret) \in Nat /\ Least(a, edit.caret) <= a
    BY <1>1, LeastIs
  <2>. QED BY <1>1, <1>3, <2>1
<1>5. e \in Edits
  <2>. HIDE DEF x, c
  <2>. QED BY <1>3, <1>4, EditMade
<1>6. <<DelSpan(back, b - a, a)>> \in Seq(Events)
  <2>1. b - a \in Nat
    BY <1>1
  <2>. QED BY <1>1, <2>1, EventsMade, EmptySeq, OneMore
<1>. HIDE DEF e
<1>. QED BY <1>2, <1>5, <1>6, KeyboardType

\* A moved caret keeps the types.
LEMMA SetSelectionType == ASSUME TypeInv, NEW c \in Nat, SetSelection(c) PROVE TypeInv'
<1>. DEFINE e == [edit EXCEPT !.caret = c]
<1>1. e \in Edits
  BY DEF TypeInv, JavaOK, Edits, SetSelection
<1>2. <<Selection(c, FALSE)>> \in Seq(Events)
  BY EventsMade, EmptySeq, OneMore
<1>3. Keyboard(e, <<Selection(c, FALSE)>>, FALSE)
  BY DEF SetSelection
<1>. HIDE DEF e
<1>. QED BY <1>1, <1>2, <1>3, KeyboardType

\* The keyboard, whatever it does.
LEMMA TypeType == ASSUME TypeInv, Type PROVE TypeInv'
<1>1. Strokes \subseteq Words /\ Len(edit.text) \in Nat
  BY ImeAssumption, EditParts DEF Words, TypeInv, JavaOK, EditIs
<1>2. CASE \E t \in Strokes : SetComposingText(t) \/ CommitText(t, TRUE) \/ CommitText(t, FALSE)
  BY <1>1, <1>2, SetComposingTextType, CommitTextType
<1>3. CASE FinishComposingText
  BY <1>3, FinishComposingTextType
<1>4. CASE \E a, b \in 0..Len(edit.text) : SetComposingRegion(a, b)
  BY <1>1, <1>4, SetComposingRegionType
<1>5. CASE \E n, m \in 0..1 : DeleteSurroundingText(n, m)
  BY <1>5, DeleteSurroundingTextType
<1>6. CASE \E back \in BOOLEAN : DelKeyInWord(back) \/ DelKey(back)
  BY <1>6, DelKeyInWordType, DelKeyType
<1>7. CASE \E c \in 0..Len(edit.text) : SetSelection(c)
  BY <1>1, <1>7, SetSelectionType
<1>. QED BY <1>2, <1>3, <1>4, <1>5, <1>6, <1>7 DEF Type

-----------------------------------------------------------------------------
(* The UI thread's other steps.                                            *)

\* Queueing what a call did keeps the types.
LEMMA EnqueueType == ASSUME TypeInv, Enqueue PROVE TypeInv'
<1>1. queue' \in Seq(Events) /\ late' = <<>> /\ late' \in Seq(Events)
  <2>1. queue \in Seq(Events) /\ late \in Seq(Events)
    BY DEF TypeInv, JavaOK
  <2>. QED BY <2>1, ConcatProperties, EmptySeq DEF Enqueue
<1>2. JavaOK'
  BY <1>1 DEF TypeInv, JavaOK, Enqueue
<1>3. EguiOK' /\ RustOK' /\ FrameOK' /\ plain' \in BOOLEAN
  BY DEF TypeInv, EguiOK, RustOK, FrameOK, Enqueue, eguiVars, adapterVars, bridgeVars,
         frameVars, counts
<1>. QED BY <1>2, <1>3 DEF TypeInv

\* A push makes an EditText, or an event that says it was dropped.
LEMMA RunStateType ==
  ASSUME TypeInv, NEW p \in Posts, p.op = "state", RunState(p)
  PROVE  edit' \in Edits /\ queue' \in Seq(Events) /\ UNCHANGED <<shown, dismissed>>
<1>1. p.t \in Words /\ p.c \in Nat /\ Len(p.t) \in Nat
  BY PostParts, LenProperties DEF PostIs, Words
<1>2. [text |-> p.t, caret |-> Least(p.c, Len(p.t)), span |-> None] \in Edits
  <2>1. Least(p.c, Len(p.t)) \in Nat /\ Least(p.c, Len(p.t)) <= Len(p.t)
    BY <1>1, LeastIs
  <2>. QED BY <1>1, <2>1, EditMade
<1>3. Append(queue, SyncDropped) \in Seq(Events)
  BY OneMore, EventsMade DEF TypeInv, JavaOK
<1>. QED BY <1>2, <1>3, EmptySeq DEF RunState, TypeInv, JavaOK

\* A caret push moves the caret within the text.
LEMMA RunCaretType ==
  ASSUME TypeInv, NEW p \in Posts, p.op = "caret", RunCaret(p)
  PROVE  edit' \in Edits /\ queue' \in Seq(Events) /\ UNCHANGED <<shown, dismissed>>
<1>0. edit \in Edits /\ EditIs(edit) /\ p.c \in Nat
  BY EditParts, PostParts DEF PostIs, TypeInv, JavaOK
<1>. DEFINE c == Least(p.c, Len(edit.text))
            s == IF p.clear THEN None ELSE edit.span
<1>1. c \in Nat /\ c <= Len(edit.text)
  BY <1>0, LeastIs DEF EditIs
<1>2. s = None \/ s = edit.span
  OBVIOUS
<1>3. Append(queue, SyncDropped) \in Seq(Events)
  BY OneMore, EventsMade DEF TypeInv, JavaOK
<1>4. CASE queue = <<>>
  <2>1. edit' = [edit EXCEPT !.caret = c, !.span = s] /\ queue' = queue
    BY <1>4 DEF RunCaret
  <2>. HIDE DEF c, s
  <2>2. edit' \in Edits
    BY <1>0, <1>1, <1>2, <2>1 DEF Edits
  <2>. QED BY <2>1, <2>2 DEF RunCaret, TypeInv, JavaOK
<1>5. CASE queue # <<>>
  BY <1>0, <1>3, <1>5 DEF RunCaret
<1>. QED BY <1>4, <1>5

\* Running a posted call keeps the types.
LEMMA RunPostedType == ASSUME TypeInv, RunPosted PROVE TypeInv'
<1>. DEFINE p == Head(posted)
<1>1. p \in Posts /\ posted' \in Seq(Posts)
  BY HeadTailProperties DEF TypeInv, JavaOK, RunPosted
<1>2. \/ p.op = "state" /\ RunState(p)
      \/ p.op = "caret" /\ RunCaret(p)
      \/ p.op = "show" /\ RunShow
      \/ p.op = "hide" /\ RunHide
  BY DEF RunPosted
<1>. HIDE DEF p
<1>3. edit' \in Edits /\ queue' \in Seq(Events) /\ shown' \in BOOLEAN /\ dismissed' \in BOOLEAN
  <2>1. CASE p.op = "state" /\ RunState(p)
    BY <1>1, <2>1, RunStateType DEF TypeInv, JavaOK
  <2>2. CASE p.op = "caret" /\ RunCaret(p)
    BY <1>1, <2>2, RunCaretType DEF TypeInv, JavaOK
  <2>3. CASE RunShow \/ RunHide
    BY <2>3, EmptySeq DEF RunShow, RunHide, TypeInv, JavaOK
  <2>. QED BY <1>2, <2>1, <2>2, <2>3
<1>4. JavaOK'
  BY <1>1, <1>3 DEF TypeInv, JavaOK, RunPosted
<1>5. EguiOK' /\ RustOK' /\ FrameOK' /\ plain' \in BOOLEAN
  BY DEF TypeInv, EguiOK, RustOK, FrameOK, RunPosted, eguiVars, adapterVars, bridgeVars,
         frameVars, counts
<1>. QED BY <1>4, <1>5 DEF TypeInv

\* A dismissal keeps the types.
LEMMA DismissType == ASSUME TypeInv, Dismiss PROVE TypeInv'
<1>1. JavaOK'
  BY EmptySeq DEF TypeInv, JavaOK, Dismiss
<1>2. EguiOK' /\ RustOK' /\ FrameOK' /\ plain' \in BOOLEAN
  BY DEF TypeInv, EguiOK, RustOK, FrameOK, Dismiss, eguiVars, adapterVars, bridgeVars, frameVars
<1>. QED BY <1>1, <1>2 DEF TypeInv

\* A second passing keeps the types.
LEMMA AgeType == ASSUME TypeInv, Age PROVE TypeInv'
<1>1. JavaOK' /\ EguiOK'
  BY DEF TypeInv, JavaOK, EguiOK, Age, javaVars
<1>2. RustOK' /\ FrameOK' /\ plain' \in BOOLEAN
  BY DEF TypeInv, RustOK, FrameOK, Age, adapterVars, bridgeVars, frameVars, counts
<1>. QED BY <1>1, <1>2 DEF TypeInv

-----------------------------------------------------------------------------
(* Applying a batch.                                                       *)

\* A batch that stages more.
LEMMA StagedIs ==
  ASSUME NEW b \in Batches, NEW q \in Seq(Inputs)
  PROVE  Alike(b, Staged(b, q))
<1>. DEFINE o == b.out \o q
            c == [b EXCEPT !.out = o]
<1>1. o \in Seq(Inputs)
  BY BatchParts, ConcatProperties
<1>2. Staged(b, q) = [c EXCEPT !.mutated = TRUE]
  BY DEF Staged, Batches
<1>. HIDE DEF o
<1>3. Alike(b, c)
  BY <1>1, BatchWith
<1>. HIDE DEF c
<1>4. Alike(c, [c EXCEPT !.mutated = TRUE])
  BY <1>3, BatchWith DEF Alike
<1>. QED BY <1>2, <1>3, <1>4, AlikeOn

\* A batch with one event more for the next frame.
LEMMA DeferredIs ==
  ASSUME NEW b \in Batches, NEW ev \in Events
  PROVE  Alike(b, Deferred(b, ev))
<1>. DEFINE q == Append(b.later, ev)
<1>1. q \in Seq(Events)
  BY BatchParts, OneMore
<1>2. Deferred(b, ev) = [b EXCEPT !.later = q]
  BY DEF Deferred
<1>. HIDE DEF q
<1>. QED BY <1>1, <1>2, BatchWith

\* A batch that asks for a seed.
LEMMA ReseedIs ==
  ASSUME NEW b \in Batches
  PROVE  Alike(b, Reseed(b))
<1>. DEFINE c == [b EXCEPT !.needs = TRUE]
<1>1. Reseed(b) = [c EXCEPT !.restart = TRUE]
  BY DEF Reseed, Batches
<1>2. Alike(b, c)
  BY BatchWith
<1>. HIDE DEF c
<1>3. Alike(c, [c EXCEPT !.restart = TRUE])
  BY <1>2, BatchWith DEF Alike
<1>. QED BY <1>1, <1>2, <1>3, AlikeOn

\* A batch whose synced caret has moved.
LEMMA SyncCaretIs ==
  ASSUME NEW b \in Batches, NEW c \in Nat
  PROVE  Alike(b, SyncCaret(b, c))
<1>1. CASE b.sync = None
  BY <1>1 DEF SyncCaret, Alike
<1>2. CASE b.sync # None
  <2>. DEFINE s == [b.sync EXCEPT !.caret = c]
  <2>1. s \in Syncs
    BY <1>2, BatchParts DEF Syncs
  <2>2. SyncCaret(b, c) = [b EXCEPT !.sync = s]
    BY <1>2 DEF SyncCaret
  <2>. HIDE DEF s
  <2>. QED BY <2>1, <2>2, BatchWith
<1>. QED BY <1>1, <1>2

\* Staging one thing.
LEMMA StagedOne ==
  ASSUME NEW b \in Batches, NEW i \in Inputs
  PROVE  Alike(b, Staged(b, <<i>>))
<1>1. <<i>> \in Seq(Inputs)
  BY EmptySeq, OneMore
<1>. QED BY <1>1, StagedIs

\* A batch whose caret the keyboard has placed.
LEMMA PlaceCaretIs ==
  ASSUME NEW b \in Batches, NEW c \in Nat
  PROVE  Alike(b, PlaceCaret(b, c))
<1>. DEFINE free == [b EXCEPT !.preedit = <<>>]
            after(d) == [d EXCEPT !.later = @ \o Strongly(c)]
            shows == ShowsPreedit(b)
            in == b.sel[1] <= c /\ c <= b.sel[2]
<1>0. <<>> \in Words /\ b.preedit \in Words /\ <<c, c>> \in Spans
  BY BatchParts, EmptySeq DEF Words, Spans
<1>1. Mark(b.preedit) \in Inputs /\ Insert(b.preedit) \in Inputs /\ Mark(<<>>) \in Inputs
  BY <1>0, InputsMade
<1>2. Alike(b, free) /\ free \in Batches
  BY <1>0, BatchWith DEF Alike
<1>3. ASSUME NEW d \in Batches PROVE Alike(d, after(d))
  <2>. DEFINE q == d.later \o Strongly(c)
  <2>1. q \in Seq(Events)
    <3>1. Strongly(c) \in Seq(Events)
      BY EventsMade, EmptySeq, OneMore DEF Strongly
    <3>. QED BY <3>1, BatchParts, ConcatProperties
  <2>2. after(d) = [d EXCEPT !.later = q]
    OBVIOUS
  <2>. HIDE DEF q
  <2>. QED BY <2>1, <2>2, BatchWith
<1>4. Alike(b, Staged(b, <<Mark(b.preedit)>>))
  BY <1>1, StagedOne
<1>5. ASSUME NEW i \in Inputs PROVE Alike(b, after(Staged(free, <<i>>)))
  <2>. DEFINE d == Staged(free, <<i>>)
  <2>. HIDE DEF free
  <2>1. Alike(free, d)
    BY <1>2, StagedOne
  <2>. HIDE DEF d
  <2>2. Alike(d, after(d))
    BY <1>3, <2>1 DEF Alike
  <2>3. Alike(b, after(d))
    <3>. HIDE DEF after
    <3>. QED BY <1>2, <2>1, <2>2, AlikeOn
  <2>. QED BY <2>3 DEF d
<1>6. Alike(b, [b EXCEPT !.sel = <<c, c>>]) /\ Alike(b, [free EXCEPT !.sel = <<c, c>>])
  <2>. DEFINE s == <<c, c>>
  <2>. HIDE DEF s, free
  <2>1. s \in Spans
    BY <1>0 DEF s
  <2>2. Alike(b, [b EXCEPT !.sel = s])
    BY <2>1, BatchWith
  <2>3. Alike(free, [free EXCEPT !.sel = s])
    BY <1>2, <2>1, BatchWith
  <2>4. Alike(b, [free EXCEPT !.sel = s])
    BY <1>2, <2>3, AlikeOn
  <2>. QED BY <2>2, <2>4 DEF s
<1>7. \/ PlaceCaret(b, c) = [b EXCEPT !.sel = <<c, c>>]
      \/ PlaceCaret(b, c) = Staged(b, <<Mark(b.preedit)>>)
      \/ PlaceCaret(b, c) = after(Staged(free, <<Insert(b.preedit)>>))
      \/ PlaceCaret(b, c) = after(Staged(free, <<Mark(<<>>)>>))
      \/ PlaceCaret(b, c) = [free EXCEPT !.sel = <<c, c>>]
  BY DEF PlaceCaret
<1>. HIDE DEF after, free
<1>. QED BY <1>1, <1>4, <1>5, <1>6, <1>7

\* A selection event keeps a batch one.
LEMMA ApplySelectionIs ==
  ASSUME NEW b \in Batches, NEW ev \in Events, ev.k = "S"
  PROVE  Alike(b, ApplySelection(b, ev))
<1>1. ev.c \in Nat /\ ev.strong \in BOOLEAN
  BY EventParts DEF EventIs
<1>2. Alike(b, [b EXCEPT !.lastSel = ev.c])
  BY <1>1, BatchWith
<1>3. Alike(b, [SyncCaret(PlaceCaret(b, ev.c), ev.c) EXCEPT !.lastSel = None])
  <2>. DEFINE p == PlaceCaret(b, ev.c)
              s == SyncCaret(p, ev.c)
  <2>1. Alike(b, p)
    BY <1>1, PlaceCaretIs
  <2>. HIDE DEF p
  <2>2. Alike(p, s)
    BY <1>1, <2>1, SyncCaretIs DEF Alike
  <2>. HIDE DEF s
  <2>3. Alike(s, [s EXCEPT !.lastSel = None])
    BY <2>2, BatchWith DEF Alike
  <2>4. Alike(b, [s EXCEPT !.lastSel = None])
    BY <2>1, <2>2, <2>3, AlikeOn
  <2>. QED BY <2>4 DEF s, p
<1>. QED BY <1>2, <1>3, DeferredIs DEF ApplySelection

\* A batch with another composition.
LEMMA ComposeIs ==
  ASSUME NEW b \in Batches, NEW t \in Words
  PROVE  Alike(b, Compose(b, t))
<1>. DEFINE c == [b EXCEPT !.preedit = t]
<1>1. Alike(b, c)
  BY BatchWith
<1>2. Compose(b, t) = Staged(c, <<Mark(t)>>)
  BY DEF Compose
<1>. HIDE DEF c
<1>3. Alike(c, Staged(c, <<Mark(t)>>))
  BY <1>1, InputsMade, StagedOne DEF Alike
<1>. QED BY <1>1, <1>2, <1>3, AlikeOn

\* So does a commit.
LEMMA ApplyCommitIs ==
  ASSUME NEW b \in Batches, NEW ev \in Events, ev.k = "T"
  PROVE  Alike(b, ApplyCommit(b, ev))
<1>. DEFINE c == [b EXCEPT !.preedit = <<>>]
<1>1. ev.t \in Words /\ <<>> \in Words
  BY EventParts, EmptySeq DEF EventIs, Words
<1>2. Alike(b, c)
  BY <1>1, BatchWith
<1>3. ApplyCommit(b, ev) = Staged(c, <<Insert(ev.t)>>)
  BY DEF ApplyCommit
<1>. HIDE DEF c
<1>4. Alike(c, Staged(c, <<Insert(ev.t)>>))
  BY <1>1, <1>2, InputsMade, StagedOne DEF Alike
<1>. QED BY <1>2, <1>3, <1>4, AlikeOn

\* Staging one thing into a batch that asks for a seed.
LEMMA ReseedStaged ==
  ASSUME NEW b \in Batches, NEW i \in Inputs
  PROVE  Alike(b, Reseed(Staged(b, <<i>>)))
<1>. DEFINE c == Staged(b, <<i>>)
<1>1. Alike(b, c)
  BY StagedOne
<1>. HIDE DEF c
<1>2. Alike(c, Reseed(c))
  BY <1>1, ReseedIs DEF Alike
<1>3. Alike(b, Reseed(c))
  BY <1>1, <1>2, AlikeOn
<1>. QED BY <1>3 DEF c

\* So does a composition.
LEMMA ApplyPreeditIs ==
  ASSUME NEW b \in Batches, NEW ev \in Events, ev.k = "C"
  PROVE  Alike(b, ApplyPreedit(b, ev))
<1>. DEFINE w == b.word.t
            free == [b EXCEPT !.word = None]
            rest == Slice(ev.t, Len(w), Len(ev.t))
            shortened == Len(ev.t) < Len(w) /\ (IsPrefix(ev.t, w) \/ IsSuffix(ev.t, w))
            lengthened == Len(ev.t) > Len(w) /\ IsPrefix(w, ev.t)
<1>1. ev.t \in Words /\ Len(ev.t) \in Nat
  BY EventParts, LenProperties DEF EventIs, Words
<1>2. Alike(b, free) /\ free \in Batches
  BY BatchWith DEF Alike
<1>3. b.word = None \/ (b.word # None /\ b.mutated) => Alike(b, ApplyPreedit(b, ev))
  BY <1>1, ComposeIs, DeferredIs DEF ApplyPreedit
<1>4. CASE b.word # None /\ ~b.mutated
  <2>1. w \in Words /\ Len(w) \in Nat /\ <<b.word.a, b.word.b>> \in Spans
    <3>1. b.word \in ReWords
      BY <1>4, BatchParts
    <3>2. w \in Words /\ b.word.a \in Nat /\ b.word.b \in Nat /\ b.word.a <= b.word.b
      BY <3>1 DEF ReWords
    <3>. QED BY <3>2, LenProperties DEF Words, Spans
  <2>2. \/ ApplyPreedit(b, ev) = Reseed(Staged(free, <<Press(TRUE)>>))
        \/ lengthened /\ ApplyPreedit(b, ev) = Reseed(Staged(free, <<Insert(rest)>>))
        \/ ApplyPreedit(b, ev) = Compose([free EXCEPT !.sel = <<b.word.a, b.word.b>>], ev.t)
    BY <1>4 DEF ApplyPreedit
  <2>3. lengthened => rest \in Words
    <3>. SUFFICES ASSUME lengthened PROVE rest \in Words
      OBVIOUS
    <3>1. Len(w) <= Len(ev.t) /\ Len(ev.t) <= Len(ev.t)
      BY <1>1, <2>1
    <3>. HIDE DEF lengthened
    <3>2. SlicedIs(ev.t, Len(w), Len(ev.t), rest)
      BY <1>1, <2>1, <3>1, SliceIs
    <3>. QED BY <3>2 DEF SlicedIs
  <2>. DEFINE s == <<b.word.a, b.word.b>>
              c == [free EXCEPT !.sel = s]
  <2>. HIDE DEF free, s, rest, lengthened
  <2>4. Alike(b, Reseed(Staged(free, <<Press(TRUE)>>)))
    <3>1. Press(TRUE) \in Inputs
      BY InputsMade
    <3>2. Alike(free, Reseed(Staged(free, <<Press(TRUE)>>)))
      BY <1>2, <3>1, ReseedStaged
    <3>. QED BY <1>2, <3>2, AlikeOn
  <2>5. lengthened => Alike(b, Reseed(Staged(free, <<Insert(rest)>>)))
    <3>1. lengthened => Insert(rest) \in Inputs
      BY <2>3, InputsMade
    <3>2. lengthened => Alike(free, Reseed(Staged(free, <<Insert(rest)>>)))
      BY <1>2, <3>1, ReseedStaged
    <3>. QED BY <1>2, <3>2, AlikeOn
  <2>6. Alike(b, Compose(c, ev.t))
    <3>1. Alike(free, c)
      BY <1>2, <2>1, BatchWith DEF s
    <3>. HIDE DEF c
    <3>2. Alike(c, Compose(c, ev.t))
      BY <1>1, <3>1, ComposeIs DEF Alike
    <3>. QED BY <1>2, <3>1, <3>2, AlikeOn
  <2>. QED BY <2>2, <2>4, <2>5, <2>6 DEF s
<1>. QED BY <1>3, <1>4, BatchParts

\* So does a finished one.
LEMMA ApplyFinishIs ==
  ASSUME NEW b \in Batches
  PROVE  Alike(b, ApplyFinish(b))
<1>. DEFINE done == [b EXCEPT !.preedit = <<>>]
<1>1. <<>> \in Words /\ b.preedit \in Words
  BY BatchParts, EmptySeq DEF Words
<1>2. Alike(b, done)
  BY <1>1, BatchWith
<1>3. \/ ApplyFinish(b) = b
      \/ ApplyFinish(b) = Staged(done, <<Insert(b.preedit)>>)
      \/ ApplyFinish(b) = Staged(done, <<Mark(<<>>)>>)
      \/ ApplyFinish(b) = done
  BY DEF ApplyFinish
<1>4. Alike(b, b)
  BY DEF Alike
<1>. HIDE DEF done
<1>5. ASSUME NEW i \in Inputs PROVE Alike(b, Staged(done, <<i>>))
  <2>1. Alike(done, Staged(done, <<i>>))
    BY <1>2, StagedOne DEF Alike
  <2>. QED BY <1>2, <2>1, AlikeOn
<1>. QED BY <1>1, <1>2, <1>3, <1>4, <1>5, InputsMade

\* So does a deletion around the caret.
LEMMA ApplyDeleteIs ==
  ASSUME NEW b \in Batches, NEW ev \in Events, ev.k = "D"
  PROVE  Alike(b, ApplyDelete(b, ev))
<1>. DEFINE s == <<ev.a, ev.b>>
            c == [b EXCEPT !.sel = s]
<1>1. ev.n \in Nat /\ ev.m \in Nat /\ s \in Spans
  BY EventParts DEF EventIs, Spans
<1>2. Around(ev.n, ev.m) \in Inputs /\ Press(TRUE) \in Inputs
  BY <1>1, InputsMade
<1>3. \/ ApplyDelete(b, ev) = Deferred(b, ev)
      \/ ApplyDelete(b, ev) = Reseed(Staged(b, <<Press(TRUE)>>))
      \/ ApplyDelete(b, ev) = b
      \/ ApplyDelete(b, ev) = Staged(c, <<Around(ev.n, ev.m)>>)
  BY DEF ApplyDelete
<1>. HIDE DEF s
<1>4. Alike(b, c)
  BY <1>1, BatchWith
<1>. HIDE DEF c
<1>5. Alike(b, Staged(c, <<Around(ev.n, ev.m)>>))
  <2>1. Alike(c, Staged(c, <<Around(ev.n, ev.m)>>))
    BY <1>2, <1>4, StagedOne DEF Alike
  <2>. QED BY <1>4, <2>1, AlikeOn
<1>6. Alike(b, b)
  BY DEF Alike
<1>. QED BY <1>2, <1>3, <1>5, <1>6, DeferredIs, ReseedStaged

\* So does the deletion of a span.
LEMMA ApplyDelSpanIs ==
  ASSUME NEW b \in Batches, NEW ev \in Events, ev.k = "K"
  PROVE  Alike(b, ApplyDelSpan(b, ev))
<1>. DEFINE s == <<ev.a, ev.a + ev.n>>
            c == [b EXCEPT !.sel = s]
            d == [b EXCEPT !.preedit = <<>>]
<1>1. ev.back \in BOOLEAN /\ s \in Spans /\ <<>> \in Words
  BY EventParts, EmptySeq DEF EventIs, Spans, Words
<1>2. Press(ev.back) \in Inputs /\ Mark(<<>>) \in Inputs
  BY <1>1, InputsMade
<1>3. \/ ApplyDelSpan(b, ev) = Deferred(b, ev)
      \/ ApplyDelSpan(b, ev) = Reseed(Staged(b, <<Press(ev.back)>>))
      \/ ApplyDelSpan(b, ev) = b
      \/ ApplyDelSpan(b, ev) = Staged(c, <<Press(ev.back)>>)
      \/ ApplyDelSpan(b, ev) = Staged(d, <<Mark(<<>>)>>)
  BY DEF ApplyDelSpan
<1>. HIDE DEF s
<1>4. Alike(b, c) /\ Alike(b, d)
  BY <1>1, BatchWith
<1>. HIDE DEF c, d
<1>5. Alike(b, Staged(c, <<Press(ev.back)>>)) /\ Alike(b, Staged(d, <<Mark(<<>>)>>))
  <2>1. Alike(c, Staged(c, <<Press(ev.back)>>)) /\ Alike(d, Staged(d, <<Mark(<<>>)>>))
    BY <1>2, <1>4, StagedOne DEF Alike
  <2>. QED BY <1>4, <2>1, AlikeOn
<1>6. Alike(b, b)
  BY DEF Alike
<1>. QED BY <1>2, <1>3, <1>5, <1>6, DeferredIs, ReseedStaged

\* The settled text of a focused field.
LEMMA SettledIs ==
  ASSUME EguiOK, fed # None
  PROVE  Settled \in {None} \cup Words
BY DEF EguiOK, Feeds, Settled

\* A batch that ends with a resync does so over a settled text.
Fits(b) == b \in Batches /\ (b.dead => Settled # None)

\* A change that is not the end keeps it so.
LEMMA FitsOn ==
  ASSUME NEW b, NEW c, Fits(b), Alike(b, c)
  PROVE  Fits(c)
BY DEF Fits, Alike

\* A resync ends a batch over a settled text.
LEMMA ResyncIs ==
  ASSUME EguiOK, fed # None, Settled # None, NEW b \in Batches
  PROVE  Fits(Resync(b))
<1>. DEFINE c == [b EXCEPT !.preedit = <<>>]
            o == Append(b.out, Mark(<<>>))
            d == [c EXCEPT !.out = o]
            s == [text |-> Settled, caret |-> b.sel[2]]
            e == [d EXCEPT !.sync = s]
<1>1. <<>> \in Words /\ o \in Seq(Inputs) /\ s \in {None} \cup Syncs
  <2>1. <<>> \in Words /\ b.out \in Seq(Inputs) /\ b.sel \in Spans
    BY BatchParts, EmptySeq DEF Words
  <2>2. o \in Seq(Inputs)
    BY <2>1, InputsMade, OneMore
  <2>3. s \in Syncs
    BY <2>1, SettledIs DEF Syncs, Spans
  <2>. QED BY <2>1, <2>2, <2>3
<1>2. Resync(b) = [e EXCEPT !.dead = TRUE]
  BY DEF Resync, Batches
<1>. HIDE DEF o, s
<1>3. c \in Batches
  BY <1>1, BatchWith DEF Alike
<1>. HIDE DEF c
<1>4. d \in Batches
  BY <1>1, <1>3, BatchWith DEF Alike
<1>. HIDE DEF d
<1>5. e \in Batches
  BY <1>1, <1>4, BatchWith DEF Alike
<1>. HIDE DEF e
<1>6. [e EXCEPT !.dead = TRUE] \in Batches
  BY <1>5, BatchWith
<1>. QED BY <1>2, <1>6 DEF Fits

\* A region keeps a batch one, or ends it over a settled text.
LEMMA ApplyRegionIs ==
  ASSUME EguiOK, fed # None, NEW b, Fits(b), NEW ev \in Events, ev.k = "R"
  PROVE  Fits(ApplyRegion(b, ev))
<1>. DEFINE w == [a |-> ev.a, b |-> ev.b, t |-> ev.t]
            free == [b EXCEPT !.word = None]
            s == <<ev.a, ev.b>>
            c == [free EXCEPT !.sel = s]
<1>0. b \in Batches
  BY DEF Fits
<1>1. ev.t \in Words /\ w \in ReWords /\ s \in Spans
  BY EventParts DEF EventIs, ReWords, Spans
<1>2. \/ ApplyRegion(b, ev) = Deferred(b, ev)
      \/ ApplyRegion(b, ev) = [b EXCEPT !.word = w]
      \/ Settled # None /\ ApplyRegion(b, ev) = Resync(free)
      \/ ApplyRegion(b, ev) = Compose(c, ev.t)
  <2>1. [b EXCEPT !.word = None, !.sel = s] = c
    BY <1>0 DEF Batches
  <2>. QED BY <2>1 DEF ApplyRegion
<1>. HIDE DEF w, s
<1>3. Alike(b, free) /\ Alike(b, [b EXCEPT !.word = w])
  BY <1>0, <1>1, BatchWith
<1>. HIDE DEF free
<1>4. Alike(b, c)
  <2>1. Alike(free, c)
    BY <1>1, <1>3, BatchWith DEF Alike
  <2>. QED BY <1>3, <2>1, AlikeOn
<1>. HIDE DEF c
<1>5. Alike(b, Compose(c, ev.t))
  <2>1. Alike(c, Compose(c, ev.t))
    BY <1>1, <1>4, ComposeIs DEF Alike
  <2>. QED BY <1>4, <2>1, AlikeOn
<1>6. Settled # None => Fits(Resync(free))
  BY <1>3, ResyncIs DEF Alike
<1>7. Alike(b, Deferred(b, ev))
  BY <1>0, DeferredIs
<1>. QED BY <1>2, <1>3, <1>5, <1>6, <1>7, FitsOn

\* So does any event.
LEMMA ApplyEventIs ==
  ASSUME EguiOK, fed # None, NEW b, Fits(b), NEW ev \in Events
  PROVE  Fits(ApplyEvent(b, ev))
<1>. DEFINE free == [b EXCEPT !.word = None]
            c == IF ev.k \in {"C", "R", "S"} THEN b ELSE free
            drop == [c EXCEPT !.sync = None]
<1>0. b \in Batches /\ Alike(b, b) /\ EventIs(ev)
  BY EventParts DEF Fits, Alike
<1>1. Alike(b, free)
  BY <1>0, BatchWith
<1>. HIDE DEF free
<1>2. Alike(b, c) /\ c \in Batches
  BY <1>0, <1>1 DEF Alike
<1>3. \/ ApplyEvent(b, ev) = b
      \/ ApplyEvent(b, ev) = Deferred(b, ev)
      \/ ev.k = "S" /\ ApplyEvent(b, ev) = ApplySelection(b, ev)
      \/ ev.k = "T" /\ ApplyEvent(b, ev) = ApplyCommit(c, ev)
      \/ ev.k = "C" /\ ApplyEvent(b, ev) = ApplyPreedit(b, ev)
      \/ ev.k = "F" /\ ApplyEvent(b, ev) = ApplyFinish(c)
      \/ ev.k = "D" /\ ApplyEvent(b, ev) = ApplyDelete(c, ev)
      \/ ev.k = "R" /\ ApplyEvent(b, ev) = ApplyRegion(b, ev)
      \/ ev.k = "K" /\ ApplyEvent(b, ev) = ApplyDelSpan(c, ev)
      \/ ev.k = "Y" /\ ApplyEvent(b, ev) = [c EXCEPT !.sync = None, !.needs = TRUE]
  <2>1. ApplyEvent(b, ev) \in {b, Deferred(b, ev)} \/ (~b.dead /\ b.later = <<>>)
    BY DEF ApplyEvent
  <2>2. CASE ~b.dead /\ b.later = <<>>
    <3>1. /\ ev.k = "S" => ApplyEvent(b, ev) = ApplySelection(b, ev)
          /\ ev.k = "C" => ApplyEvent(b, ev) = ApplyPreedit(b, ev)
          /\ ev.k = "R" => ApplyEvent(b, ev) = ApplyRegion(b, ev)
      BY <2>2 DEF ApplyEvent
    <3>2. /\ ev.k = "T" => ApplyEvent(b, ev) = ApplyCommit(c, ev)
          /\ ev.k = "F" => ApplyEvent(b, ev) = ApplyFinish(c)
          /\ ev.k = "D" => ApplyEvent(b, ev) = ApplyDelete(c, ev)
      BY <2>2 DEF ApplyEvent, free
    <3>3. /\ ev.k = "K" => ApplyEvent(b, ev) = ApplyDelSpan(c, ev)
          /\ ev.k = "Y" => ApplyEvent(b, ev) = [c EXCEPT !.sync = None, !.needs = TRUE]
      BY <2>2 DEF ApplyEvent, free
    <3>. HIDE DEF c
    <3>. QED BY <1>0, <3>1, <3>2, <3>3 DEF EventIs
  <2>. QED BY <2>1, <2>2
<1>. HIDE DEF c
<1>4. Alike(b, [c EXCEPT !.sync = None, !.needs = TRUE])
  <2>1. [c EXCEPT !.sync = None, !.needs = TRUE] = [drop EXCEPT !.needs = TRUE]
    BY <1>2 DEF Batches
  <2>2. Alike(c, drop)
    BY <1>2, BatchWith
  <2>. HIDE DEF drop
  <2>3. Alike(drop, [drop EXCEPT !.needs = TRUE])
    BY <2>2, BatchWith DEF Alike
  <2>. QED BY <1>2, <2>1, <2>2, <2>3, AlikeOn
<1>5. ASSUME NEW d, Alike(c, d) PROVE Fits(d)
  BY <1>2, <1>5, AlikeOn, FitsOn
<1>6. /\ Fits(Deferred(b, ev))
      /\ ev.k = "S" => Fits(ApplySelection(b, ev))
      /\ ev.k = "C" => Fits(ApplyPreedit(b, ev))
      /\ ev.k = "R" => Fits(ApplyRegion(b, ev))
  BY <1>0, DeferredIs, ApplySelectionIs, ApplyPreeditIs, ApplyRegionIs, FitsOn
<1>7. /\ ev.k = "T" => Fits(ApplyCommit(c, ev))
      /\ Fits(ApplyFinish(c))
      /\ ev.k = "D" => Fits(ApplyDelete(c, ev))
      /\ ev.k = "K" => Fits(ApplyDelSpan(c, ev))
  BY <1>2, <1>5, ApplyCommitIs, ApplyFinishIs, ApplyDeleteIs, ApplyDelSpanIs
<1>8. Fits([c EXCEPT !.sync = None, !.needs = TRUE])
  BY <1>4, FitsOn
<1>. QED BY <1>3, <1>6, <1>7, <1>8

\* Where a batch starts, what its events make of it one by one, and what comes of the last.
BatchStart ==
  [sel |-> field.sel, preedit |-> preedit, sync |-> sync, word |-> word, needs |-> needs,
   restart |-> restart, out |-> <<>>, later |-> <<>>, lastSel |-> None, mutated |-> FALSE,
   dead |-> FALSE]
BatchRun(events, f) ==
  /\ f \in [0..Len(events) -> {b \in Batches : Fits(b)}] /\ f[0] = BatchStart
  /\ \A n \in 1..Len(events) : f[n] = ApplyEvent(f[n - 1], events[n])
BatchEnd(b) ==
  IF b.mutated \/ b.dead \/ b.lastSel = None THEN b
  ELSE SyncCaret(PlaceCaret(b, b.lastSel), b.lastSel)

\* A batch is what its events make of it in turn.
LEMMA BatchRuns ==
  ASSUME EguiOK, RustOK, fed # None, NEW events \in Seq(Events)
  PROVE  \E f : BatchRun(events, f) /\ ApplyBatch(events) = BatchEnd(f[Len(events)])
<1>. DEFINE S == {b \in Batches : Fits(b)}
            N == Len(events)
            start == BatchStart
            by(g) == [n \in 0..N |-> IF n = 0 THEN start ELSE ApplyEvent(g[n - 1], events[n])]
            f == CHOOSE g : g = by(g)
            end == f[N]
            F == [x \in S \X Events |-> ApplyEvent(x[1], x[2])]
            T == {n \in 0..N : f[n] \in S}
<1>1. start \in S
  <2>1. field.sel \in Spans /\ <<>> \in Seq(Inputs) /\ <<>> \in Seq(Events)
    BY EmptySeq DEF EguiOK, Fields
  <2>2. start \in Batches /\ start.dead = FALSE
    BY <2>1 DEF BatchStart, Batches, RustOK
  <2>. QED BY <2>2 DEF Fits
<1>2. N \in Nat /\ \A n \in 1..N : events[n] \in Events
  BY LenProperties, ElementOfSeq
<1>3. ApplyBatch(events) = BatchEnd(end)
  BY DEF ApplyBatch, BatchStart, BatchEnd
<1>. HIDE DEF start, N
<1>4. \A b \in S, ev \in Events : ApplyEvent(b, ev) \in S
  BY ApplyEventIs DEF Fits
<1>. HIDE DEF S
<1>5. F \in [S \X Events -> S]
  BY <1>4
<1>6. f = by(f)
  <2>1. \E g : Goes(g, Len(events), S, F, start, events)
    <3>. HIDE DEF F
    <3>. QED BY <1>1, <1>5, Folded
  <2>2. PICK g \in [0..N -> S] :
          g[0] = start /\ \A n \in 1..N : g[n] = F[<<g[n - 1], events[n]>>]
    BY <2>1 DEF Goes, N
  <2>3. ASSUME NEW n \in 0..N, n # 0 PROVE g[n] = ApplyEvent(g[n - 1], events[n])
    <3>1. n \in 1..N /\ n - 1 \in 0..N
      BY <1>2, <2>3
    <3>2. g[n - 1] \in S /\ events[n] \in Events
      BY <1>2, <3>1
    <3>. QED BY <2>2, <3>1, <3>2
  <2>4. g = by(g)
    BY <2>2, <2>3
  <2>. HIDE DEF by
  <2>. QED BY <2>4
<1>. HIDE DEF f, F
<1>7. \A n \in 0..N : f[n] \in S
  <2>1. 0 \in T
    BY <1>1, <1>2, <1>6
  <2>2. ASSUME NEW n \in 0..N, n < N, n \in T PROVE n + 1 \in T
    <3>1. n + 1 \in 0..N /\ n + 1 \in 1..N /\ n + 1 # 0 /\ (n + 1) - 1 = n
      BY <1>2, <2>2
    <3>2. f[n + 1] = ApplyEvent(f[n], events[n + 1])
      BY <1>6, <3>1
    <3>3. f[n + 1] \in S
      BY <1>2, <1>4, <2>2, <3>1, <3>2
    <3>. QED BY <3>1, <3>3
  <2>. HIDE DEF T
  <2>3. Climbs(T, N)
    BY <2>1, <2>2 DEF Climbs
  <2>4. \A n \in 0..N : n \in T
    BY <1>2, <2>3, UpToN
  <2>. QED BY <2>4 DEF T
<1>8. \A n \in 1..N : n \in 0..N /\ n # 0
  BY <1>2
<1>9. f \in [0..N -> S] /\ f[0] = start /\ \A n \in 1..N : f[n] = ApplyEvent(f[n - 1], events[n])
  <2>1. f = [n \in 0..N |-> f[n]]
    BY <1>6
  <2>2. 0 \in 0..N
    BY <1>2
  <2>3. f[0] = start
    BY <1>6, <2>2
  <2>4. \A n \in 1..N : f[n] = ApplyEvent(f[n - 1], events[n])
    BY <1>6, <1>8
  <2>. HIDE DEF by
  <2>. QED BY <1>7, <2>1, <2>3, <2>4
<1>10. BatchRun(events, f)
  BY <1>9 DEF BatchRun, S, N, start
<1>. QED BY <1>3, <1>10 DEF N

\* A whole batch.
LEMMA ApplyBatchIs ==
  ASSUME EguiOK, RustOK, fed # None, NEW events \in Seq(Events)
  PROVE  Fits(ApplyBatch(events))
<1>1. PICK f : BatchRun(events, f) /\ ApplyBatch(events) = BatchEnd(f[Len(events)])
  BY BatchRuns
<1>. DEFINE end == f[Len(events)]
<1>2. end \in Batches /\ Fits(end)
  <2>1. Len(events) \in 0..Len(events)
    BY LenProperties
  <2>. QED BY <1>1, <2>1 DEF BatchRun
<1>3. ApplyBatch(events) = BatchEnd(end)
  BY <1>1
<1>. HIDE DEF end
<1>4. end.lastSel # None => Fits(SyncCaret(PlaceCaret(end, end.lastSel), end.lastSel))
  <2>. DEFINE c == end.lastSel
              p == PlaceCaret(end, c)
  <2>. SUFFICES ASSUME c # None PROVE Fits(SyncCaret(p, c))
    OBVIOUS
  <2>1. c \in Nat
    BY <1>2, BatchParts
  <2>. HIDE DEF c
  <2>2. Alike(end, p)
    BY <1>2, <2>1, PlaceCaretIs
  <2>. HIDE DEF p
  <2>3. Alike(p, SyncCaret(p, c))
    BY <2>1, <2>2, SyncCaretIs DEF Alike
  <2>. QED BY <1>2, <2>2, <2>3, FitsOn
<1>. QED BY <1>2, <1>3, <1>4 DEF BatchEnd

-----------------------------------------------------------------------------
(* The frame's first step.                                                 *)

\* A tap is a selection.
LEMMA TapType == ASSUME TypeInv, Tap PROVE tap' \in {None} \cup Spans
<1>1. Len(field.text) \in Nat
  BY LenProperties DEF TypeInv, EguiOK, Fields, Words
<1>2. ASSUME NEW a \in 0..Len(field.text), NEW b \in 0..Len(field.text), a <= b
      PROVE  <<a, b>> \in Spans
  BY <1>1, <1>2 DEF Spans
<1>3. CASE tap' = None
  BY <1>3
<1>4. CASE \E c \in 0..Len(field.text) : tap' = <<c, c>>
  <2>1. PICK c \in 0..Len(field.text) : tap' = <<c, c>>
    BY <1>4
  <2>2. c <= c
    BY <1>1
  <2>. QED BY <1>2, <2>1, <2>2
<1>5. CASE \E a, b \in 0..Len(field.text) : a <= b /\ tap' = <<a, b>>
  BY <1>2, <1>5
<1>. QED BY <1>3, <1>4, <1>5 DEF Tap

\* What this step changes, besides the tap.
Drained ==
  /\ queue' \in Seq(Events) /\ posted' \in Seq(Posts) /\ dismissed' \in BOOLEAN
  /\ field' \in Fields /\ RustOK' /\ staged' \in Seq(Inputs) /\ applied' \in BOOLEAN
  /\ hot' => hot /\ focused'
  /\ force' => hot'

\* A teardown keeps the types.
LEMMA TeardownType == ASSUME TypeInv, Teardown PROVE Drained
<1>1. <<>> \in Words /\ <<>> \in Seq(Events) /\ <<>> \in Seq(Inputs)
  BY EmptySeq DEF Words
<1>2. posted' \in Seq(Posts)
  BY PostsMade, OneMore DEF TypeInv, JavaOK, Teardown
<1>3. RustOK'
  BY <1>1 DEF TypeInv, RustOK, Teardown
<1>. QED BY <1>1, <1>2, <1>3 DEF TypeInv, JavaOK, EguiOK, FrameOK, Drained, Teardown

\* So does a frame without a session.
LEMMA ColdType == ASSUME TypeInv, Cold PROVE Drained
<1>1. RustOK'
  BY DEF TypeInv, RustOK, Cold, adapterVars, bridgeVars
<1>. QED BY <1>1 DEF TypeInv, JavaOK, EguiOK, FrameOK, Drained, Cold, adapterVars

\* So does an applied batch.
LEMMA ApplyType ==
  ASSUME TypeInv, hot, UNCHANGED adapterVars, NEW events \in Seq(Events), Apply(events)
  PROVE  /\ posted' \in Seq(Posts) /\ field' \in Fields /\ staged' \in Seq(Inputs)
         /\ applied' \in BOOLEAN /\ RustOK'
<1>. DEFINE end == ApplyBatch(events)
<1>1. Fits(end)
  BY ApplyBatchIs DEF TypeInv, FrameOK
<1>2. /\ field' = [field EXCEPT !.sel = end.sel]
      /\ preedit' = end.preedit /\ word' = end.word /\ sync' = end.sync
      /\ needs' = end.needs /\ restart' = end.restart
      /\ posted' = IF end.dead THEN Append(posted, Push(Settled, end.sel[2], TRUE)) ELSE posted
      /\ staged' = staged \o end.out
      /\ carry' = end.later /\ applied' = TRUE
  BY DEF Apply
<1>. HIDE DEF end
<1>3. /\ end.sel \in Spans /\ end.preedit \in Words /\ end.sync \in {None} \cup Syncs
      /\ end.word \in {None} \cup ReWords /\ end.needs \in BOOLEAN /\ end.restart \in BOOLEAN
      /\ end.out \in Seq(Inputs) /\ end.later \in Seq(Events) /\ end.dead \in BOOLEAN
  BY <1>1, BatchParts DEF Fits
<1>4. posted' \in Seq(Posts)
  <2>1. posted \in Seq(Posts)
    BY DEF TypeInv, JavaOK
  <2>2. CASE end.dead
    <3>1. Settled \in Words /\ end.sel[2] \in Nat
      BY <1>1, <1>3, <2>2, SettledIs DEF Fits, TypeInv, FrameOK, Spans
    <3>2. Push(Settled, end.sel[2], TRUE) \in Posts
      BY <3>1, PostsMade
    <3>. QED BY <1>2, <2>1, <2>2, <3>2, OneMore
  <2>3. CASE ~end.dead
    BY <1>2, <2>1, <2>3
  <2>. QED BY <2>2, <2>3
<1>5. field' \in Fields
  <2>. DEFINE s == end.sel
  <2>1. s \in Spans
    BY <1>3
  <2>. HIDE DEF s
  <2>2. [field EXCEPT !.sel = s] \in Fields
    BY <2>1 DEF TypeInv, EguiOK, Fields
  <2>. QED BY <1>2, <2>2 DEF s
<1>6. staged' \in Seq(Inputs)
  BY <1>2, <1>3, ConcatProperties DEF TypeInv, FrameOK
<1>7. RustOK'
  BY <1>2, <1>3 DEF TypeInv, RustOK, adapterVars
<1>. QED BY <1>2, <1>4, <1>5, <1>6, <1>7

\* So does draining the queue.
LEMMA DrainQueueType == ASSUME TypeInv, DrainQueue PROVE Drained
<1>. DEFINE events == carry \o queue
<1>0. /\ hot /\ queue' = <<>> /\ UNCHANGED <<dismissed, adapterVars>>
      /\ \/ applied' = FALSE /\ UNCHANGED <<posted, field, bridgeVars, staged>>
         \/ WaitOutTap(events)
         \/ Apply(events)
  BY DEF DrainQueue
<1>1. events \in Seq(Events) /\ queue' \in Seq(Events)
  <2>1. carry \in Seq(Events) /\ queue \in Seq(Events)
    BY DEF TypeInv, JavaOK, RustOK
  <2>. QED BY <1>0, <2>1, ConcatProperties, EmptySeq
<1>. HIDE DEF events
<1>2. /\ posted' \in Seq(Posts) /\ field' \in Fields /\ staged' \in Seq(Inputs)
      /\ applied' \in BOOLEAN /\ RustOK'
  <2>1. CASE applied' = FALSE /\ UNCHANGED <<posted, field, bridgeVars, staged>>
    <3>1. RustOK'
      BY <1>0, <2>1 DEF TypeInv, RustOK, adapterVars, bridgeVars
    <3>. QED BY <2>1, <3>1 DEF TypeInv, JavaOK, EguiOK, FrameOK
  <2>2. CASE WaitOutTap(events)
    <3>1. RustOK'
      BY <1>0, <1>1, <2>2 DEF TypeInv, RustOK, adapterVars, WaitOutTap
    <3>. QED BY <2>2, <3>1 DEF TypeInv, JavaOK, EguiOK, FrameOK, WaitOutTap
  <2>3. CASE Apply(events)
    BY <1>0, <1>1, <2>3, ApplyType
  <2>. QED BY <1>0, <2>1, <2>2, <2>3
<1>. QED BY <1>0, <1>1, <1>2 DEF Drained, TypeInv, JavaOK, FrameOK, adapterVars

\* The first step keeps the types.
LEMMA DrainType == ASSUME TypeInv, Drain PROVE TypeInv'
<1>1. Drained
  BY TeardownType, DrainQueueType, ColdType DEF Drain
<1>2. tap' \in {None} \cup Spans
  BY TapType DEF Drain
<1>3. JavaOK'
  BY <1>1 DEF TypeInv, JavaOK, Drained, Drain
<1>4. EguiOK'
  BY <1>1 DEF TypeInv, EguiOK, Drained, Drain
<1>5. FrameOK'
  BY <1>1, <1>2 DEF TypeInv, FrameOK, Drained, Drain
<1>6. plain' \in BOOLEAN
  BY DEF TypeInv, Drain
<1>. QED BY <1>1, <1>3, <1>4, <1>5, <1>6 DEF TypeInv, Drained

-----------------------------------------------------------------------------
(* The frame's second step: egui's field.                                  *)

\* A field whose selection is in its text.
InText(f) == f \in Fields /\ f.sel[2] <= Len(f.text)

\* What a field holds.
FieldIs(f) ==
  /\ f.text \in Words /\ Len(f.text) \in Nat /\ f.comp \in BOOLEAN
  /\ f.sel \in Spans /\ f.sel[1] \in Nat /\ f.sel[2] \in Nat /\ f.sel[1] <= f.sel[2]

\* A field holds what its type says.
LEMMA FieldParts == ASSUME NEW f \in Fields PROVE FieldIs(f)
<1>1. f.text \in Words /\ f.sel \in Spans /\ f.comp \in BOOLEAN
  BY DEF Fields
<1>2. Len(f.text) \in Nat
  BY <1>1, LenProperties DEF Words
<1>. QED BY <1>1, <1>2 DEF FieldIs, Spans

\* A field with a text and a selection in it.
At(f, t, a, b) == [f EXCEPT !.text = t, !.sel = <<a, b>>]
AtAs(f, t, a, b, c) == [f EXCEPT !.text = t, !.sel = <<a, b>>, !.comp = c]

\* Such a field has its selection in its text.
LEMMA FieldMade ==
  ASSUME NEW f \in Fields, NEW t \in Words, NEW a \in Nat, NEW b \in Nat, a <= b, b <= Len(t)
  PROVE  InText(At(f, t, a, b)) /\ \A c \in BOOLEAN : InText(AtAs(f, t, a, b, c))
<1>. DEFINE s == <<a, b>>
<1>1. s \in Spans /\ s[2] = b
  BY DEF Spans
<1>. HIDE DEF s
<1>2. InText([f EXCEPT !.text = t, !.sel = s])
  BY <1>1 DEF InText, Fields
<1>3. \A c \in BOOLEAN : InText([f EXCEPT !.text = t, !.sel = s, !.comp = c])
  BY <1>1 DEF InText, Fields
<1>. QED BY <1>2, <1>3 DEF s, At, AtAs

\* A selection replaced by a text.
ReplacedFits(x, a, t) ==
  /\ x \in Words /\ a \in Nat /\ a + Len(t) \in Nat /\ a <= a + Len(t) /\ a + Len(t) <= Len(x)

\* Splicing a text into the selection makes such a text.
LEMMA ReplacedIs ==
  ASSUME NEW f, InText(f), NEW t \in Words
  PROVE  ReplacedFits(Splice(f.text, f.sel[1], f.sel[2], t), f.sel[1], t)
<1>. DEFINE x == Splice(f.text, f.sel[1], f.sel[2], t)
<1>0. f \in Fields /\ FieldIs(f) /\ f.sel[2] <= Len(f.text) /\ Len(t) \in Nat
  BY FieldParts, LenProperties DEF InText, Words
<1>1. x \in Words /\ f.sel[1] + Len(t) <= Len(x)
  <2>1. SplicedIs(f.text, f.sel[1], f.sel[2], t, x)
    BY <1>0, SpliceIs DEF FieldIs
  <2>. HIDE DEF x
  <2>. QED BY <1>0, <2>1 DEF SplicedIs, FieldIs
<1>. HIDE DEF x
<1>2. ReplacedFits(x, f.sel[1], t)
  BY <1>0, <1>1 DEF ReplacedFits, FieldIs
<1>. QED BY <1>2 DEF x

\* A composition leaves egui's selection in the text.
LEMMA TakePreeditIs ==
  ASSUME NEW f, InText(f), NEW t \in Words
  PROVE  InText(TakePreedit(f, t))
<1>. DEFINE x == Splice(f.text, f.sel[1], f.sel[2], t)
            a == f.sel[1]
            c == t # <<>>
<1>0. f \in Fields
  BY DEF InText
<1>1. ReplacedFits(x, a, t)
  BY ReplacedIs
<1>2. TakePreedit(f, t) = f \/ TakePreedit(f, t) = AtAs(f, x, a, a + Len(t), c)
  BY <1>0 DEF TakePreedit, Replaced, Fields, AtAs
<1>. HIDE DEF x, a
<1>3. InText(AtAs(f, x, a, a + Len(t), c))
  BY <1>0, <1>1, FieldMade DEF ReplacedFits
<1>. QED BY <1>2, <1>3

\* So does a commit.
LEMMA TakeCommitIs ==
  ASSUME NEW f, InText(f), NEW t \in Words
  PROVE  InText(TakeCommit(f, t))
<1>. DEFINE x == Splice(f.text, f.sel[1], f.sel[2], t)
            a == f.sel[1]
            c == a + Len(t)
<1>0. f \in Fields
  BY DEF InText
<1>1. ReplacedFits(x, a, t)
  BY ReplacedIs
<1>2. TakeCommit(f, t) = f \/ TakeCommit(f, t) = AtAs(f, x, c, c, FALSE)
  BY <1>0 DEF TakeCommit, Replaced, After, Fields, AtAs
<1>3. x \in Words /\ c \in Nat /\ c <= c /\ c <= Len(x)
  <2>. HIDE DEF x, a
  <2>. QED BY <1>1 DEF ReplacedFits
<1>. HIDE DEF x, a, c
<1>4. InText(AtAs(f, x, c, c, FALSE))
  BY <1>0, <1>3, FieldMade
<1>. QED BY <1>2, <1>4

\* So does a deletion around the caret.
LEMMA TakeAroundIs ==
  ASSUME NEW f, InText(f), NEW n \in Nat, NEW m \in Nat
  PROVE  InText(TakeAround(f, n, m))
<1>. DEFINE a == f.sel[1]
            b == f.sel[2]
            t == f.text
            before == Least(n, a)
            behind == Least(m, Len(t) - b)
            x == Taken(t, a, b, before, behind)
            p == a - before
            q == b - before
<1>0. /\ f \in Fields /\ t \in Words /\ Len(t) \in Nat /\ a \in Nat /\ b \in Nat
      /\ a <= b /\ b <= Len(t)
  BY FieldParts DEF InText, FieldIs
<1>1. TakeAround(f, n, m) = At(f, x, p, q)
  BY DEF TakeAround, Taken, At
<1>. HIDE DEF a, b, t
<1>2. before \in Nat /\ behind \in Nat /\ before <= a /\ b + behind <= Len(t)
  <2>1. Len(t) - b \in Nat
    BY <1>0
  <2>2. before \in Nat /\ before <= a /\ behind \in Nat /\ behind <= Len(t) - b
    BY <1>0, <2>1, LeastIs
  <2>. HIDE DEF before, behind
  <2>. QED BY <1>0, <2>2
<1>. HIDE DEF before, behind
<1>3. x \in Words /\ Len(x) = Len(t) - before - behind
  BY <1>0, <1>2, AroundIs
<1>. HIDE DEF x
<1>4. p \in Nat /\ q \in Nat /\ p <= q /\ q <= Len(x)
  BY <1>0, <1>2, <1>3
<1>. HIDE DEF p, q
<1>. QED BY <1>0, <1>1, <1>3, <1>4, FieldMade

\* So does a delete key.
LEMMA TakeKeyIs ==
  ASSUME NEW f, InText(f), NEW back \in BOOLEAN
  PROVE  InText(TakeKey(f, back))
<1>. DEFINE a == IF f.sel[1] = f.sel[2] /\ back /\ f.sel[1] > 0 THEN f.sel[1] - 1 ELSE f.sel[1]
            b == IF f.sel[1] = f.sel[2] /\ ~back /\ f.sel[2] < Len(f.text) THEN f.sel[2] + 1
                 ELSE f.sel[2]
            t == f.text
            x == Splice(t, a, b, <<>>)
<1>0. f \in Fields /\ FieldIs(f) /\ f.sel[2] <= Len(t)
  BY FieldParts DEF InText
<1>1. /\ t \in Words /\ Len(t) \in Nat /\ a \in Nat /\ b \in Nat /\ a <= b /\ b <= Len(t)
      /\ <<>> \in Words /\ Len(<<>>) = 0
  BY <1>0, EmptySeq DEF FieldIs, Words
<1>2. TakeKey(f, back) = At(f, x, a, a)
  BY DEF TakeKey, At
<1>. HIDE DEF a, b, t
<1>3. x \in Words /\ a <= Len(x) /\ a <= a
  <2>1. SplicedIs(t, a, b, <<>>, x)
    BY <1>1, SpliceIs
  <2>. HIDE DEF x
  <2>. QED BY <1>1, <2>1 DEF SplicedIs
<1>. HIDE DEF x
<1>. QED BY <1>0, <1>1, <1>2, <1>3, FieldMade

\* So does any input.
LEMMA TakeEventIs ==
  ASSUME NEW f, InText(f), NEW ev \in Inputs
  PROVE  InText(TakeEvent(f, ev))
<1>0. InputIs(ev)
  BY InputParts
<1>1. \/ ev.e = "preedit" /\ TakeEvent(f, ev) = TakePreedit(f, ev.t)
      \/ ev.e = "commit" /\ TakeEvent(f, ev) = TakeCommit(f, ev.t)
      \/ ev.e = "around" /\ TakeEvent(f, ev) = TakeAround(f, ev.n, ev.m)
      \/ ev.e = "key" /\ TakeEvent(f, ev) = TakeKey(f, ev.back)
  BY <1>0 DEF TakeEvent, InputIs
<1>. QED BY <1>0, <1>1, TakePreeditIs, TakeCommitIs, TakeAroundIs, TakeKeyIs DEF InputIs

\* A tap, or none, leaves the selection within the text.
LEMMA TappedIs ==
  ASSUME NEW f \in Fields, tap \in {None} \cup Spans
  PROVE  InText(Tapped(f))
<1>. DEFINE s == IF tap = None THEN f.sel ELSE tap
            t == f.text
            l == Len(t)
            a == Least(s[1], l)
            b == Least(s[2], l)
<1>1. s[1] \in Nat /\ s[2] \in Nat /\ s[1] <= s[2] /\ l \in Nat /\ t \in Words
  BY FieldParts DEF FieldIs, Spans
<1>2. Tapped(f) = At(f, t, a, b)
  BY DEF Tapped, Clamped, Fields, At
<1>. HIDE DEF s, t
<1>3. a \in Nat /\ b \in Nat /\ a <= b /\ b <= Len(t)
  BY <1>1 DEF Least
<1>. HIDE DEF a, b
<1>. QED BY <1>1, <1>2, <1>3, FieldMade

\* What the field's frame leaves.
Leaves(u) ==
  /\ u.field \in Fields /\ u.fed \in Feeds /\ u.fed # None /\ u.snap \in Feeds /\ u.snap # None
  /\ u.emitted \in BOOLEAN

\* What the undoer is fed is never None.
LEMMA FedIs == ASSUME NEW f \in Fields PROVE Fed(f) \in Feeds /\ Fed(f) # None
<1>1. f.text \in Seq(Letters) /\ f.sel \in Spans /\ f.sel \in Nat \X Nat
  BY DEF Fields, Words, Spans
<1>2. Fed(f) \in Feeds
  BY <1>1 DEF Fed, Feeds, Words
<1>3. Fed(f) \in [text : Seq(Letters), sel : Nat \X Nat]
  BY <1>1 DEF Fed
<1>. QED BY <1>2, <1>3, ImeAssumption

\* What a field comes to, of what is staged for it.
ShownRun(f, k) ==
  /\ k \in [0..Len(staged) -> {g \in Fields : InText(g)}] /\ k[0] = Tapped(f)
  /\ \A n \in 1..Len(staged) : k[n] = TakeEvent(k[n - 1], staged[n])
ShownEnd(f, h) ==
  [field |-> h, fed |-> Fed(h), snap |-> Snapshot(Fed(Tapped(f))),
   emitted |-> tap # None \/ h # Tapped(f)]

\* A shown field takes what is staged in turn.
LEMMA ShownRuns ==
  ASSUME FrameOK, NEW f \in Fields
  PROVE  \E k : ShownRun(f, k) /\ Shown(f) = ShownEnd(f, k[Len(staged)])
<1>. DEFINE S == {g \in Fields : InText(g)}
            N == Len(staged)
            g == Tapped(f)
            by(k) == [n \in 0..N |-> IF n = 0 THEN g ELSE TakeEvent(k[n - 1], staged[n])]
            k == CHOOSE j : j = by(j)
            h == k[N]
            F == [x \in S \X Inputs |-> TakeEvent(x[1], x[2])]
            T == {n \in 0..N : k[n] \in S}
<1>1. g \in S
  BY TappedIs DEF FrameOK, InText
<1>2. N \in Nat /\ \A n \in 1..N : staged[n] \in Inputs
  BY LenProperties, ElementOfSeq DEF FrameOK
<1>3. Shown(f) = ShownEnd(f, h)
  BY DEF Shown, ShownEnd
<1>. HIDE DEF g, N
<1>4. \A b \in S, ev \in Inputs : TakeEvent(b, ev) \in S
  BY TakeEventIs DEF InText
<1>. HIDE DEF S
<1>5. F \in [S \X Inputs -> S]
  BY <1>4
<1>6. k = by(k)
  <2>1. \E j : Goes(j, Len(staged), S, F, g, staged)
    <3>. HIDE DEF F
    <3>. QED BY <1>1, <1>5, Folded DEF FrameOK
  <2>2. PICK j \in [0..N -> S] :
          j[0] = g /\ \A n \in 1..N : j[n] = F[<<j[n - 1], staged[n]>>]
    BY <2>1 DEF Goes, N
  <2>3. ASSUME NEW n \in 0..N, n # 0 PROVE j[n] = TakeEvent(j[n - 1], staged[n])
    <3>1. n \in 1..N /\ n - 1 \in 0..N
      BY <1>2, <2>3
    <3>2. j[n - 1] \in S /\ staged[n] \in Inputs
      BY <1>2, <3>1
    <3>. QED BY <2>2, <3>1, <3>2
  <2>4. j = by(j)
    BY <2>2, <2>3
  <2>. HIDE DEF by
  <2>. QED BY <2>4
<1>. HIDE DEF k, F
<1>7. \A n \in 0..N : k[n] \in S
  <2>1. 0 \in T
    BY <1>1, <1>2, <1>6
  <2>2. ASSUME NEW n \in 0..N, n < N, n \in T PROVE n + 1 \in T
    <3>1. n + 1 \in 0..N /\ n + 1 \in 1..N /\ n + 1 # 0 /\ (n + 1) - 1 = n
      BY <1>2, <2>2
    <3>2. k[n + 1] = TakeEvent(k[n], staged[n + 1])
      BY <1>6, <3>1
    <3>3. k[n + 1] \in S
      BY <1>2, <1>4, <2>2, <3>1, <3>2
    <3>. QED BY <3>1, <3>3
  <2>. HIDE DEF T
  <2>3. Climbs(T, N)
    BY <2>1, <2>2 DEF Climbs
  <2>4. \A n \in 0..N : n \in T
    BY <1>2, <2>3, UpToN
  <2>. QED BY <2>4 DEF T
<1>8. \A n \in 1..N : n \in 0..N /\ n # 0
  BY <1>2
<1>9. k \in [0..N -> S] /\ k[0] = g /\ \A n \in 1..N : k[n] = TakeEvent(k[n - 1], staged[n])
  <2>1. k = [n \in 0..N |-> k[n]]
    BY <1>6
  <2>2. 0 \in 0..N
    BY <1>2
  <2>3. k[0] = g
    BY <1>6, <2>2
  <2>4. \A n \in 1..N : k[n] = TakeEvent(k[n - 1], staged[n])
    BY <1>6, <1>8
  <2>. HIDE DEF by
  <2>. QED BY <1>7, <2>1, <2>3, <2>4
<1>10. ShownRun(f, k)
  BY <1>9 DEF ShownRun, S, N, g
<1>. QED BY <1>3, <1>10 DEF N

\* A shown field leaves that.
LEMMA ShownIs ==
  ASSUME EguiOK, FrameOK, NEW f \in Fields
  PROVE  Leaves(Shown(f)) /\ Shown(f) = [field |-> Shown(f).field, fed |-> Shown(f).fed,
                                         snap |-> Shown(f).snap, emitted |-> Shown(f).emitted]
<1>1. PICK k : ShownRun(f, k) /\ Shown(f) = ShownEnd(f, k[Len(staged)])
  BY ShownRuns
<1>. DEFINE h == k[Len(staged)]
            g == Tapped(f)
<1>2. h \in Fields
  <2>1. Len(staged) \in 0..Len(staged)
    BY LenProperties DEF FrameOK
  <2>. QED BY <1>1, <2>1 DEF ShownRun
<1>3. Shown(f) = [field |-> h, fed |-> Fed(h), snap |-> Snapshot(Fed(g)),
                  emitted |-> tap # None \/ h # g]
  BY <1>1 DEF ShownEnd
<1>. HIDE DEF h
<1>4. g \in Fields
  BY TappedIs DEF FrameOK, InText
<1>. HIDE DEF g
<1>5. Fed(h) \in Feeds /\ Fed(h) # None
  BY <1>2, FedIs
<1>6. Snapshot(Fed(g)) \in Feeds /\ Snapshot(Fed(g)) # None
  BY <1>4, FedIs DEF Snapshot, EguiOK
<1>. QED BY <1>2, <1>3, <1>5, <1>6 DEF Leaves

-----------------------------------------------------------------------------
(* The frame's last step: what becomes of the session.                     *)

\* What a frame takes along of the session.
Bridges ==
  [preedit : Words, carry : Seq(Events), word : {None} \cup ReWords, sync : {None} \cup Syncs,
   needs : BOOLEAN, restart : BOOLEAN, queue : Seq(Events), post : Seq(Posts), hot : BOOLEAN,
   force : BOOLEAN, seedRestart : BOOLEAN]

\* What a frame posts: the keyboard is asked for first of all, and only for a new session.
Sends(p, opens) ==
  /\ p \in Seq(Posts) /\ (opens => p # <<>>)
  /\ \A i \in 1..Len(p) : p[i].op # "hide" /\ (p[i].op = "show" <=> opens /\ i = 1)

\* A push or a caret more.
LEMMA SendsMore ==
  ASSUME NEW opens \in BOOLEAN, NEW p, Sends(p, opens),
         NEW x \in Posts, x.op \in {"state", "caret"},
         opens => p # <<>>
  PROVE  Sends(Append(p, x), opens)
<1>1. /\ p \in Seq(Posts) /\ Len(p) \in Nat /\ (p # <<>> => Len(p) > 0)
      /\ Append(p, x) \in Seq(Posts) /\ Len(Append(p, x)) = Len(p) + 1
      /\ \A i \in 1..Len(p) : Append(p, x)[i] = p[i]
      /\ Append(p, x)[Len(p) + 1] = x
  BY LenProperties, EmptySeq, AppendProperties DEF Sends
<1>. DEFINE y == Append(p, x)
<1>. HIDE DEF y
<1>2. ASSUME NEW i \in 1..Len(y)
      PROVE  y[i].op # "hide" /\ (y[i].op = "show" <=> opens /\ i = 1)
  <2>1. CASE i \in 1..Len(p)
    BY <1>1, <2>1 DEF Sends, y
  <2>2. CASE i \notin 1..Len(p)
    <3>1. i = Len(p) + 1 /\ (opens => i # 1)
      BY <1>1, <2>2 DEF y
    <3>. QED BY <1>1, <3>1 DEF y
  <2>. QED BY <2>1, <2>2
<1>3. y # <<>> /\ y \in Seq(Posts)
  BY <1>1, EmptySeq DEF y
<1>. QED BY <1>2, <1>3 DEF Sends, y

\* The session of a field with focus, as the frame takes it from step to step.
Up(r, opens) ==
  /\ r \in Bridges /\ r.hot /\ Sends(r.post, opens) /\ r.queue \in {queue, <<>>}

\* And of no field: nothing is posted, and nothing comes up that was not there.
Down(r) ==
  /\ r \in Bridges /\ ~r.hot /\ r.post = <<>> /\ r.queue \in {queue, <<>>}
  /\ r.preedit \in {preedit, <<>>} /\ r.carry \in {carry, <<>>}

\* The parts of the session are of their types.
LEMMA BridgeParts ==
  ASSUME NEW r \in Bridges
  PROVE  /\ r.preedit \in Words /\ r.carry \in Seq(Events) /\ r.word \in {None} \cup ReWords
         /\ r.sync \in {None} \cup Syncs /\ r.needs \in BOOLEAN /\ r.restart \in BOOLEAN
         /\ r.queue \in Seq(Events) /\ r.post \in Seq(Posts) /\ r.hot \in BOOLEAN
         /\ r.force \in BOOLEAN /\ r.seedRestart \in BOOLEAN
BY DEF Bridges

\* The session as the frame finds it.
LEMMA FoundIs ==
  ASSUME JavaOK, RustOK, NEW notified \in BOOLEAN
  PROVE  /\ Found(notified) \in Bridges /\ Found(notified).post = <<>>
         /\ Found(notified).queue = queue /\ Found(notified).hot = hot
         /\ Found(notified).force = force
         /\ Found(notified).preedit \in {preedit, <<>>} /\ Found(notified).carry \in {carry, <<>>}
<1>. DEFINE p == IF notified THEN <<>> ELSE preedit
            c == IF notified THEN <<>> ELSE carry
            s == IF notified THEN None ELSE sync
            n == needs \/ notified
            e == restart \/ notified
<1>1. /\ p \in Words /\ c \in Seq(Events) /\ s \in {None} \cup Syncs /\ n \in BOOLEAN
      /\ e \in BOOLEAN /\ <<>> \in Seq(Posts) /\ p \in {preedit, <<>>} /\ c \in {carry, <<>>}
  BY EmptySeq DEF RustOK, Words
<1>2. Found(notified) =
        [preedit |-> p, carry |-> c, word |-> word, sync |-> s, needs |-> n, restart |-> e,
         queue |-> queue, post |-> <<>>, hot |-> hot, force |-> force,
         seedRestart |-> seedRestart]
  BY DEF Found
<1>. HIDE DEF p, c, s, n, e
<1>3. Found(notified) \in Bridges
  BY <1>1, <1>2 DEF Bridges, JavaOK, RustOK
<1>. QED BY <1>1, <1>2, <1>3

\* A field with focus has a session after this, and one without has none.
LEMMA OpenedIs ==
  ASSUME JavaOK, RustOK, NEW focus \in BOOLEAN, hot => focus, NEW notified \in BOOLEAN
  PROVE  /\ focus => Up(Opened(Found(notified), focus), ~hot)
         /\ ~focus => Down(Opened(Found(notified), focus))
         /\ ~focus => Opened(Found(notified), focus).force = force
<1>. DEFINE r == Found(notified)
            show == <<[op |-> "show"]>>
            o == [r EXCEPT !.preedit = <<>>, !.carry = <<>>, !.word = None, !.queue = <<>>,
                           !.post = show, !.hot = TRUE, !.force = TRUE, !.seedRestart = TRUE]
<1>1. /\ r \in Bridges /\ r.post = <<>> /\ r.queue = queue /\ r.hot = hot /\ r.force = force
      /\ r.preedit \in {preedit, <<>>} /\ r.carry \in {carry, <<>>}
  BY FoundIs
<1>2. Opened(r, focus) = IF ~focus \/ r.hot THEN r ELSE o
  BY DEF Opened
<1>. HIDE DEF r
<1>3. /\ show \in Seq(Posts) /\ Len(show) = 1 /\ show[1] = [op |-> "show"] /\ show # <<>>
      /\ <<>> \in Words /\ <<>> \in Seq(Events)
  <2>1. show \in Seq(Posts)
    BY PostsMade, EmptySeq, OneMore
  <2>. QED BY <2>1, EmptySeq DEF Words
<1>. HIDE DEF show
<1>4. Sends(show, TRUE)
  BY <1>3 DEF Sends
<1>5. o \in Bridges /\ o.hot /\ o.post = show /\ o.queue = <<>>
  <2>1. o \in Bridges
    BY <1>1, <1>3 DEF Bridges
  <2>2. o.hot = TRUE /\ o.post = show /\ o.queue = <<>>
    BY <1>1 DEF Bridges
  <2>. QED BY <2>1, <2>2
<1>. HIDE DEF o
<1>6. Sends(<<>>, FALSE)
  BY EmptySeq DEF Sends
<1>7. CASE ~focus
  <2>1. Opened(r, focus) = r
    BY <1>2, <1>7
  <2>2. Down(r)
    BY <1>1, <1>7 DEF Down
  <2>. QED BY <1>1, <1>7, <2>1, <2>2 DEF r
<1>8. CASE focus /\ hot
  <2>1. Opened(r, focus) = r
    BY <1>1, <1>2, <1>8
  <2>2. Up(r, FALSE)
    BY <1>1, <1>6, <1>8 DEF Up
  <2>3. ~hot <=> FALSE
    BY <1>8
  <2>4. Up(r, ~hot)
    BY <1>1, <1>6, <1>8 DEF Up, Sends
  <2>. QED BY <1>8, <2>1, <2>4 DEF r
<1>9. CASE focus /\ ~hot
  <2>1. Opened(r, focus) = o
    BY <1>1, <1>2, <1>9
  <2>2. Up(o, ~hot)
    BY <1>4, <1>5, <1>9 DEF Up, Sends
  <2>. QED BY <1>9, <2>1, <2>2 DEF r
<1>. QED BY <1>7, <1>8, <1>9 DEF RustOK

\* The text to seed with is a text of the undoer's.
LEMMA SeedTextIs ==
  ASSUME NEW u, Leaves(u)
  PROVE  SeedText(u) \in {None} \cup Words /\ u.field.sel[2] \in Nat /\ u.snap.text \in Words
BY FieldParts DEF Leaves, Feeds, SeedText, FieldIs

\* A session with one push more.
LEMMA UpPosts ==
  ASSUME NEW opens \in BOOLEAN, NEW r, Up(r, opens), NEW x \in Posts, x.op \in {"state", "caret"}
  PROVE  Up([r EXCEPT !.post = Append(@, x)], opens)
<1>. DEFINE p == Append(r.post, x)
            s == [r EXCEPT !.post = p]
<1>1. Sends(p, opens) /\ p \in Seq(Posts)
  BY SendsMore DEF Up, Sends
<1>2. [r EXCEPT !.post = Append(@, x)] = s
  OBVIOUS
<1>. HIDE DEF p
<1>3. s \in Bridges /\ s.hot = r.hot /\ s.post = p /\ s.queue = r.queue
  BY <1>1 DEF Up, Bridges
<1>. HIDE DEF s
<1>4. Up(s, opens)
  BY <1>1, <1>3 DEF Up
<1>. QED BY <1>2, <1>4

\* A session with another synced text and caret, or other flags.
LEMMA UpWith ==
  ASSUME NEW opens \in BOOLEAN, NEW r, Up(r, opens)
  PROVE  /\ \A s \in {None} \cup Syncs : Up([r EXCEPT !.sync = s], opens)
         /\ \A q \in Seq(Events) : Up([r EXCEPT !.carry = q], opens)
         /\ \A s \in {None} \cup Syncs, f, g \in BOOLEAN :
              Up([r EXCEPT !.sync = s, !.force = f, !.seedRestart = g], opens)
         /\ \A f, g, h \in BOOLEAN :
              Up([r EXCEPT !.seedRestart = f, !.restart = g, !.needs = h], opens)
<1>1. \A s \in {None} \cup Syncs : Up([r EXCEPT !.sync = s], opens)
  BY DEF Up, Bridges
<1>2. \A q \in Seq(Events) : Up([r EXCEPT !.carry = q], opens)
  BY DEF Up, Bridges
<1>3. \A s \in {None} \cup Syncs, f, g \in BOOLEAN :
        Up([r EXCEPT !.sync = s, !.force = f, !.seedRestart = g], opens)
  BY DEF Up, Bridges
<1>4. \A f, g, h \in BOOLEAN :
        Up([r EXCEPT !.seedRestart = f, !.restart = g, !.needs = h], opens)
  BY DEF Up, Bridges
<1>. QED BY <1>1, <1>2, <1>3, <1>4

\* Seeding keeps the session up.
LEMMA SeededIs ==
  ASSUME NEW opens \in BOOLEAN, NEW r, Up(r, opens), NEW u, Leaves(u)
  PROVE  Up(Seeded(r, u, TRUE), opens)
<1>. DEFINE t == SeedText(u)
            caret == u.field.sel[2]
            z == [text |-> t, caret |-> caret]
            s == [r EXCEPT !.sync = z, !.force = FALSE, !.seedRestart = FALSE]
            x == Push(t, caret, r.seedRestart)
<1>1. t \in {None} \cup Words /\ caret \in Nat /\ r \in Bridges /\ r.seedRestart \in BOOLEAN
  BY SeedTextIs, BridgeParts DEF Up
<1>2. Seeded(r, u, TRUE) = IF t = None THEN [r EXCEPT !.sync = None, !.force = TRUE]
                           ELSE [r EXCEPT !.sync = z, !.force = FALSE, !.seedRestart = FALSE,
                                          !.post = Append(r.post, x)]
  BY DEF Seeded
<1>. HIDE DEF t, caret
<1>3. CASE t = None
  <2>1. [r EXCEPT !.sync = None, !.force = TRUE]
          = [r EXCEPT !.sync = None, !.force = TRUE, !.seedRestart = r.seedRestart]
    BY <1>1 DEF Bridges
  <2>2. Up([r EXCEPT !.sync = None, !.force = TRUE, !.seedRestart = r.seedRestart], opens)
    BY <1>1, UpWith
  <2>. QED BY <1>2, <1>3, <2>1, <2>2
<1>4. CASE t # None
  <2>1. z \in Syncs /\ x \in Posts /\ x.op = "state"
    BY <1>1, <1>4, PostsMade DEF Syncs
  <2>. HIDE DEF z, x
  <2>2. Up(s, opens)
    BY <2>1, UpWith
  <2>3. [r EXCEPT !.sync = z, !.force = FALSE, !.seedRestart = FALSE,
                  !.post = Append(r.post, x)] = [s EXCEPT !.post = Append(@, x)]
    BY <1>1 DEF Bridges
  <2>. HIDE DEF s
  <2>4. Up([s EXCEPT !.post = Append(@, x)], opens)
    BY <2>1, <2>2, UpPosts
  <2>. QED BY <1>2, <1>4, <2>3, <2>4
<1>. QED BY <1>3, <1>4

\* Bringing the caret up to date keeps the session up.
LEMMA CaretSyncedIs ==
  ASSUME NEW opens \in BOOLEAN, NEW r, Up(r, opens), NEW u, Leaves(u)
  PROVE  Up(CaretSynced(r, u), opens)
<1>. DEFINE c == u.field.sel[2]
            z == [r.sync EXCEPT !.caret = c]
            s == [r EXCEPT !.sync = z]
            moved(clear) == [r EXCEPT !.sync.caret = c, !.post = Append(@, PushCaret(c, clear))]
            done == [moved(TRUE) EXCEPT !.carry = Append(@, Finish)]
<1>1. c \in Nat /\ r \in Bridges /\ r.sync \in {None} \cup Syncs
  BY SeedTextIs, BridgeParts DEF Up
<1>2. CASE r.sync = None
  BY <1>2 DEF CaretSynced
<1>3. CASE r.sync # None
  <2>1. CaretSynced(r, u) \in {r, moved(FALSE), done}
    BY <1>3 DEF CaretSynced
  <2>. HIDE DEF c
  <2>2. z \in Syncs
    BY <1>1, <1>3 DEF Syncs
  <2>3. \A clear \in BOOLEAN : moved(clear) = [s EXCEPT !.post = Append(@, PushCaret(c, clear))]
    <3>. DEFINE p(clear) == Append(r.post, PushCaret(c, clear))
    <3>1. \A clear \in BOOLEAN : moved(clear) = [r EXCEPT !.sync = z, !.post = p(clear)]
      BY <1>1 DEF Bridges
    <3>. HIDE DEF z
    <3>2. \A clear \in BOOLEAN : [s EXCEPT !.post = Append(@, PushCaret(c, clear))]
                                   = [r EXCEPT !.sync = z, !.post = p(clear)]
      BY <1>1 DEF Bridges
    <3>. QED BY <3>1, <3>2
  <2>. HIDE DEF z
  <2>4. Up(s, opens)
    BY <2>2, UpWith
  <2>. HIDE DEF s
  <2>5. ASSUME NEW clear \in BOOLEAN PROVE Up(moved(clear), opens)
    <3>1. PushCaret(c, clear) \in Posts /\ PushCaret(c, clear).op = "caret"
      BY <1>1, PostsMade
    <3>2. Up([s EXCEPT !.post = Append(@, PushCaret(c, clear))], opens)
      BY <2>4, <3>1, UpPosts
    <3>. QED BY <2>3, <3>2
  <2>. HIDE DEF moved
  <2>6. Up(done, opens)
    <3>. DEFINE m == moved(TRUE)
                q == Append(m.carry, Finish)
    <3>1. Up(m, opens)
      BY <2>5
    <3>. HIDE DEF m
    <3>2. q \in Seq(Events)
      BY <3>1, BridgeParts, EventsMade, OneMore DEF Up
    <3>. HIDE DEF q
    <3>3. Up([m EXCEPT !.carry = q], opens)
      BY <3>1, <3>2, UpWith
    <3>. QED BY <3>3 DEF m, q
  <2>. QED BY <2>1, <2>5, <2>6
<1>. QED BY <1>2, <1>3

\* Bringing the text up to date keeps the session up.
LEMMA AlignedIs ==
  ASSUME NEW opens \in BOOLEAN, NEW r, Up(r, opens), NEW u, Leaves(u)
  PROVE  Up(Aligned(r, u), opens)
<1>. DEFINE t == u.snap.text
            c == u.field.sel[2]
            z == [text |-> t, caret |-> c]
            y == [r.sync EXCEPT !.text = t]
            x == Push(t, c, TRUE)
            s == [r EXCEPT !.sync = z]
            adopts == [r EXCEPT !.sync = y]
            pushes == [r EXCEPT !.sync = z, !.post = Append(@, x)]
<1>1. t \in Words /\ c \in Nat /\ r \in Bridges /\ r.sync \in {None} \cup Syncs
  BY SeedTextIs, BridgeParts DEF Up
<1>2. \/ r.sync # None /\ Aligned(r, u) = CaretSynced([r EXCEPT !.sync.text = t], u)
      \/ Aligned(r, u) = pushes
      \/ Aligned(r, u) = CaretSynced(r, u)
  BY DEF Aligned
<1>. HIDE DEF t, c
<1>3. z \in Syncs /\ x \in Posts /\ x.op = "state"
  BY <1>1, PostsMade DEF Syncs
<1>4. CASE Aligned(r, u) = CaretSynced(r, u)
  BY <1>4, CaretSyncedIs
<1>5. CASE Aligned(r, u) = pushes
  <2>. HIDE DEF z, x
  <2>1. Up(s, opens)
    BY <1>3, UpWith
  <2>2. pushes = [s EXCEPT !.post = Append(@, x)]
    BY <1>1 DEF Bridges
  <2>. HIDE DEF s, pushes
  <2>3. Up([s EXCEPT !.post = Append(@, x)], opens)
    BY <1>3, <2>1, UpPosts
  <2>. QED BY <1>5, <2>2, <2>3
<1>6. CASE r.sync # None /\ Aligned(r, u) = CaretSynced([r EXCEPT !.sync.text = t], u)
  <2>1. y \in Syncs
    BY <1>1, <1>6 DEF Syncs
  <2>2. [r EXCEPT !.sync.text = t] = adopts
    BY <1>1 DEF Bridges
  <2>. HIDE DEF y
  <2>3. Up(adopts, opens)
    BY <2>1, UpWith
  <2>. HIDE DEF adopts
  <2>. QED BY <1>6, <2>2, <2>3, CaretSyncedIs
<1>. QED BY <1>2, <1>4, <1>5, <1>6

\* With focus and without.
LEMMA SyncedUp ==
  ASSUME NEW opens \in BOOLEAN, NEW r, Up(r, opens), NEW u, Leaves(u)
  PROVE  Up(Synced(r, u, TRUE), opens)
<1>. DEFINE f == r.seedRestart \/ r.restart
            h == r.force /\ r.needs
            latched == [r EXCEPT !.seedRestart = f, !.restart = FALSE, !.needs = h]
<1>1. f \in BOOLEAN /\ h \in BOOLEAN
  BY BridgeParts DEF Up
<1>2. Synced(r, u, TRUE) \in {Seeded(latched, u, TRUE), Aligned(latched, u), latched}
  BY DEF Synced
<1>. HIDE DEF f, h
<1>3. Up(latched, opens)
  BY <1>1, UpWith
<1>. HIDE DEF latched
<1>. QED BY <1>2, <1>3, SeededIs, AlignedIs

\* Without focus, nothing comes of it.
LEMMA SyncedDown ==
  ASSUME NEW r, Down(r), NEW u
  PROVE  Down(Synced(r, u, FALSE)) /\ ~Synced(r, u, FALSE).force
<1>. DEFINE f == r.seedRestart \/ r.restart
            h == r.force /\ r.needs
            latched == [r EXCEPT !.seedRestart = f, !.restart = FALSE, !.needs = h]
            seeded == [latched EXCEPT !.sync = None, !.force = FALSE, !.seedRestart = FALSE]
<1>1. f \in BOOLEAN /\ h \in BOOLEAN /\ r \in Bridges /\ r.force \in BOOLEAN
  BY BridgeParts DEF Down
<1>2. Synced(r, u, FALSE) = IF r.force \/ r.needs THEN seeded ELSE latched
  BY <1>1 DEF Synced, Seeded, Down
<1>. HIDE DEF f, h
<1>3. Down(latched) /\ latched.force = r.force
  BY <1>1 DEF Down, Bridges
<1>. HIDE DEF latched
<1>4. Down(seeded) /\ ~seeded.force
  BY <1>3 DEF Down, Bridges
<1>. HIDE DEF seeded
<1>. QED BY <1>2, <1>3, <1>4

-----------------------------------------------------------------------------
(* A whole frame.                                                          *)

\* A field the application has written is a field.
LEMMA WrittenIs ==
  ASSUME NEW f \in Fields, NEW t \in {None} \cup Words
  PROVE  Written(f, t) \in Fields
BY DEF Written, Fields

\* The field and the session after a frame, with focus or without, that leaves r of the session.
ShownFrame(focus, r) ==
  /\ hot => focus
  /\ focus => Up(r, ~hot)
  /\ ~focus => Down(r) /\ ~r.force
  /\ field' \in Fields /\ fed' \in {None} \cup Feeds /\ snap' \in {None} \cup Feeds
  /\ (fed' = None <=> snap' = None) /\ (focus => fed' # None)
  /\ focused' = focus /\ staged' \in Seq(Inputs)
  /\ preedit' = r.preedit /\ carry' = r.carry /\ word' = r.word /\ sync' = r.sync
  /\ needs' = r.needs /\ restart' = r.restart /\ queue' = r.queue
  /\ posted' = posted \o r.post
  /\ hot' = r.hot /\ force' = r.force /\ seedRestart' = r.seedRestart

\* Every frame is such a frame.
LEMMA ShowIs ==
  ASSUME TypeInv, NEW before \in {None} \cup Words, NEW behind \in {None} \cup Words,
         NEW notified \in BOOLEAN, Show(before, behind, notified)
  PROVE  \E focus \in BOOLEAN, r \in Bridges : ShownFrame(focus, r)
<1>. DEFINE focus == focused \/ tap # None
            f == Written(field, before)
            v == IF focus THEN Shown(f) ELSE Unfocused(f)
            w == IF focus /\ ~focused THEN Refocused(v) ELSE v
            o == Opened(Found(notified), focus)
            r == Synced(o, w, focus)
<1>1. /\ field' = Written(w.field, behind) /\ fed' = w.fed /\ snap' = w.snap
      /\ focused' = focus
      /\ staged' = IF focus /\ ~focused THEN <<Mark(<<>>)>> ELSE <<>>
      /\ preedit' = r.preedit /\ carry' = r.carry /\ word' = r.word /\ sync' = r.sync
      /\ needs' = r.needs /\ restart' = r.restart /\ queue' = r.queue
      /\ posted' = posted \o r.post
      /\ hot' = r.hot /\ force' = r.force /\ seedRestart' = r.seedRestart
  BY DEF Show
<1>2. focus \in BOOLEAN /\ (hot => focus)
  BY DEF TypeInv, FrameOK, RustOK
<1>3. f \in Fields
  BY WrittenIs DEF TypeInv, EguiOK
<1>. HIDE DEF f
<1>4. staged' \in Seq(Inputs)
  <2>1. <<>> \in Seq(Inputs) /\ <<>> \in Words
    BY EmptySeq DEF Words
  <2>2. <<Mark(<<>>)>> \in Seq(Inputs)
    BY <2>1, InputsMade, OneMore
  <2>. QED BY <1>1, <2>1, <2>2
<1>5. focus => Leaves(w)
  <2>. SUFFICES ASSUME focus PROVE Leaves(w)
    OBVIOUS
  <2>1. v = Shown(f)
    OBVIOUS
  <2>2. Leaves(v) /\ v = [field |-> v.field, fed |-> v.fed, snap |-> v.snap,
                          emitted |-> v.emitted]
    BY <1>3, <2>1, ShownIs DEF TypeInv
  <2>. HIDE DEF v
  <2>3. Leaves(Refocused(v))
    <3>. DEFINE s == <<v.field.sel[2], v.field.sel[2]>>
                g == [v.field EXCEPT !.sel = s]
    <3>1. s \in Spans
      BY <2>2, FieldParts DEF Leaves, FieldIs, Spans
    <3>. HIDE DEF s
    <3>2. g \in Fields
      BY <2>2, <3>1 DEF Leaves, Fields
    <3>3. Refocused(v) = [field |-> g, fed |-> v.fed, snap |-> v.snap, emitted |-> v.emitted]
      BY <2>2 DEF Refocused, s
    <3>. HIDE DEF g
    <3>. QED BY <2>2, <3>2, <3>3 DEF Leaves
  <2>. QED BY <2>2, <2>3
<1>6. ~focus => /\ w.field \in Fields /\ w.fed = fed /\ w.snap = snap
  BY <1>3 DEF Unfocused
<1>7. /\ focus => Up(o, ~hot)
      /\ ~focus => Down(o)
  BY <1>2, OpenedIs DEF TypeInv
<1>. HIDE DEF w, o
<1>8. /\ focus => Up(r, ~hot)
      /\ ~focus => Down(r) /\ ~r.force
  <2>1. ASSUME focus PROVE Up(r, ~hot)
    <3>1. r = Synced(o, w, TRUE)
      BY <1>2, <2>1
    <3>2. (~hot) \in BOOLEAN
      OBVIOUS
    <3>. DEFINE opens == ~hot
    <3>. HIDE DEF r, focus, opens
    <3>3. Up(o, opens) /\ Leaves(w) /\ opens \in BOOLEAN
      BY <1>5, <1>7, <2>1, <3>2 DEF opens
    <3>4. Up(Synced(o, w, TRUE), opens)
      BY <3>3, SyncedUp
    <3>. QED BY <3>1, <3>4 DEF opens
  <2>2. ASSUME ~focus PROVE Down(r) /\ ~r.force
    <3>1. r = Synced(o, w, FALSE)
      BY <1>2, <2>2
    <3>. HIDE DEF r, focus
    <3>. QED BY <1>7, <2>2, <3>1, SyncedDown
  <2>. QED BY <2>1, <2>2
<1>. HIDE DEF r
<1>9. r \in Bridges
  BY <1>8 DEF Up, Down
<1>10. /\ field' \in Fields /\ fed' \in {None} \cup Feeds /\ snap' \in {None} \cup Feeds
       /\ (fed' = None <=> snap' = None) /\ (focus => fed' # None)
  <2>1. w.field \in Fields
    BY <1>5, <1>6 DEF Leaves
  <2>2. Written(w.field, behind) \in Fields
    BY <2>1, WrittenIs
  <2>3. CASE focus
    BY <1>1, <1>5, <2>2, <2>3 DEF Leaves
  <2>4. CASE ~focus
    BY <1>1, <1>6, <2>2, <2>4 DEF TypeInv, EguiOK
  <2>. QED BY <2>3, <2>4
<1>. HIDE DEF focus
<1>11. ShownFrame(focus, r)
  BY <1>1, <1>2, <1>4, <1>8, <1>10 DEF ShownFrame
<1>. QED BY <1>2, <1>9, <1>11

\* A frame keeps the types.
LEMMA ShowType ==
  ASSUME TypeInv, NEW before \in {None} \cup Words, NEW behind \in {None} \cup Words,
         NEW notified \in BOOLEAN, Show(before, behind, notified)
  PROVE  TypeInv'
<1>1. PICK focus \in BOOLEAN, r \in Bridges : ShownFrame(focus, r)
  BY ShowIs
<1>2. /\ phase' = "drain" /\ tap' = None /\ aged' = (aged /\ fed' = fed)
      /\ UNCHANGED <<edit, late, shown, dismissed, applied>>
      /\ plain' \in BOOLEAN
  BY DEF Show, TypeInv
<1>3. JavaOK'
  <2>1. r.queue \in Seq(Events) /\ posted \o r.post \in Seq(Posts)
    BY BridgeParts, ConcatProperties DEF TypeInv, JavaOK
  <2>. QED BY <1>1, <1>2, <2>1 DEF TypeInv, JavaOK, ShownFrame
<1>4. EguiOK'
  BY <1>1, <1>2 DEF TypeInv, EguiOK, ShownFrame
<1>5. RustOK'
  BY <1>1, BridgeParts DEF RustOK, ShownFrame
<1>6. FrameOK'
  <2>1. hot' => focus
    BY <1>1 DEF ShownFrame, Down
  <2>2. force' => hot'
    BY <1>1 DEF ShownFrame, Up
  <2>. QED BY <1>1, <1>2, <2>1, <2>2 DEF TypeInv, FrameOK, ShownFrame
<1>. QED BY <1>2, <1>3, <1>4, <1>5, <1>6 DEF TypeInv

-----------------------------------------------------------------------------
(* The types.                                                              *)

\* The types hold at first.
LEMMA InitTypes == Init => TypeInv
<1>. SUFFICES ASSUME Init PROVE TypeInv
  OBVIOUS
<1>1. /\ <<>> \in Words /\ <<>> \in Seq(Events) /\ <<>> \in Seq(Posts)
      /\ <<>> \in Seq(Inputs) /\ Len(<<>>) = 0
  BY EmptySeq DEF Words
<1>2. edit \in Edits
  BY <1>1, EditMade DEF Init
<1>3. field \in Fields
  <2>1. <<0, 0>> \in Spans
    BY DEF Spans
  <2>. QED BY <1>1, <2>1 DEF Init, Fields
<1>. QED BY <1>1, <1>2, <1>3 DEF Init, TypeInv, JavaOK, EguiOK, RustOK, FrameOK

\* Every step keeps them.
LEMMA NextTypes == TypeInv /\ [Next]_imeVars => TypeInv'
<1>. SUFFICES ASSUME TypeInv, [Next]_imeVars PROVE TypeInv'
  OBVIOUS
<1>1. /\ None \in {None} \cup Words /\ AppTexts \subseteq {None} \cup Words
      /\ Notifies \subseteq BOOLEAN
  BY ImeAssumption DEF Words
<1>2. CASE Type \/ Enqueue \/ RunPosted \/ Dismiss \/ Drain \/ Age
  BY <1>2, TypeType, EnqueueType, RunPostedType, DismissType, DrainType, AgeType
<1>3. CASE Frame
  BY <1>1, <1>3, ShowType DEF Frame
<1>4. CASE EditingFrame
  <2>1. PICK t \in AppTexts, notified \in Notifies :
          Show(t, None, notified) \/ Show(None, t, notified)
    BY <1>4 DEF EditingFrame
  <2>2. t \in {None} \cup Words /\ notified \in BOOLEAN
    BY <1>1
  <2>3. CASE Show(t, None, notified)
    BY <1>1, <2>2, <2>3, ShowType
  <2>4. CASE Show(None, t, notified)
    BY <1>1, <2>2, <2>4, ShowType
  <2>. QED BY <2>1, <2>3, <2>4
<1>5. CASE UNCHANGED imeVars
  <2>1. JavaOK' /\ EguiOK'
    BY <1>5 DEF imeVars, javaVars, eguiVars, TypeInv, JavaOK, EguiOK
  <2>2. RustOK' /\ FrameOK' /\ plain' \in BOOLEAN
    BY <1>5 DEF imeVars, eguiVars, adapterVars, bridgeVars, frameVars, counts, TypeInv,
                RustOK, FrameOK
  <2>. QED BY <2>1, <2>2 DEF TypeInv
<1>. QED BY <1>2, <1>3, <1>4, <1>5 DEF Next

\* What the two sides hold is always of these types.
THEOREM ImeTypes == Spec => []TypeInv
<1>. QED BY InitTypes, NextTypes, PTL DEF Spec

\* A composing span is never empty, a selection is never reversed, and the session is hot only
\* for a focused field.
THEOREM ImeTypeCorrect == Spec => []ImeTypeOK
<1>1. TypeInv => ImeTypeOK
  <2>. SUFFICES ASSUME TypeInv PROVE ImeTypeOK
    OBVIOUS
  <2>1. EditIs(edit) /\ FieldIs(field)
    BY EditParts, FieldParts DEF TypeInv, JavaOK, EguiOK
  <2>. QED BY <2>1 DEF TypeInv, JavaOK, RustOK, FrameOK, EditIs, FieldIs, Words, ImeTypeOK
<1>. QED BY <1>1, ImeTypes, PTL

-----------------------------------------------------------------------------
(* The keyboard and the session.                                           *)

\* What becomes of the posted calls when the first of them has run.
LEMMA PostsTail ==
  ASSUME NEW p \in Seq(Posts), p # <<>>
  PROVE  /\ Tail(p) \in Seq(Posts)
         /\ NoShow(p) => NoShow(Tail(p))
         /\ NoHide(p) => NoHide(Tail(p))
         /\ NoShow(p) => Head(p).op # "show"
         /\ NoHide(p) => Head(p).op # "hide"
         /\ \A i : Opening(p, i) =>
              IF i = 1 THEN Head(p).op = "show" /\ NoShow(Tail(p)) /\ NoHide(Tail(p))
              ELSE Head(p).op # "show" /\ \E j \in DOMAIN Tail(p) : Opening(Tail(p), j)
<1>. DEFINE t == Tail(p)
<1>1. /\ Len(p) \in Nat /\ Len(p) > 0 /\ DOMAIN p = 1..Len(p) /\ Head(p) = p[1]
      /\ t \in Seq(Posts) /\ Len(t) = Len(p) - 1
      /\ \A i \in 1..Len(t) : t[i] = p[i + 1]
  BY LenProperties, EmptySeq, HeadTailProperties
<1>2. DOMAIN t = 1..Len(t)
  BY <1>1, LenProperties
<1>. HIDE DEF t
<1>3. \A i \in DOMAIN t : i \in Int /\ i + 1 \in DOMAIN p /\ t[i] = p[i + 1] /\ i + 1 # 1
  BY <1>1, <1>2
<1>4. 1 \in DOMAIN p
  BY <1>1
<1>5. /\ NoShow(p) => NoShow(t) /\ Head(p).op # "show"
      /\ NoHide(p) => NoHide(t) /\ Head(p).op # "hide"
  BY <1>1, <1>3, <1>4 DEF NoShow, NoHide
<1>6. ASSUME Opening(p, 1) PROVE Head(p).op = "show" /\ NoShow(t) /\ NoHide(t)
  <2>1. \A i \in DOMAIN t : i + 1 > 1
    BY <1>2
  <2>. QED BY <1>1, <1>3, <1>6, <2>1 DEF Opening, NoShow, NoHide
<1>7. ASSUME NEW i, Opening(p, i), i # 1
      PROVE  Head(p).op # "show" /\ \E j \in DOMAIN t : Opening(t, j)
  <2>1. i \in DOMAIN p /\ i - 1 \in DOMAIN t /\ (i - 1) + 1 = i
    BY <1>1, <1>2, <1>7 DEF Opening
  <2>2. Head(p).op # "show"
    BY <1>1, <1>4, <1>7 DEF Opening
  <2>3. t[i - 1].op = "show"
    BY <1>3, <1>7, <2>1 DEF Opening
  <2>4. ASSUME NEW j \in DOMAIN t
        PROVE  (j # i - 1 => t[j].op # "show") /\ (j > i - 1 => t[j].op # "hide")
    <3>1. j + 1 \in DOMAIN p /\ t[j] = p[j + 1] /\ (j # i - 1 => j + 1 # i)
          /\ (j > i - 1 => j + 1 > i)
      BY <1>1, <1>2, <1>3, <2>1
    <3>. QED BY <1>7, <3>1 DEF Opening
  <2>5. Opening(t, i - 1)
    BY <2>1, <2>3, <2>4 DEF Opening
  <2>. QED BY <2>1, <2>2, <2>5
<1>. QED BY <1>1, <1>5, <1>6, <1>7 DEF t

\* And when a frame has posted more of them.
LEMMA PostsMore ==
  ASSUME NEW p \in Seq(Posts), NEW opens \in BOOLEAN, NEW q, Sends(q, opens)
  PROVE  /\ ~opens /\ NoShow(p) => NoShow(p \o q)
         /\ ~opens /\ NoHide(p) => NoHide(p \o q)
         /\ ~opens => \A i : Opening(p, i) => i \in DOMAIN (p \o q) /\ Opening(p \o q, i)
         /\ opens /\ NoShow(p) => \E i \in DOMAIN (p \o q) : Opening(p \o q, i)
<1>. DEFINE t == p \o q
<1>1. /\ Len(p) \in Nat /\ DOMAIN p = 1..Len(p) /\ q \in Seq(Posts) /\ Len(q) \in Nat
      /\ (opens => Len(q) > 0)
      /\ t \in Seq(Posts) /\ Len(t) = Len(p) + Len(q)
      /\ \A i \in 1..(Len(p) + Len(q)) : t[i] = IF i <= Len(p) THEN p[i] ELSE q[i - Len(p)]
  BY LenProperties, EmptySeq, ConcatProperties DEF Sends
<1>2. DOMAIN t = 1..(Len(p) + Len(q))
  BY <1>1, LenProperties
<1>. HIDE DEF t
<1>3. ASSUME NEW i \in DOMAIN t
      PROVE  \/ i \in DOMAIN p /\ t[i] = p[i] /\ i <= Len(p)
             \/ /\ i - Len(p) \in 1..Len(q) /\ i > Len(p)
                /\ t[i].op # "hide" /\ (t[i].op = "show" <=> opens /\ i = Len(p) + 1)
  <2>1. CASE i <= Len(p)
    BY <1>1, <1>2, <2>1
  <2>2. CASE ~(i <= Len(p))
    <3>. DEFINE m == i - Len(p)
    <3>a. i \in 1..(Len(p) + Len(q))
      BY <1>2
    <3>b. t[i] = q[m]
      BY <1>1, <2>2, <3>a
    <3>c. m \in 1..Len(q) /\ (m = 1 <=> i = Len(p) + 1) /\ i > Len(p)
      BY <1>1, <2>2, <3>a
    <3>1. m \in 1..Len(q) /\ t[i] = q[m] /\ (m = 1 <=> i = Len(p) + 1) /\ i > Len(p)
      BY <3>b, <3>c
    <3>2. i - Len(p) \in 1..Len(q)
      BY <3>1
    <3>. HIDE DEF m
    <3>3. q[m].op # "hide" /\ (q[m].op = "show" <=> opens /\ m = 1)
      BY <3>1 DEF Sends
    <3>. QED BY <3>1, <3>2, <3>3
  <2>. QED BY <2>1, <2>2
<1>4. /\ ~opens /\ NoShow(p) => NoShow(t)
      /\ ~opens /\ NoHide(p) => NoHide(t)
  BY <1>3 DEF NoShow, NoHide
<1>5. ASSUME ~opens, NEW i, Opening(p, i) PROVE i \in DOMAIN t /\ Opening(t, i)
  <2>1. i \in DOMAIN p /\ i \in DOMAIN t /\ t[i] = p[i]
    BY <1>1, <1>2, <1>5 DEF Opening
  <2>2. ASSUME NEW j \in DOMAIN t
        PROVE  (j # i => t[j].op # "show") /\ (j > i => t[j].op # "hide")
    BY <1>3, <1>5 DEF Opening
  <2>. QED BY <1>5, <2>1, <2>2 DEF Opening
<1>6. ASSUME opens, NoShow(p) PROVE \E i \in DOMAIN t : Opening(t, i)
  <2>. DEFINE n == Len(p) + 1
  <2>1. n \in DOMAIN t /\ n \notin DOMAIN p
    BY <1>1, <1>2, <1>6
  <2>2. t[n].op = "show"
    BY <1>3, <1>6, <2>1
  <2>3. ASSUME NEW j \in DOMAIN t
        PROVE  (j # n => t[j].op # "show") /\ (j > n => t[j].op # "hide")
    <3>1. CASE j \in DOMAIN p /\ t[j] = p[j] /\ j <= Len(p)
      <4>1. ~(j > n)
        BY <1>1, <3>1
      <4>. QED BY <1>6, <3>1, <4>1 DEF NoShow
    <3>2. CASE ~(j \in DOMAIN p /\ t[j] = p[j] /\ j <= Len(p))
      BY <1>3, <3>2
    <3>. QED BY <3>1, <3>2
  <2>. HIDE DEF n
  <2>4. Opening(t, n)
    BY <2>1, <2>2, <2>3 DEF Opening
  <2>. QED BY <2>1, <2>4
<1>. QED BY <1>4, <1>5, <1>6 DEF t

\* The invariant, besides the types.
SessionInv == Session /\ Silent

\* The keyboard calls while it is up, and types only when nothing is posted to it.
LEMMA TypeUp ==
  ASSUME Type
  PROVE  /\ shown /\ UNCHANGED <<queue, posted, shown, dismissed, hot, carry, preedit>>
         /\ plain' => plain /\ posted = <<>> /\ late = <<>>
         /\ moves' = moves
<1>1. ASSUME NEW e, NEW events, NEW ordinary, Keyboard(e, events, ordinary)
      PROVE  /\ shown /\ UNCHANGED <<queue, posted, shown, dismissed, hot, carry, preedit>>
             /\ plain' => plain /\ posted = <<>> /\ late = <<>>
             /\ moves' = moves
  BY <1>1 DEF Keyboard, adapterVars, bridgeVars
<1>2. ASSUME NEW t, NEW after, CommitText(t, after)
      PROVE  \E e, events, ordinary : Keyboard(e, events, ordinary)
  BY <1>2 DEF CommitText
<1>3. ASSUME NEW t, SetComposingText(t)
      PROVE  \E e, events, ordinary : Keyboard(e, events, ordinary)
  BY <1>3 DEF SetComposingText
<1>4. ASSUME FinishComposingText
      PROVE  \E e, events, ordinary : Keyboard(e, events, ordinary)
  BY <1>4 DEF FinishComposingText
<1>5. ASSUME NEW a, NEW b, SetComposingRegion(a, b)
      PROVE  \E e, events, ordinary : Keyboard(e, events, ordinary)
  BY <1>5 DEF SetComposingRegion
<1>6. ASSUME NEW n, NEW m, DeleteSurroundingText(n, m)
      PROVE  \E e, events, ordinary : Keyboard(e, events, ordinary)
  BY <1>6 DEF DeleteSurroundingText
<1>7. ASSUME NEW back, DelKeyInWord(back) \/ DelKey(back)
      PROVE  \E e, events, ordinary : Keyboard(e, events, ordinary)
  <2>1. CASE DelKeyInWord(back)
    BY <2>1 DEF DelKeyInWord
  <2>2. CASE DelKey(back)
    BY <2>2 DEF DelKey
  <2>. QED BY <1>7, <2>1, <2>2
<1>8. ASSUME NEW c, SetSelection(c)
      PROVE  \E e, events, ordinary : Keyboard(e, events, ordinary)
  BY <1>8 DEF SetSelection
<1>9. \E e, events, ordinary : Keyboard(e, events, ordinary)
  BY <1>2, <1>3, <1>4, <1>5, <1>6, <1>7, <1>8 DEF Type
<1>. QED BY <1>1, <1>9

\* The keyboard's calls change nothing of this.
LEMMA TypeSession == ASSUME SessionInv, Type PROVE SessionInv'
<1>1. shown /\ UNCHANGED <<queue, posted, shown, dismissed, hot, carry, preedit>>
  BY TypeUp
<1>2. Silent'
  BY <1>1 DEF Silent
<1>3. Session'
  BY <1>1 DEF SessionInv, Session, NoShow, NoHide, Opening
<1>. QED BY <1>2, <1>3 DEF SessionInv

\* Only a keyboard that is up has anything to queue.
LEMMA EnqueueSession == ASSUME TypeInv, SessionInv, Enqueue PROVE SessionInv'
<1>1. shown /\ UNCHANGED <<posted, shown, dismissed, hot, carry, preedit>>
  BY DEF Enqueue, adapterVars, bridgeVars, SessionInv, Silent
<1>. QED BY <1>1 DEF SessionInv, Session, Silent, NoShow, NoHide, Opening

\* A posted call brings the keyboard up when the session is new, and down when there is none.
LEMMA RunPostedSession == ASSUME TypeInv, SessionInv, RunPosted PROVE SessionInv'
<1>. DEFINE p == posted
            t == Tail(p)
<1>1. /\ p \in Seq(Posts) /\ p # <<>> /\ posted' = t /\ late = <<>>
      /\ UNCHANGED <<late, hot, carry, preedit>>
  BY DEF TypeInv, JavaOK, RunPosted, adapterVars, bridgeVars
<1>2. \/ /\ Head(p).op \in {"state", "caret"} /\ UNCHANGED <<shown, dismissed>>
         /\ queue = <<>> => queue' = <<>>
      \/ Head(p).op = "show" /\ shown' = TRUE /\ dismissed' = FALSE /\ queue' = queue
      \/ Head(p).op = "hide" /\ shown' = FALSE /\ dismissed' = FALSE /\ queue' = <<>>
  BY DEF RunPosted, RunState, RunCaret, RunShow, RunHide
<1>3. Silent'
  BY <1>1, <1>2 DEF SessionInv, Silent
<1>. DEFINE up == hot /\ (shown # dismissed) /\ NoShow(p) /\ NoHide(p)
            opens == hot /\ ~shown /\ ~dismissed /\ \E i \in DOMAIN p : Opening(p, i)
            down == ~hot /\ ~shown /\ ~dismissed /\ NoShow(p) /\ carry = <<>> /\ preedit = <<>>
<1>4. down \/ up \/ opens
  BY DEF SessionInv, Session
<1>. HIDE DEF p
<1>5. CASE down
  <2>1. NoShow(t) /\ Head(p).op # "show"
    BY <1>1, <1>5, PostsTail
  <2>2. ~shown' /\ ~dismissed'
    BY <1>2, <1>5, <2>1
  <2>. HIDE DEF t
  <2>. QED BY <1>1, <1>3, <1>5, <2>1, <2>2 DEF SessionInv, Session
<1>6. CASE up
  <2>1. NoShow(t) /\ NoHide(t) /\ Head(p).op # "show" /\ Head(p).op # "hide"
    BY <1>1, <1>6, PostsTail
  <2>2. UNCHANGED <<shown, dismissed>>
    BY <1>2, <2>1
  <2>. HIDE DEF t
  <2>. QED BY <1>1, <1>3, <1>6, <2>1, <2>2 DEF SessionInv, Session
<1>7. CASE opens
  <2>1. PICK i \in DOMAIN p : Opening(p, i)
    BY <1>7
  <2>2. CASE i = 1
    <3>1. Head(p).op = "show" /\ NoShow(t) /\ NoHide(t)
      BY <1>1, <2>1, <2>2, PostsTail
    <3>2. shown' = TRUE /\ dismissed' = FALSE
      BY <1>2, <3>1
    <3>. HIDE DEF t
    <3>. QED BY <1>1, <1>3, <1>7, <3>1, <3>2 DEF SessionInv, Session
  <2>3. CASE i # 1
    <3>1. Head(p).op # "show" /\ \E j \in DOMAIN t : Opening(t, j)
      BY <1>1, <2>1, <2>3, PostsTail
    <3>2. ~shown' /\ ~dismissed'
      BY <1>2, <1>7, <3>1
    <3>. HIDE DEF t
    <3>. QED BY <1>1, <1>3, <1>7, <3>1, <3>2 DEF SessionInv, Session
  <2>. QED BY <2>2, <2>3
<1>. QED BY <1>4, <1>5, <1>6, <1>7

\* A dismissal takes the keyboard, and the session knows.
LEMMA DismissSession == ASSUME SessionInv, Dismiss PROVE SessionInv'
<1>1. /\ shown /\ late' = <<>> /\ queue' = <<>> /\ dismissed' = TRUE /\ shown' = FALSE
      /\ UNCHANGED <<posted, hot>>
  BY DEF Dismiss, adapterVars
<1>2. hot /\ NoShow(posted) /\ NoHide(posted)
  BY <1>1 DEF SessionInv, Session
<1>3. NoShow(posted') /\ NoHide(posted')
  BY <1>1, <1>2
<1>. QED BY <1>1, <1>2, <1>3 DEF SessionInv, Session, Silent

\* A push leaves the keyboard as it is.
LEMMA PushedSession ==
  ASSUME TypeInv, Session, hot, UNCHANGED <<shown, dismissed, hot>>,
         posted' = posted \/ \E x \in Posts : x.op = "state" /\ posted' = Append(posted, x)
  PROVE  Session'
<1>1. CASE posted' = posted
  BY <1>1 DEF Session, NoShow, NoHide, Opening
<1>2. ASSUME NEW x \in Posts, x.op = "state", posted' = Append(posted, x) PROVE Session'
  <2>. DEFINE p == posted
              q == <<x>>
  <2>1. p \in Seq(Posts) /\ posted' = p \o q /\ q \in Seq(Posts) /\ Len(q) = 1 /\ q[1] = x
    <3>1. p \in Seq(Posts) /\ Append(p, x) = p \o <<x>>
      BY AppendIsConcat DEF TypeInv, JavaOK
    <3>2. q \in Seq(Posts)
      BY EmptySeq, OneMore
    <3>. QED BY <1>2, <3>1, <3>2
  <2>. HIDE DEF q
  <2>2. Sends(q, FALSE)
    BY <1>2, <2>1 DEF Sends
  <2>3. /\ NoShow(p) => NoShow(p \o q)
        /\ NoHide(p) => NoHide(p \o q)
        /\ \A i : Opening(p, i) => i \in DOMAIN (p \o q) /\ Opening(p \o q, i)
    BY <2>1, <2>2, PostsMore
  <2>. DEFINE y == p \o q
  <2>4. posted' = y
    BY <2>1
  <2>. HIDE DEF y
  <2>5. /\ NoShow(posted) => NoShow(y)
        /\ NoHide(posted) => NoHide(y)
        /\ (\E i \in DOMAIN posted : Opening(posted, i)) => \E i \in DOMAIN y : Opening(y, i)
    BY <2>3 DEF y
  <2>6. NoShow(posted)' <=> NoShow(y)
    BY <2>4
  <2>7. NoHide(posted)' <=> NoHide(y)
    BY <2>4
  <2>8. (\E i \in DOMAIN posted : Opening(posted, i))' <=> \E i \in DOMAIN y : Opening(y, i)
    BY <2>4
  <2>. QED BY <2>5, <2>6, <2>7, <2>8 DEF Session
<1>. QED BY <1>1, <1>2

\* The first step ends a dismissed session, and otherwise leaves the keyboard alone.
LEMMA DrainSession == ASSUME TypeInv, SessionInv, Drain PROVE SessionInv'
<1>1. UNCHANGED <<late, shown>> /\ queue' \in {queue, <<>>}
  BY DEF Drain, Teardown, DrainQueue, Cold
<1>2. Silent'
  BY <1>1 DEF SessionInv, Silent
<1>3. CASE Teardown
  <2>1. /\ hot /\ dismissed /\ ~dismissed' /\ ~hot' /\ preedit' = <<>> /\ carry' = <<>>
        /\ posted' = Append(posted, [op |-> "hide"])
    BY <1>3 DEF Teardown
  <2>2. ~shown /\ NoShow(posted)
    BY <2>1 DEF SessionInv, Session, TypeInv, JavaOK
  <2>3. NoShow(posted')
    <3>. DEFINE y == Append(posted, [op |-> "hide"])
    <3>1. /\ posted \in Seq(Posts) /\ y \in Seq(Posts) /\ Len(y) = Len(posted) + 1
          /\ Len(posted) \in Nat /\ DOMAIN posted = 1..Len(posted) /\ DOMAIN y = 1..Len(y)
          /\ \A i \in 1..Len(posted) : y[i] = posted[i]
          /\ y[Len(posted) + 1] = [op |-> "hide"]
      <4>1. posted \in Seq(Posts) /\ [op |-> "hide"] \in Posts
        BY PostsMade DEF TypeInv, JavaOK
      <4>. QED BY <4>1, AppendProperties, LenProperties
    <3>. HIDE DEF y
    <3>2. ASSUME NEW i \in DOMAIN y PROVE y[i].op # "show"
      <4>1. CASE i = Len(posted) + 1
        BY <3>1, <4>1
      <4>2. CASE i # Len(posted) + 1
        <5>1. i \in 1..Len(posted)
          BY <3>1, <4>2
        <5>. QED BY <2>2, <3>1, <5>1 DEF NoShow
      <4>. QED BY <4>1, <4>2
    <3>3. posted' = y
      BY <2>1 DEF y
    <3>. QED BY <3>2, <3>3 DEF NoShow
  <2>. QED BY <1>1, <1>2, <2>1, <2>2, <2>3 DEF SessionInv, Session
<1>4. CASE DrainQueue
  <2>1. hot /\ UNCHANGED <<shown, dismissed, hot>>
    BY <1>1, <1>4 DEF DrainQueue, adapterVars
  <2>2. posted' = posted \/ \E x \in Posts : x.op = "state" /\ posted' = Append(posted, x)
    <3>. DEFINE events == carry \o queue
                end == ApplyBatch(events)
    <3>1. events \in Seq(Events)
      BY ConcatProperties DEF TypeInv, JavaOK, RustOK
    <3>2. Fits(end)
      BY <2>1, <3>1, ApplyBatchIs DEF TypeInv, FrameOK
    <3>3. \/ posted' = posted
          \/ posted' = IF end.dead THEN Append(posted, Push(Settled, end.sel[2], TRUE)) ELSE posted
      BY <1>4 DEF DrainQueue, WaitOutTap, Apply
    <3>. HIDE DEF end
    <3>4. end.dead => /\ Push(Settled, end.sel[2], TRUE) \in Posts
                      /\ Push(Settled, end.sel[2], TRUE).op = "state"
      <4>. SUFFICES ASSUME end.dead
                    PROVE  /\ Push(Settled, end.sel[2], TRUE) \in Posts
                           /\ Push(Settled, end.sel[2], TRUE).op = "state"
        OBVIOUS
      <4>1. Settled \in Words
        BY <2>1, <3>2, SettledIs DEF Fits, TypeInv, FrameOK
      <4>2. end.sel[2] \in Nat
        BY <3>2, BatchParts DEF Fits, Spans
      <4>. QED BY <4>1, <4>2, PostsMade
    <3>. QED BY <3>3, <3>4
  <2>3. Session'
    BY <2>1, <2>2, PushedSession DEF SessionInv
  <2>. QED BY <1>2, <2>3 DEF SessionInv
<1>5. CASE Cold
  <2>1. UNCHANGED <<posted, shown, dismissed, hot, carry, preedit>>
    BY <1>1, <1>5 DEF Cold, adapterVars, bridgeVars
  <2>2. Session'
    BY <2>1 DEF SessionInv, Session, NoShow, NoHide, Opening
  <2>. QED BY <1>2, <2>2 DEF SessionInv
<1>. QED BY <1>3, <1>4, <1>5 DEF Drain

\* The last step opens a session with its keyboard.
LEMMA ShowSession ==
  ASSUME TypeInv, SessionInv, NEW before \in {None} \cup Words, NEW behind \in {None} \cup Words,
         NEW notified \in BOOLEAN, Show(before, behind, notified)
  PROVE  SessionInv'
<1>1. PICK focus \in BOOLEAN, r \in Bridges : ShownFrame(focus, r)
  BY ShowIs
<1>2. UNCHANGED <<late, shown, dismissed>> /\ posted \in Seq(Posts)
  BY DEF Show, TypeInv, JavaOK
<1>3. Silent'
  <2>1. queue' \in {queue, <<>>}
    BY <1>1 DEF ShownFrame, Up, Down
  <2>. QED BY <1>2, <2>1 DEF SessionInv, Silent
<1>4. CASE ~focus
  <2>1. /\ ~hot /\ ~hot' /\ r.post = <<>> /\ posted' = posted \o r.post
        /\ carry' \in {carry, <<>>} /\ preedit' \in {preedit, <<>>}
    BY <1>1, <1>4 DEF ShownFrame, Down
  <2>2. posted' = posted
    BY <1>2, <2>1, ConcatEmptySeq
  <2>3. Session'
    BY <1>2, <2>1, <2>2 DEF SessionInv, Session, NoShow
  <2>. QED BY <1>3, <2>3 DEF SessionInv
<1>5. CASE focus
  <2>. DEFINE p == posted
              q == r.post
              y == p \o q
              opens == ~hot
  <2>1. hot' /\ posted' = y /\ Sends(q, opens) /\ p \in Seq(Posts) /\ opens \in BOOLEAN
    BY <1>1, <1>2, <1>5 DEF ShownFrame, Up
  <2>. HIDE DEF p, q, opens
  <2>2. /\ ~opens /\ NoShow(p) => NoShow(y)
        /\ ~opens /\ NoHide(p) => NoHide(y)
        /\ ~opens => \A i : Opening(p, i) => i \in DOMAIN y /\ Opening(y, i)
        /\ opens /\ NoShow(p) => \E i \in DOMAIN y : Opening(y, i)
    BY <2>1, PostsMore
  <2>. HIDE DEF y
  <2>3. /\ hot /\ NoShow(posted) => NoShow(y)
        /\ hot /\ NoHide(posted) => NoHide(y)
        /\ hot /\ (\E i \in DOMAIN posted : Opening(posted, i)) => \E i \in DOMAIN y : Opening(y, i)
        /\ ~hot /\ NoShow(posted) => \E i \in DOMAIN y : Opening(y, i)
    BY <2>2 DEF p, opens
  <2>4. NoShow(posted)' <=> NoShow(y)
    BY <2>1
  <2>5. NoHide(posted)' <=> NoHide(y)
    BY <2>1
  <2>6. (\E i \in DOMAIN posted : Opening(posted, i))' <=> \E i \in DOMAIN y : Opening(y, i)
    BY <2>1
  <2>7. Session'
    BY <1>2, <2>1, <2>3, <2>4, <2>5, <2>6 DEF SessionInv, Session
  <2>. QED BY <1>3, <2>7 DEF SessionInv
<1>. QED BY <1>4, <1>5

\* Every step keeps it.
LEMMA NextSession == TypeInv /\ SessionInv /\ [Next]_imeVars => SessionInv'
<1>. SUFFICES ASSUME TypeInv, SessionInv, [Next]_imeVars PROVE SessionInv'
  OBVIOUS
<1>1. /\ None \in {None} \cup Words /\ AppTexts \subseteq {None} \cup Words
      /\ Notifies \subseteq BOOLEAN
  BY ImeAssumption DEF Words
<1>2. CASE Type \/ Enqueue \/ RunPosted \/ Dismiss \/ Drain
  BY <1>2, TypeSession, EnqueueSession, RunPostedSession, DismissSession, DrainSession
<1>3. CASE Frame
  BY <1>1, <1>3, ShowSession DEF Frame
<1>4. CASE EditingFrame
  <2>1. PICK t \in AppTexts, notified \in Notifies :
          Show(t, None, notified) \/ Show(None, t, notified)
    BY <1>4 DEF EditingFrame
  <2>2. t \in {None} \cup Words /\ notified \in BOOLEAN
    BY <1>1
  <2>3. CASE Show(t, None, notified)
    BY <1>1, <2>2, <2>3, ShowSession
  <2>4. CASE Show(None, t, notified)
    BY <1>1, <2>2, <2>4, ShowSession
  <2>. QED BY <2>1, <2>3, <2>4
<1>5. CASE Age \/ UNCHANGED imeVars
  <2>1. UNCHANGED <<late, queue, posted, shown, dismissed, hot, carry, preedit>>
    BY <1>5 DEF Age, imeVars, javaVars, adapterVars, bridgeVars
  <2>. QED BY <2>1 DEF SessionInv, Session, Silent, NoShow, NoHide, Opening
<1>. QED BY <1>2, <1>3, <1>4, <1>5 DEF Next

\* Once the UI thread has run what was posted, no session means no keyboard and nothing of the
\* last session left, and a session has its keyboard unless it was dismissed: a keyboard that is
\* asked for stays asked for, whatever calls, frames and dismissals fall between the threads.
THEOREM KeyboardFollowsSession == Spec => []SessionFollowsKeyboard
<1>1. Init => SessionInv
  BY DEF Init, SessionInv, Session, Silent, NoShow
<1>2. TypeInv /\ SessionInv => SessionFollowsKeyboard
  <2>. SUFFICES ASSUME TypeInv, SessionInv, posted = <<>>
                PROVE  /\ ~hot => ~shown /\ queue = <<>> /\ carry = <<>> /\ preedit = <<>>
                       /\ hot => shown # dismissed
    BY DEF SessionFollowsKeyboard
  <2>1. ~\E i \in DOMAIN posted : Opening(posted, i)
    BY EmptySeq, LenProperties DEF TypeInv, JavaOK
  <2>. QED BY <2>1 DEF SessionInv, Session, Silent
<1>. QED BY <1>1, <1>2, ImeTypes, NextSession, PTL DEF Spec
=============================================================================
