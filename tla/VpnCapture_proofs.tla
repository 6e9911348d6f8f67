------------------------- MODULE VpnCapture_proofs --------------------------
(***************************************************************************)
(* Proofs about VpnCapture, for any number of starts, of acts of the user  *)
(* and of faults.                                                          *)
(*                                                                         *)
(* That the service agrees with the app once nothing is under way follows  *)
(* from what is under way when they do not agree: a stop that is still to  *)
(* be delivered, the descriptor of the start the app waits for, or the     *)
(* callback of a stop.  The controller's operations are composed of one    *)
(* another, so the invariant is one of the controller's state c, of the    *)
(* callbacks ev that wait for it, and of whether the service has a tun.    *)
(***************************************************************************)
EXTENDS VpnCapture, TLAPS

Intent == [i : {"foreground", "stop", "stopVpn", "button"}] \cup [i : {"start"}, n : Nat]
Event  == [e : {"stopped", "failed"}] \cup [e : {"started"}, tun : Nat]
Controller ==
  [status : Statuses, pending : Nat, foreground : BOOLEAN, overdue : BOOLEAN, relay : Nat,
   error : Nat, owner : Nat, asked : Nat, proxy : {"none", "up", "failed"}, dialog : BOOLEAN,
   consent : 0..2, awaiting : BOOLEAN, crossed : BOOLEAN, tuns : SUBSET Nat,
   draining : SUBSET Nat, intents : Seq(Intent)]

\* Two controllers that differ in what no part of the invariant is about.
Like(d, c) ==
  /\ d.status = c.status /\ d.pending = c.pending /\ d.relay = c.relay /\ d.error = c.error
  /\ d.owner = c.owner /\ d.asked = c.asked /\ d.crossed = c.crossed
  /\ d.tuns = c.tuns /\ d.draining = c.draining

Start(s, k)   == k \in 1..Len(s) /\ s[k].i = "start"
Stop(s, k)    == k \in 1..Len(s) /\ s[k].i \in {"stop", "stopVpn"}
Has(ev, k, e) == k \in 1..Len(ev) /\ ev[k].e = e

\* A relay is held exactly while Running, for the tun of the error slot's session; its descriptor
\* is open, or it left a reason there.
RelayFits(c) ==
  /\ c.relay # 0 <=> c.status = "Running"
  /\ c.relay # 0 =>
       c.relay = c.owner /\ c.relay \notin c.draining /\ (c.relay \in c.tuns \/ c.error = c.relay)
  /\ c.draining \subseteq c.tuns /\ c.tuns \subseteq 1..c.asked

\* A descriptor is that of the relay, of one that drains, or of a callback, and only one of them.
TunsAreHeld(c, ev) ==
  /\ \A t \in c.tuns :
       t = c.relay \/ t \in c.draining \/ \E k : Has(ev, k, "started") /\ ev[k].tun = t
  /\ \A k : Has(ev, k, "started") =>
       ev[k].tun \in c.tuns /\ ev[k].tun # c.relay /\ ev[k].tun \notin c.draining

\* No start is sent twice.
StartsAreNew(c) ==
  /\ \A k : Start(c.intents, k) => c.intents[k].n \in (1..c.asked) \ (c.tuns \cup {c.relay})
  /\ \A k, l : Start(c.intents, k) /\ Start(c.intents, l) /\ k # l =>
       c.intents[k].n # c.intents[l].n

\* The pending start was not sent.
Unsent(c) ==
  /\ c.pending \in (0..c.asked) \ c.tuns
  /\ \A k : Start(c.intents, k) => c.intents[k].n # c.pending

PendingFits(c) ==
  /\ c.pending \in 0..c.asked
  /\ c.pending # 0 <=> c.status \in {"Requesting", "Starting"}
  /\ c.status = "Requesting" => Unsent(c)

\* A tun is announced once, and is open still, or its end is announced behind it.
EventsFit(ev, open) ==
  /\ \A k, l : Has(ev, k, "started") /\ Has(ev, l, "started") /\ k # l => ev[k].tun # ev[l].tun
  /\ \A k : Has(ev, k, "started") => open \/ \E l : l > k /\ Has(ev, l, "stopped")

\* So is that of the relay.
EndIsTold(c, ev, open) == c.status = "Running" => open \/ \E l : Has(ev, l, "stopped")

\* While no start crossed another: there is at most one that is not answered, none while Running,
\* and the others have a stop behind them.  An open tun that nobody runs a relay on has a stop
\* coming, or is that of the start which is waited for; one whose end was announced is closed.
OneStart(c, ev, open) ==
  ~c.crossed =>
    /\ \A k, l : Start(c.intents, k) /\ Start(c.intents, l) => k = l
    /\ \A k, l : Start(c.intents, k) => ~Has(ev, l, "started")
    /\ \A k, l : Has(ev, k, "started") /\ Has(ev, l, "started") => k = l
    /\ c.status = "Running" =>
         \A k : ~Start(c.intents, k) /\ ~Has(ev, k, "started") /\ (Has(ev, k, "stopped") => ~open)
    /\ \A k : Start(c.intents, k) => c.status = "Starting" \/ \E l : l > k /\ Stop(c.intents, l)
    /\ open /\ c.status # "Running" =>
         \/ \E l : Stop(c.intents, l)
         \/ c.status = "Starting" /\ \E l : Has(ev, l, "started")
    /\ \A k, l : Has(ev, k, "started") /\ Has(ev, l, "stopped") /\ k < l => ~open

\* What holds of a controller whatever start it is about to make.
Core(c, ev, open) ==
  /\ c \in Controller /\ RelayFits(c) /\ TunsAreHeld(c, ev) /\ StartsAreNew(c)
  /\ EventsFit(ev, open) /\ EndIsTold(c, ev, open) /\ OneStart(c, ev, open)

Good(c, ev, open) == Core(c, ev, open) /\ PendingFits(c)

IInv ==
  /\ Good(Now, events, tunOpen)
  /\ events \in Seq(Event)
  /\ keep \in BOOLEAN /\ granted \in BOOLEAN /\ polling \in Statuses \cup {"no"}
  /\ alive \in BOOLEAN /\ tunOpen \in BOOLEAN /\ revoked \in BOOLEAN /\ live \in Nat
  /\ tunOpen => alive

-----------------------------------------------------------------------------
(* The two queues.                                                         *)

\* t is s with i behind all that was sent.
Sent(s, t, i) ==
  /\ t \in Seq(Intent)
  /\ \A k : Start(s, k) => Start(t, k) /\ t[k] = s[k] /\ k < Len(t) /\ k # Len(t)
  /\ \A k : Start(t, k) => Start(s, k) \/ (k = Len(t) /\ i.i = "start")
  /\ \A k : Stop(s, k) => Stop(t, k)
  /\ i.i \in {"stop", "stopVpn"} => Stop(t, Len(t))
  /\ t[Len(t)] = i

\* t is s without its first; the others move up.
Delivered(s, t) ==
  /\ t \in Seq(Intent)
  /\ \A k : Start(t, k) => Start(s, k + 1) /\ t[k] = s[k + 1] /\ k \in Nat /\ k + 1 # 1
  /\ \A l : Stop(s, l) /\ l # 1 => Stop(t, l - 1) /\ l \in Nat

\* t is s with the callback e behind the others.
Told(s, t, e) ==
  /\ t \in Seq(Event)
  /\ \A k, x : Has(s, k, x) => Has(t, k, x) /\ t[k] = s[k] /\ k < Len(t) /\ k # Len(t)
  /\ \A k, x : Has(t, k, x) => Has(s, k, x) \/ (k = Len(t) /\ e.e = x)
  /\ \A k, x : Has(t, k, x) => k \in Nat /\ ~(Len(t) < k)
  /\ Has(t, Len(t), e.e) /\ t[Len(t)] = e

\* t is s without its first; the others move up.
Polled(s, t) ==
  /\ t \in Seq(Event)
  /\ \A k, x : Has(t, k, x) => Has(s, k + 1, x) /\ t[k] = s[k + 1] /\ k \in Nat /\ k + 1 > 1
  /\ \A l, x : Has(s, l, x) /\ l # 1 => Has(t, l - 1, x) /\ t[l - 1] = s[l] /\ l \in Nat

\* Sending puts an intent behind the others.
LEMMA AppendIsSent ==
  ASSUME NEW s \in Seq(Intent), NEW i \in Intent
  PROVE  Sent(s, Append(s, i), i)
<1> DEFINE t == Append(s, i)
<1>1. /\ t \in Seq(Intent) /\ Len(t) = Len(s) + 1 /\ Len(s) \in Nat /\ t[Len(t)] = i
      /\ \A k \in 1..Len(s) : t[k] = s[k]
  OBVIOUS
<1> HIDE DEF t
<1>2. ASSUME NEW k PROVE k \in 1..Len(t) <=> k \in 1..Len(s) \/ k = Len(t)
  BY <1>1
<1>3. ASSUME NEW k \in 1..Len(s) PROVE k < Len(t) /\ k # Len(t)
  BY <1>1
<1>4. Sent(s, t, i)
  BY <1>1, <1>2, <1>3 DEF Start, Stop, Sent
<1>5. QED
  BY <1>4 DEF t

\* Android delivers the first.
LEMMA TailIsDelivered ==
  ASSUME NEW s \in Seq(Intent), s # <<>>
  PROVE  Delivered(s, Tail(s)) /\ Head(s) \in Intent /\ Head(s) = s[1] /\ 1 \in 1..Len(s)
<1> DEFINE t == Tail(s)
<1>1. /\ t \in Seq(Intent) /\ Len(t) = Len(s) - 1 /\ Len(s) \in Nat /\ Len(s) >= 1
      /\ Head(s) = s[1] /\ s[1] \in Intent /\ 1 \in 1..Len(s)
  OBVIOUS
<1>2. ASSUME NEW k \in 1..Len(t)
      PROVE  t[k] = s[k + 1] /\ k + 1 \in 1..Len(s) /\ k \in Nat /\ k + 1 # 1
  BY <1>1
<1>3. ASSUME NEW l \in 1..Len(s), l # 1
      PROVE  l - 1 \in 1..Len(t) /\ t[l - 1] = s[l] /\ l \in Nat
  <2>1. l - 1 \in 1..Len(t) /\ l \in Nat /\ (l - 1) + 1 = l
    BY <1>1, <1>3
  <2>2. QED
    BY <1>2, <2>1
<1> HIDE DEF t
<1>4. Delivered(s, t)
  BY <1>1, <1>2, <1>3 DEF Start, Stop, Delivered
<1>5. QED
  BY <1>1, <1>4 DEF t

\* A callback comes behind the others.
LEMMA AppendIsTold ==
  ASSUME NEW s \in Seq(Event), NEW e \in Event
  PROVE  Told(s, Append(s, e), e)
<1> DEFINE t == Append(s, e)
<1>1. /\ t \in Seq(Event) /\ Len(t) = Len(s) + 1 /\ Len(s) \in Nat /\ t[Len(t)] = e
      /\ \A k \in 1..Len(s) : t[k] = s[k]
  OBVIOUS
<1> HIDE DEF t
<1>2. ASSUME NEW k PROVE k \in 1..Len(t) <=> k \in 1..Len(s) \/ k = Len(t)
  BY <1>1
<1>3. ASSUME NEW k \in 1..Len(s) PROVE k < Len(t) /\ k # Len(t)
  BY <1>1
<1>4. ASSUME NEW k \in 1..Len(t) PROVE k \in Nat /\ ~(Len(t) < k)
  BY <1>1
<1>5. Told(s, t, e)
  BY <1>1, <1>2, <1>3, <1>4 DEF Has, Told
<1>6. QED
  BY <1>5 DEF t

\* poll_event takes the first.
LEMMA TailIsPolled ==
  ASSUME NEW s \in Seq(Event), s # <<>>
  PROVE  Polled(s, Tail(s)) /\ Head(s) \in Event /\ Head(s) = s[1] /\ Has(s, 1, s[1].e)
<1> DEFINE t == Tail(s)
<1>1. /\ t \in Seq(Event) /\ Len(t) = Len(s) - 1 /\ Len(s) \in Nat /\ Len(s) >= 1
      /\ Head(s) = s[1] /\ s[1] \in Event /\ 1 \in 1..Len(s)
  OBVIOUS
<1>2. ASSUME NEW k \in 1..Len(t)
      PROVE  t[k] = s[k + 1] /\ k + 1 \in 1..Len(s) /\ k \in Nat /\ k + 1 > 1
  BY <1>1
<1>3. ASSUME NEW l \in 1..Len(s), l # 1
      PROVE  l - 1 \in 1..Len(t) /\ t[l - 1] = s[l] /\ l \in Nat
  <2>1. l - 1 \in 1..Len(t) /\ l \in Nat /\ (l - 1) + 1 = l
    BY <1>1, <1>3
  <2>2. QED
    BY <1>2, <2>1
<1> HIDE DEF t
<1>4. Polled(s, t)
  BY <1>1, <1>2, <1>3 DEF Has, Polled
<1>5. QED
  BY <1>1, <1>4 DEF t, Has

-----------------------------------------------------------------------------
(* What happens to a controller, in terms of what the invariant is about.  *)

\* The invariant is about these parts of the controller only.
LEMMA LikeCore ==
  ASSUME NEW c, NEW ev, NEW open, Core(c, ev, open),
         NEW d \in Controller, Like(d, c), d.intents = c.intents
  PROVE  Core(d, ev, open) /\ (PendingFits(c) => PendingFits(d))
BY DEF Like, Core, RelayFits, TunsAreHeld, StartsAreNew, EndIsTold, OneStart, PendingFits, Unsent

\* What is sent beside a start changes nothing that matters.
LEMMA SentCore ==
  ASSUME NEW c, NEW ev, NEW open, Core(c, ev, open), NEW i, i.i # "start",
         NEW d \in Controller, Like(d, c), Sent(c.intents, d.intents, i)
  PROVE  Core(d, ev, open) /\ (PendingFits(c) => PendingFits(d))
<1>1. /\ \A k : Start(d.intents, k) <=> Start(c.intents, k)
      /\ \A k : Start(c.intents, k) => d.intents[k] = c.intents[k]
      /\ \A k : Stop(c.intents, k) => Stop(d.intents, k)
  BY DEF Sent
<1>2. RelayFits(d) /\ TunsAreHeld(d, ev) /\ EndIsTold(d, ev, open)
  BY DEF Core, RelayFits, TunsAreHeld, EndIsTold, Like
<1>3. StartsAreNew(d)
  BY <1>1 DEF Core, StartsAreNew, Like
<1>4. OneStart(d, ev, open)
  BY <1>1 DEF Core, OneStart, Like
<1>5. PendingFits(c) => PendingFits(d)
  BY <1>1 DEF PendingFits, Unsent, Like
<1>6. QED
  BY <1>2, <1>3, <1>4, <1>5 DEF Core

\* A capture that ends has a stop behind every start, and its relay drains.
LEMMA EndedGood ==
  ASSUME NEW c, NEW ev, NEW open, Core(c, ev, open), NEW i, i.i \in {"stop", "stopVpn"},
         NEW d \in Controller, Sent(c.intents, d.intents, i),
         d.status \in {"Off", "Failed"}, d.pending = 0, d.relay = 0,
         d.asked = c.asked, d.crossed = c.crossed, d.tuns = c.tuns,
         d.draining = IF c.relay \in c.tuns THEN c.draining \cup {c.relay} ELSE c.draining
  PROVE  Good(d, ev, open)
<1>1. /\ \A k : Start(d.intents, k) => Start(c.intents, k) /\ d.intents[k] = c.intents[k]
      /\ \A k : Start(d.intents, k) => k < Len(d.intents)
      /\ Stop(d.intents, Len(d.intents))
  BY DEF Sent
<1>2. RelayFits(d) /\ PendingFits(d)
  BY DEF Core, RelayFits, PendingFits, Unsent, Controller
<1>3. TunsAreHeld(d, ev)
  <2>1. ASSUME NEW t \in d.tuns
        PROVE  t \in d.draining \/ \E k : Has(ev, k, "started") /\ ev[k].tun = t
    BY DEF Core, TunsAreHeld
  <2>2. ASSUME NEW k, Has(ev, k, "started")
        PROVE  ev[k].tun \in d.tuns /\ ev[k].tun # 0 /\ ev[k].tun \notin d.draining
    BY <2>2 DEF Core, TunsAreHeld, RelayFits
  <2>3. QED
    BY <2>1, <2>2 DEF Core, TunsAreHeld
<1>4. StartsAreNew(d)
  <2>1. ASSUME NEW k, Start(d.intents, k)
        PROVE  d.intents[k].n \in (1..d.asked) \ (d.tuns \cup {d.relay})
    <3>1. d.intents[k].n \in (1..c.asked) \ c.tuns
      BY <1>1, <2>1 DEF Core, StartsAreNew
    <3>2. d.intents[k].n # 0
      BY <3>1 DEF Core, Controller
    <3>3. QED
      BY <3>1, <3>2
  <2>2. QED
    BY <1>1, <2>1 DEF Core, StartsAreNew
<1>5. EndIsTold(d, ev, open)
  BY DEF EndIsTold
<1>6. OneStart(d, ev, open)
  BY <1>1 DEF Core, OneStart
<1>7. QED
  BY <1>2, <1>3, <1>4, <1>5, <1>6 DEF Good, Core

\* Polling the first keeps what holds of the others.
LEMMA PolledEvents ==
  ASSUME NEW ev, NEW t, Polled(ev, t), NEW open, EventsFit(ev, open)
  PROVE  EventsFit(t, open)
<1>1. /\ \A k, x : Has(t, k, x) => Has(ev, k + 1, x) /\ t[k] = ev[k + 1] /\ k \in Nat /\ k + 1 > 1
      /\ \A l, x : Has(ev, l, x) /\ l # 1 => Has(t, l - 1, x) /\ t[l - 1] = ev[l] /\ l \in Nat
  BY DEF Polled
<1>2. ASSUME NEW k, NEW l, Has(t, k, "started"), Has(t, l, "started"), k # l
      PROVE  t[k].tun # t[l].tun
  <2>1. k + 1 # l + 1 /\ t[k] = ev[k + 1] /\ t[l] = ev[l + 1]
        /\ Has(ev, k + 1, "started") /\ Has(ev, l + 1, "started")
    BY <1>1, <1>2
  <2>2. ev[k + 1].tun # ev[l + 1].tun
    BY <2>1 DEF EventsFit
  <2>3. QED
    BY <2>1, <2>2
<1>3. ASSUME NEW k, Has(t, k, "started"), open # TRUE
      PROVE  \E l : l > k /\ Has(t, l, "stopped")
  <2>1. k \in Nat /\ Has(ev, k + 1, "started")
    BY <1>1, <1>3
  <2>2. PICK l : l > k + 1 /\ Has(ev, l, "stopped")
    BY <1>3, <2>1 DEF EventsFit
  <2>3. l # 1 /\ l \in Nat /\ Has(t, l - 1, "stopped")
    BY <1>1, <2>1, <2>2 DEF Has
  <2>4. l - 1 > k
    BY <2>1, <2>2, <2>3
  <2>5. QED
    BY <2>3, <2>4
<1>4. QED
  BY <1>2, <1>3 DEF EventsFit

\* A callback is polled that changes nothing, or before what it does.
LEMMA PolledCore ==
  ASSUME NEW c, NEW ev \in Seq(Event), ev # <<>>, NEW open, Core(c, ev, open),
         ev[1].e = "failed" \/ (ev[1].e = "stopped" /\ c.status # "Running")
  PROVE  Core(c, Tail(ev), open)
<1> DEFINE t == Tail(ev)
<1>1. Polled(ev, t) /\ Has(ev, 1, ev[1].e)
  BY TailIsPolled
<1> HIDE DEF t
<1>2. /\ \A k, x : Has(t, k, x) => Has(ev, k + 1, x) /\ t[k] = ev[k + 1] /\ k \in Nat /\ k + 1 > 1
      /\ \A l, x : Has(ev, l, x) /\ l # 1 => Has(t, l - 1, x) /\ t[l - 1] = ev[l] /\ l \in Nat
      /\ ~Has(ev, 1, "started")
      /\ c.status = "Running" => ~Has(ev, 1, "stopped")
  BY <1>1 DEF Polled, Has
<1>3. TunsAreHeld(c, t)
  BY <1>2 DEF Core, TunsAreHeld
<1>4. EventsFit(t, open) /\ EndIsTold(c, t, open)
  <2>1. EventsFit(t, open)
    BY <1>1, PolledEvents DEF Core
  <2>2. EndIsTold(c, t, open)
    BY <1>2 DEF Core, EndIsTold
  <2>3. QED
    BY <2>1, <2>2
<1>5. OneStart(c, t, open)
  <2>1. ASSUME NEW k, NEW l, Has(t, k, "started"), Has(t, l, "stopped"), k < l
        PROVE  k + 1 < l + 1 /\ Has(ev, k + 1, "started") /\ Has(ev, l + 1, "stopped")
    BY <1>2, <2>1
  <2>2. ASSUME NEW k, NEW l, Has(t, k, "started"), Has(t, l, "started"), k # l
        PROVE  k + 1 # l + 1 /\ Has(ev, k + 1, "started") /\ Has(ev, l + 1, "started")
    BY <1>2, <2>2
  <2>3. QED
    BY <1>2, <2>1, <2>2 DEF Core, OneStart
<1>6. QED
  BY <1>3, <1>4, <1>5 DEF Core, t

\* The descriptor of the polled callback becomes that of the relay.
LEMMA AttachedGood ==
  ASSUME NEW c, NEW ev \in Seq(Event), ev # <<>>, NEW open, Good(c, ev, open),
         ev[1].e = "started", c.pending # 0,
         NEW d \in Controller, d.pending = 0, d.error = 0, d.owner = ev[1].tun,
         d.relay = ev[1].tun, d.status = "Running", d.asked = c.asked, d.crossed = c.crossed,
         d.tuns = c.tuns, d.draining = c.draining, d.intents = c.intents
  PROVE  Good(d, Tail(ev), open)
<1> DEFINE t == Tail(ev)
<1>1. Polled(ev, t) /\ Has(ev, 1, "started")
  BY TailIsPolled
<1> HIDE DEF t
<1>2. /\ \A k, x : Has(t, k, x) => Has(ev, k + 1, x) /\ t[k] = ev[k + 1] /\ k \in Nat /\ k + 1 > 1
      /\ \A l, x : Has(ev, l, x) /\ l # 1 => Has(t, l - 1, x) /\ t[l - 1] = ev[l] /\ l \in Nat
      /\ ~Has(ev, 1, "stopped")
  BY <1>1 DEF Polled, Has
<1>3. c.status \in {"Requesting", "Starting"} /\ c.relay = 0
  BY DEF Good, Core, PendingFits, RelayFits
<1>4. ev[1].tun \in c.tuns \ c.draining /\ ev[1].tun # 0
  BY <1>1 DEF Good, Core, TunsAreHeld, RelayFits, Controller
<1>5. RelayFits(d) /\ PendingFits(d)
  BY <1>4 DEF Good, Core, RelayFits, PendingFits, Unsent, Controller
<1>6. TunsAreHeld(d, t)
  <2>1. ASSUME NEW k, Has(t, k, "started")
        PROVE  t[k].tun \in d.tuns /\ t[k].tun # d.relay /\ t[k].tun \notin d.draining
    <3>1. k + 1 # 1 /\ t[k] = ev[k + 1] /\ Has(ev, k + 1, "started")
      BY <1>2, <2>1
    <3>2. ev[k + 1].tun \in c.tuns /\ ev[k + 1].tun \notin c.draining
      BY <3>1 DEF Good, Core, TunsAreHeld
    <3>3. ev[k + 1].tun # ev[1].tun
      BY <1>1, <3>1 DEF Good, Core, EventsFit
    <3>4. QED
      BY <3>1, <3>2, <3>3
  <2>2. ASSUME NEW u \in d.tuns
        PROVE  u = d.relay \/ u \in d.draining \/ \E k : Has(t, k, "started") /\ t[k].tun = u
    <3>1. CASE u \in c.draining
      BY <3>1
    <3>2. CASE u \notin c.draining
      <4>1. u # 0
        BY DEF Good, Core, RelayFits, Controller
      <4>2. PICK l : Has(ev, l, "started") /\ ev[l].tun = u
        BY <1>3, <3>2, <4>1 DEF Good, Core, TunsAreHeld
      <4>3. QED
        BY <1>2, <4>2
    <3>3. QED
      BY <3>1, <3>2
  <2>3. QED
    BY <2>1, <2>2 DEF TunsAreHeld
<1>7. StartsAreNew(d)
  BY <1>4 DEF Good, Core, StartsAreNew
<1>8. EventsFit(t, open) /\ EndIsTold(d, t, open)
  <2>1. EventsFit(t, open)
    BY <1>1, PolledEvents DEF Good, Core
  <2>2. EndIsTold(d, t, open)
    BY <1>1, <1>2 DEF Good, Core, EventsFit, EndIsTold
  <2>3. QED
    BY <2>1, <2>2
<1>9. OneStart(d, t, open)
  <2>1. SUFFICES ASSUME c.crossed # TRUE
                 PROVE  /\ \A k : ~Start(c.intents, k)
                        /\ \A k : ~Has(t, k, "started")
                        /\ \A k : Has(t, k, "stopped") => ~open
    BY DEF OneStart
  <2>2. \A k : ~Start(c.intents, k)
    BY <1>1, <2>1 DEF Good, Core, OneStart
  <2>3. ASSUME NEW k, Has(t, k, "started") PROVE FALSE
    <3>1. Has(ev, k + 1, "started") /\ k + 1 # 1
      BY <1>2, <2>3
    <3>2. QED
      BY <1>1, <2>1, <3>1 DEF Good, Core, OneStart
  <2>4. ASSUME NEW k, Has(t, k, "stopped"), open PROVE FALSE
    <3>1. Has(ev, k + 1, "stopped") /\ 1 < k + 1
      BY <1>2, <2>4
    <3>2. QED
      BY <1>1, <2>1, <2>4, <3>1 DEF Good, Core, OneStart
  <2>5. QED
    BY <2>2, <2>3, <2>4
<1>10. QED
  BY <1>5, <1>6, <1>7, <1>8, <1>9 DEF Good, Core, t

\* The descriptor of the polled callback is closed: nobody waits for it.
LEMMA DiscardedGood ==
  ASSUME NEW c, NEW ev \in Seq(Event), ev # <<>>, NEW open, Good(c, ev, open),
         ev[1].e = "started", c.pending = 0,
         NEW d \in Controller, d.tuns = c.tuns \ {ev[1].tun},
         d.status = c.status, d.pending = c.pending, d.relay = c.relay, d.error = c.error,
         d.owner = c.owner, d.asked = c.asked, d.crossed = c.crossed, d.draining = c.draining,
         d.intents = c.intents
  PROVE  Good(d, Tail(ev), open)
<1> DEFINE t == Tail(ev)
<1>1. Polled(ev, t) /\ Has(ev, 1, "started")
  BY TailIsPolled
<1> HIDE DEF t
<1>2. /\ \A k, x : Has(t, k, x) => Has(ev, k + 1, x) /\ t[k] = ev[k + 1] /\ k \in Nat /\ k + 1 > 1
      /\ \A l, x : Has(ev, l, x) /\ l # 1 => Has(t, l - 1, x) /\ t[l - 1] = ev[l] /\ l \in Nat
      /\ ~Has(ev, 1, "stopped")
  BY <1>1 DEF Polled, Has
<1>3. c.status \notin {"Requesting", "Starting"}
  BY DEF Good, PendingFits
<1>4. ev[1].tun \in c.tuns \ c.draining /\ ev[1].tun # c.relay
  BY <1>1 DEF Good, Core, TunsAreHeld
<1>5. RelayFits(d) /\ PendingFits(d)
  BY <1>3, <1>4 DEF Good, Core, RelayFits, PendingFits
<1>6. TunsAreHeld(d, t)
  <2>1. ASSUME NEW k, Has(t, k, "started")
        PROVE  t[k].tun \in d.tuns /\ t[k].tun # d.relay /\ t[k].tun \notin d.draining
    <3>1. k + 1 # 1 /\ t[k] = ev[k + 1] /\ Has(ev, k + 1, "started")
      BY <1>2, <2>1
    <3>2. ev[k + 1].tun \in c.tuns /\ ev[k + 1].tun # c.relay /\ ev[k + 1].tun \notin c.draining
      BY <3>1 DEF Good, Core, TunsAreHeld
    <3>3. ev[k + 1].tun # ev[1].tun
      BY <1>1, <3>1 DEF Good, Core, EventsFit
    <3>4. QED
      BY <3>1, <3>2, <3>3
  <2>2. ASSUME NEW u \in d.tuns
        PROVE  u = d.relay \/ u \in d.draining \/ \E k : Has(t, k, "started") /\ t[k].tun = u
    <3>1. CASE u \in c.draining \/ u = c.relay
      BY <3>1
    <3>2. CASE u \notin c.draining /\ u # c.relay
      <4>1. PICK l : Has(ev, l, "started") /\ ev[l].tun = u
        BY <3>2 DEF Good, Core, TunsAreHeld
      <4>2. QED
        BY <1>2, <4>1
    <3>3. QED
      BY <3>1, <3>2
  <2>3. QED
    BY <2>1, <2>2 DEF TunsAreHeld
<1>7. StartsAreNew(d)
  BY DEF Good, Core, StartsAreNew
<1>8. EventsFit(t, open) /\ EndIsTold(d, t, open)
  <2>1. EventsFit(t, open)
    BY <1>1, PolledEvents DEF Good, Core
  <2>2. EndIsTold(d, t, open)
    BY <1>1, <1>2 DEF Good, Core, EndIsTold
  <2>3. QED
    BY <2>1, <2>2
<1>9. OneStart(d, t, open)
  <2>1. SUFFICES ASSUME c.crossed # TRUE
                 PROVE  /\ c.status # "Running"
                        /\ \A k : ~Start(c.intents, k) /\ ~Has(t, k, "started")
                        /\ open => \E l : Stop(c.intents, l)
    BY DEF OneStart
  <2>2. c.status # "Running" /\ \A k : ~Start(c.intents, k)
    BY <1>1, <2>1 DEF Good, Core, OneStart
  <2>3. ASSUME NEW k, Has(t, k, "started") PROVE FALSE
    <3>1. Has(ev, k + 1, "started") /\ k + 1 # 1
      BY <1>2, <2>3
    <3>2. QED
      BY <1>1, <2>1, <3>1 DEF Good, Core, OneStart
  <2>4. open => \E l : Stop(c.intents, l)
    BY <1>3, <2>1, <2>2 DEF Good, Core, OneStart
  <2>5. QED
    BY <2>2, <2>3, <2>4
<1>10. QED
  BY <1>5, <1>6, <1>7, <1>8, <1>9 DEF Good, Core, t

\* A polled stop ends a capture that runs; its relay drains.
LEMMA StoppedGood ==
  ASSUME NEW c, NEW ev \in Seq(Event), ev # <<>>, NEW open, Good(c, ev, open),
         ev[1].e = "stopped", c.status = "Running",
         NEW d \in Controller, d.status = "Off", d.pending = c.pending, d.relay = 0,
         d.asked = c.asked, d.crossed = c.crossed, d.tuns = c.tuns, d.intents = c.intents,
         d.draining = IF c.relay \in c.tuns THEN c.draining \cup {c.relay} ELSE c.draining
  PROVE  Good(d, Tail(ev), open)
<1> DEFINE t == Tail(ev)
<1>1. Polled(ev, t) /\ Has(ev, 1, "stopped")
  BY TailIsPolled
<1> HIDE DEF t
<1>2. /\ \A k, x : Has(t, k, x) => Has(ev, k + 1, x) /\ t[k] = ev[k + 1] /\ k \in Nat /\ k + 1 > 1
      /\ \A l, x : Has(ev, l, x) /\ l # 1 => Has(t, l - 1, x) /\ t[l - 1] = ev[l] /\ l \in Nat
      /\ ~Has(ev, 1, "started")
  BY <1>1 DEF Polled, Has
<1>3. RelayFits(d) /\ PendingFits(d)
  BY DEF Good, Core, RelayFits, PendingFits, Unsent
<1>4. TunsAreHeld(d, t)
  <2>1. ASSUME NEW k, Has(t, k, "started")
        PROVE  t[k].tun \in d.tuns /\ t[k].tun # d.relay /\ t[k].tun \notin d.draining
    <3>1. k + 1 # 1 /\ t[k] = ev[k + 1] /\ Has(ev, k + 1, "started")
      BY <1>2, <2>1
    <3>2. ev[k + 1].tun \in c.tuns /\ ev[k + 1].tun # c.relay /\ ev[k + 1].tun \notin c.draining
      BY <3>1 DEF Good, Core, TunsAreHeld
    <3>3. ev[k + 1].tun # 0
      BY <3>2 DEF Good, Core, RelayFits, Controller
    <3>4. QED
      BY <3>1, <3>2, <3>3
  <2>2. ASSUME NEW u \in d.tuns
        PROVE  u = d.relay \/ u \in d.draining \/ \E k : Has(t, k, "started") /\ t[k].tun = u
    <3>1. CASE u \in c.draining \/ u = c.relay
      BY <3>1
    <3>2. CASE u \notin c.draining /\ u # c.relay
      <4>1. PICK l : Has(ev, l, "started") /\ ev[l].tun = u
        BY <3>2 DEF Good, Core, TunsAreHeld
      <4>2. QED
        BY <1>2, <4>1
    <3>3. QED
      BY <3>1, <3>2
  <2>3. QED
    BY <2>1, <2>2 DEF TunsAreHeld
<1>5. StartsAreNew(d)
  <2>1. ASSUME NEW k, Start(d.intents, k)
        PROVE  d.intents[k].n \in (1..d.asked) \ (d.tuns \cup {d.relay})
    <3>1. d.intents[k].n \in (1..c.asked) \ c.tuns
      BY <2>1 DEF Good, Core, StartsAreNew
    <3>2. d.intents[k].n # 0
      BY <3>1 DEF Good, Core, Controller
    <3>3. QED
      BY <3>1, <3>2
  <2>2. QED
    BY <2>1 DEF Good, Core, StartsAreNew
<1>6. EventsFit(t, open) /\ EndIsTold(d, t, open)
  <2>1. EventsFit(t, open)
    BY <1>1, PolledEvents DEF Good, Core
  <2>2. EndIsTold(d, t, open)
    BY DEF EndIsTold
  <2>3. QED
    BY <2>1, <2>2
<1>7. OneStart(d, t, open)
  <2>1. SUFFICES ASSUME c.crossed # TRUE
                 PROVE  /\ \A k : ~Start(c.intents, k) /\ ~Has(t, k, "started")
                        /\ ~open
    BY DEF OneStart
  <2>2. /\ \A k : ~Start(c.intents, k) /\ ~Has(ev, k, "started")
        /\ ~open
    BY <1>1, <2>1 DEF Good, Core, OneStart
  <2>3. QED
    BY <1>2, <2>2
<1>8. QED
  BY <1>3, <1>4, <1>5, <1>6, <1>7 DEF Good, Core, t

\* A start is sent behind what is under way, and crosses an older one if that is unanswered.
LEMMA BegunGood ==
  ASSUME NEW c, NEW open, Core(c, events, open), events \in Seq(Event),
         c.status \notin {"Starting", "Running"}, Unsent(c), c.pending # 0,
         NEW i, i.i = "start", i.n = c.pending,
         NEW d \in Controller, Sent(c.intents, d.intents, i), d.status = "Starting",
         d.crossed = (c.crossed \/ Unanswered(c)), d.pending = c.pending, d.relay = c.relay,
         d.error = c.error, d.owner = c.owner, d.asked = c.asked, d.tuns = c.tuns,
         d.draining = c.draining
  PROVE  Good(d, events, open)
<1>1. /\ \A k : Start(c.intents, k) => Start(d.intents, k) /\ d.intents[k] = c.intents[k]
      /\ \A k : Start(d.intents, k) =>
           \/ Start(c.intents, k) /\ d.intents[k] = c.intents[k]
           \/ k = Len(d.intents) /\ d.intents[k] = i
      /\ \A k : Stop(c.intents, k) => Stop(d.intents, k)
  BY DEF Sent
<1>2. c.relay = 0 /\ c.pending \in (1..c.asked) \ c.tuns
  BY DEF Core, RelayFits, Unsent, Controller
<1>3. RelayFits(d) /\ PendingFits(d)
  BY <1>2 DEF Core, RelayFits, PendingFits, Unsent
<1>4. TunsAreHeld(d, events) /\ EventsFit(events, open) /\ EndIsTold(d, events, open)
  BY DEF Core, TunsAreHeld, EndIsTold
<1>5. StartsAreNew(d)
  <2>1. ASSUME NEW k, Start(d.intents, k)
        PROVE  d.intents[k].n \in (1..d.asked) \ (d.tuns \cup {d.relay})
    <3>1. CASE Start(c.intents, k) /\ d.intents[k] = c.intents[k]
      BY <3>1 DEF Core, StartsAreNew
    <3>2. CASE d.intents[k] = i
      BY <1>2, <3>2 DEF Core, Controller
    <3>3. QED
      BY <1>1, <2>1, <3>1, <3>2
  <2>2. ASSUME NEW k, NEW l, Start(d.intents, k), Start(d.intents, l), k # l
        PROVE  d.intents[k].n # d.intents[l].n
    <3>1. CASE Start(c.intents, k) /\ Start(c.intents, l)
      <4>1. d.intents[k] = c.intents[k] /\ d.intents[l] = c.intents[l]
        BY <1>1, <3>1
      <4>2. c.intents[k].n # c.intents[l].n
        BY <2>2, <3>1 DEF Core, StartsAreNew
      <4>3. QED
        BY <4>1, <4>2
    <3>2. CASE Start(c.intents, k) /\ d.intents[l] = i
      BY <1>1, <3>2 DEF Unsent
    <3>3. CASE d.intents[k] = i /\ Start(c.intents, l)
      BY <1>1, <3>3 DEF Unsent
    <3>4. QED
      BY <1>1, <2>2, <3>1, <3>2, <3>3
  <2>3. QED
    BY <2>1, <2>2 DEF StartsAreNew
<1>6. OneStart(d, events, open)
  <2>1. SUFFICES ASSUME d.crossed # TRUE
                 PROVE  OneStart(d, events, open)
    BY DEF OneStart
  <2>2. c.crossed # TRUE /\ ~Unanswered(c)
    BY <2>1
  <2>3. \A k : ~Start(c.intents, k)
    BY <2>2 DEF Unanswered, Start, Core, Controller
  <2>4. \A k : ~Has(events, k, "started")
    BY <2>2 DEF Unanswered, Has
  <2>5. open => \E l : Stop(d.intents, l)
    BY <1>1, <2>2, <2>4 DEF Core, OneStart
  <2>6. \A k : Start(d.intents, k) => k = Len(d.intents)
    BY <1>1, <2>3
  <2>7. QED
    BY <2>4, <2>5, <2>6 DEF OneStart
<1>7. QED
  BY <1>3, <1>4, <1>5, <1>6 DEF Good, Core

\* Between Off, Requesting and Failed nothing changes that matters.
LEMMA RestedCore ==
  ASSUME NEW c, NEW ev, NEW open, Core(c, ev, open), c.status \notin {"Starting", "Running"},
         NEW d \in Controller, d.status \notin {"Starting", "Running"}, d.relay = c.relay,
         d.asked = c.asked, d.crossed = c.crossed, d.tuns = c.tuns, d.draining = c.draining,
         d.intents = c.intents
  PROVE  Core(d, ev, open)
BY DEF Core, RelayFits, TunsAreHeld, StartsAreNew, EndIsTold, OneStart

\* The number of a new start is not that of any other.
LEMMA AskedCore ==
  ASSUME NEW c, NEW ev, NEW open, Core(c, ev, open),
         NEW d \in Controller, d.asked = c.asked + 1, d.pending = c.asked + 1,
         d.status = c.status, d.relay = c.relay, d.error = c.error, d.owner = c.owner,
         d.crossed = c.crossed, d.tuns = c.tuns, d.draining = c.draining,
         d.intents = c.intents
  PROVE  Core(d, ev, open) /\ Unsent(d) /\ d.pending # 0
<1>1. c.asked \in Nat /\ \A t : t \in 1..c.asked => t \in 1..(c.asked + 1) /\ t # c.asked + 1
  BY DEF Core, Controller
<1>2. RelayFits(d)
  BY <1>1 DEF Core, RelayFits
<1>3. TunsAreHeld(d, ev) /\ EndIsTold(d, ev, open) /\ OneStart(d, ev, open)
  BY DEF Core, TunsAreHeld, EndIsTold, OneStart
<1>4. StartsAreNew(d)
  BY <1>1 DEF Core, StartsAreNew
<1>5. Unsent(d)
  <2>1. d.pending \notin d.tuns /\ \A k : Start(d.intents, k) => d.intents[k].n # d.pending
    BY <1>1 DEF Core, RelayFits, StartsAreNew
  <2>2. QED
    BY <1>1, <2>1 DEF Unsent
<1>6. QED
  BY <1>1, <1>2, <1>3, <1>4, <1>5 DEF Core

-----------------------------------------------------------------------------
(* The operations of the controller.                                       *)

\* platform::start and its like: one more intent.
LEMMA PostedFits ==
  ASSUME NEW c \in Controller, NEW i \in Intent
  PROVE  Posted(c, i) \in Controller /\ Like(Posted(c, i), c)
         /\ Sent(c.intents, Posted(c, i).intents, i)
<1> DEFINE s == Append(c.intents, i)
<1>1. Sent(c.intents, s, i)
  BY AppendIsSent DEF Controller
<1>2. s \in Seq(Intent)
  BY <1>1 DEF Sent
<1>3. Posted(c, i) = [c EXCEPT !.intents = s]
  BY DEF Posted, Controller
<1> HIDE DEF s
<1>4. [c EXCEPT !.intents = s] \in Controller
  BY <1>2 DEF Controller
<1>5. [c EXCEPT !.intents = s].intents = s
  BY DEF Controller
<1>6. Like([c EXCEPT !.intents = s], c)
  BY DEF Controller, Like
<1>7. QED
  BY <1>1, <1>3, <1>4, <1>5, <1>6

\* claim_foreground.
LEMMA KeptAliveGood ==
  ASSUME NEW c, NEW ev, NEW open, Good(c, ev, open)
  PROVE  Good(KeptAlive(c), ev, open)
<1> DEFINE d == [c EXCEPT !.foreground = TRUE]
           i == [i |-> "foreground"]
<1>1. c \in Controller /\ i \in Intent
  BY DEF Good, Core, Intent
<1>2. d \in Controller /\ d.intents = c.intents /\ Like(d, c)
  BY <1>1 DEF Controller, Like
<1>3. i.i # "start"
  OBVIOUS
<1> HIDE DEF d, i
<1>4. Good(d, ev, open)
  BY <1>2, LikeCore DEF Good
<1>5. /\ Posted(d, i) \in Controller /\ Like(Posted(d, i), d)
      /\ Sent(d.intents, Posted(d, i).intents, i)
  BY <1>1, <1>2, PostedFits
<1>6. Good(Posted(d, i), ev, open)
  BY <1>3, <1>4, <1>5, SentCore DEF Good
<1>7. QED
  BY <1>6 DEF KeptAlive, d, i

\* The relay lets its descriptor go, if that is open.
TornTuns(d, c) ==
  /\ d.relay = 0 /\ d.tuns = c.tuns
  /\ d.draining = IF c.relay \in c.tuns THEN c.draining \cup {c.relay} ELSE c.draining

\* teardown.
LEMMA TornDownFits ==
  ASSUME NEW c \in Controller
  PROVE  LET d == TornDown(c)
         IN  /\ d \in Controller /\ TornTuns(d, c)
             /\ d.status = c.status /\ d.pending = c.pending /\ d.asked = c.asked
             /\ d.crossed = c.crossed /\ d.intents = c.intents
<1> DEFINE q == IF c.relay \in c.tuns THEN c.draining \cup {c.relay} ELSE c.draining
           d == [c EXCEPT !.overdue = FALSE, !.relay = 0, !.draining = q]
<1>1. q \in SUBSET Nat
  BY DEF Controller
<1>2. TornDown(c) = d
  BY DEF TornDown, Controller
<1>3. d.draining = q
  BY DEF Controller
<1>4. /\ d.relay = 0 /\ d.tuns = c.tuns /\ d.status = c.status /\ d.pending = c.pending
      /\ d.asked = c.asked /\ d.crossed = c.crossed /\ d.intents = c.intents
  BY DEF Controller
<1> HIDE DEF q
<1>5. d \in Controller
  BY <1>1 DEF Controller
<1> USE DEF q
<1>6. QED
  BY <1>2, <1>3, <1>4, <1>5 DEF TornTuns

\* What fail, stop and shut_down have in common: the relay is torn down, and a stop is sent.
LEMMA GivenUpFits ==
  ASSUME NEW c \in Controller, NEW i \in Intent
  PROVE  LET d == Posted(TornDown([c EXCEPT !.pending = 0]), i)
         IN  /\ d \in Controller /\ d.pending = 0 /\ TornTuns(d, c)
             /\ d.asked = c.asked /\ d.crossed = c.crossed /\ Sent(c.intents, d.intents, i)
<1> DEFINE p == [c EXCEPT !.pending = 0]
           t == TornDown(p)
           d == Posted(t, i)
<1>1. p \in Controller
  BY DEF Controller
<1>2. /\ p.pending = 0 /\ p.relay = c.relay /\ p.tuns = c.tuns /\ p.draining = c.draining
      /\ p.asked = c.asked /\ p.crossed = c.crossed /\ p.intents = c.intents
  BY DEF Controller
<1> HIDE DEF p
<1>3. t \in Controller /\ TornTuns(t, p) /\ t.pending = p.pending
      /\ t.asked = p.asked /\ t.crossed = p.crossed /\ t.intents = p.intents
  BY <1>1, TornDownFits
<1> HIDE DEF t
<1>4. d \in Controller /\ Like(d, t) /\ Sent(t.intents, d.intents, i)
  BY <1>3, PostedFits
<1> HIDE DEF d
<1>5. d \in Controller /\ d.pending = 0 /\ TornTuns(d, c)
      /\ d.asked = c.asked /\ d.crossed = c.crossed /\ Sent(c.intents, d.intents, i)
  BY <1>2, <1>3, <1>4 DEF Like, TornTuns
<1>6. QED
  BY <1>5 DEF d, t, p

\* fail: also of a controller whose relay's reason was just taken.
LEMMA FailGood ==
  ASSUME NEW b, NEW ev, NEW open, Core(b, ev, open),
         NEW c \in Controller, c.relay = b.relay, c.asked = b.asked, c.crossed = b.crossed,
         c.tuns = b.tuns, c.draining = b.draining, c.intents = b.intents
  PROVE  Good(Fail(c), ev, open)
<1> DEFINE t == TornDown([c EXCEPT !.pending = 0])
           i == [i |-> IF t.foreground THEN "stopVpn" ELSE "stop"]
           d == Posted(t, i)
           e == [d EXCEPT !.status = "Failed"]
<1>1. i \in Intent /\ i.i \in {"stop", "stopVpn"}
  BY DEF Intent
<1>2. Fail(c) = e
  BY DEF Fail, Released
<1> HIDE DEF i
<1>3. /\ d \in Controller /\ d.pending = 0 /\ TornTuns(d, c)
      /\ d.asked = c.asked /\ d.crossed = c.crossed /\ Sent(c.intents, d.intents, i)
  BY <1>1, GivenUpFits
<1> HIDE DEF d
<1>4. e \in Controller /\ e.status = "Failed"
  BY <1>3 DEF Controller, Statuses
<1>5. e.pending = 0 /\ TornTuns(e, c) /\ e.asked = c.asked /\ e.crossed = c.crossed
      /\ e.intents = d.intents
  BY <1>3 DEF Controller, TornTuns
<1> HIDE DEF e
<1>6. Good(e, ev, open)
  BY <1>1, <1>3, <1>4, <1>5, EndedGood DEF TornTuns
<1>7. QED
  BY <1>2, <1>6

\* stop.
LEMMA StopCaptureGood ==
  ASSUME NEW c, NEW ev, NEW open, Core(c, ev, open)
  PROVE  Good(StopCapture(c), ev, open)
<1> DEFINE t == TornDown([c EXCEPT !.pending = 0])
           i == [i |-> IF t.foreground THEN "stopVpn" ELSE "stop"]
           d == Posted(t, i)
           e == [d EXCEPT !.status = "Off"]
<1>1. i \in Intent /\ i.i \in {"stop", "stopVpn"}
  BY DEF Intent
<1>2. StopCapture(c) = e
  BY DEF StopCapture, Released
<1> HIDE DEF i
<1>3. /\ d \in Controller /\ d.pending = 0 /\ TornTuns(d, c)
      /\ d.asked = c.asked /\ d.crossed = c.crossed /\ Sent(c.intents, d.intents, i)
  BY <1>1, GivenUpFits DEF Core
<1> HIDE DEF d
<1>4. e \in Controller /\ e.status = "Off"
  BY <1>3 DEF Controller, Statuses
<1>5. e.pending = 0 /\ TornTuns(e, c) /\ e.asked = c.asked /\ e.crossed = c.crossed
      /\ e.intents = d.intents
  BY <1>3 DEF Controller, TornTuns
<1> HIDE DEF e
<1>6. Good(e, ev, open)
  BY <1>1, <1>3, <1>4, <1>5, EndedGood DEF TornTuns
<1>7. QED
  BY <1>2, <1>6

\* shut_down.
LEMMA ShutDownGood ==
  ASSUME NEW c, NEW ev, NEW open, Core(c, ev, open)
  PROVE  Good(ShutDown(c), ev, open)
<1> DEFINE i == [i |-> "stop"]
           d == Posted(TornDown([c EXCEPT !.pending = 0]), i)
           e == [d EXCEPT !.foreground = FALSE, !.status = "Off"]
<1>1. i \in Intent /\ i.i \in {"stop", "stopVpn"}
  BY DEF Intent
<1>2. ShutDown(c) = e
  BY DEF ShutDown
<1> HIDE DEF i
<1>3. /\ d \in Controller /\ d.pending = 0 /\ TornTuns(d, c)
      /\ d.asked = c.asked /\ d.crossed = c.crossed /\ Sent(c.intents, d.intents, i)
  BY <1>1, GivenUpFits DEF Core
<1> HIDE DEF d
<1>4. e \in Controller /\ e.status = "Off"
  BY <1>3 DEF Controller, Statuses
<1>5. e.pending = 0 /\ TornTuns(e, c) /\ e.asked = c.asked /\ e.crossed = c.crossed
      /\ e.intents = d.intents
  BY <1>3 DEF Controller, TornTuns
<1> HIDE DEF e
<1>6. Good(e, ev, open)
  BY <1>1, <1>3, <1>4, <1>5, EndedGood DEF TornTuns
<1>7. QED
  BY <1>2, <1>6

\* platform::start, for a controller that waits or rests.
LEMMA BeginGood ==
  ASSUME NEW c, NEW open, Core(c, events, open), events \in Seq(Event),
         c.status \notin {"Starting", "Running"}, Unsent(c), NEW starts \in BOOLEAN
  PROVE  Good(Begin(c, starts), events, open)
<1>1. c \in Controller
  BY DEF Core
<1>2. CASE c.pending = 0
  <2> DEFINE d == [c EXCEPT !.status = "Off"]
  <2>1. d \in Controller /\ d.status = "Off" /\ d.relay = c.relay
        /\ d.error = c.error /\ d.owner = c.owner /\ d.asked = c.asked /\ d.crossed = c.crossed
        /\ d.tuns = c.tuns /\ d.draining = c.draining /\ d.intents = c.intents
    BY <1>1 DEF Controller, Statuses
  <2>2. d.pending = 0
    BY <1>1, <1>2 DEF Controller
  <2> HIDE DEF d
  <2>3. Core(d, events, open)
    BY <2>1, RestedCore
  <2>4. PendingFits(d)
    BY <1>1, <2>1, <2>2 DEF PendingFits, Controller
  <2>5. QED
    BY <1>2, <2>3, <2>4 DEF Begin, Good, d
<1>3. CASE c.pending # 0 /\ starts
  <2> DEFINE u == c.crossed \/ Unanswered(c)
             b == [c EXCEPT !.foreground = TRUE, !.status = "Starting", !.overdue = FALSE,
                            !.crossed = u]
             i == [i |-> "start", n |-> c.pending]
             d == Posted(b, i)
  <2>1. Begin(c, starts) = d
    BY <1>1, <1>3 DEF Begin, Controller
  <2>2. u \in BOOLEAN
    OBVIOUS
  <2> HIDE DEF u
  <2>3. b \in Controller
    BY <1>1, <2>2 DEF Controller, Statuses
  <2>4. /\ b.status = "Starting" /\ b.crossed = u /\ b.pending = c.pending /\ b.relay = c.relay
        /\ b.error = c.error /\ b.owner = c.owner /\ b.asked = c.asked /\ b.tuns = c.tuns
        /\ b.draining = c.draining /\ b.intents = c.intents
    BY <1>1 DEF Controller
  <2>5. i \in Intent /\ i.i = "start" /\ i.n = c.pending
    BY <1>1 DEF Intent, Controller
  <2> HIDE DEF b, i
  <2>6. d \in Controller /\ Like(d, b) /\ Sent(b.intents, d.intents, i)
    BY <2>3, <2>5, PostedFits
  <2> HIDE DEF d
  <2>7. Sent(c.intents, d.intents, i) /\ d.status = "Starting" /\ d.crossed = u
        /\ d.pending = c.pending /\ d.relay = c.relay /\ d.error = c.error /\ d.owner = c.owner
        /\ d.asked = c.asked /\ d.tuns = c.tuns /\ d.draining = c.draining
    BY <2>4, <2>6 DEF Like
  <2>8. d.crossed = (c.crossed \/ Unanswered(c))
    BY <2>7 DEF u
  <2>9. Good(d, events, open)
    BY <1>3, <2>5, <2>6, <2>7, <2>8, BegunGood
  <2>10. QED
    BY <2>1, <2>9
<1>4. CASE c.pending # 0 /\ ~starts
  <2> DEFINE d == [c EXCEPT !.pending = 0, !.status = "Failed"]
  <2>1. d \in Controller /\ d.status = "Failed" /\ d.pending = 0 /\ d.relay = c.relay
        /\ d.error = c.error /\ d.owner = c.owner /\ d.asked = c.asked /\ d.crossed = c.crossed
        /\ d.tuns = c.tuns /\ d.draining = c.draining /\ d.intents = c.intents
    BY <1>1 DEF Controller, Statuses
  <2> HIDE DEF d
  <2>2. Core(d, events, open)
    BY <2>1, RestedCore
  <2>3. PendingFits(d)
    BY <1>1, <2>1 DEF PendingFits, Controller
  <2>4. QED
    BY <1>4, <2>2, <2>3 DEF Begin, Good, d
<1>5. QED
  BY <1>2, <1>3, <1>4

\* request_consent.
LEMMA ConsentedGood ==
  ASSUME NEW c, NEW open, Core(c, events, open), events \in Seq(Event),
         c.status \notin {"Starting", "Running"}, Unsent(c), c.pending # 0,
         NEW w, w.starts \in BOOLEAN
  PROVE  Good(Consented(c, w), events, open)
<1> DEFINE b == [c EXCEPT !.awaiting = FALSE]
           d == [c EXCEPT !.awaiting = TRUE, !.dialog = TRUE, !.status = "Requesting"]
<1>1. c \in Controller
  BY DEF Core
<1>2. b \in Controller /\ Like(b, c) /\ b.intents = c.intents
  BY <1>1 DEF Controller, Like
<1>3. d \in Controller /\ d.status = "Requesting" /\ d.pending = c.pending /\ d.relay = c.relay
      /\ d.error = c.error /\ d.owner = c.owner /\ d.asked = c.asked /\ d.crossed = c.crossed
      /\ d.tuns = c.tuns /\ d.draining = c.draining /\ d.intents = c.intents
  BY <1>1 DEF Controller, Statuses
<1> HIDE DEF b, d
<1>4. Good(Begin(b, w.starts), events, open)
  <2>1. Core(b, events, open)
    BY <1>2, LikeCore
  <2>2. b.status \notin {"Starting", "Running"} /\ Unsent(b)
    BY <1>2 DEF Like, Unsent
  <2>3. QED
    BY <2>1, <2>2, BeginGood
<1>5. Good(d, events, open)
  <2>1. Core(d, events, open)
    BY <1>3, RestedCore
  <2>2. PendingFits(d)
    BY <1>3 DEF PendingFits, Unsent
  <2>3. QED
    BY <2>1, <2>2 DEF Good
<1>6. QED
  BY <1>4, <1>5 DEF Consented, b, d

\* start.
LEMMA StartCaptureGood ==
  ASSUME NEW c, NEW open, Good(c, events, open), events \in Seq(Event), NEW w \in Answers
  PROVE  Good(StartCapture(c, w), events, open)
<1> DEFINE f == [c EXCEPT !.status = "Failed"]
           n == c.asked + 1
           d == [c EXCEPT !.asked = n, !.pending = n]
<1>1. c \in Controller /\ w.starts \in BOOLEAN
  <2>1. w = Fine \/ w = [Fine EXCEPT !.blocked = TRUE] \/ w = [Fine EXCEPT !.shows = FALSE]
        \/ w = [Fine EXCEPT !.starts = FALSE]
    BY DEF Answers
  <2>2. w.starts \in BOOLEAN
    <3>1. CASE w = Fine
      BY <3>1 DEF Fine
    <3>2. CASE w = [Fine EXCEPT !.blocked = TRUE]
      BY <3>2 DEF Fine
    <3>3. CASE w = [Fine EXCEPT !.shows = FALSE]
      BY <3>3 DEF Fine
    <3>4. CASE w = [Fine EXCEPT !.starts = FALSE]
      BY <3>4 DEF Fine
    <3>5. QED
      BY <2>1, <3>1, <3>2, <3>3, <3>4
  <2>3. QED
    BY <2>2 DEF Good, Core
<1>2. CASE IsOn(c.status)
  BY <1>2 DEF StartCapture
<1>3. CASE ~IsOn(c.status)
  <2>1. c.status \in {"Off", "Failed"} /\ c.pending = 0
    BY <1>1, <1>3 DEF IsOn, Controller, Statuses, Good, PendingFits
  <2>2. f \in Controller /\ f.status = "Failed" /\ f.pending = 0 /\ f.relay = c.relay
        /\ f.error = c.error /\ f.owner = c.owner /\ f.asked = c.asked /\ f.crossed = c.crossed
        /\ f.tuns = c.tuns /\ f.draining = c.draining /\ f.intents = c.intents
    BY <1>1, <2>1 DEF Controller, Statuses
  <2>3. d \in Controller /\ d.status = c.status /\ d.pending = n /\ d.relay = c.relay
        /\ d.error = c.error /\ d.owner = c.owner /\ d.asked = n
        /\ d.crossed = c.crossed /\ d.tuns = c.tuns /\ d.draining = c.draining
        /\ d.intents = c.intents
    <3>1. n \in Nat
      BY <1>1 DEF Controller
    <3> HIDE DEF n
    <3>2. d \in Controller
      BY <1>1, <3>1 DEF Controller
    <3>3. QED
      BY <1>1, <3>2 DEF Controller
  <2>4. StartCapture(c, w) = IF w.blocked THEN f ELSE Consented(d, w)
    BY <1>1, <1>3 DEF StartCapture, Controller
  <2> HIDE DEF d, f
  <2>5. Good(f, events, open)
    <3>1. Core(f, events, open)
      BY <2>1, <2>2, RestedCore DEF Good
    <3>2. PendingFits(f)
      BY <2>2 DEF PendingFits, Controller
    <3>3. QED
      BY <3>1, <3>2 DEF Good
  <2>6. Good(Consented(d, w), events, open)
    <3>1. Core(d, events, open) /\ Unsent(d) /\ d.pending # 0
      BY <2>3, AskedCore DEF Good
    <3>2. d.status \notin {"Starting", "Running"}
      BY <2>1, <2>3
    <3>3. QED
      BY <1>1, <3>1, <3>2, ConsentedGood
  <2>7. QED
    BY <2>4, <2>5, <2>6
<1>4. QED
  BY <1>2, <1>3

-----------------------------------------------------------------------------
(* The app around it.                                                      *)

\* Loaded::start: the proxy comes up.
LEMMA StartProxyGood ==
  ASSUME NEW c, NEW ev, NEW open, Good(c, ev, open)
  PROVE  Good(StartProxy(c), ev, open)
<1> DEFINE d == [c EXCEPT !.proxy = "up"]
<1>1. c \in Controller
  BY DEF Good, Core
<1>2. d \in Controller /\ Like(d, c) /\ d.intents = c.intents
  BY <1>1 DEF Controller, Like
<1> HIDE DEF d
<1>3. Good(d, ev, open)
  BY <1>2, LikeCore DEF Good
<1>4. Good(KeptAlive(d), ev, open)
  BY <1>3, KeptAliveGood
<1>5. QED
  BY <1>3, <1>4 DEF StartProxy, d

\* Loaded::stop: the proxy goes down, and the capture with it.
LEMMA StopProxyGood ==
  ASSUME NEW c, NEW ev, NEW open, Good(c, ev, open)
  PROVE  Good(StopProxy(c), ev, open)
<1> DEFINE d == [c EXCEPT !.proxy = "none"]
<1>1. c \in Controller
  BY DEF Good, Core
<1>2. d \in Controller /\ Like(d, c) /\ d.intents = c.intents
  BY <1>1 DEF Controller, Like
<1> HIDE DEF d
<1>3. Core(d, ev, open)
  BY <1>2, LikeCore DEF Good
<1>4. QED
  BY <1>3, ShutDownGood DEF StopProxy, d

-----------------------------------------------------------------------------
(* What a frame polls.                                                     *)

\* poll_failed_proxy.
LEMMA ProxyCheckedGood ==
  ASSUME NEW c, NEW ev, NEW open, Good(c, ev, open)
  PROVE  Good(ProxyChecked(c), ev, open)
BY FailGood DEF ProxyChecked, Good, Core

\* The answer to the consent dialog.
LEMMA ConsentPolledGood ==
  ASSUME NEW c, NEW open, Good(c, events, open), events \in Seq(Event), NEW starts \in BOOLEAN
  PROVE  Good(ConsentPolled(c, starts), events, open)
<1> DEFINE t == [c EXCEPT !.consent = 0, !.awaiting = FALSE]
           d == [t EXCEPT !.pending = 0, !.status = "Failed"]
<1>1. c \in Controller
  BY DEF Good, Core
<1>2. t \in Controller /\ Like(t, c) /\ t.intents = c.intents
  <2>1. 0 \in 0..2
    OBVIOUS
  <2>2. t \in Controller
    BY <1>1, <2>1 DEF Controller
  <2>3. QED
    BY <1>1, <2>2 DEF Controller, Like
<1>3. CASE c.status = "Requesting"
  <2> HIDE DEF t
  <2>1. Core(t, events, open) /\ t.status = "Requesting" /\ Unsent(t)
    BY <1>2, <1>3, LikeCore DEF Good, PendingFits, Unsent, Like
  <2>2. Good(Begin(t, starts), events, open)
    BY <2>1, BeginGood
  <2>3. d \in Controller /\ d.status = "Failed" /\ d.pending = 0 /\ d.relay = t.relay
        /\ d.error = t.error /\ d.owner = t.owner /\ d.asked = t.asked /\ d.crossed = t.crossed
        /\ d.tuns = t.tuns /\ d.draining = t.draining /\ d.intents = t.intents
    BY <1>2 DEF Controller, Statuses
  <2> HIDE DEF d
  <2>4. Core(d, events, open)
    BY <2>1, <2>3, RestedCore
  <2>5. PendingFits(d)
    BY <2>3 DEF PendingFits, Controller
  <2>6. QED
    BY <2>2, <2>4, <2>5 DEF ConsentPolled, Good, t, d
<1>4. CASE c.status # "Requesting"
  BY <1>4 DEF ConsentPolled
<1>5. QED
  BY <1>3, <1>4

\* poll_event and what the callback does.
LEMMA CallbackGood ==
  ASSUME NEW c, NEW ev \in Seq(Event), ev # <<>>, NEW open, Good(c, ev, open)
  PROVE  Good(Callback(c, Head(ev)), Tail(ev), open)
<1>1. c \in Controller /\ Head(ev) = ev[1] /\ ev[1] \in Event
  BY TailIsPolled DEF Good, Core
<1>2. CASE ev[1].e = "started" /\ c.pending = 0
  <2> DEFINE q == c.tuns \ {ev[1].tun}
             d == [c EXCEPT !.tuns = q]
  <2>1. q \in SUBSET Nat
    BY <1>1 DEF Controller
  <2>2. Callback(c, ev[1]) = d
    BY <1>1, <1>2 DEF Callback, Attach, Controller
  <2> HIDE DEF q
  <2>3. d \in Controller /\ d.tuns = q /\ d.status = c.status /\ d.pending = c.pending
        /\ d.relay = c.relay /\ d.error = c.error /\ d.owner = c.owner /\ d.asked = c.asked
        /\ d.crossed = c.crossed /\ d.draining = c.draining /\ d.intents = c.intents
    BY <1>1, <2>1 DEF Controller
  <2> HIDE DEF d
  <2>4. Good(d, Tail(ev), open)
    BY <1>2, <2>3, DiscardedGood DEF q
  <2>5. QED
    BY <1>1, <2>2, <2>4
<1>3. CASE ev[1].e = "started" /\ c.pending # 0
  <2> DEFINE t == ev[1].tun
             d == [c EXCEPT !.pending = 0, !.error = 0, !.owner = t, !.relay = t,
                            !.status = "Running", !.overdue = FALSE]
  <2>1. t \in Nat
    BY <1>1, <1>3 DEF Event
  <2>2. Callback(c, ev[1]) = d
    BY <1>3 DEF Callback, Attach
  <2> HIDE DEF t
  <2>3. d \in Controller
    BY <1>1, <2>1 DEF Controller, Statuses
  <2>4. d.pending = 0 /\ d.error = 0 /\ d.owner = t /\ d.relay = t /\ d.status = "Running"
        /\ d.asked = c.asked /\ d.crossed = c.crossed /\ d.tuns = c.tuns
        /\ d.draining = c.draining /\ d.intents = c.intents
    BY <1>1 DEF Controller
  <2> HIDE DEF d
  <2>5. Good(d, Tail(ev), open)
    BY <1>3, <2>3, <2>4, AttachedGood DEF t
  <2>6. QED
    BY <1>1, <2>2, <2>5
<1>4. CASE ev[1].e = "stopped" /\ c.status = "Running"
  <2> DEFINE t == TornDown(c)
             d == [t EXCEPT !.status = "Off", !.foreground = FALSE]
  <2>1. Callback(c, ev[1]) = d
    BY <1>4 DEF Callback
  <2>2. t \in Controller /\ TornTuns(t, c) /\ t.pending = c.pending
        /\ t.asked = c.asked /\ t.crossed = c.crossed /\ t.intents = c.intents
    BY <1>1, TornDownFits
  <2> HIDE DEF t
  <2>3. d \in Controller
    BY <2>2 DEF Controller, Statuses
  <2>4. d.status = "Off" /\ d.pending = t.pending /\ d.relay = t.relay /\ d.asked = t.asked
        /\ d.crossed = t.crossed /\ d.tuns = t.tuns /\ d.intents = t.intents
        /\ d.draining = t.draining
    BY <2>2 DEF Controller
  <2> HIDE DEF d
  <2>5. Good(d, Tail(ev), open)
    BY <1>4, <2>2, <2>3, <2>4, StoppedGood DEF TornTuns
  <2>6. QED
    BY <1>1, <2>1, <2>5
<1>5. CASE ev[1].e = "stopped" /\ c.status # "Running"
  <2>1. Good(c, Tail(ev), open)
    BY <1>5, PolledCore DEF Good
  <2>2. QED
    BY <1>1, <1>5, <2>1 DEF Callback
<1>6. CASE ev[1].e = "failed"
  <2>1. Core(c, Tail(ev), open)
    BY <1>6, PolledCore DEF Good
  <2>2. Good(Fail(c), Tail(ev), open)
    BY <1>1, <2>1, FailGood
  <2>3. QED
    BY <1>1, <1>6, <2>2 DEF Callback
<1>7. QED
  BY <1>1, <1>2, <1>3, <1>4, <1>5, <1>6 DEF Event

\* The reason the relay left.
LEMMA RelayCheckedGood ==
  ASSUME NEW c, NEW ev, NEW open, Good(c, ev, open)
  PROVE  Good(RelayChecked(c), ev, open)
<1> DEFINE d == [c EXCEPT !.error = 0]
<1>1. c \in Controller
  BY DEF Good, Core
<1>2. d \in Controller /\ d.error = 0
  BY <1>1 DEF Controller
<1>3. d.status = c.status /\ d.pending = c.pending /\ d.relay = c.relay /\ d.owner = c.owner
      /\ d.asked = c.asked /\ d.crossed = c.crossed /\ d.tuns = c.tuns
      /\ d.draining = c.draining /\ d.intents = c.intents
  BY <1>1 DEF Controller
<1> HIDE DEF d
<1>4. Good(Fail(d), ev, open)
  BY <1>2, <1>3, FailGood DEF Good
<1>5. CASE c.error = 0
  <2>1. Good(d, ev, open)
    BY <1>2, <1>3, <1>5, LikeCore DEF Good, Like
  <2>2. QED
    BY <1>4, <2>1 DEF RelayChecked, d
<1>6. CASE c.error # 0 /\ IsOn(c.status)
  BY <1>4, <1>6 DEF RelayChecked, d
<1>7. CASE ~IsOn(c.status)
  <2>1. Core(d, ev, open)
    BY <1>2, <1>3, <1>7, RestedCore DEF Good, IsOn
  <2>2. PendingFits(d)
    BY <1>3, <1>7 DEF Good, PendingFits, Unsent
  <2>3. QED
    BY <1>7, <2>1, <2>2 DEF RelayChecked, Good, d
<1>8. QED
  BY <1>5, <1>6, <1>7

\* The deadline of a start.
LEMMA DeadlineCheckedGood ==
  ASSUME NEW c, NEW ev, NEW open, Good(c, ev, open)
  PROVE  Good(DeadlineChecked(c), ev, open)
BY FailGood DEF DeadlineChecked, Good, Core

\* sync_keep_alive.
LEMMA ClaimedGood ==
  ASSUME NEW c, NEW ev, NEW open, Good(c, ev, open), NEW before
  PROVE  Good(Claimed(c, before), ev, open)
BY KeptAliveGood DEF Claimed

-----------------------------------------------------------------------------
(* What the service does to it.                                            *)

\* A command is delivered; if it is a stop, the tun is closed or another stop is behind it.
LEMMA DroppedCore ==
  ASSUME NEW c, NEW ev, NEW open, Core(c, ev, open),
         NEW d \in Controller, Like(d, c), Delivered(c.intents, d.intents),
         open => ~Stop(c.intents, 1) \/ \E l : l # 1 /\ Stop(c.intents, l)
  PROVE  Core(d, ev, open) /\ (PendingFits(c) => PendingFits(d))
<1>1. /\ \A k : Start(d.intents, k) =>
           Start(c.intents, k + 1) /\ d.intents[k] = c.intents[k + 1] /\ k \in Nat /\ k + 1 # 1
      /\ \A l : Stop(c.intents, l) /\ l # 1 => Stop(d.intents, l - 1) /\ l \in Nat
  BY DEF Delivered
<1>2. RelayFits(d) /\ TunsAreHeld(d, ev) /\ EndIsTold(d, ev, open)
  BY DEF Core, RelayFits, TunsAreHeld, EndIsTold, Like
<1>3. ASSUME NEW k, NEW l, Start(d.intents, k), Start(d.intents, l), k # l
      PROVE  k + 1 # l + 1
  BY <1>1, <1>3
<1>4. StartsAreNew(d)
  <2>1. ASSUME NEW k, Start(d.intents, k)
        PROVE  d.intents[k].n \in (1..d.asked) \ (d.tuns \cup {d.relay})
    BY <1>1, <2>1 DEF Core, StartsAreNew, Like
  <2>2. ASSUME NEW k, NEW l, Start(d.intents, k), Start(d.intents, l), k # l
        PROVE  d.intents[k].n # d.intents[l].n
    <3>1. d.intents[k] = c.intents[k + 1] /\ d.intents[l] = c.intents[l + 1] /\ k + 1 # l + 1
          /\ Start(c.intents, k + 1) /\ Start(c.intents, l + 1)
      BY <1>1, <1>3, <2>2
    <3>2. c.intents[k + 1].n # c.intents[l + 1].n
      BY <3>1 DEF Core, StartsAreNew
    <3>3. QED
      BY <3>1, <3>2
  <2>3. QED
    BY <2>1, <2>2 DEF StartsAreNew
<1>5. OneStart(d, ev, open)
  <2>1. SUFFICES ASSUME c.crossed # TRUE
                 PROVE  OneStart(d, ev, open)
    BY DEF OneStart, Like
  <2>2. ASSUME NEW k, Start(d.intents, k), d.status # "Starting"
        PROVE  \E l : l > k /\ Stop(d.intents, l)
    <3>1. PICK l : l > k + 1 /\ Stop(c.intents, l)
      BY <1>1, <2>1, <2>2 DEF Core, OneStart, Like
    <3>2. k \in Nat /\ l \in Nat
      BY <1>1, <2>2, <3>1 DEF Stop, Core, Controller
    <3>3. l # 1 /\ l - 1 > k
      BY <3>1, <3>2
    <3>4. QED
      BY <1>1, <3>1, <3>3
  <2>3. ASSUME NEW k, NEW l, Start(d.intents, k), Start(d.intents, l) PROVE k = l
    BY <1>1, <1>3, <2>1, <2>3 DEF Core, OneStart
  <2>4. ASSUME open, d.status # "Running"
        PROVE  \/ \E l : Stop(d.intents, l)
               \/ d.status = "Starting" /\ \E l : Has(ev, l, "started")
    BY <1>1, <2>1, <2>4 DEF Core, OneStart, Like
  <2>5. /\ \A k, l : Start(d.intents, k) => ~Has(ev, l, "started")
        /\ \A k, l : Has(ev, k, "started") /\ Has(ev, l, "started") => k = l
        /\ d.status = "Running" =>
             \A k : ~Start(d.intents, k) /\ ~Has(ev, k, "started")
                    /\ (Has(ev, k, "stopped") => ~open)
        /\ \A k, l : Has(ev, k, "started") /\ Has(ev, l, "stopped") /\ k < l => ~open
    BY <1>1, <2>1 DEF Core, OneStart, Like
  <2>6. QED
    BY <2>2, <2>3, <2>4, <2>5 DEF OneStart
<1>6. PendingFits(c) => PendingFits(d)
  BY <1>1 DEF PendingFits, Unsent, Like
<1>7. QED
  BY <1>2, <1>4, <1>5, <1>6 DEF Core

\* A failure is announced.
LEMMA FailureToldCore ==
  ASSUME NEW c, NEW ev, NEW open, Core(c, ev, open),
         NEW e, e.e = "failed", NEW t, Told(ev, t, e)
  PROVE  Core(c, t, open)
<1>1. /\ \A k : Has(t, k, "started") => Has(ev, k, "started")
      /\ \A k : Has(t, k, "stopped") => Has(ev, k, "stopped")
      /\ \A k, x : Has(ev, k, x) => Has(t, k, x) /\ t[k] = ev[k]
  BY DEF Told
<1>2. TunsAreHeld(c, t)
  BY <1>1 DEF Core, TunsAreHeld
<1>3. EventsFit(t, open)
  BY <1>1 DEF Core, EventsFit
<1>4. EndIsTold(c, t, open) /\ OneStart(c, t, open)
  BY <1>1 DEF Core, EndIsTold, OneStart
<1>5. QED
  BY <1>2, <1>3, <1>4 DEF Core

\* The tun is closed, and that is announced.
LEMMA StopToldCore ==
  ASSUME NEW c, NEW ev, NEW open, Core(c, ev, open),
         NEW e, e.e = "stopped", NEW t, Told(ev, t, e)
  PROVE  Core(c, t, FALSE)
<1>1. /\ \A k : Has(t, k, "started") => Has(ev, k, "started") /\ Len(t) > k
      /\ Has(t, Len(t), "stopped")
      /\ \A k, x : Has(ev, k, x) => Has(t, k, x) /\ t[k] = ev[k]
  BY DEF Told
<1>2. TunsAreHeld(c, t)
  BY <1>1 DEF Core, TunsAreHeld
<1>3. EventsFit(t, FALSE)
  BY <1>1 DEF Core, EventsFit
<1>4. EndIsTold(c, t, FALSE) /\ OneStart(c, t, FALSE)
  BY <1>1 DEF Core, EndIsTold, OneStart
<1>5. QED
  BY <1>2, <1>3, <1>4 DEF Core

\* A start is delivered: its tun is announced.
LEMMA EstablishedCore ==
  ASSUME NEW c, NEW ev, Core(c, ev, FALSE), Start(c.intents, 1),
         NEW n, n = c.intents[1].n, NEW e, e.e = "started", e.tun = n, NEW t, Told(ev, t, e),
         NEW d \in Controller, Delivered(c.intents, d.intents), d.tuns = c.tuns \cup {n},
         d.status = c.status, d.pending = c.pending, d.relay = c.relay, d.error = c.error,
         d.owner = c.owner, d.asked = c.asked, d.crossed = c.crossed, d.draining = c.draining
  PROVE  Core(d, t, TRUE) /\ (PendingFits(c) => PendingFits(d))
<1>1. /\ \A k : Start(d.intents, k) =>
           Start(c.intents, k + 1) /\ d.intents[k] = c.intents[k + 1] /\ k \in Nat /\ k + 1 # 1
      /\ \A l : Stop(c.intents, l) /\ l # 1 => Stop(d.intents, l - 1) /\ l \in Nat
  BY DEF Delivered
<1>2. /\ \A k, x : Has(ev, k, x) => Has(t, k, x) /\ t[k] = ev[k] /\ k # Len(t)
      /\ \A k : Has(t, k, "started") => Has(ev, k, "started") \/ k = Len(t)
      /\ \A k : Has(t, k, "stopped") => Has(ev, k, "stopped") /\ ~(Len(t) < k)
      /\ Has(t, Len(t), "started") /\ t[Len(t)] = e
  BY DEF Told
<1>3. n \in (1..c.asked) \ (c.tuns \cup {c.relay}) /\ n \notin c.draining
  BY DEF Core, StartsAreNew, RelayFits
<1>4. RelayFits(d)
  BY <1>3 DEF Core, RelayFits
<1>5. TunsAreHeld(d, t)
  <2>1. ASSUME NEW u \in d.tuns
        PROVE  u = d.relay \/ u \in d.draining \/ \E k : Has(t, k, "started") /\ t[k].tun = u
    <3>1. CASE u = n
      BY <1>2, <3>1
    <3>2. CASE u \in c.tuns
      BY <1>2, <3>2 DEF Core, TunsAreHeld
    <3>3. QED
      BY <3>1, <3>2
  <2>2. ASSUME NEW k, Has(t, k, "started")
        PROVE  t[k].tun \in d.tuns /\ t[k].tun # d.relay /\ t[k].tun \notin d.draining
    <3>1. CASE Has(ev, k, "started")
      BY <1>2, <3>1 DEF Core, TunsAreHeld
    <3>2. CASE k = Len(t)
      BY <1>2, <1>3, <3>2
    <3>3. QED
      BY <1>2, <2>2, <3>1, <3>2
  <2>3. QED
    BY <2>1, <2>2 DEF TunsAreHeld
<1>6. EventsFit(t, TRUE)
  <2>1. ASSUME NEW k, Has(ev, k, "started") PROVE t[k].tun # n /\ t[k] = ev[k]
    BY <1>2, <1>3, <2>1 DEF Core, TunsAreHeld
  <2>2. ASSUME NEW k, NEW l, Has(t, k, "started"), Has(t, l, "started"), k # l
        PROVE  t[k].tun # t[l].tun
    <3>1. CASE Has(ev, k, "started") /\ Has(ev, l, "started")
      BY <2>1, <2>2, <3>1 DEF Core, EventsFit
    <3>2. CASE k = Len(t) \/ l = Len(t)
      BY <1>2, <2>1, <2>2, <3>2
    <3>3. QED
      BY <1>2, <2>2, <3>1, <3>2
  <2>3. QED
    BY <2>2 DEF EventsFit
<1>7. StartsAreNew(d)
  <2>1. ASSUME NEW k, Start(d.intents, k)
        PROVE  d.intents[k].n \in (1..d.asked) \ (d.tuns \cup {d.relay})
    <3>1. d.intents[k] = c.intents[k + 1] /\ Start(c.intents, k + 1) /\ k + 1 # 1
      BY <1>1, <2>1
    <3>2. c.intents[k + 1].n \in (1..c.asked) \ (c.tuns \cup {c.relay})
          /\ c.intents[k + 1].n # n
      BY <3>1 DEF Core, StartsAreNew
    <3>3. QED
      BY <3>1, <3>2
  <2>2. ASSUME NEW k, NEW l, Start(d.intents, k), Start(d.intents, l), k # l
        PROVE  d.intents[k].n # d.intents[l].n
    <3>1. d.intents[k] = c.intents[k + 1] /\ d.intents[l] = c.intents[l + 1] /\ k + 1 # l + 1
          /\ Start(c.intents, k + 1) /\ Start(c.intents, l + 1)
      BY <1>1, <2>2
    <3>2. c.intents[k + 1].n # c.intents[l + 1].n
      BY <3>1 DEF Core, StartsAreNew
    <3>3. QED
      BY <3>1, <3>2
  <2>3. QED
    BY <2>1, <2>2 DEF StartsAreNew
<1>8. OneStart(d, t, TRUE)
  <2>1. SUFFICES ASSUME c.crossed # TRUE
                 PROVE  OneStart(d, t, TRUE)
    BY DEF OneStart
  <2>2. c.status # "Running" /\ \A k : ~Has(ev, k, "started")
    BY <2>1 DEF Core, OneStart
  <2>3. ASSUME NEW k, Start(d.intents, k) PROVE FALSE
    BY <1>1, <2>1, <2>3 DEF Core, OneStart
  <2>4. c.status = "Starting" \/ \E l : Stop(d.intents, l)
    <3>1. CASE c.status # "Starting"
      <4>1. PICK l : l > 1 /\ Stop(c.intents, l)
        BY <2>1, <3>1 DEF Core, OneStart
      <4>2. QED
        BY <1>1, <4>1
    <3>2. QED
      BY <3>1
  <2>5. \A k : Has(t, k, "started") => k = Len(t)
    BY <1>2, <2>2
  <2>6. QED
    BY <1>2, <2>2, <2>3, <2>4, <2>5 DEF OneStart
<1>9. PendingFits(c) => PendingFits(d)
  <2>1. ASSUME c.status = "Requesting", Unsent(c) PROVE Unsent(d)
    BY <1>1, <2>1 DEF Unsent
  <2>2. QED
    BY <2>1 DEF PendingFits
<1>10. QED
  BY <1>4, <1>5, <1>6, <1>7, <1>8, <1>9 DEF Core, EndIsTold

\* A relay ends and closes its descriptor; it may leave a reason if it is that of the session.
LEMMA RelayGoneGood ==
  ASSUME NEW c, NEW ev, NEW open, Good(c, ev, open), NEW t \in c.tuns,
         t \in c.draining \/ t = c.relay,
         NEW d \in Controller, d.tuns = c.tuns \ {t}, d.draining = c.draining \ {t},
         t \in c.draining \/ d.error = t, d.error = c.error \/ t = c.owner,
         d.status = c.status, d.pending = c.pending, d.relay = c.relay,
         d.owner = c.owner, d.asked = c.asked, d.crossed = c.crossed, d.intents = c.intents
  PROVE  Good(d, ev, open)
<1>1. c.relay # 0 => c.relay = c.owner /\ c.relay \notin c.draining
  BY DEF Good, Core, RelayFits
<1>2. t # 0
  BY DEF Good, Core, RelayFits, Controller
<1>3. RelayFits(d)
  BY <1>1 DEF Good, Core, RelayFits
<1>4. TunsAreHeld(d, ev)
  BY DEF Good, Core, TunsAreHeld
<1>5. StartsAreNew(d) /\ EndIsTold(d, ev, open) /\ OneStart(d, ev, open)
  BY DEF Good, Core, StartsAreNew, EndIsTold, OneStart
<1>6. PendingFits(d)
  BY DEF Good, PendingFits, Unsent
<1>7. QED
  BY <1>3, <1>4, <1>5, <1>6 DEF Good, Core

\* A command that is no stop of an open tun is delivered.
LEMMA ServedCore ==
  ASSUME NEW c, NEW ev, NEW open, Core(c, ev, open), c.intents # <<>>,
         NEW d \in Controller, Like(d, c), d.intents = Tail(c.intents),
         open => Head(c.intents).i \notin {"stop", "stopVpn"}
  PROVE  Core(d, ev, open) /\ (PendingFits(c) => PendingFits(d))
<1> DEFINE s == c.intents
<1>1. s \in Seq(Intent) /\ s # <<>>
  BY DEF Core, Controller
<1> HIDE DEF s
<1>2. Delivered(s, Tail(s)) /\ Head(s) = s[1]
  BY <1>1, TailIsDelivered
<1> USE DEF s
<1>3. Delivered(c.intents, d.intents) /\ (open => ~Stop(c.intents, 1))
  BY <1>2 DEF Stop
<1>4. QED
  BY <1>3, DroppedCore

\* A command is delivered, and the service sends itself a stop.
LEMMA RequeuedCore ==
  ASSUME NEW c, NEW ev, NEW open, Core(c, ev, open), c.intents # <<>>,
         NEW i \in Intent, i.i = "stop",
         NEW d \in Controller, Like(d, c), d.intents = Append(Tail(c.intents), i)
  PROVE  Core(d, ev, open) /\ (PendingFits(c) => PendingFits(d))
<1> DEFINE s == c.intents
           b == Posted(c, i)
           t == b.intents
<1>1. s \in Seq(Intent) /\ s # <<>> /\ c \in Controller
  BY DEF Core, Controller
<1>2. b \in Controller /\ Like(b, c) /\ Sent(c.intents, t, i)
  BY <1>1, PostedFits
<1>3. t = Append(s, i)
  BY <1>1 DEF Posted, Controller
<1>4. t # <<>> /\ Len(t) # 1 /\ Tail(t) = Append(Tail(s), i)
  <2> HIDE DEF s, t
  <2>1. Len(s) \in Nat /\ Len(s) >= 1 /\ Len(t) = Len(s) + 1 /\ t # <<>>
    BY <1>1, <1>3
  <2>2. Tail(t) = Append(Tail(s), i)
    BY <1>1, <1>3
  <2>3. QED
    BY <2>1, <2>2
<1> HIDE DEF b
<1>5. Core(b, ev, open) /\ (PendingFits(c) => PendingFits(b))
  BY <1>2, SentCore
<1>6. Stop(t, Len(t)) /\ t \in Seq(Intent)
  BY <1>2 DEF Sent
<1>7. Delivered(t, d.intents)
  BY <1>4, <1>6, TailIsDelivered
<1>8. Like(d, b)
  BY <1>2 DEF Like
<1>9. QED
  BY <1>4, <1>5, <1>6, <1>7, <1>8, DroppedCore

-----------------------------------------------------------------------------
(* The steps.                                                              *)

\* closeTun.
LEMMA CloseTunCore ==
  ASSUME NEW STATE c, Core(c, events, tunOpen), events \in Seq(Event), tunOpen \in BOOLEAN, CloseTun
  PROVE  Core(c, events', tunOpen') /\ events' \in Seq(Event) /\ tunOpen' = FALSE
<1>1. Stopped \in Event /\ Stopped.e = "stopped"
  BY DEF Event, Stopped
<1>2. CASE tunOpen
  <2>1. events' = Append(events, Stopped)
    BY <1>2 DEF CloseTun
  <2>2. Told(events, events', Stopped)
    BY <1>1, <2>1, AppendIsTold
  <2>3. Core(c, events', FALSE) /\ events' \in Seq(Event)
    BY <1>1, <2>2, StopToldCore DEF Told
  <2>4. QED
    BY <2>3 DEF CloseTun
<1>3. CASE ~tunOpen
  <2>1. events' = events
    <3>1. events \o <<>> = events
      OBVIOUS
    <3>2. QED
      BY <1>3, <3>1 DEF CloseTun
  <2>2. tunOpen = FALSE /\ tunOpen' = FALSE
    BY <1>3 DEF CloseTun
  <2>3. Core(c, events', tunOpen')
    BY <2>1, <2>2
  <2>4. QED
    BY <2>1, <2>2, <2>3
<1>4. QED
  BY <1>2, <1>3

\* An operation of the controller keeps the invariant if its outcome does.
LEMMA BecomesInv ==
  ASSUME IInv, NEW STATE c, Becomes(c), Good(c, events', tunOpen), events' \in Seq(Event),
         keep' \in BOOLEAN, polling' \in Statuses \cup {"no"}
  PROVE  IInv'
<1>1. c \in Controller
  BY DEF Good, Core
<1>2. Now' \in Controller /\ Like(Now', c) /\ Now'.intents = c.intents
  BY <1>1 DEF Becomes, Now, Controller, Like
<1>3. Good(Now', events', tunOpen)
  BY <1>2, LikeCore DEF Good
<1>4. granted' = granted /\ live' = live /\ alive' = alive /\ tunOpen' = tunOpen
      /\ revoked' = revoked
  BY DEF Becomes, serviceVars
<1>5. QED
  BY <1>3, <1>4 DEF IInv

\* At first nothing is under way.
LEMMA InitInv == Init => IInv
<1> SUFFICES ASSUME Init PROVE IInv
  OBVIOUS
<1>1. Now \in Controller /\ Now.intents = <<>>
  <2>1. status \in Statuses /\ pending \in Nat /\ relay \in Nat /\ error \in Nat
        /\ owner \in Nat /\ asked \in Nat /\ foreground \in BOOLEAN /\ overdue \in BOOLEAN
        /\ dialog \in BOOLEAN /\ awaiting \in BOOLEAN /\ crossed \in BOOLEAN
    BY DEF Init, Statuses
  <2>2. proxy \in {"none", "up", "failed"} /\ consent \in 0..2 /\ tuns \in SUBSET Nat
        /\ draining \in SUBSET Nat
    BY DEF Init
  <2>3. intents \in Seq(Intent) /\ intents = <<>>
    BY DEF Init
  <2>4. QED
    BY <2>1, <2>2, <2>3 DEF Now, Controller
<1>2. /\ \A k : ~Start(<<>>, k) /\ ~Stop(<<>>, k)
      /\ \A k, e : ~Has(<<>>, k, e)
  BY DEF Start, Stop, Has
<1>3. RelayFits(Now) /\ PendingFits(Now) /\ TunsAreHeld(Now, events)
  BY <1>2 DEF Init, Now, RelayFits, PendingFits, TunsAreHeld
<1>4. StartsAreNew(Now) /\ EventsFit(events, tunOpen) /\ EndIsTold(Now, events, tunOpen)
      /\ OneStart(Now, events, tunOpen)
  BY <1>1, <1>2 DEF Init, Now, StartsAreNew, EventsFit, EndIsTold, OneStart
<1>5. events \in Seq(Event)
  BY DEF Init
<1>6. keep \in BOOLEAN /\ granted \in BOOLEAN
      /\ polling \in Statuses \cup {"no"} /\ alive \in BOOLEAN /\ tunOpen \in BOOLEAN
      /\ revoked \in BOOLEAN /\ live \in Nat /\ (tunOpen => alive)
  BY DEF Init
<1>7. QED
  BY <1>1, <1>3, <1>4, <1>5, <1>6 DEF IInv, Good, Core

\* What the user does.
LEMMA UserInv == IInv /\ User => IInv'
<1> SUFFICES ASSUME IInv, User PROVE IInv'
  OBVIOUS
<1>1. Good(Now, events, tunOpen) /\ events \in Seq(Event) /\ keep \in BOOLEAN
  BY DEF IInv
<1>2. events' = events /\ events' \in Seq(Event) /\ polling' \in Statuses \cup {"no"}
  BY DEF User, IInv
<1> DEFINE p == StopCapture(Now)
           d == IF keep THEN p ELSE ShutDown(p)
           q == StartProxy(StopProxy(Now))
<1>3. Good(p, events, tunOpen) /\ Good(ShutDown(p), events, tunOpen)
      /\ Good(ShutDown(Now), events, tunOpen)
  BY <1>1, StopCaptureGood, ShutDownGood DEF Good
<1>4. Good(d, events, tunOpen)
  BY <1>3
<1>5. Good(q, events, tunOpen) /\ Good(StopProxy(Now), events, tunOpen)
      /\ Good(StartProxy(Now), events, tunOpen)
  BY <1>1, StopProxyGood, StartProxyGood
<1>6. ASSUME NEW w \in Answers
      PROVE  /\ Good(StartCapture(StartProxy(Now), w), events, tunOpen)
             /\ Good(StartCapture(StartProxy(d), w), events, tunOpen)
             /\ Good(StartCapture(StartProxy(q), w), events, tunOpen)
  BY <1>1, <1>4, <1>5, StartProxyGood, StartCaptureGood
<1>7. PICK c : Good(c, events, tunOpen) /\ Becomes(c) /\ keep' \in BOOLEAN
  <2>1. CASE keep' = keep /\ \E w \in Answers :
                               CanStart /\ (AppStarts(w) \/ AppRestarts(w) \/ RestartProxy(w))
    <3>1. PICK w \in Answers : AppStarts(w) \/ AppRestarts(w) \/ RestartProxy(w)
      BY <2>1
    <3>2. CASE AppStarts(w)
      BY <1>1, <1>6, <2>1, <3>2 DEF AppStarts
    <3>3. CASE AppRestarts(w)
      BY <1>1, <1>6, <2>1, <3>3 DEF AppRestarts
    <3>4. CASE RestartProxy(w)
      BY <1>1, <1>5, <1>6, <2>1, <3>4 DEF RestartProxy
    <3>5. QED
      BY <3>1, <3>2, <3>3, <3>4
  <2>2. CASE keep' = keep /\ AppStops
    BY <1>1, <1>3, <2>2 DEF AppStops
  <2>3. CASE keep' = keep /\ (Becomes(StartProxy(Now)) \/ Becomes(StopProxy(Now)))
    BY <1>1, <1>5, <2>3
  <2>4. CASE ToggleKeep
    BY <1>1, <1>3, <2>4, KeptAliveGood DEF ToggleKeep
  <2>5. QED
    BY <2>1, <2>2, <2>3, <2>4 DEF User
<1>8. QED
  BY <1>2, <1>7, BecomesInv

\* A frame.
LEMMA FrameInv == IInv /\ Frame => IInv'
<1> SUFFICES ASSUME IInv, Frame PROVE IInv'
  OBVIOUS
<1>1. Good(Now, events, tunOpen) /\ events \in Seq(Event) /\ keep \in BOOLEAN
      /\ polling \in Statuses \cup {"no"}
  BY DEF IInv
<1>2. CASE PollBegins
  <2> DEFINE c == ProxyChecked(Now)
  <2>1. Good(c, events, tunOpen)
    BY <1>1, ProxyCheckedGood
  <2>2. PICK starts \in BOOLEAN : polling' = c.status /\ Becomes(ConsentPolled(c, starts))
    BY <1>2 DEF PollBegins
  <2>3. polling' \in Statuses
    BY <2>1, <2>2 DEF Good, Core, Controller
  <2> HIDE DEF c
  <2>4. Good(ConsentPolled(c, starts), events, tunOpen)
    BY <1>1, <2>1, ConsentPolledGood
  <2>5. events' = events /\ keep' = keep
    BY <1>2 DEF PollBegins
  <2>6. QED
    BY <1>1, <2>2, <2>3, <2>4, <2>5, BecomesInv
<1>3. CASE PollEvent
  <2>1. events # <<>> /\ events' = Tail(events) /\ keep' = keep /\ polling' = polling
        /\ Becomes(Callback(Now, Head(events)))
    BY <1>3 DEF PollEvent
  <2>2. Good(Callback(Now, Head(events)), events', tunOpen)
    BY <1>1, <2>1, CallbackGood
  <2>3. events' \in Seq(Event)
    BY <1>1, <2>1
  <2>4. QED
    BY <1>1, <2>1, <2>2, <2>3, BecomesInv
<1>4. CASE PollEnds
  <2> DEFINE c == Claimed(DeadlineChecked(RelayChecked(Now)), polling)
  <2>1. Good(c, events, tunOpen)
    BY <1>1, RelayCheckedGood, DeadlineCheckedGood, ClaimedGood
  <2>2. events' = events /\ keep' = keep /\ polling' = "no" /\ Becomes(c)
    BY <1>4 DEF PollEnds
  <2> HIDE DEF c
  <2>3. QED
    BY <1>1, <2>1, <2>2, BecomesInv
<1>5. QED
  BY <1>2, <1>3, <1>4 DEF Frame

\* Steps of the service leave the controller alone, but for what it has sent and the descriptors.
LEMMA NowFits ==
  ASSUME IInv, UNCHANGED <<ctlVars, consentVars, draining>>,
         intents' \in Seq(Intent), tuns' \in SUBSET Nat
  PROVE  /\ Now' \in Controller /\ Now'.intents = intents' /\ Now.intents = intents
         /\ Now'.tuns = tuns' /\ Now.tuns = tuns
         /\ Now'.status = Now.status /\ Now'.pending = Now.pending /\ Now'.relay = Now.relay
         /\ Now'.error = Now.error /\ Now'.owner = Now.owner /\ Now'.asked = Now.asked
         /\ Now'.crossed = Now.crossed /\ Now'.draining = Now.draining
         /\ tuns' = tuns => Like(Now', Now)
<1>1. Now \in Controller
  BY DEF IInv, Good, Core
<1>2. /\ Now'.intents = intents' /\ Now.intents = intents /\ Now'.tuns = tuns' /\ Now.tuns = tuns
      /\ Now'.status = Now.status /\ Now'.pending = Now.pending /\ Now'.relay = Now.relay
      /\ Now'.error = Now.error /\ Now'.owner = Now.owner /\ Now'.asked = Now.asked
      /\ Now'.crossed = Now.crossed /\ Now'.draining = Now.draining
  BY DEF Now, ctlVars
<1>3. Now' \in Controller
  BY <1>1 DEF Now, Controller, ctlVars, consentVars
<1>4. QED
  BY <1>2, <1>3 DEF Like

\* What is left of IInv beside the controller, for a step of the service.
LEMMA ServiceInv ==
  ASSUME IInv, Good(Now', events', tunOpen'), events' \in Seq(Event),
         UNCHANGED <<keep, polling, granted>>,
         alive' \in BOOLEAN, tunOpen' \in BOOLEAN, revoked' \in BOOLEAN, live' \in Nat,
         tunOpen' => alive'
  PROVE  IInv'
BY DEF IInv

\* Android delivers to the service what it was sent.
LEMMA DeliverInv == IInv /\ Deliver => IInv'
<1> SUFFICES ASSUME IInv, Deliver PROVE IInv'
  OBVIOUS
<1> DEFINE p == Head(intents)
           stop == [i |-> "stop"]
<1>1. intents # <<>> /\ UNCHANGED <<ctlVars, keep, polling, consentVars, revoked, draining, acts>>
  BY DEF Deliver
<1>2. Core(Now, events, tunOpen) /\ PendingFits(Now) /\ events \in Seq(Event)
      /\ tunOpen \in BOOLEAN /\ revoked \in BOOLEAN /\ live \in Nat /\ (tunOpen => alive)
      /\ alive \in BOOLEAN
  BY DEF IInv, Good
<1>3. Now.intents = intents /\ intents \in Seq(Intent) /\ tuns \in SUBSET Nat
  BY <1>2 DEF Core, Controller, Now
<1>4. stop \in Intent /\ stop.i = "stop"
  BY DEF Intent
<1>5. /\ Tail(intents) \in Seq(Intent) /\ p \in Intent
      /\ Append(Tail(intents), stop) \in Seq(Intent)
  BY <1>1, <1>3, <1>4
<1>6. granted' = granted /\ keep' = keep /\ polling' = polling /\ revoked' = revoked
  BY <1>1 DEF consentVars
<1>7. FailedEvent \in Event /\ FailedEvent.e = "failed"
  BY DEF Event, FailedEvent
<1> HIDE DEF p, stop
<1>8. ASSUME intents' = Tail(intents), tuns' = tuns, NEW o \in BOOLEAN,
             Core(Now, events', o), o => p.i \notin {"stop", "stopVpn"}
      PROVE  Good(Now', events', o)
  <2>1. Now' \in Controller /\ Like(Now', Now) /\ Now'.intents = Tail(Now.intents)
    BY <1>1, <1>3, <1>5, <1>8, NowFits
  <2>2. Core(Now', events', o) /\ (PendingFits(Now) => PendingFits(Now'))
    BY <1>1, <1>3, <1>8, <2>1, ServedCore DEF p
  <2>3. QED
    BY <1>2, <2>2 DEF Good
<1>9. ASSUME intents' = Append(Tail(intents), stop), tuns' = tuns, NEW o \in BOOLEAN,
             Core(Now, events', o)
      PROVE  Good(Now', events', o)
  <2>1. Now' \in Controller /\ Like(Now', Now) /\ Now'.intents = Append(Tail(Now.intents), stop)
    BY <1>1, <1>3, <1>5, <1>9, NowFits
  <2>2. Core(Now', events', o) /\ (PendingFits(Now) => PendingFits(Now'))
    BY <1>1, <1>3, <1>4, <1>9, <2>1, RequeuedCore
  <2>3. QED
    BY <1>2, <2>2 DEF Good
<1>10. ASSUME events' = Append(events, FailedEvent)
       PROVE  Core(Now, events', tunOpen) /\ events' \in Seq(Event)
  <2>1. Told(events, events', FailedEvent)
    BY <1>2, <1>7, <1>10, AppendIsTold
  <2>2. QED
    BY <1>2, <1>7, <2>1, FailureToldCore DEF Told
<1>11. CASE p.i = "start" /\ Lost
  <2>1. Good(Now', events', tunOpen)
    BY <1>2, <1>8, <1>11 DEF Lost
  <2>2. QED
    BY <1>2, <1>6, <1>11, <2>1, ServiceInv DEF Lost
<1>12. CASE p.i \in {"start", "foreground", "stopVpn"} /\ Refused
  <2>1. Core(Now, events', tunOpen) /\ events' \in Seq(Event)
    BY <1>10, <1>12 DEF Refused
  <2>2. Good(Now', events', tunOpen)
    BY <1>2, <1>9, <1>12, <2>1 DEF Refused, stop
  <2>3. QED
    BY <1>2, <1>6, <1>12, <2>1, <2>2, ServiceInv DEF Refused
<1>13. CASE p.i = "start" /\ ~tunOpen /\ Establish(p.n) /\ alive' = TRUE /\ intents' = Tail(intents)
  <2>1. CASE tunOpen' = TRUE /\ events' = Append(events, Started(p.n)) /\ tuns' = tuns \cup {p.n}
             /\ live' = p.n
    <3> DEFINE n == p.n
               e == Started(n)
    <3>1. n \in Nat
      BY <1>5, <1>13 DEF Intent
    <3>2. e \in Event /\ e.e = "started" /\ e.tun = n
      BY <3>1 DEF Event, Started
    <3>3. Start(Now.intents, 1) /\ n = Now.intents[1].n /\ Delivered(Now.intents, Tail(intents))
      BY <1>1, <1>3, <1>13, TailIsDelivered DEF Start, p
    <3> HIDE DEF e, n
    <3>4. Told(events, events', e)
      BY <1>2, <2>1, <3>2, AppendIsTold DEF e, n
    <3>5. Core(Now, events, FALSE)
      <4>1. tunOpen = FALSE
        BY <1>2, <1>13
      <4>2. QED
        BY <1>2, <4>1
    <3>6. /\ Now' \in Controller /\ Now'.intents = Tail(intents)
          /\ Now'.tuns = Now.tuns \cup {n}
          /\ Now'.status = Now.status /\ Now'.pending = Now.pending /\ Now'.relay = Now.relay
          /\ Now'.error = Now.error /\ Now'.owner = Now.owner /\ Now'.asked = Now.asked
          /\ Now'.crossed = Now.crossed /\ Now'.draining = Now.draining
      <4>1. tuns' \in SUBSET Nat /\ intents' \in Seq(Intent) /\ tuns' = tuns \cup {n}
        BY <1>3, <1>5, <1>13, <2>1, <3>1 DEF n
      <4>2. QED
        BY <1>1, <1>13, <4>1, NowFits
    <3>7. Core(Now', events', TRUE) /\ (PendingFits(Now) => PendingFits(Now'))
      BY <3>2, <3>3, <3>4, <3>5, <3>6, EstablishedCore
    <3>8. Good(Now', events', tunOpen') /\ events' \in Seq(Event)
      BY <1>2, <2>1, <3>4, <3>7 DEF Good, Told
    <3>9. QED
      BY <1>2, <1>6, <1>13, <2>1, <3>1, <3>8, ServiceInv DEF n
  <2>2. CASE events' = Append(events, FailedEvent) /\ UNCHANGED <<tunOpen, tuns, live>>
    <3>1. Core(Now, events', tunOpen) /\ events' \in Seq(Event)
      BY <1>10, <2>2
    <3>2. Good(Now', events', tunOpen)
      BY <1>2, <1>8, <1>13, <2>2, <3>1
    <3>3. QED
      BY <1>2, <1>6, <1>13, <2>2, <3>1, <3>2, ServiceInv
  <2>3. QED
    BY <1>13, <2>1, <2>2 DEF Establish
<1>14. CASE ((p.i = "start" /\ tunOpen) \/ p.i = "foreground")
            /\ UNCHANGED <<tunOpen, events, tuns, live, faults>>
            /\ alive' = TRUE /\ intents' = Tail(intents)
  <2>1. Good(Now', events', tunOpen)
    BY <1>2, <1>8, <1>14
  <2>2. QED
    BY <1>2, <1>6, <1>14, <2>1, ServiceInv
<1>15. CASE p.i = "stopVpn" /\ CloseTun /\ UNCHANGED <<tuns, live, faults>>
            /\ alive' = TRUE /\ intents' = Tail(intents)
  <2>1. Core(Now, events', FALSE) /\ events' \in Seq(Event) /\ tunOpen' = FALSE
    BY <1>2, <1>15, CloseTunCore
  <2>2. Good(Now', events', tunOpen')
    BY <1>8, <1>15, <2>1
  <2>3. QED
    BY <1>2, <1>6, <1>15, <2>1, <2>2, ServiceInv
<1>16. CASE p.i = "button" /\ ButtonPressed
  <2>1. Core(Now, events', FALSE) /\ events' \in Seq(Event) /\ tunOpen' = FALSE
    BY <1>2, <1>16, CloseTunCore DEF ButtonPressed
  <2>2. Good(Now', events', tunOpen')
    BY <1>9, <1>16, <2>1 DEF ButtonPressed, stop
  <2>3. QED
    BY <1>2, <1>6, <1>16, <2>1, <2>2, ServiceInv DEF ButtonPressed
<1>17. CASE p.i = "stop" /\ Destroyed
  <2>1. Core(Now, events', tunOpen') /\ events' \in Seq(Event) /\ tunOpen' = FALSE
    <3>1. CASE alive
      BY <1>2, <1>17, <3>1, CloseTunCore DEF Destroyed
    <3>2. CASE ~alive
      BY <1>2, <1>17, <3>2 DEF Destroyed
    <3>3. QED
      BY <3>1, <3>2
  <2>2. Good(Now', events', tunOpen')
    BY <1>8, <1>17, <2>1 DEF Destroyed
  <2>3. QED
    BY <1>2, <1>6, <1>17, <2>1, <2>2, ServiceInv DEF Destroyed
<1>18. QED
  BY <1>11, <1>12, <1>13, <1>14, <1>15, <1>16, <1>17 DEF Deliver, Commanded, p

\* The notification's button, and a revocation, send the service a command.
LEMMA ServiceSentInv == IInv /\ (PressStop \/ OnRevoke) => IInv'
<1> SUFFICES ASSUME IInv, PressStop \/ OnRevoke PROVE IInv'
  OBVIOUS
<1> DEFINE button == [i |-> "button"]
           stop == [i |-> "stop"]
<1>1. Core(Now, events, tunOpen) /\ PendingFits(Now) /\ events \in Seq(Event)
      /\ tunOpen \in BOOLEAN /\ revoked \in BOOLEAN /\ live \in Nat /\ (tunOpen => alive)
      /\ alive \in BOOLEAN
  BY DEF IInv, Good
<1>2. Now.intents = intents /\ intents \in Seq(Intent) /\ tuns \in SUBSET Nat
  BY <1>1 DEF Core, Controller, Now
<1>3. button \in Intent /\ button.i # "start" /\ stop \in Intent /\ stop.i # "start"
  BY DEF Intent
<1> HIDE DEF button, stop
<1>4. UNCHANGED <<ctlVars, keep, polling, granted, dialog, consent, awaiting, draining, tuns,
                  live, alive>>
  BY DEF PressStop, OnRevoke, consentVars, serviceVars, tunVars
<1>5. ASSUME NEW i \in Intent, i.i # "start", intents' = Append(intents, i), NEW o \in BOOLEAN,
             Core(Now, events', o)
      PROVE  Good(Now', events', o)
  <2>1. Sent(intents, intents', i)
    BY <1>2, <1>5, AppendIsSent
  <2>2. intents' \in Seq(Intent)
    BY <2>1 DEF Sent
  <2>3. Now' \in Controller /\ Like(Now', Now) /\ Sent(Now.intents, Now'.intents, i)
    BY <1>2, <1>4, <2>1, <2>2, NowFits DEF consentVars
  <2>4. Core(Now', events', o) /\ (PendingFits(Now) => PendingFits(Now'))
    BY <1>5, <2>3, SentCore
  <2>5. QED
    BY <1>1, <2>4 DEF Good
<1>6. CASE PressStop
  <2>1. Good(Now', events', tunOpen)
    BY <1>1, <1>3, <1>5, <1>6 DEF PressStop, button
  <2>2. QED
    BY <1>1, <1>4, <1>6, <2>1, ServiceInv DEF PressStop, serviceVars
<1>7. CASE OnRevoke /\ alive
  <2>1. Core(Now, events', FALSE) /\ events' \in Seq(Event) /\ tunOpen' = FALSE
    BY <1>1, <1>7, CloseTunCore DEF OnRevoke
  <2>2. Good(Now', events', tunOpen')
    BY <1>3, <1>5, <1>7, <2>1 DEF OnRevoke, stop
  <2>3. QED
    BY <1>1, <1>4, <1>7, <2>1, <2>2, ServiceInv DEF OnRevoke
<1>8. CASE OnRevoke /\ ~alive
  <2>1. UNCHANGED <<tunOpen, events, intents>> /\ revoked' = FALSE
    BY <1>8 DEF OnRevoke
  <2>2. Now' \in Controller /\ Like(Now', Now) /\ Now'.intents = Now.intents
    BY <1>2, <1>4, <2>1, NowFits DEF consentVars
  <2>3. Good(Now', events', tunOpen')
    BY <1>1, <2>1, <2>2, LikeCore DEF Good
  <2>4. QED
    BY <1>1, <1>4, <2>1, <2>3, ServiceInv
<1>9. QED
  BY <1>6, <1>7, <1>8

\* What changes nothing that the invariant is about: the proxy fails, the dialog is answered, a
\* deadline passes, the VPN is revoked.
LEMMA AsideInv == IInv /\ (ProxyFails \/ Answer \/ Elapse \/ Revoke \/ UNCHANGED vpnVars) => IInv'
<1> SUFFICES ASSUME IInv, ProxyFails \/ Answer \/ Elapse \/ Revoke \/ UNCHANGED vpnVars
             PROVE  IInv'
  OBVIOUS
<1>1. Now \in Controller
  BY DEF IInv, Good, Core
<1>2. UNCHANGED <<status, pending, foreground, relay, error, owner, asked, crossed, tuns, draining,
                  intents, keep, polling, events, alive, tunOpen>>
  BY DEF ProxyFails, Answer, Elapse, Revoke, vpnVars, ctlVars, consentVars, serviceVars, tunVars
<1>3. Like(Now', Now) /\ Now'.intents = Now.intents
  BY <1>2 DEF Like, Now
<1>4. /\ proxy' \in {"none", "up", "failed"} /\ dialog' \in BOOLEAN /\ consent' \in 0..2
      /\ awaiting' \in BOOLEAN /\ overdue' \in BOOLEAN
      /\ granted' \in BOOLEAN /\ revoked' \in BOOLEAN /\ live' \in Nat
  <2>1. proxy \in {"none", "up", "failed"} /\ dialog \in BOOLEAN /\ consent \in 0..2
        /\ awaiting \in BOOLEAN /\ overdue \in BOOLEAN
    BY <1>1 DEF Now, Controller
  <2>2. granted \in BOOLEAN /\ revoked \in BOOLEAN /\ live \in Nat
    BY DEF IInv
  <2>3. CASE ProxyFails
    BY <2>1, <2>2, <2>3 DEF ProxyFails, consentVars, serviceVars, tunVars
  <2>4. CASE Answer
    <3>1. PICK yes \in BOOLEAN : granted' = (granted \/ yes) /\ consent' = IF yes THEN 1 ELSE 2
      BY <2>4 DEF Answer
    <3>2. granted' \in BOOLEAN /\ consent' \in 0..2
      BY <3>1
    <3>3. QED
      BY <2>1, <2>2, <2>4, <3>2 DEF Answer, ctlVars, serviceVars, tunVars
  <2>5. CASE Elapse
    BY <2>1, <2>2, <2>5 DEF Elapse, consentVars, serviceVars, tunVars
  <2>6. CASE Revoke
    BY <2>1, <2>2, <2>6 DEF Revoke, ctlVars
  <2>7. CASE UNCHANGED vpnVars
    BY <2>1, <2>2, <2>7 DEF vpnVars, ctlVars, consentVars, serviceVars, tunVars
  <2>8. QED
    BY <2>3, <2>4, <2>5, <2>6, <2>7
<1>5. Now' \in Controller
  BY <1>1, <1>2, <1>4 DEF Now, Controller
<1>6. Good(Now', events', tunOpen')
  BY <1>2, <1>3, <1>5, LikeCore DEF IInv, Good
<1>7. QED
  BY <1>2, <1>4, <1>6 DEF IInv

\* A relay stops or fails.
LEMMA RelayInv == IInv /\ (RelayStops \/ RelayFails) => IInv'
<1> SUFFICES ASSUME IInv, RelayStops \/ RelayFails PROVE IInv'
  OBVIOUS
<1>1. Good(Now, events, tunOpen) /\ Now \in Controller
  BY DEF IInv, Good, Core
<1>2. UNCHANGED <<status, pending, foreground, overdue, relay, owner, asked, proxy, crossed, keep,
                  polling, dialog, consent, awaiting, granted, intents, alive, tunOpen, revoked,
                  events>>
  BY DEF RelayStops, RelayFails, consentVars, serviceVars
<1>3. PICK t : /\ Closed(t) /\ t \in tuns /\ (t \in draining \/ t = relay)
               /\ (t \in draining \/ error' = t) /\ (error' = error \/ (error' = t /\ t = owner))
  <2>1. draining \subseteq tuns /\ (relay # 0 => relay = owner) /\ 0 \notin tuns
    BY <1>1 DEF Good, Core, RelayFits, Now, Controller
  <2>2. CASE RelayStops
    BY <2>1, <2>2 DEF RelayStops
  <2>3. CASE RelayFails
    BY <2>1, <2>3 DEF RelayFails
  <2>4. QED
    BY <2>2, <2>3
<1>4. tuns' = tuns \ {t} /\ draining' = draining \ {t} /\ live' \in {0, live} /\ t \in Nat
  BY <1>1, <1>3 DEF Closed, Now, Controller
<1>5. Now' \in Controller
  <2>1. tuns' \in SUBSET Nat /\ draining' \in SUBSET Nat /\ error' \in Nat
    BY <1>1, <1>3, <1>4 DEF Now, Controller
  <2>2. QED
    BY <1>1, <1>2, <2>1 DEF Now, Controller
<1>6. /\ Now.tuns = tuns /\ Now.draining = draining /\ Now.relay = relay /\ Now.owner = owner
      /\ Now.error = error /\ Now'.error = error'
      /\ Now'.tuns = Now.tuns \ {t} /\ Now'.draining = Now.draining \ {t}
      /\ Now'.status = Now.status /\ Now'.pending = Now.pending /\ Now'.relay = Now.relay
      /\ Now'.owner = Now.owner /\ Now'.asked = Now.asked /\ Now'.crossed = Now.crossed
      /\ Now'.intents = Now.intents
  BY <1>2, <1>4 DEF Now
<1>7. Good(Now', events, tunOpen)
  BY <1>1, <1>3, <1>5, <1>6, RelayGoneGood
<1>8. QED
  BY <1>2, <1>4, <1>7 DEF IInv

\* Every step keeps it.
LEMMA NextInv == IInv /\ [Next]_vpnVars => IInv'
BY UserInv, FrameInv, DeliverInv, ServiceSentInv, AsideInv, RelayInv DEF Next

-----------------------------------------------------------------------------
(* The theorems.                                                           *)

\* The agreement with its strengthening holds in every state that can be reached.
LEMMA IInvAlways == Spec => []IInv
BY InitInv, NextInv, PTL DEF Spec

\* The controller's state is of its types: a start is pending only while one is asked for, a relay
\* is held only while Running, and what drains has its descriptor.
THEOREM VpnTypeCorrect == Spec => []VpnTypeOK
<1>1. IInv => VpnTypeOK
  <2>1. SUFFICES ASSUME IInv PROVE VpnTypeOK
    OBVIOUS
  <2>2. Now \in Controller /\ RelayFits(Now) /\ PendingFits(Now)
    BY <2>1 DEF IInv, Good, Core
  <2>3. status \in Statuses /\ pending \in 0..asked
        /\ (pending # 0 => status \in {"Requesting", "Starting"})
        /\ (relay # 0 => status = "Running" /\ relay = owner /\ relay \notin draining)
        /\ draining \subseteq tuns /\ tuns \subseteq 1..asked
    BY <2>2 DEF Now, Controller, RelayFits, PendingFits
  <2>4. foreground \in BOOLEAN /\ overdue \in BOOLEAN /\ dialog \in BOOLEAN /\ awaiting \in BOOLEAN
    BY <2>2 DEF Now, Controller
  <2>5. keep \in BOOLEAN /\ granted \in BOOLEAN /\ alive \in BOOLEAN /\ tunOpen \in BOOLEAN
        /\ revoked \in BOOLEAN /\ polling \in Statuses \cup {"no"}
    BY <2>1 DEF IInv
  <2>6. QED
    BY <2>3, <2>4, <2>5 DEF VpnTypeOK
<1>2. QED
  BY <1>1, IInvAlways, PTL

\* With nothing under way between app, service and relays, and no start crossed by another, the
\* service has a tun exactly while the app says Running, and the only open descriptor is that of
\* the running relay.
THEOREM VpnServiceAgrees == Spec => []ServiceAgrees
<1>1. IInv => ServiceAgrees
  <2>1. SUFFICES ASSUME IInv, Quiet, ~crossed
                 PROVE  /\ tunOpen <=> status = "Running"
                        /\ tuns = IF status = "Running" THEN {relay} ELSE {}
    BY DEF ServiceAgrees
  <2>2. Core(Now, events, tunOpen) /\ Now \in Controller
    BY <2>1 DEF IInv, Good, Core
  <2>3. /\ \A k : ~Stop(intents, k)
        /\ \A k, e : ~Has(events, k, e)
        /\ error = 0 /\ draining = {}
    BY <2>1 DEF Quiet, Stop, Has
  <2>4. status = "Running" => tunOpen
    BY <2>2, <2>3 DEF Core, EndIsTold, Now
  <2>5. tunOpen => status = "Running"
    BY <2>1, <2>2, <2>3 DEF Core, OneStart, Now
  <2>6. \A t \in tuns : t = relay
    BY <2>2, <2>3 DEF Core, TunsAreHeld, Now
  <2>7. (relay # 0 <=> status = "Running") /\ (relay # 0 => relay \in tuns) /\ 0 \notin tuns
    BY <2>2, <2>3 DEF Core, RelayFits, Now, Controller
  <2>8. QED
    BY <2>4, <2>5, <2>6, <2>7
<1>2. QED
  BY <1>1, IInvAlways, PTL
=============================================================================
