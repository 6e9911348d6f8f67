---------------------------- MODULE VpnCapture ----------------------------
\* Capturing all traffic on Android: the controller of the app (privaxy-android vpn/mod.rs and
\* app.rs, on the render thread), the service that holds the tun (EguiVpnService.java, on
\* Android's main thread and, for a revocation, on a binder thread), the queue of its callbacks
\* (egui-android vpn.rs), and the relay that owns the tun's descriptor.
EXTENDS Naturals, Sequences

CONSTANTS MaxStarts,   \* bound: how often the service is asked to start capturing
          MaxActs,     \* bound: what the user and the system do
          MaxFaults    \* bound: refusals and failures of Android and of the relay

ASSUME VpnAssumption == {MaxStarts, MaxActs, MaxFaults} \subseteq Nat

VARIABLES
  status, pending, foreground, overdue,   \* VpnController; a start is a number, 0 is none
  relay,      \* the tun whose relay it holds (runtime, relay_task, shutdown)
  error,      \* relay_error: the tun whose relay left a reason
  owner,      \* the tun of the session that slot was made for
  asked,      \* how many starts there have been
  proxy, keep,                            \* Loaded: its proxy, config.foreground_service
  polling,    \* the status a poll under way began with, "no" between frames
  dialog, consent, awaiting, granted,     \* the system's dialog, vpnConsent, AWAITING_CONSENT
  intents,    \* what Android has yet to deliver to the service, in order
  alive, tunOpen, revoked,    \* the service; it is yet to be told that its tun is gone
  events,     \* EVENTS: callbacks not yet polled
  tuns,       \* open descriptors
  live,       \* the one whose interface is up
  draining,   \* relays told to stop
  crossed,    \* a capture was started while an earlier start was unanswered
  acts, faults

ctlVars == <<status, pending, foreground, overdue, relay, error, owner, asked, proxy, crossed>>
consentVars == <<dialog, consent, awaiting, granted>>
serviceVars == <<alive, tunOpen, revoked>>
tunVars == <<tuns, live, draining>>
vpnVars == <<ctlVars, keep, polling, consentVars, intents, serviceVars, events, tunVars, acts,
             faults>>

Started(t) == [e |-> "started", tun |-> t]
Stopped == [e |-> "stopped"]
FailedEvent == [e |-> "failed"]

Statuses == {"Off", "Requesting", "Starting", "Running", "Failed"}
IsOn(s) == s \in {"Requesting", "Starting", "Running"}

Init ==
  /\ status = "Off" /\ pending = 0 /\ foreground = FALSE /\ overdue = FALSE
  /\ relay = 0 /\ error = 0 /\ owner = 0 /\ asked = 0 /\ crossed = FALSE
  /\ proxy = "none" /\ keep \in BOOLEAN /\ polling = "no"
  /\ dialog = FALSE /\ consent = 0 /\ awaiting = FALSE /\ granted \in BOOLEAN
  /\ intents = <<>> /\ alive = FALSE /\ tunOpen = FALSE /\ revoked = FALSE
  /\ events = <<>> /\ tuns = {} /\ live = 0 /\ draining = {}
  /\ acts = 0 /\ faults = 0

------------------------------------------------------------------------------
\* The controller: each operation takes and returns its state, with what was sent to the service.

Now == [status |-> status, pending |-> pending, foreground |-> foreground, overdue |-> overdue,
        relay |-> relay, error |-> error, owner |-> owner, asked |-> asked, proxy |-> proxy,
        dialog |-> dialog, consent |-> consent, awaiting |-> awaiting, crossed |-> crossed,
        tuns |-> tuns, draining |-> draining, intents |-> intents]

\* (\E over one value: TLC computes it once.)
Becomes(it) == \E c \in {it} :
  /\ status' = c.status /\ pending' = c.pending /\ foreground' = c.foreground
  /\ overdue' = c.overdue /\ relay' = c.relay /\ error' = c.error /\ owner' = c.owner
  /\ asked' = c.asked /\ proxy' = c.proxy /\ crossed' = c.crossed
  /\ dialog' = c.dialog /\ consent' = c.consent /\ awaiting' = c.awaiting
  /\ tuns' = c.tuns /\ draining' = c.draining /\ intents' = c.intents
  /\ UNCHANGED <<granted, live, serviceVars>>

Posted(c, i) == [c EXCEPT !.intents = Append(@, i)]

KeptAlive(c) ==
  IF c.foreground THEN c ELSE Posted([c EXCEPT !.foreground = TRUE], [i |-> "foreground"])

\* The relay is told to stop; it closes its descriptor when it has.
TornDown(c) ==
  [c EXCEPT !.overdue = FALSE, !.relay = 0,
            !.draining = IF c.relay \in c.tuns THEN @ \cup {c.relay} ELSE @]

Released(c) == Posted(c, [i |-> IF c.foreground THEN "stopVpn" ELSE "stop"])

Fail(c) == [Released(TornDown([c EXCEPT !.pending = 0])) EXCEPT !.status = "Failed"]

ShutDown(c) ==
  [Posted(TornDown([c EXCEPT !.pending = 0]), [i |-> "stop"])
     EXCEPT !.foreground = FALSE, !.status = "Off"]

\* platform::start: a start that is answered late crosses the next one.
Unanswered(c) == (\E k \in DOMAIN c.intents : c.intents[k].i = "start")
                 \/ (\E k \in DOMAIN events : events[k].e # "stopped")
Begin(c, starts) ==
  IF c.pending = 0 THEN [c EXCEPT !.status = "Off"]
  ELSE IF starts
  THEN Posted([c EXCEPT !.foreground = TRUE, !.status = "Starting", !.overdue = FALSE,
                        !.crossed = @ \/ Unanswered(c)],
              [i |-> "start", n |-> c.pending])
  ELSE [c EXCEPT !.pending = 0, !.status = "Failed"]

\* What the platform answers: another VPN is always on, the dialog shows, the service starts.
Fine == [blocked |-> FALSE, shows |-> TRUE, starts |-> TRUE]
Answers == {Fine} \cup IF faults = MaxFaults THEN {}
                       ELSE {[Fine EXCEPT !.blocked = TRUE], [Fine EXCEPT !.shows = FALSE],
                             [Fine EXCEPT !.starts = FALSE]}
Faulted(w) == faults' = faults + IF w = Fine THEN 0 ELSE 1

\* request_consent: without the dialog the start goes on.
Consented(c, w) ==
  IF granted THEN Begin([c EXCEPT !.awaiting = FALSE], w.starts)
  ELSE IF w.shows THEN [c EXCEPT !.awaiting = TRUE, !.dialog = TRUE, !.status = "Requesting"]
  ELSE Begin([c EXCEPT !.awaiting = FALSE], w.starts)

StartCapture(c, w) ==
  IF IsOn(c.status) THEN c
  ELSE IF w.blocked THEN [c EXCEPT !.status = "Failed"]
  ELSE Consented([c EXCEPT !.asked = @ + 1, !.pending = c.asked + 1], w)

StopCapture(c) == [Released(TornDown([c EXCEPT !.pending = 0])) EXCEPT !.status = "Off"]

------------------------------------------------------------------------------
\* The app around it (Loaded).

StartProxy(c) ==
  IF c.proxy = "up" THEN c
  ELSE LET d == [c EXCEPT !.proxy = "up"] IN IF keep THEN KeptAlive(d) ELSE d

StopProxy(c) == ShutDown([c EXCEPT !.proxy = "none"])

Acts(n) == acts + n <= MaxActs /\ acts' = acts + n
CanStart == asked < MaxStarts

AppStarts(w) == Becomes(StartCapture(StartProxy(Now), w)) /\ Faulted(w)
AppStops ==
  LET c == StopCapture(Now)
  IN  Becomes(IF keep THEN c ELSE ShutDown(c)) /\ UNCHANGED faults

\* "Apply and restart capture", and restart_proxy after a change of the settings.
AppRestarts(w) ==
  LET c == StopCapture(Now)
      d == IF keep THEN c ELSE ShutDown(c)
  IN  IsOn(status) /\ Becomes(StartCapture(StartProxy(d), w)) /\ Faulted(w)
RestartProxy(w) ==
  LET d == StartProxy(StopProxy(Now))
  IN  proxy # "none" /\ Becomes(IF IsOn(status) THEN StartCapture(StartProxy(d), w) ELSE d)
      /\ Faulted(w)

ToggleKeep ==
  /\ keep' = ~keep
  /\ Becomes(IF ~keep THEN KeptAlive(Now) ELSE IF IsOn(status) THEN Now ELSE ShutDown(Now))

User ==
  /\ polling = "no" /\ Acts(1) /\ UNCHANGED <<polling, events>>
  /\ \/ /\ UNCHANGED keep
        /\ \/ \E w \in Answers : CanStart /\ (AppStarts(w) \/ AppRestarts(w) \/ RestartProxy(w))
           \/ AppStops
           \/ Becomes(StartProxy(Now)) /\ UNCHANGED faults
           \/ Becomes(StopProxy(Now)) /\ UNCHANGED faults
     \/ ToggleKeep /\ UNCHANGED faults

ProxyFails ==
  /\ proxy = "up" /\ faults < MaxFaults /\ faults' = faults + 1 /\ proxy' = "failed"
  /\ UNCHANGED <<status, pending, foreground, overdue, relay, error, owner, asked, crossed, keep,
                 polling, consentVars, intents, serviceVars, events, tunVars, acts>>

------------------------------------------------------------------------------
\* One frame: a failed proxy fails the capture, and poll takes the dialog's answer, the callbacks,
\* the relay's reason and the deadline, in this order.

ProxyChecked(c) == IF c.proxy = "failed" /\ IsOn(c.status) THEN Fail(c) ELSE c

\* takeVpnConsent: an answer is read once, and only while one is awaited.
ConsentPolled(c, starts) ==
  LET taken == [c EXCEPT !.consent = 0, !.awaiting = FALSE]
  IN  IF c.status # "Requesting" \/ ~c.awaiting \/ c.consent = 0 THEN c
      ELSE IF c.consent = 1 THEN Begin(taken, starts)
      ELSE [taken EXCEPT !.pending = 0, !.status = "Failed"]

\* Mutant: a descriptor nobody waits for is left open.
AttachOrLeak(c, t) ==
  IF c.pending = 0 THEN c
  ELSE [c EXCEPT !.pending = 0, !.error = 0, !.owner = t, !.relay = t, !.status = "Running",
                 !.overdue = FALSE]

\* A descriptor nobody waits for is closed; otherwise a relay is started on it.
Attach(c, t) ==
  IF c.pending = 0 THEN [c EXCEPT !.tuns = @ \ {t}]
  ELSE [c EXCEPT !.pending = 0, !.error = 0, !.owner = t, !.relay = t, !.status = "Running",
                 !.overdue = FALSE]

\* Mutant: a stop counts in every state.
CallbackAlways(c, ev) ==
  CASE ev.e = "started" -> Attach(c, ev.tun)
    [] ev.e = "stopped" -> [TornDown(c) EXCEPT !.status = "Off", !.foreground = FALSE]
    [] ev.e = "failed" -> Fail(c)

Callback(c, ev) ==
  CASE ev.e = "started" -> Attach(c, ev.tun)
    [] ev.e = "stopped" /\ c.status = "Running" ->
         [TornDown(c) EXCEPT !.status = "Off", !.foreground = FALSE]
    [] ev.e = "stopped" /\ c.status # "Running" -> c
    [] ev.e = "failed" -> Fail(c)

RelayChecked(c) ==
  LET d == [c EXCEPT !.error = 0]
  IN  IF c.error # 0 /\ IsOn(c.status) THEN Fail(d) ELSE d

\* Mutant: nobody looks at the clock.
DeadlineForgotten(c) == c

DeadlineChecked(c) == IF c.status = "Starting" /\ c.overdue THEN Fail(c) ELSE c

Claimed(c, before) ==
  IF c.status # before /\ c.proxy # "none" /\ keep THEN KeptAlive(c) ELSE c

PollBegins ==
  /\ polling = "no"
  /\ \E starts \in IF faults < MaxFaults THEN BOOLEAN ELSE {TRUE} :
       /\ \E c \in {ProxyChecked(Now)} : polling' = c.status /\ Becomes(ConsentPolled(c, starts))
       /\ faults' = faults + IF starts THEN 0 ELSE 1
  /\ UNCHANGED <<keep, events, acts>>

\* poll_event: the callbacks one by one, those that come in meanwhile too.
PollEvent ==
  /\ polling # "no" /\ events # <<>> /\ events' = Tail(events)
  /\ Becomes(Callback(Now, Head(events)))
  /\ UNCHANGED <<keep, polling, acts, faults>>

PollEnds ==
  /\ polling # "no" /\ events = <<>> /\ polling' = "no"
  /\ Becomes(Claimed(DeadlineChecked(RelayChecked(Now)), polling))
  /\ UNCHANGED <<keep, events, acts, faults>>

Frame == PollBegins \/ PollEvent \/ PollEnds

\* Fifteen seconds after a start.
Elapse ==
  /\ status = "Starting" /\ ~overdue /\ overdue' = TRUE
  /\ UNCHANGED <<status, pending, foreground, relay, error, owner, asked, proxy, crossed, keep,
                 polling, consentVars, intents, serviceVars, events, tunVars, acts, faults>>

------------------------------------------------------------------------------
\* The service. A start that finds the tun open does nothing.

\* Mutant: stopping the capture leaves the service thinking it has a tun.
CloseTunKeeps == UNCHANGED tunOpen /\ events' = events \o (IF tunOpen THEN <<Stopped>> ELSE <<>>)

CloseTun == tunOpen' = FALSE /\ events' = events \o (IF tunOpen THEN <<Stopped>> ELSE <<>>)

\* goForeground is refused: the service stops itself, once what it has been sent is done.
Refused ==
  /\ faults < MaxFaults /\ faults' = faults + 1
  /\ alive' = TRUE /\ UNCHANGED tunOpen
  /\ events' = Append(events, FailedEvent) /\ intents' = Append(Tail(intents), [i |-> "stop"])
  /\ UNCHANGED <<tuns, live>>

\* Builder.establish: null without consent. The interface replaces an older one.
Establish(n) ==
  \/ /\ granted /\ UNCHANGED faults
     /\ tunOpen' = TRUE /\ events' = Append(events, Started(n))
     /\ tuns' = tuns \cup {n} /\ live' = n
  \/ /\ \/ ~granted /\ UNCHANGED faults
        \/ granted /\ faults < MaxFaults /\ faults' = faults + 1
     /\ events' = Append(events, FailedEvent) /\ UNCHANGED <<tunOpen, tuns, live>>

Commanded(p) ==
  /\ alive' = TRUE /\ intents' = Tail(intents)
  /\ \/ p.i = "start" /\ ~tunOpen /\ Establish(p.n)
     \/ /\ (p.i = "start" /\ tunOpen) \/ p.i = "foreground"
        /\ UNCHANGED <<tunOpen, events, tuns, live, faults>>
     \/ p.i = "stopVpn" /\ CloseTun /\ UNCHANGED <<tuns, live, faults>>

\* The Stop button of the notification.
ButtonPressed ==
  /\ alive' = TRUE /\ CloseTun /\ intents' = Append(Tail(intents), [i |-> "stop"])
  /\ UNCHANGED <<tuns, live, faults>>

\* onDestroy.
Destroyed ==
  /\ alive' = FALSE /\ intents' = Tail(intents)
  /\ IF alive THEN CloseTun ELSE UNCHANGED <<tunOpen, events>>
  /\ UNCHANGED <<tuns, live, faults>>

\* Android does not bring the VPN up, and says nothing.
Lost ==
  /\ faults < MaxFaults /\ faults' = faults + 1 /\ intents' = Tail(intents)
  /\ UNCHANGED <<alive, tunOpen, events, tuns, live>>

Deliver ==
  /\ intents # <<>>
  /\ LET p == Head(intents)
     IN  \/ p.i = "start" /\ Lost
         \/ p.i \in {"start", "foreground", "stopVpn"} /\ (Refused \/ Commanded(p))
         \/ p.i = "button" /\ ButtonPressed
         \/ p.i = "stop" /\ Destroyed
  /\ UNCHANGED <<ctlVars, keep, polling, consentVars, revoked, draining, acts>>

PressStop ==
  /\ alive /\ Acts(1) /\ intents' = Append(intents, [i |-> "button"])
  /\ UNCHANGED <<ctlVars, keep, polling, consentVars, serviceVars, events, tunVars, faults>>

\* The user turns the VPN off in the settings, or another app takes it: the interface is gone,
\* and the service is told on a binder thread.
Revoke ==
  /\ live # 0 /\ live \in tuns /\ alive /\ Acts(1)
  /\ live' = 0 /\ revoked' = TRUE /\ granted' \in BOOLEAN
  /\ UNCHANGED <<ctlVars, keep, polling, dialog, consent, awaiting, intents, alive, tunOpen,
                 events, tuns, draining, faults>>

OnRevoke ==
  /\ revoked /\ revoked' = FALSE
  /\ IF alive
     THEN CloseTun /\ intents' = Append(intents, [i |-> "stop"])
     ELSE UNCHANGED <<tunOpen, events, intents>>
  /\ UNCHANGED <<ctlVars, keep, polling, consentVars, alive, tunVars, acts, faults>>

Answer ==
  /\ dialog /\ dialog' = FALSE
  /\ \E yes \in BOOLEAN : granted' = (granted \/ yes) /\ consent' = IF yes THEN 1 ELSE 2
  /\ UNCHANGED <<ctlVars, keep, polling, awaiting, intents, serviceVars, events, tunVars,
                 acts, faults>>

------------------------------------------------------------------------------
\* The relay of a tun (relay::run) ends when told to, or when its interface goes away; either
\* way the descriptor is closed. The reason goes to the slot of its own session.

Closed(t) ==
  tuns' = tuns \ {t} /\ draining' = draining \ {t} /\ live' = IF live = t THEN 0 ELSE live

RelayStops ==
  /\ \E t \in draining :
       /\ Closed(t)
       /\ \/ UNCHANGED error
          \/ t # live /\ t = owner /\ error' = t
  /\ UNCHANGED <<status, pending, foreground, overdue, relay, owner, asked, proxy, crossed, keep,
                 polling, consentVars, intents, serviceVars, events, acts, faults>>

RelayFails ==
  /\ relay \in tuns /\ relay \notin draining
  /\ \/ relay # live /\ UNCHANGED faults
     \/ relay = live /\ faults < MaxFaults /\ faults' = faults + 1
  /\ Closed(relay) /\ error' = relay
  /\ UNCHANGED <<status, pending, foreground, overdue, relay, owner, asked, proxy, crossed, keep,
                 polling, consentVars, intents, serviceVars, events, acts>>

------------------------------------------------------------------------------
Next ==
  \/ User \/ ProxyFails \/ PressStop \/ Revoke \/ Answer
  \/ Frame \/ Elapse
  \/ Deliver \/ OnRevoke
  \/ RelayStops \/ RelayFails

\* Frames go on, Android delivers what it was sent, relays stop when told to, time passes.
Spec ==
  /\ Init /\ [][Next]_vpnVars
  /\ WF_vpnVars(Frame) /\ WF_vpnVars(Elapse) /\ WF_vpnVars(Deliver) /\ WF_vpnVars(OnRevoke)
  /\ WF_vpnVars(RelayStops) /\ WF_vpnVars(RelayFails /\ relay # live)

------------------------------------------------------------------------------
\* Types: a start is pending only while one is asked for, a relay is held only while Running, for
\* the session its error slot was made for, and what drains still has its descriptor.
VpnTypeOK ==
  /\ status \in Statuses
  /\ pending \in 0..asked /\ pending # 0 => status \in {"Requesting", "Starting"}
  /\ relay # 0 => status = "Running" /\ relay = owner /\ relay \notin draining
  /\ draining \subseteq tuns /\ tuns \subseteq 1..asked
  /\ polling \in Statuses \cup {"no"}
  /\ {foreground, overdue, keep, dialog, awaiting, granted, alive, tunOpen, revoked}
       \subseteq BOOLEAN

\* Nothing is under way between app, service and relays.
Quiet == intents = <<>> /\ events = <<>> /\ error = 0 /\ ~revoked /\ draining = {}
         /\ (relay # 0 => relay = live)

\* With nothing under way, the service has a tun exactly while the app says Running, and the only
\* open descriptor is that of the running relay.
ServiceAgrees ==
  Quiet /\ ~crossed =>
    /\ tunOpen <=> status = "Running"
    /\ tuns = IF status = "Running" THEN {relay} ELSE {}

\* The tun of a capture that has stopped or failed is given back.
TunIsGivenBack == []<>(IsOn(status) \/ tuns = {})

\* Every start comes to an end: it runs, is stopped, or fails.
StartEnds == (status = "Starting") ~> (status # "Starting")
=============================================================================
