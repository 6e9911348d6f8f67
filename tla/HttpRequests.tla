---------------------------- MODULE HttpRequests ----------------------------
(***************************************************************************)
(* The HTTP requests of the plugins (crates/plugin-host, net_ops.rs).      *)
(* Each request has a thread that performs it and stores the result in the *)
(* request's slot, if the slot is still there: a poll that found the       *)
(* result, or a cancel, has removed it.  A response is abstracted to the   *)
(* request it answers.                                                     *)
(***************************************************************************)
EXTENDS Naturals, Functions

CONSTANTS
  Requests,   (* the http_request calls                                    *)
  None        (* no id, no result                                          *)

\* What the constants are.
HttpAssumption == None \notin Requests \cup Nat

VARIABLES
  nextId,     (* NetHub::next_id                                           *)
  slots,      (* NetHub::http: id -> "Pending" or a result                 *)
  idOf,       (* the id each request's caller holds, None before the call  *)
  thread,     (* the thread of a request: "none", "running" or "done"      *)
  told,       (* history: the results polls returned, for each request     *)
  given       (* requests whose caller polled an end, or cancelled         *)

httpVars == <<nextId, slots, idOf, thread, told, given>>

Ids == Nat \ {0}
Results == [of : Requests, ok : BOOLEAN]
Pending == [of |-> None, ok |-> FALSE]

\* Every variable has its type; ids start at 1 and a slot's id was handed out (new_id).
TypeOK ==
  /\ nextId \in Nat
  /\ slots \in [DOMAIN slots -> Results \cup {Pending}]
  /\ DOMAIN slots \subseteq 1..nextId
  /\ idOf \in [Requests -> Ids \cup {None}]
  /\ thread \in [Requests -> {"none", "running", "done"}]
  /\ told \in [Requests -> SUBSET Results]
  /\ given \subseteq Requests

Init ==
  /\ nextId = 0 /\ slots = << >>
  /\ idOf = [r \in Requests |-> None]
  /\ thread = [r \in Requests |-> "none"]
  /\ told = [r \in Requests |-> {}] /\ given = {}

Insert(id, s) == [i \in DOMAIN slots \cup {id} |-> IF i = id THEN s ELSE slots[i]]
Remove(id) == Restrict(slots, DOMAIN slots \ {id})

-----------------------------------------------------------------------------
\* Mutant: an id is handed out again once its slot is free.
SmallestFreeId == CHOOSE i \in 1..(nextId + 1) :
  i \notin DOMAIN slots /\ \A j \in 1..(i - 1) : j \in DOMAIN slots

\* new_id: one more than ever before.
NewId == nextId + 1

\* http_request: the slot is there before the thread is.  When no thread can be spawned the
\* call fails, and the slot stays.
Request(r) ==
  /\ thread[r] = "none"
  /\ nextId' = nextId + 1
  /\ slots' = Insert(NewId, Pending)
  /\ \/ thread' = [thread EXCEPT ![r] = "running"] /\ idOf' = [idOf EXCEPT ![r] = NewId]
     \/ thread' = [thread EXCEPT ![r] = "done"] /\ UNCHANGED idOf
  /\ UNCHANGED <<told, given>>

\* Mutant: the thread stores its result whether or not the slot is still there.
PerformAlways(r) ==
  /\ thread[r] = "running" /\ thread' = [thread EXCEPT ![r] = "done"]
  /\ \E ok \in BOOLEAN : slots' = Insert(idOf[r], [of |-> r, ok |-> ok])
  /\ UNCHANGED <<nextId, idOf, told, given>>

\* Mutant: the thread gives up when its request failed.
PerformOnlyOk(r) ==
  /\ thread[r] = "running" /\ thread' = [thread EXCEPT ![r] = "done"]
  /\ \E ok \in BOOLEAN :
       slots' = IF ok /\ idOf[r] \in DOMAIN slots
                THEN Insert(idOf[r], [of |-> r, ok |-> ok]) ELSE slots
  /\ UNCHANGED <<nextId, idOf, told, given>>

\* perform_http ends within its timeout, and its result goes to the slot that is still there.
Perform(r) ==
  /\ thread[r] = "running" /\ thread' = [thread EXCEPT ![r] = "done"]
  /\ \E ok \in BOOLEAN :
       slots' = IF idOf[r] \in DOMAIN slots
                THEN Insert(idOf[r], [of |-> r, ok |-> ok]) ELSE slots
  /\ UNCHANGED <<nextId, idOf, told, given>>

\* http_poll by the holder of the id.  (An id without a slot is answered with an error, and
\* nothing changes.)
Poll(r) ==
  /\ idOf[r] # None /\ r \notin given
  /\ idOf[r] \in DOMAIN slots
  /\ IF slots[idOf[r]] = Pending THEN UNCHANGED <<slots, told, given>>
     ELSE /\ told' = [told EXCEPT ![r] = @ \cup {slots[idOf[r]]}]
          /\ slots' = Remove(idOf[r])
          /\ given' = given \cup {r}
  /\ UNCHANGED <<nextId, idOf, thread>>

\* http_cancel.
Cancel(r) ==
  /\ idOf[r] # None /\ r \notin given
  /\ slots' = Remove(idOf[r]) /\ given' = given \cup {r}
  /\ UNCHANGED <<nextId, idOf, thread, told>>

Next == \E r \in Requests : Request(r) \/ Perform(r) \/ Poll(r) \/ Cancel(r)

Spec == Init /\ [][Next]_httpVars

-----------------------------------------------------------------------------
(* Properties.                                                             *)

\* A request is answered by its own result: the late result of a cancelled request never
\* lands in the slot of another one (new_id, the thread of http_request, http_cancel).
AnswersItsRequest == \A r \in Requests : told[r] \subseteq {res \in Results : res.of = r}

\* A slot nobody can poll any more holds no response: the late result of a cancelled request
\* is dropped, not kept for ever (the thread of http_request, net_ops.rs:86).
NoResponseIsStranded ==
  \A id \in DOMAIN slots :
    slots[id] # Pending => \E r \in Requests \ given : idOf[r] = id

\* Every request that got an id and is not cancelled is told its end (perform_http's timeout,
\* the thread of http_request, http_poll).
EveryRequestEnds == \A r \in Requests : idOf[r] # None ~> r \in given
=============================================================================
