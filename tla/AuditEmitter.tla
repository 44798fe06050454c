------------------------------ MODULE AuditEmitter ------------------------------
(*****************************************************************************)
(* audit: AuditEmitter, used by several goroutines.  Emit copies the         *)
(* subscribers under the read lock and then calls one after another under no *)
(* lock, so subscriptions come and go between two calls of OnEvent.          *)
(*                                                                           *)
(* A subscriber is an object with an ID; two objects may have the same ID,   *)
(* one taking the other's place.  What OnEvent does is the subscriber's: it  *)
(* may fail or panic, which Emit ignores.  Calls that are refused (no        *)
(* context, no subscriber, an ID present or absent) change nothing.          *)
(*****************************************************************************)
EXTENDS Integers, Sequences, FiniteSets, Functions

CONSTANTS
  Emitters,       \* goroutines that emit
  Subscribers,    \* subscriber objects: [id, obj, panics]
  MaxEvents,      \* bound on the events emitted
  MaxChanges      \* bound on the changes of the subscriptions

VARIABLES
  subscribers,    \* the map: ID -> object
  pc,             \* where each emitter is
  subs,           \* the objects each emitter has still to call
  event,          \* the event each emitter delivers, an index of log
  log,            \* history: the events
  heard,          \* history: what each object was called with
  changes         \* changes of the subscriptions so far

vars == <<subscribers, pc, subs, event, log, heard, changes>>

Empty == [id \in {} |-> id]

Init ==
  /\ subscribers = Empty
  /\ pc = [e \in Emitters |-> "idle"]
  /\ subs = [e \in Emitters |-> {}]
  /\ event = [e \in Emitters |-> 0]
  /\ log = <<>>
  /\ heard = [s \in Subscribers |-> <<>>]
  /\ changes = 0

Active(k) == \E e \in Emitters : pc[e] # "idle" /\ event[e] = k

-----------------------------------------------------------------------------

\* uuid.NewString: an identifier that no event has.
NewString == [generated |-> Len(log) + 1]

\* An event with an ID of its caller's, or with none: Emit gives it one, once.
Emit(e, id) ==
  /\ pc[e] = "idle" /\ Len(log) < MaxEvents
  /\ log' = Append(log, [id |-> IF id = "" THEN NewString ELSE [given |-> id],
                         throughout |-> Range(subscribers), sometime |-> Range(subscribers)])
  /\ event' = [event EXCEPT ![e] = Len(log) + 1]
  /\ pc' = [pc EXCEPT ![e] = "snapshot"]
  /\ UNCHANGED <<subscribers, subs, heard, changes>>

\* Under the read lock.
Snapshot(e) ==
  /\ pc[e] = "snapshot"
  /\ subs' = [subs EXCEPT ![e] = Range(subscribers)]
  /\ pc' = [pc EXCEPT ![e] = "deliver"]
  /\ UNCHANGED <<subscribers, event, log, heard, changes>>

\* Faulty: the recover is around the loop, so that a panic ends it.
OnEventRecoverOutside(e, s) ==
  /\ pc[e] = "deliver" /\ s \in subs[e]
  /\ heard' = [heard EXCEPT ![s] = Append(@, [event |-> event[e], id |-> log[event[e]].id])]
  /\ subs' = [subs EXCEPT ![e] = IF s.panics THEN {} ELSE @ \ {s}]
  /\ UNCHANGED <<subscribers, pc, event, log, changes>>

\* One call, in map order; its error or panic is dropped.
OnEvent(e, s) ==
  /\ pc[e] = "deliver" /\ s \in subs[e]
  /\ heard' = [heard EXCEPT ![s] = Append(@, [event |-> event[e], id |-> log[event[e]].id])]
  /\ subs' = [subs EXCEPT ![e] = @ \ {s}]
  /\ UNCHANGED <<subscribers, pc, event, log, changes>>

Return(e) ==
  /\ pc[e] = "deliver" /\ subs[e] = {}
  /\ pc' = [pc EXCEPT ![e] = "idle"]
  /\ UNCHANGED <<subscribers, subs, event, log, heard, changes>>

\* Under the lock; an ID that is taken is refused.
Subscribe(s) ==
  /\ changes < MaxChanges
  /\ s.id \notin DOMAIN subscribers
  /\ subscribers' = [id \in DOMAIN subscribers \union {s.id} |->
                       IF id = s.id THEN s ELSE subscribers[id]]
  /\ log' = [k \in DOMAIN log |-> IF Active(k) THEN [log[k] EXCEPT !.sometime = @ \union {s}] ELSE log[k]]
  /\ changes' = changes + 1
  /\ UNCHANGED <<pc, subs, event, heard>>

Unsubscribe(id) ==
  /\ changes < MaxChanges
  /\ id \in DOMAIN subscribers
  /\ subscribers' = Restrict(subscribers, DOMAIN subscribers \ {id})
  /\ log' = [k \in DOMAIN log |->
               IF Active(k) THEN [log[k] EXCEPT !.throughout = @ \ {subscribers[id]}] ELSE log[k]]
  /\ changes' = changes + 1
  /\ UNCHANGED <<pc, subs, event, heard>>

Done ==
  /\ Len(log) = MaxEvents /\ changes = MaxChanges /\ \A e \in Emitters : pc[e] = "idle"
  /\ UNCHANGED vars

Next ==
  \/ \E e \in Emitters :
       \/ \E id \in {"", "evt"} : Emit(e, id)
       \/ Snapshot(e) \/ Return(e)
       \/ \E s \in Subscribers : OnEvent(e, s)
  \/ \E s \in Subscribers : Subscribe(s) \/ Unsubscribe(s.id)
  \/ Done

Spec == Init /\ [][Next]_vars

-----------------------------------------------------------------------------
(* Properties.                                                               *)

Hears(k, s) == \E i \in DOMAIN heard[s] : heard[s][i].event = k

\* "Emit publishes an event to all registered subscribers": an event reaches, once
\* and under one ID, every subscriber that was registered from the call of Emit to
\* its return, whatever the others do; it reaches no subscriber that was
\* registered at no moment of it, although it may reach one after its Unsubscribe
\* has returned, or both of two that followed each other under one ID.
HeardBySubscribed ==
  /\ \A s \in Subscribers : \A i, j \in DOMAIN heard[s] :
       heard[s][i].event = heard[s][j].event => i = j
  /\ \A s \in Subscribers : \A i \in DOMAIN heard[s] :
       LET k == heard[s][i].event
       IN  s \in log[k].sometime /\ heard[s][i].id = log[k].id
  /\ \A k \in DOMAIN log, s \in Subscribers :
       ~Active(k) /\ s \in log[k].throughout => Hears(k, s)
=============================================================================
