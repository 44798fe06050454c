----------------------------- MODULE SkillRegistry -----------------------------
(*****************************************************************************)
(* registry/skills: InMemoryRegistry, called by several goroutines.  The     *)
(* store and the list of callbacks have a lock each, and the callbacks run   *)
(* under neither: a Register or Unregister that succeeds is a change of the  *)
(* store, then a snapshot of the callbacks, then one call after another, and *)
(* other calls come in between.                                              *)
(*                                                                           *)
(* A subscription is a position of the callbacks slice.  What a callback does*)
(* is the subscriber's (external); it may panic, which fireCallbacks         *)
(* recovers.  Refused calls (a nil or invalid skill, an ID present or absent)*)
(* change nothing.  Get, List, ListByPermission and Validate only read.      *)
(*****************************************************************************)
EXTENDS Integers, Sequences, FiniteSets

CONSTANTS
  Callers,      \* goroutines that use the registry
  SkillIDs,
  MaxSubs,      \* bound on the subscriptions
  MaxChanges    \* bound on the changes of the store

ASSUME RegistryAssumption == MaxSubs \in Nat /\ MaxChanges \in Nat

VARIABLES
  store,       \* IDs of the registered skills
  subs,        \* for every subscription, whether its callback panics
  pc,          \* where each caller is
  change,      \* the change each caller announces
  cbs,         \* the callbacks each caller has still to fire
  log,         \* history: the changes, in the order the store saw them
  got,         \* history: the changes each subscription was called with
  overlapped   \* history: IDs changed while another change of them was announced

vars == <<store, subs, pc, change, cbs, log, got, overlapped>>

Init ==
  /\ store = {}
  /\ subs = <<>>
  /\ pc = [c \in Callers |-> "idle"]
  /\ change = [c \in Callers |-> 0]
  /\ cbs = [c \in Callers |-> <<>>]
  /\ log = <<>>
  /\ got = <<>>
  /\ overlapped = {}

-----------------------------------------------------------------------------

Announcing(id) == \E c \in Callers : pc[c] # "idle" /\ log[change[c]].id = id

\* The store has changed; the caller goes on to announce it.
Changed(c, type, id) ==
  /\ log' = Append(log, [type |-> type, id |-> id, since |-> Len(subs)])
  /\ change' = [change EXCEPT ![c] = Len(log) + 1]
  /\ pc' = [pc EXCEPT ![c] = "snapshot"]
  /\ overlapped' = IF Announcing(id) THEN overlapped \union {id} ELSE overlapped
  /\ UNCHANGED <<subs, cbs, got>>

Bounded == Len(log) < MaxChanges

\* Faulty: Put instead of PutIfAbsent.
RegisterPut(c, id) ==
  /\ Bounded
  /\ pc[c] = "idle"
  /\ store' = store \union {id}
  /\ Changed(c, "register", id)

\* MapStore.PutIfAbsent, under the store's lock.
Register(c, id) ==
  /\ Bounded
  /\ pc[c] = "idle"
  /\ id \notin store
  /\ store' = store \union {id}
  /\ Changed(c, "register", id)

\* Faulty: announced as a registration.
UnregisterWrongEvent(c, id) ==
  /\ Bounded
  /\ pc[c] = "idle"
  /\ id \in store
  /\ store' = store \ {id}
  /\ Changed(c, "register", id)

\* MapStore.DeleteIfExists, under the store's lock.
Unregister(c, id) ==
  /\ Bounded
  /\ pc[c] = "idle"
  /\ id \in store
  /\ store' = store \ {id}
  /\ Changed(c, "unregister", id)

\* Under the callbacks' lock; there is no way to unsubscribe.
Subscribe(panics) ==
  /\ Len(subs) < MaxSubs
  /\ subs' = Append(subs, panics)
  /\ got' = Append(got, <<>>)
  /\ UNCHANGED <<store, pc, change, cbs, log, overlapped>>

\* Under the callbacks' lock.
snapshotCallbacks(c) ==
  /\ pc[c] = "snapshot"
  /\ pc' = [pc EXCEPT ![c] = "fire"]
  /\ cbs' = [cbs EXCEPT ![c] = [i \in 1..Len(subs) |-> i]]
  /\ UNCHANGED <<store, subs, change, log, got, overlapped>>

\* Faulty: the recover is around the whole loop, so a panic ends it.
fireRecoverOutside(c) ==
  /\ pc[c] = "fire"
  /\ cbs[c] # <<>>
  /\ got' = [got EXCEPT ![Head(cbs[c])] = Append(@, change[c])]
  /\ cbs' = [cbs EXCEPT ![c] = IF subs[Head(@)] THEN <<>> ELSE Tail(@)]
  /\ UNCHANGED <<store, subs, pc, change, log, overlapped>>

\* One callback, under no lock; a panic is recovered and the loop goes on.
fireCallback(c) ==
  /\ pc[c] = "fire"
  /\ cbs[c] # <<>>
  /\ got' = [got EXCEPT ![Head(cbs[c])] = Append(@, change[c])]
  /\ cbs' = [cbs EXCEPT ![c] = Tail(@)]
  /\ UNCHANGED <<store, subs, pc, change, log, overlapped>>

\* Faulty: a call waits for the announcements of the others.
ReturnWaits(c) ==
  /\ pc[c] = "fire"
  /\ cbs[c] = <<>>
  /\ \A d \in Callers \ {c} : pc[d] = "idle"
  /\ pc' = [pc EXCEPT ![c] = "idle"]
  /\ UNCHANGED <<store, subs, change, cbs, log, got, overlapped>>

Return(c) ==
  /\ pc[c] = "fire"
  /\ cbs[c] = <<>>
  /\ pc' = [pc EXCEPT ![c] = "idle"]
  /\ UNCHANGED <<store, subs, change, cbs, log, got, overlapped>>

Announce(c) == snapshotCallbacks(c) \/ fireCallback(c) \/ Return(c)

Quiet == \A c \in Callers : pc[c] = "idle"

\* The bounds of the model are used up and every call has returned.
Done == ~Bounded /\ Len(subs) = MaxSubs /\ Quiet /\ UNCHANGED vars

Next ==
  \/ \E c \in Callers : Announce(c) \/ \E id \in SkillIDs : Register(c, id) \/ Unregister(c, id)
  \/ \E p \in BOOLEAN : Subscribe(p)
  \/ Done

Spec == Init /\ [][Next]_vars

\* The scheduler runs a goroutine inside a call on; callbacks return or panic.
Fairness == \A c \in Callers : WF_vars(Announce(c))

FairSpec == Spec /\ Fairness

-----------------------------------------------------------------------------
(* Properties.                                                               *)

Times(k, s) == Cardinality({i \in 1..Len(got[s]) : got[s][i] = k})
Pending(k, s) ==
  \E c \in Callers : /\ pc[c] # "idle" /\ change[c] = k
                     /\ pc[c] = "fire" => \E i \in 1..Len(cbs[c]) : cbs[c][i] = s

\* Every change of the store is announced exactly once to every callback that was
\* subscribed when it happened, and at most once to one subscribed later, even if
\* callbacks panic and calls overlap.
AnnouncedOnce ==
  \A s \in 1..Len(subs), k \in 1..Len(log) :
    /\ Times(k, s) <= 1
    /\ log[k].since >= s => (Times(k, s) = 0 <=> Pending(k, s))

\* Of two calls that register the same ID, or that remove it, at most one gets
\* through: the store's changes to an ID alternate, and the store is their result.
ChangesAlternate ==
  \A k \in 1..Len(log) :
    LET earlier == {j \in 1..k - 1 : log[j].id = log[k].id}
        later == {j \in k + 1..Len(log) : log[j].id = log[k].id}
    IN  /\ log[k].type = IF Cardinality(earlier) % 2 = 0 THEN "register" ELSE "unregister"
        /\ later = {} => (log[k].id \in store <=> log[k].type = "register")

\* A subscriber that mirrors the registry by applying the events in the order it
\* gets them is right, once all calls have returned, about every ID it has heard
\* of, unless two changes of that ID overlapped: then the events may have come
\* the wrong way round and nothing ever corrects the mirror.
MirrorUnlessOverlap ==
  Quiet =>
    \A s \in 1..Len(subs) : \A i \in 1..Len(got[s]) :
      LET e == log[got[s][i]]
      IN  (\A j \in i + 1..Len(got[s]) : log[got[s][j]].id # e.id) /\ e.id \notin overlapped
            => (e.type = "register" <=> e.id \in store)

\* A call that changed the store returns: no lock is held while callbacks run, so
\* none waits for another.
CallsReturn == \A c \in Callers : pc[c] # "idle" ~> pc[c] = "idle"
=============================================================================
