----------------------------- MODULE ServicesProofs -----------------------------
(*****************************************************************************)
(* Proofs about the services.  First the skill registry, for any number of   *)
(* callers, skills, subscriptions and changes: AlternateInv ties the store   *)
(* to the number of changes of each ID; AnnounceInv accounts for every       *)
(* announcement, made or still owed by a caller; OrderInv says that the      *)
(* announcements of an ID whose changes never overlapped come in the order   *)
(* of the changes.  Then the emitter, the router and the capabilities, each  *)
(* with an invariant that reads its history; then the four services that     *)
(* compute something over a list (vectors, chunks, amounts, digits), with    *)
(* induction over the positions of the list.  Last, the services together.   *)
(*****************************************************************************)
EXTENDS Services, SequenceTheorems, FiniteSetTheorems, WellFoundedInduction, TLAPS

Has(q, x) == \E i \in 1..Len(q) : q[i] = x
Injective(q) == \A i, j \in 1..Len(q) : q[i] = q[j] => i = j

Event == [type: {"register", "unregister"}, id: SkillIDs, since: Nat]

TypeOK ==
  /\ store \subseteq SkillIDs
  /\ subs \in Seq(BOOLEAN)
  /\ pc \in [Callers -> {"idle", "snapshot", "fire"}]
  /\ change \in [Callers -> Nat]
  /\ cbs \in [Callers -> Seq(Nat)]
  /\ log \in Seq(Event)
  /\ got \in Seq(Seq(Nat)) /\ Len(got) = Len(subs)

\* The changes of an ID among the first n of a log.
Of(l, id, n) == {j \in 1..n : l[j].id = id}

AlternateInv ==
  /\ \A k \in 1..Len(log) :
       log[k].type = IF Cardinality(Of(log, log[k].id, k - 1)) % 2 = 0 THEN "register" ELSE "unregister"
  /\ \A id \in SkillIDs : id \in store <=> Cardinality(Of(log, id, Len(log))) % 2 = 1

\* Caller c will still call subscription s.
Owes(c, s) == pc[c] = "snapshot" \/ (pc[c] = "fire" /\ Has(cbs[c], s))

\* A caller inside a call announces a change of its own, to subscriptions there
\* are, each once.
CallersInv ==
  /\ \A c \in Callers : pc[c] # "idle" => change[c] \in 1..Len(log)
  /\ \A c, d \in Callers : pc[c] # "idle" /\ pc[d] # "idle" /\ change[c] = change[d] => c = d
  /\ \A c \in Callers : pc[c] = "fire" =>
       Injective(cbs[c]) /\ \A s \in Nat : Has(cbs[c], s) => s \in 1..Len(subs)

\* No subscription hears a change twice, hears one it is still owed, or misses one
\* that happened after it subscribed and that nobody owes it.
AnnounceInv ==
  /\ \A k \in 1..Len(log) : log[k].since <= Len(subs)
  /\ \A s \in 1..Len(subs) : Injective(got[s]) /\ \A k \in Nat : Has(got[s], k) => k \in 1..Len(log)
  /\ \A c \in Callers, s \in 1..Len(subs) : Owes(c, s) => ~Has(got[s], change[c])
  /\ \A s \in 1..Len(subs), k \in 1..Len(log) : log[k].since >= s /\ ~Has(got[s], k) =>
       \E c \in Callers : Owes(c, s) /\ change[c] = k

\* Of an ID whose changes never overlapped, the one being announced is the latest,
\* a subscription has heard them in order, and was there for all that follow one
\* it has heard.
OrderInv ==
  /\ \A c \in Callers : pc[c] # "idle" /\ log[change[c]].id \notin overlapped =>
       \A k \in 1..Len(log) : log[k].id = log[change[c]].id => k <= change[c]
  /\ \A s \in 1..Len(subs) : \A i, j \in 1..Len(got[s]) :
       i < j /\ log[got[s][i]].id = log[got[s][j]].id /\ log[got[s][i]].id \notin overlapped =>
         got[s][i] < got[s][j]
  /\ \A s \in 1..Len(subs), k, l \in 1..Len(log) :
       Has(got[s], k) /\ k < l /\ log[l].id = log[k].id /\ log[k].id \notin overlapped =>
         log[l].since >= s

RegistryInv == TypeOK /\ AlternateInv /\ CallersInv /\ AnnounceInv /\ OrderInv

-----------------------------------------------------------------------------
(* Sequences without repetition.                                             *)

(* What appending does to membership and repetition. *)
LEMMA AppendHas ==
  ASSUME NEW S, NEW q \in Seq(S), NEW x \in S
  PROVE  /\ \A y : Has(Append(q, x), y) <=> Has(q, y) \/ y = x
         /\ Injective(q) /\ ~Has(q, x) => Injective(Append(q, x))
<1> DEFINE r == Append(q, x)
<1>1. /\ Len(q) \in Nat /\ Len(r) = Len(q) + 1 /\ r[Len(q) + 1] = x
      /\ \A i \in 1..Len(q) : r[i] = q[i]
  OBVIOUS
<1> HIDE DEF r
<1>2. \A i : i \in 1..Len(r) <=> i \in 1..Len(q) \/ i = Len(q) + 1 BY <1>1
<1>3. \A y : Has(r, y) <=> Has(q, y) \/ y = x BY <1>1, <1>2 DEF Has
<1>4. Injective(q) /\ ~Has(q, x) => Injective(r) BY <1>1, <1>2 DEF Has, Injective
<1> QED BY <1>3, <1>4 DEF r

(* Taking the head off a sequence without repetition removes just that. *)
LEMMA TailHas ==
  ASSUME NEW S, NEW q \in Seq(S), q # <<>>, Injective(q)
  PROVE  /\ Head(q) \in S /\ Has(q, Head(q)) /\ Tail(q) \in Seq(S)
         /\ \A y : Has(Tail(q), y) <=> Has(q, y) /\ y # Head(q)
         /\ Injective(Tail(q))
<1> DEFINE r == Tail(q)
<1>1. /\ Len(q) \in Nat \ {0} /\ Head(q) = q[1] /\ Head(q) \in S
      /\ r \in Seq(S) /\ Len(r) = Len(q) - 1
      /\ \A i \in 1..Len(r) : r[i] = q[i + 1]
  BY EmptySeq, HeadTailProperties
<1> HIDE DEF r
<1>2. 1 \in 1..Len(q) /\ \A i \in 1..Len(r) : i + 1 \in 1..Len(q) /\ i + 1 # 1 BY <1>1
<1>3. \A i \in 1..Len(q) : i # 1 => i - 1 \in 1..Len(r) /\ i - 1 + 1 = i BY <1>1
<1>4. Has(q, Head(q)) BY <1>1, <1>2 DEF Has
<1>5. ASSUME NEW y, Has(r, y) PROVE Has(q, y) /\ y # Head(q)
  <2>1. PICK i \in 1..Len(r) : r[i] = y BY <1>5 DEF Has
  <2>2. i + 1 \in 1..Len(q) /\ i + 1 # 1 /\ q[i + 1] = y BY <1>1, <1>2, <2>1
  <2> QED BY <1>1, <1>2, <2>2 DEF Has, Injective
<1>6. ASSUME NEW y, Has(q, y), y # Head(q) PROVE Has(r, y)
  <2>1. PICK i \in 1..Len(q) : q[i] = y BY <1>6 DEF Has
  <2>2. i # 1 BY <1>1, <1>6, <2>1
  <2>3. i - 1 \in 1..Len(r) /\ r[i - 1] = y BY <1>1, <1>3, <2>1, <2>2
  <2> QED BY <2>3 DEF Has
<1>7. Injective(r)
  <2> SUFFICES ASSUME NEW i \in 1..Len(r), NEW j \in 1..Len(r), r[i] = r[j] PROVE i = j
    BY DEF Injective
  <2>1. q[i + 1] = q[j + 1] /\ i + 1 \in 1..Len(q) /\ j + 1 \in 1..Len(q) BY <1>1, <1>2
  <2>2. i + 1 = j + 1 BY <2>1 DEF Injective
  <2> QED BY <1>1, <2>2
<1> QED BY <1>1, <1>4, <1>5, <1>6, <1>7 DEF r

-----------------------------------------------------------------------------
(* The effect of each operation, as the proofs below use it.                 *)

\* What Register and Unregister have in common.
Change(c, type, id) ==
  /\ pc[c] = "idle" /\ type \in {"register", "unregister"} /\ id \in SkillIDs
  /\ id \in store <=> type = "unregister"
  /\ store' = IF type = "register" THEN store \union {id} ELSE store \ {id}
  /\ Changed(c, type, id)

(* A change of the store appends one event and makes its caller announce it. *)
LEMMA ChangeFacts ==
  ASSUME TypeOK, NEW c \in Callers, NEW type, NEW id, Change(c, type, id)
  PROVE  LET n == Len(log) + 1
             e == [type |-> type, id |-> id, since |-> Len(subs)]
         IN  /\ Len(log) \in Nat /\ n \in Nat /\ Len(subs) \in Nat
             /\ log' \in Seq(Event) /\ Len(log') = n /\ log'[n] = e
             /\ \A k \in 1..Len(log) : log'[k] = log[k]
             /\ \A k : k \in 1..Len(log') <=> k \in 1..Len(log) \/ k = n
             /\ n \notin 1..Len(log)
             /\ pc'[c] = "snapshot" /\ change'[c] = n
             /\ \A d \in Callers \ {c} : pc'[d] = pc[d] /\ change'[d] = change[d]
             /\ UNCHANGED <<subs, cbs, got>>
<1>1. Len(log) \in Nat /\ Len(subs) \in Nat BY DEF TypeOK
<1>2. [type |-> type, id |-> id, since |-> Len(subs)] \in Event BY <1>1 DEF Change, Event
<1>3. /\ log' = Append(log, [type |-> type, id |-> id, since |-> Len(subs)])
      /\ change' = [change EXCEPT ![c] = Len(log) + 1]
      /\ pc' = [pc EXCEPT ![c] = "snapshot"]
      /\ UNCHANGED <<subs, cbs, got>>
  BY DEF Change, Changed
<1>4. log \in Seq(Event) BY DEF TypeOK
<1>5. /\ log' \in Seq(Event) /\ Len(log') = Len(log) + 1
      /\ log'[Len(log) + 1] = [type |-> type, id |-> id, since |-> Len(subs)]
      /\ \A k \in 1..Len(log) : log'[k] = log[k]
  BY <1>2, <1>3, <1>4
<1>6. \A k : k \in 1..Len(log') <=> k \in 1..Len(log) \/ k = Len(log) + 1 BY <1>1, <1>5
<1>7. /\ pc'[c] = "snapshot" /\ change'[c] = Len(log) + 1
      /\ \A d \in Callers \ {c} : pc'[d] = pc[d] /\ change'[d] = change[d]
  BY <1>3 DEF TypeOK
<1>8. Len(log) + 1 \in Nat /\ Len(log) + 1 \notin 1..Len(log) BY <1>1
<1> QED BY <1>1, <1>3, <1>5, <1>6, <1>7, <1>8

(* A step of the registry is one of five, or changes nothing. *)
LEMMA Steps ==
  ASSUME [Next]_vars
  PROVE  \/ \E c \in Callers : \/ \E type, id : Change(c, type, id)
                               \/ snapshotCallbacks(c) \/ fireCallback(c) \/ Return(c)
         \/ \E p \in BOOLEAN : Subscribe(p)
         \/ UNCHANGED vars
<1>1. ASSUME NEW c \in Callers, NEW id \in SkillIDs, Register(c, id) \/ Unregister(c, id)
      PROVE  \E type, i : Change(c, type, i)
  <2>1. CASE Register(c, id)
    <3>1. Change(c, "register", id) BY <2>1 DEF Register, Change
    <3> QED BY <3>1
  <2>2. CASE Unregister(c, id)
    <3>1. Change(c, "unregister", id) BY <2>2 DEF Unregister, Change
    <3> QED BY <3>1
  <2> QED BY <1>1, <2>1, <2>2
<1> QED BY <1>1 DEF Next, Announce, Done

(* A callback that is fired hears the change and is no longer owed it. *)
LEMMA FireFacts ==
  ASSUME TypeOK, CallersInv, NEW c \in Callers, fireCallback(c)
  PROVE  LET h == Head(cbs[c])
         IN  /\ h \in 1..Len(subs) /\ Has(cbs[c], h)
             /\ got' \in Seq(Seq(Nat)) /\ Len(got') = Len(got)
             /\ got'[h] = Append(got[h], change[c])
             /\ \A s \in 1..Len(subs) : s # h => got'[s] = got[s]
             /\ cbs' \in [Callers -> Seq(Nat)]
             /\ Injective(cbs'[c])
             /\ \A s : Has(cbs'[c], s) <=> Has(cbs[c], s) /\ s # h
             /\ \A d \in Callers \ {c} : cbs'[d] = cbs[d]
             /\ UNCHANGED <<store, subs, pc, change, log, overlapped>>
<1> DEFINE h == Head(cbs[c])
<1>1. /\ cbs[c] \in Seq(Nat) /\ cbs[c] # <<>> /\ Injective(cbs[c])
      /\ \A s \in Nat : Has(cbs[c], s) => s \in 1..Len(subs)
  BY DEF TypeOK, CallersInv, fireCallback
<1>2. /\ h \in Nat /\ Has(cbs[c], h) /\ Tail(cbs[c]) \in Seq(Nat) /\ Injective(Tail(cbs[c]))
      /\ \A s : Has(Tail(cbs[c]), s) <=> Has(cbs[c], s) /\ s # h
  BY <1>1, TailHas
<1>3. h \in 1..Len(subs) BY <1>1, <1>2
<1>4. /\ got' = [got EXCEPT ![h] = Append(got[h], change[c])]
      /\ cbs' = [cbs EXCEPT ![c] = Tail(cbs[c])]
      /\ UNCHANGED <<store, subs, pc, change, log, overlapped>>
  BY DEF fireCallback
<1> HIDE DEF h
<1>5. got \in Seq(Seq(Nat)) /\ h \in 1..Len(got) /\ change[c] \in Nat BY <1>3 DEF TypeOK
<1>6. Append(got[h], change[c]) \in Seq(Nat)
  <2>1. got[h] \in Seq(Nat) BY <1>5, ElementOfSeq
  <2> QED BY <1>5, <2>1
<1>7. /\ got' \in Seq(Seq(Nat)) /\ Len(got') = Len(got) /\ got'[h] = Append(got[h], change[c])
      /\ \A s \in 1..Len(got) : s # h => got'[s] = got[s]
  BY <1>4, <1>5, <1>6, ExceptSeq
<1>8. /\ cbs' \in [Callers -> Seq(Nat)] /\ cbs'[c] = Tail(cbs[c])
      /\ \A d \in Callers \ {c} : cbs'[d] = cbs[d]
  BY <1>2, <1>4 DEF TypeOK
<1>9. Len(got) = Len(subs) BY DEF TypeOK
<1> QED BY <1>2, <1>3, <1>4, <1>7, <1>8, <1>9 DEF h

(* A new subscription has heard nothing. *)
LEMMA SubscribeFacts ==
  ASSUME TypeOK, NEW p \in BOOLEAN, Subscribe(p)
  PROVE  LET n == Len(subs) + 1
         IN  /\ Len(subs) \in Nat
             /\ subs' \in Seq(BOOLEAN) /\ got' \in Seq(Seq(Nat)) /\ Len(got') = n /\ Len(subs') = n
             /\ got'[n] = <<>> /\ \A x : ~Has(got'[n], x)
             /\ \A s \in 1..Len(subs) : got'[s] = got[s]
             /\ \A s : s \in 1..Len(subs') <=> s \in 1..Len(subs) \/ s = n
             /\ UNCHANGED <<store, pc, change, cbs, log, overlapped>>
<1>0. subs \in Seq(BOOLEAN) /\ got \in Seq(Seq(Nat)) /\ Len(got) = Len(subs) /\ Len(subs) \in Nat
  BY DEF TypeOK
<1>1. subs' = Append(subs, p) /\ got' = Append(got, <<>>)
      /\ UNCHANGED <<store, pc, change, cbs, log, overlapped>>
  BY DEF Subscribe
<1>2. subs' \in Seq(BOOLEAN) /\ Len(subs') = Len(subs) + 1 BY <1>0, <1>1
<1>3. <<>> \in Seq(Nat) OBVIOUS
<1>4. /\ got' \in Seq(Seq(Nat)) /\ Len(got') = Len(got) + 1 /\ got'[Len(got) + 1] = <<>>
      /\ \A s \in 1..Len(got) : got'[s] = got[s]
  BY <1>0, <1>1, <1>3, AppendProperties
<1>5. \A x : ~Has(<<>>, x) BY DEF Has
<1>6. \A s : s \in 1..Len(subs') <=> s \in 1..Len(subs) \/ s = Len(subs) + 1 BY <1>0, <1>2
<1> QED BY <1>0, <1>1, <1>2, <1>4, <1>5, <1>6

(* The snapshot holds every subscription, once. *)
LEMMA SnapshotFacts ==
  ASSUME TypeOK, NEW c \in Callers, snapshotCallbacks(c)
  PROVE  /\ pc[c] = "snapshot" /\ pc'[c] = "fire" /\ pc' \in [Callers -> {"idle", "snapshot", "fire"}]
         /\ cbs' \in [Callers -> Seq(Nat)]
         /\ \A d \in Callers \ {c} : pc'[d] = pc[d] /\ cbs'[d] = cbs[d]
         /\ Injective(cbs'[c])
         /\ \A s : Has(cbs'[c], s) <=> s \in 1..Len(subs)
         /\ UNCHANGED <<store, subs, change, log, got, overlapped>>
<1> DEFINE all == [i \in 1..Len(subs) |-> i]
<1>0. Len(subs) \in Nat BY DEF TypeOK
<1>1. all \in Seq(Nat) /\ Len(all) = Len(subs) BY <1>0
<1>2. \A i \in 1..Len(subs) : all[i] = i OBVIOUS
<1>3. cbs' = [cbs EXCEPT ![c] = all] BY DEF snapshotCallbacks
<1> HIDE DEF all
<1>4. Injective(all) /\ \A s : Has(all, s) <=> s \in 1..Len(subs) BY <1>1, <1>2 DEF Injective, Has
<1> QED BY <1>1, <1>3, <1>4 DEF TypeOK, snapshotCallbacks

-----------------------------------------------------------------------------
(* Every part of the invariant is preserved.                                 *)

(* Every variable keeps its type. *)
LEMMA StepTypeOK == TypeOK /\ CallersInv /\ [Next]_vars => TypeOK'
<1> SUFFICES ASSUME TypeOK, CallersInv, [Next]_vars PROVE TypeOK'
  OBVIOUS
<1>1. ASSUME NEW c \in Callers, NEW type, NEW id, Change(c, type, id) PROVE TypeOK'
  <2>1. /\ log' \in Seq(Event) /\ Len(log) + 1 \in Nat /\ UNCHANGED <<subs, cbs, got>>
    BY <1>1, ChangeFacts
  <2>2. /\ change' = [change EXCEPT ![c] = Len(log) + 1] /\ pc' = [pc EXCEPT ![c] = "snapshot"]
        /\ store' \subseteq SkillIDs
    BY <1>1 DEF Change, Changed, TypeOK
  <2> QED BY <2>1, <2>2 DEF TypeOK
<1>2. ASSUME NEW c \in Callers, snapshotCallbacks(c) PROVE TypeOK'
  BY <1>2, SnapshotFacts DEF TypeOK
<1>3. ASSUME NEW c \in Callers, fireCallback(c) PROVE TypeOK'
  BY <1>3, FireFacts DEF TypeOK
<1>4. ASSUME NEW c \in Callers, Return(c) PROVE TypeOK' BY <1>4 DEF Return, TypeOK
<1>5. ASSUME NEW p \in BOOLEAN, Subscribe(p) PROVE TypeOK' BY <1>5, SubscribeFacts DEF TypeOK
<1>6. CASE UNCHANGED vars BY <1>6 DEF vars, TypeOK
<1> QED BY <1>1, <1>2, <1>3, <1>4, <1>5, <1>6, Steps

(* The changes of an ID are finitely many. *)
LEMMA OfFacts ==
  ASSUME NEW l, NEW n \in Nat, NEW id
  PROVE  IsFiniteSet(Of(l, id, n)) /\ Cardinality(Of(l, id, n)) \in Nat
<1>1. IsFiniteSet(1..n) BY FS_Interval
<1>2. Of(l, id, n) \in SUBSET (1..n) BY DEF Of
<1>3. IsFiniteSet(Of(l, id, n)) BY <1>1, <1>2, FS_Subset
<1> QED BY <1>3, FS_CardinalityType

(* A change alternates with the last one of its ID. *)
LEMMA StepAlternate == TypeOK /\ AlternateInv /\ [Next]_vars => AlternateInv'
<1> SUFFICES ASSUME TypeOK, AlternateInv, [Next]_vars PROVE AlternateInv'
  OBVIOUS
<1>1. CASE UNCHANGED <<store, log>> BY <1>1 DEF AlternateInv
<1>2. ASSUME NEW c \in Callers, NEW type, NEW id, Change(c, type, id) PROVE AlternateInv'
  <2>1. PICK m \in Nat : m = Len(log) BY DEF TypeOK
  <2>2. PICK n \in Nat : n = m + 1 BY <2>1
  <2>3. /\ Len(log') = n
        /\ log'[n] = [type |-> type, id |-> id, since |-> Len(subs)]
        /\ \A k \in 1..m : log'[k] = log[k]
        /\ \A k : k \in 1..n <=> k \in 1..m \/ k = n
        /\ n \notin 1..m
    BY <1>2, <2>1, <2>2, ChangeFacts
  <2>4. log'[n].id = id /\ log'[n].type = type BY <2>3
  <2>5. \A k \in 0..m : \A i : Of(log', i, k) = Of(log, i, k)
    <3>1. \A k \in 0..m : \A j \in 1..k : j \in 1..m BY <2>1
    <3> QED BY <2>3, <3>1 DEF Of
  <2>6. /\ Of(log', id, n) = Of(log, id, m) \union {n}
        /\ \A i : i # id => Of(log', i, n) = Of(log, i, m)
    BY <2>3, <2>4 DEF Of
  <2>7. Cardinality(Of(log', id, n)) = Cardinality(Of(log, id, m)) + 1
    <3>1. n \notin Of(log, id, m) BY <2>3 DEF Of
    <3>2. IsFiniteSet(Of(log, id, m)) BY OfFacts
    <3> QED BY <2>6, <3>1, <3>2, FS_AddElement
  <2>8. /\ id \in SkillIDs /\ type \in {"register", "unregister"}
        /\ id \in store <=> type = "unregister"
        /\ store' = IF type = "register" THEN store \union {id} ELSE store \ {id}
    BY <1>2 DEF Change
  <2>9. id \in store <=> Cardinality(Of(log, id, m)) % 2 = 1 BY <2>1, <2>8 DEF AlternateInv
  <2>10. PICK count \in Nat : count = Cardinality(Of(log, id, m)) BY OfFacts
  <2>11. (count % 2 = 0 <=> (count + 1) % 2 = 1) /\ (count % 2 = 0 <=> count % 2 # 1) BY <2>10
  <2>12. ASSUME NEW i \in SkillIDs PROVE i \in store' <=> Cardinality(Of(log', i, n)) % 2 = 1
    <3>1. CASE i = id BY <2>7, <2>8, <2>9, <2>10, <2>11, <3>1
    <3>2. CASE i # id
      <4>1. Of(log', i, n) = Of(log, i, m) /\ (i \in store' <=> i \in store) BY <2>6, <2>8, <3>2
      <4> QED BY <2>1, <4>1 DEF AlternateInv
    <3> QED BY <3>1, <3>2
  <2>13. ASSUME NEW k \in 1..n
         PROVE  log'[k].type = IF Cardinality(Of(log', log'[k].id, k - 1)) % 2 = 0
                               THEN "register" ELSE "unregister"
    <3>1. CASE k \in 1..m
      <4>1. k - 1 \in 0..m /\ log'[k] = log[k] BY <2>1, <2>3, <3>1
      <4>2. Of(log', log[k].id, k - 1) = Of(log, log[k].id, k - 1) BY <2>5, <4>1
      <4> QED BY <2>1, <3>1, <4>1, <4>2 DEF AlternateInv
    <3>2. CASE k = n
      <4>1. k - 1 = m /\ m \in 0..m BY <2>1, <2>2, <3>2
      <4>2. Of(log', id, m) = Of(log, id, m) BY <2>5, <4>1
      <4> QED BY <2>4, <2>8, <2>9, <2>10, <2>11, <3>2, <4>1, <4>2
    <3> QED BY <2>3, <3>1, <3>2
  <2> QED BY <2>3, <2>12, <2>13 DEF AlternateInv
<1> QED BY <1>1, <1>2, Steps DEF snapshotCallbacks, fireCallback, Return, Subscribe, vars

(* Two callers never announce the same change, and none calls a subscription
   twice or one that does not exist. *)
LEMMA StepCallers == TypeOK /\ CallersInv /\ [Next]_vars => CallersInv'
<1> SUFFICES ASSUME TypeOK, CallersInv, [Next]_vars PROVE CallersInv'
  OBVIOUS
<1>1. ASSUME NEW c \in Callers, NEW type, NEW id, Change(c, type, id) PROVE CallersInv'
  <2>1. PICK n : n = Len(log) + 1 OBVIOUS
  <2>2. /\ \A k : k \in 1..Len(log') <=> k \in 1..Len(log) \/ k = n
        /\ n \notin 1..Len(log)
        /\ pc'[c] = "snapshot" /\ change'[c] = n
        /\ \A d \in Callers \ {c} : pc'[d] = pc[d] /\ change'[d] = change[d]
        /\ cbs' = cbs /\ subs' = subs
    BY <1>1, <2>1, ChangeFacts
  <2>3. \A d \in Callers : pc'[d] # "idle" => change'[d] \in 1..Len(log')
    BY <2>2 DEF CallersInv
  <2>4. \A d, e \in Callers : pc'[d] # "idle" /\ pc'[e] # "idle" /\ change'[d] = change'[e] => d = e
    BY <2>2 DEF CallersInv
  <2>5. \A d \in Callers : pc'[d] = "fire" =>
          Injective(cbs'[d]) /\ \A s \in Nat : Has(cbs'[d], s) => s \in 1..Len(subs')
    BY <2>2 DEF CallersInv
  <2> QED BY <2>3, <2>4, <2>5 DEF CallersInv
<1>2. ASSUME NEW c \in Callers, snapshotCallbacks(c) PROVE CallersInv'
  <2>1. /\ pc[c] = "snapshot" /\ pc'[c] = "fire"
        /\ \A d \in Callers \ {c} : pc'[d] = pc[d] /\ cbs'[d] = cbs[d]
        /\ Injective(cbs'[c]) /\ \A s : Has(cbs'[c], s) <=> s \in 1..Len(subs)
        /\ subs' = subs /\ change' = change /\ log' = log
    BY <1>2, SnapshotFacts
  <2> QED BY <2>1 DEF CallersInv
<1>3. ASSUME NEW c \in Callers, fireCallback(c) PROVE CallersInv'
  <2>1. PICK h : h = Head(cbs[c]) OBVIOUS
  <2>2. /\ Injective(cbs'[c]) /\ \A s : Has(cbs'[c], s) <=> Has(cbs[c], s) /\ s # h
        /\ \A d \in Callers \ {c} : cbs'[d] = cbs[d]
        /\ subs' = subs /\ pc' = pc /\ change' = change /\ log' = log
    BY <1>3, <2>1, FireFacts
  <2> QED BY <2>2 DEF CallersInv
<1>4. ASSUME NEW c \in Callers, Return(c) PROVE CallersInv'
  <2>1. /\ \A d \in Callers : pc'[d] # "idle" => pc'[d] = pc[d]
        /\ UNCHANGED <<subs, change, cbs, log>>
    BY <1>4 DEF Return, TypeOK
  <2> QED BY <2>1 DEF CallersInv
<1>5. ASSUME NEW p \in BOOLEAN, Subscribe(p) PROVE CallersInv'
  <2>1. /\ \A s : s \in 1..Len(subs) => s \in 1..Len(subs')
        /\ UNCHANGED <<pc, change, cbs, log>>
    BY <1>5, SubscribeFacts
  <2> QED BY <2>1 DEF CallersInv
<1>6. CASE UNCHANGED vars BY <1>6 DEF vars, CallersInv
<1> QED BY <1>1, <1>2, <1>3, <1>4, <1>5, <1>6, Steps

(* Every announcement is made once or still owed. *)
LEMMA StepAnnounce == TypeOK /\ CallersInv /\ AnnounceInv /\ [Next]_vars => AnnounceInv'
<1> SUFFICES ASSUME TypeOK, CallersInv, AnnounceInv, [Next]_vars PROVE AnnounceInv'
  OBVIOUS
<1>0. log \in Seq(Event) /\ Len(subs) \in Nat /\ \A k \in 1..Len(log) : log[k].since \in Nat
  <2>1. log \in Seq(Event) /\ Len(subs) \in Nat BY DEF TypeOK
  <2>2. \A k \in 1..Len(log) : log[k] \in Event BY <2>1, ElementOfSeq
  <2> QED BY <2>1, <2>2 DEF Event
<1>1. ASSUME NEW c \in Callers, NEW type, NEW id, Change(c, type, id) PROVE AnnounceInv'
  <2>1. PICK n : n = Len(log) + 1 OBVIOUS
  <2>2. /\ \A k : k \in 1..Len(log') <=> k \in 1..Len(log) \/ k = n
        /\ n \in Nat /\ n \notin 1..Len(log)
        /\ log'[n] = [type |-> type, id |-> id, since |-> Len(subs)]
        /\ \A k \in 1..Len(log) : log'[k] = log[k]
        /\ pc'[c] = "snapshot" /\ change'[c] = n
        /\ \A d \in Callers \ {c} : pc'[d] = pc[d] /\ change'[d] = change[d]
        /\ cbs' = cbs /\ subs' = subs /\ got' = got
    BY <1>1, <2>1, ChangeFacts
  <2>3. pc[c] = "idle" /\ log'[n].since = Len(subs) BY <1>1, <2>2 DEF Change
  <2>4. \A k \in 1..Len(log') : log'[k].since <= Len(subs') BY <1>0, <2>2, <2>3 DEF AnnounceInv
  <2>5. \A s \in 1..Len(subs') :
          Injective(got'[s]) /\ \A k \in Nat : Has(got'[s], k) => k \in 1..Len(log')
    BY <2>2 DEF AnnounceInv
  <2>6. ASSUME NEW d \in Callers, NEW s \in 1..Len(subs'), Owes(d, s)' PROVE ~Has(got'[s], change'[d])
    <3>1. CASE d = c BY <2>2, <3>1 DEF AnnounceInv
    <3>2. CASE d # c BY <2>2, <2>6, <3>2 DEF AnnounceInv, Owes
    <3> QED BY <3>1, <3>2
  <2>7. ASSUME NEW s \in 1..Len(subs'), NEW k \in 1..Len(log'), log'[k].since >= s, ~Has(got'[s], k)
        PROVE  \E d \in Callers : Owes(d, s)' /\ change'[d] = k
    <3>1. CASE k = n BY <2>2, <3>1 DEF Owes
    <3>2. CASE k \in 1..Len(log)
      <4>1. PICK d \in Callers : Owes(d, s) /\ change[d] = k BY <2>2, <2>7, <3>2 DEF AnnounceInv
      <4>2. d # c BY <2>3, <4>1 DEF Owes
      <4> QED BY <2>2, <4>1, <4>2 DEF Owes
    <3> QED BY <2>2, <3>1, <3>2
  <2> QED BY <2>4, <2>5, <2>6, <2>7 DEF AnnounceInv
<1>2. ASSUME NEW c \in Callers, snapshotCallbacks(c) PROVE AnnounceInv'
  <2>1. /\ pc[c] = "snapshot" /\ pc'[c] = "fire"
        /\ \A d \in Callers \ {c} : pc'[d] = pc[d] /\ cbs'[d] = cbs[d]
        /\ \A s : Has(cbs'[c], s) <=> s \in 1..Len(subs)
        /\ subs' = subs /\ change' = change /\ log' = log /\ got' = got
    BY <1>2, SnapshotFacts
  <2>2. \A d \in Callers, s \in 1..Len(subs) : Owes(d, s)' <=> Owes(d, s) BY <2>1 DEF Owes
  <2> QED BY <2>1, <2>2 DEF AnnounceInv
<1>3. ASSUME NEW c \in Callers, fireCallback(c) PROVE AnnounceInv'
  <2>1. PICK h : h = Head(cbs[c]) OBVIOUS
  <2>2. /\ h \in 1..Len(subs) /\ Has(cbs[c], h)
        /\ got'[h] = Append(got[h], change[c])
        /\ \A s \in 1..Len(subs) : s # h => got'[s] = got[s]
        /\ \A s : Has(cbs'[c], s) <=> Has(cbs[c], s) /\ s # h
        /\ \A d \in Callers \ {c} : cbs'[d] = cbs[d]
        /\ subs' = subs /\ pc' = pc /\ change' = change /\ log' = log
    BY <1>3, <2>1, FireFacts
  <2>3. pc[c] = "fire" BY <1>3 DEF fireCallback
  <2>4. change[c] \in 1..Len(log) /\ change[c] \in Nat /\ ~Has(got[h], change[c])
    BY <2>2, <2>3 DEF CallersInv, AnnounceInv, Owes, TypeOK
  <2>5. got[h] \in Seq(Nat)
    <3>1. got \in Seq(Seq(Nat)) /\ h \in 1..Len(got) BY <2>2 DEF TypeOK
    <3> QED BY <3>1, ElementOfSeq
  <2>6. /\ \A y : Has(got'[h], y) <=> Has(got[h], y) \/ y = change[c]
        /\ Injective(got[h]) => Injective(got'[h])
    BY <2>2, <2>4, <2>5, AppendHas
  <2>7. \A d \in Callers, s \in 1..Len(subs) : Owes(d, s)' <=> Owes(d, s) /\ ~(d = c /\ s = h)
    BY <2>2, <2>3 DEF Owes
  <2>8. \A s \in 1..Len(subs') :
          Injective(got'[s]) /\ \A k \in Nat : Has(got'[s], k) => k \in 1..Len(log')
    BY <2>2, <2>4, <2>6 DEF AnnounceInv
  <2>9. ASSUME NEW d \in Callers, NEW s \in 1..Len(subs'), Owes(d, s)' PROVE ~Has(got'[s], change'[d])
    <3>1. Owes(d, s) /\ ~(d = c /\ s = h) /\ ~Has(got[s], change[d]) BY <2>2, <2>7, <2>9 DEF AnnounceInv
    <3>2. CASE s = h
      <4>1. change[d] # change[c] BY <2>3, <3>1, <3>2 DEF CallersInv, Owes
      <4> QED BY <2>2, <2>6, <3>1, <3>2, <4>1
    <3>3. CASE s # h BY <2>2, <3>1, <3>3
    <3> QED BY <3>2, <3>3
  <2>10. ASSUME NEW s \in 1..Len(subs'), NEW k \in 1..Len(log'), log'[k].since >= s, ~Has(got'[s], k)
         PROVE  \E d \in Callers : Owes(d, s)' /\ change'[d] = k
    <3>1. ~Has(got[s], k) /\ ~(s = h /\ k = change[c]) BY <2>2, <2>6, <2>10
    <3>2. PICK d \in Callers : Owes(d, s) /\ change[d] = k BY <2>2, <2>10, <3>1 DEF AnnounceInv
    <3> QED BY <2>2, <2>7, <3>1, <3>2
  <2>11. \A k \in 1..Len(log') : log'[k].since <= Len(subs') BY <2>2 DEF AnnounceInv
  <2> QED BY <2>8, <2>9, <2>10, <2>11 DEF AnnounceInv
<1>4. ASSUME NEW c \in Callers, Return(c) PROVE AnnounceInv'
  <2>1. /\ pc[c] = "fire" /\ \A s : ~Has(cbs[c], s) /\ pc'[c] = "idle"
        /\ \A d \in Callers \ {c} : pc'[d] = pc[d]
        /\ UNCHANGED <<subs, change, cbs, log, got>>
    BY <1>4 DEF Return, TypeOK, Has
  <2>2. \A d \in Callers, s \in 1..Len(subs) : Owes(d, s)' <=> Owes(d, s) BY <2>1 DEF Owes
  <2> QED BY <2>1, <2>2 DEF AnnounceInv
<1>5. ASSUME NEW p \in BOOLEAN, Subscribe(p) PROVE AnnounceInv'
  <2>1. PICK n : n = Len(subs) + 1 OBVIOUS
  <2>2. /\ Len(subs') = n /\ \A x : ~Has(got'[n], x)
        /\ got'[n] = <<>>
        /\ \A s \in 1..Len(subs) : got'[s] = got[s]
        /\ \A s : s \in 1..Len(subs') <=> s \in 1..Len(subs) \/ s = n
        /\ UNCHANGED <<pc, change, cbs, log>>
    BY <1>5, <2>1, SubscribeFacts
  <2>3. \A k \in 1..Len(log) : log[k].since <= Len(subs) /\ log[k].since <= n /\ ~(log[k].since >= n)
    BY <1>0, <2>1 DEF AnnounceInv
  <2>4. Injective(got'[n]) BY <2>2 DEF Injective
  <2>5. \A d \in Callers : \A s : Owes(d, s)' <=> Owes(d, s) BY <2>2 DEF Owes
  <2>6. \A k \in 1..Len(log') : log'[k].since <= Len(subs') BY <2>2, <2>3
  <2>7. \A s \in 1..Len(subs') :
          Injective(got'[s]) /\ \A k \in Nat : Has(got'[s], k) => k \in 1..Len(log')
    BY <2>2, <2>4 DEF AnnounceInv
  <2>8. ASSUME NEW d \in Callers, NEW s \in 1..Len(subs'), Owes(d, s)' PROVE ~Has(got'[s], change'[d])
    BY <2>2, <2>5, <2>8 DEF AnnounceInv
  <2>9. ASSUME NEW s \in 1..Len(subs'), NEW k \in 1..Len(log'), log'[k].since >= s, ~Has(got'[s], k)
        PROVE  \E d \in Callers : Owes(d, s)' /\ change'[d] = k
    BY <2>2, <2>3, <2>5, <2>9 DEF AnnounceInv
  <2> QED BY <2>6, <2>7, <2>8, <2>9 DEF AnnounceInv
<1>6. CASE UNCHANGED vars BY <1>6 DEF vars, AnnounceInv, Owes
<1> QED BY <1>1, <1>2, <1>3, <1>4, <1>5, <1>6, Steps

(* A caller announces the latest change of an ID whose changes never overlapped,
   so it adds it after all the earlier ones. *)
LEMMA StepOrder == TypeOK /\ CallersInv /\ AnnounceInv /\ OrderInv /\ [Next]_vars => OrderInv'
<1> SUFFICES ASSUME TypeOK, CallersInv, AnnounceInv, OrderInv, [Next]_vars PROVE OrderInv'
  OBVIOUS
<1>0. Len(log) \in Nat /\ Len(subs) \in Nat /\ Len(got) = Len(subs) /\ \A s \in 1..Len(subs) : got[s] \in Seq(Nat)
  <2>1. got \in Seq(Seq(Nat)) /\ Len(got) = Len(subs) /\ Len(log) \in Nat /\ Len(subs) \in Nat BY DEF TypeOK
  <2> QED BY <2>1, ElementOfSeq
<1>heard. \A s \in 1..Len(subs) : \A i \in 1..Len(got[s]) :
            Has(got[s], got[s][i]) /\ got[s][i] \in 1..Len(log)
  <2> SUFFICES ASSUME NEW s \in 1..Len(subs), NEW i \in 1..Len(got[s])
               PROVE  Has(got[s], got[s][i]) /\ got[s][i] \in 1..Len(log)
    OBVIOUS
  <2>1. got[s][i] \in Nat BY <1>0, ElementOfSeq
  <2>2. Has(got[s], got[s][i]) BY DEF Has
  <2> QED BY <2>1, <2>2 DEF AnnounceInv
<1>1. ASSUME NEW c \in Callers, NEW type, NEW id, Change(c, type, id) PROVE OrderInv'
  <2>1. PICK n : n = Len(log) + 1 OBVIOUS
  <2>2. /\ \A k : k \in 1..Len(log') <=> k \in 1..Len(log) \/ k = n
        /\ n \in Nat /\ n \notin 1..Len(log)
        /\ log'[n] = [type |-> type, id |-> id, since |-> Len(subs)]
        /\ \A k \in 1..Len(log) : log'[k] = log[k]
        /\ pc'[c] = "snapshot" /\ change'[c] = n
        /\ \A d \in Callers \ {c} : pc'[d] = pc[d] /\ change'[d] = change[d]
        /\ subs' = subs /\ got' = got
    BY <1>1, <2>1, ChangeFacts
  <2>3. log'[n].id = id /\ log'[n].since = Len(subs) BY <2>2
  <2>4. overlapped \subseteq overlapped' /\ (Announcing(id) => id \in overlapped')
    BY <1>1 DEF Change, Changed
  <2>5. ASSUME NEW d \in Callers, pc'[d] # "idle", log'[change'[d]].id \notin overlapped',
               NEW k \in 1..Len(log'), log'[k].id = log'[change'[d]].id
        PROVE  k <= change'[d]
    <3>1. CASE d = c
      <4>1. change'[d] = n BY <2>2, <3>1
      <4> QED BY <1>0, <2>1, <2>2, <4>1
    <3>2. CASE d # c
      <4>1. pc[d] # "idle" /\ change'[d] = change[d] /\ change[d] \in 1..Len(log)
        BY <2>2, <2>5, <3>2 DEF CallersInv
      <4>2. log'[change'[d]] = log[change[d]] BY <2>2, <4>1
      <4>3. log[change[d]].id # id BY <2>4, <2>5, <4>1, <4>2 DEF Announcing
      <4>4. k \in 1..Len(log) BY <2>2, <2>3, <2>5, <4>2, <4>3
      <4>5. log[k].id = log[change[d]].id /\ log[change[d]].id \notin overlapped
        BY <2>2, <2>4, <2>5, <4>2, <4>4
      <4> QED BY <4>1, <4>4, <4>5 DEF OrderInv
    <3> QED BY <3>1, <3>2
  <2>6. ASSUME NEW s \in 1..Len(subs'), NEW i \in 1..Len(got'[s]), NEW j \in 1..Len(got'[s]),
               i < j, log'[got'[s][i]].id = log'[got'[s][j]].id,
               log'[got'[s][i]].id \notin overlapped'
        PROVE  got'[s][i] < got'[s][j]
    <3>1. /\ log'[got'[s][i]] = log[got[s][i]] /\ log'[got'[s][j]] = log[got[s][j]]
      BY <1>heard, <2>2
    <3> QED BY <2>2, <2>4, <2>6, <3>1 DEF OrderInv
  <2>7. ASSUME NEW s \in 1..Len(subs'), NEW k \in 1..Len(log'), NEW l \in 1..Len(log'),
               Has(got'[s], k), k < l, log'[l].id = log'[k].id, log'[k].id \notin overlapped'
        PROVE  log'[l].since >= s
    <3>1. k \in 1..Len(log) /\ log'[k] = log[k]
      <4>1. k \in Nat BY <1>0, <2>2, <2>7
      <4> QED BY <2>2, <2>7, <4>1 DEF AnnounceInv
    <3>2. CASE l = n BY <1>0, <2>2, <2>3, <3>2
    <3>3. CASE l \in 1..Len(log) BY <2>2, <2>4, <2>7, <3>1, <3>3, SMTT(20) DEF OrderInv
    <3> QED BY <2>2, <3>2, <3>3
  <2> QED BY <2>5, <2>6, <2>7 DEF OrderInv
<1>2. ASSUME NEW c \in Callers, snapshotCallbacks(c) PROVE OrderInv'
  <2>1. /\ \A d \in Callers : pc'[d] # "idle" => pc[d] # "idle"
        /\ UNCHANGED <<subs, change, log, got, overlapped>>
    BY <1>2, SnapshotFacts
  <2> QED BY <2>1 DEF OrderInv
<1>3. ASSUME NEW c \in Callers, fireCallback(c) PROVE OrderInv'
  <2>1. PICK h, k0 : h = Head(cbs[c]) /\ k0 = change[c] OBVIOUS
  <2>2. /\ h \in 1..Len(subs) /\ Has(cbs[c], h)
        /\ got'[h] = Append(got[h], k0)
        /\ \A s \in 1..Len(subs) : s # h => got'[s] = got[s]
        /\ subs' = subs /\ pc' = pc /\ change' = change /\ log' = log /\ overlapped' = overlapped
    BY <1>3, <2>1, FireFacts
  <2>3. pc[c] = "fire" BY <1>3 DEF fireCallback
  <2>4. k0 \in 1..Len(log) /\ k0 \in Nat /\ ~Has(got[h], k0)
    BY <2>1, <2>2, <2>3 DEF CallersInv, AnnounceInv, Owes, TypeOK
  <2>5. got[h] \in Seq(Nat) BY <1>0, <2>2
  <2>6. \A y : Has(got'[h], y) <=> Has(got[h], y) \/ y = k0
    BY <2>2, <2>4, <2>5, AppendHas, SMTT(20)
  <2>7. log[k0].id \notin overlapped => \A k \in 1..Len(log) : log[k].id = log[k0].id => k <= k0
    BY <2>1, <2>3 DEF OrderInv
  <2>8. PICK m \in Nat : m = Len(got[h]) BY <2>5
  <2>9. Len(got'[h]) = m + 1 /\ got'[h][m + 1] = k0 /\ \A i \in 1..m : got'[h][i] = got[h][i]
    BY <2>2, <2>4, <2>5, <2>8
  <2>10. ASSUME NEW s \in 1..Len(subs'), NEW i \in 1..Len(got'[s]), NEW j \in 1..Len(got'[s]),
                i < j, log'[got'[s][i]].id = log'[got'[s][j]].id,
                log'[got'[s][i]].id \notin overlapped'
         PROVE  got'[s][i] < got'[s][j]
    <3>1. CASE s # h BY <2>2, <2>10, <3>1 DEF OrderInv
    <3>2. CASE s = h /\ j \in 1..m
      <4>1. i \in 1..m BY <2>8, <2>10, <3>2
      <4>2. got'[h][i] = got[h][i] /\ got'[h][j] = got[h][j] BY <2>9, <3>2, <4>1
      <4> QED BY <2>2, <2>8, <2>10, <3>2, <4>1, <4>2 DEF OrderInv
    <3>3. CASE s = h /\ j = m + 1
      <4>1. i \in 1..m BY <2>8, <2>9, <2>10, <3>3
      <4>2. PICK a : a = got[h][i] OBVIOUS
      <4>3. a \in 1..Len(log) /\ Has(got[h], a) BY <1>heard, <2>2, <2>8, <4>1, <4>2
      <4>4. got'[s][i] = a /\ got'[s][j] = k0 BY <2>9, <3>3, <4>1, <4>2
      <4>5. log[a].id = log[k0].id /\ log[a].id \notin overlapped BY <2>2, <2>10, <4>4
      <4>6. a <= k0 /\ a # k0 BY <2>4, <2>7, <4>3, <4>5
      <4> QED BY <1>0, <2>4, <4>3, <4>4, <4>6
    <3> QED BY <2>8, <2>9, <3>1, <3>2, <3>3
  <2>11. ASSUME NEW s \in 1..Len(subs'), NEW k \in 1..Len(log'), NEW l \in 1..Len(log'),
                Has(got'[s], k), k < l, log'[l].id = log'[k].id, log'[k].id \notin overlapped'
         PROVE  log'[l].since >= s
    <3>1. CASE Has(got[s], k) BY <2>2, <2>11, <3>1 DEF OrderInv
    <3>2. CASE ~Has(got[s], k)
      <4>1. k = k0 BY <2>2, <2>6, <2>11, <3>2
      <4>2. l \in 1..Len(log) /\ l <= k0 BY <2>2, <2>7, <2>11, <4>1
      <4> QED BY <1>0, <2>4, <2>11, <4>1, <4>2
    <3> QED BY <3>1, <3>2
  <2>12. \A d \in Callers : pc'[d] # "idle" /\ log'[change'[d]].id \notin overlapped' =>
           \A k \in 1..Len(log') : log'[k].id = log'[change'[d]].id => k <= change'[d]
    BY <2>2 DEF OrderInv
  <2> QED BY <2>10, <2>11, <2>12 DEF OrderInv
<1>4. ASSUME NEW c \in Callers, Return(c) PROVE OrderInv'
  <2>1. /\ \A d \in Callers : pc'[d] # "idle" => pc[d] # "idle"
        /\ UNCHANGED <<subs, change, log, got, overlapped>>
    BY <1>4 DEF Return, TypeOK
  <2> QED BY <2>1 DEF OrderInv
<1>5. ASSUME NEW p \in BOOLEAN, Subscribe(p) PROVE OrderInv'
  <2>1. PICK n : n = Len(subs) + 1 OBVIOUS
  <2>2. /\ \A x : ~Has(got'[n], x)
        /\ got'[n] = <<>>
        /\ \A s \in 1..Len(subs) : got'[s] = got[s]
        /\ \A s : s \in 1..Len(subs') <=> s \in 1..Len(subs) \/ s = n
        /\ UNCHANGED <<pc, change, log, overlapped>>
    BY <1>5, <2>1, SubscribeFacts
  <2>3. 1..Len(got'[n]) = {} BY <2>2
  <2>4. \A d \in Callers : pc'[d] # "idle" /\ log'[change'[d]].id \notin overlapped' =>
          \A k \in 1..Len(log') : log'[k].id = log'[change'[d]].id => k <= change'[d]
    BY <2>2 DEF OrderInv
  <2>5. \A s \in 1..Len(subs') : \A i, j \in 1..Len(got'[s]) :
          i < j /\ log'[got'[s][i]].id = log'[got'[s][j]].id /\ log'[got'[s][i]].id \notin overlapped' =>
            got'[s][i] < got'[s][j]
    BY <2>2, <2>3 DEF OrderInv
  <2>6. \A s \in 1..Len(subs'), k, l \in 1..Len(log') :
          Has(got'[s], k) /\ k < l /\ log'[l].id = log'[k].id /\ log'[k].id \notin overlapped' =>
            log'[l].since >= s
    BY <2>2 DEF OrderInv
  <2> QED BY <2>4, <2>5, <2>6 DEF OrderInv
<1>6. CASE UNCHANGED vars BY <1>6 DEF vars, OrderInv
<1> QED BY <1>1, <1>2, <1>3, <1>4, <1>5, <1>6, Steps

(* Nothing has happened yet. *)
LEMMA InitRegistryInv == Init => RegistryInv
<1> SUFFICES ASSUME Init PROVE RegistryInv
  OBVIOUS
<1>1. TypeOK BY DEF Init, TypeOK
<1>2. Len(log) = 0 /\ Len(subs) = 0 BY DEF Init
<1>3. AlternateInv
  <2>1. ASSUME NEW id PROVE Cardinality(Of(log, id, 0)) = 0
    <3>1. Of(log, id, 0) = {} BY DEF Of
    <3> QED BY <3>1, FS_EmptySet
  <2>2. store = {} /\ 0 % 2 = 0 BY DEF Init
  <2> QED BY <1>2, <2>1, <2>2 DEF AlternateInv
<1>4. \A c \in Callers : pc[c] = "idle" BY DEF Init
<1>5. CallersInv BY <1>4 DEF CallersInv
<1>6. AnnounceInv BY <1>2, <1>4 DEF AnnounceInv, Owes
<1>7. OrderInv BY <1>2, <1>4 DEF OrderInv
<1> QED BY <1>1, <1>3, <1>5, <1>6, <1>7 DEF RegistryInv

(* RegistryInv is inductive: it holds in every state the registry reaches. *)
THEOREM RegistryInvariant == Spec => []RegistryInv
<1>1. RegistryInv /\ [Next]_vars => RegistryInv'
  BY StepTypeOK, StepAlternate, StepCallers, StepAnnounce, StepOrder DEF RegistryInv
<1> QED BY <1>1, InitRegistryInv, PTL DEF Spec

-----------------------------------------------------------------------------
(* What the registry promises follows.                                       *)

(* The changes of an ID alternate and the store is their result. *)
LEMMA InvAlternates == RegistryInv => ChangesAlternate
<1> SUFFICES ASSUME RegistryInv PROVE ChangesAlternate
  OBVIOUS
<1>1. Len(log) \in Nat /\ log \in Seq(Event) BY DEF RegistryInv, TypeOK
<1> SUFFICES ASSUME NEW k \in 1..Len(log)
             PROVE  LET earlier == {j \in 1..k - 1 : log[j].id = log[k].id}
                        later == {j \in k + 1..Len(log) : log[j].id = log[k].id}
                    IN  /\ log[k].type = IF Cardinality(earlier) % 2 = 0 THEN "register" ELSE "unregister"
                        /\ later = {} => (log[k].id \in store <=> log[k].type = "register")
  BY DEF ChangesAlternate
<1> DEFINE id == log[k].id
           earlier == {j \in 1..k - 1 : log[j].id = id}
           later == {j \in k + 1..Len(log) : log[j].id = id}
<1>2. id \in SkillIDs
  <2>1. log[k] \in Event BY <1>1, ElementOfSeq
  <2> QED BY <2>1 DEF Event
<1>3. earlier = Of(log, id, k - 1) BY DEF Of
<1>4. k - 1 \in Nat BY <1>1
<1>5. log[k].type = IF Cardinality(Of(log, id, k - 1)) % 2 = 0 THEN "register" ELSE "unregister"
  BY DEF RegistryInv, AlternateInv
<1>6. ASSUME later = {} PROVE id \in store <=> log[k].type = "register"
  <2>1. Of(log, id, Len(log)) = Of(log, id, k - 1) \union {k}
    <3>1. \A j : j \in 1..Len(log) <=> j \in 1..k - 1 \/ j = k \/ j \in k + 1..Len(log) BY <1>1
    <3> QED BY <1>6, <3>1 DEF Of
  <2>2. k \notin Of(log, id, k - 1) BY <1>1 DEF Of
  <2>3. IsFiniteSet(Of(log, id, k - 1)) BY <1>4, OfFacts
  <2>4. Cardinality(Of(log, id, Len(log))) = Cardinality(Of(log, id, k - 1)) + 1
    BY <2>1, <2>2, <2>3, FS_AddElement
  <2>5. PICK count \in Nat : count = Cardinality(Of(log, id, k - 1)) BY <1>4, OfFacts
  <2>6. count % 2 = 0 <=> (count + 1) % 2 = 1 BY <2>5, SMTT(20)
  <2>7. id \in store <=> Cardinality(Of(log, id, Len(log))) % 2 = 1
    BY <1>2 DEF RegistryInv, AlternateInv
  <2> QED BY <1>5, <2>4, <2>5, <2>6, <2>7
<1> QED BY <1>3, <1>5, <1>6

(* Of calls that race to register or to remove an ID one gets through: Spec
   implies ChangesAlternate. *)
THEOREM Alternate == Spec => []ChangesAlternate
BY RegistryInvariant, InvAlternates, PTL

(* How often a sequence without repetition holds a value. *)
LEMMA OccursOnce ==
  ASSUME NEW q \in Seq(Nat), Injective(q), NEW x
  PROVE  LET P == {i \in 1..Len(q) : q[i] = x}
         IN  Cardinality(P) <= 1 /\ (Cardinality(P) = 0 <=> ~Has(q, x))
<1> DEFINE P == {i \in 1..Len(q) : q[i] = x}
<1>1. CASE Has(q, x)
  <2>1. PICK i \in 1..Len(q) : q[i] = x BY <1>1 DEF Has
  <2>2. P = {i} BY <2>1 DEF Injective
  <2>3. Cardinality(P) = 1 BY <2>2, FS_Singleton
  <2> QED BY <1>1, <2>3
<1>2. CASE ~Has(q, x)
  <2>1. P = {} BY <1>2 DEF Has
  <2>2. Cardinality(P) = 0 BY <2>1, FS_EmptySet
  <2> QED BY <1>2, <2>2
<1> QED BY <1>1, <1>2

(* Every announcement due is made exactly once, panics and overlapping calls
   notwithstanding: Spec implies AnnouncedOnce. *)
THEOREM Announced == Spec => []AnnouncedOnce
<1>1. ASSUME RegistryInv PROVE AnnouncedOnce
  <2> SUFFICES ASSUME NEW s \in 1..Len(subs), NEW k \in 1..Len(log)
               PROVE  /\ Times(k, s) <= 1
                      /\ log[k].since >= s => (Times(k, s) = 0 <=> Pending(k, s))
    BY DEF AnnouncedOnce
  <2>1. got \in Seq(Seq(Nat)) /\ s \in 1..Len(got) BY <1>1 DEF RegistryInv, TypeOK
  <2>2. got[s] \in Seq(Nat) BY <2>1, ElementOfSeq
  <2>3. Injective(got[s]) BY <1>1 DEF RegistryInv, AnnounceInv
  <2>4. Times(k, s) <= 1 /\ (Times(k, s) = 0 <=> ~Has(got[s], k)) BY <2>2, <2>3, OccursOnce DEF Times
  <2>5. \A c \in Callers : pc[c] \in {"idle", "snapshot", "fire"} BY <1>1 DEF RegistryInv, TypeOK
  <2>6. Pending(k, s) <=> \E c \in Callers : Owes(c, s) /\ change[c] = k
    BY <2>5 DEF Pending, Owes, Has
  <2>7. Pending(k, s) => ~Has(got[s], k) BY <1>1, <2>6 DEF RegistryInv, AnnounceInv
  <2>8. log[k].since >= s /\ ~Has(got[s], k) => Pending(k, s) BY <1>1, <2>6 DEF RegistryInv, AnnounceInv
  <2> QED BY <2>4, <2>7, <2>8
<1> QED BY <1>1, RegistryInvariant, PTL

(* A subscriber that mirrors the registry is right about every ID it heard of
   whose changes never overlapped: Spec implies MirrorUnlessOverlap. *)
THEOREM Mirror == Spec => []MirrorUnlessOverlap
<1>1. ASSUME RegistryInv PROVE MirrorUnlessOverlap
  <2> SUFFICES ASSUME Quiet, NEW s \in 1..Len(subs), NEW i \in 1..Len(got[s]),
                      \A j \in i + 1..Len(got[s]) : log[got[s][j]].id # log[got[s][i]].id,
                      log[got[s][i]].id \notin overlapped
               PROVE  log[got[s][i]].type = "register" <=> log[got[s][i]].id \in store
    BY DEF MirrorUnlessOverlap
  <2>1. /\ got \in Seq(Seq(Nat)) /\ s \in 1..Len(got) /\ Len(log) \in Nat
    BY <1>1 DEF RegistryInv, TypeOK
  <2>2. got[s] \in Seq(Nat) BY <2>1, ElementOfSeq
  <2>3. PICK k : k = got[s][i] OBVIOUS
  <2>4. k \in 1..Len(log) /\ Has(got[s], k)
    <3>1. k \in Nat BY <2>2, <2>3, ElementOfSeq
    <3>2. Has(got[s], k) BY <2>3 DEF Has
    <3> QED BY <1>1, <3>1, <3>2 DEF RegistryInv, AnnounceInv
  <2>5. ASSUME NEW l \in k + 1..Len(log), log[l].id = log[k].id PROVE FALSE
    <3>1. l \in 1..Len(log) /\ k < l BY <2>1, <2>4
    <3>2. log[l].since >= s BY <1>1, <2>3, <2>4, <2>5, <3>1 DEF RegistryInv, OrderInv
    <3>3. \A c \in Callers : ~Owes(c, s) BY DEF Quiet, Owes
    <3>4. Has(got[s], l) BY <1>1, <3>1, <3>2, <3>3 DEF RegistryInv, AnnounceInv
    <3>5. PICK j \in 1..Len(got[s]) : got[s][j] = l BY <3>4 DEF Has
    <3>6. Len(got[s]) \in Nat BY <2>2
    <3>7. ~(j \in i + 1..Len(got[s])) BY <2>3, <2>5, <3>5
    <3>8. j < i \/ j = i BY <3>5, <3>6, <3>7
    <3>9. CASE j = i BY <2>1, <2>3, <2>4, <3>1, <3>5, <3>9
    <3>10. CASE j < i
      <4>1. got[s][j] < got[s][i] BY <1>1, <2>3, <2>5, <3>5, <3>10 DEF RegistryInv, OrderInv
      <4> QED BY <2>1, <2>3, <2>4, <3>1, <3>5, <4>1, SMTT(20)
    <3> QED BY <3>8, <3>9, <3>10
  <2>6. ChangesAlternate BY <1>1, InvAlternates
  <2> QED BY <2>3, <2>4, <2>5, <2>6 DEF ChangesAlternate
<1> QED BY <1>1, RegistryInvariant, PTL
-----------------------------------------------------------------------------
(* The audit emitter.  EmitterInv says, of every event that is being         *)
(* delivered, who has heard it and who is still to be called.                *)

GivenIDs == {"", "evt"}
EventID == [generated: Nat] \union [given: GivenIDs]
Entry == [id: EventID, throughout: SUBSET Subscribers, sometime: SUBSET Subscribers]
Call == [event: Nat, id: EventID]

EmitterTypeOK ==
  /\ Range(eSubscribers) \subseteq Subscribers
  /\ ePc \in [Emitters -> {"idle", "snapshot", "deliver"}]
  /\ eSubs \in [Emitters -> SUBSET Subscribers]
  /\ eEvent \in [Emitters -> Nat]
  /\ eLog \in Seq(Entry)
  /\ eHeard \in [Subscribers -> Seq(Call)]

\* Some call of h was made with event k.
With(h, k) == \E i \in 1..Len(h) : h[i].event = k

\* No two calls of h were made with one event.
NoneTwice(h) == \A i, j \in 1..Len(h) : h[i].event = h[j].event => i = j

\* Every emitter inside Emit has an event of its own.
EmittersInv ==
  /\ \A e \in Emitters : ePc[e] # "idle" => eEvent[e] \in 1..Len(eLog)
  /\ \A e, f \in Emitters : ePc[e] # "idle" /\ ePc[f] # "idle" /\ eEvent[e] = eEvent[f] => e = f

\* Calls are made once, with the event as logged, to objects registered meanwhile.
CallsInv ==
  \A s \in Subscribers :
    /\ NoneTwice(eHeard[s])
    /\ \A i \in 1..Len(eHeard[s]) :
         /\ eHeard[s][i].event \in 1..Len(eLog)
         /\ s \in eLog[eHeard[s][i].event].sometime
         /\ eHeard[s][i].id = eLog[eHeard[s][i].event].id

\* Before the snapshot nobody has heard the event and whoever was registered so far
\* still is; after it, an object has heard the event or is in the rest of the
\* snapshot, not both.
DeliveryInv ==
  /\ \A e \in Emitters : ePc[e] = "snapshot" =>
       /\ eLog[eEvent[e]].throughout \subseteq Range(eSubscribers)
       /\ Range(eSubscribers) \subseteq eLog[eEvent[e]].sometime
       /\ \A s \in Subscribers : ~With(eHeard[s], eEvent[e])
  /\ \A e \in Emitters : ePc[e] = "deliver" =>
       /\ eSubs[e] \subseteq eLog[eEvent[e]].sometime
       /\ \A s \in eSubs[e] : ~With(eHeard[s], eEvent[e])
       /\ \A s \in eLog[eEvent[e]].throughout : s \in eSubs[e] \/ With(eHeard[s], eEvent[e])

\* An event whose Emit has returned was heard by whoever was registered throughout.
ReturnedInv ==
  \A k \in 1..Len(eLog) :
    (\A e \in Emitters : ePc[e] # "idle" => eEvent[e] # k) =>
      \A s \in eLog[k].throughout : With(eHeard[s], k)

EmitterInv == EmitterTypeOK /\ EmittersInv /\ CallsInv /\ DeliveryInv /\ ReturnedInv
(* What one more call does to those made before. *)
LEMMA AppendCall ==
  ASSUME NEW h \in Seq(Call), NEW r \in Call
  PROVE  /\ Append(h, r) \in Seq(Call)
         /\ \A k : With(Append(h, r), k) <=> With(h, k) \/ r.event = k
         /\ NoneTwice(h) /\ ~With(h, r.event) => NoneTwice(Append(h, r))
         /\ \A i \in 1..Len(Append(h, r)) :
              Append(h, r)[i] = r \/ \E j \in 1..Len(h) : Append(h, r)[i] = h[j]
<1> DEFINE g == Append(h, r)
<1>1. /\ g \in Seq(Call) /\ Len(h) \in Nat /\ Len(g) = Len(h) + 1 /\ g[Len(h) + 1] = r
      /\ \A i \in 1..Len(h) : g[i] = h[i]
  BY AppendProperties
<1> HIDE DEF g
<1>2. \A i : i \in 1..Len(g) <=> i \in 1..Len(h) \/ i = Len(h) + 1 BY <1>1
<1>3. \A k : With(g, k) <=> With(h, k) \/ r.event = k BY <1>1, <1>2 DEF With
<1>4. NoneTwice(h) /\ ~With(h, r.event) => NoneTwice(g) BY <1>1, <1>2 DEF With, NoneTwice
<1>5. \A i \in 1..Len(g) : g[i] = r \/ \E j \in 1..Len(h) : g[i] = h[j] BY <1>1, <1>2
<1> QED BY <1>1, <1>3, <1>4, <1>5 DEF g

(* Emit appends an event that has the registered subscribers of the moment. *)
LEMMA EmitFacts ==
  ASSUME EmitterTypeOK, NEW e \in Emitters, NEW id \in GivenIDs, Emitter!Emit(e, id)
  PROVE  LET n == Len(eLog) + 1
         IN  /\ ePc[e] = "idle" /\ Len(eLog) \in Nat /\ n \in Nat /\ n \notin 1..Len(eLog)
             /\ eLog' \in Seq(Entry) /\ Len(eLog') = n
             /\ eLog'[n].throughout = Range(eSubscribers) /\ eLog'[n].sometime = Range(eSubscribers)
             /\ \A k \in 1..Len(eLog) : eLog'[k] = eLog[k]
             /\ \A k : k \in 1..Len(eLog') <=> k \in 1..Len(eLog) \/ k = n
             /\ ePc' \in [Emitters -> {"idle", "snapshot", "deliver"}] /\ eEvent' \in [Emitters -> Nat]
             /\ ePc'[e] = "snapshot" /\ eEvent'[e] = n
             /\ \A f \in Emitters \ {e} : ePc'[f] = ePc[f] /\ eEvent'[f] = eEvent[f]
             /\ UNCHANGED <<eSubscribers, eSubs, eHeard>>
<1> DEFINE R == Range(eSubscribers)
<1>1. eLog \in Seq(Entry) /\ Len(eLog) \in Nat /\ Len(eLog) + 1 \in Nat BY DEF EmitterTypeOK
<1>2. PICK x \in EventID : eLog' = Append(eLog, [id |-> x, throughout |-> R, sometime |-> R])
  <2>1. Emitter!NewString \in EventID /\ [given |-> id] \in EventID BY <1>1 DEF EventID, Emitter!NewString
  <2>2. \E x \in {Emitter!NewString, [given |-> id]} :
          eLog' = Append(eLog, [id |-> x, throughout |-> R, sometime |-> R])
    BY Zenon DEF Emitter!Emit, Emitter!Range, Range
  <2> QED BY <2>1, <2>2
<1>3. R \in SUBSET Subscribers BY DEF EmitterTypeOK
<1> HIDE DEF R
<1> DEFINE r == [id |-> x, throughout |-> R, sometime |-> R]
<1>4. eLog' = Append(eLog, r) BY <1>2
<1>5. r \in Entry BY <1>2, <1>3 DEF Entry
<1>6. r.throughout = R /\ r.sometime = R OBVIOUS
<1> HIDE DEF r
<1>7. /\ eLog' \in Seq(Entry) /\ Len(eLog') = Len(eLog) + 1 /\ eLog'[Len(eLog) + 1] = r
      /\ \A k \in 1..Len(eLog) : eLog'[k] = eLog[k]
  BY <1>1, <1>4, <1>5, AppendProperties
<1>8. \A k : k \in 1..Len(eLog') <=> k \in 1..Len(eLog) \/ k = Len(eLog) + 1 BY <1>1, <1>7
<1>9. /\ ePc[e] = "idle" /\ eEvent' = [eEvent EXCEPT ![e] = Len(eLog) + 1]
      /\ ePc' = [ePc EXCEPT ![e] = "snapshot"] /\ UNCHANGED <<eSubscribers, eSubs, eHeard>>
  BY DEF Emitter!Emit
<1>10. /\ ePc' \in [Emitters -> {"idle", "snapshot", "deliver"}] /\ eEvent' \in [Emitters -> Nat]
       /\ ePc'[e] = "snapshot" /\ eEvent'[e] = Len(eLog) + 1
       /\ \A f \in Emitters \ {e} : ePc'[f] = ePc[f] /\ eEvent'[f] = eEvent[f]
  BY <1>1, <1>9 DEF EmitterTypeOK
<1>11. Len(eLog) + 1 \notin 1..Len(eLog) BY <1>1
<1> QED BY <1>1, <1>6, <1>7, <1>8, <1>9, <1>10, <1>11 DEF R

(* The snapshot is taken of those registered now. *)
LEMMA EmitterSnapshotFacts ==
  ASSUME EmitterTypeOK, NEW e \in Emitters, Emitter!Snapshot(e)
  PROVE  /\ ePc[e] = "snapshot" /\ ePc'[e] = "deliver" /\ eSubs'[e] = Range(eSubscribers)
         /\ ePc' \in [Emitters -> {"idle", "snapshot", "deliver"}] /\ eSubs' \in [Emitters -> SUBSET Subscribers]
         /\ \A f \in Emitters \ {e} : ePc'[f] = ePc[f] /\ eSubs'[f] = eSubs[f]
         /\ UNCHANGED <<eSubscribers, eEvent, eLog, eHeard>>
<1>1. /\ ePc[e] = "snapshot" /\ eSubs' = [eSubs EXCEPT ![e] = Range(eSubscribers)]
      /\ ePc' = [ePc EXCEPT ![e] = "deliver"] /\ UNCHANGED <<eSubscribers, eEvent, eLog, eHeard>>
  BY DEF Emitter!Snapshot, Emitter!Range, Range
<1> QED BY <1>1 DEF EmitterTypeOK

(* A call of OnEvent is recorded and taken off the rest of the snapshot. *)
LEMMA OnEventFacts ==
  ASSUME EmitterTypeOK, EmittersInv, NEW e \in Emitters, NEW s \in Subscribers, Emitter!OnEvent(e, s),
         NEW k, k = eEvent[e]
  PROVE  /\ ePc[e] = "deliver" /\ s \in eSubs[e] /\ k \in 1..Len(eLog)
         /\ eHeard' \in [Subscribers -> Seq(Call)]
         /\ \A m : With(eHeard'[s], m) <=> With(eHeard[s], m) \/ m = k
         /\ NoneTwice(eHeard[s]) /\ ~With(eHeard[s], k) => NoneTwice(eHeard'[s])
         /\ \A i \in 1..Len(eHeard'[s]) :
              \/ eHeard'[s][i].event = k /\ eHeard'[s][i].id = eLog[k].id
              \/ \E j \in 1..Len(eHeard[s]) : eHeard'[s][i] = eHeard[s][j]
         /\ \A t \in Subscribers \ {s} : eHeard'[t] = eHeard[t]
         /\ eSubs' \in [Emitters -> SUBSET Subscribers] /\ eSubs'[e] = eSubs[e] \ {s}
         /\ \A f \in Emitters \ {e} : eSubs'[f] = eSubs[f]
         /\ UNCHANGED <<eSubscribers, ePc, eEvent, eLog>>
<1> DEFINE r == [event |-> k, id |-> eLog[k].id]
<1>1. /\ ePc[e] = "deliver" /\ s \in eSubs[e]
      /\ eHeard' = [eHeard EXCEPT ![s] = Append(eHeard[s], r)]
      /\ eSubs' = [eSubs EXCEPT ![e] = eSubs[e] \ {s}] /\ UNCHANGED <<eSubscribers, ePc, eEvent, eLog>>
  BY DEF Emitter!OnEvent
<1>2. k \in 1..Len(eLog) /\ k \in Nat BY <1>1 DEF EmittersInv, EmitterTypeOK
<1>3. eLog[k].id \in EventID
  <2>1. eLog[k] \in Entry BY <1>2, ElementOfSeq DEF EmitterTypeOK
  <2> QED BY <2>1 DEF Entry
<1>4. r \in Call /\ r.event = k /\ r.id = eLog[k].id BY <1>2, <1>3 DEF Call
<1>5. eHeard[s] \in Seq(Call) BY DEF EmitterTypeOK
<1> HIDE DEF r
<1>6. eHeard'[s] = Append(eHeard[s], r) /\ \A t \in Subscribers \ {s} : eHeard'[t] = eHeard[t]
  BY <1>1 DEF EmitterTypeOK
<1>7. /\ eHeard'[s] \in Seq(Call)
      /\ \A m : With(eHeard'[s], m) <=> With(eHeard[s], m) \/ m = k
      /\ NoneTwice(eHeard[s]) /\ ~With(eHeard[s], k) => NoneTwice(eHeard'[s])
      /\ \A i \in 1..Len(eHeard'[s]) : eHeard'[s][i] = r \/ \E j \in 1..Len(eHeard[s]) : eHeard'[s][i] = eHeard[s][j]
  BY <1>4, <1>5, <1>6, AppendCall
<1>8. eHeard' \in [Subscribers -> Seq(Call)] BY <1>1, <1>6, <1>7 DEF EmitterTypeOK
<1>9. /\ eSubs' \in [Emitters -> SUBSET Subscribers] /\ eSubs'[e] = eSubs[e] \ {s}
      /\ \A f \in Emitters \ {e} : eSubs'[f] = eSubs[f]
  BY <1>1 DEF EmitterTypeOK
<1>10. \A i \in 1..Len(eHeard'[s]) :
         \/ eHeard'[s][i].event = k /\ eHeard'[s][i].id = eLog[k].id
         \/ \E j \in 1..Len(eHeard[s]) : eHeard'[s][i] = eHeard[s][j]
  BY <1>4, <1>7
<1> QED BY <1>1, <1>2, <1>6, <1>7, <1>8, <1>9, <1>10

(* Subscribe and Unsubscribe change, of the events being delivered, who was
   registered meanwhile and throughout, just as they change the map. *)
LEMMA RegistrationFacts ==
  ASSUME EmitterTypeOK, NEW s \in Subscribers, Emitter!Subscribe(s) \/ Emitter!Unsubscribe(s.id)
  PROVE  /\ Range(eSubscribers') \subseteq Subscribers
         /\ eLog' \in Seq(Entry) /\ Len(eLog') = Len(eLog)
         /\ \A k \in 1..Len(eLog) :
              /\ eLog'[k].id = eLog[k].id
              /\ eLog'[k].throughout \subseteq eLog[k].throughout
              /\ eLog[k].sometime \subseteq eLog'[k].sometime
              /\ ~Emitter!Active(k) => eLog'[k] = eLog[k]
              /\ Emitter!Active(k) =>
                   /\ eLog[k].throughout \subseteq Range(eSubscribers) =>
                        eLog'[k].throughout \subseteq Range(eSubscribers')
                   /\ Range(eSubscribers) \subseteq eLog[k].sometime =>
                        Range(eSubscribers') \subseteq eLog'[k].sometime
         /\ UNCHANGED <<ePc, eSubs, eEvent, eHeard>>
<1>0. eLog \in Seq(Entry) /\ Len(eLog) \in Nat /\ DOMAIN eLog = 1..Len(eLog) BY DEF EmitterTypeOK
<1>1. \A k \in 1..Len(eLog) : eLog[k] \in Entry BY <1>0, ElementOfSeq
<1>2. ASSUME NEW r \in Entry, NEW x \in SUBSET Subscribers
      PROVE  LET a == [r EXCEPT !.sometime = x]
                 b == [r EXCEPT !.throughout = x]
             IN  /\ a \in Entry /\ a.id = r.id /\ a.throughout = r.throughout /\ a.sometime = x
                 /\ b \in Entry /\ b.id = r.id /\ b.throughout = x /\ b.sometime = r.sometime
  BY DEF Entry
<1>3. \A r \in Entry : r.sometime \subseteq Subscribers /\ r.throughout \subseteq Subscribers BY DEF Entry
<1>4. CASE Emitter!Subscribe(s)
  <2>1. /\ s.id \notin DOMAIN eSubscribers
        /\ eSubscribers' = [id \in DOMAIN eSubscribers \union {s.id} |-> IF id = s.id THEN s ELSE eSubscribers[id]]
        /\ eLog' = [k \in 1..Len(eLog) |-> IF Emitter!Active(k)
                     THEN [eLog[k] EXCEPT !.sometime = eLog[k].sometime \union {s}] ELSE eLog[k]]
        /\ UNCHANGED <<ePc, eSubs, eEvent, eHeard>>
    BY <1>0, <1>4 DEF Emitter!Subscribe
  <2>2. Range(eSubscribers') = Range(eSubscribers) \union {s} BY <2>1 DEF Range
  <2>3. \A k \in 1..Len(eLog) : eLog[k].sometime \union {s} \in SUBSET Subscribers BY <1>1, <1>3
  <2>4. \A k \in 1..Len(eLog) : eLog'[k] \in Entry BY <1>1, <1>2, <2>1, <2>3
  <2>5. eLog' \in Seq(Entry) /\ Len(eLog') = Len(eLog)
    <3>1. eLog' \in [1..Len(eLog) -> Entry] BY <2>1, <2>4
    <3> QED BY <1>0, <3>1, SeqDef, LenProperties
  <2>6. \A k \in 1..Len(eLog) : Emitter!Active(k) =>
          /\ eLog'[k].id = eLog[k].id /\ eLog'[k].throughout = eLog[k].throughout
          /\ eLog'[k].sometime = eLog[k].sometime \union {s}
    <3> SUFFICES ASSUME NEW k \in 1..Len(eLog), Emitter!Active(k)
                 PROVE  /\ eLog'[k].id = eLog[k].id /\ eLog'[k].throughout = eLog[k].throughout
                        /\ eLog'[k].sometime = eLog[k].sometime \union {s}
      OBVIOUS
    <3>1. PICK r \in Entry : r = eLog[k] BY <1>1
    <3>2. PICK x \in SUBSET Subscribers : x = eLog[k].sometime \union {s} BY <2>3
    <3>3. eLog'[k] = [r EXCEPT !.sometime = x] BY <2>1, <3>1, <3>2
    <3> QED BY <1>2, <3>1, <3>2, <3>3
  <2>7. \A k \in 1..Len(eLog) : ~Emitter!Active(k) => eLog'[k] = eLog[k] BY <2>1
  <2>8. Range(eSubscribers') \subseteq Subscribers BY <2>2 DEF EmitterTypeOK
  <2> QED BY <2>1, <2>2, <2>5, <2>6, <2>7, <2>8
<1>5. CASE Emitter!Unsubscribe(s.id)
  <2> DEFINE u == eSubscribers[s.id]
  <2>1. /\ s.id \in DOMAIN eSubscribers
        /\ eSubscribers' = [id \in DOMAIN eSubscribers \ {s.id} |-> eSubscribers[id]]
        /\ eLog' = [k \in 1..Len(eLog) |-> IF Emitter!Active(k)
                     THEN [eLog[k] EXCEPT !.throughout = eLog[k].throughout \ {u}] ELSE eLog[k]]
        /\ UNCHANGED <<ePc, eSubs, eEvent, eHeard>>
    BY <1>0, <1>5 DEF Emitter!Unsubscribe, Emitter!Restrict
  <2>2. Range(eSubscribers') \subseteq Range(eSubscribers) /\ Range(eSubscribers) \ {u} \subseteq Range(eSubscribers')
    BY <2>1 DEF Range
  <2> HIDE DEF u
  <2>3. \A k \in 1..Len(eLog) : eLog[k].throughout \ {u} \in SUBSET Subscribers BY <1>1, <1>3
  <2>4. \A k \in 1..Len(eLog) : eLog'[k] \in Entry BY <1>1, <1>2, <2>1, <2>3
  <2>5. eLog' \in Seq(Entry) /\ Len(eLog') = Len(eLog)
    <3>1. eLog' \in [1..Len(eLog) -> Entry] BY <2>1, <2>4
    <3> QED BY <1>0, <3>1, SeqDef, LenProperties
  <2>6. \A k \in 1..Len(eLog) : Emitter!Active(k) =>
          /\ eLog'[k].id = eLog[k].id /\ eLog'[k].sometime = eLog[k].sometime
          /\ eLog'[k].throughout = eLog[k].throughout \ {u}
    <3> SUFFICES ASSUME NEW k \in 1..Len(eLog), Emitter!Active(k)
                 PROVE  /\ eLog'[k].id = eLog[k].id /\ eLog'[k].sometime = eLog[k].sometime
                        /\ eLog'[k].throughout = eLog[k].throughout \ {u}
      OBVIOUS
    <3>1. PICK r \in Entry : r = eLog[k] BY <1>1
    <3>2. PICK x \in SUBSET Subscribers : x = eLog[k].throughout \ {u} BY <2>3
    <3>3. eLog'[k] = [r EXCEPT !.throughout = x] BY <2>1, <3>1, <3>2
    <3> QED BY <1>2, <3>1, <3>2, <3>3
  <2>7. \A k \in 1..Len(eLog) : ~Emitter!Active(k) => eLog'[k] = eLog[k] BY <2>1
  <2>8. Range(eSubscribers') \subseteq Subscribers BY <2>2 DEF EmitterTypeOK
  <2> QED BY <2>1, <2>2, <2>5, <2>6, <2>7, <2>8
<1> QED BY <1>4, <1>5
(* A step of the emitter is one of five, or changes nothing that matters. *)
LEMMA EmitterSteps ==
  ASSUME [Emitter!Next]_(Emitter!vars)
  PROVE  \/ \E e \in Emitters : \/ \E id \in GivenIDs : Emitter!Emit(e, id)
                                \/ Emitter!Snapshot(e) \/ Emitter!Return(e)
                                \/ \E s \in Subscribers : Emitter!OnEvent(e, s)
         \/ \E s \in Subscribers : Emitter!Subscribe(s) \/ Emitter!Unsubscribe(s.id)
         \/ UNCHANGED <<eSubscribers, ePc, eSubs, eEvent, eLog, eHeard>>
BY Zenon DEF Emitter!Next, Emitter!Done, Emitter!vars, GivenIDs

(* Emit keeps the invariant: the new event has been heard by nobody. *)
LEMMA EmitKeeps ==
  ASSUME EmitterInv, NEW e \in Emitters, NEW id \in GivenIDs, Emitter!Emit(e, id)
  PROVE  EmitterInv'
<1>0. EmitterTypeOK /\ EmittersInv /\ CallsInv /\ DeliveryInv /\ ReturnedInv BY DEF EmitterInv
<1>1. PICK n : n = Len(eLog) + 1 OBVIOUS
<1>2. /\ ePc[e] = "idle" /\ n \in Nat /\ n \notin 1..Len(eLog) /\ eLog' \in Seq(Entry)
      /\ eLog'[n].throughout = Range(eSubscribers) /\ eLog'[n].sometime = Range(eSubscribers)
      /\ \A k \in 1..Len(eLog) : eLog'[k] = eLog[k]
      /\ \A k : k \in 1..Len(eLog') <=> k \in 1..Len(eLog) \/ k = n
      /\ ePc' \in [Emitters -> {"idle", "snapshot", "deliver"}] /\ eEvent' \in [Emitters -> Nat]
      /\ ePc'[e] = "snapshot" /\ eEvent'[e] = n
      /\ \A f \in Emitters \ {e} : ePc'[f] = ePc[f] /\ eEvent'[f] = eEvent[f]
      /\ eSubscribers' = eSubscribers /\ eSubs' = eSubs /\ eHeard' = eHeard
  BY <1>0, <1>1, EmitFacts
<1>3. \A s \in Subscribers : ~With(eHeard[s], n) BY <1>0, <1>2 DEF CallsInv, With
<1>4. \A f \in Emitters \ {e} : ePc[f] # "idle" => eEvent[f] \in 1..Len(eLog) /\ eLog'[eEvent'[f]] = eLog[eEvent[f]]
  BY <1>0, <1>2 DEF EmittersInv
<1>5. EmitterTypeOK' BY <1>0, <1>2 DEF EmitterTypeOK
<1>6. EmittersInv' BY <1>0, <1>2 DEF EmittersInv
<1>7. CallsInv'
  <2>1. eHeard' = eHeard /\ \A k \in 1..Len(eLog) : k \in 1..Len(eLog') /\ eLog'[k] = eLog[k] BY <1>2
  <2>2. ASSUME NEW s \in Subscribers, NEW i \in 1..Len(eHeard[s])
        PROVE  /\ eHeard[s][i].event \in 1..Len(eLog')
               /\ s \in eLog'[eHeard[s][i].event].sometime
               /\ eHeard[s][i].id = eLog'[eHeard[s][i].event].id
    <3>1. /\ eHeard[s][i].event \in 1..Len(eLog)
          /\ s \in eLog[eHeard[s][i].event].sometime
          /\ eHeard[s][i].id = eLog[eHeard[s][i].event].id
      BY <1>0 DEF CallsInv
    <3> QED BY <2>1, <3>1, Zenon
  <2>3. \A s \in Subscribers : NoneTwice(eHeard[s]) BY <1>0 DEF CallsInv
  <2> QED BY <2>1, <2>2, <2>3 DEF CallsInv
<1>8. DeliveryInv'
  <2>1. ASSUME NEW f \in Emitters, ePc'[f] = "snapshot"
        PROVE  /\ eLog'[eEvent'[f]].throughout \subseteq Range(eSubscribers')
               /\ Range(eSubscribers') \subseteq eLog'[eEvent'[f]].sometime
               /\ \A s \in Subscribers : ~With(eHeard'[s], eEvent'[f])
    <3>1. CASE f = e BY <1>2, <1>3, <3>1
    <3>2. CASE f # e BY <1>0, <1>2, <1>4, <2>1, <3>2 DEF DeliveryInv
    <3> QED BY <3>1, <3>2
  <2>2. ASSUME NEW f \in Emitters, ePc'[f] = "deliver"
        PROVE  /\ eSubs'[f] \subseteq eLog'[eEvent'[f]].sometime
               /\ \A s \in eSubs'[f] : ~With(eHeard'[s], eEvent'[f])
               /\ \A s \in eLog'[eEvent'[f]].throughout : s \in eSubs'[f] \/ With(eHeard'[s], eEvent'[f])
    <3>1. f # e BY <1>2, <2>2
    <3> QED BY <1>0, <1>2, <1>4, <2>2, <3>1 DEF DeliveryInv
  <2> QED BY <2>1, <2>2 DEF DeliveryInv
<1>9. ReturnedInv'
  <2> SUFFICES ASSUME NEW k \in 1..Len(eLog'), \A f \in Emitters : ePc'[f] # "idle" => eEvent'[f] # k,
                      NEW s \in eLog'[k].throughout
               PROVE  With(eHeard'[s], k)
    BY DEF ReturnedInv
  <2>1. k \in 1..Len(eLog) /\ eLog'[k] = eLog[k] BY <1>2
  <2>2. \A f \in Emitters : ePc[f] # "idle" => eEvent[f] # k BY <1>2
  <2> QED BY <1>0, <1>2, <2>1, <2>2 DEF ReturnedInv
<1> QED BY <1>5, <1>6, <1>7, <1>8, <1>9 DEF EmitterInv

(* The snapshot keeps the invariant: it holds all who must still hear. *)
LEMMA SnapshotKeeps ==
  ASSUME EmitterInv, NEW e \in Emitters, Emitter!Snapshot(e)
  PROVE  EmitterInv'
<1>0. EmitterTypeOK /\ EmittersInv /\ CallsInv /\ DeliveryInv /\ ReturnedInv BY DEF EmitterInv
<1>1. /\ ePc[e] = "snapshot" /\ ePc'[e] = "deliver" /\ eSubs'[e] = Range(eSubscribers)
      /\ ePc' \in [Emitters -> {"idle", "snapshot", "deliver"}] /\ eSubs' \in [Emitters -> SUBSET Subscribers]
      /\ \A f \in Emitters \ {e} : ePc'[f] = ePc[f] /\ eSubs'[f] = eSubs[f]
      /\ eSubscribers' = eSubscribers /\ eEvent' = eEvent /\ eLog' = eLog /\ eHeard' = eHeard
  BY <1>0, EmitterSnapshotFacts
<1>2. EmitterTypeOK' BY <1>0, <1>1 DEF EmitterTypeOK
<1>3. EmittersInv' BY <1>0, <1>1 DEF EmittersInv
<1>4. CallsInv' BY <1>0, <1>1 DEF CallsInv
<1>5. Range(eSubscribers) \subseteq Subscribers BY <1>0 DEF EmitterTypeOK
<1>6. DeliveryInv'
  <2>1. ASSUME NEW f \in Emitters, ePc'[f] = "deliver"
        PROVE  /\ eSubs'[f] \subseteq eLog'[eEvent'[f]].sometime
               /\ \A s \in eSubs'[f] : ~With(eHeard'[s], eEvent'[f])
               /\ \A s \in eLog'[eEvent'[f]].throughout : s \in eSubs'[f] \/ With(eHeard'[s], eEvent'[f])
    <3>1. CASE f = e BY <1>0, <1>1, <1>5, <3>1 DEF DeliveryInv
    <3>2. CASE f # e BY <1>0, <1>1, <2>1, <3>2 DEF DeliveryInv
    <3> QED BY <3>1, <3>2
  <2>2. ASSUME NEW f \in Emitters, ePc'[f] = "snapshot"
        PROVE  /\ eLog'[eEvent'[f]].throughout \subseteq Range(eSubscribers')
               /\ Range(eSubscribers') \subseteq eLog'[eEvent'[f]].sometime
               /\ \A s \in Subscribers : ~With(eHeard'[s], eEvent'[f])
    <3>1. f # e BY <1>1, <2>2
    <3> QED BY <1>0, <1>1, <2>2, <3>1 DEF DeliveryInv
  <2> QED BY <2>1, <2>2 DEF DeliveryInv
<1>7. ReturnedInv'
  <2>1. \A f \in Emitters : ePc'[f] # "idle" <=> ePc[f] # "idle" BY <1>1
  <2> QED BY <1>0, <1>1, <2>1 DEF ReturnedInv
<1> QED BY <1>2, <1>3, <1>4, <1>6, <1>7 DEF EmitterInv

(* OnEvent keeps the invariant: whom it calls leaves the rest of the snapshot. *)
LEMMA OnEventKeeps ==
  ASSUME EmitterInv, NEW e \in Emitters, NEW s \in Subscribers, Emitter!OnEvent(e, s)
  PROVE  EmitterInv'
<1>0. EmitterTypeOK /\ EmittersInv /\ CallsInv /\ DeliveryInv /\ ReturnedInv BY DEF EmitterInv
<1>1. PICK k : k = eEvent[e] OBVIOUS
<1>2. /\ ePc[e] = "deliver" /\ s \in eSubs[e] /\ k \in 1..Len(eLog)
      /\ eHeard' \in [Subscribers -> Seq(Call)]
      /\ \A m : With(eHeard'[s], m) <=> With(eHeard[s], m) \/ m = k
      /\ NoneTwice(eHeard[s]) /\ ~With(eHeard[s], k) => NoneTwice(eHeard'[s])
      /\ \A i \in 1..Len(eHeard'[s]) :
           \/ eHeard'[s][i].event = k /\ eHeard'[s][i].id = eLog[k].id
           \/ \E j \in 1..Len(eHeard[s]) : eHeard'[s][i] = eHeard[s][j]
      /\ \A t \in Subscribers \ {s} : eHeard'[t] = eHeard[t]
      /\ eSubs' \in [Emitters -> SUBSET Subscribers] /\ eSubs'[e] = eSubs[e] \ {s}
      /\ \A f \in Emitters \ {e} : eSubs'[f] = eSubs[f]
      /\ eSubscribers' = eSubscribers /\ ePc' = ePc /\ eEvent' = eEvent /\ eLog' = eLog
  <2>1. /\ ePc[e] = "deliver" /\ s \in eSubs[e] /\ k \in 1..Len(eLog)
        /\ eHeard' \in [Subscribers -> Seq(Call)]
        /\ \A t \in Subscribers \ {s} : eHeard'[t] = eHeard[t]
    BY <1>0, <1>1, OnEventFacts
  <2>2. \A m : With(eHeard'[s], m) <=> With(eHeard[s], m) \/ m = k
    BY <1>0, <1>1, OnEventFacts, ZenonT(30)
  <2>3. /\ NoneTwice(eHeard[s]) /\ ~With(eHeard[s], k) => NoneTwice(eHeard'[s])
        /\ UNCHANGED <<eSubscribers, ePc, eEvent, eLog>>
    BY <1>0, <1>1, OnEventFacts
  <2>4. \A i \in 1..Len(eHeard'[s]) :
          \/ eHeard'[s][i].event = k /\ eHeard'[s][i].id = eLog[k].id
          \/ \E j \in 1..Len(eHeard[s]) : eHeard'[s][i] = eHeard[s][j]
    BY <1>0, <1>1, OnEventFacts
  <2>5. /\ eSubs' \in [Emitters -> SUBSET Subscribers] /\ eSubs'[e] = eSubs[e] \ {s}
        /\ \A f \in Emitters \ {e} : eSubs'[f] = eSubs[f]
    BY <1>0, <1>1, OnEventFacts
  <2> QED BY <2>1, <2>2, <2>3, <2>4, <2>5
<1>3. ~With(eHeard[s], k) /\ s \in eLog[k].sometime BY <1>0, <1>1, <1>2 DEF DeliveryInv
<1>4. \A t \in Subscribers : \A m : With(eHeard'[t], m) <=> With(eHeard[t], m) \/ (t = s /\ m = k)
  BY <1>2
<1>5. \A f \in Emitters \ {e} : ePc[f] # "idle" => eEvent[f] # k BY <1>0, <1>1, <1>2 DEF EmittersInv
<1>6. EmitterTypeOK' BY <1>0, <1>2 DEF EmitterTypeOK
<1>7. EmittersInv' BY <1>0, <1>2 DEF EmittersInv
<1>8. CallsInv'
  <2> SUFFICES ASSUME NEW t \in Subscribers
               PROVE  /\ NoneTwice(eHeard'[t])
                      /\ \A i \in 1..Len(eHeard'[t]) :
                           /\ eHeard'[t][i].event \in 1..Len(eLog')
                           /\ t \in eLog'[eHeard'[t][i].event].sometime
                           /\ eHeard'[t][i].id = eLog'[eHeard'[t][i].event].id
    BY DEF CallsInv
  <2>1. CASE t = s BY <1>0, <1>2, <1>3, <2>1 DEF CallsInv
  <2>2. CASE t # s BY <1>0, <1>2, <2>2 DEF CallsInv
  <2> QED BY <2>1, <2>2
<1>9. \A f \in Emitters : eSubs[f] \subseteq Subscribers BY <1>0 DEF EmitterTypeOK
<1>10. \A m \in 1..Len(eLog) : eLog[m].throughout \subseteq Subscribers
  <2>1. \A m \in 1..Len(eLog) : eLog[m] \in Entry BY <1>0, ElementOfSeq DEF EmitterTypeOK
  <2> QED BY <2>1 DEF Entry
<1>11. DeliveryInv'
  <2>1. ASSUME NEW f \in Emitters, ePc'[f] = "deliver"
        PROVE  /\ eSubs'[f] \subseteq eLog'[eEvent'[f]].sometime
               /\ \A t \in eSubs'[f] : ~With(eHeard'[t], eEvent'[f])
               /\ \A t \in eLog'[eEvent'[f]].throughout : t \in eSubs'[f] \/ With(eHeard'[t], eEvent'[f])
    <3>0. eEvent[f] \in 1..Len(eLog) BY <1>0, <1>2, <2>1 DEF EmittersInv
    <3>1. CASE f = e BY <1>0, <1>1, <1>2, <1>4, <1>9, <1>10, <3>1 DEF DeliveryInv
    <3>2. CASE f # e
      <4>1. eSubs'[f] = eSubs[f] /\ eEvent'[f] = eEvent[f] /\ eEvent[f] # k /\ eLog' = eLog BY <1>2, <1>5, <2>1, <3>2
      <4> QED BY <1>0, <1>2, <1>4, <1>9, <1>10, <2>1, <3>0, <4>1 DEF DeliveryInv
    <3> QED BY <3>1, <3>2
  <2>2. ASSUME NEW f \in Emitters, ePc'[f] = "snapshot"
        PROVE  /\ eLog'[eEvent'[f]].throughout \subseteq Range(eSubscribers')
               /\ Range(eSubscribers') \subseteq eLog'[eEvent'[f]].sometime
               /\ \A t \in Subscribers : ~With(eHeard'[t], eEvent'[f])
    <3>1. f # e /\ eEvent[f] # k BY <1>2, <1>5, <2>2
    <3> QED BY <1>0, <1>2, <1>4, <2>2, <3>1 DEF DeliveryInv
  <2> QED BY <2>1, <2>2 DEF DeliveryInv
<1>12. ReturnedInv' BY <1>0, <1>2, <1>4, <1>10 DEF ReturnedInv
<1> QED BY <1>6, <1>7, <1>8, <1>11, <1>12 DEF EmitterInv

(* Emit returns when its snapshot is used up, so that all have heard. *)
LEMMA EmitReturnKeeps ==
  ASSUME EmitterInv, NEW e \in Emitters, Emitter!Return(e)
  PROVE  EmitterInv'
<1>0. EmitterTypeOK /\ EmittersInv /\ CallsInv /\ DeliveryInv /\ ReturnedInv BY DEF EmitterInv
<1>1. /\ ePc[e] = "deliver" /\ eSubs[e] = {} /\ ePc' = [ePc EXCEPT ![e] = "idle"]
      /\ eSubscribers' = eSubscribers /\ eSubs' = eSubs /\ eEvent' = eEvent /\ eLog' = eLog /\ eHeard' = eHeard
  BY DEF Emitter!Return
<1>2. /\ ePc' \in [Emitters -> {"idle", "snapshot", "deliver"}] /\ ePc'[e] = "idle"
      /\ \A f \in Emitters : ePc'[f] # "idle" => ePc'[f] = ePc[f] /\ f # e
      /\ \A f \in Emitters \ {e} : ePc'[f] = ePc[f]
  BY <1>0, <1>1 DEF EmitterTypeOK
<1>3. EmitterTypeOK' BY <1>0, <1>1, <1>2 DEF EmitterTypeOK
<1>4. EmittersInv' BY <1>0, <1>1, <1>2 DEF EmittersInv
<1>5. CallsInv' BY <1>0, <1>1 DEF CallsInv
<1>6. DeliveryInv' BY <1>0, <1>1, <1>2 DEF DeliveryInv
<1>7. ReturnedInv'
  <2> SUFFICES ASSUME NEW k \in 1..Len(eLog), \A f \in Emitters : ePc'[f] # "idle" => eEvent[f] # k,
                      NEW s \in eLog[k].throughout
               PROVE  With(eHeard[s], k)
    BY <1>1 DEF ReturnedInv
  <2>1. CASE eEvent[e] = k BY <1>0, <1>1, <2>1 DEF DeliveryInv
  <2>2. CASE eEvent[e] # k
    <3>1. \A f \in Emitters : ePc[f] # "idle" => eEvent[f] # k BY <1>2, <2>2
    <3> QED BY <1>0, <3>1 DEF ReturnedInv
  <2> QED BY <2>1, <2>2
<1> QED BY <1>3, <1>4, <1>5, <1>6, <1>7 DEF EmitterInv

(* Subscriptions that come and go during deliveries keep the invariant. *)
LEMMA RegistrationKeeps ==
  ASSUME EmitterInv, NEW s \in Subscribers, Emitter!Subscribe(s) \/ Emitter!Unsubscribe(s.id)
  PROVE  EmitterInv'
<1>0. EmitterTypeOK /\ EmittersInv /\ CallsInv /\ DeliveryInv /\ ReturnedInv BY DEF EmitterInv
<1>1. /\ Range(eSubscribers') \subseteq Subscribers
      /\ eLog' \in Seq(Entry) /\ Len(eLog') = Len(eLog)
      /\ \A k \in 1..Len(eLog) :
           /\ eLog'[k].id = eLog[k].id
           /\ eLog'[k].throughout \subseteq eLog[k].throughout
           /\ eLog[k].sometime \subseteq eLog'[k].sometime
           /\ ~Emitter!Active(k) => eLog'[k] = eLog[k]
           /\ Emitter!Active(k) =>
                /\ eLog[k].throughout \subseteq Range(eSubscribers) =>
                     eLog'[k].throughout \subseteq Range(eSubscribers')
                /\ Range(eSubscribers) \subseteq eLog[k].sometime =>
                     Range(eSubscribers') \subseteq eLog'[k].sometime
      /\ ePc' = ePc /\ eSubs' = eSubs /\ eEvent' = eEvent /\ eHeard' = eHeard
  BY <1>0, RegistrationFacts
<1>2. EmitterTypeOK' BY <1>0, <1>1 DEF EmitterTypeOK
<1>3. EmittersInv' BY <1>0, <1>1 DEF EmittersInv
<1>4. CallsInv' BY <1>0, <1>1 DEF CallsInv
<1>5. DeliveryInv'
  <2>1. \A f \in Emitters : ePc[f] # "idle" => eEvent[f] \in 1..Len(eLog) /\ Emitter!Active(eEvent[f])
    BY <1>0 DEF EmittersInv, Emitter!Active
  <2>2. ASSUME NEW f \in Emitters, ePc'[f] = "deliver"
        PROVE  /\ eSubs'[f] \subseteq eLog'[eEvent'[f]].sometime
               /\ \A t \in eSubs'[f] : ~With(eHeard'[t], eEvent'[f])
               /\ \A t \in eLog'[eEvent'[f]].throughout : t \in eSubs'[f] \/ With(eHeard'[t], eEvent'[f])
    BY <1>0, <1>1, <2>1, <2>2 DEF DeliveryInv
  <2>3. ASSUME NEW f \in Emitters, ePc'[f] = "snapshot"
        PROVE  /\ eLog'[eEvent'[f]].throughout \subseteq Range(eSubscribers')
               /\ Range(eSubscribers') \subseteq eLog'[eEvent'[f]].sometime
               /\ \A t \in Subscribers : ~With(eHeard'[t], eEvent'[f])
    BY <1>0, <1>1, <2>1, <2>3 DEF DeliveryInv
  <2> QED BY <2>2, <2>3 DEF DeliveryInv
<1>6. ReturnedInv' BY <1>0, <1>1 DEF ReturnedInv
<1> QED BY <1>2, <1>3, <1>4, <1>5, <1>6 DEF EmitterInv

(* EmitterInv holds throughout, whatever the emitters and the administrator of
   the subscriptions do. *)
THEOREM EmitterInvariant == Emitter!Spec => []EmitterInv
<1>1. Emitter!Init => EmitterInv
  <2> SUFFICES ASSUME Emitter!Init PROVE EmitterInv
    OBVIOUS
  <2>1. /\ eSubscribers = Emitter!Empty /\ eLog = <<>> /\ Len(eLog) = 0
        /\ \A e \in Emitters : ePc[e] = "idle"
        /\ eHeard = [s \in Subscribers |-> <<>>]
        /\ \A s \in Subscribers : eHeard[s] = <<>> /\ Len(eHeard[s]) = 0
    BY DEF Emitter!Init
  <2>2. EmitterTypeOK
    <3>1. Range(eSubscribers) = {} BY <2>1 DEF Range, Emitter!Empty
    <3>2. <<>> \in Seq(Call) /\ eLog \in Seq(Entry) BY <2>1
    <3> QED BY <2>1, <3>1, <3>2 DEF Emitter!Init, EmitterTypeOK
  <2>3. EmittersInv BY <2>1 DEF EmittersInv
  <2>4. CallsInv BY <2>1 DEF CallsInv, NoneTwice
  <2>5. DeliveryInv BY <2>1 DEF DeliveryInv
  <2>6. ReturnedInv BY <2>1 DEF ReturnedInv
  <2> QED BY <2>2, <2>3, <2>4, <2>5, <2>6 DEF EmitterInv
<1>2. EmitterInv /\ [Emitter!Next]_(Emitter!vars) => EmitterInv'
  <2> SUFFICES ASSUME EmitterInv, [Emitter!Next]_(Emitter!vars) PROVE EmitterInv'
    OBVIOUS
  <2>1. CASE UNCHANGED <<eSubscribers, ePc, eSubs, eEvent, eLog, eHeard>>
    BY <2>1 DEF EmitterInv, EmitterTypeOK, EmittersInv, CallsInv, DeliveryInv, ReturnedInv
  <2> QED BY <2>1, EmitterSteps, EmitKeeps, SnapshotKeeps, OnEventKeeps, EmitReturnKeeps, RegistrationKeeps
<1> QED BY <1>1, <1>2, PTL DEF Emitter!Spec

(* An event reaches, once and under one ID, every subscriber registered throughout
   its Emit, and none that was registered at no moment of it (HeardBySubscribed),
   for any number of goroutines, subscribers, panics and changes. *)
THEOREM Heard == Emitter!Spec => []Emitter!HeardBySubscribed
<1>1. ASSUME EmitterInv PROVE Emitter!HeardBySubscribed
  <2>0. EmitterTypeOK /\ CallsInv /\ ReturnedInv BY <1>1 DEF EmitterInv
  <2>1. DOMAIN eLog = 1..Len(eLog) /\ \A s \in Subscribers : DOMAIN eHeard[s] = 1..Len(eHeard[s])
    BY <2>0 DEF EmitterTypeOK
  <2>2. \A k \in 1..Len(eLog) : Emitter!Active(k) \/ \A e \in Emitters : ePc[e] # "idle" => eEvent[e] # k
    BY DEF Emitter!Active
  <2>3. \A s \in Subscribers : \A i, j \in DOMAIN eHeard[s] : eHeard[s][i].event = eHeard[s][j].event => i = j
    BY <2>0, <2>1 DEF CallsInv, NoneTwice
  <2>4. \A s \in Subscribers : \A i \in DOMAIN eHeard[s] :
          s \in eLog[eHeard[s][i].event].sometime /\ eHeard[s][i].id = eLog[eHeard[s][i].event].id
    BY <2>0, <2>1 DEF CallsInv
  <2>5. \A k \in DOMAIN eLog, s \in Subscribers :
          ~Emitter!Active(k) /\ s \in eLog[k].throughout => Emitter!Hears(k, s)
    BY <2>0, <2>1, <2>2 DEF ReturnedInv, With, Emitter!Hears
  <2> QED BY <2>3, <2>4, <2>5 DEF Emitter!HeardBySubscribed
<1> QED BY <1>1, EmitterInvariant, PTL
-----------------------------------------------------------------------------
(* The model router.  RouterInv says that its map holds, under their IDs,    *)
(* the providers that the administrator's operations have left in service.   *)

Operation ==
  [op: {"register"}, p: Providers, ok: BOOLEAN] \union [op: {"replace"}, p: Providers]
    \union [op: {"unregister"}, prefix: {<<p.vendor>> : p \in Providers}]

\* InService, of a log.
Serving(l, p, n) ==
  \E i \in 1..n : Router!Installs(l[i], p) /\ \A j \in i + 1..n : ~Router!Retires(l[j], p)

MapInv == \A id \in DOMAIN providers : providers[id] \in Providers /\ Router!ID(providers[id]) = id

ServiceInv == \A p \in Providers : p \in Range(providers) <=> Serving(rLog, p, Len(rLog))

\* Register succeeded exactly if the ID was free.
RegisteredOK(l) ==
  \A i \in 1..Len(l) : l[i].op = "register" =>
    (l[i].ok <=> ~\E q \in Providers : Router!ID(q) = Router!ID(l[i].p) /\ Serving(l, q, i - 1))

\* The last Route gave what it should, by the log.
RouteOK(l, r) ==
  /\ r.at \in 0..Len(l)
  /\ r.got # Router!None =>
       /\ Serving(l, r.got, r.at) /\ Router!hasAllCapabilities(r.got, r.required)
       /\ "embedding" \in r.required => Router!EmbedSupported(r.got)
       /\ \A q \in Providers :
            Serving(l, q, r.at) /\ Router!hasAllCapabilities(q, r.required) /\ Router!ID(q) = r.preferred
              => r.got = q
  /\ r.got = Router!None /\ r.required # {} =>
       \A q \in Providers : ~(Serving(l, q, r.at) /\ Router!hasAllCapabilities(q, r.required))

RouterInv ==
  /\ rLog \in Seq(Operation)
  /\ MapInv /\ ServiceInv /\ RegisteredOK(rLog) /\ RouteOK(rLog, route)

(* One more operation puts a provider in service, takes it out, or leaves it. *)
LEMMA ServingStep ==
  ASSUME NEW l, NEW p, NEW n \in Nat
  PROVE  Serving(l, p, n + 1) <=>
           Router!Installs(l[n + 1], p) \/ (Serving(l, p, n) /\ ~Router!Retires(l[n + 1], p))
<1> DEFINE In(i) == Router!Installs(l[i], p)
           Out(i) == Router!Retires(l[i], p)
<1>1. \A i : i \in 1..n + 1 <=> i \in 1..n \/ i = n + 1 OBVIOUS
<1>2. \A i \in 1..n : \A j : j \in i + 1..n + 1 <=> j \in i + 1..n \/ j = n + 1 OBVIOUS
<1>3. \A j : j \notin n + 1 + 1..n + 1 OBVIOUS
<1>4. Serving(l, p, n + 1) <=> \E i \in 1..n + 1 : In(i) /\ \A j \in i + 1..n + 1 : ~Out(j) BY DEF Serving
<1>5. Serving(l, p, n) <=> \E i \in 1..n : In(i) /\ \A j \in i + 1..n : ~Out(j) BY DEF Serving
<1> HIDE DEF In, Out
<1>6. (\E i \in 1..n + 1 : In(i) /\ \A j \in i + 1..n + 1 : ~Out(j)) <=>
        In(n + 1) \/ ((\E i \in 1..n : In(i) /\ \A j \in i + 1..n : ~Out(j)) /\ ~Out(n + 1))
  BY <1>1, <1>2, <1>3
<1> QED BY <1>4, <1>5, <1>6 DEF In, Out

(* Who is in service after n operations depends on these only. *)
LEMMA ServingSame ==
  ASSUME NEW l, NEW m, NEW n \in Nat, \A k \in 1..n : l[k] = m[k], NEW p
  PROVE  Serving(l, p, n) <=> Serving(m, p, n)
<1>1. \A i \in 1..n : \A j \in i + 1..n : j \in 1..n OBVIOUS
<1> QED BY <1>1 DEF Serving

(* The first element of a sequence, as a subsequence. *)
LEMMA FirstOnly ==
  ASSUME NEW S, NEW q \in Seq(S), 1 <= Len(q)
  PROVE  SubSeq(q, 1, 1) = <<q[1]>>
<1>1. q[1] \in S BY ElementOfSeq
<1>2. SubSeq(q, 1, 1) \in Seq(S) /\ Len(SubSeq(q, 1, 1)) = 1 /\ SubSeq(q, 1, 1)[1] = q[1] OBVIOUS
<1>3. <<q[1]>> \in Seq(S) /\ Len(<<q[1]>>) = 1 /\ <<q[1]>>[1] = q[1] BY <1>1
<1> DEFINE a == SubSeq(q, 1, 1)
           b == <<q[1]>>
<1>4. a \in Seq(S) /\ b \in Seq(S) /\ Len(a) = Len(b) BY <1>2, <1>3
<1>5. \A i \in 1..Len(a) : a[i] = b[i] BY <1>2, <1>3
<1> HIDE DEF a, b
<1>6. a = b BY <1>4, <1>5, SeqEqual
<1> QED BY <1>6 DEF a, b

(* Unregister takes out the providers of the vendor, and no others. *)
LEMMA UnderVendor ==
  ASSUME NEW p \in Providers, NEW q \in Providers
  PROVE  Router!Under(Router!ID(q), <<p.vendor>>) <=> <<p.vendor>> = <<q.vendor>>
<1>1. PICK v \in STRING, w \in STRING, m \in Seq(STRING) \ {<<>>} :
        v = p.vendor /\ w = q.vendor /\ m = q.model
  BY ProvidersAssumption
<1>2. PICK id : id = <<w>> \o m OBVIOUS
<1>3. Len(m) \in Nat \ {0} BY EmptySeq
<1>4. <<v>> \in Seq(STRING) /\ <<w>> \in Seq(STRING) /\ Len(<<v>>) = 1 /\ Len(<<w>>) = 1 BY <1>1
<1>5. id \in Seq(STRING) /\ Len(id) = 1 + Len(m) /\ id[1] = w
  <2>1. id \in Seq(STRING) /\ Len(id) = Len(<<w>>) + Len(m) BY <1>2, <1>4, ConcatProperties
  <2>2. 1 \in 1..Len(<<w>>) + Len(m) /\ 1 <= Len(<<w>>) BY <1>3, <1>4
  <2>3. id[1] = <<w>>[1] BY <1>2, <1>4, <2>2, ConcatProperties
  <2> QED BY <1>4, <2>1, <2>3
<1>6. 1 <= Len(id) /\ Len(id) # 1 BY <1>3, <1>5
<1>7. SubSeq(<<v>>, 1, 1) = <<v>> /\ SubSeq(id, 1, 1) = <<w>>
  <2>1. <<v>>[1] = v /\ 1 <= Len(<<v>>) BY <1>4
  <2>2. SubSeq(<<v>>, 1, 1) = <<<<v>>[1]>> BY <1>4, <2>1, FirstOnly
  <2>3. SubSeq(id, 1, 1) = <<id[1]>> BY <1>5, <1>6, FirstOnly
  <2> QED BY <1>5, <2>1, <2>2, <2>3
<1>8. Router!Under(id, <<v>>) <=> <<v>> = <<w>>
  BY <1>4, <1>6, <1>7, Zenon DEF Router!Under, Router!IsStrictPrefix, Router!IsPrefix
<1> QED BY <1>1, <1>2, <1>8 DEF Router!ID

\* What Register, Replace and Unregister have in common: one more operation in the
\* log, and in the map what it leaves in service.
Administers(o) ==
  /\ o \in Operation
  /\ rLog' = Append(rLog, o) /\ route' = route
  /\ \A id \in DOMAIN providers' : providers'[id] \in Providers /\ Router!ID(providers'[id]) = id
  /\ \A q \in Providers : q \in Range(providers') <=>
       Router!Installs(o, q) \/ (q \in Range(providers) /\ ~Router!Retires(o, q))
  /\ o.op = "register" => (o.ok <=> Router!ID(o.p) \notin DOMAIN providers)

(* Put replaces just the provider of that ID. *)
LEMMA PutFacts ==
  ASSUME MapInv, NEW p \in Providers
  PROVE  LET f == Router!Put(p)
         IN  /\ \A id \in DOMAIN f : f[id] \in Providers /\ Router!ID(f[id]) = id
             /\ \A q \in Providers : q \in Range(f) <=>
                  q = p \/ (q \in Range(providers) /\ Router!ID(q) # Router!ID(p))
<1> DEFINE f == Router!Put(p)
<1>1. f = [id \in DOMAIN providers \union {Router!ID(p)} |->
             IF id = Router!ID(p) THEN p ELSE providers[id]]
  BY DEF Router!Put
<1> HIDE DEF f
<1>2. DOMAIN f = DOMAIN providers \union {Router!ID(p)} BY <1>1
<1>3. \A id \in DOMAIN f : f[id] \in Providers /\ Router!ID(f[id]) = id BY <1>1 DEF MapInv
<1>4. f[Router!ID(p)] = p /\ \A id \in DOMAIN providers : id # Router!ID(p) => f[id] = providers[id] BY <1>1
<1>5. \A q : q \in Range(f) <=> \E id \in DOMAIN f : f[id] = q BY DEF Range
<1>6. \A q : q \in Range(providers) <=> \E id \in DOMAIN providers : providers[id] = q BY DEF Range
<1>7. \A q \in Providers : q \in Range(f) <=>
        q = p \/ (q \in Range(providers) /\ Router!ID(q) # Router!ID(p))
  BY <1>2, <1>4, <1>5, <1>6 DEF MapInv
<1> QED BY <1>3, <1>7 DEF f

(* A step of the router administers, routes or changes nothing. *)
LEMMA RouterSteps ==
  ASSUME MapInv, [Router!Next]_(Router!vars)
  PROVE  \/ \E o : Administers(o)
         \/ \E required \in Requirements : \E preferred : Router!Route(required, preferred)
         \/ UNCHANGED <<providers, route, rLog>>
<1>0. ASSUME NEW q PROVE q \in Range(providers) <=> \E id \in DOMAIN providers : providers[id] = q
  BY DEF Range
<1>1. ASSUME NEW p \in Providers, Router!Register(p) PROVE \E o : Administers(o)
  <2>1. CASE Router!ID(p) \notin DOMAIN providers
    <3> DEFINE o == [op |-> "register", p |-> p, ok |-> TRUE]
    <3>1. providers' = Router!Put(p) /\ rLog' = Append(rLog, o) /\ route' = route
      BY <1>1, <2>1, Zenon DEF Router!Register
    <3>2. o \in Operation BY DEF Operation
    <3>3. \A q : (Router!Installs(o, q) <=> q = p) /\ ~Router!Retires(o, q)
      BY DEF Router!Installs, Router!Retires
    <3>4. \A q : q \in Range(providers) => Router!ID(q) # Router!ID(p) BY <1>0, <2>1 DEF MapInv
    <3>5. o.op = "register" /\ o.ok = TRUE /\ o.p = p OBVIOUS
    <3> HIDE DEF o
    <3>6. Administers(o) BY <2>1, <3>1, <3>2, <3>3, <3>4, <3>5, PutFacts DEF Administers
    <3> QED BY <3>6
  <2>2. CASE Router!ID(p) \in DOMAIN providers
    <3> DEFINE o == [op |-> "register", p |-> p, ok |-> FALSE]
    <3>1. providers' = providers /\ rLog' = Append(rLog, o) /\ route' = route
      BY <1>1, <2>2, Zenon DEF Router!Register
    <3>2. o \in Operation BY DEF Operation
    <3>3. \A q : ~Router!Installs(o, q) /\ ~Router!Retires(o, q)
      BY DEF Router!Installs, Router!Retires
    <3>5. o.op = "register" /\ o.ok = FALSE /\ o.p = p OBVIOUS
    <3> HIDE DEF o
    <3>6. Administers(o) BY <2>2, <3>1, <3>2, <3>3, <3>5 DEF Administers, MapInv
    <3> QED BY <3>6
  <2> QED BY <2>1, <2>2
<1>2. ASSUME NEW p \in Providers, Router!Replace(p) PROVE \E o : Administers(o)
  <2> DEFINE o == [op |-> "replace", p |-> p]
  <2>1. providers' = Router!Put(p) /\ rLog' = Append(rLog, o) /\ route' = route
    BY <1>2 DEF Router!Replace
  <2>2. o \in Operation BY DEF Operation
  <2>3. \A q : (Router!Installs(o, q) <=> q = p) /\ (Router!Retires(o, q) <=> q # p /\ Router!ID(p) = Router!ID(q))
    BY DEF Router!Installs, Router!Retires
  <2>4. o.op # "register" OBVIOUS
  <2> HIDE DEF o
  <2>5. Administers(o) BY <2>1, <2>2, <2>3, <2>4, PutFacts DEF Administers
  <2> QED BY <2>5
<1>3. ASSUME NEW p \in Providers, Router!Unregister(<<p.vendor>>) PROVE \E o : Administers(o)
  <2> DEFINE o == [op |-> "unregister", prefix |-> <<p.vendor>>]
             D == {id \in DOMAIN providers : ~Router!Under(id, <<p.vendor>>)}
  <2>1. providers' = [id \in D |-> providers[id]] /\ rLog' = Append(rLog, o) /\ route' = route
    BY <1>3 DEF Router!Unregister, Router!RestrictDomain, Router!Restrict
  <2>2. o \in Operation BY DEF Operation
  <2>3. \A q : ~Router!Installs(o, q) /\ (Router!Retires(o, q) <=> <<p.vendor>> = <<q.vendor>>)
    BY DEF Router!Installs, Router!Retires
  <2>4. o.op # "register" OBVIOUS
  <2> HIDE DEF o
  <2>5. \A id \in DOMAIN providers' : providers'[id] \in Providers /\ Router!ID(providers'[id]) = id
    BY <2>1 DEF MapInv
  <2>6. \A q \in Providers : q \in Range(providers') <=>
          q \in Range(providers) /\ ~Router!Under(Router!ID(q), <<p.vendor>>)
    BY <2>1 DEF Range, MapInv
  <2>7. \A q \in Providers : q \in Range(providers') <=>
          Router!Installs(o, q) \/ (q \in Range(providers) /\ ~Router!Retires(o, q))
    BY <2>3, <2>6, UnderVendor
  <2>8. Administers(o) BY <2>1, <2>2, <2>4, <2>5, <2>7 DEF Administers
  <2> QED BY <2>8
<1> QED BY <1>1, <1>2, <1>3 DEF Router!Next, Router!vars

(* Another operation leaves what was true of the earlier ones. *)
LEMMA AdministersKeeps ==
  ASSUME RouterInv, NEW o, Administers(o)
  PROVE  RouterInv'
<1>0. rLog \in Seq(Operation) /\ MapInv /\ ServiceInv /\ RegisteredOK(rLog) /\ RouteOK(rLog, route)
  BY DEF RouterInv
<1>1. PICK n \in Nat : n = Len(rLog) BY <1>0
<1>log. PICK l : l = rLog' OBVIOUS
<1>2. /\ l \in Seq(Operation) /\ Len(l) = n + 1 /\ l[n + 1] = o /\ \A k \in 1..n : l[k] = rLog[k]
  BY <1>0, <1>1, <1>log, AppendProperties DEF Administers
<1>3. \A m \in 0..n : \A q : Serving(l, q, m) <=> Serving(rLog, q, m)
  <2> SUFFICES ASSUME NEW m \in 0..n, NEW q PROVE Serving(l, q, m) <=> Serving(rLog, q, m)
    OBVIOUS
  <2>1. m \in Nat /\ \A k \in 1..m : l[k] = rLog[k] BY <1>2
  <2> QED BY <2>1, ServingSame
<1>4. MapInv' BY DEF Administers, MapInv
<1>5. ServiceInv'
  <2> SUFFICES ASSUME NEW q \in Providers PROVE q \in Range(providers') <=> Serving(l, q, n + 1)
    BY <1>1, <1>2, <1>log DEF ServiceInv
  <2>1. Serving(l, q, n + 1) <=> Router!Installs(o, q) \/ (Serving(l, q, n) /\ ~Router!Retires(o, q))
    BY <1>2, ServingStep
  <2>2. Serving(l, q, n) <=> q \in Range(providers)
    <3>1. n \in 0..n OBVIOUS
    <3> QED BY <1>0, <1>1, <1>3, <3>1 DEF ServiceInv
  <2> QED BY <2>1, <2>2 DEF Administers
<1>6. RegisteredOK(l)
  <2> SUFFICES ASSUME NEW i \in 1..n + 1, l[i].op = "register"
               PROVE  l[i].ok <=> ~\E q \in Providers : Router!ID(q) = Router!ID(l[i].p) /\ Serving(l, q, i - 1)
    BY <1>2 DEF RegisteredOK
  <2>1. i - 1 \in 0..n OBVIOUS
  <2>2. CASE i \in 1..n
    <3>1. l[i] = rLog[i] BY <1>2, <2>2
    <3> QED BY <1>0, <1>1, <1>3, <2>1, <2>2, <3>1 DEF RegisteredOK
  <2>3. CASE i = n + 1
    <3>1. l[i] = o /\ i - 1 = n BY <1>2, <2>3
    <3>2. \A q \in Providers : Serving(l, q, n) <=> q \in Range(providers)
      BY <1>0, <1>1, <1>3, <2>1, <3>1 DEF ServiceInv
    <3>3. (\E q \in Providers : Router!ID(q) = Router!ID(o.p) /\ q \in Range(providers)) <=>
            Router!ID(o.p) \in DOMAIN providers
      BY <1>0 DEF MapInv, Range
    <3>4. o.ok <=> Router!ID(o.p) \notin DOMAIN providers BY <3>1 DEF Administers
    <3> QED BY <3>1, <3>2, <3>3, <3>4
  <2> QED BY <2>2, <2>3
<1>7. RouteOK(l, route)
  <2>1. route.at \in 0..n /\ route.at \in 0..n + 1 BY <1>0, <1>1 DEF RouteOK
  <2>2. \A q : Serving(l, q, route.at) <=> Serving(rLog, q, route.at) BY <1>3, <2>1
  <2> QED BY <1>0, <1>2, <2>1, <2>2 DEF RouteOK
<1>8. route' = route BY DEF Administers
<1> QED BY <1>log, <1>2, <1>4, <1>5, <1>6, <1>7, <1>8 DEF RouterInv

(* Route gives a provider in service that fits, and the preferred one if it
   does; map order decides nothing else. *)
LEMMA RouteKeeps ==
  ASSUME RouterInv, NEW required, NEW preferred, Router!Route(required, preferred)
  PROVE  RouterInv'
<1>0. rLog \in Seq(Operation) /\ MapInv /\ ServiceInv /\ RegisteredOK(rLog) BY DEF RouterInv
<1> DEFINE capable == {p \in Range(providers) : Router!hasAllCapabilities(p, required)}
           first == {p \in capable : Router!ID(p) = preferred}
<1>1. PICK p \in IF first # {} THEN first ELSE IF capable # {} THEN capable ELSE {Router!None} :
        route' = [required |-> required, preferred |-> preferred, got |-> p, at |-> Len(rLog)]
  BY DEF Router!Route, Router!Range, Range
<1>2. providers' = providers /\ rLog' = rLog BY DEF Router!Route
<1>3. PICK n \in Nat : n = Len(rLog) BY <1>0
<1>4. \A q : q \in capable <=> q \in Range(providers) /\ Router!hasAllCapabilities(q, required) OBVIOUS
<1>5. \A q : q \in first <=> q \in capable /\ Router!ID(q) = preferred OBVIOUS
<1> HIDE DEF capable, first
<1>6. \A q \in Range(providers) : q \in Providers /\ providers[Router!ID(q)] = q BY <1>0 DEF MapInv, Range
<1>7. Router!None \notin Providers
  <2>1. Router!None.model = <<>> BY DEF Router!None
  <2> QED BY <2>1, ProvidersAssumption
<1>8. \A q \in Providers : q \in capable <=> Serving(rLog, q, n) /\ Router!hasAllCapabilities(q, required)
  BY <1>0, <1>3, <1>4 DEF ServiceInv
<1>9. p # Router!None => p \in capable /\ p \in Providers BY <1>1, <1>4, <1>5, <1>6
<1>10. p = Router!None => capable = {} BY <1>1, <1>4, <1>5, <1>6, <1>7
<1>11. ASSUME NEW q \in capable, Router!ID(q) = preferred PROVE p = q
  <2>1. first # {} /\ p \in first BY <1>1, <1>5, <1>11
  <2> QED BY <1>4, <1>5, <1>6, <1>11, <2>1
<1>12. "embedding" \in required /\ p \in capable => Router!EmbedSupported(p)
  <2>1. "embedding" \in Router!Capabilities(p) => p.vendor = "openai" BY DEF Router!Capabilities
  <2> QED BY <1>4, <2>1 DEF Router!hasAllCapabilities, Router!EmbedSupported
<1>13. RouteOK(rLog, route')
  <2>1. PICK r : r = route' OBVIOUS
  <2>2. r.required = required /\ r.preferred = preferred /\ r.got = p /\ r.at = n BY <1>1, <1>3, <2>1
  <2>3. n \in 0..Len(rLog) BY <1>3
  <2>4. RouteOK(rLog, r) BY <1>8, <1>9, <1>10, <1>11, <1>12, <2>2, <2>3 DEF RouteOK
  <2> QED BY <2>1, <2>4
<1>14. MapInv' /\ ServiceInv' BY <1>0, <1>2 DEF MapInv, ServiceInv
<1> QED BY <1>0, <1>2, <1>13, <1>14 DEF RouterInv

(* RouterInv holds throughout. *)
THEOREM RouterInvariant == Router!Spec => []RouterInv
<1>1. Router!Init => RouterInv
  <2> SUFFICES ASSUME Router!Init PROVE RouterInv
    OBVIOUS
  <2>1. rLog = <<>> /\ Len(rLog) = 0 /\ DOMAIN providers = {} BY DEF Router!Init
  <2>2. /\ route.required = {} /\ route.got = Router!None /\ route.at = 0 BY DEF Router!Init
  <2>3. rLog \in Seq(Operation) BY <2>1
  <2>4. MapInv BY <2>1 DEF MapInv
  <2>5. ServiceInv BY <2>1 DEF ServiceInv, Serving, Range
  <2>6. RegisteredOK(rLog) BY <2>1 DEF RegisteredOK
  <2>7. RouteOK(rLog, route) BY <2>1, <2>2 DEF RouteOK
  <2> QED BY <2>3, <2>4, <2>5, <2>6, <2>7 DEF RouterInv
<1>2. RouterInv /\ [Router!Next]_(Router!vars) => RouterInv'
  <2> SUFFICES ASSUME RouterInv, [Router!Next]_(Router!vars) PROVE RouterInv'
    OBVIOUS
  <2>1. CASE UNCHANGED <<providers, route, rLog>>
    BY <2>1 DEF RouterInv, MapInv, ServiceInv
  <2>2. MapInv BY DEF RouterInv
  <2> QED BY <2>1, <2>2, RouterSteps, AdministersKeeps, RouteKeeps
<1> QED BY <1>1, <1>2, PTL DEF Router!Spec

(* Route gives only providers that the administrator's operations left in service,
   refuses only if none fits, and Register refuses only an ID in use
   (RouteInService), for any providers and any number of operations. *)
THEOREM Routes == Router!Spec => []Router!RouteInService
<1>1. ASSUME RouterInv PROVE Router!RouteInService
  <2>1. \A q, n : Router!InService(q, n) <=> Serving(rLog, q, n) BY DEF Router!InService, Serving
  <2>2. RouteOK(rLog, route) /\ RegisteredOK(rLog) /\ DOMAIN rLog = 1..Len(rLog) BY <1>1 DEF RouterInv
  <2> QED BY <2>1, <2>2 DEF Router!RouteInService, RouteOK, RegisteredOK
<1> QED BY <1>1, RouterInvariant, PTL

-----------------------------------------------------------------------------
(* The capability registry.  CapabilityInv says that the store holds, under  *)
(* its ID, a capability whose registration was the last use of that ID.      *)

\* The last use of its ID in l was the registration of c.
Current(l, c) ==
  \E i \in 1..Len(l) : /\ l[i].op = "register" /\ l[i].c = c
                       /\ \A j \in i + 1..Len(l) : Capability!ID(l[j].c) # Capability!ID(c)

CapabilityInv ==
  /\ cLog \in Seq([op: {"register", "unregister"}, c: CapabilitySet])
  /\ \A id \in DOMAIN cStore : cStore[id] \in CapabilitySet /\ Capability!ID(cStore[id]) = id
  /\ \A c \in CapabilitySet : c \in Range(cStore) <=> Current(cLog, c)
(* A set of positions that is not empty has a last one. *)
LEMMA LastPosition ==
  ASSUME NEW n \in Nat, NEW T \in SUBSET (1..n), T # {}
  PROVE  \E x \in T : \A y \in T : y <= x
<1> DEFINE R == {ss \in Nat \X Nat : ss[1] < ss[2]}
           D == {m \in Nat : \E y \in T : m = n - y}
<1>1. IsWellFoundedOn(R, Nat)
  <2>1. R = OpToRel(<, Nat) BY DEF OpToRel
  <2> QED BY <2>1, NatLessThanWellFounded
<1>2. \A x, y \in Nat : <<y, x>> \in R <=> y < x OBVIOUS
<1>3. \A y \in T : y \in Int /\ n - y \in D OBVIOUS
<1>4. D # {} /\ D \in SUBSET Nat BY <1>3
<1> HIDE DEF R
<1>5. PICK m \in D : \A d \in D : ~(<<d, m>> \in R) BY <1>1, <1>4, WFMin
<1>6. PICK x \in T : m = n - x BY <1>5
<1>7. \A y \in T : ~(n - y < n - x) BY <1>2, <1>3, <1>4, <1>5, <1>6
<1> QED BY <1>3, <1>6, <1>7

(* What one more operation does to who is current. *)
LEMMA CurrentStep ==
  ASSUME NEW S, NEW l \in Seq(S), NEW o \in S, NEW c
  PROVE  Current(Append(l, o), c) <=>
           (o.op = "register" /\ o.c = c) \/ (Current(l, c) /\ Capability!ID(o.c) # Capability!ID(c))
<1> DEFINE In(q, i) == q[i].op = "register" /\ q[i].c = c
           Out(q, i) == Capability!ID(q[i].c) = Capability!ID(c)
<1>1. PICK n \in Nat : n = Len(l) OBVIOUS
<1>m. PICK m : m = Append(l, o) OBVIOUS
<1>2. Len(m) = n + 1 /\ m[n + 1] = o /\ \A k \in 1..n : m[k] = l[k] BY <1>1, <1>m, AppendProperties
<1>3. Current(m, c) <=> \E i \in 1..n + 1 : In(m, i) /\ \A j \in i + 1..n + 1 : ~Out(m, j)
  BY <1>2 DEF Current
<1>4. Current(l, c) <=> \E i \in 1..n : In(l, i) /\ \A j \in i + 1..n : ~Out(l, j) BY <1>1 DEF Current
<1>5. /\ \A k \in 1..n : (In(m, k) <=> In(l, k)) /\ (Out(m, k) <=> Out(l, k))
      /\ In(m, n + 1) <=> o.op = "register" /\ o.c = c
      /\ Out(m, n + 1) <=> Capability!ID(o.c) = Capability!ID(c)
  BY <1>2
<1> HIDE DEF In, Out
<1>6. \A i : i \in 1..n + 1 <=> i \in 1..n \/ i = n + 1 BY <1>1
<1>7. \A i \in 1..n : \A j : /\ j \in i + 1..n + 1 <=> j \in i + 1..n \/ j = n + 1
                             /\ j \in i + 1..n => j \in 1..n
  BY <1>1
<1>8. \A j : j \notin n + 1 + 1..n + 1 BY <1>1
<1>9. (\E i \in 1..n + 1 : In(m, i) /\ \A j \in i + 1..n + 1 : ~Out(m, j)) <=>
        In(m, n + 1) \/ ((\E i \in 1..n : In(m, i) /\ \A j \in i + 1..n : ~Out(m, j)) /\ ~Out(m, n + 1))
  BY <1>6, <1>7, <1>8
<1>10. (\E i \in 1..n : In(m, i) /\ \A j \in i + 1..n : ~Out(m, j)) <=>
         (\E i \in 1..n : In(l, i) /\ \A j \in i + 1..n : ~Out(l, j))
  BY <1>5, <1>7
<1> QED BY <1>m, <1>3, <1>4, <1>5, <1>9, <1>10

(* CapabilityInv holds throughout. *)
THEOREM CapabilityInvariant == Capability!Spec => []CapabilityInv
<1>1. Capability!Init => CapabilityInv
  <2> SUFFICES ASSUME Capability!Init PROVE CapabilityInv
    OBVIOUS
  <2>1. cLog = <<>> /\ Len(cLog) = 0 /\ DOMAIN cStore = {} BY DEF Capability!Init
  <2>2. Range(cStore) = {} /\ \A c : ~Current(cLog, c) BY <2>1 DEF Range, Current
  <2>3. cLog \in Seq([op: {"register", "unregister"}, c: CapabilitySet]) BY <2>1
  <2> QED BY <2>1, <2>2, <2>3 DEF CapabilityInv
<1>2. CapabilityInv /\ [Capability!Next]_(Capability!vars) => CapabilityInv'
  <2> SUFFICES ASSUME CapabilityInv, [Capability!Next]_(Capability!vars) PROVE CapabilityInv'
    OBVIOUS
  <2> DEFINE O == [op: {"register", "unregister"}, c: CapabilitySet]
  <2>0. /\ cLog \in Seq(O)
        /\ \A id \in DOMAIN cStore : cStore[id] \in CapabilitySet /\ Capability!ID(cStore[id]) = id
        /\ \A c \in CapabilitySet : c \in Range(cStore) <=> Current(cLog, c)
        /\ \A q : q \in Range(cStore) <=> \E id \in DOMAIN cStore : cStore[id] = q
    BY DEF CapabilityInv, Range
  <2>1. CASE UNCHANGED <<cStore, cLog>> BY <2>1 DEF CapabilityInv
  <2>2. ASSUME NEW c \in CapabilitySet, Capability!Register(c) PROVE CapabilityInv'
    <3> DEFINE o == [op |-> "register", c |-> c]
    <3>1. /\ cLog' = Append(cLog, o)
          /\ cStore' = [id \in DOMAIN cStore \union {Capability!ID(c)} |->
                          IF id = Capability!ID(c) THEN c ELSE cStore[id]]
      BY <2>2 DEF Capability!Register
    <3>2. o \in O /\ o.op = "register" /\ o.c = c OBVIOUS
    <3> HIDE DEF o, O
    <3>3. cLog' \in Seq(O) BY <2>0, <3>1, <3>2, AppendProperties
    <3>4. \A q : Current(cLog', q) <=> c = q \/ (Current(cLog, q) /\ Capability!ID(c) # Capability!ID(q))
      BY <2>0, <3>1, <3>2, CurrentStep
    <3>5. \A id \in DOMAIN cStore' : cStore'[id] \in CapabilitySet /\ Capability!ID(cStore'[id]) = id
      BY <2>0, <3>1
    <3>6. \A q : q \in Range(cStore') <=> \E id \in DOMAIN cStore' : cStore'[id] = q BY DEF Range
    <3>7. /\ DOMAIN cStore' = DOMAIN cStore \union {Capability!ID(c)} /\ cStore'[Capability!ID(c)] = c
          /\ \A id \in DOMAIN cStore : id # Capability!ID(c) => cStore'[id] = cStore[id]
      BY <3>1
    <3>8. \A q \in CapabilitySet : q \in Range(cStore') <=>
            c = q \/ (q \in Range(cStore) /\ Capability!ID(c) # Capability!ID(q))
      BY <2>0, <3>6, <3>7
    <3>9. \A q \in CapabilitySet : q \in Range(cStore') <=> Current(cLog', q) BY <2>0, <3>4, <3>8
    <3> QED BY <3>3, <3>5, <3>9 DEF CapabilityInv, O
  <2>3. ASSUME NEW c \in CapabilitySet, Capability!Unregister(c) PROVE CapabilityInv'
    <3> DEFINE o == [op |-> "unregister", c |-> c]
    <3>1. /\ cLog' = Append(cLog, o)
          /\ cStore' = [id \in DOMAIN cStore \ {Capability!ID(c)} |-> cStore[id]]
      BY <2>3 DEF Capability!Unregister, Capability!Restrict
    <3>2. o \in O /\ o.op # "register" /\ o.c = c OBVIOUS
    <3> HIDE DEF o, O
    <3>3. cLog' \in Seq(O) BY <2>0, <3>1, <3>2, AppendProperties
    <3>4. \A q : Current(cLog', q) <=> Current(cLog, q) /\ Capability!ID(c) # Capability!ID(q)
      BY <2>0, <3>1, <3>2, CurrentStep
    <3>5. \A id \in DOMAIN cStore' : cStore'[id] \in CapabilitySet /\ Capability!ID(cStore'[id]) = id
      BY <2>0, <3>1
    <3>6. \A q : q \in Range(cStore') <=> \E id \in DOMAIN cStore' : cStore'[id] = q BY DEF Range
    <3>7. /\ DOMAIN cStore' = DOMAIN cStore \ {Capability!ID(c)}
          /\ \A id \in DOMAIN cStore' : cStore'[id] = cStore[id]
      BY <3>1
    <3>8. \A q \in CapabilitySet : q \in Range(cStore') <=>
            q \in Range(cStore) /\ Capability!ID(c) # Capability!ID(q)
      BY <2>0, <3>6, <3>7
    <3>9. \A q \in CapabilitySet : q \in Range(cStore') <=> Current(cLog', q) BY <2>0, <3>4, <3>8
    <3> QED BY <3>3, <3>5, <3>9 DEF CapabilityInv, O
  <2> QED BY <2>1, <2>2, <2>3 DEF Capability!Next, Capability!Done, Capability!vars
<1> QED BY <1>1, <1>2, PTL DEF Capability!Spec

(* A source finds what it registered unless another used the ID after it, in the
   store and in the lists, and finds nothing that it removed (SourceFindsItsOwn). *)
THEOREM SourceFinds == Capability!Spec => []Capability!SourceFindsItsOwn
<1>1. ASSUME CapabilityInv PROVE Capability!SourceFindsItsOwn
  <2>1. PICK n \in Nat : n = Len(cLog) BY <1>1 DEF CapabilityInv
  <2>2. DOMAIN cLog = 1..n BY <1>1, <2>1 DEF CapabilityInv
  <2>3. \A c : c \in Range(cStore) => c \in CapabilitySet /\ Capability!ID(c) \in DOMAIN cStore
                                      /\ cStore[Capability!ID(c)] = c
    BY <1>1 DEF CapabilityInv, Range
  <2>4. ASSUME NEW c \in CapabilitySet, Capability!Own(c) # {}
        PROVE  /\ Capability!LastOwn(c) \in 1..n /\ cLog[Capability!LastOwn(c)].c = c
               /\ \A j \in 1..n : cLog[j].c = c => j <= Capability!LastOwn(c)
    <3>1. Capability!Own(c) = {i \in 1..n : cLog[i].c = c} BY <2>2 DEF Capability!Own
    <3>2. Capability!Own(c) \in SUBSET (1..n) BY <3>1
    <3>3. \E x \in Capability!Own(c) : \A y \in Capability!Own(c) : y <= x BY <2>4, <3>2, LastPosition
    <3>4. /\ Capability!LastOwn(c) \in Capability!Own(c)
          /\ \A y \in Capability!Own(c) : y <= Capability!LastOwn(c)
      BY <3>3 DEF Capability!LastOwn
    <3> QED BY <3>1, <3>4
  <2>5. ASSUME NEW c \in CapabilitySet, Capability!Holds(c), ~Capability!Disturbed(c)
        PROVE  Capability!ID(c) \in DOMAIN cStore /\ cStore[Capability!ID(c)] = c /\ c \in Range(cStore)
    <3>1. PICK i : i = Capability!LastOwn(c) OBVIOUS
    <3>2. i \in 1..n /\ cLog[i].c = c /\ cLog[i].op = "register" /\ \A j \in 1..n : cLog[j].c = c => j <= i
      BY <2>4, <2>5, <3>1 DEF Capability!Holds
    <3>3. ASSUME NEW j \in i + 1..n PROVE Capability!ID(cLog[j].c) # Capability!ID(c)
      <4>1. j \in 1..n /\ ~(j <= i) BY <3>2
      <4>2. cLog[j].c # c BY <3>2, <4>1
      <4> QED BY <2>1, <2>5, <3>1, <4>2 DEF Capability!Disturbed
    <3>4. Current(cLog, c) BY <2>1, <3>2, <3>3 DEF Current
    <3> QED BY <1>1, <2>3, <3>4 DEF CapabilityInv
  <2>6. ASSUME NEW c \in CapabilitySet, c \in Range(cStore) PROVE Capability!Holds(c)
    <3>1. PICK i \in 1..n : /\ cLog[i].op = "register" /\ cLog[i].c = c
                            /\ \A j \in i + 1..n : Capability!ID(cLog[j].c) # Capability!ID(c)
      BY <1>1, <2>1, <2>6 DEF CapabilityInv, Current
    <3>2. Capability!Own(c) # {} BY <2>2, <3>1 DEF Capability!Own
    <3>3. PICK k : k = Capability!LastOwn(c) OBVIOUS
    <3>4. k \in 1..n /\ cLog[k].c = c /\ i <= k BY <2>4, <3>1, <3>2, <3>3
    <3>5. ~(k \in i + 1..n) BY <3>1, <3>4
    <3>6. k = i BY <3>4, <3>5
    <3> QED BY <3>1, <3>2, <3>3, <3>6 DEF Capability!Holds
  <2>7. ASSUME NEW c \in Range(cStore)
        PROVE  Capability!CapabilityToDescriptor(c) \in Capability!List \intersect Capability!ListByKind(c.kind)
    <3>1. Capability!Range(cStore) = Range(cStore) BY DEF Capability!Range, Range
    <3> QED BY <3>1 DEF Capability!List, Capability!ListByKind
  <2>8. ASSUME NEW c \in Range(cStore), c.descriptor = <<>>
        PROVE  /\ Capability!CapabilityToDescriptor(c).id \in DOMAIN cStore
               /\ Capability!CapabilityToDescriptor(cStore[Capability!CapabilityToDescriptor(c).id])
                    = Capability!CapabilityToDescriptor(c)
    <3>1. Capability!CapabilityToDescriptor(c).id = Capability!ID(c)
      BY <2>8 DEF Capability!CapabilityToDescriptor
    <3> QED BY <2>3, <3>1
  <2>9. Capability!Range(cStore) = Range(cStore) BY DEF Capability!Range, Range
  <2> QED BY <2>5, <2>6, <2>7, <2>8, <2>9 DEF Capability!SourceFindsItsOwn
<1> QED BY <1>1, CapabilityInvariant, PTL

-----------------------------------------------------------------------------
(* Induction and recursion over 0..n, for the lists of the services below.   *)

(* Induction over 0..n, of a set. *)
LEMMA UpTo ==
  ASSUME NEW n \in Nat, NEW S, 0 \in S, \A k \in 1..n : k - 1 \in S => k \in S
  PROVE  \A k \in 0..n : k \in S
<1> DEFINE R == {ss \in Nat \X Nat : ss[1] < ss[2]}
           D == {k \in 0..n : k \notin S}
<1> SUFFICES ASSUME D # {} PROVE FALSE
  OBVIOUS
<1>1. IsWellFoundedOn(R, Nat)
  <2>1. R = OpToRel(<, Nat) BY DEF OpToRel
  <2> QED BY <2>1, NatLessThanWellFounded
<1>2. \A x, y \in Nat : <<y, x>> \in R <=> y < x OBVIOUS
<1>3. D \in SUBSET Nat OBVIOUS
<1> HIDE DEF R
<1>4. PICK m \in D : \A d \in D : ~(<<d, m>> \in R) BY <1>1, <1>3, WFMin
<1>5. m \in 1..n /\ m - 1 \in 0..n /\ m - 1 \in Nat OBVIOUS
<1>6. m - 1 \in S
  <2>1. m - 1 < m /\ m \in Nat BY <1>5
  <2>2. <<m - 1, m>> \in R BY <1>2, <1>5, <2>1
  <2>3. m - 1 \notin D BY <1>4, <2>2
  <2> QED BY <1>5, <2>3
<1> QED BY <1>5, <1>6

\* f is defined over 0..n by its value at 0 and a step.
Recursive(f, n, A, base, step) ==
  f \in [0..n -> A] /\ f[0] = base /\ \A k \in 1..n : f[k] = step[<<k, f[k - 1]>>]

(* There is a function defined by recursion over 0..n. *)
LEMMA Recursion ==
  ASSUME NEW n \in Nat, NEW A, NEW base \in A, NEW step \in [(1..n) \X A -> A]
  PROVE  \E f : Recursive(f, n, A, base, step)
<1> DEFINE P(m, f) == f \in [0..m -> A] /\ f[0] = base /\ \A k \in 1..m : f[k] = step[<<k, f[k - 1]>>]
           S == {m \in 0..n : \E f : P(m, f)}
<1>1. 0 \in S
  <2>1. P(0, [k \in 0..0 |-> base]) OBVIOUS
  <2>2. \E f : P(0, f) BY <2>1
  <2> HIDE DEF P
  <2> QED BY <2>2
<1>2. ASSUME NEW m \in 1..n, m - 1 \in S PROVE m \in S
  <2>1. PICK f : P(m - 1, f) BY <1>2
  <2> DEFINE v == step[<<m, f[m - 1]>>]
             g == [k \in 0..m |-> IF k = m THEN v ELSE f[k]]
  <2>2. m \in Nat /\ m - 1 \in 0..m - 1 /\ f[m - 1] \in A BY <2>1
  <2>3. v \in A BY <2>2
  <2> HIDE DEF v
  <2>4. g \in [0..m -> A] /\ g[0] = base BY <2>1, <2>2, <2>3
  <2>5. g[m] = step[<<m, g[m - 1]>>]
    <3>1. g[m] = v /\ g[m - 1] = f[m - 1] BY <2>2
    <3> QED BY <3>1 DEF v
  <2>6. \A k \in 1..m - 1 : g[k] = f[k] /\ g[k - 1] = f[k - 1] BY <2>2
  <2>7. \A k \in 1..m : k = m \/ k \in 1..m - 1 BY <2>2
  <2>8. P(m, g)
    <3> HIDE DEF g
    <3> QED BY <2>1, <2>4, <2>5, <2>6, <2>7
  <2>9. \E h : P(m, h) BY <2>8
  <2>10. m \in 0..n BY <1>2
  <2> HIDE DEF P
  <2> QED BY <2>9, <2>10
<1> HIDE DEF S
<1>3. n \in S BY <1>1, <1>2, UpTo
<1> QED BY <1>3 DEF S, Recursive

-----------------------------------------------------------------------------
(* The embedding call.                                                       *)

Sent == [index: Int, vector: Nat \ {0}]

\* The slots after the first m entries: each has the last vector sent for it.
SlotsOf(q, data, m) ==
  /\ q \in [1..Len(data) -> Nat]
  /\ \A i \in 1..Len(data) :
       \/ q[i] = 0 /\ \A j \in 1..m : data[j].index # i - 1
       \/ \E j \in 1..m : /\ data[j].index = i - 1 /\ q[i] = data[j].vector
                         /\ \A k \in 1..m : data[k].index = i - 1 => k <= j

(* One more entry. *)
LEMMA SlotStep ==
  ASSUME NEW data \in Seq(Sent), NEW m \in 1..Len(data), NEW q, SlotsOf(q, data, m - 1), NEW r,
         r = IF data[m].index \in 0..Len(data) - 1
             THEN [q EXCEPT ![data[m].index + 1] = data[m].vector] ELSE q
  PROVE  SlotsOf(r, data, m)
<1>1. PICK n \in Nat : n = Len(data) OBVIOUS
<1>2. data[m] \in Sent /\ m \in 1..n BY <1>1
<1>3. PICK x \in Int, v \in Nat : data[m].index = x /\ data[m].vector = v BY <1>2 DEF Sent
<1>4. \A k : k \in 1..m <=> k \in 1..m - 1 \/ k = m BY <1>2
<1>5. \A k \in 1..m - 1 : k \in Int /\ k <= m BY <1>2
<1>6. q \in [1..n -> Nat] BY <1>1 DEF SlotsOf
<1>7. r \in [1..n -> Nat] /\ \A i \in 1..n : r[i] = IF x = i - 1 THEN v ELSE q[i]
  BY <1>1, <1>3, <1>6
<1>8. ASSUME NEW i \in 1..n
      PROVE  \/ r[i] = 0 /\ \A j \in 1..m : data[j].index # i - 1
             \/ \E j \in 1..m : /\ data[j].index = i - 1 /\ r[i] = data[j].vector
                               /\ \A k \in 1..m : data[k].index = i - 1 => k <= j
  <2>1. CASE x = i - 1
    <3>1. r[i] = data[m].vector /\ data[m].index = i - 1 BY <1>3, <1>7, <2>1
    <3>2. \A k \in 1..m : k <= m BY <1>2
    <3> QED BY <1>4, <3>1, <3>2
  <2>2. CASE x # i - 1
    <3>1. r[i] = q[i] /\ data[m].index # i - 1 BY <1>3, <1>7, <2>2
    <3>2. \/ q[i] = 0 /\ \A j \in 1..m - 1 : data[j].index # i - 1
          \/ \E j \in 1..m - 1 : /\ data[j].index = i - 1 /\ q[i] = data[j].vector
                                /\ \A k \in 1..m - 1 : data[k].index = i - 1 => k <= j
      BY <1>1 DEF SlotsOf
    <3> QED BY <1>4, <3>1, <3>2
  <2> QED BY <2>1, <2>2
<1> QED BY <1>1, <1>7, <1>8 DEF SlotsOf

(* After the loop every slot has the last vector sent for it. *)
LEMMA PlacedSlots ==
  ASSUME NEW data \in Seq(Sent)
  PROVE  SlotsOf(Vectors!Placed(data), data, Len(data))
<1>1. PICK n \in Nat : n = Len(data) /\ DOMAIN data = 1..n OBVIOUS
<1> DEFINE A == [1..n -> Nat]
           none == [i \in DOMAIN data |-> Vectors!Nil]
           After(q, m) == IF data[m].index \in 0..Len(data) - 1
                          THEN [q EXCEPT ![data[m].index + 1] = data[m].vector] ELSE q
           Body(c, m) == IF m = 0 THEN none ELSE After(c[m - 1], m)
           step == [p \in (1..n) \X A |-> After(p[2], p[1])]
<1>2. none \in A /\ SlotsOf(none, data, 0) BY <1>1 DEF SlotsOf, Vectors!Nil
<1>3. ASSUME NEW m \in 1..n, NEW q \in A PROVE After(q, m) \in A
  <2>1. data[m] \in Sent BY <1>1
  <2>2. data[m].vector \in Nat BY <2>1 DEF Sent
  <2> QED BY <2>2
<1>4. step \in [(1..n) \X A -> A] BY <1>3
<1>5. \A m \in 1..n : \A q \in A : step[<<m, q>>] = After(q, m) OBVIOUS
<1> HIDE DEF A, none, After, step
<1>6. \E c : c = [m \in 0..n |-> Body(c, m)]
  <2>1. PICK c : Recursive(c, n, A, none, step) BY <1>2, <1>4, Recursion
  <2>2. c \in [0..n -> A] /\ c[0] = none /\ \A m \in 1..n : c[m] = step[<<m, c[m - 1]>>]
    BY <2>1 DEF Recursive
  <2>3. \A m \in 1..n : m - 1 \in 0..n /\ m # 0 OBVIOUS
  <2>4. \A m \in 1..n : c[m] = After(c[m - 1], m) BY <1>5, <2>2, <2>3
  <2>5. \A m \in 0..n : m = 0 \/ m \in 1..n OBVIOUS
  <2>6. \A m \in 0..n : c[m] = Body(c, m) BY <2>2, <2>3, <2>4, <2>5
  <2> HIDE DEF Body
  <2>7. c = [m \in 0..n |-> Body(c, m)] BY <2>2, <2>6
  <2> QED BY <2>7
<1>7. PICK c : c = [m \in 0..n |-> Body(c, m)] /\ Vectors!Placed(data) = c[n]
  <2>1. Vectors!Placed(data) = (CHOOSE c : c = [m \in 0..n |-> Body(c, m)])[n]
    BY <1>1, Zenon DEF Vectors!Placed, After, none
  <2> HIDE DEF Body
  <2> QED BY <1>6, <2>1, Zenon
<1> DEFINE S == {m \in 0..n : SlotsOf(c[m], data, m)}
<1>8. 0 \in S BY <1>2, <1>7
<1>9. ASSUME NEW m \in 1..n, m - 1 \in S PROVE m \in S
  <2>1. c[m] = After(c[m - 1], m) BY <1>7
  <2>2. SlotsOf(c[m], data, m) BY <1>1, <1>9, <2>1, SlotStep DEF After
  <2> QED BY <2>2
<1> HIDE DEF S
<1>10. \A m \in 0..n : m \in S BY <1>8, <1>9, UpTo, Zenon
<1> QED BY <1>1, <1>7, <1>10 DEF S

(* If every index below n is sent and n entries are, no other index is. *)
LEMMA EverySlot ==
  ASSUME NEW n \in Nat, NEW idx \in [1..n -> Int], \A i \in 1..n : \E j \in 1..n : idx[j] = i - 1
  PROVE  \A j \in 1..n : idx[j] \in 0..n - 1
<1> DEFINE f == [i \in 1..n |-> CHOOSE j \in 1..n : idx[j] = i - 1]
<1>1. f \in [1..n -> 1..n] /\ \A i \in 1..n : idx[f[i]] = i - 1 OBVIOUS
<1> HIDE DEF f
<1>2. \A a, b \in 1..n : f[a] = f[b] => a = b
  <2> SUFFICES ASSUME NEW a \in 1..n, NEW b \in 1..n, f[a] = f[b] PROVE a = b
    OBVIOUS
  <2>1. a - 1 = b - 1 BY <1>1
  <2> QED BY <2>1
<1>3. f \in Injection(1..n, 1..n) BY <1>1, <1>2 DEF Injection, IsInjective
<1>4. f \in Surjection(1..n, 1..n)
  <2>1. IsFiniteSet(1..n) BY FS_Interval
  <2> QED BY <1>3, <2>1, FS_Injection
<1> QED BY <1>1, <1>4 DEF Surjection

VectorsInv ==
  /\ texts \in Nat
  /\ vPc \in {"idle", "post", "returned"} => body # "open"
  /\ vPc = "returned" /\ err = "none" => reply \in Seq(Sent) /\ results = Vectors!Placed(reply)

(* VectorsInv holds throughout. *)
THEOREM VectorsInvariant == Vectors!Spec => []VectorsInv
<1>1. Vectors!Init => VectorsInv BY DEF Vectors!Init, VectorsInv
<1>2. VectorsInv /\ [Vectors!Next]_(Vectors!vars) => VectorsInv'
  <2> SUFFICES ASSUME VectorsInv, [Vectors!Next]_(Vectors!vars) PROVE VectorsInv'
    OBVIOUS
  <2>1. CASE UNCHANGED Vectors!vars BY <2>1 DEF VectorsInv, Vectors!vars
  <2>2. ASSUME NEW m \in BOOLEAN, NEW k \in BOOLEAN, NEW n \in 0..MaxTexts, Vectors!Embed(m, k, n)
        PROVE  VectorsInv'
    <3>1. texts' \in Nat BY <2>2, RepliesAssumption DEF Vectors!Embed
    <3>2. /\ body' = body /\ body # "open"
          /\ vPc' = "post" \/ (vPc' = "returned" /\ err' # "none")
      BY <2>2 DEF Vectors!Embed, Vectors!Fail, VectorsInv
    <3> QED BY <3>1, <3>2 DEF VectorsInv
  <2>3. CASE Vectors!PostFails BY <2>3 DEF Vectors!PostFails, Vectors!Fail, VectorsInv
  <2>4. ASSUME NEW s \in Statuses, Vectors!PostAnswered(s) PROVE VectorsInv'
    BY <2>4 DEF Vectors!PostAnswered, VectorsInv
  <2>5. CASE Vectors!ReadFails BY <2>5 DEF Vectors!ReadFails, Vectors!Fail, VectorsInv
  <2>6. CASE Vectors!Refused BY <2>6 DEF Vectors!Refused, Vectors!Fail, VectorsInv
  <2>7. CASE Vectors!NotAList BY <2>7 DEF Vectors!NotAList, Vectors!Fail, VectorsInv
  <2>8. ASSUME NEW data \in Replies, Vectors!Decoded(data) PROVE VectorsInv'
    <3>1. data \in Seq(Sent) BY RepliesAssumption DEF Sent
    <3> QED BY <2>8, <3>1 DEF Vectors!Decoded, VectorsInv
  <2>9. CASE Vectors!Done BY <2>1, <2>9 DEF Vectors!Done
  <2> QED BY <2>1, <2>2, <2>3, <2>4, <2>5, <2>6, <2>7, <2>8, <2>9 DEF Vectors!Next
<1> QED BY <1>1, <1>2, PTL DEF Vectors!Spec

(* A successful call gives text i the vector that the server sent for it, or none
   (openAICompatibleEmbed), for any texts and any list that a server may send. *)
THEOREM InPlace == Vectors!Spec => []Vectors!VectorsInPlace
<1>1. ASSUME VectorsInv PROVE Vectors!VectorsInPlace
  <2>1. SUFFICES ASSUME vPc = "returned", err = "none"
                 PROVE  /\ Len(results) = Len(reply)
                        /\ \A i \in DOMAIN results :
                             IF Vectors!At(i) = {} THEN results[i] = Vectors!Nil
                             ELSE results[i] = reply[CHOOSE j \in Vectors!At(i) : \A k \in Vectors!At(i) : k <= j].vector
                        /\ Vectors!Truthful => \A i \in DOMAIN results : results[i] \in {i, Vectors!Nil}
                        /\ Vectors!Complete => Vectors!Nil \notin Vectors!Range(results)
                        /\ ~Vectors!Complete => Vectors!Nil \in Vectors!Range(results) \/ Len(results) # texts
    BY <1>1 DEF VectorsInv, Vectors!VectorsInPlace
  <2>0. PICK q : q = results OBVIOUS
  <2>2. PICK n \in Nat, data \in Seq(Sent) :
          data = reply /\ q = results /\ n = Len(data) /\ SlotsOf(q, data, n)
    BY <1>1, <2>0, <2>1, PlacedSlots DEF VectorsInv
  <2>3. /\ DOMAIN data = 1..n /\ q \in [1..n -> Nat] /\ DOMAIN q = 1..n /\ Len(q) = n
        /\ \A j \in 1..n : data[j].index \in Int /\ data[j].vector \in Nat /\ data[j].vector # 0
    <3>1. DOMAIN data = 1..n /\ q \in [1..n -> Nat] BY <2>2 DEF SlotsOf
    <3>2. DOMAIN q = 1..n /\ Len(q) = n BY <3>1
    <3>3. \A j \in 1..n : data[j] \in Sent BY <2>2
    <3>4. \A e \in Sent : e.index \in Int /\ e.vector \in Nat /\ e.vector # 0 BY DEF Sent
    <3> QED BY <3>1, <3>2, <3>3, <3>4
  <2>4. \A i \in 1..n :
          \/ q[i] = 0 /\ \A j \in 1..n : data[j].index # i - 1
          \/ \E j \in 1..n : /\ data[j].index = i - 1 /\ q[i] = data[j].vector
                            /\ \A k \in 1..n : data[k].index = i - 1 => k <= j
    BY <2>2 DEF SlotsOf
  <2>5. \A i : Vectors!At(i) = {j \in 1..n : data[j].index = i - 1} BY <2>2, <2>3 DEF Vectors!At
  <2>6. ASSUME NEW i \in 1..n
        PROVE  IF Vectors!At(i) = {} THEN q[i] = 0
               ELSE q[i] = data[CHOOSE j \in Vectors!At(i) : \A k \in Vectors!At(i) : k <= j].vector
    <3>1. CASE q[i] = 0 /\ \A j \in 1..n : data[j].index # i - 1
      <4>1. Vectors!At(i) = {} BY <2>5, <3>1
      <4> QED BY <3>1, <4>1
    <3>2. CASE \E j \in 1..n : /\ data[j].index = i - 1 /\ q[i] = data[j].vector
                              /\ \A k \in 1..n : data[k].index = i - 1 => k <= j
      <4>1. PICK j \in 1..n : /\ data[j].index = i - 1 /\ q[i] = data[j].vector
                              /\ \A k \in 1..n : data[k].index = i - 1 => k <= j
        BY <3>2
      <4>2. j \in Vectors!At(i) /\ \A k \in Vectors!At(i) : k <= j BY <2>5, <4>1
      <4>3. PICK l : l = CHOOSE m \in Vectors!At(i) : \A k \in Vectors!At(i) : k <= m OBVIOUS
      <4>4. l \in Vectors!At(i) /\ \A k \in Vectors!At(i) : k <= l BY <4>2, <4>3
      <4>5. l \in 1..n /\ l <= j /\ j <= l BY <2>5, <4>2, <4>4
      <4>6. l = j BY <4>5
      <4> QED BY <4>1, <4>2, <4>3, <4>6
    <3> QED BY <2>4, <3>1, <3>2
  <2>7. Vectors!Truthful => \A i \in 1..n : q[i] \in {i, 0}
    <3>1. Vectors!Truthful => \A j \in 1..n : data[j].vector = data[j].index + 1
      BY <2>2, <2>3 DEF Vectors!Truthful
    <3>2. \A i \in 1..n : (i - 1) + 1 = i OBVIOUS
    <3> QED BY <2>4, <3>1, <3>2
  <2>8. 0 \in Vectors!Range(results) <=> \E i \in 1..n : q[i] = 0 BY <2>2, <2>3 DEF Vectors!Range
  <2>9. ASSUME Vectors!Complete, NEW i \in 1..n PROVE q[i] # 0
    <3>1. texts = n /\ {data[j].index : j \in 1..n} = 0..n - 1 BY <2>2, <2>3, <2>9 DEF Vectors!Complete
    <3>2. i - 1 \in 0..n - 1 OBVIOUS
    <3>3. PICK j \in 1..n : data[j].index = i - 1 BY <3>1, <3>2
    <3> QED BY <2>3, <2>4, <3>3
  <2>10. ASSUME texts = n, \A i \in 1..n : q[i] # 0 PROVE Vectors!Complete
    <3> DEFINE idx == [j \in 1..n |-> data[j].index]
    <3>1. idx \in [1..n -> Int] BY <2>3
    <3>2. \A i \in 1..n : \E j \in 1..n : idx[j] = i - 1 BY <2>4, <2>10
    <3>3. \A j \in 1..n : idx[j] = data[j].index OBVIOUS
    <3> HIDE DEF idx
    <3>4. \A j \in 1..n : idx[j] \in 0..n - 1 BY <3>1, <3>2, EverySlot
    <3>5. \A x \in 0..n - 1 : x + 1 \in 1..n /\ (x + 1) - 1 = x OBVIOUS
    <3>6. \A x \in 0..n - 1 : \E j \in 1..n : idx[j] = x BY <3>2, <3>5
    <3>7. {data[j].index : j \in 1..n} = 0..n - 1 BY <3>3, <3>4, <3>6, ZenonT(40)
    <3> QED BY <2>2, <2>3, <2>10, <3>7 DEF Vectors!Complete
  <2> QED BY <2>2, <2>3, <2>6, <2>7, <2>8, <2>9, <2>10 DEF Vectors!Nil
<1> QED BY <1>1, VectorsInvariant, PTL

-----------------------------------------------------------------------------
(* The retrieval pipeline.                                                   *)

Words == [lower: STRING, len: Nat, stop: BOOLEAN, newline: BOOLEAN]
Chunk == [doc: DocIDs, n: Nat, content: Seq(Words)]

\* s is the sums of the first members of q.
PartialSums(s, n, q) ==
  s \in [0..n -> Nat] /\ s[0] = 0 /\ \A m \in 1..n : s[m] = s[m - 1] + q[m]

(* The loops that add up lengths compute the last partial sum. *)
LEMMA TotalValue ==
  ASSUME NEW n \in Nat, NEW q, Len(q) = n, NEW s, PartialSums(s, n, q)
  PROVE  Pipeline!Total(q) = s[n]
<1> DEFINE Body(c, m) == IF m = 0 THEN 0 ELSE c[m - 1] + q[m]
<1>1. s \in [0..n -> Nat] /\ s[0] = 0 /\ \A m \in 1..n : s[m] = s[m - 1] + q[m] BY DEF PartialSums
<1>2. s = [m \in 0..n |-> Body(s, m)]
  <2>1. \A m \in 0..n : m = 0 \/ (m \in 1..n /\ m # 0) OBVIOUS
  <2>2. \A m \in 0..n : s[m] = Body(s, m) BY <1>1, <2>1
  <2> HIDE DEF Body
  <2> QED BY <1>1, <2>2
<1>3. PICK c : c = [m \in 0..n |-> Body(c, m)] /\ Pipeline!Total(q) = c[n]
  <2>1. Pipeline!Total(q) = (CHOOSE c : c = [m \in 0..n |-> Body(c, m)])[n] BY ZenonT(60) DEF Pipeline!Total
  <2> HIDE DEF Body
  <2> QED BY <1>2, <2>1, ZenonT(60)
<1> DEFINE S == {m \in 0..n : c[m] = s[m]}
<1>4. 0 \in S BY <1>1, <1>3
<1>5. ASSUME NEW m \in 1..n, m - 1 \in S PROVE m \in S
  <2>1. c[m] = c[m - 1] + q[m] BY <1>3
  <2> QED BY <1>1, <1>5, <2>1
<1> HIDE DEF S
<1>6. \A m \in 0..n : m \in S BY <1>4, <1>5, UpTo, Zenon
<1> QED BY <1>3, <1>6 DEF S

(* Numbers have partial sums. *)
LEMMA SumsExist ==
  ASSUME NEW n \in Nat, NEW q \in [1..n -> Nat]
  PROVE  \E s : PartialSums(s, n, q)
<1> DEFINE step == [p \in (1..n) \X Nat |-> p[2] + q[p[1]]]
<1>1. step \in [(1..n) \X Nat -> Nat] /\ \A m \in 1..n : \A x \in Nat : step[<<m, x>>] = x + q[m] BY SMTT(30)
<1> HIDE DEF step
<1>2. PICK s : Recursive(s, n, Nat, 0, step) BY <1>1, Recursion
<1>3. s \in [0..n -> Nat] /\ s[0] = 0 /\ \A m \in 1..n : s[m] = step[<<m, s[m - 1]>>] BY <1>2 DEF Recursive
<1>4. \A m \in 1..n : s[m - 1] \in Nat BY <1>3
<1>5. \A m \in 1..n : s[m] = s[m - 1] + q[m] BY <1>1, <1>3, <1>4
<1>6. PartialSums(s, n, q) BY <1>3, <1>5 DEF PartialSums
<1> QED BY <1>6

(* A text has a length. *)
LEMMA LengthNat ==
  ASSUME NEW text \in Seq(Words)
  PROVE  Pipeline!Length(text) \in Nat
<1>1. PICK n \in Nat : n = Len(text) /\ DOMAIN text = 1..n OBVIOUS
<1> DEFINE q == [i \in DOMAIN text |-> text[i].len]
<1>2. \A i \in 1..n : text[i] \in Words BY <1>1
<1>3. q \in [1..n -> Nat] /\ Len(q) = n BY <1>1, <1>2 DEF Words
<1> HIDE DEF q
<1>4. PICK s : PartialSums(s, n, q) BY <1>3, SumsExist
<1>5. Pipeline!Total(q) = s[n] /\ s[n] \in Nat
  <2>1. Pipeline!Total(q) = s[n] BY <1>3, <1>4, TotalValue
  <2>2. s \in [0..n -> Nat] BY <1>4 DEF PartialSums
  <2> QED BY <2>1, <2>2
<1>6. Pipeline!Max({0, n - 1}) \in Nat
  <2>1. \E x \in {0, n - 1} : \A y \in {0, n - 1} : x >= y OBVIOUS
  <2>2. /\ Pipeline!Max({0, n - 1}) \in {0, n - 1}
        /\ \A y \in {0, n - 1} : Pipeline!Max({0, n - 1}) >= y
    BY <2>1, Zenon DEF Pipeline!Max
  <2> QED BY <2>2
<1>7. Pipeline!Length(text) = Pipeline!Max({0, n - 1}) + Pipeline!Total(q) BY <1>1 DEF Pipeline!Length, q
<1> QED BY <1>5, <1>6, <1>7

(* A finite set of positions has an element of every rank. *)
LEMMA Nth ==
  ASSUME NEW m \in Nat, NEW T \in SUBSET (1..m)
  PROVE  /\ IsFiniteSet(T) /\ Cardinality(T) \in Nat
         /\ \A n \in 1..Cardinality(T) : \E i \in T : Cardinality({j \in T : j <= i}) = n
<1> DEFINE below(i) == {j \in T : j <= i}
           rank == [i \in T |-> Cardinality(below(i))]
<1>1. IsFiniteSet(T) /\ Cardinality(T) \in Nat
  <2>1. IsFiniteSet(1..m) BY FS_Interval
  <2> QED BY <2>1, FS_Subset, FS_CardinalityType
<1>2. \A i \in T : i \in Nat /\ below(i) \in SUBSET T /\ i \in below(i) OBVIOUS
<1>3. \A i, j \in T : j \in below(i) <=> j <= i OBVIOUS
<1> HIDE DEF below
<1>4. \A i \in T : /\ IsFiniteSet(below(i)) /\ Cardinality(below(i)) \in Nat
                   /\ Cardinality(below(i)) <= Cardinality(T) /\ Cardinality(below(i)) # 0
  BY <1>1, <1>2, FS_Subset, FS_CardinalityType, FS_EmptySet
<1>5. rank \in [T -> 1..Cardinality(T)] BY <1>1, <1>4
<1>6. ASSUME NEW a \in T, NEW b \in T, rank[a] = rank[b] PROVE a = b
  <2>1. ASSUME NEW x \in T, NEW y \in T, rank[x] = rank[y], x <= y PROVE x = y
    <3>1. below(x) \in SUBSET below(y)
      <4> SUFFICES ASSUME NEW z \in below(x) PROVE z \in below(y)
        OBVIOUS
      <4>1. z \in T /\ z <= x /\ z \in Nat /\ x \in Nat /\ y \in Nat BY <1>2, <1>3
      <4>2. z <= y BY <2>1, <4>1
      <4> QED BY <1>3, <4>1, <4>2
    <3>2. Cardinality(below(x)) = Cardinality(below(y)) BY <2>1
    <3>3. below(x) = below(y) BY <1>4, <3>1, <3>2, FS_Subset
    <3> QED BY <1>2, <1>3, <2>1, <3>3
  <2>2. a <= b \/ b <= a BY <1>2
  <2> QED BY <1>6, <2>1, <2>2
<1>7. \A i \in T : rank[i] = Cardinality(below(i)) OBVIOUS
<1> HIDE DEF rank
<1>8. rank \in Injection(T, 1..Cardinality(T)) BY <1>5, <1>6 DEF Injection, IsInjective
<1>9. IsFiniteSet(1..Cardinality(T)) /\ Cardinality(1..Cardinality(T)) = Cardinality(T) BY <1>1, FS_Interval
<1>10. rank \in Surjection(T, 1..Cardinality(T)) BY <1>8, <1>9, FS_Injection
<1>11. \A n \in 1..Cardinality(T) : \E i \in T : rank[i] = n BY <1>10 DEF Surjection
<1> QED BY <1>1, <1>7, <1>11 DEF below

(* Some numbers up to n have a greatest one. *)
LEMMA GreatestOf ==
  ASSUME NEW n \in Nat, NEW T \in SUBSET (0..n), 0 \in T
  PROVE  \E x \in T : \A y \in T : x >= y
<1> DEFINE S == {k \in 0..n : \E x \in T : x <= k /\ \A y \in T : y <= k => y <= x}
<1>1. 0 \in S OBVIOUS
<1>2. ASSUME NEW k \in 1..n, k - 1 \in S PROVE k \in S
  <2>1. CASE k \in T BY <2>1
  <2>2. CASE k \notin T
    <3>1. \A y \in T : y \in Nat /\ (y <= k <=> y <= k - 1) BY <2>2
    <3>2. PICK x \in T : x <= k - 1 /\ \A y \in T : y <= k - 1 => y <= x BY <1>2
    <3>3. x <= k /\ \A y \in T : y <= k => y <= x BY <3>1, <3>2
    <3> QED BY <3>3
  <2> QED BY <2>1, <2>2
<1> HIDE DEF S
<1>3. n \in 0..n /\ \A k \in 0..n : k \in S
  <2>1. \A k \in 0..n : k \in S BY <1>1, <1>2, UpTo, Zenon
  <2> QED BY <2>1
<1>4. PICK x \in T : \A y \in T : y <= n => y <= x BY <1>3 DEF S
<1>5. \A y \in T : y \in Nat /\ y <= n OBVIOUS
<1> QED BY <1>4, <1>5

(* Some positions have a least one. *)
LEMMA LeastOf ==
  ASSUME NEW n \in Nat, NEW T \in SUBSET (1..n), T # {}
  PROVE  \E x \in T : \A y \in T : x <= y
<1> DEFINE R == {n - x : x \in T} \union {0}
<1>1. R \in SUBSET (0..n) /\ 0 \in R OBVIOUS
<1>2. \E x \in R : \A y \in R : x >= y
  <2> HIDE DEF R
  <2> QED BY <1>1, GreatestOf
<1>3. PICK x \in R : \A y \in R : x >= y BY <1>2
<1>4. \A y \in T : n - y \in R /\ y \in 1..n OBVIOUS
<1>4a. x = 0 \/ \E y \in T : x = n - y OBVIOUS
<1> HIDE DEF R
<1>5. CASE \E y \in T : x = n - y
  <2>1. PICK y \in T : x = n - y BY <1>5
  <2>2. \A z \in T : n - y >= n - z BY <1>3, <1>4, <2>1
  <2> QED BY <1>4, <2>1, <2>2
<1>6. CASE x = 0
  <2>1. PICK y \in T : TRUE OBVIOUS
  <2>2. \A z \in T : 0 >= n - z /\ z <= n BY <1>3, <1>4, <1>6
  <2>3. \A z \in T : z = n BY <1>4, <2>2
  <2> QED BY <1>4, <2>1, <2>3
<1> QED BY <1>4a, <1>5, <1>6

(* The cardinality that Retrieval speaks of is the one of FiniteSets. *)
LEMMA SameCardinality == \A T : Pipeline!Cardinality(T) = Cardinality(T)
BY Zenon DEF Pipeline!Cardinality, Cardinality

(* A text is cut into texts. *)
LEMMA Sentences ==
  ASSUME NEW text \in Seq(Words)
  PROVE  Pipeline!splitSentences(text) \in Seq(Seq(Words))
<1>1. PICK m \in Nat : m = Len(text) /\ DOMAIN text = 1..m OBVIOUS
<1> DEFINE ends == {i \in DOMAIN text : text[i].stop \/ text[i].newline \/ i = Len(text)}
           Start(i) == Pipeline!Max({0} \union {j \in ends : j < i}) + 1
           End(n) == CHOOSE i \in ends : Pipeline!Cardinality({j \in ends : j <= i}) = n
<1>2. ends \in SUBSET (1..m) BY <1>1
<1>3. Pipeline!splitSentences(text) =
        [n \in 1..Pipeline!Cardinality(ends) |-> SubSeq(text, Start(End(n)), End(n))]
  BY Zenon DEF Pipeline!splitSentences
<1> HIDE DEF ends
<1>4. Cardinality(ends) \in Nat /\ \A n \in 1..Cardinality(ends) : End(n) \in ends
  <2>1. /\ Cardinality(ends) \in Nat
        /\ \A n \in 1..Cardinality(ends) : \E i \in ends : Cardinality({j \in ends : j <= i}) = n
    BY <1>2, Nth
  <2>2. \A n \in 1..Cardinality(ends) : \E i \in ends : Pipeline!Cardinality({j \in ends : j <= i}) = n
    BY <2>1, SameCardinality, Zenon
  <2> QED BY <2>1, <2>2, Zenon
<1> HIDE DEF End
<1>5. ASSUME NEW i \in ends PROVE Start(i) \in Nat \ {0}
  <2> DEFINE T == {0} \union {j \in ends : j < i}
  <2>0. \A j \in ends : j \in 0..m BY <1>2
  <2>1. T \in SUBSET (0..m) /\ 0 \in T BY <2>0
  <2>2. \E x \in T : \A y \in T : x >= y
    <3> HIDE DEF T
    <3> QED BY <2>1, GreatestOf
  <2>3. Pipeline!Max(T) \in T
    <3> HIDE DEF T
    <3> QED BY <2>2, Zenon DEF Pipeline!Max
  <2>4. Pipeline!Max(T) \in Nat BY <2>1, <2>3
  <2> QED BY <2>4
<1> HIDE DEF Start
<1>6. ASSUME NEW a \in Nat \ {0}, NEW b \in 1..m PROVE SubSeq(text, a, b) \in Seq(Words)
  <2>1. \A i \in 1..b - a + 1 : i + a - 1 \in 1..m /\ text[i + a - 1] \in Words BY <1>1
  <2>2. SubSeq(text, a, b) = [i \in 1..b - a + 1 |-> text[i + a - 1]] OBVIOUS
  <2>3. SubSeq(text, a, b) \in [1..b - a + 1 -> Words] BY <2>1, <2>2
  <2>4. PICK k \in Nat : 1..b - a + 1 = 1..k
    <3>1. CASE b - a + 1 \in Nat BY <3>1
    <3>2. CASE ~(b - a + 1 \in Nat)
      <4>1. 1..b - a + 1 = 1..0 BY <3>2
      <4> QED BY <4>1
    <3> QED BY <3>1, <3>2
  <2>5. PICK f : f = SubSeq(text, a, b) OBVIOUS
  <2>6. f \in [1..k -> Words] BY <2>3, <2>4, <2>5
  <2>7. f \in Seq(Words) BY <2>6
  <2> QED BY <2>5, <2>7
<1>7. \A n \in 1..Cardinality(ends) : SubSeq(text, Start(End(n)), End(n)) \in Seq(Words)
  BY <1>2, <1>4, <1>5, <1>6
<1>8. PICK k \in Nat : k = Cardinality(ends) /\ k = Pipeline!Cardinality(ends) BY <1>4, SameCardinality
<1>9. Pipeline!splitSentences(text) \in [1..k -> Seq(Words)] BY <1>3, <1>7, <1>8
<1> QED BY <1>9

(* The chunks of a document, finitely many. *)
LEMMA ChunksOfDocument ==
  ASSUME NEW text \in Seq(Words), NEW d \in DocIDs
  PROVE  /\ Pipeline!splitIntoChunks(d, text) \in Seq(Chunk)
         /\ IsFiniteSet(Pipeline!Range(Pipeline!splitIntoChunks(d, text)))
         /\ Pipeline!Range(Pipeline!splitIntoChunks(d, text)) \subseteq Chunk
<1>1. PICK t : t = Pipeline!splitSentences(text) /\ t \in Seq(Seq(Words)) BY Sentences
<1>2. PICK n \in Nat : n = Len(t) /\ DOMAIN t = 1..n /\ \A i \in 1..n : t[i] \in Seq(Words) BY <1>1
<1> DEFINE q == [i \in 1..n |-> [doc |-> d, n |-> i, content |-> t[i]]]
<1>3. Pipeline!splitIntoChunks(d, text) = q BY <1>1, <1>2 DEF Pipeline!splitIntoChunks
<1>4. q \in [1..n -> Chunk] BY <1>2 DEF Chunk
<1> HIDE DEF q
<1>5. Pipeline!Range(q) = {q[i] : i \in 1..n} BY <1>4 DEF Pipeline!Range
<1>6. q \in Surjection(1..n, Pipeline!Range(q)) BY <1>4, <1>5 DEF Surjection
<1>7. IsFiniteSet(1..n) BY FS_Interval
<1>8. IsFiniteSet(Pipeline!Range(q)) BY <1>6, <1>7, FS_Surjection
<1> QED BY <1>3, <1>4, <1>5, <1>8

\* r is what Retrieve may return of the chunks cs.
Ranked(r, cs, query, k) ==
  /\ r \in Seq(cs) /\ Len(r) = Pipeline!Min({k, Pipeline!Cardinality(cs)})
  /\ \A i, j \in DOMAIN r : i < j =>
       r[i] # r[j] /\ Pipeline!overlapScore(query, r[i]) >= Pipeline!overlapScore(query, r[j])
  /\ \A c \in cs \ Pipeline!Range(r), d \in Pipeline!Range(r) :
       Pipeline!overlapScore(query, c) <= Pipeline!overlapScore(query, d)

(* The tokens of a text are finitely many, so that a score is a number. *)
LEMMA ScoreNat ==
  ASSUME NEW query \in Seq(Words), NEW c
  PROVE  Pipeline!overlapScore(query, c) \in Nat
<1>1. PICK n \in Nat : DOMAIN query = 1..n OBVIOUS
<1> DEFINE J == {j \in DOMAIN query : query[j].len > 1}
           f == [j \in J |-> [lower |-> query[j].lower, stop |-> query[j].stop]]
<1>2. IsFiniteSet(J)
  <2>1. IsFiniteSet(1..n) /\ J \in SUBSET (1..n) BY <1>1, FS_Interval
  <2> QED BY <2>1, FS_Subset
<1>3. f \in Surjection(J, Pipeline!tokenize(query)) BY DEF Pipeline!tokenize, Surjection
<1>4. IsFiniteSet(Pipeline!tokenize(query)) BY <1>2, <1>3, FS_Surjection
<1>5. IsFiniteSet(Pipeline!tokenize(query) \intersect Pipeline!tokenize(c.content)) BY <1>4, FS_Intersection
<1> QED BY <1>5, FS_CardinalityType, SameCardinality DEF Pipeline!overlapScore

(* Sorting and cutting gives the best, in order. *)
LEMMA RankingsRank ==
  ASSUME NEW cs, IsFiniteSet(cs), NEW query \in Seq(Words), NEW k \in Nat,
         NEW r \in Pipeline!Rankings(cs, query, k)
  PROVE  Ranked(r, cs, query, k)
<1> DEFINE Score(c) == Pipeline!overlapScore(query, c)
<1>1. PICK n \in Nat : n = Cardinality(cs) /\ n = Pipeline!Cardinality(cs)
  BY FS_CardinalityType, SameCardinality
<1>2. PICK t : /\ t \in [1..n -> cs] /\ \A i, j \in 1..n : i # j => t[i] # t[j]
               /\ \A i, j \in 1..n : i < j => Score(t[i]) >= Score(t[j])
               /\ r = SubSeq(t, 1, Pipeline!Min({k, n}))
  <2>1. PICK t : /\ t \in Pipeline!SetToSeqs(cs)
                 /\ \A i, j \in DOMAIN t : i < j => Score(t[i]) >= Score(t[j])
                 /\ r = SubSeq(t, 1, Pipeline!Min({k, Pipeline!Cardinality(cs)}))
    <3> HIDE DEF Score
    <3> QED BY DEF Pipeline!Rankings, Score
  <2>2. t \in [1..n -> cs] /\ \A i, j \in 1..n : i # j => t[i] # t[j] BY <1>1, <2>1 DEF Pipeline!SetToSeqs
  <2> HIDE DEF Score
  <2> QED BY <1>1, <2>1, <2>2
<1>3. PICK m \in Nat : m = Pipeline!Min({k, n}) /\ m <= n /\ m <= k
  <2>1. \E x \in {k, n} : \A y \in {k, n} : x <= y OBVIOUS
  <2>2. Pipeline!Min({k, n}) \in {k, n} /\ \A y \in {k, n} : Pipeline!Min({k, n}) <= y
    BY <2>1, Zenon DEF Pipeline!Min
  <2> QED BY <2>2
<1>4. \A c \in cs : \E i \in 1..n : t[i] = c
  <2>1. t \in Injection(1..n, cs) BY <1>2 DEF Injection, IsInjective
  <2>2. Cardinality(1..n) = n BY FS_Interval
  <2>3. t \in Surjection(1..n, cs) BY <1>1, <2>1, <2>2, FS_Injection
  <2> QED BY <2>3 DEF Surjection
<1>5. r \in Seq(cs) /\ Len(r) = m /\ DOMAIN r = 1..m /\ \A i \in 1..m : r[i] = t[i] /\ i \in 1..n
  <2>1. t \in Seq(cs) /\ Len(t) = n BY <1>2
  <2>2. r = [i \in 1..m |-> t[i]] BY <1>2, <1>3, <2>1
  <2>3. \A i \in 1..m : i \in 1..n BY <1>3
  <2>4. r \in [1..m -> cs] BY <1>2, <2>2, <2>3
  <2> QED BY <2>2, <2>3, <2>4
<1> HIDE DEF Score
<1>6. \A i, j \in 1..m : i < j => r[i] # r[j] /\ Score(r[i]) >= Score(r[j])
  <2> SUFFICES ASSUME NEW i \in 1..m, NEW j \in 1..m, i < j PROVE r[i] # r[j] /\ Score(r[i]) >= Score(r[j])
    OBVIOUS
  <2>1. i # j OBVIOUS
  <2> QED BY <1>2, <1>5, <2>1
<1>7. ASSUME NEW c \in cs \ Pipeline!Range(r), NEW d \in Pipeline!Range(r) PROVE Score(c) <= Score(d)
  <2>1. PICK i \in 1..m : d = r[i] BY <1>5 DEF Pipeline!Range
  <2>2. PICK j \in 1..n : c = t[j] BY <1>4
  <2>3. j \notin 1..m
    <3> SUFFICES ASSUME j \in 1..m PROVE FALSE
      OBVIOUS
    <3>1. c = r[j] BY <1>5, <2>2
    <3> QED BY <1>5, <3>1 DEF Pipeline!Range
  <2>4. i < j BY <2>1, <2>2, <2>3
  <2>5. Score(t[i]) >= Score(t[j]) /\ d = t[i] BY <1>2, <1>5, <2>1, <2>4
  <2>6. Score(c) \in Nat /\ Score(d) \in Nat BY ScoreNat DEF Score
  <2> QED BY <2>2, <2>5, <2>6
<1> QED BY <1>1, <1>3, <1>5, <1>6, <1>7 DEF Ranked, Score

\* ps is a context made of the chunks cs.
Fits(ps, cs, maxLength) ==
  /\ \A i \in DOMAIN ps :
       /\ ps[i].chunk = cs[i]
       /\ i < Len(ps) => ps[i].len = Pipeline!Length(cs[i].content)
  /\ maxLength = 0 => Len(ps) = Len(cs)
  /\ maxLength > 0 =>
       /\ Pipeline!Total([i \in DOMAIN ps |-> ps[i].len]) <= maxLength
       /\ Pipeline!Total([i \in DOMAIN ps |-> ps[i].len]) < maxLength =>
            /\ Len(ps) = Len(cs)
            /\ \A i \in DOMAIN ps : ps[i].len = Pipeline!Length(cs[i].content)

(* The sum of the first lengths. *)
LEMMA FirstLengths ==
  ASSUME NEW n \in Nat, NEW q \in [1..n -> Nat], NEW s, PartialSums(s, n, q), NEW m \in 0..n
  PROVE  Pipeline!Total([j \in 1..m |-> q[j]]) = s[m]
<1> DEFINE p == [j \in 1..m |-> q[j]]
           u == [j \in 0..m |-> s[j]]
<1>1. s \in [0..n -> Nat] /\ s[0] = 0 /\ \A j \in 1..n : s[j] = s[j - 1] + q[j] BY DEF PartialSums
<1>2. m \in Nat /\ Len(p) = m /\ \A j \in 1..m : j \in 1..n /\ j - 1 \in 0..m OBVIOUS
<1>3. u \in [0..m -> Nat] /\ u[0] = 0 /\ \A j \in 1..m : u[j] = u[j - 1] + p[j] BY <1>1, <1>2
<1>4. u[m] = s[m] OBVIOUS
<1>5. PartialSums(u, m, p) BY <1>3 DEF PartialSums
<1> HIDE DEF p, u
<1>6. Pipeline!Total(p) = u[m] BY <1>2, <1>5, TotalValue
<1> QED BY <1>4, <1>6 DEF p

(* AssembleContext takes whole chunks while they fit and cuts the next one. *)
LEMMA AssembledFits ==
  ASSUME NEW cs \in Seq(Chunk), NEW maxLength \in Nat
  PROVE  Fits(Pipeline!Assembled(cs, maxLength), cs, maxLength)
<1>1. PICK n \in Nat : n = Len(cs) /\ DOMAIN cs = 1..n OBVIOUS
<1> DEFINE L(i) == Pipeline!Length(cs[i].content)
           Before(i) == Pipeline!Total([j \in 1..i - 1 |-> L(j)])
           Over(i) == maxLength > 0 /\ Before(i) + L(i) > maxLength
           cut == {i \in DOMAIN cs : Over(i)}
           first == Pipeline!Min(cut)
           Whole(k) == [i \in 1..k |-> [chunk |-> cs[i], len |-> L(i)]]
           ps == Pipeline!Assembled(cs, maxLength)
<1>2. ps = IF cut = {} THEN Whole(Len(cs))
           ELSE IF maxLength - Before(first) > 0
                THEN Append(Whole(first - 1), [chunk |-> cs[first], len |-> maxLength - Before(first)])
                ELSE Whole(first - 1)
  BY Zenon DEF Pipeline!Assembled
<1>3. \A i \in 1..n : L(i) \in Nat
  <2>0. \A c \in Chunk : c.content \in Seq(Words) BY DEF Chunk
  <2>1. \A i \in 1..n : cs[i].content \in Seq(Words)
    <3>1. \A i \in 1..n : cs[i] \in Chunk BY <1>1
    <3> QED BY <2>0, <3>1
  <2> QED BY <2>1, LengthNat
<1> DEFINE q == [i \in 1..n |-> L(i)]
<1>4. q \in [1..n -> Nat] /\ \A i \in 1..n : q[i] = L(i) BY <1>3
<1> HIDE DEF L
<1>5. PICK s : PartialSums(s, n, q)
  <2> HIDE DEF q
  <2> QED BY <1>4, SumsExist
<1>6. s \in [0..n -> Nat] /\ s[0] = 0 /\ \A m \in 1..n : s[m] = s[m - 1] + L(m)
  <2> HIDE DEF q
  <2> QED BY <1>4, <1>5 DEF PartialSums
<1>7. ASSUME NEW m \in 0..n PROVE Pipeline!Total([j \in 1..m |-> L(j)]) = s[m]
  <2>1. [j \in 1..m |-> L(j)] = [j \in 1..m |-> q[j]] BY <1>4
  <2> HIDE DEF q
  <2>2. Pipeline!Total([j \in 1..m |-> q[j]]) = s[m] BY <1>4, <1>5, FirstLengths, ZenonT(40)
  <2> QED BY <2>1, <2>2
<1>8. \A i \in 1..n : Before(i) = s[i - 1]
  <2>1. \A i \in 1..n : i - 1 \in 0..n OBVIOUS
  <2> QED BY <1>7, <2>1
<1> HIDE DEF q, Before
<1>9. cut = {i \in 1..n : maxLength > 0 /\ s[i] > maxLength} BY <1>1, <1>6, <1>8
<1> HIDE DEF cut, ps
<1>10. ASSUME NEW k \in 0..n
       PROVE  /\ Len(Whole(k)) = k /\ DOMAIN Whole(k) = 1..k
              /\ \A i \in 1..k : Whole(k)[i].chunk = cs[i] /\ Whole(k)[i].len = L(i)
              /\ Pipeline!Total([i \in DOMAIN Whole(k) |-> Whole(k)[i].len]) = s[k]
  <2>1. /\ Len(Whole(k)) = k /\ DOMAIN Whole(k) = 1..k
        /\ \A i \in 1..k : Whole(k)[i].chunk = cs[i] /\ Whole(k)[i].len = L(i)
    OBVIOUS
  <2>2. [i \in DOMAIN Whole(k) |-> Whole(k)[i].len] = [i \in 1..k |-> L(i)] BY <2>1
  <2> QED BY <1>7, <2>1, <2>2
<1>11. CASE cut = {}
  <2>1. PICK w : w = Whole(n) /\ w = ps BY <1>1, <1>2, <1>11
  <2>2. /\ Len(w) = n /\ DOMAIN w = 1..n /\ \A i \in 1..n : w[i].chunk = cs[i] /\ w[i].len = L(i)
        /\ Pipeline!Total([i \in DOMAIN w |-> w[i].len]) = s[n]
    <3>1. n \in 0..n OBVIOUS
    <3> HIDE DEF Whole
    <3> QED BY <1>10, <2>1, <3>1, ZenonT(40)
  <2>3. maxLength > 0 => s[n] <= maxLength
    <3>1. CASE n = 0 BY <1>6, <3>1
    <3>2. CASE n # 0
      <4>1. n \in 1..n /\ s[n] \in Nat BY <1>6, <3>2
      <4> QED BY <1>9, <1>11, <4>1
    <3> QED BY <3>1, <3>2
  <2> QED BY <1>1, <2>1, <2>2, <2>3 DEF Fits, L, ps
<1>12. CASE cut # {}
  <2>1. PICK f \in 1..n : f = first /\ f \in cut /\ \A y \in cut : f <= y
    <3>1. cut \in SUBSET (1..n) BY <1>9
    <3>2. \E x \in cut : \A y \in cut : x <= y BY <1>12, <3>1, LeastOf
    <3>3. first \in cut /\ \A y \in cut : first <= y BY <3>2, Zenon DEF Pipeline!Min
    <3> HIDE DEF first
    <3> QED BY <3>1, <3>3
  <2> HIDE DEF first
  <2>2. maxLength > 0 /\ s[f] > maxLength BY <1>9, <2>1
  <2>3. f - 1 \in 0..n /\ s[f - 1] \in Nat /\ s[f - 1] <= maxLength
    <3>1. f - 1 \in 0..n /\ s[f - 1] \in Nat BY <1>6
    <3>2. CASE f = 1 BY <1>6, <3>2
    <3>3. CASE f # 1
      <4>1. f - 1 \in 1..n /\ ~(f <= f - 1) BY <3>3
      <4>2. f - 1 \notin cut BY <2>1, <4>1
      <4> QED BY <1>9, <2>2, <3>1, <4>1, <4>2
    <3> QED BY <3>1, <3>2, <3>3
  <2>4. PICK w : w = Whole(f - 1) OBVIOUS
  <2>5. /\ Len(w) = f - 1 /\ DOMAIN w = 1..f - 1
        /\ \A i \in 1..f - 1 : w[i].chunk = cs[i] /\ w[i].len = L(i)
        /\ Pipeline!Total([i \in DOMAIN w |-> w[i].len]) = s[f - 1]
    <3> HIDE DEF Whole
    <3> QED BY <1>10, <2>3, <2>4
  <2>6. CASE maxLength - Before(f) > 0
    <3> DEFINE e == [chunk |-> cs[f], len |-> maxLength - s[f - 1]]
    <3>1. ps = Append(w, e) BY <1>2, <1>8, <1>12, <2>1, <2>4, <2>6
    <3>2. /\ Len(ps) = f /\ DOMAIN ps = 1..f /\ ps[f] = e /\ \A i \in 1..f - 1 : ps[i] = w[i]
      <4> HIDE DEF e
      <4>0. PICK k \in Nat : k = f - 1 OBVIOUS
      <4>1. PICK E : k = f - 1 /\ E = {w[i] : i \in 1..k} BY <4>0
      <4>2. w \in [1..k -> E] BY <2>4, <4>1
      <4>3. w \in Seq(E) BY <4>2
      <4> QED BY <2>5, <3>1, <4>1, <4>3
    <3>3. Pipeline!Total([i \in DOMAIN ps |-> ps[i].len]) = maxLength
      <4> DEFINE p == [i \in 1..f |-> ps[i].len]
                 u == [i \in 0..f |-> IF i = f THEN maxLength ELSE s[i]]
      <4>1. Len(p) = f /\ f \in Nat OBVIOUS
      <4>2. u \in [0..f -> Nat] /\ u[0] = 0 /\ u[f] = maxLength BY <1>6
      <4>3. ASSUME NEW m \in 1..f PROVE u[m] = u[m - 1] + p[m]
        <5>1. m - 1 \in 0..f /\ m - 1 # f /\ u[m - 1] = s[m - 1] OBVIOUS
        <5>2. CASE m = f BY <2>3, <3>2, <5>1, <5>2
        <5>3. CASE m # f
          <6>1. m \in 1..f - 1 /\ m \in 1..n BY <5>3
          <6>2. p[m] = L(m) BY <2>5, <3>2, <6>1
          <6> QED BY <1>6, <5>1, <5>3, <6>1, <6>2
        <5> QED BY <5>2, <5>3
      <4> HIDE DEF p, u
      <4>4. PartialSums(u, f, p) BY <4>2, <4>3 DEF PartialSums
      <4>5. Pipeline!Total(p) = maxLength BY <4>1, <4>2, <4>4, TotalValue
      <4> QED BY <3>2, <4>5 DEF p
    <3>4. \A i \in 1..f : ps[i].chunk = cs[i] /\ (i < f => ps[i].len = L(i))
      <4>1. \A i \in 1..f : i = f \/ i \in 1..f - 1 OBVIOUS
      <4> QED BY <2>5, <3>2, <4>1
    <3> QED BY <2>2, <3>2, <3>3, <3>4 DEF Fits, L, ps
  <2>7. CASE ~(maxLength - Before(f) > 0)
    <3>1. ps = w BY <1>2, <1>12, <2>1, <2>4, <2>7
    <3>2. s[f - 1] = maxLength BY <1>8, <2>1, <2>3, <2>7
    <3>3. \A i \in 1..f - 1 : w[i].chunk = cs[i] /\ w[i].len = L(i) BY <2>5
    <3> QED BY <2>2, <2>5, <3>1, <3>2, <3>3 DEF Fits, L, ps
  <2> QED BY <2>6, <2>7
<1> QED BY <1>11, <1>12

\* The documents as the first n entries of the log l leave them, and their chunks.
LatestIn(l, n) == {i \in 1..n : \A j \in i + 1..n : l[j].doc # l[i].doc}
IndexAt(l, n) ==
  UNION {Pipeline!Range(Pipeline!splitIntoChunks(l[i].doc, l[i].text)) : i \in LatestIn(l, n)}

Document == [doc: DocIDs, text: Contents]

\* The map of chunks is what the log l leaves.
Indexed(c, l) ==
  /\ \A d \in DOMAIN c : \E i \in LatestIn(l, Len(l)) :
       l[i].doc = d /\ c[d] = Pipeline!splitIntoChunks(d, l[i].text)
  /\ \A i \in LatestIn(l, Len(l)) :
       l[i].doc \in DOMAIN c /\ c[l[i].doc] = Pipeline!splitIntoChunks(l[i].doc, l[i].text)

(* Another document leaves the index as it was after the earlier ones. *)
LEMMA IndexSame ==
  ASSUME NEW l \in Seq(Document), NEW e \in Document, NEW n \in 0..Len(l)
  PROVE  IndexAt(Append(l, e), n) = IndexAt(l, n)
<1>1. PICK v : v = Append(l, e) OBVIOUS
<1>2. \A i \in 1..n : v[i] = l[i] BY <1>1
<1>3. \A i \in 1..n : \A j \in i + 1..n : j \in 1..n OBVIOUS
<1>4. LatestIn(v, n) = LatestIn(l, n) BY <1>2, <1>3 DEF LatestIn
<1>5. \A i \in LatestIn(l, n) : v[i] = l[i] BY <1>2 DEF LatestIn
<1>6. \A x : x \in IndexAt(v, n) <=> x \in IndexAt(l, n) BY <1>4, <1>5 DEF IndexAt
<1> QED BY <1>1, <1>6

(* Index replaces the chunks of its document. *)
LEMMA IndexedStep ==
  ASSUME NEW l \in Seq(Document), NEW c, Indexed(c, l), NEW d \in DocIDs, NEW text \in Contents, NEW b,
         b = [x \in DOMAIN c \union {d} |-> IF x = d THEN Pipeline!splitIntoChunks(d, text) ELSE c[x]]
  PROVE  Indexed(b, Append(l, [doc |-> d, text |-> text]))
<1>0. PICK n \in Nat : n = Len(l) OBVIOUS
<1>1. PICK v : n = Len(l) /\ v = Append(l, [doc |-> d, text |-> text]) BY <1>0
<1>2. Len(v) = n + 1 /\ v[n + 1].doc = d /\ v[n + 1].text = text /\ \A i \in 1..n : v[i] = l[i] BY <1>1
<1>3. \A i : i \in 1..n + 1 <=> i \in 1..n \/ i = n + 1 OBVIOUS
<1>4. \A i \in 1..n : \A j : j \in i + 1..n + 1 <=> j \in i + 1..n \/ j = n + 1 OBVIOUS
<1>5. \A i \in 1..n : \A j \in i + 1..n : j \in 1..n OBVIOUS
<1>6. n + 1 \in LatestIn(v, n + 1) BY <1>3 DEF LatestIn
<1>7. \A i \in 1..n : i \in LatestIn(v, n + 1) <=> i \in LatestIn(l, n) /\ l[i].doc # d
  <2> SUFFICES ASSUME NEW i \in 1..n PROVE i \in LatestIn(v, n + 1) <=> i \in LatestIn(l, n) /\ l[i].doc # d
    OBVIOUS
  <2>1. i \in LatestIn(v, n + 1) <=> \A j \in i + 1..n + 1 : v[j].doc # l[i].doc BY <1>2, <1>3 DEF LatestIn
  <2>2. i \in LatestIn(l, n) <=> \A j \in i + 1..n : l[j].doc # l[i].doc BY DEF LatestIn
  <2>3. \A j \in i + 1..n : v[j] = l[j] BY <1>2, <1>5
  <2> QED BY <1>2, <1>4, <2>1, <2>2, <2>3
<1>8. \A i \in LatestIn(v, n + 1) : i = n + 1 \/ i \in 1..n BY <1>3 DEF LatestIn
<1>9. \A i \in LatestIn(l, n) : i \in 1..n BY DEF LatestIn
<1>10. DOMAIN b = DOMAIN c \union {d} /\ b[d] = Pipeline!splitIntoChunks(d, text)
       /\ \A x \in DOMAIN c : x # d => b[x] = c[x]
  OBVIOUS
<1>11. ASSUME NEW x \in DOMAIN b
       PROVE  \E i \in LatestIn(v, n + 1) : v[i].doc = x /\ b[x] = Pipeline!splitIntoChunks(x, v[i].text)
  <2>1. CASE x = d BY <1>2, <1>6, <1>10, <2>1
  <2>2. CASE x # d
    <3>1. x \in DOMAIN c /\ b[x] = c[x] BY <1>10, <2>2
    <3>2. PICK i \in LatestIn(l, n) : l[i].doc = x /\ c[x] = Pipeline!splitIntoChunks(x, l[i].text)
      BY <1>1, <3>1 DEF Indexed
    <3>3. i \in LatestIn(v, n + 1) /\ v[i] = l[i] BY <1>2, <1>7, <1>9, <2>2, <3>2
    <3> QED BY <3>1, <3>2, <3>3
  <2> QED BY <2>1, <2>2
<1>12. ASSUME NEW i \in LatestIn(v, n + 1)
       PROVE  v[i].doc \in DOMAIN b /\ b[v[i].doc] = Pipeline!splitIntoChunks(v[i].doc, v[i].text)
  <2>1. CASE i = n + 1 BY <1>2, <1>10, <2>1
  <2>2. CASE i \in 1..n
    <3>1. i \in LatestIn(l, n) /\ l[i].doc # d /\ v[i] = l[i] BY <1>2, <1>7, <2>2
    <3>2. l[i].doc \in DOMAIN c /\ c[l[i].doc] = Pipeline!splitIntoChunks(l[i].doc, l[i].text)
      BY <1>1, <3>1 DEF Indexed
    <3> QED BY <1>10, <3>1, <3>2
  <2> QED BY <1>8, <2>1, <2>2
<1> HIDE DEF LatestIn
<1>13. Indexed(b, v)
  <2>1. PICK m : m = n + 1 /\ Len(v) = m BY <1>2
  <2>2. \A x \in DOMAIN b : \E i \in LatestIn(v, m) : v[i].doc = x /\ b[x] = Pipeline!splitIntoChunks(x, v[i].text)
    BY <1>11, <2>1, Zenon
  <2>3. \A i \in LatestIn(v, m) :
          v[i].doc \in DOMAIN b /\ b[v[i].doc] = Pipeline!splitIntoChunks(v[i].doc, v[i].text)
    BY <1>12, <2>1, Zenon
  <2>4. LatestIn(v, Len(v)) = LatestIn(v, m) BY <2>1
  <2>5. \A x \in DOMAIN b : \E i \in LatestIn(v, Len(v)) :
          v[i].doc = x /\ b[x] = Pipeline!splitIntoChunks(x, v[i].text)
    BY <2>2, <2>4
  <2>6. \A i \in LatestIn(v, Len(v)) :
          v[i].doc \in DOMAIN b /\ b[v[i].doc] = Pipeline!splitIntoChunks(v[i].doc, v[i].text)
    BY <2>3, <2>4
  <2> QED BY <2>5, <2>6 DEF Indexed
<1> QED BY <1>1, <1>13

(* The chunks in the map are those of the index. *)
LEMMA IndexedAll ==
  ASSUME NEW l \in Seq(Document), NEW c, Indexed(c, l)
  PROVE  /\ UNION {Pipeline!Range(c[d]) : d \in DOMAIN c} = IndexAt(l, Len(l))
         /\ \A d \in DOMAIN c : IsFiniteSet(Pipeline!Range(c[d])) /\ Pipeline!Range(c[d]) \subseteq Chunk
<1>1. PICK n \in Nat : n = Len(l) OBVIOUS
<1>2. ASSUME NEW d \in DOMAIN c
      PROVE  \E i \in LatestIn(l, n) : l[i].doc = d /\ c[d] = Pipeline!splitIntoChunks(d, l[i].text)
  BY <1>1 DEF Indexed
<1>3. ASSUME NEW i \in LatestIn(l, n)
      PROVE  l[i].doc \in DOMAIN c /\ c[l[i].doc] = Pipeline!splitIntoChunks(l[i].doc, l[i].text)
  BY <1>1 DEF Indexed
<1>4. \A x : x \in UNION {Pipeline!Range(c[d]) : d \in DOMAIN c} <=> x \in IndexAt(l, n)
  <2>1. \A x : x \in IndexAt(l, n) <=>
          \E i \in LatestIn(l, n) : x \in Pipeline!Range(Pipeline!splitIntoChunks(l[i].doc, l[i].text))
    BY DEF IndexAt
  <2> QED BY <1>2, <1>3, <2>1
<1>5. ASSUME NEW d \in DOMAIN c PROVE IsFiniteSet(Pipeline!Range(c[d])) /\ Pipeline!Range(c[d]) \subseteq Chunk
  <2>1. PICK i \in LatestIn(l, n) : l[i].doc = d /\ c[d] = Pipeline!splitIntoChunks(d, l[i].text) BY <1>2
  <2>2. i \in 1..n BY DEF LatestIn
  <2>3. l[i] \in Document BY <1>1, <2>2
  <2>4. d \in DocIDs /\ l[i].text \in Contents BY <2>1, <2>3 DEF Document
  <2>5. l[i].text \in Seq(Words) BY <2>4, TextsAssumption DEF Words
  <2> QED BY <2>1, <2>4, <2>5, ChunksOfDocument
<1> QED BY <1>1, <1>4, <1>5

PipelineInv ==
  /\ tLog \in Seq(Document) /\ Indexed(chunks, tLog)
  /\ asked \in [query: Seq(Words), topK: Nat, maxLength: Nat, at: Nat] /\ asked.at <= Len(tLog)
  /\ IsFiniteSet(allChunks) /\ allChunks \subseteq Chunk
  /\ tPc = "idle" => allChunks = {}
  /\ tPc = "range" => todo \subseteq DOMAIN chunks
  /\ tPc = "range" /\ ~raced =>
       /\ asked.at = Len(tLog)
       /\ allChunks = UNION {Pipeline!Range(chunks[d]) : d \in DOMAIN chunks \ todo}
  /\ tPc = "retrieved" => result \in Seq(Chunk)
  /\ tPc = "retrieved" /\ ~raced => Ranked(result, IndexAt(tLog, asked.at), asked.query, asked.topK)
  /\ tPc = "assembled" => Fits(parts, result, asked.maxLength)

(* Index keeps the invariant, also while a Retrieve is ranging. *)
LEMMA IndexKeeps ==
  ASSUME PipelineInv, NEW d \in DocIDs, NEW text \in Contents, Pipeline!Index(d, text)
  PROVE  PipelineInv'
<1>0. /\ tLog \in Seq(Document) /\ Indexed(chunks, tLog)
      /\ asked \in [query: Seq(Words), topK: Nat, maxLength: Nat, at: Nat] /\ asked.at <= Len(tLog)
      /\ UNCHANGED <<asked, result, parts, allChunks>>
      /\ tLog' = Append(tLog, [doc |-> d, text |-> text])
  BY DEF PipelineInv, Pipeline!Index, Pipeline!retrieval
<1>1. [doc |-> d, text |-> text] \in Document BY DEF Document
<1>2. tLog' \in Seq(Document) /\ Len(tLog') = Len(tLog) + 1 /\ asked.at \in 0..Len(tLog) /\ asked.at <= Len(tLog')
  <2>1. asked.at \in Nat BY <1>0
  <2> QED BY <1>0, <1>1, <2>1
<1>3. Indexed(chunks', tLog')
  <2>1. PICK l, c, b : l = tLog /\ c = chunks /\ b = chunks' OBVIOUS
  <2>2. b = [x \in DOMAIN c \union {d} |-> IF x = d THEN Pipeline!splitIntoChunks(d, text) ELSE c[x]]
    BY <2>1 DEF Pipeline!Index
  <2>3. Indexed(b, Append(l, [doc |-> d, text |-> text])) BY <1>0, <2>1, <2>2, IndexedStep
  <2> QED BY <1>0, <2>1, <2>3
<1>4. IndexAt(tLog', asked.at) = IndexAt(tLog, asked.at) BY <1>0, <1>1, <1>2, IndexSame
<1>5. CASE tPc = "range"
  <2>1. raced' = TRUE /\ tPc' \in {"range", "fatal"} /\ todo' \subseteq todo \union {d}
        /\ DOMAIN chunks' = DOMAIN chunks \union {d}
    BY <1>5 DEF Pipeline!Index
  <2>2. todo' \subseteq DOMAIN chunks' BY <1>5, <2>1 DEF PipelineInv
  <2> QED BY <1>0, <1>2, <1>3, <2>1, <2>2 DEF PipelineInv
<1>6. CASE tPc # "range"
  <2>1. UNCHANGED <<raced, tPc, todo>> BY <1>6 DEF Pipeline!Index
  <2> QED BY <1>0, <1>2, <1>3, <1>4, <1>6, <2>1 DEF PipelineInv
<1> QED BY <1>5, <1>6

(* PipelineInv holds throughout. *)
THEOREM PipelineInvariant == Pipeline!Spec => []PipelineInv
<1>1. Pipeline!Init => PipelineInv
  <2> SUFFICES ASSUME Pipeline!Init PROVE PipelineInv
    OBVIOUS
  <2>1. /\ chunks = [d \in {} |-> d] /\ tPc = "idle" /\ allChunks = {} /\ tLog = <<>>
        /\ asked = [query |-> <<>>, topK |-> 0, maxLength |-> 0, at |-> 0]
    BY DEF Pipeline!Init
  <2>2. LatestIn(<<>>, Len(<<>>)) = {} BY DEF LatestIn
  <2>3. Indexed(chunks, tLog) BY <2>1, <2>2 DEF Indexed
  <2>4. IsFiniteSet({}) BY FS_EmptySet
  <2>5. <<>> \in Seq(Document) /\ <<>> \in Seq(Words) /\ Len(<<>>) = 0 OBVIOUS
  <2> QED BY <2>1, <2>3, <2>4, <2>5 DEF PipelineInv
<1>2. PipelineInv /\ [Pipeline!Next]_(Pipeline!vars) => PipelineInv'
  <2> SUFFICES ASSUME PipelineInv, [Pipeline!Next]_(Pipeline!vars) PROVE PipelineInv'
    OBVIOUS
  <2>0. tLog \in Seq(Document) /\ Indexed(chunks, tLog) /\ Len(tLog) \in Nat BY DEF PipelineInv
  <2>1. CASE UNCHANGED Pipeline!vars BY <2>1 DEF PipelineInv, Pipeline!vars
  <2>2. ASSUME NEW d \in DocIDs, NEW text \in Contents, Pipeline!Index(d, text) PROVE PipelineInv'
    BY <2>2, IndexKeeps
  <2>3. ASSUME NEW query \in Queries, NEW topK \in TopKs, Pipeline!Retrieve(query, topK) PROVE PipelineInv'
    <3>1. query \in Seq(Words) /\ topK \in Nat BY TextsAssumption DEF Words
    <3>2. /\ tPc = "idle" /\ tPc' = "range" /\ todo' = DOMAIN chunks /\ allChunks = {}
          /\ asked' = [asked EXCEPT !.query = query, !.topK = topK, !.at = Len(tLog)]
          /\ UNCHANGED <<chunks, allChunks, raced, tLog>>
      BY <2>3 DEF Pipeline!Retrieve, PipelineInv
    <3>3. asked' \in [query: Seq(Words), topK: Nat, maxLength: Nat, at: Nat] /\ asked'.at = Len(tLog)
      BY <2>0, <3>1, <3>2 DEF PipelineInv
    <3>4. allChunks' = UNION {Pipeline!Range(chunks'[d]) : d \in DOMAIN chunks' \ todo'} BY <3>2
    <3>5. Len(tLog) <= Len(tLog) BY <2>0
    <3>6. IsFiniteSet(allChunks') /\ allChunks' \subseteq Chunk BY <3>2 DEF PipelineInv
    <3> QED BY <2>0, <3>2, <3>3, <3>4, <3>5, <3>6 DEF PipelineInv
  <2>4. ASSUME NEW d \in DocIDs, Pipeline!Visit(d) PROVE PipelineInv'
    <3>1. /\ tPc = "range" /\ tPc' = "range" /\ d \in todo /\ todo \subseteq DOMAIN chunks
          /\ allChunks' = allChunks \union Pipeline!Range(chunks[d]) /\ todo' = todo \ {d}
          /\ UNCHANGED <<chunks, asked, raced, tLog>>
      BY <2>4 DEF Pipeline!Visit, Pipeline!retrieval, PipelineInv
    <3>2. IsFiniteSet(Pipeline!Range(chunks[d])) /\ Pipeline!Range(chunks[d]) \subseteq Chunk
      BY <2>0, <3>1, IndexedAll
    <3>3. IsFiniteSet(allChunks) /\ allChunks \subseteq Chunk BY DEF PipelineInv
    <3>4. IsFiniteSet(allChunks') /\ allChunks' \subseteq Chunk BY <3>1, <3>2, <3>3, FS_Union
    <3>5. ~raced => allChunks' = UNION {Pipeline!Range(chunks'[x]) : x \in DOMAIN chunks' \ todo'}
      <4> SUFFICES ASSUME ~raced PROVE allChunks' = UNION {Pipeline!Range(chunks[x]) : x \in DOMAIN chunks \ todo'}
        BY <3>1
      <4>1. allChunks = UNION {Pipeline!Range(chunks[x]) : x \in DOMAIN chunks \ todo} BY <3>1 DEF PipelineInv
      <4>2. \A x : x \in DOMAIN chunks \ todo' <=> x \in DOMAIN chunks \ todo \/ x = d BY <3>1
      <4>3. \A c : c \in allChunks' <=> \E x \in DOMAIN chunks \ todo' : c \in Pipeline!Range(chunks[x])
        BY <3>1, <4>1, <4>2
      <4> QED BY <4>3
    <3>6. ~raced => asked.at = Len(tLog) BY <3>1 DEF PipelineInv
    <3> QED BY <2>0, <3>1, <3>4, <3>5, <3>6 DEF PipelineInv
  <2>5. CASE Pipeline!VisitCancelled
    <3>1. IsFiniteSet({}) BY FS_EmptySet
    <3> QED BY <2>5, <3>1 DEF Pipeline!VisitCancelled, Pipeline!retrieval, PipelineInv
  <2>6. CASE Pipeline!RetrieveReturns
    <3>1. /\ tPc = "range" /\ tPc' = "retrieved" /\ todo = {} /\ allChunks' = {}
          /\ result' \in Pipeline!Rankings(allChunks, asked.query, asked.topK)
          /\ UNCHANGED <<chunks, asked, raced, tLog>>
      BY <2>6 DEF Pipeline!RetrieveReturns
    <3>2. IsFiniteSet(allChunks) /\ allChunks \subseteq Chunk /\ asked.query \in Seq(Words) /\ asked.topK \in Nat
      BY DEF PipelineInv
    <3>3. Ranked(result', allChunks, asked.query, asked.topK) BY <3>1, <3>2, RankingsRank
    <3>4. result' \in Seq(Chunk)
      <4>1. result' \in Seq(allChunks) BY <3>3 DEF Ranked
      <4> QED BY <3>2, <4>1
    <3>5. ~raced => allChunks = IndexAt(tLog, asked.at)
      <4> SUFFICES ASSUME ~raced PROVE allChunks = IndexAt(tLog, asked.at)
        OBVIOUS
      <4>1. /\ asked.at = Len(tLog)
            /\ allChunks = UNION {Pipeline!Range(chunks[d]) : d \in DOMAIN chunks \ {}}
        BY <3>1 DEF PipelineInv
      <4>2. DOMAIN chunks \ {} = DOMAIN chunks OBVIOUS
      <4> QED BY <2>0, <4>1, <4>2, IndexedAll
    <3>6. IsFiniteSet({}) BY FS_EmptySet
    <3> QED BY <3>1, <3>3, <3>4, <3>5, <3>6 DEF PipelineInv
  <2>7. CASE Pipeline!Cancel BY <2>7 DEF Pipeline!Cancel, Pipeline!retrieval, PipelineInv
  <2>8. ASSUME NEW n \in Lengths, Pipeline!AssembleContext(n) PROVE PipelineInv'
    <3>1. n \in Nat BY TextsAssumption
    <3>2. /\ tPc = "retrieved" /\ tPc' = "assembled" /\ asked' = [asked EXCEPT !.maxLength = n]
          /\ parts' = Pipeline!Assembled(result, n) /\ UNCHANGED <<chunks, allChunks, result, tLog>>
      BY <2>8 DEF Pipeline!AssembleContext
    <3>3. result \in Seq(Chunk) BY <3>2 DEF PipelineInv
    <3>4. Fits(parts', result, n) BY <3>1, <3>2, <3>3, AssembledFits
    <3>5. /\ asked' \in [query: Seq(Words), topK: Nat, maxLength: Nat, at: Nat]
          /\ asked'.at = asked.at /\ asked'.maxLength = n
      BY <3>1, <3>2 DEF PipelineInv
    <3> QED BY <3>2, <3>4, <3>5 DEF PipelineInv
  <2>9. CASE Pipeline!Done BY <2>1, <2>9 DEF Pipeline!Done
  <2> QED BY <2>1, <2>2, <2>3, <2>4, <2>5, <2>6, <2>7, <2>8, <2>9 DEF Pipeline!Next
<1> QED BY <1>1, <1>2, PTL DEF Pipeline!Spec

(* Retrieve returns the topK best chunks, better ones first, of the documents as
   they were last indexed, unless an Index ran meanwhile; AssembleContext gives
   them in that order and cuts once, at the end (BestChunksInContext), for any
   texts, queries and lengths. *)
THEOREM BestChunks == Pipeline!Spec => []Pipeline!BestChunksInContext
<1>1. ASSUME PipelineInv PROVE Pipeline!BestChunksInContext
  <2>1. \A n : Pipeline!LatestAt(n) = LatestIn(tLog, n) BY DEF Pipeline!LatestAt, LatestIn
  <2>2. Pipeline!ChunksOf(Pipeline!LatestAt(asked.at)) = IndexAt(tLog, asked.at)
    BY <2>1 DEF Pipeline!ChunksOf, IndexAt
  <2>3. ASSUME tPc = "retrieved", ~raced
        PROVE  LET index == Pipeline!ChunksOf(Pipeline!LatestAt(asked.at))
               IN  /\ \A i, j \in DOMAIN result : i < j =>
                        /\ result[i] # result[j]
                        /\ Pipeline!overlapScore(asked.query, result[i]) >= Pipeline!overlapScore(asked.query, result[j])
                   /\ Pipeline!Range(result) \subseteq index
                   /\ Len(result) = Pipeline!Min({asked.topK, Pipeline!Cardinality(index)})
                   /\ \A c \in index \ Pipeline!Range(result), d \in Pipeline!Range(result) :
                        Pipeline!overlapScore(asked.query, c) <= Pipeline!overlapScore(asked.query, d)
    <3>1. PICK index : index = IndexAt(tLog, asked.at) OBVIOUS
    <3>2. Ranked(result, index, asked.query, asked.topK) BY <1>1, <2>3, <3>1 DEF PipelineInv
    <3>3. Pipeline!Range(result) \subseteq index
      <4>1. result \in Seq(index) BY <3>2 DEF Ranked
      <4> QED BY <4>1 DEF Pipeline!Range
    <3> QED BY <2>2, <3>1, <3>2, <3>3, Zenon DEF Ranked
  <2>4. tPc = "assembled" => Fits(parts, result, asked.maxLength) BY <1>1 DEF PipelineInv
  <2> QED BY <2>3, <2>4, Zenon DEF Pipeline!BestChunksInContext, Fits
<1> QED BY <1>1, PipelineInvariant, PTL

-----------------------------------------------------------------------------
(* The meter.                                                                *)

Record == [kind: Meter!Kinds, name: Names, amount: Amounts, labels: LabelSets]

\* What operations of the log l record together.
Zero(kind) == IF kind = "histogram" THEN <<>> ELSE 0
Added(kind, v, x) ==
  CASE kind = "counter" -> x + v
    [] kind = "gauge" -> x
    [] kind = "histogram" -> Append(v, x)
AmountIn(l, kind, mine) ==
  LET after[n \in 0..Len(l)] ==
        IF n = 0 THEN Zero(kind)
        ELSE IF n \notin mine THEN after[n - 1] ELSE Added(kind, after[n - 1], l[n].amount)
  IN  after[Len(l)]

Values(kind) == IF kind = "histogram" THEN Seq(Amounts) ELSE Int

\* a has the amounts after each of the first n operations.
Accrues(a, n, l, kind, mine) ==
  /\ a \in [0..n -> Values(kind)] /\ a[0] = Zero(kind)
  /\ \A m \in 1..n : a[m] = IF m \notin mine THEN a[m - 1] ELSE Added(kind, a[m - 1], l[m].amount)

(* Adding an amount gives a value of the kind. *)
LEMMA AddedValue ==
  ASSUME NEW kind \in Meter!Kinds, NEW v \in Values(kind), NEW x \in Amounts
  PROVE  Added(kind, v, x) \in Values(kind)
<1>1. x \in Int BY LabelsAssumption
<1>2. CASE kind = "counter" BY <1>1, <1>2 DEF Added, Values
<1>3. CASE kind = "gauge" BY <1>1, <1>3 DEF Added, Values
<1>4. CASE kind = "histogram" BY <1>4 DEF Added, Values
<1> QED BY <1>2, <1>3, <1>4 DEF Meter!Kinds

(* Amounts accrue along a log. *)
LEMMA AccruesExist ==
  ASSUME NEW n \in Nat, NEW l, \A m \in 1..n : l[m] \in Record, NEW kind \in Meter!Kinds, NEW mine
  PROVE  \E a : Accrues(a, n, l, kind, mine)
<1> DEFINE A == Values(kind)
           After(m, v) == IF m \notin mine THEN v ELSE Added(kind, v, l[m].amount)
           step == [p \in (1..n) \X A |-> After(p[1], p[2])]
<1>1. Zero(kind) \in A
  <2>1. CASE kind = "histogram"
    <3>1. <<>> \in Seq(Amounts) OBVIOUS
    <3> QED BY <2>1, <3>1, Zenon DEF Zero, Values
  <2>2. CASE kind # "histogram" BY <2>2 DEF Zero, Values
  <2> QED BY <2>1, <2>2
<1>2. ASSUME NEW m \in 1..n, NEW v \in A PROVE After(m, v) \in A
  <2>1. l[m].amount \in Amounts BY DEF Record
  <2>2. Added(kind, v, l[m].amount) \in A BY <2>1, AddedValue
  <2> QED BY <2>2
<1> HIDE DEF A, After
<1>3. step \in [(1..n) \X A -> A] /\ \A m \in 1..n : \A v \in A : step[<<m, v>>] = After(m, v) BY <1>2
<1> HIDE DEF step
<1>4. PICK a : Recursive(a, n, A, Zero(kind), step) BY <1>1, <1>3, Recursion
<1>5. a \in [0..n -> A] /\ a[0] = Zero(kind) /\ \A m \in 1..n : a[m] = step[<<m, a[m - 1]>>]
  BY <1>4 DEF Recursive
<1>6. \A m \in 1..n : a[m - 1] \in A BY <1>5
<1>7. \A m \in 1..n : a[m] = After(m, a[m - 1]) BY <1>3, <1>5, <1>6
<1>8. Accrues(a, n, l, kind, mine) BY <1>5, <1>7 DEF Accrues, A, After
<1> QED BY <1>8

(* The amount is what has accrued at the end of the log. *)
LEMMA AmountValue ==
  ASSUME NEW n \in Nat, NEW l, Len(l) = n, NEW kind, NEW mine, NEW a, Accrues(a, n, l, kind, mine)
  PROVE  AmountIn(l, kind, mine) = a[n]
<1> DEFINE Body(c, m) == IF m = 0 THEN Zero(kind)
                         ELSE IF m \notin mine THEN c[m - 1] ELSE Added(kind, c[m - 1], l[m].amount)
<1>1. /\ a \in [0..n -> Values(kind)] /\ a[0] = Zero(kind)
      /\ \A m \in 1..n : a[m] = IF m \notin mine THEN a[m - 1] ELSE Added(kind, a[m - 1], l[m].amount)
  BY DEF Accrues
<1>2. a = [m \in 0..n |-> Body(a, m)]
  <2>1. \A m \in 0..n : m = 0 \/ (m \in 1..n /\ m # 0) OBVIOUS
  <2>2. \A m \in 0..n : a[m] = Body(a, m) BY <1>1, <2>1
  <2> HIDE DEF Body
  <2> QED BY <1>1, <2>2
<1>3. PICK c : c = [m \in 0..n |-> Body(c, m)] /\ AmountIn(l, kind, mine) = c[n]
  <2>1. AmountIn(l, kind, mine) = (CHOOSE c : c = [m \in 0..n |-> Body(c, m)])[n] BY ZenonT(60) DEF AmountIn
  <2> HIDE DEF Body
  <2> QED BY <1>2, <2>1, ZenonT(60)
<1> DEFINE S == {m \in 0..n : c[m] = a[m]}
<1>4. 0 \in S BY <1>1, <1>3
<1>5. ASSUME NEW m \in 1..n, m - 1 \in S PROVE m \in S
  <2>1. c[m] = IF m \notin mine THEN c[m - 1] ELSE Added(kind, c[m - 1], l[m].amount) BY <1>3
  <2> QED BY <1>1, <1>5, <2>1
<1> HIDE DEF S
<1>6. \A m \in 0..n : m \in S BY <1>4, <1>5, UpTo, Zenon
<1> QED BY <1>3, <1>6 DEF S

(* One more operation adds its amount, if it is one of those. *)
LEMMA AmountAppend ==
  ASSUME NEW l \in Seq(Record), NEW o \in Record, NEW kind \in Meter!Kinds, NEW mine, NEW more,
         \A i \in 1..Len(l) : i \in more <=> i \in mine
  PROVE  AmountIn(Append(l, o), kind, more) =
           IF Len(l) + 1 \in more THEN Added(kind, AmountIn(l, kind, mine), o.amount) ELSE AmountIn(l, kind, mine)
<1>0. PICK n \in Nat : n = Len(l) OBVIOUS
<1>1. PICK v : v = Append(l, o) OBVIOUS
<1>2. /\ Len(v) = n + 1 /\ v[n + 1] = o /\ (\A m \in 1..n : v[m] = l[m] /\ l[m] \in Record)
      /\ \A m \in 1..n + 1 : v[m] \in Record
  BY <1>0, <1>1
<1>3. PICK a : Accrues(a, n + 1, v, kind, more) BY <1>2, AccruesExist, SMTT(30)
<1>4. /\ a \in [0..n + 1 -> Values(kind)] /\ a[0] = Zero(kind)
      /\ \A m \in 1..n + 1 : a[m] = IF m \notin more THEN a[m - 1] ELSE Added(kind, a[m - 1], v[m].amount)
  BY <1>3 DEF Accrues
<1> DEFINE b == [m \in 0..n |-> a[m]]
<1>5. b \in [0..n -> Values(kind)] /\ b[0] = Zero(kind) /\ b[n] = a[n] BY <1>4
<1>6. \A m \in 1..n : b[m] = IF m \notin mine THEN b[m - 1] ELSE Added(kind, b[m - 1], l[m].amount)
  <2> SUFFICES ASSUME NEW m \in 1..n
               PROVE  b[m] = IF m \notin mine THEN b[m - 1] ELSE Added(kind, b[m - 1], l[m].amount)
    OBVIOUS
  <2>1. m \in 1..n + 1 /\ m \in 0..n /\ m - 1 \in 0..n /\ v[m] = l[m] /\ (m \in more <=> m \in mine) BY <1>0, <1>2
  <2>2. b[m] = a[m] /\ b[m - 1] = a[m - 1] BY <2>1
  <2> QED BY <1>4, <2>1, <2>2
<1> HIDE DEF b
<1>7. Accrues(b, n, l, kind, mine) BY <1>5, <1>6 DEF Accrues
<1>8. AmountIn(l, kind, mine) = a[n] BY <1>0, <1>5, <1>7, AmountValue
<1>9. AmountIn(v, kind, more) = a[n + 1] BY <1>2, <1>3, AmountValue
<1>10. a[n + 1] = IF n + 1 \notin more THEN a[n] ELSE Added(kind, a[n], o.amount)
  <2>1. n + 1 \in 1..n + 1 /\ (n + 1) - 1 = n OBVIOUS
  <2> QED BY <1>2, <1>4, <2>1
<1> QED BY <1>0, <1>1, <1>8, <1>9, <1>10

(* No operations record nothing. *)
LEMMA AmountNone ==
  ASSUME NEW l \in Seq(Record), NEW kind \in Meter!Kinds, NEW mine, \A i \in 1..Len(l) : i \notin mine
  PROVE  AmountIn(l, kind, mine) = Zero(kind)
<1>0. PICK n \in Nat : n = Len(l) OBVIOUS
<1>1. \A m \in 1..n : l[m] \in Record BY <1>0
<1>2. PICK a : Accrues(a, n, l, kind, mine) BY <1>1, AccruesExist
<1>3. a[0] = Zero(kind) /\ \A m \in 1..n : a[m] = a[m - 1] BY <1>0, <1>2 DEF Accrues
<1> DEFINE S == {m \in 0..n : a[m] = Zero(kind)}
<1>4. 0 \in S BY <1>3
<1>5. \A m \in 1..n : m - 1 \in S => m \in S BY <1>3
<1> HIDE DEF S
<1>6. \A m \in 0..n : m \in S BY <1>4, <1>5, UpTo, Zenon
<1> QED BY <1>0, <1>2, <1>6, AmountValue DEF S

\* The text under which an operation is kept.
TextOf(o) == Meter!String(Meter!Allowed(o.labels))
TextUnder(l, kind, name, lk) == {i \in 1..Len(l) : l[i].kind = kind /\ l[i].name = name /\ TextOf(l[i]) = lk}

\* f has the series of a kind and a name that the log l makes, g the labels of a name.
SeriesOf(f, l, kind, name) ==
  /\ \A lk \in DOMAIN f : f[lk] = AmountIn(l, kind, TextUnder(l, kind, name, lk))
  /\ \A lk \in DOMAIN f : \E i \in 1..Len(l) : l[i].kind = kind /\ l[i].name = name /\ TextOf(l[i]) = lk
  /\ \A i \in 1..Len(l) : l[i].kind = kind /\ l[i].name = name => TextOf(l[i]) \in DOMAIN f
LabelsIn(g, l, name) ==
  /\ \A lk \in DOMAIN g : /\ Meter!String(g[lk]) = lk
                         /\ \E i \in 1..Len(l) : l[i].name = name /\ Meter!Allowed(l[i].labels) = g[lk]
  /\ \A i \in 1..Len(l) : l[i].name = name => TextOf(l[i]) \in DOMAIN g

(* The labels that are kept are the allowed ones. *)
LEMMA KeptAllowed ==
  ASSUME NEW labels \in LabelSets
  PROVE  Meter!filterLabels(labels) = Meter!Allowed(labels)
<1>1. DOMAIN labels \subseteq Meter!Range(Meter!Sorted) BY LabelsAssumption
<1>2. DOMAIN labels \intersect Meter!allowedLabelKeys = DOMAIN labels \ {"request_id"}
  BY <1>1 DEF Meter!allowedLabelKeys
<1> QED BY <1>2 DEF Meter!filterLabels, Meter!Allowed

(* Another operation leaves the series of other kinds and names. *)
LEMMA SeriesOther ==
  ASSUME NEW l \in Seq(Record), NEW o \in Record, NEW kind \in Meter!Kinds, NEW name,
         ~(o.kind = kind /\ o.name = name), NEW f, SeriesOf(f, l, kind, name)
  PROVE  SeriesOf(f, Append(l, o), kind, name)
<1>0. PICK n \in Nat : n = Len(l) OBVIOUS
<1>1. PICK v : v = Append(l, o) OBVIOUS
<1>2. Len(v) = n + 1 /\ v[n + 1] = o /\ \A m \in 1..n : v[m] = l[m] BY <1>0, <1>1
<1>3. \A i : i \in 1..n + 1 <=> i \in 1..n \/ i = n + 1 OBVIOUS
<1>4. ASSUME NEW lk \in DOMAIN f PROVE f[lk] = AmountIn(v, kind, TextUnder(v, kind, name, lk))
  <2>1. \A i \in 1..n : i \in TextUnder(v, kind, name, lk) <=> i \in TextUnder(l, kind, name, lk)
    BY <1>0, <1>2, <1>3 DEF TextUnder
  <2>2. n + 1 \notin TextUnder(v, kind, name, lk) BY <1>2 DEF TextUnder
  <2>3. AmountIn(v, kind, TextUnder(v, kind, name, lk)) = AmountIn(l, kind, TextUnder(l, kind, name, lk))
    BY <1>0, <1>1, <2>1, <2>2, AmountAppend
  <2> QED BY <2>3 DEF SeriesOf
<1>5. ASSUME NEW lk \in DOMAIN f
      PROVE  \E i \in 1..n + 1 : v[i].kind = kind /\ v[i].name = name /\ TextOf(v[i]) = lk
  BY <1>0, <1>2, <1>3 DEF SeriesOf
<1>6. ASSUME NEW i \in 1..n + 1, v[i].kind = kind, v[i].name = name PROVE TextOf(v[i]) \in DOMAIN f
  BY <1>0, <1>2, <1>3, <1>6 DEF SeriesOf
<1>7. SeriesOf(f, v, kind, name) BY <1>2, <1>4, <1>5, <1>6 DEF SeriesOf
<1> QED BY <1>1, <1>7

(* An operation adds its amount to its series, which it makes if it is the first. *)
LEMMA SeriesStep ==
  ASSUME NEW l \in Seq(Record), NEW o \in Record, NEW f, SeriesOf(f, l, o.kind, o.name), NEW t, t = TextOf(o),
         NEW f1, f1 = Meter!With(f, t, Added(o.kind, IF t \in DOMAIN f THEN f[t] ELSE Zero(o.kind), o.amount))
  PROVE  SeriesOf(f1, Append(l, o), o.kind, o.name)
<1>0. PICK n \in Nat : n = Len(l) OBVIOUS
<1>1. PICK v : v = Append(l, o) OBVIOUS
<1>2. Len(v) = n + 1 /\ v[n + 1] = o /\ \A m \in 1..n : v[m] = l[m] BY <1>0, <1>1
<1>3. \A i : i \in 1..n + 1 <=> i \in 1..n \/ i = n + 1 OBVIOUS
<1>k. PICK kind \in Meter!Kinds, name \in Names : kind = o.kind /\ name = o.name BY DEF Record
<1>4. DOMAIN f1 = DOMAIN f \union {t} /\ \A lk \in DOMAIN f : lk # t => f1[lk] = f[lk] BY DEF Meter!With
<1>5. f1[t] = Added(kind, IF t \in DOMAIN f THEN f[t] ELSE Zero(kind), o.amount) BY <1>k DEF Meter!With
<1>6. ASSUME NEW lk \in DOMAIN f1 PROVE f1[lk] = AmountIn(v, kind, TextUnder(v, kind, name, lk))
  <2>1. \A i \in 1..n : i \in TextUnder(v, kind, name, lk) <=> i \in TextUnder(l, kind, name, lk)
    BY <1>0, <1>2, <1>3 DEF TextUnder
  <2>2. n + 1 \in TextUnder(v, kind, name, lk) <=> lk = t BY <1>2, <1>3, <1>k DEF TextUnder
  <2>3. AmountIn(v, kind, TextUnder(v, kind, name, lk)) =
          IF lk = t THEN Added(kind, AmountIn(l, kind, TextUnder(l, kind, name, lk)), o.amount)
          ELSE AmountIn(l, kind, TextUnder(l, kind, name, lk))
    BY <1>0, <1>1, <2>1, <2>2, AmountAppend
  <2>4. CASE lk # t
    <3>1. lk \in DOMAIN f /\ f1[lk] = f[lk] BY <1>4, <2>4
    <3> QED BY <1>k, <2>3, <2>4, <3>1 DEF SeriesOf
  <2>5. CASE lk = t /\ t \in DOMAIN f
    <3>1. f[t] = AmountIn(l, kind, TextUnder(l, kind, name, t)) BY <1>k, <2>5 DEF SeriesOf
    <3> QED BY <1>5, <2>3, <2>5, <3>1
  <2>6. CASE lk = t /\ t \notin DOMAIN f
    <3>1. \A i \in 1..n : i \notin TextUnder(l, kind, name, t)
      BY <1>0, <1>k, <2>6 DEF SeriesOf, TextUnder
    <3>2. AmountIn(l, kind, TextUnder(l, kind, name, t)) = Zero(kind) BY <1>0, <3>1, AmountNone
    <3> QED BY <1>5, <2>3, <2>6, <3>2
  <2> QED BY <2>4, <2>5, <2>6
<1>7. ASSUME NEW lk \in DOMAIN f1
      PROVE  \E i \in 1..n + 1 : v[i].kind = kind /\ v[i].name = name /\ TextOf(v[i]) = lk
  <2>1. CASE lk = t BY <1>2, <1>3, <1>k, <2>1
  <2>2. CASE lk # t
    <3>1. lk \in DOMAIN f BY <1>4, <2>2
    <3> QED BY <1>0, <1>2, <1>3, <1>k, <3>1 DEF SeriesOf
  <2> QED BY <2>1, <2>2
<1>8. ASSUME NEW i \in 1..n + 1, v[i].kind = kind, v[i].name = name PROVE TextOf(v[i]) \in DOMAIN f1
  BY <1>0, <1>2, <1>3, <1>4, <1>8, <1>k DEF SeriesOf
<1>9. SeriesOf(f1, v, kind, name) BY <1>2, <1>6, <1>7, <1>8 DEF SeriesOf
<1> QED BY <1>1, <1>9, <1>k

(* Another operation leaves the labels of other names. *)
LEMMA LabelsOther ==
  ASSUME NEW l \in Seq(Record), NEW o \in Record, NEW name, o.name # name, NEW g, LabelsIn(g, l, name)
  PROVE  LabelsIn(g, Append(l, o), name)
<1>0. PICK n \in Nat : n = Len(l) OBVIOUS
<1>1. PICK v : v = Append(l, o) OBVIOUS
<1>2. Len(v) = n + 1 /\ v[n + 1] = o /\ \A m \in 1..n : v[m] = l[m] BY <1>0, <1>1
<1>3. \A i : i \in 1..n + 1 <=> i \in 1..n \/ i = n + 1 OBVIOUS
<1>4. \A lk \in DOMAIN g : /\ Meter!String(g[lk]) = lk
                           /\ \E i \in 1..n : l[i].name = name /\ Meter!Allowed(l[i].labels) = g[lk]
  BY <1>0 DEF LabelsIn
<1>5. \A lk \in DOMAIN g : \E i \in 1..n + 1 : v[i].name = name /\ Meter!Allowed(v[i].labels) = g[lk]
  BY <1>2, <1>3, <1>4
<1>6. \A i \in 1..n + 1 : v[i].name = name => TextOf(v[i]) \in DOMAIN g
  BY <1>0, <1>2, <1>3 DEF LabelsIn
<1>7. LabelsIn(g, v, name) BY <1>2, <1>4, <1>5, <1>6 DEF LabelsIn
<1> QED BY <1>1, <1>7

(* The first labels that have a text are remembered. *)
LEMMA LabelsStep ==
  ASSUME NEW l \in Seq(Record), NEW o \in Record, NEW g, LabelsIn(g, l, o.name), NEW t, t = TextOf(o),
         NEW h, h = IF t \in DOMAIN g THEN g ELSE Meter!With(g, t, Meter!Allowed(o.labels))
  PROVE  LabelsIn(h, Append(l, o), o.name)
<1>0. PICK n \in Nat : n = Len(l) OBVIOUS
<1>1. PICK v : v = Append(l, o) OBVIOUS
<1>2. Len(v) = n + 1 /\ v[n + 1] = o /\ \A m \in 1..n : v[m] = l[m] BY <1>0, <1>1
<1>3. \A i : i \in 1..n + 1 <=> i \in 1..n \/ i = n + 1 OBVIOUS
<1>k. PICK name : name = o.name OBVIOUS
<1>4. \A lk \in DOMAIN g : /\ Meter!String(g[lk]) = lk
                           /\ \E i \in 1..n : l[i].name = name /\ Meter!Allowed(l[i].labels) = g[lk]
  BY <1>0, <1>k DEF LabelsIn
<1>5. /\ DOMAIN h = DOMAIN g \union {t} /\ \A lk \in DOMAIN g : h[lk] = g[lk]
      /\ t \notin DOMAIN g => h[t] = Meter!Allowed(o.labels)
  BY DEF Meter!With
<1>6. ASSUME NEW lk \in DOMAIN h
      PROVE  /\ Meter!String(h[lk]) = lk
             /\ \E i \in 1..n + 1 : v[i].name = name /\ Meter!Allowed(v[i].labels) = h[lk]
  <2>1. CASE lk \in DOMAIN g BY <1>2, <1>3, <1>4, <1>5, <2>1
  <2>2. CASE lk \notin DOMAIN g BY <1>2, <1>3, <1>5, <1>k, <2>2 DEF TextOf
  <2> QED BY <2>1, <2>2
<1>7. \A i \in 1..n + 1 : v[i].name = name => TextOf(v[i]) \in DOMAIN h
  BY <1>0, <1>2, <1>3, <1>5, <1>k DEF LabelsIn
<1>8. LabelsIn(h, v, name) BY <1>2, <1>6, <1>7 DEF LabelsIn
<1> QED BY <1>1, <1>8, <1>k

MeterInv ==
  /\ mLog \in Seq(Record)
  /\ DOMAIN series = Meter!Kinds \X Names /\ DOMAIN labelKeys = Names
  /\ \A kind \in Meter!Kinds, name \in Names : SeriesOf(series[<<kind, name>>], mLog, kind, name)
  /\ \A name \in Names : LabelsIn(labelKeys[name], mLog, name)

\* One operation is recorded: its amount in its series, its labels if they are new.
Recorded(o) ==
  LET at == <<o.kind, o.name>>
      t == TextOf(o)
      old == IF t \in DOMAIN series[at] THEN series[at][t] ELSE Zero(o.kind)
  IN  /\ mLog' = Append(mLog, o)
      /\ series' = [series EXCEPT ![at] = Meter!With(@, t, Added(o.kind, old, o.amount))]
      /\ DOMAIN labelKeys' = DOMAIN labelKeys
      /\ \A x \in DOMAIN labelKeys : labelKeys'[x] =
           IF x = o.name /\ t \notin DOMAIN labelKeys[x] THEN Meter!With(labelKeys[x], t, Meter!Allowed(o.labels))
           ELSE labelKeys[x]

(* A step of the meter records an operation or changes nothing. *)
LEMMA MeterSteps ==
  ASSUME MeterInv, [Meter!Next]_(Meter!vars)
  PROVE  UNCHANGED <<series, labelKeys, mLog>> \/ \E o \in Record : Recorded(o)
<1>1. CASE UNCHANGED Meter!vars \/ Meter!Done BY <1>1 DEF Meter!vars, Meter!Done
<1>2. ASSUME NEW name \in Names, NEW a \in Amounts, NEW labels \in LabelSets,
             Meter!Counter(name, a, labels) \/ Meter!Gauge(name, a, labels) \/ Meter!Histogram(name, a, labels)
      PROVE  \E o \in Record : Recorded(o)
  <2> DEFINE O(kind) == [kind |-> kind, name |-> name, amount |-> a, labels |-> labels]
             kept == Meter!filterLabels(labels)
             t == Meter!String(kept)
  <2>1. kept = Meter!Allowed(labels) BY KeptAllowed
  <2>2. \A kind : TextOf(O(kind)) = t BY <2>1 DEF TextOf
  <2>3. \A kind \in Meter!Kinds : O(kind) \in Record BY DEF Record
  <2>4. ASSUME Meter!ensureLabelKey(name, t, kept)
        PROVE  /\ DOMAIN labelKeys' = DOMAIN labelKeys
               /\ \A x \in DOMAIN labelKeys : labelKeys'[x] =
                    IF x = name /\ t \notin DOMAIN labelKeys[x]
                    THEN Meter!With(labelKeys[x], t, Meter!Allowed(labels)) ELSE labelKeys[x]
    <3> HIDE DEF t, kept
    <3>1. CASE t \in DOMAIN labelKeys[name] BY <2>4, <3>1 DEF Meter!ensureLabelKey
    <3>2. CASE t \notin DOMAIN labelKeys[name] BY <2>1, <2>4, <3>2 DEF Meter!ensureLabelKey
    <3> QED BY <3>1, <3>2
  <2>5. ASSUME NEW kind \in Meter!Kinds, NEW v, Meter!ensureLabelKey(name, t, kept),
               series' = [series EXCEPT ![<<kind, name>>] = Meter!With(@, t, v)], mLog' = Append(mLog, O(kind)),
               v = Added(kind, IF t \in DOMAIN series[<<kind, name>>] THEN series[<<kind, name>>][t]
                               ELSE Zero(kind), a)
        PROVE  \E o \in Record : Recorded(o)
    <3>1. PICK o \in Record : o = O(kind) BY <2>3
    <3>2. o.kind = kind /\ o.name = name /\ o.amount = a /\ o.labels = labels /\ TextOf(o) = t BY <2>2, <3>1
    <3>3. /\ DOMAIN labelKeys' = DOMAIN labelKeys
          /\ \A x \in DOMAIN labelKeys : labelKeys'[x] =
               IF x = name /\ t \notin DOMAIN labelKeys[x]
               THEN Meter!With(labelKeys[x], t, Meter!Allowed(labels)) ELSE labelKeys[x]
      BY <2>4, <2>5
    <3>4. Recorded(o)
      <4> HIDE DEF t, kept, O
      <4> QED BY <2>5, <3>1, <3>2, <3>3 DEF Recorded
    <3> QED BY <3>4
  <2>6. CASE Meter!Counter(name, a, labels)
    <3> DEFINE f == series[<<"counter", name>>]
               v == a + IF t \in DOMAIN f THEN f[t] ELSE 0
    <3>1. /\ Meter!ensureLabelKey(name, t, kept) /\ mLog' = Append(mLog, O("counter"))
          /\ series' = [series EXCEPT ![<<"counter", name>>] = Meter!With(@, t, v)]
      BY <2>6 DEF Meter!Counter, Meter!Record
    <3>2. v = Added("counter", IF t \in DOMAIN f THEN f[t] ELSE Zero("counter"), a) BY DEF Added, Zero
    <3> HIDE DEF t, v, kept, O
    <3> QED BY <2>5, <3>1, <3>2 DEF Meter!Kinds
  <2>7. CASE Meter!Gauge(name, a, labels)
    <3> DEFINE f == series[<<"gauge", name>>]
    <3>1. /\ Meter!ensureLabelKey(name, t, kept) /\ mLog' = Append(mLog, O("gauge"))
          /\ series' = [series EXCEPT ![<<"gauge", name>>] = Meter!With(@, t, a)]
      BY <2>7 DEF Meter!Gauge, Meter!Record
    <3>2. a = Added("gauge", IF t \in DOMAIN f THEN f[t] ELSE Zero("gauge"), a) BY DEF Added
    <3> HIDE DEF t, kept, O
    <3> QED BY <2>5, <3>1, <3>2 DEF Meter!Kinds
  <2>8. CASE Meter!Histogram(name, a, labels)
    <3> DEFINE f == series[<<"histogram", name>>]
               v == Append(IF t \in DOMAIN f THEN f[t] ELSE <<>>, a)
    <3>1. /\ Meter!ensureLabelKey(name, t, kept) /\ mLog' = Append(mLog, O("histogram"))
          /\ series' = [series EXCEPT ![<<"histogram", name>>] = Meter!With(@, t, v)]
      BY <2>8 DEF Meter!Histogram, Meter!Record
    <3>2. v = Added("histogram", IF t \in DOMAIN f THEN f[t] ELSE Zero("histogram"), a) BY DEF Added, Zero
    <3> HIDE DEF t, v, kept, O
    <3> QED BY <2>5, <3>1, <3>2 DEF Meter!Kinds
  <2> QED BY <1>2, <2>6, <2>7, <2>8
<1> QED BY <1>1, <1>2 DEF Meter!Next

(* MeterInv holds throughout. *)
THEOREM MeterInvariant == Meter!Spec => []MeterInv
<1>1. Meter!Init => MeterInv
  <2> SUFFICES ASSUME Meter!Init PROVE MeterInv
    OBVIOUS
  <2>1. DOMAIN Meter!None = {} BY DEF Meter!None
  <2>2. mLog = <<>> /\ mLog \in Seq(Record) /\ Len(mLog) = 0 BY DEF Meter!Init
  <2>3. /\ DOMAIN series = Meter!Kinds \X Names /\ DOMAIN labelKeys = Names
        /\ \A kind \in Meter!Kinds, name \in Names : series[<<kind, name>>] = Meter!None
        /\ \A name \in Names : labelKeys[name] = Meter!None
    BY DEF Meter!Init
  <2>4. \A i : i \notin 1..Len(mLog) BY <2>2
  <2> QED BY <2>1, <2>2, <2>3, <2>4 DEF MeterInv, SeriesOf, LabelsIn
<1>2. MeterInv /\ [Meter!Next]_(Meter!vars) => MeterInv'
  <2> SUFFICES ASSUME MeterInv, [Meter!Next]_(Meter!vars) PROVE MeterInv'
    OBVIOUS
  <2>1. CASE UNCHANGED <<series, labelKeys, mLog>> BY <2>1 DEF MeterInv
  <2>2. ASSUME NEW o \in Record, Recorded(o) PROVE MeterInv'
    <3>1. PICK l, t : l = mLog /\ t = TextOf(o) OBVIOUS
    <3>2. l \in Seq(Record) /\ mLog' = Append(l, o) /\ mLog' \in Seq(Record) BY <2>2, <3>1 DEF MeterInv, Recorded
    <3>3. o.kind \in Meter!Kinds /\ o.name \in Names /\ <<o.kind, o.name>> \in DOMAIN series /\ o.name \in DOMAIN labelKeys
      BY DEF Record, MeterInv
    <3>4. /\ DOMAIN series' = DOMAIN series /\ DOMAIN labelKeys' = DOMAIN labelKeys
          /\ \A at \in DOMAIN series : at # <<o.kind, o.name>> => series'[at] = series[at]
          /\ \A name \in DOMAIN labelKeys : name # o.name => labelKeys'[name] = labelKeys[name]
      BY <2>2, <3>3 DEF Recorded
    <3>5. ASSUME NEW kind \in Meter!Kinds, NEW name \in Names
          PROVE  SeriesOf(series'[<<kind, name>>], mLog', kind, name)
      <4>1. PICK f, f1 : f = series[<<kind, name>>] /\ f1 = series'[<<kind, name>>] OBVIOUS
      <4>2. SeriesOf(f, l, kind, name) BY <3>1, <4>1 DEF MeterInv
      <4>3. CASE kind = o.kind /\ name = o.name
        <5>1. f1 = Meter!With(f, t, Added(o.kind, IF t \in DOMAIN f THEN f[t] ELSE Zero(o.kind), o.amount))
          BY <2>2, <3>1, <3>3, <4>1, <4>3 DEF Recorded
        <5>2. SeriesOf(f1, Append(l, o), o.kind, o.name) BY <3>1, <3>2, <4>2, <4>3, <5>1, SeriesStep
        <5> QED BY <3>2, <4>1, <4>3, <5>2
      <4>4. CASE ~(o.kind = kind /\ o.name = name)
        <5>1. <<kind, name>> \in DOMAIN series /\ <<kind, name>> # <<o.kind, o.name>> BY <4>4 DEF MeterInv
        <5>2. f1 = f BY <3>4, <4>1, <5>1
        <5>3. SeriesOf(f, Append(l, o), kind, name) BY <3>2, <4>2, <4>4, SeriesOther
        <5> QED BY <3>2, <4>1, <5>2, <5>3
      <4> QED BY <4>3, <4>4
    <3>6. ASSUME NEW name \in Names PROVE LabelsIn(labelKeys'[name], mLog', name)
      <4>1. PICK g, h : g = labelKeys[name] /\ h = labelKeys'[name] OBVIOUS
      <4>2. LabelsIn(g, l, name) BY <3>1, <4>1 DEF MeterInv
      <4>3. CASE name = o.name
        <5>1. h = IF t \in DOMAIN g THEN g ELSE Meter!With(g, t, Meter!Allowed(o.labels))
          BY <2>2, <3>1, <3>3, <4>1, <4>3 DEF Recorded
        <5>2. LabelsIn(h, Append(l, o), o.name) BY <3>1, <3>2, <4>2, <4>3, <5>1, LabelsStep
        <5> QED BY <3>2, <4>1, <4>3, <5>2
      <4>4. CASE name # o.name
        <5>1. h = g BY <3>4, <4>1, <4>4 DEF MeterInv
        <5>2. LabelsIn(g, Append(l, o), name) BY <3>2, <4>2, <4>4, LabelsOther
        <5> QED BY <3>2, <4>1, <5>1, <5>2
      <4> QED BY <4>3, <4>4
    <3> QED BY <3>2, <3>4, <3>5, <3>6 DEF MeterInv
  <2> QED BY <2>1, <2>2, MeterSteps
<1> QED BY <1>1, <1>2, PTL DEF Meter!Spec

(* A snapshot has, for every name, kind and set of allowed labels used, one entry
   with exactly what was recorded under them, unless other labels have the same
   text (SeriesTruthful), for any names, labels and amounts. *)
THEOREM Truthful == Meter!Spec => []Meter!SeriesTruthful
<1>1. ASSUME MeterInv PROVE Meter!SeriesTruthful
  <2> SUFFICES ASSUME NEW name \in Names, NEW kind \in Meter!Kinds
               PROVE  LET entries == Meter!Snapshot(kind, name)
                          used == {Meter!Allowed(mLog[i].labels) : i \in Meter!Of(kind, name)}
                      IN  /\ \A x, y \in DOMAIN entries : entries[x].labels = entries[y].labels => x = y
                          /\ \A lk \in DOMAIN entries :
                               /\ entries[lk].labels \in Meter!LabelsOf(name)
                               /\ entries[lk].value = Meter!Amount(kind, Meter!UnderText(kind, name, lk))
                          /\ \A labels \in used :
                               \E lk \in DOMAIN entries :
                                 /\ lk = Meter!String(labels)
                                 /\ ~Meter!Ambiguous(name, labels) =>
                                      entries[lk] = [labels |-> labels,
                                                     value |-> Meter!Amount(kind, Meter!Under(kind, name, labels))]
    BY Zenon DEF Meter!SeriesTruthful
  <2> DEFINE entries == Meter!Snapshot(kind, name)
  <2>1. PICK l, f, g : l = mLog /\ f = series[<<kind, name>>] /\ g = labelKeys[name] OBVIOUS
  <2>2. l \in Seq(Record) /\ SeriesOf(f, l, kind, name) /\ LabelsIn(g, l, name) BY <1>1, <2>1 DEF MeterInv
  <2>3. PICK n \in Nat : n = Len(l) /\ DOMAIN l = 1..n BY <2>2
  <2>4. DOMAIN entries = DOMAIN f /\ \A lk \in DOMAIN f : entries[lk] = [labels |-> g[lk], value |-> f[lk]]
    BY <2>1 DEF Meter!Snapshot
  <2> HIDE DEF entries
  <2>5. \A lk \in DOMAIN f : entries[lk].labels = g[lk] /\ entries[lk].value = f[lk] BY <2>4
  <2>6. \A mine : Meter!Amount(kind, mine) = AmountIn(mLog, kind, mine)
    BY Zenon DEF Meter!Amount, AmountIn, Zero, Added
  <2>7. \A lk \in DOMAIN f : \E i \in 1..n : l[i].kind = kind /\ l[i].name = name /\ TextOf(l[i]) = lk
    BY <2>2, <2>3 DEF SeriesOf
  <2>8. \A lk \in DOMAIN f : f[lk] = AmountIn(l, kind, TextUnder(l, kind, name, lk)) BY <2>2 DEF SeriesOf
  <2>9. \A i \in 1..n : l[i].kind = kind /\ l[i].name = name => TextOf(l[i]) \in DOMAIN f
    BY <2>2, <2>3 DEF SeriesOf
  <2>10. \A i \in 1..n : l[i].name = name => TextOf(l[i]) \in DOMAIN g BY <2>2, <2>3 DEF LabelsIn
  <2>11. \A lk \in DOMAIN g : /\ Meter!String(g[lk]) = lk
                              /\ \E i \in 1..n : l[i].name = name /\ Meter!Allowed(l[i].labels) = g[lk]
    BY <2>2, <2>3 DEF LabelsIn
  <2>12. \A lk \in DOMAIN f : lk \in DOMAIN g BY <2>7, <2>10
  <2>13. \A x : x \in Meter!LabelsOf(name) <=> \E i \in 1..n : l[i].name = name /\ Meter!Allowed(l[i].labels) = x
    BY <2>1, <2>3 DEF Meter!LabelsOf
  <2>14. \A i : i \in Meter!Of(kind, name) <=> i \in 1..n /\ l[i].kind = kind /\ l[i].name = name
    BY <2>1, <2>3 DEF Meter!Of
  <2>15. \A lk : Meter!UnderText(kind, name, lk) = TextUnder(l, kind, name, lk)
    BY <2>1, <2>3, <2>14 DEF Meter!UnderText, TextUnder, TextOf
  <2>16. \A x, y \in DOMAIN entries : entries[x].labels = entries[y].labels => x = y
    BY <2>4, <2>5, <2>11, <2>12
  <2>17. ASSUME NEW lk \in DOMAIN entries
         PROVE  /\ entries[lk].labels \in Meter!LabelsOf(name)
                /\ entries[lk].value = Meter!Amount(kind, Meter!UnderText(kind, name, lk))
    <3>1. lk \in DOMAIN f /\ lk \in DOMAIN g BY <2>4, <2>12
    <3>2. entries[lk].labels \in Meter!LabelsOf(name) BY <2>5, <2>11, <2>13, <3>1
    <3> QED BY <2>1, <2>5, <2>6, <2>8, <2>15, <3>1, <3>2
  <2>18. ASSUME NEW i \in Meter!Of(kind, name), NEW labels, labels = Meter!Allowed(mLog[i].labels)
         PROVE  \E lk \in DOMAIN entries :
                  /\ lk = Meter!String(labels)
                  /\ ~Meter!Ambiguous(name, labels) =>
                       entries[lk] = [labels |-> labels, value |-> Meter!Amount(kind, Meter!Under(kind, name, labels))]
    <3>1. i \in 1..n /\ l[i].kind = kind /\ l[i].name = name /\ labels = Meter!Allowed(l[i].labels)
      BY <2>1, <2>14, <2>18
    <3>2. PICK lk : lk = Meter!String(labels) /\ lk = TextOf(l[i]) BY <3>1 DEF TextOf
    <3>3. lk \in DOMAIN f /\ lk \in DOMAIN g BY <2>9, <2>12, <3>1, <3>2
    <3>4. ASSUME ~Meter!Ambiguous(name, labels)
          PROVE  entries[lk] = [labels |-> labels, value |-> Meter!Amount(kind, Meter!Under(kind, name, labels))]
      <4>1. \A j \in 1..n : l[j].name = name /\ Meter!String(Meter!Allowed(l[j].labels)) = lk
                            => Meter!Allowed(l[j].labels) = labels
        BY <2>13, <3>2, <3>4 DEF Meter!Ambiguous
      <4>2. g[lk] = labels BY <2>11, <3>3, <4>1
      <4>3. \A j : j \in Meter!Under(kind, name, labels) <=> j \in TextUnder(l, kind, name, lk)
        BY <2>1, <2>3, <2>14, <3>2, <4>1 DEF Meter!Under, TextUnder, TextOf
      <4>4. Meter!Under(kind, name, labels) = TextUnder(l, kind, name, lk) BY <4>3 DEF Meter!Under, TextUnder
      <4> QED BY <2>1, <2>4, <2>6, <2>8, <3>3, <4>2, <4>4
    <3> QED BY <2>4, <3>2, <3>3, <3>4
  <2> QED BY <2>16, <2>17, <2>18 DEF entries
<1> QED BY <1>1, MeterInvariant, PTL

-----------------------------------------------------------------------------
(* Coercion of numerals. *)

Modulus == Coercion!Power(2, W)
Half == Coercion!Power(2, W - 1)

\* The powers of b up to the n-th.
Powers(f, b, n) == f = [i \in 0..n |-> IF i = 0 THEN 1 ELSE f[i - 1] * b]

(* Powers are positive, and each is b times the one before. *)
LEMMA PowersExist ==
  ASSUME NEW b \in Nat \ {0}, NEW n \in Nat
  PROVE  \E f : Powers(f, b, n)
<1> DEFINE step == [ss \in (1..n) \X Nat |-> ss[2] * b]
<1>1. step \in [(1..n) \X Nat -> Nat] OBVIOUS
<1>2. \A k \in 1..n, v \in Nat : step[<<k, v>>] = v * b OBVIOUS
<1> HIDE DEF step
<1>3. PICK f : Recursive(f, n, Nat, 1, step) BY <1>1, Recursion
<1>4. f \in [0..n -> Nat] /\ f[0] = 1 /\ \A k \in 1..n : f[k] = f[k - 1] * b
  <2>1. f \in [0..n -> Nat] /\ f[0] = 1 /\ \A k \in 1..n : f[k] = step[<<k, f[k - 1]>>]
    BY <1>3 DEF Recursive
  <2>2. \A k \in 1..n : f[k - 1] \in Nat BY <2>1
  <2> QED BY <2>1, <2>2, <1>2
<1>5. \A i \in 0..n : f[i] = IF i = 0 THEN 1 ELSE f[i - 1] * b
  <2>1. \A i \in 0..n : i = 0 \/ i \in 1..n OBVIOUS
  <2> QED BY <1>4, <2>1
<1>6. Powers(f, b, n) BY <1>4, <1>5 DEF Powers
<1> QED BY <1>6

(* What the powers of b up to the n-th are. *)
LEMMA PowersAre ==
  ASSUME NEW b \in Nat \ {0}, NEW n \in Nat, NEW f, Powers(f, b, n)
  PROVE  \A i \in 0..n : f[i] \in Nat \ {0} /\ f[i] = Coercion!Power(b, i)
<1>1. \A i \in 0..n : f[i] = IF i = 0 THEN 1 ELSE f[i - 1] * b BY DEF Powers
<1>2. \A i \in 0..n : f[i] \in Nat \ {0}
  <2> DEFINE S == {i \in 0..n : f[i] \in Nat \ {0}}
  <2>1. 0 \in S BY <1>1
  <2>2. ASSUME NEW i \in 1..n, i - 1 \in S PROVE i \in S
    <3>1. i \in 0..n /\ i # 0 /\ f[i - 1] \in Nat \ {0} BY <2>2
    <3>2. f[i] = f[i - 1] * b BY <1>1, <3>1
    <3> QED BY <3>1, <3>2
  <2> HIDE DEF S
  <2>3. \A i \in 0..n : i \in S BY <2>1, <2>2, UpTo, Zenon
  <2> QED BY <2>3 DEF S
<1>3. ASSUME NEW m \in 0..n PROVE f[m] = Coercion!Power(b, m)
  <2> DEFINE Body(c) == c = [i \in 0..m |-> IF i = 0 THEN 1 ELSE c[i - 1] * b]
  <2>1. m \in Nat OBVIOUS
  <2>2. \E c : Body(c) BY <2>1, PowersExist, Zenon DEF Powers
  <2>3. Coercion!Power(b, m) = (CHOOSE c : Body(c))[m] BY ZenonT(60) DEF Coercion!Power
  <2>4. PICK c : Body(c) /\ Coercion!Power(b, m) = c[m] BY <2>2, <2>3, Zenon
  <2>5. \A i \in 0..m : c[i] = IF i = 0 THEN 1 ELSE c[i - 1] * b BY <2>4
  <2> DEFINE S == {i \in 0..m : c[i] = f[i]}
  <2>6. 0 \in S BY <1>1, <2>5
  <2>7. ASSUME NEW i \in 1..m, i - 1 \in S PROVE i \in S
    <3>1. i \in 0..m /\ i \in 0..n /\ i # 0 /\ c[i - 1] = f[i - 1] BY <2>7
    <3> QED BY <1>1, <2>5, <3>1
  <2> HIDE DEF S
  <2>8. \A i \in 0..m : i \in S BY <2>1, <2>6, <2>7, UpTo, Zenon
  <2>9. c[m] = f[m] BY <2>8, <2>1 DEF S
  <2> QED BY <2>4, <2>9
<1> QED BY <1>2, <1>3

(* The laws of powers. *)
LEMMA PowerLaws ==
  ASSUME NEW b \in Nat \ {0}, NEW n \in Nat
  PROVE  /\ Coercion!Power(b, n) \in Nat \ {0}
         /\ Coercion!Power(b, 0) = 1
         /\ Coercion!Power(b, n + 1) = Coercion!Power(b, n) * b
<1>1. n + 1 \in Nat OBVIOUS
<1>2. PICK f : Powers(f, b, n + 1) BY <1>1, PowersExist
<1>3. \A i \in 0..n + 1 : f[i] \in Nat \ {0} /\ f[i] = Coercion!Power(b, i) BY <1>1, <1>2, PowersAre, Zenon
<1>4. 0 \in 0..n + 1 /\ n \in 0..n + 1 /\ n + 1 \in 0..n + 1 /\ n + 1 # 0 /\ (n + 1) - 1 = n OBVIOUS
<1>5. \A i \in 0..n + 1 : f[i] = IF i = 0 THEN 1 ELSE f[i - 1] * b BY <1>2 DEF Powers
<1>6. f[0] = 1 /\ f[n + 1] = f[n] * b BY <1>4, <1>5
<1> QED BY <1>3, <1>4, <1>6

(* The width's modulus is twice its half. *)
LEMMA Halves == Half \in Nat \ {0} /\ Modulus \in Nat \ {0} /\ Modulus = 2 * Half
<1>1. W - 1 \in Nat /\ (W - 1) + 1 = W /\ 2 \in Nat \ {0} BY WidthAssumption
<1>2. Half \in Nat \ {0} BY <1>1, PowerLaws DEF Half
<1>3. Coercion!Power(2, (W - 1) + 1) = Coercion!Power(2, W - 1) * 2 BY <1>1, PowerLaws, Zenon
<1>4. Modulus = Half * 2 BY <1>1, <1>3 DEF Modulus, Half
<1> QED BY <1>2, <1>4

(* Division with remainder, and the remainder of a multiple. *)
LEMMA Division ==
  ASSUME NEW m \in Nat \ {0}, NEW x \in Int
  PROVE  /\ x \div m \in Int /\ x % m \in 0..m - 1 /\ x = m * (x \div m) + (x % m)
         /\ (x * m) % m = 0
<1>1. x \div m \in Int /\ x % m \in 0..m - 1 OBVIOUS
<1>2. x = m * (x \div m) + (x % m) OBVIOUS
<1>3. (x * m) % m = 0 OBVIOUS
<1> QED BY <1>1, <1>2, <1>3

\* a and b agree in their last W bits.
Congruent(a, b) == \E q \in Int : a = b + q * Modulus
Fitting == -Half..Half - 1

(* Wrapping keeps the last W bits and gives an integer that fits. *)
LEMMA WrappedFits ==
  ASSUME NEW x \in Int
  PROVE  Coercion!Wrapped(x) \in Fitting /\ Congruent(Coercion!Wrapped(x), x)
<1> DEFINE y == x + Half
           q == y \div Modulus
           r == y % Modulus
<1>1. Half \in Nat \ {0} /\ Modulus \in Nat \ {0} /\ Modulus = 2 * Half BY Halves
<1>2. y \in Int BY <1>1
<1>3. q \in Int /\ r \in 0..Modulus - 1 /\ y = Modulus * q + r
  <2> HIDE DEF y
  <2> QED BY <1>1, <1>2, Division, Zenon
<1>4. Coercion!Wrapped(x) = r - Half BY DEF Coercion!Wrapped, Modulus, Half
<1> HIDE DEF q, r
<1>5. r - Half \in Fitting BY <1>1, <1>3 DEF Fitting
<1>6. r - Half = x + (-q) * Modulus BY <1>1, <1>3
<1>7. -q \in Int BY <1>3
<1> QED BY <1>4, <1>5, <1>6, <1>7 DEF Congruent

(* Congruence through a step of reading. *)
LEMMA CongruentStep ==
  ASSUME NEW a \in Int, NEW b \in Int, Congruent(a, b), NEW v \in Int, NEW c \in Int, Congruent(c, a * 10 + v)
  PROVE  Congruent(c, b * 10 + v)
<1>1. Modulus \in Int BY Halves
<1>2. PICK q \in Int : a = b + q * Modulus BY DEF Congruent
<1>3. PICK r \in Int : c = (a * 10 + v) + r * Modulus BY DEF Congruent
<1>4. c = (b * 10 + v) + (10 * q + r) * Modulus BY <1>1, <1>2, <1>3
<1>5. 10 * q + r \in Int OBVIOUS
<1> QED BY <1>4, <1>5 DEF Congruent

(* Congruence through the sign. *)
LEMMA CongruentMinus ==
  ASSUME NEW a \in Int, NEW b \in Int, Congruent(a, b), NEW c \in Int, Congruent(c, -a)
  PROVE  Congruent(c, -b)
<1>1. Modulus \in Int BY Halves
<1>2. PICK q \in Int : a = b + q * Modulus BY DEF Congruent
<1>3. PICK r \in Int : c = -a + r * Modulus BY DEF Congruent
<1>4. c = -b + (r - q) * Modulus BY <1>1, <1>2, <1>3
<1>5. r - q \in Int OBVIOUS
<1> QED BY <1>4, <1>5 DEF Congruent

(* Of congruent integers that fit there is one. *)
LEMMA CongruentFits ==
  ASSUME NEW a \in Int, NEW b \in Int, Congruent(a, b)
  PROVE  (a - b) % Modulus = 0 /\ (a \in Fitting /\ b \in Fitting => a = b)
<1>1. Half \in Nat \ {0} /\ Modulus \in Nat \ {0} /\ Modulus = 2 * Half BY Halves
<1>2. PICK q \in Int : a = b + q * Modulus BY DEF Congruent
<1>3. a - b = q * Modulus BY <1>1, <1>2
<1>4. (q * Modulus) % Modulus = 0 BY <1>1, Division, Zenon
<1>5. ASSUME a \in Fitting, b \in Fitting PROVE a = b
  <2>1. -Modulus < q * Modulus /\ q * Modulus < Modulus BY <1>1, <1>3, <1>5 DEF Fitting
  <2>2. q < 1
    <3> SUFFICES ASSUME q >= 1 PROVE FALSE OBVIOUS
    <3>1. q * Modulus >= 1 * Modulus BY <1>1
    <3> QED BY <1>1, <2>1, <3>1
  <2>3. q > -1
    <3> SUFFICES ASSUME q <= -1 PROVE FALSE OBVIOUS
    <3>1. q * Modulus <= (-1) * Modulus BY <1>1
    <3> QED BY <1>1, <2>1, <3>1
  <2>4. q = 0 BY <2>2, <2>3
  <2> QED BY <1>1, <1>2, <2>4
<1> QED BY <1>3, <1>4, <1>5

(* A digit has a value; signs and points are no digits. *)
LEMMA DigitValue ==
  /\ \A c : Coercion!IsDigit(c) => Coercion!Value(c) \in Nat
  /\ ~Coercion!IsDigit("-") /\ ~Coercion!IsDigit(".")
<1>1. DOMAIN Coercion!Digits = 1..10 BY DEF Coercion!Digits
<1>2. ASSUME NEW c, Coercion!IsDigit(c) PROVE Coercion!Value(c) \in Nat
  <2>1. \E d \in 1..10 : Coercion!Digits[d] = c BY <1>1, <1>2 DEF Coercion!IsDigit
  <2> DEFINE v == CHOOSE d \in 1..10 : Coercion!Digits[d] = c
  <2>2. v \in 1..10 BY <2>1, Zenon
  <2>3. Coercion!Value(c) = v - 1 BY <1>1, Zenon DEF Coercion!Value
  <2> HIDE DEF v
  <2> QED BY <2>2, <2>3
<1>3. ~Coercion!IsDigit("-") BY <1>1 DEF Coercion!IsDigit, Coercion!Digits
<1>4. ~Coercion!IsDigit(".") BY <1>1 DEF Coercion!IsDigit, Coercion!Digits
<1> QED BY <1>2, <1>3, <1>4

(* A recursive function from 0 over the integers. *)
LEMMA IntRecursion ==
  ASSUME NEW n \in Nat, NEW step \in [(1..n) \X Int -> Int]
  PROVE  \E f : Recursive(f, n, Int, 0, step)
BY Recursion

\* h reads the digits of str exactly.
Horner(h, str) ==
  /\ h \in [0..Len(str) -> Int] /\ h[0] = 0
  /\ \A i \in 1..Len(str) :
       h[i] = IF Coercion!IsDigit(str[i]) THEN h[i - 1] * 10 + Coercion!Value(str[i]) ELSE h[i - 1]

(* The digits of a string can be read. *)
LEMMA HornerExists ==
  ASSUME NEW A, NEW str \in Seq(A)
  PROVE  \E h : Horner(h, str)
<1> DEFINE n == Len(str)
           step == [ss \in (1..n) \X Int |->
                      IF Coercion!IsDigit(str[ss[1]]) THEN ss[2] * 10 + Coercion!Value(str[ss[1]]) ELSE ss[2]]
<1>1. n \in Nat OBVIOUS
<1>2. step \in [(1..n) \X Int -> Int] BY DigitValue
<1>3. \A k \in 1..n, v \in Int :
        step[<<k, v>>] = IF Coercion!IsDigit(str[k]) THEN v * 10 + Coercion!Value(str[k]) ELSE v
  OBVIOUS
<1> HIDE DEF step
<1>4. PICK h : Recursive(h, n, Int, 0, step) BY <1>1, <1>2, IntRecursion, Zenon
<1>5. h \in [0..n -> Int] /\ h[0] = 0 /\ \A k \in 1..n : h[k] = step[<<k, h[k - 1]>>]
  BY <1>4 DEF Recursive
<1>6. \A k \in 1..n : h[k - 1] \in Int BY <1>5
<1>7. Horner(h, str) BY <1>3, <1>5, <1>6 DEF Horner
<1> QED BY <1>7

\* n reads them into W bits.
ReadsInt(n, str) ==
  n = [i \in 0..Len(str) |->
         IF i = 0 THEN 0
         ELSE IF str[i] = "-" THEN n[i - 1]
         ELSE Coercion!Wrapped(n[i - 1] * 10 + Coercion!Value(str[i]))]

\* Digits and signs only.
Signed(str) == \A i \in 1..Len(str) : Coercion!IsDigit(str[i]) \/ str[i] = "-"

(* They can be read so. *)
LEMMA ReadsIntExists ==
  ASSUME NEW A, NEW str \in Seq(A), Signed(str)
  PROVE  \E n : ReadsInt(n, str)
<1> DEFINE l == Len(str)
           step == [ss \in (1..l) \X Int |->
                      IF str[ss[1]] = "-" THEN ss[2]
                      ELSE Coercion!Wrapped(ss[2] * 10 + Coercion!Value(str[ss[1]]))]
<1>1. l \in Nat OBVIOUS
<1>2. \A k \in 1..l, v \in Int :
        (IF str[k] = "-" THEN v ELSE Coercion!Wrapped(v * 10 + Coercion!Value(str[k]))) \in Int
  <2> SUFFICES ASSUME NEW k \in 1..l, NEW v \in Int, str[k] # "-"
               PROVE  Coercion!Wrapped(v * 10 + Coercion!Value(str[k])) \in Int
    OBVIOUS
  <2>1. Coercion!Value(str[k]) \in Nat BY DigitValue DEF Signed
  <2>2. v * 10 + Coercion!Value(str[k]) \in Int BY <2>1
  <2>3. Coercion!Wrapped(v * 10 + Coercion!Value(str[k])) \in Fitting BY <2>2, WrappedFits, Zenon
  <2> QED BY <2>3, Halves DEF Fitting
<1>3. step \in [(1..l) \X Int -> Int] BY <1>2
<1>4. \A k \in 1..l, v \in Int :
        step[<<k, v>>] = IF str[k] = "-" THEN v ELSE Coercion!Wrapped(v * 10 + Coercion!Value(str[k]))
  OBVIOUS
<1> HIDE DEF step
<1>5. PICK n : Recursive(n, l, Int, 0, step) BY <1>1, <1>3, IntRecursion, Zenon
<1>6. n \in [0..l -> Int] /\ n[0] = 0 /\ \A k \in 1..l : n[k] = step[<<k, n[k - 1]>>]
  BY <1>5 DEF Recursive
<1>7. \A k \in 1..l : n[k - 1] \in Int BY <1>6
<1>8. \A i \in 0..l : i = 0 \/ i \in 1..l OBVIOUS
<1>9. \A i \in 0..l : n[i] = IF i = 0 THEN 0 ELSE IF str[i] = "-" THEN n[i - 1]
                             ELSE Coercion!Wrapped(n[i - 1] * 10 + Coercion!Value(str[i]))
  BY <1>4, <1>6, <1>7, <1>8
<1>10. ReadsInt(n, str) BY <1>6, <1>9 DEF ReadsInt
<1> QED BY <1>10

(* An integer is read up to its last W bits. *)
LEMMA Int64Reads ==
  ASSUME NEW A, NEW str \in Seq(A), Signed(str), NEW h, Horner(h, str)
  PROVE  Coercion!Int64(str) \in Fitting /\ Congruent(Coercion!Int64(str), h[Len(str)])
<1> DEFINE l == Len(str)
           Body(c) == c = [i \in 0..Len(str) |->
                             IF i = 0 THEN 0
                             ELSE IF str[i] = "-" THEN c[i - 1]
                             ELSE Coercion!Wrapped(c[i - 1] * 10 + Coercion!Value(str[i]))]
<1>1. l \in Nat OBVIOUS
<1>2. \E c : Body(c) BY ReadsIntExists, Zenon DEF ReadsInt
<1>3. Coercion!Int64(str) = (CHOOSE c : Body(c))[Len(str)] BY ZenonT(60) DEF Coercion!Int64
<1>4. PICK c : Body(c) /\ Coercion!Int64(str) = c[Len(str)] BY <1>2, <1>3, Zenon
<1>5. \A i \in 0..l : c[i] = IF i = 0 THEN 0 ELSE IF str[i] = "-" THEN c[i - 1]
                             ELSE Coercion!Wrapped(c[i - 1] * 10 + Coercion!Value(str[i]))
  BY <1>4
<1> DEFINE S == {i \in 0..l : c[i] \in Fitting /\ Congruent(c[i], h[i])}
<1>6. 0 \in S
  <2>1. c[0] = 0 /\ h[0] = 0 BY <1>1, <1>5 DEF Horner
  <2>2. 0 \in Fitting BY Halves DEF Fitting
  <2>3. 0 = 0 + 0 * Modulus BY Halves
  <2>4. Congruent(0, 0) BY <2>3 DEF Congruent
  <2> QED BY <1>1, <2>1, <2>2, <2>4
<1>7. ASSUME NEW i \in 1..l, i - 1 \in S PROVE i \in S
  <2>1. i \in 0..l /\ i # 0 /\ i - 1 \in 0..l /\ c[i - 1] \in Fitting /\ Congruent(c[i - 1], h[i - 1])
    BY <1>7
  <2>2. c[i - 1] \in Int /\ h[i - 1] \in Int BY <2>1, Halves DEF Fitting, Horner
  <2>3. CASE str[i] = "-"
    <3>1. h[i] = h[i - 1] /\ c[i] = c[i - 1] BY <1>5, <2>1, <2>3, DigitValue DEF Horner
    <3> QED BY <2>1, <3>1
  <2>4. CASE str[i] # "-"
    <3> DEFINE v == Coercion!Value(str[i])
               w == Coercion!Wrapped(c[i - 1] * 10 + v)
    <3>1. Coercion!IsDigit(str[i]) BY <2>4 DEF Signed
    <3>2. v \in Int BY <3>1, DigitValue
    <3>3. h[i] = h[i - 1] * 10 + v /\ c[i] = w BY <1>5, <2>1, <2>4, <3>1 DEF Horner
    <3> HIDE DEF v
    <3>4. c[i - 1] * 10 + v \in Int BY <2>2, <3>2
    <3>5. w \in Fitting /\ Congruent(w, c[i - 1] * 10 + v) BY <3>4, WrappedFits, Zenon
    <3> HIDE DEF w
    <3>6. w \in Int BY <3>5, Halves DEF Fitting
    <3>7. Congruent(w, h[i - 1] * 10 + v) BY <2>1, <2>2, <3>2, <3>5, <3>6, CongruentStep
    <3> QED BY <2>1, <3>3, <3>5, <3>7
  <2> QED BY <2>3, <2>4
<1> HIDE DEF S
<1>8. \A i \in 0..l : i \in S BY <1>1, <1>6, <1>7, UpTo, Zenon
<1>9. l \in S BY <1>1, <1>8
<1> QED BY <1>4, <1>9 DEF S

(* Rounding gives a whole number. *)
LEMMA RoundedInt ==
  ASSUME NEW x \in Int
  PROVE  /\ Coercion!Rounded(x) \in Int
         /\ x < Coercion!Power(2, Precision) => Coercion!Rounded(x) = x
<1> DEFINE bits == {e \in 0..MaxExp - 1 : Coercion!Power(2, Precision + e) <= x}
           u == Coercion!Unit(x)
           r == x % u
           near == Coercion!Nearest(x, u)
<1>1. Precision + MaxExp \in Nat /\ 2 \in Nat \ {0} BY WidthAssumption
<1>2. Coercion!Infinity \in Int BY <1>1, PowerLaws DEF Coercion!Infinity
<1>3. u \in Nat \ {0}
  <2>1. IsFiniteSet(0..MaxExp - 1) BY WidthAssumption, FS_Interval
  <2>2. IsFiniteSet(bits) BY <2>1, FS_Subset
  <2>3. Cardinality(bits) \in Nat BY <2>2, FS_CardinalityType
  <2>4. \A T : Coercion!Cardinality(T) = Cardinality(T) BY Zenon DEF Coercion!Cardinality, Cardinality
  <2>5. u = Coercion!Power(2, Cardinality(bits)) BY <2>4, Zenon DEF Coercion!Unit
  <2> HIDE DEF bits
  <2> QED BY <1>1, <2>3, <2>5, PowerLaws, Zenon
<1> HIDE DEF u
<1>4. r \in Int /\ x - r \in Int /\ (x - r) + u \in Int BY <1>3
<1>5. near = x - r \/ near = (x - r) + u BY Zenon DEF Coercion!Nearest
<1>6. near \in Int BY <1>4, <1>5
<1>7. Coercion!Rounded(x) = IF x < Coercion!Power(2, Precision) THEN x
                            ELSE IF near >= Coercion!Infinity THEN Coercion!Infinity ELSE near
  BY Zenon DEF Coercion!Rounded, u
<1> HIDE DEF near
<1> QED BY <1>2, <1>6, <1>7

\* n reads the digits of str into a float.
ReadsFloat(n, str) ==
  n = [i \in 0..Len(str) |->
         IF i = 0 THEN 0
         ELSE IF str[i] = "-" THEN n[i - 1]
         ELSE Coercion!Rounded(Coercion!Rounded(n[i - 1] * 10) + Coercion!Value(str[i]))]

(* They can be read so. *)
LEMMA ReadsFloatExists ==
  ASSUME NEW A, NEW str \in Seq(A), Signed(str)
  PROVE  \E n : ReadsFloat(n, str)
<1> DEFINE l == Len(str)
           Add(v, k) == Coercion!Rounded(Coercion!Rounded(v * 10) + Coercion!Value(str[k]))
           step == [ss \in (1..l) \X Int |-> IF str[ss[1]] = "-" THEN ss[2] ELSE Add(ss[2], ss[1])]
<1>1. l \in Nat OBVIOUS
<1>2. \A k \in 1..l, v \in Int : (IF str[k] = "-" THEN v ELSE Add(v, k)) \in Int
  <2> SUFFICES ASSUME NEW k \in 1..l, NEW v \in Int, str[k] # "-" PROVE Add(v, k) \in Int
    OBVIOUS
  <2>1. Coercion!Value(str[k]) \in Int BY DigitValue DEF Signed
  <2>2. Coercion!Rounded(v * 10) \in Int BY RoundedInt
  <2>3. Coercion!Rounded(v * 10) + Coercion!Value(str[k]) \in Int BY <2>1, <2>2
  <2> QED BY <2>3, RoundedInt, Zenon
<1> HIDE DEF Add
<1>3. step \in [(1..l) \X Int -> Int] BY <1>2
<1>4. \A k \in 1..l, v \in Int : step[<<k, v>>] = IF str[k] = "-" THEN v ELSE Add(v, k)
  OBVIOUS
<1> HIDE DEF step
<1>5. PICK n : Recursive(n, l, Int, 0, step) BY <1>1, <1>3, IntRecursion, Zenon
<1>6. n \in [0..l -> Int] /\ n[0] = 0 /\ \A k \in 1..l : n[k] = step[<<k, n[k - 1]>>]
  BY <1>5 DEF Recursive
<1>7. \A k \in 1..l : n[k - 1] \in Int BY <1>6
<1>8. \A i \in 0..l : i = 0 \/ i \in 1..l OBVIOUS
<1>9. \A i \in 0..l : n[i] = IF i = 0 THEN 0 ELSE IF str[i] = "-" THEN n[i - 1] ELSE Add(n[i - 1], i)
  BY <1>4, <1>6, <1>7, <1>8
<1>10. ReadsFloat(n, str) BY <1>6, <1>9 DEF ReadsFloat, Add
<1> QED BY <1>10

(* A whole part below 2^Precision is read exactly. *)
LEMMA Float64Reads ==
  ASSUME NEW A, NEW str \in Seq(A), Signed(str), NEW h, Horner(h, str),
         h[Len(str)] < Coercion!Power(2, Precision)
  PROVE  Coercion!Float64(str) = h[Len(str)]
<1> DEFINE l == Len(str)
           Q == Coercion!Power(2, Precision)
           Body(c) == c = [i \in 0..Len(str) |->
                             IF i = 0 THEN 0
                             ELSE IF str[i] = "-" THEN c[i - 1]
                             ELSE Coercion!Rounded(Coercion!Rounded(c[i - 1] * 10) + Coercion!Value(str[i]))]
<1>1. l \in Nat OBVIOUS
<1>2. \E c : Body(c) BY ReadsFloatExists, Zenon DEF ReadsFloat
<1>3. Coercion!Float64(str) = (CHOOSE c : Body(c))[Len(str)] BY ZenonT(60) DEF Coercion!Float64
<1>4. PICK c : Body(c) /\ Coercion!Float64(str) = c[Len(str)] BY <1>2, <1>3, Zenon
<1>5. \A i \in 0..l : c[i] = IF i = 0 THEN 0 ELSE IF str[i] = "-" THEN c[i - 1]
                             ELSE Coercion!Rounded(Coercion!Rounded(c[i - 1] * 10) + Coercion!Value(str[i]))
  BY <1>4
<1>6. Q \in Nat
  <2>1. 2 \in Nat \ {0} /\ Precision \in Nat BY WidthAssumption
  <2>2. Q \in Nat \ {0} BY <2>1, PowerLaws, Zenon
  <2> QED BY <2>2
<1> HIDE DEF Q
<1> DEFINE S == {i \in 0..l : h[i] \in Nat /\ (h[i] < Q => c[i] = h[i])}
<1>7. 0 \in S BY <1>1, <1>5 DEF Horner
<1>8. ASSUME NEW i \in 1..l, i - 1 \in S PROVE i \in S
  <2>1. i \in 0..l /\ i # 0 /\ h[i - 1] \in Nat /\ (h[i - 1] < Q => c[i - 1] = h[i - 1]) BY <1>8
  <2>2. CASE str[i] = "-"
    <3>1. h[i] = h[i - 1] /\ c[i] = c[i - 1] BY <1>5, <2>1, <2>2, DigitValue DEF Horner
    <3> QED BY <2>1, <3>1
  <2>3. CASE str[i] # "-"
    <3>1. PICK v : v = Coercion!Value(str[i]) OBVIOUS
    <3>2. Coercion!IsDigit(str[i]) BY <2>3 DEF Signed
    <3>3. v \in Nat BY <3>1, <3>2, DigitValue
    <3>4. h[i] = h[i - 1] * 10 + v /\ c[i] = Coercion!Rounded(Coercion!Rounded(c[i - 1] * 10) + v)
      BY <1>5, <2>1, <2>3, <3>1, <3>2 DEF Horner
    <3>5. PICK x \in Nat : x = h[i - 1] /\ h[i] = x * 10 + v /\ h[i] \in Nat
      <4>1. \A x \in Nat : x * 10 + v \in Nat BY <3>3
      <4> QED BY <2>1, <3>4, <4>1, Zenon
    <3>6. ASSUME h[i] < Q PROVE c[i] = h[i]
      <4>0. x < Q /\ x * 10 < Q /\ x * 10 \in Int
        <5>1. x * 10 + v < Q BY <3>5, <3>6
        <5> QED BY <1>6, <3>3, <5>1
      <4>1. h[i - 1] < Q /\ h[i - 1] * 10 < Q /\ h[i - 1] * 10 \in Int BY <3>5, <4>0, Zenon
      <4>2. Coercion!Rounded(h[i - 1] * 10) = h[i - 1] * 10 BY <4>1, RoundedInt DEF Q
      <4>3. h[i] \in Int BY <3>5
      <4>4. Coercion!Rounded(h[i]) = h[i] BY <3>6, <4>3, RoundedInt DEF Q
      <4> QED BY <2>1, <3>4, <4>1, <4>2, <4>4, Zenon
    <3> QED BY <2>1, <3>5, <3>6
  <2> QED BY <2>2, <2>3
<1> HIDE DEF S
<1>9. \A i \in 0..l : i \in S BY <1>1, <1>7, <1>8, UpTo, Zenon
<1>10. l \in S BY <1>1, <1>9
<1> QED BY <1>4, <1>10 DEF S, Q

\* The digits of str behind its i-th character.
Behind(str, i) == {j \in i + 1..Len(str) : Coercion!IsDigit(str[j])}

(* A place is worth ten times the next one. *)
LEMMA Places ==
  ASSUME NEW A, NEW str \in Seq(A)
  PROVE  /\ \A i \in 0..Len(str) : Coercion!Place(str, i) \in Nat
         /\ Coercion!Place(str, Len(str)) = 1
         /\ \A i \in 1..Len(str) :
              Coercion!Place(str, i - 1) =
                IF Coercion!IsDigit(str[i]) THEN Coercion!Place(str, i) * 10 ELSE Coercion!Place(str, i)
<1> DEFINE l == Len(str)
           Card(i) == Cardinality(Behind(str, i))
<1>1. l \in Nat OBVIOUS
<1>2. \A i \in 0..l : Coercion!Place(str, i) = Coercion!Power(10, Card(i))
  <2>1. \A T : Coercion!Cardinality(T) = Cardinality(T) BY Zenon DEF Coercion!Cardinality, Cardinality
  <2> QED BY <2>1, Zenon DEF Coercion!Place, Behind
<1>3. \A i \in 0..l : IsFiniteSet(Behind(str, i)) /\ Card(i) \in Nat
  <2> SUFFICES ASSUME NEW i \in 0..l PROVE IsFiniteSet(Behind(str, i)) /\ Card(i) \in Nat OBVIOUS
  <2>1. i + 1 \in Int /\ l \in Int BY <1>1
  <2>2. IsFiniteSet(i + 1..l) BY <2>1, FS_Interval
  <2>3. Behind(str, i) \subseteq i + 1..l BY DEF Behind
  <2>4. IsFiniteSet(Behind(str, i)) BY <2>2, <2>3, FS_Subset
  <2> QED BY <2>4, FS_CardinalityType
<1>4. Card(l) = 0
  <2>1. Behind(str, l) = {} BY <1>1 DEF Behind
  <2> QED BY <2>1, FS_EmptySet
<1>5. \A i \in 1..l : Card(i - 1) = IF Coercion!IsDigit(str[i]) THEN Card(i) + 1 ELSE Card(i)
  <2> SUFFICES ASSUME NEW i \in 1..l
               PROVE  Card(i - 1) = IF Coercion!IsDigit(str[i]) THEN Card(i) + 1 ELSE Card(i)
    OBVIOUS
  <2>1. (i - 1) + 1 = i /\ i \in 0..l /\ i \in Int BY <1>1
  <2>2. \A j \in Int : j \in i..l <=> (j = i \/ j \in i + 1..l) BY <1>1
  <2>3. CASE Coercion!IsDigit(str[i])
    <3>1. Behind(str, i - 1) = Behind(str, i) \union {i}
      <4>1. \A j : j \in Behind(str, i - 1) <=> (j \in i..l /\ Coercion!IsDigit(str[j])) BY <2>1 DEF Behind
      <4> QED BY <2>2, <2>3, <4>1 DEF Behind
    <3>2. i \notin Behind(str, i) BY <1>1 DEF Behind
    <3> QED BY <1>3, <2>1, <2>3, <3>1, <3>2, FS_AddElement
  <2>4. CASE ~Coercion!IsDigit(str[i])
    <3>1. Behind(str, i - 1) = Behind(str, i)
      <4>1. \A j : j \in Behind(str, i - 1) <=> (j \in i..l /\ Coercion!IsDigit(str[j])) BY <2>1 DEF Behind
      <4> QED BY <2>2, <2>4, <4>1 DEF Behind
    <3> QED BY <2>4, <3>1
  <2> QED BY <2>3, <2>4
<1> HIDE DEF Card
<1>6. 10 \in Nat \ {0} OBVIOUS
<1>7. \A m \in Nat : /\ Coercion!Power(10, m) \in Nat \ {0} /\ Coercion!Power(10, 0) = 1
                     /\ Coercion!Power(10, m + 1) = Coercion!Power(10, m) * 10
  BY <1>6, PowerLaws, Zenon
<1>8. \A i \in 0..l : Coercion!Place(str, i) \in Nat BY <1>2, <1>3, <1>7
<1>9. Coercion!Place(str, l) = 1
  <2>1. l \in 0..l /\ 0 \in Nat BY <1>1
  <2> QED BY <1>2, <1>4, <1>7, <2>1
<1>10. \A i \in 1..l : Coercion!Place(str, i - 1) =
         IF Coercion!IsDigit(str[i]) THEN Coercion!Place(str, i) * 10 ELSE Coercion!Place(str, i)
  <2>1. \A i \in 1..l : i \in 0..l /\ i - 1 \in 0..l BY <1>1
  <2> QED BY <1>2, <1>3, <1>5, <1>7, <2>1
<1> QED BY <1>8, <1>9, <1>10

\* The digits weighted by their places, up to each position.
Weighted(p, str) ==
  p = [i \in 0..Len(str) |->
         IF i = 0 THEN 0
         ELSE IF Coercion!IsDigit(str[i]) THEN p[i - 1] + Coercion!Value(str[i]) * Coercion!Place(str, i)
         ELSE p[i - 1]]

(* They can be weighted, each position's sum being what was read so far, at its place. *)
LEMMA WeightedReads ==
  ASSUME NEW A, NEW str \in Seq(A), NEW h, Horner(h, str)
  PROVE  /\ \E p : Weighted(p, str)
         /\ \A p : Weighted(p, str) => p[Len(str)] = h[Len(str)]
<1> DEFINE l == Len(str)
           P(i) == Coercion!Place(str, i)
           w == [i \in 0..l |-> h[i] * P(i)]
<1>1. l \in Nat OBVIOUS
<1>2. h \in [0..l -> Int] /\ h[0] = 0 BY DEF Horner
<1>3. \A i \in 0..l : P(i) \in Nat BY Places
<1>4. P(l) = 1 BY Places
<1> HIDE DEF P
<1>5. ASSUME NEW i \in 1..l
      PROVE  h[i] * P(i) = IF Coercion!IsDigit(str[i]) THEN h[i - 1] * P(i - 1) + Coercion!Value(str[i]) * P(i)
                           ELSE h[i - 1] * P(i - 1)
  <2>1. i \in 0..l /\ i - 1 \in 0..l BY <1>1
  <2>2. h[i - 1] \in Int /\ P(i) \in Int BY <1>2, <1>3, <2>1
  <2>3. CASE Coercion!IsDigit(str[i])
    <3> DEFINE v == Coercion!Value(str[i])
    <3>1. v \in Int BY <2>3, DigitValue
    <3>2. h[i] = h[i - 1] * 10 + v BY <2>3 DEF Horner
    <3>3. P(i - 1) = P(i) * 10 BY <2>3, Places DEF P
    <3> HIDE DEF v
    <3>4. \A a, b, c \in Int : (a * 10 + c) * b = a * (b * 10) + c * b OBVIOUS
    <3>5. (h[i - 1] * 10 + v) * P(i) = h[i - 1] * (P(i) * 10) + v * P(i) BY <2>2, <3>1, <3>4
    <3> QED BY <2>3, <3>2, <3>3, <3>5 DEF v
  <2>4. CASE ~Coercion!IsDigit(str[i])
    <3>1. h[i] = h[i - 1] BY <2>4 DEF Horner
    <3>2. P(i - 1) = P(i) BY <2>4, Places DEF P
    <3> QED BY <2>4, <3>1, <3>2
  <2> QED BY <2>3, <2>4
<1>6. \A i \in 0..l : w[i] = h[i] * P(i) OBVIOUS
<1>7. w[0] = 0
  <2>1. 0 \in 0..l /\ P(0) \in Int BY <1>1, <1>3
  <2> QED BY <1>2, <1>6, <2>1
<1>8. \A i \in 1..l : w[i] = IF Coercion!IsDigit(str[i]) THEN w[i - 1] + Coercion!Value(str[i]) * P(i) ELSE w[i - 1]
  <2>1. \A i \in 1..l : w[i] = h[i] * P(i) /\ w[i - 1] = h[i - 1] * P(i - 1) BY <1>1
  <2> HIDE DEF w
  <2> QED BY <1>5, <2>1
<1>9. Weighted(w, str)
  <2>1. \A i \in 0..l : i = 0 \/ i \in 1..l OBVIOUS
  <2>2. DOMAIN w = 0..l /\ w = [i \in 0..l |-> w[i]] OBVIOUS
  <2> HIDE DEF w
  <2>3. \A i \in 0..l : w[i] = IF i = 0 THEN 0
           ELSE IF Coercion!IsDigit(str[i]) THEN w[i - 1] + Coercion!Value(str[i]) * P(i) ELSE w[i - 1]
    BY <1>7, <1>8, <2>1
  <2> QED BY <2>2, <2>3 DEF Weighted, P
<1>10. ASSUME NEW p, Weighted(p, str) PROVE p[l] = h[l]
  <2>1. \A i \in 0..l : p[i] = IF i = 0 THEN 0
           ELSE IF Coercion!IsDigit(str[i]) THEN p[i - 1] + Coercion!Value(str[i]) * P(i) ELSE p[i - 1]
    BY <1>10 DEF Weighted, P
  <2> HIDE DEF w
  <2> DEFINE S == {i \in 0..l : p[i] = w[i]}
  <2>2. 0 \in S BY <1>1, <1>7, <2>1
  <2>3. ASSUME NEW i \in 1..l, i - 1 \in S PROVE i \in S
    <3>1. i \in 0..l /\ i # 0 /\ p[i - 1] = w[i - 1] BY <2>3
    <3> QED BY <1>8, <2>1, <3>1
  <2> HIDE DEF S
  <2>4. \A i \in 0..l : i \in S BY <1>1, <2>2, <2>3, UpTo, Zenon
  <2>5. l \in 0..l /\ h[l] \in Int BY <1>1, <1>2
  <2>6. p[l] = w[l] BY <2>4, <2>5 DEF S
  <2> QED BY <1>4, <1>6, <2>5, <2>6
<1> QED BY <1>9, <1>10

(* The number that a string's digits denote is what reading them gives. *)
LEMMA MagnitudeReads ==
  ASSUME NEW A, NEW str \in Seq(A), NEW h, Horner(h, str)
  PROVE  Coercion!Magnitude(str) = h[Len(str)]
<1> DEFINE Body(c) == c = [i \in 0..Len(str) |->
                             IF i = 0 THEN 0
                             ELSE IF Coercion!IsDigit(str[i])
                                  THEN c[i - 1] + Coercion!Value(str[i]) * Coercion!Place(str, i)
                             ELSE c[i - 1]]
           sum == CHOOSE c : Body(c)
<1>1. \E c : Body(c) BY WeightedReads, Zenon DEF Weighted
<1>2. Coercion!Magnitude(str) = sum[Len(str)] BY ZenonT(60) DEF Coercion!Magnitude
<1>3. Body(sum) BY <1>1, Zenon
<1>4. Weighted(sum, str) BY <1>3, Zenon DEF Weighted
<1> HIDE DEF sum
<1>5. sum[Len(str)] = h[Len(str)] BY <1>4, WeightedReads
<1> QED BY <1>2, <1>5, Zenon

(* With its sign. *)
LEMMA NumberReads ==
  ASSUME NEW A, NEW str \in Seq(A), NEW h, Horner(h, str)
  PROVE  Coercion!Number(str) = IF str[1] = "-" THEN -h[Len(str)] ELSE h[Len(str)]
BY MagnitudeReads, Zenon DEF Coercion!Number

\* What a float numeral with its point at p is converted to.
IsFloatOf(v, str, p) ==
  /\ Len(v.terms) = Len(str) - p
  /\ \A k \in 1..Len(str) - p : v.terms[k] = Coercion!Value(str[p + k])
  /\ Coercion!Magnitude(Coercion!Before(str, p)) < Coercion!Power(2, Precision) =>
       v.whole = Coercion!Magnitude(Coercion!Before(str, p))

(* What the parsers give, and when. *)
LEMMA Parses ==
  ASSUME NEW A, NEW str \in Seq(A), str # <<>>, NEW h, Horner(h, str)
  PROVE  /\ Coercion!Numeral(str) /\ Coercion!Points(str) = {} =>
              \E v \in Fitting : /\ Coercion!tryParseInt(str) = [kind |-> "int", value |-> v]
                                 /\ Congruent(v, Coercion!Number(str))
         /\ ~(Coercion!Numeral(str) /\ Coercion!Points(str) = {}) => Coercion!tryParseInt(str) = Coercion!NotParsed
         /\ Coercion!Numeral(str) /\ Coercion!Points(str) # {} =>
              LET v == Coercion!tryParseFloat(str)
              IN  /\ v.kind = "float" /\ v.neg = (str[1] = "-")
                  /\ \A p \in Coercion!Points(str) : IsFloatOf(v, str, p)
         /\ ~Coercion!Numeral(str) => Coercion!tryParseFloat(str) = Coercion!NotParsed
<1> DEFINE l == Len(str)
           neg == str[1] = "-"
           pts == Coercion!Points(str)
           n == Coercion!Int64(str)
           v == IF neg THEN Coercion!Wrapped(-n) ELSE n
           f == Coercion!tryParseFloat(str)
<1>1. DOMAIN str = 1..l /\ l \in Nat /\ h[l] \in Int BY DEF Horner
<1>2. Coercion!Number(str) = IF neg THEN -h[l] ELSE h[l] BY NumberReads
<1>3. Coercion!Numeral(str) <=>
        /\ \A i \in 1..l : Coercion!IsDigit(str[i]) \/ str[i] = "." \/ (i = 1 /\ str[i] = "-")
        /\ \A i, j \in pts : i = j
  BY <1>1 DEF Coercion!Numeral
<1>4. pts = {i \in 1..l : str[i] = "."} BY <1>1 DEF Coercion!Points
<1>5. ASSUME Coercion!Numeral(str), pts = {}
      PROVE  /\ v \in Fitting /\ Congruent(v, Coercion!Number(str))
             /\ Coercion!tryParseInt(str) = [kind |-> "int", value |-> v]
  <2>1. \A i \in 1..l : Coercion!IsDigit(str[i]) \/ (i = 1 /\ str[i] = "-") BY <1>3, <1>4, <1>5
  <2>2. Signed(str) BY <2>1 DEF Signed
  <2>3. n \in Fitting /\ Congruent(n, h[l]) BY <2>2, Int64Reads
  <2>4. n \in Int BY <2>3, Halves DEF Fitting
  <2>5. Coercion!tryParseInt(str) = [kind |-> "int", value |-> v]
    <3>1. ~(str = <<>> \/ \E i \in DOMAIN str : ~(str[i] = "-" /\ i = 1) /\ ~Coercion!IsDigit(str[i]))
      BY <1>1, <2>1
    <3> QED BY <3>1, Zenon DEF Coercion!tryParseInt
  <2>6. CASE neg
    <3>1. -n \in Int BY <2>4
    <3>2. Coercion!Wrapped(-n) \in Fitting /\ Congruent(Coercion!Wrapped(-n), -n) BY <3>1, WrappedFits
    <3>3. Coercion!Wrapped(-n) \in Int BY <3>2, Halves DEF Fitting
    <3> HIDE DEF n
    <3>4. Congruent(Coercion!Wrapped(-n), -h[l]) BY <1>1, <2>3, <2>4, <3>2, <3>3, CongruentMinus
    <3> QED BY <1>2, <2>5, <2>6, <3>2, <3>4
  <2>7. CASE ~neg BY <1>2, <2>3, <2>5, <2>7
  <2> QED BY <2>6, <2>7
<1>6. ASSUME ~(Coercion!Numeral(str) /\ pts = {}) PROVE Coercion!tryParseInt(str) = Coercion!NotParsed
  <2>1. \E i \in 1..l : ~Coercion!IsDigit(str[i]) /\ ~(i = 1 /\ str[i] = "-")
    <3> SUFFICES ASSUME \A i \in 1..l : Coercion!IsDigit(str[i]) \/ (i = 1 /\ str[i] = "-") PROVE FALSE
      OBVIOUS
    <3>1. \A i \in 1..l : str[i] # "."
      <4>1. \A i \in 1..l : Coercion!IsDigit(str[i]) \/ str[i] = "-" OBVIOUS
      <4> QED BY <4>1, DigitValue
    <3>2. pts = {} BY <1>4, <3>1
    <3>3. Coercion!Numeral(str) BY <1>3, <3>2
    <3> QED BY <1>6, <3>2, <3>3
  <2>2. \E i \in DOMAIN str : ~(str[i] = "-" /\ i = 1) /\ ~Coercion!IsDigit(str[i]) BY <1>1, <2>1
  <2> QED BY <2>2, Zenon DEF Coercion!tryParseInt
<1>7. ASSUME Coercion!Numeral(str), pts # {}
      PROVE  f.kind = "float" /\ f.neg = neg /\ \A p \in pts : IsFloatOf(f, str, p)
  <2>1. ~\E i \in DOMAIN str : ~(str[i] = "-" /\ i = 1) /\ str[i] # "." /\ ~Coercion!IsDigit(str[i])
    BY <1>1, <1>3, <1>7
  <2>2. PICK p : pts = {p} /\ p \in 1..l
    <3>1. PICK i : i \in pts BY <1>7
    <3> QED BY <1>3, <1>4, <1>7, <3>1
  <2>3. ~\A i \in DOMAIN str : pts # {i} BY <1>1, <2>2
  <2>4. p = CHOOSE i \in pts : TRUE BY <2>2
  <2> DEFINE b == Coercion!Before(str, p)
             terms == [k \in 1..l - p |-> Coercion!Value(str[p + k])]
  <2>5. f = [kind |-> "float", neg |-> neg, whole |-> Coercion!Float64(b), terms |-> terms]
    <3>1. \E q : q = CHOOSE i \in pts : TRUE OBVIOUS
    <3> QED BY <2>1, <2>3, <2>4, Zenon DEF Coercion!tryParseFloat
  <2>6. f.kind = "float" /\ f.neg = neg /\ f.whole = Coercion!Float64(b) /\ f.terms = terms
    <3> HIDE DEF b, terms, f, neg
    <3> QED BY <2>5
  <2>7. Len(terms) = l - p /\ \A k \in 1..l - p : terms[k] = Coercion!Value(str[p + k])
    <3>1. l - p \in Nat BY <1>1, <2>2
    <3> QED BY <3>1
  <2>8. /\ b \in Seq(A) /\ Len(b) = p - 1 /\ \A i \in 1..p - 1 : b[i] = str[i]
    BY <1>1, <2>2 DEF Coercion!Before
  <2> HIDE DEF b, terms, f
  <2>9. Signed(b)
    <3> SUFFICES ASSUME NEW i \in 1..p - 1 PROVE Coercion!IsDigit(b[i]) \/ b[i] = "-"
      BY <2>8 DEF Signed
    <3>1. i \in 1..l /\ i # p BY <1>1, <2>2
    <3>2. str[i] # "." BY <1>4, <2>2, <3>1
    <3> QED BY <1>3, <1>7, <2>8, <3>1, <3>2
  <2>10. PICK g : Horner(g, b) BY <2>8, HornerExists
  <2>11. Coercion!Magnitude(b) = g[Len(b)] BY <2>8, <2>10, MagnitudeReads
  <2>12. Coercion!Magnitude(b) < Coercion!Power(2, Precision) => f.whole = Coercion!Magnitude(b)
    BY <2>6, <2>8, <2>9, <2>10, <2>11, Float64Reads
  <2>13. IsFloatOf(f, str, p) BY <2>6, <2>7, <2>12 DEF IsFloatOf, b
  <2> QED BY <2>2, <2>6, <2>13
<1>8. ASSUME ~Coercion!Numeral(str) PROVE Coercion!tryParseFloat(str) = Coercion!NotParsed
  <2> DEFINE bad == \E i \in DOMAIN str : ~(str[i] = "-" /\ i = 1) /\ str[i] # "." /\ ~Coercion!IsDigit(str[i])
  <2>1. bad \/ \A i \in DOMAIN str : pts # {i}
    <3> SUFFICES ASSUME ~bad, NEW k \in DOMAIN str, pts = {k} PROVE FALSE OBVIOUS
    <3>1. \A i, j \in pts : i = j OBVIOUS
    <3> QED BY <1>1, <1>3, <1>8, <3>1
  <2>2. {i \in DOMAIN str : str[i] = "."} = pts BY DEF Coercion!Points
  <2> QED BY <2>1, <2>2, Zenon DEF Coercion!tryParseFloat, Coercion!Points
<1> HIDE DEF v
<1> QED BY <1>5, <1>6, <1>7, <1>8

\* An argument is a string of characters, or one of the two words.
CoercionInv == string \in Seq(Chars \union {"true", "false"})

(* Arguments stay strings, whatever their length (execution/template/engine.go,
   CoerceStringNumbers). *)
THEOREM CoercionInvariant == Coercion!Spec => []CoercionInv
<1>1. Coercion!Init => CoercionInv BY DEF Coercion!Init, CoercionInv
<1>2. CoercionInv /\ [Coercion!Next]_string => CoercionInv'
  <2> SUFFICES ASSUME CoercionInv, [Coercion!Next]_string PROVE CoercionInv'
    OBVIOUS
  <2> DEFINE A == Chars \union {"true", "false"}
  <2>1. ASSUME NEW c \in Chars, Coercion!Write(c) PROVE CoercionInv'
    <3>1. string' = Append(string, c) /\ c \in A /\ string \in Seq(A) BY <2>1 DEF Coercion!Write, CoercionInv
    <3> HIDE DEF A
    <3>2. string' \in Seq(A) BY <3>1
    <3> QED BY <3>2 DEF CoercionInv, A
  <2>2. ASSUME NEW w \in {"true", "false"}, Coercion!Word(w) PROVE CoercionInv'
    <3>1. string' = <<w>> /\ w \in A BY <2>2 DEF Coercion!Word
    <3> HIDE DEF A
    <3>2. string' \in Seq(A) BY <3>1
    <3> QED BY <3>2 DEF CoercionInv, A
  <2>3. CASE UNCHANGED string BY <2>3 DEF CoercionInv
  <2> QED BY <2>1, <2>2, <2>3 DEF Coercion!Next, Coercion!Done
<1> QED BY <1>1, <1>2, PTL DEF Coercion!Spec, Coercion!vars

(* Every string is coerced as written. *)
LEMMA EveryString ==
  ASSUME NEW A, NEW str \in Seq(A)
  PROVE  LET v == Coercion!CoerceStringNumbers(str)
         IN  IF str = <<>> \/ ~Coercion!Numeral(str)
             THEN v.kind = IF str \in {<<"true">>, <<"false">>} THEN "bool" ELSE "string"
             ELSE IF Coercion!Points(str) = {}
                  THEN /\ v.kind = "int"
                       /\ (v.value - Coercion!Number(str)) % Modulus = 0
                       /\ Coercion!Number(str) \in -Half..Half - 1 => v.value = Coercion!Number(str)
                  ELSE /\ v.kind = "float" /\ v.neg = (str[1] = "-")
                       /\ \A p \in Coercion!Points(str) : IsFloatOf(v, str, p)
<1> DEFINE v == Coercion!CoerceStringNumbers(str)
           i == Coercion!tryParseInt(str)
           f == Coercion!tryParseFloat(str)
           b == Coercion!tryParseBool(str)
           none == Coercion!NotParsed
<1>1. v = IF i # none THEN i ELSE IF f # none THEN f ELSE b BY Zenon DEF Coercion!CoerceStringNumbers
<1>2. b.kind = IF str \in {<<"true">>, <<"false">>} THEN "bool" ELSE "string"
  BY DEF Coercion!tryParseBool, Coercion!NotParsed
<1>3. PICK h : Horner(h, str) BY HornerExists
<1>4. CASE str = <<>>
  <2>1. i = none BY <1>4, Zenon DEF Coercion!tryParseInt
  <2>2. f = none BY <1>4, Zenon DEF Coercion!tryParseFloat
  <2>3. v = b BY <1>1, <2>1, <2>2, Zenon
  <2> QED BY <1>2, <1>4, <2>3, Zenon
<1>5. CASE str # <<>> /\ ~Coercion!Numeral(str)
  <2>1. i = none /\ f = none BY <1>3, <1>5, Parses, Zenon
  <2>3. v = b BY <1>1, <2>1, Zenon
  <2> QED BY <1>2, <1>5, <2>3, Zenon
<1>6. CASE str # <<>> /\ Coercion!Numeral(str) /\ Coercion!Points(str) = {}
  <2>1. PICK x \in Fitting : i = [kind |-> "int", value |-> x] /\ Congruent(x, Coercion!Number(str))
    BY <1>3, <1>6, Parses, Zenon
  <2>2. i # none /\ i.kind = "int" /\ i.value = x BY <2>1 DEF Coercion!NotParsed
  <2>3. v = i BY <1>1, <2>2, Zenon
  <2>4. x \in Int BY <2>1, Halves DEF Fitting
  <2>5. Coercion!Number(str) \in Int
    <3>1. h[Len(str)] \in Int BY <1>3 DEF Horner
    <3> QED BY <1>3, <3>1, NumberReads
  <2>6. (x - Coercion!Number(str)) % Modulus = 0 /\ (Coercion!Number(str) \in Fitting => x = Coercion!Number(str))
    BY <2>1, <2>4, <2>5, CongruentFits, Zenon
  <2> QED BY <1>6, <2>2, <2>3, <2>6, Zenon DEF Fitting
<1>7. CASE str # <<>> /\ Coercion!Numeral(str) /\ Coercion!Points(str) # {}
  <2>1. /\ i = none /\ f.kind = "float" /\ f.neg = (str[1] = "-")
        /\ \A p \in Coercion!Points(str) : IsFloatOf(f, str, p)
    BY <1>3, <1>7, Parses, Zenon
  <2>2. f # none BY <2>1 DEF Coercion!NotParsed
  <2>3. v = f BY <1>1, <2>1, <2>2, Zenon
  <2> QED BY <1>7, <2>1, <2>3, Zenon
<1> QED BY <1>4, <1>5, <1>6, <1>7, Zenon

(* A string is converted exactly if it is a decimal numeral or a truth value.  An
   integer becomes the number that its digits denote by their places, up to its last
   W bits; a float has that number as its whole part if it is below 2^Precision, its
   sign, and a term for every digit behind the point (execution/template/engine.go,
   CoerceStringNumbers, tryParseInt, tryParseFloat).  What the terms' sum rounds to
   is not stated. *)
THEOREM AsWritten == Coercion!Spec => []Coercion!CoercedAsWritten
<1>1. CoercionInv => Coercion!CoercedAsWritten
  BY EveryString, Zenon DEF CoercionInv, Coercion!CoercedAsWritten, IsFloatOf, Modulus, Half
<1> QED BY <1>1, CoercionInvariant, PTL

-----------------------------------------------------------------------------
(* The services together: a behaviour of Services is one of each part.       *)

(* Whatever the services do, Emit reaches every subscriber that is registered
   throughout, once and under one ID (audit/emitter.go, Emit). *)
THEOREM HeardInServices == ServicesSpec => []HeardBySubscribed
<1>1. ServicesInit => Emitter!Init BY DEF ServicesInit
<1>2. [ServicesNext]_<<part, vars, emitter, router, capability, vectors, meter, pipeline, string>>
        => [Emitter!Next]_(Emitter!vars)
  BY DEF ServicesNext, emitter, Emitter!vars
<1> QED BY <1>1, <1>2, Heard, PTL DEF ServicesSpec, Emitter!Spec, HeardBySubscribed

(* Whatever the services do, Route gives only what is in service and refuses
   only if nothing in service fits (ai/router/router.go, Route). *)
THEOREM RoutedInServices == ServicesSpec => []RouteInService
<1>1. ServicesInit => Router!Init BY DEF ServicesInit
<1>2. [ServicesNext]_<<part, vars, emitter, router, capability, vectors, meter, pipeline, string>>
        => [Router!Next]_(Router!vars)
  BY DEF ServicesNext, router, Router!vars
<1> QED BY <1>1, <1>2, Routes, PTL DEF ServicesSpec, Router!Spec, RouteInService

(* Whatever the services do, a source finds the capability that it registered
   unless another used its ID (capability/memory_registry.go, Register). *)
THEOREM FoundInServices == ServicesSpec => []SourceFindsItsOwn
<1>1. ServicesInit => Capability!Init BY DEF ServicesInit
<1>2. [ServicesNext]_<<part, vars, emitter, router, capability, vectors, meter, pipeline, string>>
        => [Capability!Next]_(Capability!vars)
  BY DEF ServicesNext, capability, Capability!vars
<1> QED BY <1>1, <1>2, SourceFinds, PTL DEF ServicesSpec, Capability!Spec, SourceFindsItsOwn

(* Whatever the services do, every text gets the vector that the server sent for
   it (ai/providers/providers.go, openAICompatibleEmbed). *)
THEOREM PlacedInServices == ServicesSpec => []VectorsInPlace
<1>1. ServicesInit => Vectors!Init BY DEF ServicesInit
<1>2. [ServicesNext]_<<part, vars, emitter, router, capability, vectors, meter, pipeline, string>>
        => [Vectors!Next]_(Vectors!vars)
  BY DEF ServicesNext, vectors, Vectors!vars
<1> QED BY <1>1, <1>2, InPlace, PTL DEF ServicesSpec, Vectors!Spec, VectorsInPlace

(* Whatever the services do, Retrieve and AssembleContext give the best chunks in
   order (ai/retrieval/pipeline.go). *)
THEOREM BestInServices == ServicesSpec => []BestChunksInContext
<1>1. ServicesInit => Pipeline!Init BY DEF ServicesInit
<1>2. [ServicesNext]_<<part, vars, emitter, router, capability, vectors, meter, pipeline, string>>
        => [Pipeline!Next]_(Pipeline!vars)
  BY DEF ServicesNext, pipeline, Pipeline!vars
<1> QED BY <1>1, <1>2, BestChunks, PTL DEF ServicesSpec, Pipeline!Spec, BestChunksInContext

(* Whatever the services do, a snapshot says what was recorded
   (telemetry/metrics.go, Snapshot). *)
THEOREM TruthfulInServices == ServicesSpec => []SeriesTruthful
<1>1. ServicesInit => Meter!Init BY DEF ServicesInit
<1>2. [ServicesNext]_<<part, vars, emitter, router, capability, vectors, meter, pipeline, string>>
        => [Meter!Next]_(Meter!vars)
  BY DEF ServicesNext, meter, Meter!vars
<1> QED BY <1>1, <1>2, Truthful, PTL DEF ServicesSpec, Meter!Spec, SeriesTruthful

(* Whatever the services do, a string argument is coerced exactly if it is a numeral
   or a truth value, to its value (execution/template/engine.go,
   CoerceStringNumbers). *)
THEOREM CoercedInServices == ServicesSpec => []CoercedAsWritten
<1>1. ServicesSpec => Coercion!Spec
  <2>1. ServicesInit => Coercion!Init BY DEF ServicesInit
  <2>2. [ServicesNext]_<<part, vars, emitter, router, capability, vectors, meter, pipeline, string>>
          => [Coercion!Next]_string
    BY DEF ServicesNext
  <2> QED BY <2>1, <2>2, PTL DEF ServicesSpec, Coercion!Spec, Coercion!vars
<1>2. CoercedAsWritten <=> Coercion!CoercedAsWritten BY DEF CoercedAsWritten
<1> QED BY <1>1, <1>2, AsWritten, PTL
=============================================================================
