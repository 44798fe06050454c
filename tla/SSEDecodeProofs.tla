----------------------------- MODULE SSEDecodeProofs -----------------------------
(*****************************************************************************)
(* Proofs about SSEDecode, for any indices, any number of lines and of deltas*)
(* on a line.  OpenAIInv says that the accumulator holds, for every index    *)
(* seen, the call that the lines so far describe, below toolCallCount;       *)
(* AnthropicInv says the same of the blocks started, in the order of         *)
(* toolOrder, and that what was sent last is complete while no block is open.*)
(*****************************************************************************)
EXTENDS SSEDecode, FiniteSetTheorems, SequenceTheorems, WellFoundedInduction, TLAPS

Fragment == Nat \X Nat
Call == [id: Fragment, args: Seq(Fragment)]

\* f comes behind everything in S.
Behind(f, S) == \A g \in S : NotAfter(g, f) /\ ~NotAfter(f, g)

-----------------------------------------------------------------------------
(* Induction over an interval and definitions by recursion over one.         *)

(* Induction over 0..n, of a set. *)
LEMMA UpTo ==
  ASSUME NEW n \in Nat, NEW S, 0 \in S, \A k \in 1..n : k - 1 \in S => k \in S
  PROVE  \A k \in 0..n : k \in S
<1> DEFINE R == {ss \in Nat \X Nat : ss[1] < ss[2]}
           D == {k \in 0..n : k \notin S}
<1> SUFFICES ASSUME D # {} PROVE FALSE
  OBVIOUS
<1>1. IsWellFoundedOn(R, Nat)
  <2>1. R = OpToRel(<, Nat) BY DEF OpToRel
  <2> QED BY <2>1, NatLessThanWellFounded
<1>2. \A x, y \in Nat : <<y, x>> \in R <=> y < x OBVIOUS
<1>3. D \in SUBSET Nat OBVIOUS
<1> HIDE DEF R
<1>4. PICK m \in D : \A d \in D : ~(<<d, m>> \in R) BY <1>1, <1>3, WFMin
<1>5. m \in 1..n /\ m - 1 \in 0..n /\ m - 1 \in Nat OBVIOUS
<1>6. m - 1 \in S
  <2>1. m - 1 < m /\ m \in Nat BY <1>5
  <2>2. <<m - 1, m>> \in R BY <1>2, <1>5, <2>1
  <2>3. m - 1 \notin D BY <1>4, <2>2
  <2> QED BY <1>5, <2>3
<1> QED BY <1>5, <1>6

\* f is defined over 0..n by its value at 0 and a step.
Recursive(f, n, A, base, step) ==
  f \in [0..n -> A] /\ f[0] = base /\ \A k \in 1..n : f[k] = step[<<k, f[k - 1]>>]

(* There is a function defined by recursion over 0..n. *)
LEMMA Recursion ==
  ASSUME NEW n \in Nat, NEW A, NEW base \in A, NEW step \in [(1..n) \X A -> A]
  PROVE  \E f : Recursive(f, n, A, base, step)
<1> DEFINE P(m, f) == f \in [0..m -> A] /\ f[0] = base /\ \A k \in 1..m : f[k] = step[<<k, f[k - 1]>>]
           S == {m \in 0..n : \E f : P(m, f)}
<1>1. 0 \in S
  <2>1. P(0, [k \in 0..0 |-> base]) OBVIOUS
  <2>2. \E f : P(0, f) BY <2>1
  <2> HIDE DEF P
  <2> QED BY <2>2
<1>2. ASSUME NEW m \in 1..n, m - 1 \in S PROVE m \in S
  <2>1. PICK f : P(m - 1, f) BY <1>2
  <2> DEFINE v == step[<<m, f[m - 1]>>]
             g == [k \in 0..m |-> IF k = m THEN v ELSE f[k]]
  <2>2. m \in Nat /\ m - 1 \in 0..m - 1 /\ f[m - 1] \in A BY <2>1
  <2>3. v \in A BY <2>2
  <2> HIDE DEF v
  <2>4. g \in [0..m -> A] /\ g[0] = base BY <2>1, <2>2, <2>3
  <2>5. g[m] = step[<<m, g[m - 1]>>]
    <3>1. g[m] = v /\ g[m - 1] = f[m - 1] BY <2>2
    <3> QED BY <3>1 DEF v
  <2>6. \A k \in 1..m - 1 : g[k] = f[k] /\ g[k - 1] = f[k - 1] BY <2>2
  <2>7. \A k \in 1..m : k = m \/ k \in 1..m - 1 BY <2>2
  <2>8. P(m, g)
    <3> HIDE DEF g
    <3> QED BY <2>1, <2>4, <2>5, <2>6, <2>7
  <2>9. \E h : P(m, h) BY <2>8
  <2>10. m \in 0..n BY <1>2
  <2> HIDE DEF P
  <2> QED BY <2>9, <2>10
<1> HIDE DEF S
<1>3. n \in S BY <1>1, <1>2, UpTo
<1> QED BY <1>3 DEF S, Recursive

-----------------------------------------------------------------------------
(* Lists of fragments.                                                       *)

(* The place of an element in a finite set is one of as many as there are. *)
LEMMA RankBounds ==
  ASSUME NEW S, IsFiniteSet(S), NEW T \in SUBSET S, T # {}
  PROVE  Cardinality(T) \in 1..Cardinality(S) /\ Cardinality(S) \in Nat
<1>1. IsFiniteSet(T) /\ Cardinality(T) <= Cardinality(S) BY FS_Subset
<1>2. Cardinality(T) \in Nat /\ Cardinality(S) \in Nat BY <1>1, FS_CardinalityType
<1>3. Cardinality(T) # 0 BY <1>1, FS_EmptySet
<1> QED BY <1>1, <1>2, <1>3

\* r is q with x appended, for one more fragment f behind those of S.
Extended(r, q, S, f, x) ==
  /\ Len(r) = Cardinality(S \union {f})
  /\ r[Rank(f, S \union {f})] = x
  /\ \A g \in S : r[Rank(g, S \union {f})] = q[Rank(g, S)]

(* What comes with a fragment behind all others goes to the end of the list. *)
LEMMA AppendExtends ==
  ASSUME NEW S \in SUBSET Fragment, IsFiniteSet(S), NEW V, NEW q \in Seq(V), Len(q) = Cardinality(S),
         NEW f \in Fragment, Behind(f, S), NEW x \in V
  PROVE  Append(q, x) \in Seq(V) /\ Extended(Append(q, x), q, S, f, x) /\ IsFiniteSet(S \union {f})
<1> DEFINE U == S \union {f}
           R(g, T) == {h \in T : NotAfter(h, g)}
<1>1. NotAfter(f, f) BY DEF Fragment, NotAfter
<1>2. f \notin S BY <1>1 DEF Behind
<1>3. /\ IsFiniteSet(U) /\ Cardinality(U) = Cardinality(S) + 1 /\ Cardinality(S) \in Nat
  BY <1>2, FS_AddElement, FS_CardinalityType
<1>4. PICK n \in Nat : n = Len(q) /\ n = Cardinality(S) BY <1>3
<1>5. PICK r : r = Append(q, x) OBVIOUS
<1>a. /\ Append(q, x) \in Seq(V) /\ Len(Append(q, x)) = Len(q) + 1
      /\ \A i \in 1..Len(q) : Append(q, x)[i] = q[i]
      /\ Append(q, x)[Len(q) + 1] = x
  BY AppendProperties
<1>6. r \in Seq(V) /\ Len(r) = n + 1 /\ r[n + 1] = x /\ \A i \in 1..n : r[i] = q[i]
  BY <1>4, <1>5, <1>a
<1>7. R(f, U) = U BY <1>1 DEF Behind
<1>8. ASSUME NEW g \in S PROVE r[Rank(g, U)] = q[Rank(g, S)]
  <2>1. R(g, U) = R(g, S) BY DEF Behind
  <2>2. NotAfter(g, g) BY DEF Fragment, NotAfter
  <2>3. R(g, S) \in SUBSET S /\ R(g, S) # {} BY <2>2
  <2>4. Cardinality(R(g, S)) \in 1..n BY <1>4, <2>3, RankBounds
  <2> QED BY <1>6, <2>1, <2>4 DEF Rank
<1>9. Len(r) = Cardinality(U) BY <1>3, <1>4, <1>6
<1>10. r[Rank(f, U)] = x BY <1>3, <1>4, <1>6, <1>7 DEF Rank
<1>11. Extended(r, q, S, f, x) BY <1>8, <1>9, <1>10 DEF Extended
<1> QED BY <1>3, <1>5, <1>6, <1>11

(* A list of fragments, with one behind all others appended. *)
LEMMA ListsAppend ==
  ASSUME NEW S \in SUBSET Fragment, IsFiniteSet(S), NEW q \in Seq(Fragment), Lists(q, S),
         NEW f \in Fragment, Behind(f, S)
  PROVE  Append(q, f) \in Seq(Fragment) /\ Lists(Append(q, f), S \union {f}) /\ IsFiniteSet(S \union {f})
<1>1. Len(q) = Cardinality(S) BY DEF Lists
<1>2. /\ Append(q, f) \in Seq(Fragment) /\ Extended(Append(q, f), q, S, f, f)
      /\ IsFiniteSet(S \union {f})
  BY <1>1, AppendExtends
<1>3. PICK r : r = Append(q, f) OBVIOUS
<1>4. Lists(r, S \union {f}) BY <1>2, <1>3 DEF Lists, Extended
<1> QED BY <1>2, <1>3, <1>4

(* An empty list. *)
LEMMA ListsEmpty == <<>> \in Seq(Fragment) /\ Lists(<<>>, {}) /\ IsFiniteSet({})
BY FS_EmptySet DEF Lists

-----------------------------------------------------------------------------
(* The loops of the OpenAI reader.                                           *)

(* The loop over the indices gives the calls present, in the order of their
   indices. *)
LEMMA CallsInOrder ==
  ASSUME NEW count \in Nat, NEW acc, DOMAIN acc \in SUBSET (0..count - 1), \A i \in DOMAIN acc : acc[i] \in Call
  PROVE  /\ IsFiniteSet(DOMAIN acc) /\ CallsUpTo(acc, count) \in Seq(Call)
         /\ Len(CallsUpTo(acc, count)) = Cardinality(DOMAIN acc)
         /\ \A i \in DOMAIN acc :
              CallsUpTo(acc, count)[Cardinality({k \in DOMAIN acc : k <= i})] = acc[i]
<1> DEFINE D == DOMAIN acc
           Body(c, n) == IF n = 0 THEN <<>>
                         ELSE IF n - 1 \in D THEN Append(c[n - 1], acc[n - 1]) ELSE c[n - 1]
<1>1. \E c : c = [n \in 0..count |-> Body(c, n)]
  <2> DEFINE step == [p \in (1..count) \X Seq(Call) |->
                        IF p[1] - 1 \in D THEN Append(p[2], acc[p[1] - 1]) ELSE p[2]]
  <2>1. step \in [(1..count) \X Seq(Call) -> Seq(Call)] OBVIOUS
  <2>2. \A k \in 1..count, q \in Seq(Call) :
          step[<<k, q>>] = IF k - 1 \in D THEN Append(q, acc[k - 1]) ELSE q
    OBVIOUS
  <2>3. <<>> \in Seq(Call) OBVIOUS
  <2> HIDE DEF step
  <2>4. PICK c \in [0..count -> Seq(Call)] : c[0] = <<>> /\ \A k \in 1..count : c[k] = step[<<k, c[k - 1]>>]
    <3>1. \E c : Recursive(c, count, Seq(Call), <<>>, step) BY <2>1, <2>3, Recursion
    <3> QED BY <3>1 DEF Recursive
  <2>5. \A k \in 1..count : c[k] = Body(c, k)
    <3> TAKE k \in 1..count
    <3>1. k - 1 \in 0..count /\ k # 0 OBVIOUS
    <3> QED BY <2>2, <2>4, <3>1
  <2>a. c[0] = Body(c, 0) BY <2>4
  <2>b. \A k \in 0..count : k = 0 \/ k \in 1..count OBVIOUS
  <2>6. \A k \in 0..count : c[k] = Body(c, k)
    <3> HIDE DEF Body
    <3> QED BY <2>5, <2>a, <2>b
  <2> HIDE DEF Body
  <2>7. c = [n \in 0..count |-> Body(c, n)] BY <2>4, <2>6
  <2> QED BY <2>7
<1>2. PICK c : c = [n \in 0..count |-> Body(c, n)] /\ CallsUpTo(acc, count) = c[count]
  BY <1>1, Zenon DEF CallsUpTo
<1> DEFINE Below(n) == {i \in D : i < n}
           S == {n \in 0..count : /\ c[n] \in Seq(Call)
                                  /\ IsFiniteSet(Below(n)) /\ Len(c[n]) = Cardinality(Below(n))
                                  /\ \A i \in Below(n) : c[n][Cardinality({k \in D : k <= i})] = acc[i]}
<1>3. 0 \in S
  <2>1. c[0] = <<>> BY <1>2
  <2>2. Below(0) = {} OBVIOUS
  <2>3. IsFiniteSet(Below(0)) /\ Cardinality(Below(0)) = 0 BY <2>2, FS_EmptySet
  <2>4. c[0] \in Seq(Call) /\ Len(c[0]) = 0 BY <2>1
  <2> HIDE DEF Below
  <2> QED BY <2>2, <2>3, <2>4
<1>4. ASSUME NEW n \in 1..count, n - 1 \in S PROVE n \in S
  <2>1. n \in 0..count /\ n - 1 \in 0..count /\ n # 0 OBVIOUS
  <2>2. c[n] = IF n - 1 \in D THEN Append(c[n - 1], acc[n - 1]) ELSE c[n - 1] BY <1>2, <2>1
  <2>3. CASE n - 1 \notin D
    <3>1. Below(n) = Below(n - 1) BY <2>1, <2>3
    <3> QED BY <1>4, <2>1, <2>2, <2>3, <3>1
  <2>4. CASE n - 1 \in D
    <3>1. Below(n) = Below(n - 1) \union {n - 1} /\ n - 1 \notin Below(n - 1) BY <2>1, <2>4
    <3>2. /\ IsFiniteSet(Below(n)) /\ Cardinality(Below(n)) = Cardinality(Below(n - 1)) + 1
          /\ Cardinality(Below(n - 1)) \in Nat
      <4>1. IsFiniteSet(Below(n - 1)) BY <1>4
      <4> HIDE DEF Below
      <4> QED BY <3>1, <4>1, FS_AddElement, FS_CardinalityType
    <3>3. PICK m \in Nat : m = Cardinality(Below(n - 1)) BY <3>2
    <3>4. c[n - 1] \in Seq(Call) /\ Len(c[n - 1]) = m /\ acc[n - 1] \in Call BY <1>4, <2>4, <3>3
    <3>5. /\ c[n] \in Seq(Call) /\ Len(c[n]) = m + 1 /\ c[n][m + 1] = acc[n - 1]
          /\ \A i \in 1..m : c[n][i] = c[n - 1][i]
      BY <2>2, <2>4, <3>4, AppendProperties
    <3>6. {k \in D : k <= n - 1} = Below(n) BY <2>1
    <3>7. ASSUME NEW i \in Below(n - 1) PROVE c[n][Cardinality({k \in D : k <= i})] = acc[i]
      <4>1. {k \in D : k <= i} \in SUBSET Below(n - 1) /\ i \in {k \in D : k <= i} BY <2>1
      <4>2. Cardinality({k \in D : k <= i}) \in 1..m BY <1>4, <3>3, <4>1, RankBounds
      <4> QED BY <1>4, <3>5, <4>2
    <3>8. \A i \in Below(n) : c[n][Cardinality({k \in D : k <= i})] = acc[i]
      BY <3>1, <3>2, <3>3, <3>5, <3>6, <3>7
    <3> QED BY <2>1, <3>2, <3>3, <3>5, <3>8
  <2> QED BY <2>3, <2>4
<1>5. Below(count) = D OBVIOUS
<1> HIDE DEF S
<1>6. count \in S BY <1>3, <1>4, UpTo
<1> QED BY <1>2, <1>5, <1>6 DEF S

Delta(I) == [idx: I, named: BOOLEAN]
Accumulators(I) == UNION {[J -> Call] : J \in SUBSET I}

\* acc has, for the indices in I, the calls whose fragments are D and whose IDs N.
Accumulated(acc, I, D, N) ==
  /\ acc \in Accumulators(I)
  /\ \A i \in I : /\ D[i] \in SUBSET Fragment /\ IsFiniteSet(D[i]) /\ N[i] \in SUBSET D[i]
                  /\ i \in DOMAIN acc <=> D[i] # {}
  /\ \A i \in DOMAIN acc : IsCall(acc[i], D[i], N[i])

\* new is acc with the fragment f added to the call of delta d.
Merged(new, acc, d, f) ==
  /\ DOMAIN new = DOMAIN acc \union {d.idx}
  /\ \A i \in DOMAIN acc \ {d.idx} : new[i] = acc[i]
  /\ LET old == IF d.idx \in DOMAIN acc THEN acc[d.idx] ELSE [id |-> NoFragment, args |-> <<>>]
     IN  /\ old \in Call
         /\ new[d.idx].id = IF d.named THEN f ELSE old.id
         /\ new[d.idx].args = Append(old.args, f)

(* What Merge gives. *)
LEMMA MergeValue ==
  ASSUME NEW I, NEW acc \in Accumulators(I), NEW d \in Delta(I), NEW f \in Fragment
  PROVE  Merge(acc, d, f) \in Accumulators(I) /\ Merged(Merge(acc, d, f), acc, d, f)
<1> DEFINE new == [id |-> NoFragment, args |-> <<>>]
           old == IF d.idx \in DOMAIN acc THEN acc[d.idx] ELSE new
           v == [id |-> IF d.named THEN f ELSE old.id, args |-> Append(old.args, f)]
<1>1. PICK J \in SUBSET I : acc \in [J -> Call] BY DEF Accumulators
<1>2. new \in Call BY DEF Call, Fragment, NoFragment
<1>3. old \in Call BY <1>1, <1>2
<1>4. d.idx \in I /\ d.named \in BOOLEAN BY DEF Delta
<1>5. Merge(acc, d, f) = Extend(acc, d.idx, v) BY DEF Merge
<1> HIDE DEF old
<1>6. old.id \in Fragment /\ old.args \in Seq(Fragment) BY <1>3 DEF Call
<1>7. Append(old.args, f) \in Seq(Fragment) BY <1>6, AppendProperties
<1>8. (IF d.named THEN f ELSE old.id) \in Fragment BY <1>6
<1>9. v \in Call /\ v.id = (IF d.named THEN f ELSE old.id) /\ v.args = Append(old.args, f)
  BY <1>7, <1>8 DEF Call
<1> HIDE DEF v
<1>10. Merge(acc, d, f) = [j \in J \union {d.idx} |-> IF j = d.idx THEN v ELSE acc[j]]
  BY <1>1, <1>5 DEF Extend
<1>11. Merge(acc, d, f) \in [J \union {d.idx} -> Call] BY <1>1, <1>9, <1>10
<1>12. J \union {d.idx} \in SUBSET I BY <1>4
<1>13. Merge(acc, d, f) \in Accumulators(I) BY <1>11, <1>12 DEF Accumulators
<1>14. /\ DOMAIN Merge(acc, d, f) = DOMAIN acc \union {d.idx} /\ Merge(acc, d, f)[d.idx] = v
       /\ \A i \in DOMAIN acc \ {d.idx} : Merge(acc, d, f)[i] = acc[i]
  BY <1>1, <1>10
<1> QED BY <1>3, <1>9, <1>13, <1>14 DEF old, Merged

\* E and M are D and N with the fragment f of the delta d, which is behind all others.
OneMore(I, D, N, d, f, E, M) ==
  \A i \in I :
    /\ Behind(f, D[i])
    /\ E[i] = IF i = d.idx THEN D[i] \union {f} ELSE D[i]
    /\ M[i] = IF i = d.idx /\ d.named THEN N[i] \union {f} ELSE N[i]

(* One delta more, behind all before, is one fragment more for its index. *)
LEMMA MergeStep ==
  ASSUME NEW I, NEW acc, NEW D, NEW N, Accumulated(acc, I, D, N), NEW d \in Delta(I), NEW f \in Fragment,
         NEW E, NEW M, OneMore(I, D, N, d, f, E, M)
  PROVE  Accumulated(Merge(acc, d, f), I, E, M)
<1>a. \A i \in I : /\ Behind(f, D[i])
                   /\ E[i] = IF i = d.idx THEN D[i] \union {f} ELSE D[i]
                   /\ M[i] = IF i = d.idx /\ d.named THEN N[i] \union {f} ELSE N[i]
  BY DEF OneMore
<1> DEFINE i == d.idx
           old == IF i \in DOMAIN acc THEN acc[i] ELSE [id |-> NoFragment, args |-> <<>>]
<1>0. i \in I /\ d.named \in BOOLEAN BY DEF Delta
<1>1. PICK new : new = Merge(acc, d, f) OBVIOUS
<1>2. /\ new \in Accumulators(I) /\ DOMAIN new = DOMAIN acc \union {i}
      /\ \A j \in DOMAIN acc \ {i} : new[j] = acc[j]
      /\ old \in Call /\ new[i].id = (IF d.named THEN f ELSE old.id) /\ new[i].args = Append(old.args, f)
  <2>1. acc \in Accumulators(I) BY DEF Accumulated
  <2>2. new \in Accumulators(I) /\ Merged(new, acc, d, f) BY <1>1, <2>1, MergeValue
  <2> QED BY <2>2 DEF Merged
<1>3. /\ D[i] \in SUBSET Fragment /\ IsFiniteSet(D[i]) /\ N[i] \in SUBSET D[i]
      /\ i \in DOMAIN acc <=> D[i] # {}
  BY <1>0 DEF Accumulated
<1>4. IsCall(old, D[i], N[i])
  <2>1. CASE i \in DOMAIN acc BY <2>1 DEF Accumulated
  <2>2. CASE i \notin DOMAIN acc
    <3>1. old.id = NoFragment /\ old.args = <<>> BY <2>2
    <3>2. D[i] = {} /\ N[i] = {} BY <1>3, <2>2
    <3> QED BY <3>1, <3>2, ListsEmpty DEF IsCall
  <2> QED BY <2>1, <2>2
<1> HIDE DEF old
<1>5. old.args \in Seq(Fragment) BY <1>2 DEF Call
<1>6. Lists(new[i].args, D[i] \union {f}) /\ IsFiniteSet(D[i] \union {f})
  <2>1. Behind(f, D[i]) BY <1>a, <1>0
  <2>2. Lists(old.args, D[i]) BY <1>4 DEF IsCall
  <2> QED BY <1>2, <1>3, <1>5, <2>1, <2>2, ListsAppend
<1>7. IsCall(new[i], E[i], M[i])
  <2>1. E[i] = D[i] \union {f} /\ M[i] = IF d.named THEN N[i] \union {f} ELSE N[i] BY <1>a, <1>0
  <2>2. CASE d.named
    <3>1. M[i] = N[i] \union {f} /\ new[i].id = f BY <1>2, <2>1, <2>2
    <3>2. \A g \in N[i] \union {f} : NotAfter(g, f)
      <4>1. \A g \in N[i] : NotAfter(g, f) BY <1>a, <1>0, <1>3 DEF Behind
      <4>2. NotAfter(f, f) BY DEF NotAfter, Fragment
      <4> QED BY <4>1, <4>2
    <3> QED BY <1>6, <2>1, <3>1, <3>2 DEF IsCall
  <2>3. CASE ~d.named
    <3>1. M[i] = N[i] /\ new[i].id = old.id BY <1>2, <2>1, <2>3
    <3> QED BY <1>4, <1>6, <2>1, <3>1 DEF IsCall
  <2> QED BY <2>2, <2>3
<1>8. \A j \in DOMAIN new : IsCall(new[j], E[j], M[j])
  <2>1. ASSUME NEW j \in DOMAIN new, j # i PROVE IsCall(new[j], E[j], M[j])
    <3>1. j \in DOMAIN acc /\ new[j] = acc[j] BY <1>2, <2>1
    <3>2. j \in I BY <3>1 DEF Accumulated, Accumulators
    <3> QED BY <1>a, <2>1, <3>1, <3>2 DEF Accumulated
  <2> QED BY <1>7, <2>1
<1>9. ASSUME NEW j \in I
      PROVE  /\ E[j] \in SUBSET Fragment /\ IsFiniteSet(E[j]) /\ M[j] \in SUBSET E[j]
             /\ j \in DOMAIN new <=> E[j] # {}
  <2>1. CASE j = i
    <3>1. E[j] = D[i] \union {f} /\ M[j] \in SUBSET (N[i] \union {f}) BY <1>a, <2>1
    <3> QED BY <1>2, <1>3, <1>6, <2>1, <3>1
  <2>2. CASE j # i BY <1>a, <1>2, <2>2 DEF Accumulated
  <2> QED BY <2>1, <2>2
<1> QED BY <1>1, <1>2, <1>8, <1>9 DEF Accumulated

(* Accumulated depends on the sets of the indices in I only. *)
LEMMA AccumulatedSame ==
  ASSUME NEW I, NEW acc, NEW D, NEW N, Accumulated(acc, I, D, N), NEW E, NEW M,
         \A i \in I : E[i] = D[i] /\ M[i] = N[i]
  PROVE  Accumulated(acc, I, E, M)
<1>1. \A i \in DOMAIN acc : i \in I BY DEF Accumulated, Accumulators
<1> QED BY <1>1 DEF Accumulated

\* The places up to m of line l that a delta for index i has, and those that name it.
Places(l, deltas, m, i) == {f \in {l} \X (1..m) : deltas[f[2]].idx = i}
NamingPlaces(l, deltas, m, i) == {f \in Places(l, deltas, m, i) : deltas[f[2]].named}

(* The loop over the deltas of a line adds their fragments. *)
LEMMA MergeAllKeeps ==
  ASSUME NEW I, NEW l \in Nat, l = Line, NEW n \in Nat, NEW deltas, DOMAIN deltas = 1..n, Len(deltas) = n,
         \A x \in 1..n : deltas[x] \in Delta(I),
         NEW D, NEW N, Accumulated(accum, I, D, N), \A i \in I : \A g \in D[i] : g[1] < l,
         NEW E, NEW M,
         \A i \in I : /\ E[i] = D[i] \union Places(l, deltas, n, i)
                     /\ M[i] = N[i] \union NamingPlaces(l, deltas, n, i)
  PROVE  Accumulated(MergeAll(deltas), I, E, M)
<1> DEFINE A == Accumulators(I)
           Body(c, m) == IF m = 0 THEN accum ELSE Merge(c[m - 1], deltas[m], <<l, m>>)
<1>0. \A m \in 1..n : <<l, m>> \in Fragment BY DEF Fragment
<1>1. \E c : c = [m \in 0..n |-> Body(c, m)]
  <2> DEFINE step == [p \in (1..n) \X A |-> Merge(p[2], deltas[p[1]], <<l, p[1]>>)]
  <2>1. \A k \in 1..n, a \in A : Merge(a, deltas[k], <<l, k>>) \in A BY <1>0, MergeValue
  <2>2. step \in [(1..n) \X A -> A]
    <3> HIDE DEF A
    <3>1. \A p \in (1..n) \X A : p[1] \in 1..n /\ p[2] \in A OBVIOUS
    <3> QED BY <2>1, <3>1
  <2>3. \A k \in 1..n, a \in A : step[<<k, a>>] = Merge(a, deltas[k], <<l, k>>)
    <3> HIDE DEF A
    <3> QED OBVIOUS
  <2>4. accum \in A BY DEF Accumulated
  <2> HIDE DEF step, A
  <2>5. PICK c : Recursive(c, n, A, accum, step) BY <2>2, <2>4, Recursion
  <2>6. \A k \in 1..n : c[k] = Merge(c[k - 1], deltas[k], <<l, k>>)
    <3> TAKE k \in 1..n
    <3>1. k - 1 \in 0..n OBVIOUS
    <3>2. c[k - 1] \in A BY <2>5, <3>1 DEF Recursive
    <3> QED BY <2>3, <2>5, <3>2 DEF Recursive
  <2>7. \A m \in 0..n : m = 0 \/ (m \in 1..n /\ m # 0) OBVIOUS
  <2>8. \A m \in 0..n : c[m] = Body(c, m) BY <2>5, <2>6, <2>7 DEF Recursive
  <2>9. c \in [0..n -> A] BY <2>5 DEF Recursive
  <2> HIDE DEF Body
  <2>10. c = [m \in 0..n |-> Body(c, m)] BY <2>8, <2>9
  <2> QED BY <2>10
<1>2. PICK c : c = [m \in 0..n |-> Body(c, m)] /\ MergeAll(deltas) = c[n]
  <2>1. MergeAll(deltas) = (CHOOSE c : c = [m \in 0..n |-> Body(c, m)])[n] BY ZenonT(60) DEF MergeAll
  <2> HIDE DEF Body
  <2> QED BY <1>1, <2>1, Zenon
<1> DEFINE F(m) == [i \in I |-> D[i] \union Places(l, deltas, m, i)]
           G(m) == [i \in I |-> N[i] \union NamingPlaces(l, deltas, m, i)]
           S == {m \in 0..n : Accumulated(c[m], I, F(m), G(m))}
<1>3. 0 \in S
  <2>1. \A i : Places(l, deltas, 0, i) = {} /\ NamingPlaces(l, deltas, 0, i) = {}
    BY DEF Places, NamingPlaces
  <2>2. \A i \in I : F(0)[i] = D[i] /\ G(0)[i] = N[i] BY <2>1
  <2>3. c[0] = accum BY <1>2
  <2> HIDE DEF F, G
  <2>4. Accumulated(c[0], I, F(0), G(0)) BY <2>2, <2>3, AccumulatedSame
  <2> QED BY <2>4
<1>4. ASSUME NEW m \in 1..n, m - 1 \in S PROVE m \in S
  <2>1. m \in 0..n /\ m # 0 OBVIOUS
  <2>2. c[m] = Merge(c[m - 1], deltas[m], <<l, m>>) BY <1>2, <2>1
  <2>3. Accumulated(c[m - 1], I, F(m - 1), G(m - 1)) BY <1>4
  <2>4. ASSUME NEW i \in I PROVE Behind(<<l, m>>, F(m - 1)[i])
    <3>1. \A g \in D[i] : NotAfter(g, <<l, m>>) /\ ~NotAfter(<<l, m>>, g)
      <4> TAKE g \in D[i]
      <4>1. g \in Fragment /\ g[1] < l BY DEF Accumulated
      <4> QED BY <4>1 DEF NotAfter, Fragment
    <3>2. \A g \in Places(l, deltas, m - 1, i) : NotAfter(g, <<l, m>>) /\ ~NotAfter(<<l, m>>, g)
      BY DEF Places, NotAfter
    <3> QED BY <3>1, <3>2 DEF Behind
  <2>5. \A i \in I : /\ F(m)[i] = IF i = deltas[m].idx THEN F(m - 1)[i] \union {<<l, m>>} ELSE F(m - 1)[i]
                     /\ G(m)[i] = IF i = deltas[m].idx /\ deltas[m].named
                                  THEN G(m - 1)[i] \union {<<l, m>>} ELSE G(m - 1)[i]
    <3> TAKE i \in I
    <3>1. /\ Places(l, deltas, m, i) =
               Places(l, deltas, m - 1, i) \union (IF deltas[m].idx = i THEN {<<l, m>>} ELSE {})
          /\ NamingPlaces(l, deltas, m, i) =
               NamingPlaces(l, deltas, m - 1, i) \union
                 (IF deltas[m].idx = i /\ deltas[m].named THEN {<<l, m>>} ELSE {})
      <4>1. \A f : f \in {l} \X (1..m) <=> f \in {l} \X (1..m - 1) \/ f = <<l, m>>
        <5>1. 1..m = 1..m - 1 \union {m} BY <2>1
        <5> QED BY <5>1
      <4>2. <<l, m>>[2] = m OBVIOUS
      <4> QED BY <4>1, <4>2 DEF Places, NamingPlaces
    <3> QED BY <3>1
  <2> HIDE DEF F, G
  <2>6. Accumulated(c[m], I, F(m), G(m))
    <3>1. PICK d \in Delta(I) : d = deltas[m] OBVIOUS
    <3>2. PICK f \in Fragment : f = <<l, m>> BY <1>0
    <3>3. PICK D1, N1, D2, N2 : D1 = F(m - 1) /\ N1 = G(m - 1) /\ D2 = F(m) /\ N2 = G(m) OBVIOUS
    <3>4. Accumulated(c[m - 1], I, D1, N1) /\ \A i \in I : Behind(f, D1[i]) BY <2>3, <2>4, <3>2, <3>3
    <3>5. \A i \in I : /\ D2[i] = IF i = d.idx THEN D1[i] \union {f} ELSE D1[i]
                       /\ N2[i] = IF i = d.idx /\ d.named THEN N1[i] \union {f} ELSE N1[i]
      BY <2>5, <3>1, <3>2, <3>3
    <3>6. OneMore(I, D1, N1, d, f, D2, N2) BY <3>4, <3>5 DEF OneMore
    <3>7. Accumulated(Merge(c[m - 1], d, f), I, D2, N2) BY <3>4, <3>6, MergeStep
    <3> QED BY <2>2, <3>1, <3>2, <3>3, <3>7
  <2> QED BY <2>1, <2>6
<1> HIDE DEF S
<1>5. n \in S BY <1>3, <1>4, UpTo
<1>6. Accumulated(c[n], I, F(n), G(n)) BY <1>5 DEF S
<1>7. \A i \in I : E[i] = F(n)[i] /\ M[i] = G(n)[i] OBVIOUS
<1> HIDE DEF F, G
<1> QED BY <1>2, <1>6, <1>7, AccumulatedSame

(* The count stays above every index seen. *)
LEMMA CountAllBounds ==
  ASSUME toolCallCount \in Nat, DOMAIN accum \in SUBSET (0..toolCallCount - 1),
         NEW n \in Nat, NEW deltas, Len(deltas) = n, \A x \in 1..n : deltas[x].idx \in Nat
  PROVE  /\ CountAll(deltas) \in Nat /\ toolCallCount <= CountAll(deltas)
         /\ \A x \in 1..n : deltas[x].idx < CountAll(deltas)
<1>t. PICK t \in Nat : t = toolCallCount OBVIOUS
<1> DEFINE Body(c, m) == IF m = 0 THEN t ELSE CountWith(c[m - 1], deltas[m])
<1>0. ASSUME NEW m \in 1..n, NEW a \in Nat, t <= a
      PROVE  CountWith(a, deltas[m]) \in Nat /\ a <= CountWith(a, deltas[m]) /\ deltas[m].idx < CountWith(a, deltas[m])
  BY <1>t, <1>0 DEF CountWith
<1>1. \E c : c = [m \in 0..n |-> Body(c, m)]
  <2> DEFINE step == [p \in (1..n) \X Nat |-> CountWith(p[2], deltas[p[1]])]
  <2>1. \A k \in 1..n, a \in Nat : CountWith(a, deltas[k]) \in Nat BY DEF CountWith
  <2>2. step \in [(1..n) \X Nat -> Nat]
    <3>1. \A p \in (1..n) \X Nat : p[1] \in 1..n /\ p[2] \in Nat OBVIOUS
    <3> QED BY <2>1, <3>1
  <2>3. \A k \in 1..n, a \in Nat : step[<<k, a>>] = CountWith(a, deltas[k]) OBVIOUS
  <2> HIDE DEF step
  <2>5. PICK c : Recursive(c, n, Nat, t, step) BY <2>2, Recursion
  <2>6. \A k \in 1..n : c[k] = CountWith(c[k - 1], deltas[k])
    <3> TAKE k \in 1..n
    <3>1. k - 1 \in 0..n OBVIOUS
    <3>2. c[k - 1] \in Nat BY <2>5, <3>1 DEF Recursive
    <3> QED BY <2>3, <2>5, <3>2 DEF Recursive
  <2>7. \A m \in 0..n : m = 0 \/ (m \in 1..n /\ m # 0) OBVIOUS
  <2>8. \A m \in 0..n : c[m] = Body(c, m) BY <2>5, <2>6, <2>7 DEF Recursive
  <2>9. c \in [0..n -> Nat] BY <2>5 DEF Recursive
  <2> HIDE DEF Body
  <2>10. c = [m \in 0..n |-> Body(c, m)] BY <2>8, <2>9
  <2> QED BY <2>10
<1>2. PICK c : c = [m \in 0..n |-> Body(c, m)] /\ CountAll(deltas) = c[n]
  <2>1. CountAll(deltas) = (CHOOSE c : c = [m \in 0..n |-> Body(c, m)])[n] BY <1>t, Zenon DEF CountAll
  <2> HIDE DEF Body
  <2> QED BY <1>1, <2>1, Zenon
<1> DEFINE S == {m \in 0..n : c[m] \in Nat /\ t <= c[m] /\ \A x \in 1..m : deltas[x].idx < c[m]}
<1>3. 0 \in S
  <2>1. c[0] = t BY <1>2
  <2> QED BY <2>1
<1>4. ASSUME NEW m \in 1..n, m - 1 \in S PROVE m \in S
  <2>1. m \in 0..n /\ m # 0 OBVIOUS
  <2>2. c[m] = CountWith(c[m - 1], deltas[m]) BY <1>2, <2>1
  <2>3. c[m] \in Nat /\ c[m - 1] <= c[m] /\ deltas[m].idx < c[m] BY <1>0, <1>4, <2>2
  <2>4. \A x \in 1..m : x = m \/ x \in 1..m - 1 OBVIOUS
  <2>5. \A x \in 1..m - 1 : x \in 1..n /\ deltas[x].idx < c[m - 1] BY <1>4, <2>1
  <2>6. \A x \in 1..m : deltas[x].idx < c[m]
    <3> TAKE x \in 1..m
    <3>1. CASE x \in 1..m - 1
      <4>1. deltas[x].idx \in Nat /\ deltas[x].idx < c[m - 1] /\ c[m - 1] \in Nat BY <1>4, <2>5, <3>1
      <4> QED BY <2>3, <4>1
    <3> QED BY <2>3, <2>4, <3>1
  <2> QED BY <1>4, <2>1, <2>3, <2>6
<1> HIDE DEF S
<1>5. \A m \in 1..n : m - 1 \in S => m \in S BY <1>4
<1>6. n \in S
  <2>1. \A k \in 0..n : k \in S BY <1>3, <1>5, UpTo, Zenon
  <2> QED BY <2>1
<1> QED BY <1>t, <1>2, <1>6 DEF S

-----------------------------------------------------------------------------
(* The OpenAI reader.                                                        *)

Lines(I) ==
  [k: {"skip", "usage", "end", "text"}] \union [k: {"delta"}, deltas: Seq(Delta(I))]
    \union [k: {"start"}, idx: I, tool: BOOLEAN] \union [k: {"json", "stop"}, idx: I]

DeltaSets(I, w) == [i \in I |-> DeltasOf(i, w)]
NameSets(I, w) == [i \in I |-> NamesOf(i, w)]

\* v is the lines w and one more, r.
Longer(v, w, r) ==
  Len(w) \in Nat /\ Len(v) = Len(w) + 1 /\ v[Len(w) + 1] = r /\ \A j \in 1..Len(w) : v[j] = w[j]

(* A line that is scanned is appended. *)
LEMMA AppendLonger ==
  ASSUME NEW W, NEW w \in Seq(W), NEW r \in W
  PROVE  Append(w, r) \in Seq(W) /\ Longer(Append(w, r), w, r)
<1>1. Len(w) \in Nat OBVIOUS
<1> QED BY <1>1, AppendProperties DEF Longer

(* The fragments for an index lie on the lines scanned. *)
LEMMA DeltasOnLines ==
  ASSUME NEW w, Len(w) \in Nat, MaxDeltas \in Nat, NEW i, NEW f \in DeltasOf(i, w)
  PROVE  f \in Fragment /\ f[1] \in 1..Len(w) /\ f[1] < Len(w) + 1
<1>1. f \in (1..Len(w)) \X (1..MaxDeltas) BY DEF DeltasOf
<1> QED BY <1>1 DEF Fragment

(* A line without deltas adds none. *)
LEMMA DeltasOther ==
  ASSUME NEW v, NEW w, NEW r, Longer(v, w, r), r.k # "delta", NEW i
  PROVE  DeltasOf(i, v) = DeltasOf(i, w) /\ NamesOf(i, v) = NamesOf(i, w)
<1>1. PICK n \in Nat : n = Len(w) /\ Len(v) = n + 1 BY DEF Longer
<1>2. \A j \in 1..n + 1 : j \in 1..n \/ j = n + 1 OBVIOUS
<1>3. \A j \in 1..n : j \in 1..n + 1 /\ v[j] = w[j] BY <1>1 DEF Longer
<1>4. v[n + 1] = r BY <1>1 DEF Longer
<1>5. ASSUME NEW f PROVE f \in DeltasOf(i, v) <=> f \in DeltasOf(i, w)
  <2>1. ASSUME f \in DeltasOf(i, v) PROVE f \in DeltasOf(i, w)
    <3>1. /\ f \in (1..n + 1) \X (1..MaxDeltas) /\ v[f[1]].k = "delta"
          /\ f[2] \in DOMAIN v[f[1]].deltas /\ v[f[1]].deltas[f[2]].idx = i
      BY <1>1, <2>1 DEF DeltasOf
    <3>2. f[1] \in 1..n BY <1>2, <1>4, <3>1
    <3>3. f \in (1..n) \X (1..MaxDeltas) BY <3>1, <3>2
    <3> QED BY <1>1, <1>3, <3>1, <3>2, <3>3 DEF DeltasOf
  <2>2. ASSUME f \in DeltasOf(i, w) PROVE f \in DeltasOf(i, v)
    <3>1. /\ f \in (1..n) \X (1..MaxDeltas) /\ w[f[1]].k = "delta"
          /\ f[2] \in DOMAIN w[f[1]].deltas /\ w[f[1]].deltas[f[2]].idx = i
      BY <1>1, <2>2 DEF DeltasOf
    <3>2. f[1] \in 1..n /\ f \in (1..n + 1) \X (1..MaxDeltas) BY <1>3, <3>1
    <3> QED BY <1>1, <1>3, <3>1, <3>2 DEF DeltasOf
  <2> QED BY <2>1, <2>2
<1>6. DeltasOf(i, v) = DeltasOf(i, w) BY <1>5
<1>7. \A f \in DeltasOf(i, w) : f[1] \in 1..n BY <1>1 DEF DeltasOf
<1> QED BY <1>3, <1>6, <1>7 DEF NamesOf

(* A line of deltas adds its places. *)
LEMMA DeltasLine ==
  ASSUME NEW v, NEW w, NEW r, Longer(v, w, r), r.k = "delta", MaxDeltas \in Nat,
         NEW m \in 0..MaxDeltas, DOMAIN r.deltas = 1..m, NEW i
  PROVE  /\ DeltasOf(i, v) = DeltasOf(i, w) \union Places(Len(w) + 1, r.deltas, m, i)
         /\ NamesOf(i, v) = NamesOf(i, w) \union NamingPlaces(Len(w) + 1, r.deltas, m, i)
<1>1. PICK n \in Nat : n = Len(w) /\ Len(v) = n + 1 BY DEF Longer
<1>2. \A j \in 1..n + 1 : j \in 1..n \/ j = n + 1 OBVIOUS
<1>3. \A j \in 1..n : j \in 1..n + 1 /\ v[j] = w[j] BY <1>1 DEF Longer
<1>4. v[n + 1] = r BY <1>1 DEF Longer
<1> DEFINE P == Places(n + 1, r.deltas, m, i)
<1>p. \A f : f \in P <=> f \in {n + 1} \X (1..m) /\ r.deltas[f[2]].idx = i BY DEF Places
<1>5. ASSUME NEW f PROVE f \in DeltasOf(i, v) <=> f \in DeltasOf(i, w) \/ f \in P
  <2>1. ASSUME f \in DeltasOf(i, v) PROVE f \in DeltasOf(i, w) \/ f \in P
    <3>1. /\ f \in (1..n + 1) \X (1..MaxDeltas) /\ v[f[1]].k = "delta"
          /\ f[2] \in DOMAIN v[f[1]].deltas /\ v[f[1]].deltas[f[2]].idx = i
      BY <1>1, <2>1 DEF DeltasOf
    <3>2. CASE f[1] \in 1..n
      <4>1. f \in (1..n) \X (1..MaxDeltas) BY <3>1, <3>2
      <4> QED BY <1>1, <1>3, <3>1, <3>2, <4>1 DEF DeltasOf
    <3>3. CASE f[1] = n + 1
      <4>1. f[2] \in 1..m /\ r.deltas[f[2]].idx = i BY <1>4, <3>1, <3>3
      <4>2. f \in {n + 1} \X (1..m) BY <3>1, <3>3, <4>1
      <4> QED BY <1>p, <4>1, <4>2
    <3> QED BY <1>2, <3>1, <3>2, <3>3
  <2>2. ASSUME f \in DeltasOf(i, w) PROVE f \in DeltasOf(i, v)
    <3>1. /\ f \in (1..n) \X (1..MaxDeltas) /\ w[f[1]].k = "delta"
          /\ f[2] \in DOMAIN w[f[1]].deltas /\ w[f[1]].deltas[f[2]].idx = i
      BY <1>1, <2>2 DEF DeltasOf
    <3>2. f[1] \in 1..n /\ f \in (1..n + 1) \X (1..MaxDeltas) BY <1>3, <3>1
    <3> QED BY <1>1, <1>3, <3>1, <3>2 DEF DeltasOf
  <2>3. ASSUME f \in P PROVE f \in DeltasOf(i, v)
    <3>1. f \in {n + 1} \X (1..m) /\ r.deltas[f[2]].idx = i BY <1>p, <2>3
    <3>2. f[1] = n + 1 /\ f[2] \in 1..m BY <3>1
    <3>3. f \in (1..n + 1) \X (1..MaxDeltas) BY <3>1
    <3> QED BY <1>1, <1>4, <3>1, <3>2, <3>3 DEF DeltasOf
  <2> QED BY <2>1, <2>2, <2>3
<1> HIDE DEF P
<1>6. DeltasOf(i, v) = DeltasOf(i, w) \union P BY <1>5
<1>7. \A f \in DeltasOf(i, w) : f[1] \in 1..n BY <1>1 DEF DeltasOf
<1>8. \A f \in P : f[1] = n + 1 BY <1>p
<1>9. NamesOf(i, v) = NamesOf(i, w) \union {f \in P : r.deltas[f[2]].named}
  BY <1>3, <1>4, <1>6, <1>7, <1>8 DEF NamesOf
<1> QED BY <1>1, <1>6, <1>9 DEF P, NamingPlaces

(* The accumulated calls, sent, are complete. *)
LEMMA OpenAISends ==
  ASSUME NEW I, I = ToolIdx["openai"], NEW count \in Nat, NEW acc, DOMAIN acc \in SUBSET (0..count - 1), NEW w,
         Accumulated(acc, I, DeltaSets(I, w), NameSets(I, w))
  PROVE  /\ OpenAIComplete(CallsUpTo(acc, count), w)
         /\ DOMAIN acc = {} <=> CallsUpTo(acc, count) = <<>>
<1> DEFINE seen == {i \in I : DeltasOf(i, w) # {}}
<1>1. acc \in Accumulators(I) BY DEF Accumulated
<1>2. PICK J \in SUBSET I : acc \in [J -> Call] BY <1>1 DEF Accumulators
<1>3. \A i \in DOMAIN acc : acc[i] \in Call /\ i \in I BY <1>2
<1>4. \A i \in I : DeltaSets(I, w)[i] = DeltasOf(i, w) /\ NameSets(I, w)[i] = NamesOf(i, w)
  BY DEF DeltaSets, NameSets
<1>5. DOMAIN acc = seen BY <1>3, <1>4 DEF Accumulated
<1>6. \A i \in DOMAIN acc : IsCall(acc[i], DeltasOf(i, w), NamesOf(i, w)) BY <1>3, <1>4 DEF Accumulated
<1>7. PICK q : q = CallsUpTo(acc, count) OBVIOUS
<1>8. /\ IsFiniteSet(DOMAIN acc) /\ q \in Seq(Call) /\ Len(q) = Cardinality(DOMAIN acc)
      /\ \A i \in DOMAIN acc : q[Cardinality({k \in DOMAIN acc : k <= i})] = acc[i]
  BY <1>3, <1>7, CallsInOrder
<1> HIDE DEF seen
<1>9. /\ Len(q) = Cardinality(seen)
      /\ \A i \in seen : IsCall(q[Cardinality({k \in seen : k <= i})], DeltasOf(i, w), NamesOf(i, w))
  BY <1>5, <1>6, <1>8
<1>10. DOMAIN acc = {} <=> q = <<>>
  <2>1. DOMAIN acc = {} <=> Cardinality(DOMAIN acc) = 0 BY <1>8, FS_EmptySet
  <2>2. Len(q) = 0 <=> q = <<>> BY <1>8
  <2> QED BY <1>8, <2>1, <2>2
<1> QED BY <1>7, <1>9, <1>10 DEF OpenAIComplete, seen

(* A line without deltas leaves what is complete complete. *)
LEMMA OpenAISame ==
  ASSUME NEW v, NEW w, NEW r, Longer(v, w, r), r.k # "delta", NEW I, NEW tools
  PROVE  /\ DeltaSets(I, v) = DeltaSets(I, w) /\ NameSets(I, v) = NameSets(I, w)
         /\ OpenAIComplete(tools, v) <=> OpenAIComplete(tools, w)
<1>1. \A i : DeltasOf(i, v) = DeltasOf(i, w) /\ NamesOf(i, v) = NamesOf(i, w) BY DeltasOther
<1> QED BY <1>1, Zenon DEF DeltaSets, NameSets, OpenAIComplete

-----------------------------------------------------------------------------
(* The Anthropic reader.                                                     *)

\* What a line adds to the blocks started, the fragments of one, and the indices
\* of a kind.
Adds(v, w, r, f) ==
  /\ Starts(v) = Starts(w) \union (IF r.k = "start" /\ r.tool THEN {f} ELSE {})
  /\ \A i : JSONOf(i, v) = JSONOf(i, w) \union (IF r.k = "json" /\ r.idx = i THEN {f} ELSE {})
  /\ \A k : Indices(k, v) = Indices(k, w) \union (IF r.k = k THEN {r.idx} ELSE {})
  /\ \A g \in Starts(w) : g[1] \in 1..Len(w) /\ v[g[1]] = w[g[1]]

(* A line scanned adds itself. *)
LEMMA BlockLine ==
  ASSUME NEW v, NEW w, NEW r, Longer(v, w, r), NEW f, f = <<Len(w) + 1, 1>>
  PROVE  Adds(v, w, r, f)
<1>1. PICK n \in Nat : n = Len(w) /\ Len(v) = n + 1 BY DEF Longer
<1>2. \A j : j \in 1..n + 1 <=> j \in 1..n \/ j = n + 1 OBVIOUS
<1>3. \A j \in 1..n : v[j] = w[j] BY <1>1 DEF Longer
<1>4. v[n + 1] = r /\ f = <<n + 1, 1>> /\ f[1] = n + 1 BY <1>1 DEF Longer
<1>5. \A g : g \in (1..n + 1) \X {1} <=> g \in (1..n) \X {1} \/ g = f BY <1>2, <1>4
<1>6. \A g \in (1..n) \X {1} : g[1] \in 1..n /\ v[g[1]] = w[g[1]] BY <1>3
<1>7. Starts(v) = Starts(w) \union (IF r.k = "start" /\ r.tool THEN {f} ELSE {})
  BY <1>1, <1>4, <1>5, <1>6 DEF Starts
<1>8. \A i : JSONOf(i, v) = JSONOf(i, w) \union (IF r.k = "json" /\ r.idx = i THEN {f} ELSE {})
  BY <1>1, <1>4, <1>5, <1>6 DEF JSONOf
<1>9. \A k : Indices(k, v) = Indices(k, w) \union (IF r.k = k THEN {r.idx} ELSE {})
  BY <1>1, <1>2, <1>3, <1>4 DEF Indices
<1>10. \A g \in Starts(w) : g[1] \in 1..Len(w) /\ v[g[1]] = w[g[1]] BY <1>1, <1>6 DEF Starts
<1> QED BY <1>7, <1>8, <1>9, <1>10 DEF Adds

(* The indices of a kind grow by the line's, if it is of that kind. *)
LEMMA AddsIndices ==
  ASSUME NEW v, NEW w, NEW r, NEW f, Adds(v, w, r, f), NEW k
  PROVE  Indices(k, v) = (IF r.k = k THEN Indices(k, w) \union {r.idx} ELSE Indices(k, w))
BY Zenon DEF Adds

\* acc and order have the calls of the blocks that the lines w start.
Held(acc, order, w) ==
  /\ acc \in Accumulators(Nat) /\ order \in Seq(Nat)
  /\ IsFiniteSet(Starts(w)) /\ \A i \in Nat : IsFiniteSet(JSONOf(i, w))
  /\ Len(order) = Cardinality(Starts(w))
  /\ \A f \in Starts(w) :
       /\ order[Rank(f, Starts(w))] = w[f[1]].idx /\ w[f[1]].idx \in DOMAIN acc
       /\ IsCall(acc[w[f[1]].idx], JSONOf(w[f[1]].idx, w), {f})

(* The calls held, sent, are complete. *)
LEMMA AnthropicSends ==
  ASSUME NEW acc, NEW order, NEW w, Held(acc, order, w)
  PROVE  AnthropicComplete([j \in 1..Len(order) |-> acc[order[j]]], w)
<1>1. PICK S : S = Starts(w) OBVIOUS
<1>2. PICK n \in Nat : n = Len(order) /\ n = Cardinality(S) BY <1>1 DEF Held
<1>3. PICK q : q = [j \in 1..n |-> acc[order[j]]] OBVIOUS
<1>4. Len(q) = n BY <1>3
<1>5. ASSUME NEW f \in S PROVE IsCall(q[Rank(f, S)], JSONOf(w[f[1]].idx, w), {f})
  <2>1. {g \in S : NotAfter(g, f)} \in SUBSET S /\ f \in {g \in S : NotAfter(g, f)}
    <3>1. NotAfter(f, f)
      <4>1. f \in (1..Len(w)) \X {1} BY <1>1 DEF Starts
      <4> QED BY <4>1 DEF NotAfter
    <3> QED BY <3>1
  <2>2. Rank(f, S) \in 1..n BY <1>1, <1>2, <2>1, RankBounds DEF Held, Rank
  <2>3. q[Rank(f, S)] = acc[w[f[1]].idx] BY <1>1, <1>3, <2>2 DEF Held
  <2> QED BY <1>1, <2>3 DEF Held
<1>6. AnthropicComplete(q, w) BY <1>1, <1>2, <1>4, <1>5 DEF AnthropicComplete
<1> QED BY <1>2, <1>3, <1>6

(* The fragments of a line are behind those of the lines before. *)
LEMMA NewBehind ==
  ASSUME NEW w, Len(w) \in Nat, NEW f, f = <<Len(w) + 1, 1>>
  PROVE  /\ f \in Fragment
         /\ Starts(w) \in SUBSET Fragment /\ Behind(f, Starts(w))
         /\ \A i : JSONOf(i, w) \in SUBSET Fragment /\ Behind(f, JSONOf(i, w))
<1>1. f \in Fragment BY DEF Fragment
<1>2. \A g \in (1..Len(w)) \X {1} : g \in Fragment /\ NotAfter(g, f) /\ ~NotAfter(f, g)
  BY DEF Fragment, NotAfter
<1>3. Starts(w) \subseteq (1..Len(w)) \X {1} /\ \A i : JSONOf(i, w) \subseteq (1..Len(w)) \X {1}
  BY DEF Starts, JSONOf
<1> QED BY <1>1, <1>2, <1>3 DEF Behind

(* A line that neither starts a call nor has a piece of one changes nothing. *)
LEMMA HeldOther ==
  ASSUME NEW acc, NEW order, NEW v, NEW w, NEW r, Longer(v, w, r), ~(r.k = "start" /\ r.tool), r.k # "json",
         NEW tools
  PROVE  /\ Held(acc, order, w) => Held(acc, order, v)
         /\ AnthropicComplete(tools, w) => AnthropicComplete(tools, v)
<1>0. PICK f : f = <<Len(w) + 1, 1>> OBVIOUS
<1>a. Adds(v, w, r, f) BY <1>0, BlockLine
<1>1. Starts(v) = Starts(w) /\ \A i : JSONOf(i, v) = JSONOf(i, w) BY <1>a DEF Adds
<1>2. \A g \in Starts(w) : v[g[1]] = w[g[1]] BY <1>a DEF Adds
<1>3. Held(acc, order, w) => Held(acc, order, v) BY <1>1, <1>2, Zenon DEF Held
<1>4. AnthropicComplete(tools, w) => AnthropicComplete(tools, v) BY <1>1, <1>2 DEF AnthropicComplete
<1> QED BY <1>3, <1>4

(* A call that starts is registered behind the others. *)
LEMMA HeldStart ==
  ASSUME NEW acc, NEW order, NEW v, NEW w, NEW r, Longer(v, w, r), Held(acc, order, w),
         NEW i \in Nat, r.k = "start", r.tool, r.idx = i, i \notin Indices("start", w), i \notin Indices("json", w),
         NEW f, f = <<Len(w) + 1, 1>>
  PROVE  Held(Extend(acc, i, [id |-> f, args |-> <<>>]), Append(order, i), v)
<1> DEFINE call == [id |-> f, args |-> <<>>]
<1>0. Len(w) \in Nat /\ v[Len(w) + 1] = r BY DEF Longer
<1>1. f \in Fragment /\ Starts(w) \in SUBSET Fragment /\ Behind(f, Starts(w)) BY <1>0, NewBehind
<1>2. /\ Starts(v) = Starts(w) \union {f} /\ \A j : JSONOf(j, v) = JSONOf(j, w)
      /\ \A g \in Starts(w) : g[1] \in 1..Len(w) /\ v[g[1]] = w[g[1]]
  <2>1. Adds(v, w, r, f) BY BlockLine
  <2> QED BY <2>1 DEF Adds
<1>3. PICK o : o = Append(order, i) OBVIOUS
<1>4. /\ o \in Seq(Nat) /\ Extended(o, order, Starts(w), f, i) /\ IsFiniteSet(Starts(w) \union {f})
  BY <1>1, <1>3, AppendExtends DEF Held
<1>5. call \in Call /\ call.id = f /\ call.args = <<>> BY <1>1, ListsEmpty DEF Call
<1> HIDE DEF call
<1>6. PICK J \in SUBSET Nat : acc \in [J -> Call] BY DEF Held, Accumulators
<1>7. PICK a : a = Extend(acc, i, call) OBVIOUS
<1>8. a = [j \in J \union {i} |-> IF j = i THEN call ELSE acc[j]] BY <1>6, <1>7 DEF Extend
<1>9. a \in [J \union {i} -> Call] /\ J \union {i} \in SUBSET Nat BY <1>5, <1>6, <1>8
<1>10. a \in Accumulators(Nat) BY <1>9 DEF Accumulators
<1>11. a[i] = call /\ DOMAIN a = DOMAIN acc \union {i} /\ \A j \in DOMAIN acc : j # i => a[j] = acc[j]
  BY <1>6, <1>8
<1>12. \A g \in Starts(w) : w[g[1]].idx # i
  <2>1. \A g \in Starts(w) : g[1] \in 1..Len(w) /\ w[g[1]].k = "start" BY DEF Starts
  <2> QED BY <2>1 DEF Indices
<1>13. JSONOf(i, w) = {}
  <2>1. \A g \in JSONOf(i, w) : g[1] \in 1..Len(w) /\ w[g[1]].k = "json" /\ w[g[1]].idx = i BY DEF JSONOf
  <2> QED BY <2>1 DEF Indices
<1>14. IsCall(call, {}, {f})
  <2>1. NotAfter(f, f) BY <1>1 DEF Fragment, NotAfter
  <2> QED BY <1>5, <2>1, ListsEmpty DEF IsCall
<1>15. ASSUME NEW g \in Starts(v)
       PROVE  /\ o[Rank(g, Starts(v))] = v[g[1]].idx /\ v[g[1]].idx \in DOMAIN a
              /\ IsCall(a[v[g[1]].idx], JSONOf(v[g[1]].idx, v), {g})
  <2>1. CASE g = f
    <3>1. g[1] = Len(w) + 1 BY <2>1
    <3>2. v[g[1]].idx = i BY <1>0, <3>1
    <3>3. o[Rank(f, Starts(v))] = i BY <1>2, <1>4 DEF Extended
    <3>4. IsCall(a[i], JSONOf(i, v), {f}) BY <1>2, <1>11, <1>13, <1>14
    <3> QED BY <1>11, <2>1, <3>2, <3>3, <3>4
  <2>2. CASE g \in Starts(w)
    <3>1. v[g[1]].idx = w[g[1]].idx BY <1>2, <2>2
    <3>2. o[Rank(g, Starts(v))] = order[Rank(g, Starts(w))] BY <1>2, <1>4, <2>2 DEF Extended
    <3>3. /\ order[Rank(g, Starts(w))] = w[g[1]].idx /\ w[g[1]].idx \in DOMAIN acc
          /\ IsCall(acc[w[g[1]].idx], JSONOf(w[g[1]].idx, w), {g})
      BY <2>2 DEF Held
    <3>4. a[w[g[1]].idx] = acc[w[g[1]].idx] BY <1>11, <1>12, <2>2, <3>3
    <3> QED BY <1>2, <1>11, <3>1, <3>2, <3>3, <3>4
  <2> QED BY <1>2, <2>1, <2>2
<1>16. Len(o) = Cardinality(Starts(v)) BY <1>2, <1>4 DEF Extended
<1>17. IsFiniteSet(Starts(v)) /\ \A j \in Nat : IsFiniteSet(JSONOf(j, v)) BY <1>2, <1>4 DEF Held
<1>18. Held(a, o, v) BY <1>4, <1>10, <1>15, <1>16, <1>17 DEF Held
<1> QED BY <1>3, <1>7, <1>18 DEF call

(* A piece of JSON is appended to its call, if that is one. *)
LEMMA HeldJSON ==
  ASSUME NEW acc, NEW order, NEW v, NEW w, NEW r, Longer(v, w, r), Held(acc, order, w),
         NEW i \in Nat, r.k = "json", r.idx = i, NEW f, f = <<Len(w) + 1, 1>>
  PROVE  Held(IF i \in DOMAIN acc THEN [acc EXCEPT ![i].args = Append(@, f)] ELSE acc, order, v)
<1>0. Len(w) \in Nat BY DEF Longer
<1>1. f \in Fragment /\ JSONOf(i, w) \in SUBSET Fragment /\ Behind(f, JSONOf(i, w)) BY <1>0, NewBehind
<1>2. /\ Starts(v) = Starts(w) /\ JSONOf(i, v) = JSONOf(i, w) \union {f}
      /\ \A j : j # i => JSONOf(j, v) = JSONOf(j, w)
      /\ \A g \in Starts(w) : v[g[1]] = w[g[1]]
  <2>1. Adds(v, w, r, f) BY BlockLine
  <2> QED BY <2>1 DEF Adds
<1>3. IsFiniteSet(JSONOf(i, w)) BY DEF Held
<1>4. IsFiniteSet(JSONOf(i, w) \union {f}) BY <1>3, FS_AddElement
<1>5. IsFiniteSet(Starts(v)) /\ \A j \in Nat : IsFiniteSet(JSONOf(j, v)) BY <1>2, <1>4 DEF Held
<1>6. PICK J \in SUBSET Nat : acc \in [J -> Call] BY DEF Held, Accumulators
<1>7. CASE i \notin DOMAIN acc
  <2>1. \A g \in Starts(w) : w[g[1]].idx # i BY <1>7 DEF Held
  <2>2. \A g \in Starts(w) : JSONOf(w[g[1]].idx, v) = JSONOf(w[g[1]].idx, w) BY <1>2, <2>1
  <2>3. Held(acc, order, v) BY <1>2, <1>5, <2>2 DEF Held
  <2> QED BY <1>7, <2>3
<1>8. CASE i \in DOMAIN acc
  <2>1. PICK c \in Call : c = acc[i] BY <1>6, <1>8
  <2>2. PICK b : b = [c EXCEPT !.args = Append(c.args, f)] OBVIOUS
  <2>3. c.args \in Seq(Fragment) /\ c.id \in Fragment BY <2>1 DEF Call
  <2>4. Append(c.args, f) \in Seq(Fragment) BY <1>1, <2>3, AppendProperties
  <2>5. b \in Call /\ b.id = c.id /\ b.args = Append(c.args, f) BY <2>1, <2>2, <2>3, <2>4 DEF Call
  <2>6. PICK a : a = [acc EXCEPT ![i] = b] OBVIOUS
  <2>7. a \in [J -> Call] /\ a[i] = b /\ DOMAIN a = DOMAIN acc /\ \A j \in DOMAIN acc : j # i => a[j] = acc[j]
    BY <1>6, <1>8, <2>5, <2>6
  <2>8. a \in Accumulators(Nat) BY <2>7 DEF Accumulators
  <2>9. ASSUME NEW g \in Starts(w)
        PROVE  IsCall(a[w[g[1]].idx], JSONOf(w[g[1]].idx, v), {g})
    <3>1. w[g[1]].idx \in DOMAIN acc /\ IsCall(acc[w[g[1]].idx], JSONOf(w[g[1]].idx, w), {g}) BY DEF Held
    <3>2. CASE w[g[1]].idx # i BY <1>2, <2>7, <3>1, <3>2
    <3>3. CASE w[g[1]].idx = i
      <4>1. Lists(c.args, JSONOf(i, w)) /\ c.id \in {g} /\ \A h \in {g} : NotAfter(h, c.id)
        BY <2>1, <3>1, <3>3 DEF IsCall
      <4>2. Lists(Append(c.args, f), JSONOf(i, w) \union {f}) BY <1>1, <1>3, <2>3, <4>1, ListsAppend
      <4> QED BY <1>2, <2>5, <2>7, <3>3, <4>1, <4>2 DEF IsCall
    <3> QED BY <3>2, <3>3
  <2>10. Held(a, order, v) BY <1>2, <1>5, <2>7, <2>8, <2>9 DEF Held
  <2>11. a = [acc EXCEPT ![i].args = Append(@, f)] BY <2>1, <2>2, <2>6
  <2> QED BY <1>8, <2>10, <2>11
<1> QED BY <1>7, <1>8

-----------------------------------------------------------------------------
(* The invariant.                                                            *)

OpenAIInv ==
  /\ toolCallCount \in Nat /\ DOMAIN accum \in SUBSET (0..toolCallCount - 1)
  /\ Accumulated(accum, ToolIdx["openai"], DeltaSets(ToolIdx["openai"], wire), NameSets(ToolIdx["openai"], wire))
  /\ OpenAIComplete(kept, wire)
  /\ DOMAIN accum = {} => kept = <<>>

\* Fragments are of blocks that were started; what was kept last is complete
\* when every block has been stopped.
AnthropicInv ==
  /\ Held(accum, toolOrder, wire)
  /\ Indices("stop", wire) \subseteq Indices("start", wire)
  /\ Indices("json", wire) \subseteq Indices("start", wire)
  /\ toolOrder = <<>> => kept = <<>>
  /\ OpenBlocks = {} => AnthropicComplete(kept, wire)

DecodeInv ==
  /\ driver \in Drivers /\ wire \in Seq(Lines(ToolIdx[driver]))
  /\ driver = "openai" => OpenAIInv
  /\ driver = "anthropic" => AnthropicInv
  /\ ToolStateComplete
  /\ KeptStateComplete

(* The readers start in the invariant. *)
LEMMA InitDecode == Init => DecodeInv
<1> SUFFICES ASSUME Init PROVE DecodeInv
  OBVIOUS
<1> DEFINE none == [i \in {} |-> 0]
<1>0. /\ driver \in Drivers /\ wire = <<>> /\ accum = none /\ toolCallCount = 0 /\ toolOrder = <<>>
      /\ chunk.sent = FALSE /\ kept = <<>> /\ ended = FALSE /\ Len(<<>>) = 0
  BY DEF Init, NoChunk
<1>1. none \in [{} -> Call] /\ DOMAIN none = {} OBVIOUS
<1>2. \A I : none \in Accumulators(I)
  <2>1. \A I : {} \in SUBSET I OBVIOUS
  <2> QED BY <1>1, <2>1 DEF Accumulators
<1> HIDE DEF none
<1>3. /\ \A i : DeltasOf(i, <<>>) = {} /\ NamesOf(i, <<>>) = {} /\ JSONOf(i, <<>>) = {}
      /\ Starts(<<>>) = {} /\ \A k : Indices(k, <<>>) = {}
  <2>1. \A S : (1..Len(<<>>)) \X S = {} BY <1>0
  <2> QED BY <1>0, <2>1 DEF DeltasOf, NamesOf, JSONOf, Starts, Indices
<1>4. IsFiniteSet({}) /\ Cardinality({}) = 0 BY FS_EmptySet
<1>5. OpenAIInv
  <2>1. \A I : Accumulated(none, I, DeltaSets(I, <<>>), NameSets(I, <<>>))
    BY <1>1, <1>2, <1>3, <1>4 DEF Accumulated, DeltaSets, NameSets
  <2>2. {i \in ToolIdx["openai"] : DeltasOf(i, <<>>) # {}} = {} BY <1>3
  <2>3. OpenAIComplete(<<>>, <<>>) BY <1>0, <1>4, <2>2 DEF OpenAIComplete
  <2> QED BY <1>0, <1>1, <2>1, <2>3 DEF OpenAIInv
<1>6. AnthropicInv
  <2>1. Held(none, <<>>, <<>>)
    <3>1. none \in Accumulators(Nat) /\ <<>> \in Seq(Nat) BY <1>2
    <3>2. IsFiniteSet(Starts(<<>>)) /\ Len(<<>>) = Cardinality(Starts(<<>>)) BY <1>0, <1>3, <1>4
    <3>3. \A i \in Nat : IsFiniteSet(JSONOf(i, <<>>)) BY <1>3, <1>4
    <3>4. \A f : f \notin Starts(<<>>) BY <1>3
    <3> QED BY <3>1, <3>2, <3>3, <3>4, Zenon DEF Held
  <2>2. AnthropicComplete(<<>>, <<>>) BY <1>0, <1>3, <1>4 DEF AnthropicComplete
  <2> QED BY <1>0, <1>3, <2>1, <2>2 DEF AnthropicInv
<1> QED BY <1>0, <1>5, <1>6 DEF DecodeInv, ToolStateComplete, KeptStateComplete

(* A line of the OpenAI reader without deltas keeps its invariant. *)
LEMMA OpenAIOther ==
  ASSUME OpenAIInv, NEW r, Longer(wire', wire, r), r.k # "delta", UNCHANGED <<accum, toolCallCount, kept>>
  PROVE  OpenAIInv'
<1>1. PICK w, v : w = wire /\ v = wire' OBVIOUS
<1>2. \A I : DeltaSets(I, v) = DeltaSets(I, w) /\ NameSets(I, v) = NameSets(I, w) BY <1>1, OpenAISame
<1>3. \A tools : OpenAIComplete(tools, w) => OpenAIComplete(tools, v) BY <1>1, OpenAISame
<1> QED BY <1>1, <1>2, <1>3 DEF OpenAIInv

(* A line of deltas keeps it, and what is sent is complete. *)
LEMMA OpenAIDeltas ==
  ASSUME OpenAIInv, ToolIdx["openai"] \subseteq Nat, NEW n \in 0..MaxDeltas,
         NEW deltas \in [1..n -> Delta(ToolIdx["openai"])],
         OpenAIChunk(deltas), Longer(wire', wire, [k |-> "delta", deltas |-> deltas])
  PROVE  OpenAIInv' /\ chunk'.tools = kept'
<1> DEFINE r == [k |-> "delta", deltas |-> deltas]
<1>1. PICK I : I = ToolIdx["openai"] OBVIOUS
<1>2. /\ accum' = MergeAll(deltas) /\ toolCallCount' = CountAll(deltas)
      /\ chunk' = [sent |-> TRUE, tools |-> CallsUpTo(accum', toolCallCount')]
      /\ kept' = IF chunk'.tools = <<>> THEN kept ELSE chunk'.tools
  BY DEF OpenAIChunk, Emit
<1>3. /\ toolCallCount \in Nat /\ DOMAIN accum \in SUBSET (0..toolCallCount - 1)
      /\ Accumulated(accum, I, DeltaSets(I, wire), NameSets(I, wire))
  BY <1>1 DEF OpenAIInv
<1>4. PICK l \in Nat : l = Line /\ l = Len(wire) + 1 BY DEF Longer, Line
<1>5. n \in Nat /\ MaxDeltas \in Nat BY DecodeAssumption
<1>6. DOMAIN deltas = 1..n /\ Len(deltas) = n /\ \A x \in 1..n : deltas[x] \in Delta(I) BY <1>1, <1>5
<1>7. \A x \in 1..n : deltas[x].idx \in I /\ deltas[x].idx \in Nat BY <1>1, <1>6 DEF Delta
<1>8. PICK D, N, E, M : /\ D = DeltaSets(I, wire) /\ N = NameSets(I, wire)
                        /\ E = DeltaSets(I, wire') /\ M = NameSets(I, wire')
  OBVIOUS
<1>9. \A i \in I : \A g \in D[i] : g[1] < l
  <2>1. Len(wire) \in Nat BY DEF Longer
  <2>2. \A i \in I : D[i] = DeltasOf(i, wire) BY <1>8 DEF DeltaSets
  <2> QED BY <1>4, <1>5, <2>1, <2>2, DeltasOnLines
<1>10. \A i \in I : /\ E[i] = D[i] \union Places(l, deltas, n, i)
                    /\ M[i] = N[i] \union NamingPlaces(l, deltas, n, i)
  <2> TAKE i \in I
  <2>1. r.k = "delta" /\ r.deltas = deltas /\ DOMAIN r.deltas = 1..n BY <1>6
  <2>2. Longer(wire', wire, r) OBVIOUS
  <2> HIDE DEF r
  <2>3. /\ DeltasOf(i, wire') = DeltasOf(i, wire) \union Places(Len(wire) + 1, r.deltas, n, i)
        /\ NamesOf(i, wire') = NamesOf(i, wire) \union NamingPlaces(Len(wire) + 1, r.deltas, n, i)
    BY <1>5, <2>1, <2>2, DeltasLine, SMTT(30)
  <2> QED BY <1>4, <1>8, <2>1, <2>3 DEF DeltaSets, NameSets
<1>11. Accumulated(accum', I, E, M) BY <1>2, <1>3, <1>4, <1>5, <1>6, <1>8, <1>9, <1>10, MergeAllKeeps, SMTT(40)
<1>12. /\ toolCallCount' \in Nat /\ toolCallCount <= toolCallCount'
       /\ \A x \in 1..n : deltas[x].idx < toolCallCount'
  BY <1>2, <1>3, <1>5, <1>6, <1>7, CountAllBounds
<1>13. DOMAIN accum' \in SUBSET (0..toolCallCount' - 1)
  <2> SUFFICES ASSUME NEW i \in DOMAIN accum' PROVE i \in 0..toolCallCount' - 1
    OBVIOUS
  <2>1. i \in I /\ E[i] # {} BY <1>11 DEF Accumulated, Accumulators
  <2>2. CASE D[i] # {}
    <3>1. i \in DOMAIN accum BY <1>3, <1>8, <2>1, <2>2 DEF Accumulated
    <3> QED BY <1>3, <1>12, <3>1
  <2>3. CASE D[i] = {}
    <3>1. PICK f : f \in Places(l, deltas, n, i) BY <1>10, <2>1, <2>3
    <3>2. f[2] \in 1..n /\ deltas[f[2]].idx = i BY <3>1 DEF Places
    <3> QED BY <1>7, <1>12, <3>2
  <2> QED BY <2>2, <2>3
<1>14. OpenAIComplete(chunk'.tools, wire') /\ (DOMAIN accum' = {} <=> chunk'.tools = <<>>)
  BY <1>1, <1>2, <1>8, <1>11, <1>12, <1>13, OpenAISends
<1>15. DOMAIN accum' = {} => DOMAIN accum = {}
  <2> SUFFICES ASSUME NEW i \in DOMAIN accum PROVE i \in DOMAIN accum'
    OBVIOUS
  <2>1. i \in I /\ D[i] # {} BY <1>3, <1>8 DEF Accumulated, Accumulators
  <2>2. E[i] # {} BY <1>10, <2>1
  <2> QED BY <1>11, <2>1, <2>2 DEF Accumulated
<1>16. kept' = chunk'.tools BY <1>2, <1>14, <1>15 DEF OpenAIInv
<1> QED BY <1>1, <1>2, <1>8, <1>11, <1>12, <1>13, <1>14, <1>16 DEF OpenAIInv

(* buildToolCalls gives nothing only if no call was registered. *)
LEMMA BuildsNothing ==
  ASSUME NEW order \in Seq(Nat), NEW acc, [j \in 1..Len(order) |-> acc[order[j]]] = <<>>
  PROVE  order = <<>>
<1>1. Len(order) \in Nat /\ DOMAIN <<>> = 1..0 OBVIOUS
<1>2. 1..Len(order) = 1..0 BY <1>1
<1> QED BY <1>1, <1>2

(* Every line keeps the invariant of the Anthropic reader, and what is sent for it
   is complete. *)
LEMMA AnthropicStep ==
  ASSUME DecodeInv, driver = "anthropic", NEW I, I = ToolIdx["anthropic"], I \subseteq Nat,
         Skip \/ AnthropicNext, UNCHANGED driver
  PROVE  /\ AnthropicInv' /\ wire' \in Seq(Lines(I))
         /\ chunk'.sent => AnthropicComplete(chunk'.tools, wire')
         /\ ended' => AnthropicComplete(kept', wire')
<1> DEFINE line == Len(wire) + 1
<1>0. /\ Held(accum, toolOrder, wire) /\ wire \in Seq(Lines(I))
      /\ Indices("stop", wire) \subseteq Indices("start", wire)
      /\ Indices("json", wire) \subseteq Indices("start", wire)
      /\ toolOrder = <<>> => kept = <<>>
      /\ OpenBlocks = {} => AnthropicComplete(kept, wire)
  BY DEF DecodeInv, AnthropicInv
<1>1. PICK f : f = <<Len(wire) + 1, 1>> OBVIOUS
<1>2. ASSUME NEW r \in Lines(I), wire' = Append(wire, r)
      PROVE  wire' \in Seq(Lines(I)) /\ Longer(wire', wire, r) /\ Adds(wire', wire, r, f)
  BY <1>0, <1>1, <1>2, AppendLonger, BlockLine
<1>3. ASSUME NEW r \in Lines(I), wire' = Append(wire, r), ~(r.k = "start" /\ r.tool), r.k # "json"
      PROVE  /\ Held(accum, toolOrder, wire')
             /\ \A tools : AnthropicComplete(tools, wire) => AnthropicComplete(tools, wire')
  BY <1>0, <1>2, <1>3, HeldOther
<1>3a. ASSUME NEW r \in Lines(I), wire' = Append(wire, r), NEW k
       PROVE  Indices(k, wire') = (IF r.k = k THEN Indices(k, wire) \union {r.idx} ELSE Indices(k, wire))
  <2>1. PICK v, w : v = wire' /\ w = wire OBVIOUS
  <2>2. Adds(v, w, r, f) BY <1>2, <1>3a, <2>1
  <2> QED BY <2>1, <2>2, AddsIndices
<1>4. BuildToolCalls = [j \in 1..Len(toolOrder) |-> accum[toolOrder[j]]] BY DEF BuildToolCalls
<1>5. CASE Skip
  <2> DEFINE r == [k |-> "skip"]
  <2>1. r \in Lines(I) /\ wire' = Append(wire, r) /\ r.k = "skip" BY <1>5 DEF Skip, Lines
  <2>2. chunk'.sent = FALSE /\ UNCHANGED <<accum, toolOrder, kept, ended>> /\ ~ended
    BY <1>5 DEF Skip, Quiet, NoChunk, Scanning
  <2> HIDE DEF r
  <2>3. \A k \in {"start", "stop", "json"} : Indices(k, wire') = Indices(k, wire) BY <1>3a, <2>1
  <2>4. AnthropicInv' BY <1>0, <1>3, <2>1, <2>2, <2>3 DEF AnthropicInv, OpenBlocks
  <2> QED BY <1>2, <2>1, <2>2, <2>4
<1>6. CASE TextOrMessageDelta
  <2> DEFINE r == [k |-> "text"]
  <2>1. r \in Lines(I) /\ wire' = Append(wire, r) /\ r.k = "text" BY <1>6 DEF TextOrMessageDelta, Lines
  <2>2. /\ chunk'.tools = BuildToolCalls /\ UNCHANGED <<accum, toolOrder, ended>> /\ ~ended
        /\ kept' = IF BuildToolCalls = <<>> THEN kept ELSE BuildToolCalls
    BY <1>6 DEF TextOrMessageDelta, Emit, Scanning
  <2> HIDE DEF r
  <2>3. \A k \in {"start", "stop", "json"} : Indices(k, wire') = Indices(k, wire) BY <1>3a, <2>1
  <2>4. AnthropicComplete(BuildToolCalls, wire') BY <1>3, <1>4, <2>1, AnthropicSends
  <2>5. toolOrder = <<>> => BuildToolCalls = <<>> BY <1>4
  <2>6. BuildToolCalls = <<>> => toolOrder = <<>> BY <1>0, <1>4, BuildsNothing DEF Held
  <2>7. kept' = BuildToolCalls BY <1>0, <2>2, <2>6
  <2>8. AnthropicInv' BY <1>0, <1>3, <2>1, <2>2, <2>3, <2>4, <2>5, <2>7 DEF AnthropicInv, OpenBlocks
  <2> QED BY <1>2, <2>1, <2>2, <2>4, <2>8
<1>7. CASE MessageStop
  <2> DEFINE r == [k |-> "end"]
  <2>1. r \in Lines(I) /\ wire' = Append(wire, r) /\ r.k = "end" BY <1>7 DEF MessageStop, Lines
  <2>2. /\ chunk'.sent = FALSE /\ UNCHANGED <<accum, toolOrder, kept>> /\ OpenBlocks = {}
    BY <1>7 DEF MessageStop, Quiet, NoChunk
  <2> HIDE DEF r
  <2>3. \A k \in {"start", "stop", "json"} : Indices(k, wire') = Indices(k, wire) BY <1>3a, <2>1
  <2>4. AnthropicComplete(kept', wire') BY <1>0, <1>3, <2>1, <2>2
  <2>5. AnthropicInv' BY <1>0, <1>3, <2>1, <2>2, <2>3, <2>4 DEF AnthropicInv, OpenBlocks
  <2> QED BY <1>2, <2>1, <2>2, <2>4, <2>5
<1>8. ASSUME NEW i \in I, JSONDelta(i)
      PROVE  AnthropicInv' /\ wire' \in Seq(Lines(I)) /\ chunk'.sent = FALSE /\ ended' = FALSE
  <2> DEFINE r == [k |-> "json", idx |-> i]
  <2>1. r \in Lines(I) /\ wire' = Append(wire, r) /\ r.k = "json" /\ r.idx = i BY <1>8 DEF JSONDelta, Lines
  <2>2. /\ accum' = (IF i \in DOMAIN accum THEN [accum EXCEPT ![i].args = Append(@, f)] ELSE accum)
        /\ UNCHANGED <<toolOrder, kept>> /\ i \in OpenBlocks /\ chunk'.sent = FALSE /\ ended' = ended
    BY <1>1, <1>8 DEF JSONDelta, Line, Quiet, NoChunk
  <2>3. ended = FALSE BY <1>8 DEF JSONDelta, Scanning
  <2> HIDE DEF r
  <2>4. Held(accum', toolOrder, wire') BY <1>0, <1>1, <1>2, <2>1, <2>2, HeldJSON
  <2>5. /\ Indices("start", wire') = Indices("start", wire) /\ Indices("stop", wire') = Indices("stop", wire)
        /\ Indices("json", wire') = Indices("json", wire) \union {i}
    BY <1>3a, <2>1
  <2>6. i \in Indices("start", wire) /\ i \in OpenBlocks' BY <2>2, <2>5 DEF OpenBlocks
  <2>7. AnthropicInv' BY <1>0, <2>2, <2>4, <2>5, <2>6 DEF AnthropicInv
  <2> QED BY <1>2, <2>1, <2>2, <2>3, <2>7
<1>9. ASSUME NEW i \in I, BlockStop(i)
      PROVE  /\ AnthropicInv' /\ wire' \in Seq(Lines(I)) /\ ended' = FALSE
             /\ chunk'.sent => AnthropicComplete(chunk'.tools, wire')
  <2> DEFINE r == [k |-> "stop", idx |-> i]
  <2>1. r \in Lines(I) /\ wire' = Append(wire, r) /\ r.k = "stop" /\ r.idx = i BY <1>9 DEF BlockStop, Lines
  <2>2. UNCHANGED <<accum, toolOrder>> /\ i \in OpenBlocks /\ ended' = ended BY <1>9 DEF BlockStop
  <2>3. ended = FALSE BY <1>9 DEF BlockStop, Scanning
  <2> HIDE DEF r
  <2>4. /\ Indices("start", wire') = Indices("start", wire) /\ Indices("json", wire') = Indices("json", wire)
        /\ Indices("stop", wire') = Indices("stop", wire) \union {i}
    BY <1>3a, <2>1
  <2>5. AnthropicComplete(BuildToolCalls, wire') BY <1>3, <1>4, <2>1, AnthropicSends
  <2>6. toolOrder = <<>> => BuildToolCalls = <<>> BY <1>4
  <2>7. kept' = BuildToolCalls /\ (chunk'.sent => chunk'.tools = BuildToolCalls)
    <3>1. CASE toolOrder # <<>>
      <4>1. BuildToolCalls # <<>> BY <1>0, <1>4, <3>1, BuildsNothing DEF Held
      <4> QED BY <1>9, <3>1, <4>1 DEF BlockStop, Emit
    <3>2. CASE toolOrder = <<>>
      <4>1. kept' = kept /\ chunk'.sent = FALSE BY <1>9, <3>2 DEF BlockStop, Quiet, NoChunk
      <4> QED BY <1>0, <2>6, <3>2, <4>1
    <3> QED BY <3>1, <3>2
  <2>8. i \in Indices("start", wire) BY <2>2 DEF OpenBlocks
  <2>9. AnthropicInv' BY <1>0, <1>3, <2>1, <2>2, <2>4, <2>5, <2>6, <2>7, <2>8 DEF AnthropicInv
  <2> QED BY <1>2, <2>1, <2>2, <2>3, <2>5, <2>7, <2>9
<1>10. ASSUME NEW i \in I, NEW tool \in BOOLEAN, BlockStart(i, tool)
       PROVE  AnthropicInv' /\ wire' \in Seq(Lines(I)) /\ chunk'.sent = FALSE /\ ended' = FALSE
  <2> DEFINE r == [k |-> "start", idx |-> i, tool |-> tool]
  <2>1. r \in Lines(I) /\ wire' = Append(wire, r) /\ r.k = "start" /\ r.idx = i /\ r.tool = tool
    BY <1>10 DEF BlockStart, Lines
  <2>2. /\ i \notin Indices("start", wire) /\ chunk'.sent = FALSE /\ UNCHANGED <<kept, ended>>
    BY <1>10 DEF BlockStart, Quiet, NoChunk
  <2>3. ended = FALSE BY <1>10 DEF BlockStart, Scanning
  <2> HIDE DEF r
  <2>4. /\ Indices("stop", wire') = Indices("stop", wire) /\ Indices("json", wire') = Indices("json", wire)
        /\ Indices("start", wire') = Indices("start", wire) \union {i}
    BY <1>3a, <2>1
  <2>5. i \notin Indices("stop", wire) /\ i \notin Indices("json", wire) BY <1>0, <2>2
  <2>6. i \in OpenBlocks' BY <2>4, <2>5 DEF OpenBlocks
  <2>7. Held(accum', toolOrder', wire') /\ (toolOrder' = <<>> => kept' = <<>>)
    <3>1. CASE tool
      <4>1. accum' = Extend(accum, i, [id |-> f, args |-> <<>>]) /\ toolOrder' = Append(toolOrder, i)
        BY <1>1, <1>10, <3>1 DEF BlockStart, Line
      <4>2. Held(accum', toolOrder', wire') BY <1>0, <1>1, <1>2, <2>1, <2>2, <2>5, <3>1, <4>1, HeldStart
      <4>3. toolOrder \in Seq(Nat) BY <1>0 DEF Held
      <4>4. toolOrder' # <<>> BY <4>1, <4>3
      <4> QED BY <4>2, <4>4
    <3>2. CASE ~tool
      <4>1. UNCHANGED <<accum, toolOrder>> BY <1>10, <3>2 DEF BlockStart
      <4> QED BY <1>0, <1>3, <2>1, <2>2, <3>2, <4>1
    <3> QED BY <3>1, <3>2
  <2>8. AnthropicInv' BY <1>0, <2>4, <2>6, <2>7 DEF AnthropicInv
  <2> QED BY <1>2, <2>1, <2>2, <2>3, <2>8
<1> HIDE DEF AnthropicInv
<1> QED BY <1>5, <1>6, <1>7, <1>8, <1>9, <1>10 DEF AnthropicNext

(* Every line of a response keeps the invariant. *)
LEMMA DecodeStep == DecodeInv /\ [Next]_vars => DecodeInv'
<1> SUFFICES ASSUME DecodeInv, [Next]_vars PROVE DecodeInv'
  OBVIOUS
<1>1. /\ driver \in Drivers /\ driver \in {"openai", "anthropic"}
      /\ ToolIdx[driver] \subseteq Nat /\ wire \in Seq(Lines(ToolIdx[driver]))
  BY DecodeAssumption DEF DecodeInv
<1>2. CASE UNCHANGED vars
  BY <1>2 DEF vars, DecodeInv, OpenAIInv, AnthropicInv, OpenBlocks, ToolStateComplete, KeptStateComplete, Complete
<1>3. CASE driver = "anthropic" /\ (Skip \/ AnthropicNext)
  <2>1. UNCHANGED driver
    BY <1>3 DEF Skip, AnthropicNext, JSONDelta, BlockStop, BlockStart, TextOrMessageDelta, MessageStop, Quiet, Emit
  <2>2. PICK I : I = ToolIdx["anthropic"] OBVIOUS
  <2>3. I \subseteq Nat BY <1>1, <1>3, <2>2
  <2>4. /\ AnthropicInv' /\ wire' \in Seq(Lines(I))
        /\ chunk'.sent => AnthropicComplete(chunk'.tools, wire')
        /\ ended' => AnthropicComplete(kept', wire')
    BY <1>3, <2>1, <2>2, <2>3, AnthropicStep
  <2>5. driver' = "anthropic" BY <1>3, <2>1
  <2>6. ToolStateComplete' /\ KeptStateComplete' BY <2>4, <2>5 DEF ToolStateComplete, KeptStateComplete, Complete
  <2> HIDE DEF AnthropicInv
  <2> QED BY <1>1, <1>3, <2>1, <2>2, <2>4, <2>5, <2>6 DEF DecodeInv
<1>4. CASE driver = "openai" /\ (Skip \/ OpenAINext)
  <2>1. UNCHANGED driver BY <1>4 DEF Skip, OpenAINext, OpenAIChunk, OpenAIUsage, OpenAIDone, Quiet, Emit
  <2>2. PICK I : I = ToolIdx["openai"] OBVIOUS
  <2>3. I \subseteq Nat /\ wire \in Seq(Lines(I)) /\ OpenAIInv BY <1>1, <1>4, <2>2 DEF DecodeInv
  <2>4. ASSUME NEW r \in Lines(I), wire' = Append(wire, r)
        PROVE  wire' \in Seq(Lines(I)) /\ Longer(wire', wire, r) /\ wire'[Len(wire')] = r
    <3>1. wire' \in Seq(Lines(I)) /\ Longer(wire', wire, r) BY <2>3, <2>4, AppendLonger
    <3> QED BY <3>1 DEF Longer
  <2>5. OpenAIInv' /\ wire' \in Seq(Lines(I)) /\ (chunk'.sent /\ wire'[Len(wire')].k # "usage" => chunk'.tools = kept')
    <3>1. ASSUME NEW r \in Lines(I), wire' = Append(wire, r), r.k # "delta",
                 UNCHANGED <<accum, toolCallCount, kept>>, chunk'.sent => r.k = "usage"
          PROVE  /\ OpenAIInv' /\ wire' \in Seq(Lines(I))
                 /\ chunk'.sent /\ wire'[Len(wire')].k # "usage" => chunk'.tools = kept'
      <4>1. wire' \in Seq(Lines(I)) /\ Longer(wire', wire, r) /\ wire'[Len(wire')] = r BY <2>4, <3>1
      <4>2. OpenAIInv' BY <2>3, <3>1, <4>1, OpenAIOther
      <4> HIDE DEF OpenAIInv
      <4> QED BY <3>1, <4>1, <4>2
    <3>2. CASE Skip
      <4>1. [k |-> "skip"] \in Lines(I) BY DEF Lines
      <4> QED BY <3>1, <3>2, <4>1 DEF Skip, Quiet, NoChunk
    <3>3. CASE OpenAIUsage
      <4>1. [k |-> "usage"] \in Lines(I) BY DEF Lines
      <4>2. kept' = kept BY <3>3 DEF OpenAIUsage, Emit
      <4> QED BY <3>1, <3>3, <4>1, <4>2 DEF OpenAIUsage, Emit
    <3>4. CASE OpenAIDone
      <4>1. [k |-> "end"] \in Lines(I) BY DEF Lines
      <4> QED BY <3>1, <3>4, <4>1 DEF OpenAIDone, Quiet, NoChunk
    <3>5. ASSUME NEW n \in 0..MaxDeltas, NEW deltas \in [1..n -> Deltas], OpenAIChunk(deltas)
          PROVE  OpenAIInv' /\ wire' \in Seq(Lines(I)) /\ chunk'.tools = kept'
      <4>1. deltas \in [1..n -> Delta(I)] BY <1>4, <2>2 DEF Deltas, Delta
      <4>2. n \in Nat BY DecodeAssumption
      <4>3. deltas \in Seq(Delta(I)) BY <4>1, <4>2
      <4>4. [k |-> "delta", deltas |-> deltas] \in Lines(I) BY <4>3 DEF Lines
      <4>5. wire' = Append(wire, [k |-> "delta", deltas |-> deltas]) BY <3>5 DEF OpenAIChunk
      <4>6. wire' \in Seq(Lines(I)) /\ Longer(wire', wire, [k |-> "delta", deltas |-> deltas]) BY <2>4, <4>4, <4>5
      <4> QED BY <2>2, <2>3, <3>5, <4>1, <4>6, OpenAIDeltas
    <3> QED BY <1>4, <3>2, <3>3, <3>4, <3>5 DEF OpenAINext
  <2>6. OpenAIComplete(kept', wire') BY <2>5 DEF OpenAIInv
  <2>8. driver' = "openai" BY <1>4, <2>1
  <2>9. ToolStateComplete' /\ KeptStateComplete'
    BY <2>5, <2>6, <2>8 DEF ToolStateComplete, KeptStateComplete, Complete
  <2> HIDE DEF OpenAIInv
  <2> QED BY <1>1, <1>4, <2>1, <2>2, <2>5, <2>8, <2>9 DEF DecodeInv
<1>5. CASE Stopped BY <1>2, <1>5 DEF Stopped
<1>6. OpenAINext => driver = "openai" BY DEF OpenAINext, OpenAIChunk, OpenAIUsage, OpenAIDone
<1>7. AnthropicNext => driver = "anthropic"
  BY DEF AnthropicNext, JSONDelta, BlockStop, BlockStart, TextOrMessageDelta, MessageStop
<1> QED BY <1>1, <1>2, <1>3, <1>4, <1>5, <1>6, <1>7 DEF Next

(* The inductive invariant of the two readers: after every line the accumulator
   of toolCallAccum, or of toolAccum and toolOrder, holds the calls that the
   lines scanned describe. *)
THEOREM DecodeInvariant == Spec => []DecodeInv
BY InitDecode, DecodeStep, PTL DEF Spec

(* Every chunk that carries tool state carries every call begun, in order, with
   its last ID and all of its argument fragments in order, whatever the indices,
   the number of lines and the number of deltas on a line. *)
THEOREM ToolsComplete == Spec => []ToolStateComplete
<1>1. DecodeInv => ToolStateComplete BY DEF DecodeInv
<1> QED BY <1>1, DecodeInvariant, PTL

(* When the end marker is read, the last tool calls that a chunk brought are all
   of those the lines have begun, also if an OpenAI stream ends with a usage
   chunk, which brings none. *)
THEOREM KeptComplete == Spec => []KeptStateComplete
<1>1. DecodeInv => KeptStateComplete BY DEF DecodeInv
<1> QED BY <1>1, DecodeInvariant, PTL
=============================================================================
