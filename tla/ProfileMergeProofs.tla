--------------------------- MODULE ProfileMergeProofs ---------------------------
(*****************************************************************************)
(* Proofs about ProfileMerge, for every global profile and every tenant and  *)
(* session overlay, of any number of fields: the runs of TLC take overlays   *)
(* of at most two fields.  MergeInv says what each layer has left behind.    *)
(*****************************************************************************)
EXTENDS ProfileMerge, TLAPS

\* The effective profile and the violations after each of Merge's steps.
Base == [f \in Fields |-> IF f \in global THEN "global" ELSE "unset"]
AfterTenant ==
  IF tenant = Nil THEN Base ELSE Overlaid(Base, tenant, TenantOnly \union Shared, "tenant")
AfterSession ==
  IF session = Nil THEN AfterTenant
  ELSE Overlaid(AfterTenant, session, sessionAllowedFields, "session")
TenantViolations ==
  IF tenant = Nil THEN {}
  ELSE tenantSessionOnlyViolations(tenant) \union constitutionViolations("tenant", tenant)
SessionViolations == IF session = Nil THEN {} ELSE ValidateScope(session)

MergeInv ==
  /\ tenant \in Overlay \union {Nil} /\ session \in Overlay \union {Nil}
  /\ pc \in {"tenant", "session", "merged"}
  /\ pc = "tenant"  => effective = Base /\ violations = {}
  /\ pc = "session" => effective = AfterTenant /\ violations = TenantViolations
  /\ pc = "merged"  => effective = AfterSession
                         /\ violations = TenantViolations \union SessionViolations

(* The documented matrix is the one that the code's three lists of fields make. *)
LEMMA MatrixIsLists ==
  /\ May("tenant") = TenantOnly \union Shared
  /\ May("session") = sessionAllowedFields
  /\ \A f \in Fields : f \notin May("tenant") <=> f \in Safety \union Evidence \union SessionOnly
  /\ \A f \in Fields : f \notin May("session")
       <=> f \notin sessionAllowedFields
<1>1. May("session") = sessionAllowedFields
  BY DEF May, sessionAllowedFields, SessionOnly, Shared
<1>2. May("tenant") = {f \in Fields : f \notin Safety \union Evidence /\ f \notin SessionOnly}
  BY Zenon DEF May, SessionOnly
<1>3. \A f \in TenantOnly \union Shared : f \notin Safety /\ f \notin Evidence /\ f \notin SessionOnly
  BY DEF TenantOnly, Shared, Safety, Evidence, SessionOnly, Identity
<1>4. Fields = Safety \union Evidence \union SessionOnly \union Shared \union TenantOnly
  BY DEF Fields
<1>5. May("tenant") = TenantOnly \union Shared BY <1>2, <1>3, <1>4, Zenon
<1>6. \A f \in Fields : f \notin May("tenant") <=> f \in Safety \union Evidence \union SessionOnly
  BY <1>2, Zenon
<1> QED BY <1>1, <1>5, <1>6

(* A violation record is in a report if and only if its field is reported on. *)
LEMMA RecordFacts ==
  ASSUME NEW s, NEW F
  PROVE  /\ \A f : [scope |-> s, field |-> f] \in Record(s, F) <=> f \in F
         /\ \A v \in Record(s, F) : v.scope = s /\ v.field \in F
         /\ Record(s, F) = {} <=> F = {}
<1>1. \A v : v \in Record(s, F) <=> \E f \in F : v = [scope |-> s, field |-> f]
  BY Zenon DEF Record
<1>2. \A f, g : [scope |-> s, field |-> f] = [scope |-> s, field |-> g] => f = g
  <2>1. TAKE f, g
  <2>2. HAVE [scope |-> s, field |-> f] = [scope |-> s, field |-> g]
  <2>3. [scope |-> s, field |-> f].field = [scope |-> s, field |-> g].field BY <2>2
  <2> QED BY <2>3
<1>3. \A f : [scope |-> s, field |-> f].scope = s /\ [scope |-> s, field |-> f].field = f OBVIOUS
<1>4. \A f : [scope |-> s, field |-> f] \in Record(s, F) <=> f \in F
  <2> TAKE f
  <2>1. ASSUME [scope |-> s, field |-> f] \in Record(s, F) PROVE f \in F
    <3>1. PICK g \in F : [scope |-> s, field |-> f] = [scope |-> s, field |-> g] BY <1>1, <2>1
    <3>2. f = g BY <1>2, <3>1
    <3> QED BY <3>2
  <2>2. ASSUME f \in F PROVE [scope |-> s, field |-> f] \in Record(s, F) BY <1>1, <2>2
  <2> QED BY <2>1, <2>2
<1>5. \A v \in Record(s, F) : v.scope = s /\ v.field \in F
  <2> TAKE v \in Record(s, F)
  <2>1. PICK f \in F : v = [scope |-> s, field |-> f] BY <1>1
  <2> QED BY <1>3, <2>1, Zenon
<1>6. Record(s, F) = {} <=> F = {} BY <1>1, Zenon
<1> QED BY <1>4, <1>5, <1>6

(* MergeInv holds throughout a merge. *)
THEOREM MergeInvariant == Spec => []MergeInv
<1>1. Init => MergeInv
  BY ProfilesAssumption DEF Init, MergeInv, Base
<1>2. MergeInv /\ [Next]_vars => MergeInv'
  <2> SUFFICES ASSUME MergeInv, [Next]_vars PROVE MergeInv'
    OBVIOUS
  <2>0. UNCHANGED inputs BY DEF Next, MergeTenant, MergeSession, Merged, vars, inputs
  <2>1. /\ AfterTenant' = AfterTenant /\ AfterSession' = AfterSession /\ Base' = Base
        /\ TenantViolations' = TenantViolations /\ SessionViolations' = SessionViolations
    BY <2>0, Zenon DEF inputs, AfterTenant, AfterSession, Base, TenantViolations, SessionViolations
  <2>2. CASE MergeTenant
    <3>1. effective' = AfterTenant /\ violations' = TenantViolations
      BY <2>2 DEF MergeInv, MergeTenant, mergeTenant, AfterTenant, TenantViolations
    <3> QED BY <2>0, <2>1, <2>2, <3>1 DEF MergeInv, MergeTenant, inputs
  <2>3. CASE MergeSession
    <3>1. effective' = AfterSession /\ violations' = TenantViolations \union SessionViolations
      BY <2>3 DEF MergeInv, MergeSession, mergeSession, AfterSession, SessionViolations
    <3> QED BY <2>0, <2>1, <2>3, <3>1 DEF MergeInv, MergeSession, inputs
  <2>4. CASE Merged \/ UNCHANGED vars
    BY <2>1, <2>4 DEF MergeInv, Merged, vars
  <2> QED BY <2>2, <2>3, <2>4 DEF Next
<1> QED BY <1>1, <1>2, PTL DEF Spec

(* The effective profile of every merge is the one of the documented matrix *)
(* (MatrixObeyed): in particular no overlay whatever touches the Safety or  *)
(* Evidence policy.                                                         *)
THEOREM Matrix == Spec => []MatrixObeyed
<1>1. MergeInv => MatrixObeyed
  <2> SUFFICES ASSUME MergeInv, pc = "merged", NEW f \in Fields
               PROVE  effective[f] = IF Sets(session, f) /\ f \in May("session") THEN "session"
                                     ELSE IF Sets(tenant, f) /\ f \in May("tenant") THEN "tenant"
                                     ELSE IF f \in global THEN "global" ELSE "unset"
    BY DEF MatrixObeyed
  <2>1. effective = AfterSession BY DEF MergeInv
  <2>2. AfterTenant[f] = IF Sets(tenant, f) /\ f \in TenantOnly \union Shared THEN "tenant"
                         ELSE IF f \in global THEN "global" ELSE "unset"
    BY DEF AfterTenant, Base, Overlaid, Sets
  <2>3. AfterSession[f] = IF Sets(session, f) /\ f \in sessionAllowedFields THEN "session"
                          ELSE AfterTenant[f]
    BY DEF AfterSession, Overlaid, Sets
  <2> QED BY <2>1, <2>2, <2>3, MatrixIsLists, Zenon
<1> QED BY <1>1, MergeInvariant, PTL

(* Which fields of an overlay Merge and the write path report. *)
LEMMA TenantReport ==
  ASSUME NEW t
  PROVE  tenantSessionOnlyViolations(t) \union constitutionViolations("tenant", t)
           = Record("tenant", t.set \intersect (Safety \union Evidence \union SessionOnly))
BY Zenon DEF tenantSessionOnlyViolations, constitutionViolations, Record

(* A tenant's overlay is judged alike on both paths. *)
LEMMA TenantScope ==
  ASSUME NEW t, t.scope = "tenant"
  PROVE  ValidateScope(t)
           = Record("tenant", t.set \intersect (Safety \union Evidence \union SessionOnly))
<1>1. ValidateScope(t) = UNION {constitutionViolations("tenant", t), tenantSessionOnlyViolations(t), {}}
  BY DEF ValidateScope
<1>2. ValidateScope(t) = tenantSessionOnlyViolations(t) \union constitutionViolations("tenant", t)
  BY <1>1
<1> QED BY <1>2, TenantReport

(* What a session overlay may not set is in its report. *)
LEMMA SessionScope ==
  ASSUME NEW p, p.scope = "session"
  PROVE  ValidateScope(p) = Record("session", p.set \ sessionAllowedFields)
<1>1. ValidateScope(p) = UNION {constitutionViolations("session", p), {}, sessionAllowListViolations(p)}
  BY DEF ValidateScope
<1>2. ValidateScope(p) = constitutionViolations("session", p) \union sessionAllowListViolations(p)
  BY <1>1
<1>3. \A f \in Safety \union Evidence : f \notin sessionAllowedFields
  BY DEF Safety, Evidence, sessionAllowedFields, SessionOnly, Shared
<1>4. (p.set \intersect (Safety \union Evidence))
         \union (p.set \ (Safety \union Evidence \union sessionAllowedFields))
        = p.set \ sessionAllowedFields
  BY <1>3
<1>5. \A F, G : Record("session", F) \union Record("session", G) = Record("session", F \union G)
  BY Zenon DEF Record
<1>6. ValidateScope(p) = Record("session", p.set \intersect (Safety \union Evidence))
        \union Record("session", p.set \ (Safety \union Evidence \union sessionAllowedFields))
  BY <1>2 DEF constitutionViolations, sessionAllowListViolations
<1> QED BY <1>4, <1>5, <1>6

(* The records of a merge are exactly those of the values its overlays may not *)
(* set, a session overlay being judged by the scope written in it              *)
(* (RecordsAreExact).                                                          *)
THEOREM Recorded == Spec => []RecordsAreExact
<1>1. MergeInv => RecordsAreExact
  <2> SUFFICES ASSUME MergeInv, pc = "merged"
               PROVE  violations = UNION {
                        IF tenant = Nil THEN {} ELSE Record("tenant", tenant.set \ May("tenant")),
                        IF session = Nil THEN {}
                        ELSE IF session.scope = "other" THEN Record("other", {"scope"})
                        ELSE Record(session.scope, session.set \ May(session.scope))}
    BY DEF RecordsAreExact
  <2> DEFINE Forbidden == Safety \union Evidence \union SessionOnly
  <2>0. violations = TenantViolations \union SessionViolations BY DEF MergeInv
  <2>1. \A F \in SUBSET Fields : F \intersect Forbidden = F \ May("tenant")
    BY MatrixIsLists, Zenon
  <2>2. tenant # Nil => TenantViolations = Record("tenant", tenant.set \ May("tenant"))
    <3> SUFFICES ASSUME tenant # Nil
                 PROVE  TenantViolations = Record("tenant", tenant.set \ May("tenant"))
      OBVIOUS
    <3>1. tenant.set \in SUBSET Fields BY DEF MergeInv, Overlay
    <3>2. TenantViolations = Record("tenant", tenant.set \intersect Forbidden)
      BY TenantReport DEF TenantViolations
    <3> QED BY <2>1, <3>1, <3>2
  <2>3. session # Nil => SessionViolations = IF session.scope = "other" THEN Record("other", {"scope"})
                                             ELSE Record(session.scope, session.set \ May(session.scope))
    <3> SUFFICES ASSUME session # Nil
                 PROVE  SessionViolations = IF session.scope = "other" THEN Record("other", {"scope"})
                                            ELSE Record(session.scope, session.set \ May(session.scope))
      OBVIOUS
    <3>0. session.set \in SUBSET Fields /\ session.scope \in Scopes BY DEF MergeInv, Overlay
    <3>1. SessionViolations = ValidateScope(session) BY DEF SessionViolations
    <3>2. CASE session.scope = "session" BY <3>1, <3>2, SessionScope, MatrixIsLists
    <3>3. CASE session.scope = "tenant"
      <4>1. ValidateScope(session) = Record("tenant", session.set \intersect Forbidden)
        BY <3>3, TenantScope
      <4> QED BY <2>1, <3>0, <3>1, <3>3, <4>1
    <3>4. CASE session.scope = "global"
      <4>1. ValidateScope(session) = {} BY <3>4 DEF ValidateScope
      <4>2. session.set \ May("global") = {}
        <5>1. May("global") = Fields BY DEF May
        <5> QED BY <3>0, <5>1
      <4>3. Record("global", {}) = {} BY RecordFacts
      <4> QED BY <3>1, <3>4, <4>1, <4>2, <4>3
    <3>5. CASE session.scope = "other" BY <3>1, <3>5 DEF ValidateScope
    <3> QED BY <3>0, <3>2, <3>3, <3>4, <3>5 DEF Scopes
  <2>4. tenant = Nil => TenantViolations = {} BY DEF TenantViolations
  <2>5. session = Nil => SessionViolations = {} BY DEF SessionViolations
  <2> QED BY <2>0, <2>2, <2>3, <2>4, <2>5
<1> QED BY <1>1, MergeInvariant, PTL

(* A tenant overlay passes the write path if and only if it merges without a *)
(* violation (PathsAgree), for overlays of any size.                         *)
THEOREM Agree == Spec => []PathsAgree
<1>1. MergeInv => PathsAgree
  <2> SUFFICES ASSUME MergeInv, pc = "merged", tenant # Nil, tenant.scope = "tenant"
               PROVE  ValidateScope(tenant) = {} <=>
                        ~\E v \in violations : v.scope = "tenant" /\ v.field \in tenant.set
    BY DEF PathsAgree
  <2> DEFINE Forbidden == Safety \union Evidence \union SessionOnly
  <2>0. violations = TenantViolations \union SessionViolations BY DEF MergeInv
  <2>1. /\ TenantViolations = Record("tenant", tenant.set \intersect Forbidden)
        /\ ValidateScope(tenant) = TenantViolations
    BY TenantReport, TenantScope DEF TenantViolations
  <2>2. \A v \in TenantViolations : v.scope = "tenant" /\ v.field \in tenant.set \intersect Forbidden
    BY <2>1, RecordFacts
  <2>3. TenantViolations = {} <=> tenant.set \intersect Forbidden = {} BY <2>1, RecordFacts
  <2>4. \A v \in SessionViolations : v.scope = "tenant" => v.field \in Forbidden
    <3>1. CASE session = Nil BY <3>1 DEF SessionViolations
    <3>2. CASE session # Nil /\ session.scope = "tenant"
      <4>1. SessionViolations = Record("tenant", session.set \intersect Forbidden)
        BY <3>2, TenantScope DEF SessionViolations
      <4> QED BY <4>1, RecordFacts
    <3>3. CASE session # Nil /\ session.scope = "session"
      <4>1. SessionViolations = Record("session", session.set \ sessionAllowedFields)
        BY <3>3, SessionScope DEF SessionViolations
      <4>2. \A v \in SessionViolations : v.scope = "session" BY <4>1, RecordFacts
      <4> QED BY <4>2
    <3>4. CASE session # Nil /\ session.scope = "global"
      BY <3>4 DEF SessionViolations, ValidateScope
    <3>5. CASE session # Nil /\ session.scope = "other"
      <4>1. SessionViolations = Record("other", {"scope"})
        BY <3>5 DEF SessionViolations, ValidateScope
      <4>2. \A v \in SessionViolations : v.scope = "other" BY <4>1, RecordFacts
      <4> QED BY <4>2
    <3>6. session # Nil => session.scope \in Scopes BY DEF MergeInv, Overlay
    <3> QED BY <3>1, <3>2, <3>3, <3>4, <3>5, <3>6 DEF Scopes
  <2> HIDE DEF Forbidden
  <2> QED BY <2>0, <2>1, <2>2, <2>3, <2>4, Zenon
<1> QED BY <1>1, MergeInvariant, PTL
=============================================================================
