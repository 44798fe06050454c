------------------------------ MODULE ProfileMerge ------------------------------
(*****************************************************************************)
(* control/profile: the effective profile of an assistant.  Merge lays a     *)
(* tenant's and a session's overlay over the global profile and records what *)
(* an overlay tried to set and may not; ValidateScope is the check of the    *)
(* write path, which an overlay passes before it is stored.                  *)
(*                                                                           *)
(* A profile is abstracted to its scope and the set of its fields that are   *)
(* set (a pointer that is not nil, a string or list that is not empty); the  *)
(* value of a field is the layer it came from.  Violations are a set of      *)
(* scope and field; SortedViolations only puts them in order.                *)
(*****************************************************************************)
EXTENDS FiniteSets

CONSTANTS
  Globals,    \* sets of fields a global profile may have set
  Tenants,    \* tenant overlays
  Sessions,   \* session overlays
  Nil         \* no overlay

Identity == {"soul.identity.name", "soul.identity.description", "soul.identity.persona",
             "soul.identity.domain", "soul.identity.avatar"}
Safety == {"safety.hallucination_guard", "safety.medical_mode", "safety.content_filter"}
Evidence == {"evidence.required", "evidence.required_fields", "evidence.citation_required"}
SessionOnly == {"reasoning.show_reasoning", "presentation.compact_mode", "presentation.theme"}
Shared == {"output.language", "output.markdown"}
TenantOnly == Identity \union
  {"soul.behavior.tone", "soul.behavior.citations", "reasoning.enabled", "output.citations",
   "output.temperature", "presentation.reasoning_summary"}
Fields == Safety \union Evidence \union SessionOnly \union Shared \union TenantOnly

Scopes == {"global", "tenant", "session", "other"}   \* "other": not a known scope
Overlay == [scope: Scopes, set: SUBSET Fields]

ASSUME ProfilesAssumption ==
  /\ Globals \subseteq SUBSET Fields
  /\ Tenants \subseteq Overlay \union {Nil}
  /\ Sessions \subseteq Overlay \union {Nil}

VARIABLES
  global, tenant, session,   \* what Merge is called with
  pc,                        \* the steps of Merge
  effective,                 \* field -> layer its value came from
  violations

vars == <<global, tenant, session, pc, effective, violations>>
inputs == <<global, tenant, session>>

-----------------------------------------------------------------------------
(* scope.go.                                                                 *)

Record(scope, fields) == {[scope |-> scope, field |-> f] : f \in fields}

constitutionViolations(scope, p) == Record(scope, p.set \intersect (Safety \union Evidence))
tenantSessionOnlyViolations(p) == Record("tenant", p.set \intersect SessionOnly)

sessionAllowedFields == SessionOnly \union Shared
\* Faulty: the temperature is taken for a session preference.
sessionAllowsTemperature(p) ==
  Record("session", p.set \ (Safety \union Evidence \union sessionAllowedFields \union {"output.temperature"}))

\* The report list has every field but those of Safety and Evidence.
sessionAllowListViolations(p) ==
  Record("session", p.set \ (Safety \union Evidence \union sessionAllowedFields))

\* Faulty: the write path forgets the session-only fields of a tenant.
ValidateScopeLax(p) ==
  IF p.scope = "other" THEN Record("other", {"scope"})
  ELSE UNION {IF p.scope # "global" THEN constitutionViolations(p.scope, p) ELSE {},
              IF p.scope = "session" THEN sessionAllowListViolations(p) ELSE {}}

ValidateScope(p) ==
  IF p.scope = "other" THEN Record("other", {"scope"})
  ELSE UNION {IF p.scope # "global" THEN constitutionViolations(p.scope, p) ELSE {},
              IF p.scope = "tenant" THEN tenantSessionOnlyViolations(p) ELSE {},
              IF p.scope = "session" THEN sessionAllowListViolations(p) ELSE {}}

-----------------------------------------------------------------------------
(* merge.go.                                                                 *)

\* mergeString, mergeBoolPtr, mergeFloatPtr on every field of fields: a field that
\* is not set is inherited.
Overlaid(base, p, fields, layer) ==
  [f \in Fields |-> IF f \in fields \intersect p.set THEN layer ELSE base[f]]

Init ==
  /\ global \in Globals /\ tenant \in Tenants /\ session \in Sessions
  /\ pc = "tenant"
  /\ effective = [f \in Fields |-> IF f \in global THEN "global" ELSE "unset"]
  /\ violations = {}

\* Faulty: an overlay of the tenant replaces the evidence policy too.
mergeTenantEvidence ==
  /\ effective' = Overlaid(effective, tenant, TenantOnly \union Shared \union Evidence, "tenant")
  /\ violations' = violations \union tenantSessionOnlyViolations(tenant)
                              \union constitutionViolations("tenant", tenant)

\* The tenant's scope is not looked at: what is merged as a tenant is a tenant.
mergeTenant ==
  /\ effective' = Overlaid(effective, tenant, TenantOnly \union Shared, "tenant")
  /\ violations' = violations \union tenantSessionOnlyViolations(tenant)
                              \union constitutionViolations("tenant", tenant)

\* The session's violations are judged by the scope the overlay says it has.
mergeSession ==
  /\ effective' = Overlaid(effective, session, sessionAllowedFields, "session")
  /\ violations' = violations \union ValidateScope(session)

MergeTenant ==
  /\ pc = "tenant"
  /\ pc' = "session"
  /\ IF tenant = Nil THEN UNCHANGED <<effective, violations>> ELSE mergeTenant
  /\ UNCHANGED inputs

MergeSession ==
  /\ pc = "session"
  /\ pc' = "merged"
  /\ IF session = Nil THEN UNCHANGED <<effective, violations>> ELSE mergeSession
  /\ UNCHANGED inputs

Merged == pc = "merged" /\ UNCHANGED vars

Next == MergeTenant \/ MergeSession \/ Merged

Spec == Init /\ [][Next]_vars

-----------------------------------------------------------------------------
(* Properties.  The matrix is the one documented above Merge.                *)

May(layer) ==
  CASE layer = "tenant"  -> {f \in Fields : f \notin Safety \union Evidence
                               /\ f \notin {"reasoning.show_reasoning", "presentation.compact_mode",
                                            "presentation.theme"}}
    [] layer = "session" -> {"reasoning.show_reasoning", "output.language", "output.markdown",
                             "presentation.compact_mode", "presentation.theme"}
    [] layer = "global"  -> Fields

Sets(p, f) == p # Nil /\ f \in p.set

\* The effective profile obeys the documented matrix: each field has the value of
\* the last layer that set it and may, so that the Safety and Evidence policies
\* are the global ones and an unset field never erases an inherited one.
MatrixObeyed ==
  pc = "merged" =>
    \A f \in Fields :
      effective[f] = IF Sets(session, f) /\ f \in May("session") THEN "session"
                     ELSE IF Sets(tenant, f) /\ f \in May("tenant") THEN "tenant"
                     ELSE IF f \in global THEN "global" ELSE "unset"

\* "the offending value is ignored (not applied), and the violation is returned":
\* the records are exactly those of the values the overlays may not set.  A session
\* overlay is judged by the scope written in it, so that one which names another
\* scope has values ignored without a record: with "global" every ignored value, with
\* "tenant" those a tenant may set; an unknown scope leaves one record, of the scope.
RecordsAreExact ==
  pc = "merged" =>
    violations = UNION {
      IF tenant = Nil THEN {} ELSE Record("tenant", tenant.set \ May("tenant")),
      IF session = Nil THEN {}
      ELSE IF session.scope = "other" THEN Record("other", {"scope"})
      ELSE Record(session.scope, session.set \ May(session.scope))}

\* "so both paths enforce the identical ADR-042 matrix": a tenant overlay that the
\* write path accepts merges without a violation, and one that it rejects does not.
PathsAgree ==
  pc = "merged" /\ tenant # Nil /\ tenant.scope = "tenant" =>
    (ValidateScope(tenant) = {} <=> ~\E v \in violations : v.scope = "tenant" /\ v.field \in tenant.set)
=============================================================================
