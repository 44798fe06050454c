---------------------------- MODULE SchemaValidation ----------------------------
(*****************************************************************************)
(* validation/schema.go: the validator of tool arguments and step outputs.   *)
(* ValidateInput and ValidateInputStrict take JSON, ValidateValue takes a Go *)
(* value as a tool returned it.  validateValue and validateValueStrict are   *)
(* the same code but for a flag that they pass on, and are one operator here.*)
(*                                                                           *)
(* An error is abstracted to its presence; which of several errors is        *)
(* returned depends on map order in the code.  A string is how many          *)
(* characters and how many bytes it has, a pattern the set of the strings    *)
(* that match it ({}: it does not compile).  A number is counted in halves,  *)
(* so that odd ones are not integers; Limit stands for 2^63, where int64     *)
(* ends, and all numbers beyond it are even as all large float64 are.        *)
(*                                                                           *)
(* A Go value may hold what JSON decoding never produces: native integers    *)
(* ("int"), and typed maps and slices such as map[string]string and []string *)
(* ("typedmap", "slice"), which are neither map[string]any nor []any.        *)
(*****************************************************************************)
EXTENDS Integers, Sequences, FiniteSets

CONSTANTS
  Data,       \* Go values
  Schemas,    \* schemas, None for a nil one
  None,       \* a keyword or subschema that is not set
  Malformed,  \* input that is not JSON
  Limit       \* 2^63, in halves

VARIABLES
  data,       \* a Go value, or Malformed
  schema,
  saturates,  \* what the machine does with a float64 beyond int64 (Go leaves it open)
  verdict     \* of each entry point called so far: accepted or not

vars == <<data, schema, saturates, verdict>>

\* The schema without a keyword; the schemas are built from it with EXCEPT.
Any ==
  [type |-> "", enum |-> {}, const |-> None, minLength |-> None, maxLength |-> None,
   pattern |-> None, minimum |-> None, maximum |-> None, prefixItems |-> <<>>, items |-> None,
   required |-> {}, properties |-> None, closed |-> FALSE,     \* AdditionalProperties = false
   anyOf |-> <<>>, oneOf |-> <<>>, allOf |-> <<>>, if |-> None, then |-> None, else |-> None]

Init ==
  /\ data \in Data \union {Malformed}
  /\ schema \in Schemas
  /\ saturates \in BOOLEAN
  /\ verdict = [e \in {} |-> TRUE]

-----------------------------------------------------------------------------
RECURSIVE Marshal(_), validate(_, _, _)

\* What encoding/json makes of a Go value, decoded again.
Marshal(d) ==
  CASE d.k = "int"    -> [k |-> "number", n |-> d.n]
    [] d.k \in {"array", "slice"} ->
         [k |-> "array", items |-> [i \in DOMAIN d.items |-> Marshal(d.items[i])]]
    [] d.k \in {"object", "typedmap"} ->
         [k |-> "object", m |-> [key \in DOMAIN d.m |-> Marshal(d.m[key])]]
    [] OTHER -> d

jsonEqual(d, v) == Marshal(d) = Marshal(v)

\* f = float64(int64(f)).  Beyond int64 the conversion gives the least int64 on some
\* machines (amd64); others (arm64) saturate, and the greatest int64 is rounded to
\* 2^63 on its way back.
IntegerTest(n) ==
  IF -Limit <= n /\ n < Limit THEN n % 2 = 0 ELSE saturates /\ n = Limit


\* Every other type, "null" among them, is unsupported and matches nothing.
validateType(d, t) ==
  IF t = "integer" THEN d.k = "number" /\ IntegerTest(d.n)
  ELSE t \in {"object", "array", "string", "number", "boolean"} /\ d.k = t

validateEnum(d, s) == s.enum # {} => \E v \in s.enum : jsonEqual(d, v)
validateConst(d, s) == s.const # None => jsonEqual(d, s.const)

\* The length is len(s), in bytes.
validateString(d, s) ==
  d.k = "string" =>
    /\ s.minLength # None => d.bytes >= s.minLength
    /\ s.maxLength # None => d.bytes <= s.maxLength
    /\ s.pattern # None => d \in s.pattern

validateNumber(d, s) ==
  d.k = "number" =>
    /\ s.minimum # None => d.n >= s.minimum
    /\ s.maximum # None => d.n <= s.maximum

validatePrefixItems(d, s, strict) ==
  \A i \in DOMAIN s.prefixItems : i <= Len(d.items) => validate(d.items[i], s.prefixItems[i], strict)

\* Faulty: items applies from the first element on.
validateArrayAll(d, s, strict) ==
  d.k = "array" =>
    /\ validatePrefixItems(d, s, strict)
    /\ \A i \in 1..Len(d.items) : validate(d.items[i], s.items, strict)

\* validateArray and validateArrayStrict.
validateArray(d, s, strict) ==
  d.k = "array" =>
    /\ validatePrefixItems(d, s, strict)
    /\ \A i \in Len(s.prefixItems) + 1..Len(d.items) : validate(d.items[i], s.items, strict)

Declared(s) == IF s.properties = None THEN {} ELSE DOMAIN s.properties

\* A schema that declares no property rejects none; what is not a map[string]any
\* passes.
validateObject(d, s, strict) ==
  d.k = "object" =>
    /\ s.required \subseteq DOMAIN d.m
    /\ \A key \in Declared(s) \intersect DOMAIN d.m : validate(d.m[key], s.properties[key], strict)
    /\ (strict \/ s.closed) /\ Declared(s) # {} => DOMAIN d.m \subseteq Declared(s)

Matching(d, schemas, strict) == {i \in DOMAIN schemas : validate(d, schemas[i], strict)}

validateComposition(d, s, strict) ==
  /\ s.anyOf # <<>> => Matching(d, s.anyOf, strict) # {}
  /\ s.oneOf # <<>> => Cardinality(Matching(d, s.oneOf, strict)) = 1
  /\ Matching(d, s.allOf, strict) = DOMAIN s.allOf

\* Faulty: the strict flag is not handed on.
validateConditionalLoose(d, s, strict) ==
  s.if # None =>
    IF validate(d, s.if, FALSE) THEN validate(d, s.then, FALSE) ELSE validate(d, s.else, FALSE)

validateConditional(d, s, strict) ==
  s.if # None =>
    IF validate(d, s.if, strict) THEN validate(d, s.then, strict) ELSE validate(d, s.else, strict)

\* validateValue and validateValueStrict: the keywords of a type are looked at only
\* if the schema names the type.
validate(d, s, strict) ==
  s # None =>
    /\ s.type # "" => validateType(d, s.type)
    /\ validateEnum(d, s)
    /\ validateConst(d, s)
    /\ s.type = "string" => validateString(d, s)
    /\ s.type \in {"number", "integer"} => validateNumber(d, s)
    /\ s.type = "array" => validateArray(d, s, strict)
    /\ s.type = "object" \/ (s.type = "" /\ s.properties # None) => validateObject(d, s, strict)
    /\ validateComposition(d, s, strict)
    /\ validateConditional(d, s, strict)

-----------------------------------------------------------------------------
(* The entry points, each called once on the same value.                     *)

Answer(entry, ok) ==
  /\ entry \notin DOMAIN verdict
  /\ verdict' = [e \in DOMAIN verdict \union {entry} |-> IF e = entry THEN ok ELSE verdict[e]]
  /\ UNCHANGED <<data, schema, saturates>>

\* A nil schema accepts, before the input is decoded.
ValidateInput ==
  Answer("input", schema = None \/ (data # Malformed /\ validate(Marshal(data), schema, FALSE)))

ValidateInputStrict ==
  /\ "input" \in DOMAIN verdict
  /\ Answer("strict", schema = None \/ (data # Malformed /\ validate(Marshal(data), schema, TRUE)))

ValidateValue ==
  /\ "strict" \in DOMAIN verdict /\ data # Malformed
  /\ Answer("value", validate(data, schema, FALSE))

Validated == "strict" \in DOMAIN verdict /\ UNCHANGED vars

Next == ValidateInput \/ ValidateInputStrict \/ ValidateValue \/ Validated

Spec == Init /\ [][Next]_vars

-----------------------------------------------------------------------------
(* Properties.                                                               *)

RECURSIVE Conforms(_, _), Closed(_), Typed(_), Named(_), Branching(_), Plain(_)

Subschemas(s) ==
  UNION {{s.items, s.if, s.then, s.else} \ {None},
         {s.prefixItems[i] : i \in DOMAIN s.prefixItems}, {s.anyOf[i] : i \in DOMAIN s.anyOf},
         {s.oneOf[i] : i \in DOMAIN s.oneOf}, {s.allOf[i] : i \in DOMAIN s.allOf},
         {s.properties[key] : key \in Declared(s)}}

\* JSON Schema 2020-12: every keyword asserts something of the values of its own
\* type and nothing of others; lengths are in characters, and a number of any size
\* without a fraction is an integer.
Conforms(d, s) ==
  s # None =>
    /\ s.type # "" => d.k = s.type \/ (s.type = "integer" /\ d.k = "number" /\ d.n % 2 = 0)
    /\ s.enum # {} => d \in s.enum
    /\ s.const # None => d = s.const
    /\ d.k = "string" => /\ s.minLength # None => s.minLength <= d.chars
                         /\ s.maxLength # None => d.chars <= s.maxLength
                         /\ s.pattern # None => d \in s.pattern
    /\ d.k = "number" => /\ s.minimum # None => s.minimum <= d.n
                         /\ s.maximum # None => d.n <= s.maximum
    /\ d.k = "array" => \A i \in DOMAIN d.items :
         Conforms(d.items[i], IF i \in DOMAIN s.prefixItems THEN s.prefixItems[i] ELSE s.items)
    /\ d.k = "object" =>
         /\ \A key \in s.required : key \in DOMAIN d.m
         /\ \A key \in DOMAIN d.m : IF key \in Declared(s) THEN Conforms(d.m[key], s.properties[key])
                                    ELSE ~s.closed
    /\ s.anyOf # <<>> => \E i \in DOMAIN s.anyOf : Conforms(d, s.anyOf[i])
    /\ s.oneOf # <<>> => \E i \in DOMAIN s.oneOf : \A j \in DOMAIN s.oneOf :
                           Conforms(d, s.oneOf[j]) <=> i = j
    /\ \A i \in DOMAIN s.allOf : Conforms(d, s.allOf[i])
    /\ s.if # None => Conforms(d, IF Conforms(d, s.if) THEN s.then ELSE s.else)

\* A schema in which every keyword comes with the type it is about, and only a
\* schema that declares properties forbids others.
Typed(s) ==
  /\ s.type # "null"
  /\ <<s.minLength, s.maxLength, s.pattern>> # <<None, None, None>> => s.type = "string"
  /\ <<s.minimum, s.maximum>> # <<None, None>> => s.type \in {"number", "integer"}
  /\ s.prefixItems # <<>> \/ s.items # None => s.type = "array"
  /\ s.required # {} => s.type = "object" \/ s.properties # None
  /\ s.closed => Declared(s) # {}
  /\ \A sub \in Subschemas(s) : Typed(sub)

\* A schema that declares properties names its type.
Named(s) == (s.properties # None => s.type # "") /\ \A sub \in Subschemas(s) : Named(sub)

\* The schema with "additionalProperties": false wherever it declares properties.
Closed(s) ==
  IF s = None THEN None
  ELSE LET each(list) == [i \in DOMAIN list |-> Closed(list[i])]
       IN  [s EXCEPT !.closed = @ \/ Declared(s) # {},
                     !.properties = IF @ = None THEN None ELSE [key \in DOMAIN @ |-> Closed(@[key])],
                     !.items = Closed(@), !.if = Closed(@), !.then = Closed(@), !.else = Closed(@),
                     !.prefixItems = each(@), !.anyOf = each(@), !.oneOf = each(@), !.allOf = each(@)]

\* Rejecting more in a part of the schema may accept more as a whole.
Branching(s) == s.oneOf # <<>> \/ s.if # None \/ \E sub \in Subschemas(s) : Branching(sub)

\* JSON whose strings have as many bytes as characters and whose numbers are within
\* int64.
Plain(d) ==
  CASE d.k = "string" -> d.bytes = d.chars
    [] d.k = "number" -> -Limit <= d.n /\ d.n < Limit
    [] d.k = "array" -> \A i \in DOMAIN d.items : Plain(d.items[i])
    [] d.k = "object" -> \A key \in DOMAIN d.m : Plain(d.m[key])
    [] OTHER -> TRUE

\* ValidateInput is JSON Schema 2020-12 on schemas in which every keyword comes with
\* its type, for plain data.  It is not for a string of other characters than ASCII
\* (minLength and maxLength count its bytes), for a number beyond int64 (no
\* "integer") and for the type "null" (unsupported).
MeetsStandard ==
  "input" \in DOMAIN verdict /\ schema # None /\ data # Malformed =>
    (Typed(schema) /\ Plain(Marshal(data)) => verdict["input"] = Conforms(Marshal(data), schema))

\* "strict mode: rejects unknown properties" (ValidateInputStrict), everywhere: for
\* plain data its verdict is the standard's on the schema that forbids additional
\* properties wherever it declares some, in arrays, compositions and conditions too.
StrictIsClosed ==
  "strict" \in DOMAIN verdict /\ schema # None /\ data # Malformed =>
    (Typed(schema) /\ Plain(Marshal(data)) => verdict["strict"] = Conforms(Marshal(data), Closed(schema)))

=============================================================================
