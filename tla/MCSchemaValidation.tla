--------------------------- MODULE MCSchemaValidation ---------------------------
(* Instances of SchemaValidation for TLC.                                    *)
EXTENDS SchemaValidation

null == [k |-> "null"]
bool == [k |-> "boolean"]
\* len characters of ASCII, and len of two bytes each.
str(len) == [k |-> "string", chars |-> len, bytes |-> len]
wide(len) == [k |-> "string", chars |-> len, bytes |-> 2 * len]
num(n) == [k |-> "number", n |-> n]
int(n) == [k |-> "int", n |-> n]
arr(items) == [k |-> "array", items |-> items]
obj(m) == [k |-> "object", m |-> m]
slice(items) == [k |-> "slice", items |-> items]
typedmap(m) == [k |-> "typedmap", m |-> m]

\* With Limit = 8: 4 is 2^63, 5 and -5 are beyond int64.
Scalars ==
  {null, bool, str(0), str(1), str(3), wide(1), wide(2), num(-2), num(1), num(2), num(6),
   num(8), num(10), num(-8), num(-10), int(2), int(-2)}
Few == {str(1), num(2), num(-2), int(-2)}
Arrays == {arr(<<>>)} \union {arr(<<x>>) : x \in Few} \union {arr(<<x, y>>) : x, y \in Few}
Objects == UNION {{obj(m) : m \in [keys -> {str(1), num(2)}]} : keys \in SUBSET {"a", "b"}}
Nested ==
  {obj([key \in {"a"} |-> o]) : o \in Objects \union {int(-2)}} \union {arr(<<str(1), o>>) : o \in Objects}
Typeds ==
  {slice(<<x>>) : x \in {str(1), int(-2)}} \union {arr(<<typedmap([key \in {"a"} |-> str(3)])>>)}
    \union UNION {{typedmap([key \in keys |-> x]) : x \in {str(1), str(3)}} : keys \in SUBSET {"a", "b"}}
MCData == Scalars \union Arrays \union Objects \union Nested \union Typeds

String == [Any EXCEPT !.type = "string", !.minLength = 1, !.maxLength = 2]
Integer == [Any EXCEPT !.type = "integer", !.minimum = 0]
Number == [Any EXCEPT !.type = "number", !.maximum = 2]
Leaves ==
  {Any, String, Integer, Number, [Any EXCEPT !.type = "boolean"], [Any EXCEPT !.type = "null"],
   [Any EXCEPT !.type = "string", !.pattern = {str(3), wide(2)}], [Any EXCEPT !.type = "string", !.pattern = {}],
   [Any EXCEPT !.enum = {num(2), str(1)}], [Any EXCEPT !.const = num(2)], [Any EXCEPT !.const = null],
   [Any EXCEPT !.minimum = 4]}

Props == {None, [key \in {} |-> Any]} \union {[key \in {"a"} |-> l] : l \in {String, Integer, Any}}
Objs ==
  {[Any EXCEPT !.type = t, !.properties = p, !.required = r, !.closed = c] :
     t \in {"object", ""}, p \in Props, r \in {{}, {"a"}, {"b"}}, c \in BOOLEAN}
FewObjs ==
  {[Any EXCEPT !.type = "object", !.properties = [key \in {p} |-> l]] : p \in {"a", "b"}, l \in {String, Number}}
Deep == {[Any EXCEPT !.type = "object", !.properties = [key \in {"a"} |-> o]] : o \in FewObjs}
Tuples ==
  {[Any EXCEPT !.type = t, !.prefixItems = p, !.items = i] :
     t \in {"array", ""}, p \in {<<>>, <<String>>, <<Number, String>>},
     i \in {None, Integer, Number} \union FewObjs}

Parts == {String, Integer, Number, Any} \union FewObjs
Composed ==
  UNION {{[Any EXCEPT !.anyOf = <<x, y>>], [Any EXCEPT !.oneOf = <<x, y>>], [Any EXCEPT !.allOf = <<x, y>>]} :
           x, y \in Parts}
Conditional ==
  {[Any EXCEPT !.if = c, !.then = x, !.else = y] :
     c \in {Number} \union FewObjs, x \in {None, Integer} \union FewObjs, y \in {None, String}}

MCSchemas == {None} \union Leaves \union Objs \union Deep \union Tuples \union Composed \union Conditional
=============================================================================
