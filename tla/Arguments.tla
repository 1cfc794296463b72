------------------------------- MODULE Arguments -------------------------------
(*****************************************************************************)
(* A proposal's arguments against the schema of its action class             *)
(* (BoundedSchemaValidator, envelope/arguments.py).                          *)
(*                                                                           *)
(* A schema is a function too, from the paths that have a subschema to the   *)
(* keywords used there: each with whether its value has the shape the        *)
(* evaluator can act on (shaped), and what it then says (is): a type name,   *)
(* names, scalars, a flag, the strings a pattern is found in, or a bound in  *)
(* halves.  What "properties" says is which longer paths there are.          *)
(*****************************************************************************)
EXTENDS Canonical

SupportedKeywords == {"type", "properties", "required", "enum", "additionalProperties",
                      "pattern", "minimum", "maximum"}

Supports(sub, keyword) == keyword \in SupportedKeywords /\ sub[keyword].shaped

\* _KEYWORD_SHAPES: what a keyword can say.
JSONTypes == {"object", "array", "string", "integer", "number", "boolean", "null"}

KeywordShapes ==
  [type |-> JSONTypes, properties |-> SUBSET STRING, required |-> SUBSET STRING,
   enum |-> SUBSET Values, additionalProperties |-> BOOLEAN, pattern |-> SUBSET STRING,
   minimum |-> Int, maximum |-> Int]

IsSchema(schema) ==
  /\ IsRooted(schema)
  /\ \A p \in DOMAIN schema : \A keyword \in SupportedKeywords \cap DOMAIN schema[p] :
       schema[p][keyword].shaped => schema[p][keyword].is \in KeywordShapes[keyword]

Says(sub, keyword) == keyword \in DOMAIN sub /\ sub[keyword].shaped

\* Bug: only the keywords of the outermost schema are looked at.
UnsupportedAtTop(schema) ==
  {<<<<>>, "unsupported_schema", keyword>> :
     keyword \in {k \in DOMAIN schema[<<>>] : ~Supports(schema[<<>>], k)}}

\* _unsupported_keywords: keywords it does not know, and known ones whose value
\* it could not act on, at every depth.
Unsupported(schema) ==
  UNION {{<<p, "unsupported_schema", keyword>> :
            keyword \in {k \in DOMAIN schema[p] : ~Supports(schema[p], k)}} : p \in DOMAIN schema}

-------------------------------------------------------------------------------
(* The check itself.                                                         *)

\* Bug: a JSON number is taken for a Python float.
IsTypeFloatly(x, type) ==
  CASE type = "object" -> x.kind = "dict"
    [] type = "integer" -> x.kind = "int"
    [] type = "number" -> x.kind \in {"float", "infinity"}
    [] OTHER -> x.kind = type

\* _is_type.  A bool is no number, and only a dict is an object: a mapping proxy
\* is not.
IsType(x, type) ==
  CASE type = "object" -> x.kind = "dict"
    [] type = "array" -> IsSequence(x)
    [] type = "integer" -> x.kind = "int"
    [] type = "number" -> x.kind \in {"int", "float", "infinity"}
    [] type = "boolean" -> x.kind = "bool"
    [] OTHER -> x.kind = type

\* Numbers, in halves; to Python's == a bool is one.
Halves(x) ==
  CASE x.kind = "int" -> 2 * x.n
    [] x.kind = "float" -> x.halves
    [] x.kind = "bool" -> IF x.truth THEN 2 ELSE 0

PyEqual(x, y) ==
  IF {x.kind, y.kind} \subseteq {"int", "float", "bool"} THEN Halves(x) = Halves(y) ELSE x = y

\* The keywords about what stands here that it breaks; _check_bounds has none for
\* a bool and for what is no number.
Breaks(x, sub) ==
  {keyword \in {k \in {"enum", "pattern", "minimum", "maximum"} : Says(sub, k)} :
     LET says == sub[keyword].is IN
     CASE keyword = "enum" -> ~\E choice \in says : PyEqual(x, choice)
       [] keyword = "pattern" -> x.kind = "string" /\ x.text \notin says
       [] keyword = "minimum" -> x.kind \in {"int", "float"} /\ Halves(x) < says
       [] keyword = "maximum" ->
            x.kind = "infinity" \/ (x.kind \in {"int", "float"} /\ Halves(x) > says)}

IsMistyped(x, sub) == Says(sub, "type") /\ ~IsType(x, sub["type"].is)

\* _check descends along the properties of both, through mappings of the right
\* type: nothing is looked at below a value of the wrong one.
Descends(v, schema, p) ==
  /\ p \in DOMAIN v \cap DOMAIN schema
  /\ \A n \in 0..(Len(p) - 1) :
       LET q == SubSeq(p, 1, n) IN ~IsMistyped(v[q], schema[q]) /\ IsMapping(v[q])

Missing(v, schema, p) ==
  {n \in IF Says(schema[p], "required") THEN schema[p]["required"].is ELSE {} :
     Append(p, n) \notin DOMAIN v}

Undeclared(v, schema, p) ==
  {q \in DOMAIN v \ DOMAIN schema :
     /\ Says(schema[p], "additionalProperties") /\ ~schema[p]["additionalProperties"].is
     /\ Len(q) = Len(p) + 1 /\ IsPrefix(p, q)}

\* _check and _check_object, for the subschema at p.
CheckAt(v, schema, p) ==
  IF IsMistyped(v[p], schema[p]) THEN {<<p, "wrong_type", schema[p]["type"].is>>}
  ELSE {<<p, "breaks", keyword>> : keyword \in Breaks(v[p], schema[p])} \cup
       IF ~IsMapping(v[p]) THEN {} ELSE
         {<<Append(p, n), "missing_argument", n>> : n \in Missing(v, schema, p)} \cup
         {<<q, "undeclared_argument", Last(q)>> : q \in Undeclared(v, schema, p)}

Check(v, schema) ==
  UNION {CheckAt(v, schema, p) : p \in {q \in DOMAIN v : Descends(v, schema, q)}}

\* validate: a schema it cannot wholly apply is reported instead of the arguments.
Violations(arguments, schema) ==
  IF Unsupported(schema) # {} THEN Unsupported(schema) ELSE Check(arguments, schema)
===============================================================================
