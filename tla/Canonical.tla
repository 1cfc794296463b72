------------------------------- MODULE Canonical -------------------------------
(*****************************************************************************)
(* JSON as the harness reads it, writes it and identifies it: parse_json and *)
(* canonicalize (canonical/jcs.py), the two digests (canonical/digest.py).   *)
(*                                                                           *)
(* A document is a function from the paths in it to what stands there: a     *)
(* scalar, or that an object or an array begins.  A value is a document of   *)
(* Python objects, a form is a document of JSON literals.  Members have no   *)
(* order in either: there is one canonical order, so a canonical text is     *)
(* told by its members.  SHA-256 is taken to be injective: a digest is the   *)
(* text it is taken over.  Floats are counted in halves.                     *)
(*****************************************************************************)
EXTENDS Integers, SequencesExt

CONSTANTS
  Unencodable,   \* strings with an unpaired surrogate
  SafeBound,     \* SAFE_INTEGER_BOUND
  PlainBound,    \* 10^21: from there on a float is written with an exponent
  MaxDepth       \* DEFAULT_MAX_DEPTH

ASSUME CanonicalAssumption ==
  SafeBound \in Nat /\ PlainBound \in Nat /\ SafeBound < PlainBound /\ MaxDepth \in Nat

\* What may stand in a value.  A model freezes its dicts into mapping proxies and
\* its lists into tuples.
Null == [kind |-> "null"]
Bool(b) == [kind |-> "bool", truth |-> b]
IntOf(n) == [kind |-> "int", n |-> n]
FloatOf(h) == [kind |-> "float", halves |-> h]
Infinity == [kind |-> "infinity"]
Str(s) == [kind |-> "string", text |-> s]
Dict == [kind |-> "dict"]
Proxy == [kind |-> "proxy"]
List == [kind |-> "list"]
Tuple == [kind |-> "tuple"]

IsMapping(x) == x.kind \in {"dict", "proxy"}
IsSequence(x) == x.kind \in {"list", "tuple"}

\* What may stand in a form, besides null, a bool and a string.
Object == [kind |-> "object"]
Array == [kind |-> "array"]
Literal(n) == [kind |-> "literal", n |-> n]
Decimal(h) == [kind |-> "decimal", halves |-> h]

\* A document holds every path on the way to one it holds.
IsRooted(v) ==
  /\ <<>> \in DOMAIN v
  /\ \A p \in DOMAIN v : p \in Seq(STRING) /\ \A n \in 0..Len(p) : SubSeq(p, 1, n) \in DOMAIN v

Common == {Null} \cup [kind : {"bool"}, truth : BOOLEAN] \cup [kind : {"string"}, text : STRING]

Values ==
  Common \cup [kind : {"infinity", "dict", "proxy", "list", "tuple"}]
         \cup [kind : {"int"}, n : Int] \cup [kind : {"float"}, halves : Int]

Literals ==
  Common \cup [kind : {"huge", "constant", "object", "array"}]
         \cup [kind : {"literal"}, n : Int] \cup [kind : {"decimal"}, halves : Int]

IsForm(form) == IsRooted(form) /\ \A p \in DOMAIN form : form[p] \in Literals

\* A document of one path, and one document beside another.
At(p, x) == [q \in {p} |-> x]
v ++ w == [p \in DOMAIN v \cup DOMAIN w |-> IF p \in DOMAIN v THEN v[p] ELSE w[p]]

\* What stands below a path, and a document put below one.
Below(v, root) ==
  [p \in {SubSeq(q, Len(root) + 1, Len(q)) : q \in {r \in DOMAIN v : IsPrefix(root, r)}} |->
     v[root \o p]]

Under(root, v) ==
  [p \in {root \o q : q \in DOMAIN v} |-> v[SubSeq(p, Len(root) + 1, Len(p))]]

-------------------------------------------------------------------------------
(* Reading (parse_json).  A text is what its members say when they are read  *)
(* for the first time, and what the members written once more say.           *)

Once(form) == [first |-> form, again |-> [p \in {} |-> Null]]

Understood(x) ==
  CASE x.kind = "literal" -> IntOf(x.n)
    [] x.kind = "decimal" -> FloatOf(x.halves)
    [] x.kind = "huge" -> Infinity                   \* 1e400
    [] x.kind = "object" -> Dict
    [] x.kind = "array" -> List
    [] OTHER -> x

\* A parser that keeps the first of a repeated key.
FirstReading(t) == [p \in DOMAIN t.first |-> Understood(t.first[p])]

\* json.loads keeps the last, and nothing of what stood there.
Overwritten(t) == {p \in DOMAIN t.first : \E q \in DOMAIN t.again : IsPrefix(q, p)}
Value(t) ==
  [p \in (DOMAIN t.first \ Overwritten(t)) \cup DOMAIN t.again |->
     Understood(IF p \in DOMAIN t.again THEN t.again[p] ELSE t.first[p])]

\* Bug: a repeated key is left to json.loads.
ParsesRepeated(t) == \A form \in {t.first, t.again} : \A p \in DOMAIN form : form[p].kind # "constant"

\* reject_duplicate_keys, and _reject_constant: NaN and Infinity are no JSON.
Parses(t) == DOMAIN t.again = {} /\ \A p \in DOMAIN t.first : t.first[p].kind # "constant"

-------------------------------------------------------------------------------
(* Writing (canonicalize).                                                   *)

\* What _write, _escape_string and _format_float refuse.
Writable(v) ==
  \A p \in DOMAIN v :
    /\ v[p].kind # "infinity"
    /\ v[p].kind = "string" => v[p].text \notin Unencodable
    /\ \A i \in DOMAIN p : p[i] \notin Unencodable
    /\ IsMapping(v[p]) \/ IsSequence(v[p]) => Len(p) < MaxDepth

\* A whole float below 10^21 has neither fraction nor exponent: it reads back as
\* an int.  An int keeps all its digits.
FormatFloat(h) ==
  IF h % 2 = 0 /\ h < 2 * PlainBound /\ -h < 2 * PlainBound THEN Literal(h \div 2) ELSE Decimal(h)

Form(x) ==
  CASE x.kind = "int" -> Literal(x.n)
    [] x.kind = "float" -> FormatFloat(x.halves)
    [] IsMapping(x) -> Object
    [] IsSequence(x) -> Array
    [] OTHER -> x

Canonicalize(v) == [p \in DOMAIN v |-> Form(v[p])]

\* json.dumps, what another encoder may send of the document: floats as floats.
Dumps(v) == [p \in DOMAIN v |-> IF v[p].kind = "float" THEN Decimal(v[p].halves) ELSE Form(v[p])]

-------------------------------------------------------------------------------
(* Identifying (digest_value, proposal_digest, envelope_digest).             *)

\* Bug: the rule is phrased over the Python type.
IsUnsafeInt(x) == x.kind = "int" /\ (x.n > SafeBound \/ -x.n > SafeBound)

\* renders_as_unsafe_integer: the test is on the canonical form.
RendersAsUnsafeInteger(x) ==
  /\ x.kind \in {"int", "float"}
  /\ Form(x).kind = "literal"
  /\ Form(x).n > SafeBound \/ -Form(x).n > SafeBound

\* _reject_unsafe_numbers, and then whatever canonicalize refuses.
HasDigest(v) == Writable(v) /\ \A p \in DOMAIN v : ~RendersAsUnsafeInteger(v[p])

Digest(v) == Canonicalize(v)

\* Bug: the delegation chain is forgotten, and all of the actor is taken.
ForgetfulProjection == {
  <<"proposal", "tool">>, <<"proposal", "intent">>, <<"proposal", "arguments">>,
  <<"context", "actor", "agent_id">>, <<"context", "actor", "principal">>,
  <<"context", "actor", "environment">>, <<"context", "policy_bundle", "digest">>}
GreedyProjection == {
  <<"proposal", "tool">>, <<"proposal", "intent">>, <<"proposal", "arguments">>,
  <<"context", "actor">>, <<"context", "policy_bundle", "digest">>}

ProposalDigestProjection == {
  <<"proposal", "tool">>, <<"proposal", "intent">>, <<"proposal", "arguments">>,
  <<"context", "actor", "agent_id">>, <<"context", "actor", "principal">>,
  <<"context", "actor", "delegation_chain">>, <<"context", "actor", "environment">>,
  <<"context", "policy_bundle", "digest">>}

\* _project: the sub-document the paths name, in its own nesting.
Project(v, paths) ==
  [p \in {q \in DOMAIN v : \E path \in paths : IsPrefix(path, q) \/ IsPrefix(q, path)} |-> v[p]]

Projected(envelope) == Project(envelope, ProposalDigestProjection)

\* A path the envelope does not have is an error, never an omitted key.
HasProposalDigest(envelope) ==
  /\ ProposalDigestProjection \subseteq DOMAIN envelope
  /\ HasDigest(Projected(envelope))

ProposalDigest(envelope) == Digest(Projected(envelope))
EnvelopeDigest(envelope) == Digest(envelope)
===============================================================================
