-------------------------------- MODULE Intake ---------------------------------
(*****************************************************************************)
(* A tool call from its text to the broker: stripped, validated, given its   *)
(* context and its two digests, shown to a human, approved, evaluated again  *)
(* beside facts that have moved on, sent, read back and executed (envelope/, *)
(* models/envelope.py, and the Approval of models/record.py).                *)
(*                                                                           *)
(* The parts are the code's own.  The gateway, the approval orchestrator and *)
(* the broker that call them are not built: the actions are the calls the    *)
(* parts are written for.                                                    *)
(*****************************************************************************)
EXTENDS Arguments

CONSTANTS
  Texts,            \* tool calls an agent host may send
  Schemas,          \* argument schemas an action class may have
  MaxStrippedKeys,  \* MAX_STRIPPED_KEYS
  MaxMoves,         \* bound: tool calls, and changes of the world around them
  None

\* An agent host sends an object.  _check_argument_schema (registry/models.py): so
\* are the arguments of every class, and none goes undeclared.
ASSUME IntakeAssumption ==
  /\ MaxStrippedKeys \in Nat /\ MaxMoves \in Nat
  /\ \A t \in Texts : IsForm(t.first) /\ t.first[<<>>] = Object
  /\ \A schema \in Schemas :
       /\ IsSchema(schema)
       /\ Says(schema[<<>>], "type") /\ schema[<<>>]["type"].is = "object"
       /\ Says(schema[<<>>], "additionalProperties")
       /\ ~schema[<<>>]["additionalProperties"].is
  /\ None \notin Texts

VARIABLES
  schema,    \* the class's argument_schema
  world,     \* what the harness knows about the actor, the class and the facts
  moves,     \* tool calls and changes so far
  text,      \* the tool call at hand, None before the first
  approval,  \* the Approval record, with the ask that was shown to the approver
  token,     \* the envelope a token was minted over, with the ask it was approved as
  executed   \* the document the broker acts on

vars == <<schema, world, moves, text, approval, token, executed>>

-------------------------------------------------------------------------------
(* The context the harness adds: what of it an approval rests on, and what   *)
(* may move underneath one.                                                  *)

Ask == {"principal", "hops", "environment", "bundle"}
Churn == {"agent_version", "mode", "fact"}

\* Each at one of two revisions; the fact is stale at 2.
Revisions == 1..2

Hops(w) == {<<"0", "1">>[i] : i \in 1..w.hops}

Actor(w) ==
  At(<<>>, Dict) ++
  At(<<"agent_id">>, Str("agent")) ++
  At(<<"agent_version">>, IntOf(w.agent_version)) ++
  At(<<"principal">>, IntOf(w.principal)) ++
  At(<<"environment">>, IntOf(w.environment)) ++
  At(<<"delegation_chain">>, Tuple) ++
  [p \in {<<"delegation_chain", hop>> : hop \in Hops(w)} |-> Dict] ++
  [p \in {<<"delegation_chain", hop, "principal">> : hop \in Hops(w)} |-> Str(p[2])]

\* A fact that is not fresh is a stub without a value.
Facts(w) ==
  At(<<>>, Tuple) ++
  At(<<"0">>, Dict) ++
  At(<<"0", "status">>, Str(IF w.fact = 2 THEN "stale" ELSE "fresh")) ++
  [p \in IF w.fact = 2 THEN {} ELSE {<<"0", "value">>} |-> IntOf(w.fact)]

\* stripped_proposal_keys is sorted: it is told by its members.
Context(w, stripped) ==
  At(<<>>, Dict) ++
  Under(<<"actor">>, Actor(w)) ++
  Under(<<"facts">>, Facts(w)) ++
  At(<<"action_class">>, Dict) ++
  At(<<"action_class", "mode">>, IntOf(w.mode)) ++
  At(<<"policy_bundle">>, Dict) ++
  At(<<"policy_bundle", "digest">>, IntOf(w.bundle)) ++
  At(<<"stripped_proposal_keys">>, Tuple) ++
  [p \in {<<"stripped_proposal_keys", key>> : key \in stripped} |-> Str(p[2])]

-------------------------------------------------------------------------------
(* What becomes of a tool call.                                              *)

ProposalFields == {"tool", "intent", "arguments", "claims", "batch_dependencies"}

\* strip_context_keys: whatever is no field of Proposal.
Stripped(payload) == {p[1] : p \in {q \in DOMAIN payload : Len(q) = 1}} \ ProposalFields

\* exclude_none: a field without a value is no member.  Claim emits its own.
Proposal(payload) ==
  [p \in {q \in DOMAIN payload :
            q = <<>> \/ (q[1] \in ProposalFields /\ payload[<<q[1]>>] # Null)} |-> payload[p]]

\* freeze_document.
Freeze(v) ==
  [p \in DOMAIN v |-> IF IsMapping(v[p]) THEN Proxy ELSE IF IsSequence(v[p]) THEN Tuple ELSE v[p]]

\* canonical_document, under what the harness knows then.
Envelope(t, w) ==
  Freeze(At(<<>>, Dict) ++
         Under(<<"proposal">>, Proposal(Value(t))) ++
         Under(<<"context">>, Context(w, Stripped(Value(t)))))

HasBothDigests(envelope) == HasProposalDigest(envelope) /\ HasDigest(envelope)

ArgumentsOf(t) == Below(Value(t), <<"arguments">>)

\* Stripping, the models, validation, and then both digests.
Admits(t, w) ==
  /\ Parses(t)
  /\ {<<"tool">>, <<"intent">>, <<"arguments">>} \subseteq DOMAIN Value(t)
  /\ IsMapping(Value(t)[<<"arguments">>])
  /\ Cardinality(Stripped(Value(t))) <= MaxStrippedKeys
  /\ Violations(ArgumentsOf(t), schema) = {}
  /\ HasBothDigests(Envelope(t, w))

-------------------------------------------------------------------------------
(* Proposing, while the world moves.                                         *)

Init ==
  /\ schema \in Schemas
  /\ world = [aspect \in Ask \cup Churn |-> 1]
  /\ moves = 0
  /\ text = None
  /\ approval = None
  /\ token = None
  /\ executed = None

\* A call that is not admitted is refused and leaves nothing behind.
Propose ==
  /\ moves < MaxMoves
  /\ \E t \in {u \in Texts : Admits(u, world)} : text' = t
  /\ moves' = moves + 1
  /\ token' = None
  /\ executed' = None
  /\ UNCHANGED <<schema, world, approval>>

Change(aspects) ==
  /\ moves < MaxMoves
  /\ \E aspect \in aspects : \E r \in Revisions \ {world[aspect]} :
       world' = [world EXCEPT ![aspect] = r]
  /\ moves' = moves + 1
  /\ UNCHANGED <<schema, text, approval, token, executed>>

\* A redeploy, a tuned class, facts fetched again or grown stale.
Churns == Change(Churn)

\* Another principal, a delegation more or less, another environment or bundle.
AsksOtherwise == Change(Ask)

-------------------------------------------------------------------------------
(* The approval, bound to the proposal digest (Approval).                    *)

EnvelopeNow == Envelope(text, world)

\* What a human agrees to, field by field.
AskOf(document) ==
  LET Field(path) == Canonicalize(Below(document, path)) IN
  [tool |-> Field(<<"proposal", "tool">>),
   intent |-> Field(<<"proposal", "intent">>),
   arguments |-> Field(<<"proposal", "arguments">>),
   agent |-> Field(<<"context", "actor", "agent_id">>),
   principal |-> Field(<<"context", "actor", "principal">>),
   chain |-> Field(<<"context", "actor", "delegation_chain">>),
   environment |-> Field(<<"context", "actor", "environment">>),
   bundle |-> Field(<<"context", "policy_bundle">>)]

\* The record keeps two digests; the ask is what the approver is shown (FR-43).
RequestApproval ==
  /\ text # None
  /\ HasBothDigests(EnvelopeNow)
  /\ IF approval = None THEN TRUE ELSE approval.state \in {"rejected", "consumed", "void"}
  /\ approval' = [state |-> "pending", proposal_digest |-> ProposalDigest(EnvelopeNow),
                  policy_bundle_digest |-> world.bundle, ask |-> AskOf(EnvelopeNow)]
  /\ UNCHANGED <<schema, world, moves, text, token, executed>>

\* An expired or superseded request ends as a rejected one does.
Decide ==
  /\ approval # None
  /\ approval.state = "pending"
  /\ \E state \in {"approved", "rejected"} : approval' = [approval EXCEPT !.state = state]
  /\ UNCHANGED <<schema, world, moves, text, token, executed>>

Honoured ==
  /\ approval.proposal_digest = ProposalDigest(EnvelopeNow)
  /\ approval.policy_bundle_digest = world.bundle

\* FR-47: an approval is followed by a fresh evaluation, which consumes or voids
\* it.  The token binds the envelope as it is by now.
Evaluate ==
  /\ approval # None
  /\ approval.state = "approved"
  /\ HasBothDigests(EnvelopeNow)
  /\ IF Honoured
       THEN /\ approval' = [approval EXCEPT !.state = "consumed"]
            /\ token' = [over |-> EnvelopeNow, ask |-> approval.ask]
       ELSE /\ approval' = [approval EXCEPT !.state = "void"]
            /\ token' = None
  /\ executed' = None
  /\ UNCHANGED <<schema, world, moves, text>>

-------------------------------------------------------------------------------
(* The broker, which has bytes and a token, and no model.                    *)

Wires(document) == {Once(Canonicalize(document)), Once(Dumps(document))}

Accepts(wire, digest) ==
  /\ Parses(wire)
  /\ HasDigest(Value(wire))
  /\ EnvelopeDigest(Value(wire)) = digest

Execute ==
  /\ token # None
  /\ executed = None
  /\ \E wire \in {w \in Wires(token.over) : Accepts(w, EnvelopeDigest(token.over))} :
       executed' = Value(wire)
  /\ UNCHANGED <<schema, world, moves, text, approval, token>>

Next ==
  \/ Propose
  \/ Churns
  \/ AsksOtherwise
  \/ RequestApproval
  \/ Decide
  \/ Evaluate
  \/ Execute

Spec == Init /\ [][Next]_vars

-------------------------------------------------------------------------------
(* Properties.                                                               *)

TypeOK ==
  /\ schema \in Schemas
  /\ world \in [Ask \cup Churn -> Revisions]
  /\ moves \in 0..MaxMoves
  /\ text # None => text \in Texts
  /\ approval # None =>
       approval.state \in {"pending", "approved", "rejected", "consumed", "void"}

\* jcs.py: "one logical document always produces one byte string -- here in the
\* gateway, in the broker".  Whatever the gateway digests, the broker digests to
\* the same, from whichever encoding of it arrives.
BrokerAgrees ==
  text # None /\ HasBothDigests(EnvelopeNow) =>
    \A wire \in Wires(EnvelopeNow) :
      /\ Accepts(wire, EnvelopeDigest(EnvelopeNow))
      /\ HasProposalDigest(Value(wire))
      /\ ProposalDigest(Value(wire)) = ProposalDigest(EnvelopeNow)

\* reject_duplicate_keys: "a document with two values for one key has no single
\* meaning".  An admitted call means the same to a parser that keeps the first.
OneMeaning == text # None => FirstReading(text) = Value(text)

\* FR-02: what the gateway's validator accepted, the broker's accepts as well,
\* although a float may have become an int on the way.
ValidationSurvivesTheWire ==
  text # None =>
    \A wire \in Wires(EnvelopeNow) :
      Violations(Below(Value(wire), <<"proposal", "arguments">>), schema) = {}

\* ADR-0024: a schema is wholly applied or refused.  What was accepted meets
\* every keyword of the schema, at every depth, as JSON Schema defines it -- save
\* that to an enumeration true is 1.
HasJsonType(x, type) ==
  CASE type = "object" -> IsMapping(x)
    [] type = "array" -> IsSequence(x)
    [] type = "number" -> x.kind \in {"int", "float", "infinity"}
    [] type = "integer" -> Form(x).kind = "literal"
    [] type = "boolean" -> x.kind = "bool"
    [] OTHER -> x.kind = type

Meets(x, names, keyword, says) ==
  CASE keyword = "type" -> HasJsonType(x, says)
    [] keyword = "enum" -> \E choice \in says : Form(choice) = Form(x) \/ PyEqual(x, choice)
    [] keyword = "pattern" -> x.kind = "string" => x.text \in says
    [] keyword = "minimum" -> x.kind \in {"int", "float"} => Halves(x) >= says
    [] keyword = "maximum" -> x.kind \in {"int", "float"} => Halves(x) <= says
    [] keyword = "required" -> IsMapping(x) => says \subseteq names
    [] OTHER -> TRUE

NamesAt(v, p) == {q[Len(q)] : q \in {r \in DOMAIN v : Len(r) = Len(p) + 1 /\ IsPrefix(p, r)}}

\* Properties apply to objects: what an array holds has no subschema.
Governed(v, s) ==
  {p \in DOMAIN v \cap DOMAIN s : \A n \in 0..(Len(p) - 1) : IsMapping(v[SubSeq(p, 1, n)])}

Satisfies(v, s) ==
  \A p \in Governed(v, s) :
    /\ \A keyword \in DOMAIN s[p] :
         Supports(s[p], keyword) /\ Meets(v[p], NamesAt(v, p), keyword, s[p][keyword].is)
    /\ IsMapping(v[p]) /\ "additionalProperties" \in DOMAIN s[p] =>
         \A n \in NamesAt(v, p) : Append(p, n) \in DOMAIN s \/ s[p]["additionalProperties"].is

AcceptedIsFullyChecked == text # None => Satisfies(ArgumentsOf(text), schema)

\* FR-40, FR-46: what runs on an approval is what the approver was shown, for the
\* principal, the delegations and the environment that were shown, and it is what
\* the gateway evaluated last.
ApprovalMeansWhatWasShown ==
  executed # None =>
    /\ AskOf(executed) = token.ask
    /\ Digest(executed) = Digest(token.over)

\* ADR-0020: an approval is good for as long as the ask is the same, and only then:
\* facts, redeployments, class tuning, claims and stray keys do not void it, and
\* none of the fields shown may move underneath it.
ApprovalFollowsTheAsk ==
  text # None /\ approval # None =>
    (Honoured <=> AskOf(EnvelopeNow) = approval.ask)
===============================================================================
