------------------------------- MODULE MCGateway -------------------------------
(* Registries of a deployment class in several states of rollout, a class of *)
(* reads, a destructive class, and the same documents with one mistake each. *)
EXTENDS Gateway

Critic(name, hard, mode) == [name |-> name, hard |-> hard, mode |-> mode]
FactRef(escalatable) ==
  [name |-> "ci", key |-> <<"svc", "ver">>, required |-> TRUE, escalatable |-> escalatable]
Segment(kind, id) == [kind |-> kind, id |-> id]

ServiceKey == <<Segment(Text("service"), Argument("svc")), Segment(Text("target"), Text("prod"))>>

\* A deployment that enforces, may be approved, and escalates a stale CI result.
Deploy ==
  [key |-> "deploy", effect |-> "write",
   schema |-> [object |-> TRUE, closed |-> TRUE, stated |-> TRUE, properties |-> {"svc", "ver"}],
   template |-> ServiceKey,
   facts |-> <<FactRef(TRUE)>>,
   critics |-> <<Critic("solver", TRUE, "enforce")>>,
   mode |-> "enforce", approvable |-> TRUE,
   escalateOn |-> {"FACT_STALE", "SOLVER_TIMEOUT"}, budget |-> 1, groups |-> {"ops"}]

Guarded == [Deploy EXCEPT !.approvable = FALSE, !.escalateOn = {}, !.groups = {},
                          !.facts = <<FactRef(FALSE)>>, !.budget = 2,
                          !.critics = @ \o <<Critic("linter", TRUE, "shadow")>>]
Status == [Guarded EXCEPT !.key = "status", !.effect = "read", !.template = NoTemplate,
                          !.facts = <<>>, !.critics = <<Critic("solver", TRUE, "enforce")>>]
Destroy == [Deploy EXCEPT !.key = "destroy", !.effect = "destructive", !.facts = <<>>,
                          !.critics = <<>>, !.escalateOn = {"SOLVER_TIMEOUT"}]

Catalogue == [service |-> <<"api", "web">>, target |-> <<"prod">>]

Document(content, classes) ==
  [readable |-> TRUE, unknownFields |-> FALSE, content |-> content, digest |-> content,
   enumerations |-> Catalogue, classes |-> classes, versioned |-> TRUE, strict |-> TRUE]

Sound == {
  Document("base", <<Deploy, Status>>),
  Document("guarded", <<Guarded, Destroy>>),
  Document("rollout", <<[Deploy EXCEPT !.mode = "shadow",
                                       !.template = <<Segment(Argument("svc"), Argument("ver"))>>]>>),
  [Document("trial", <<[Guarded EXCEPT !.mode = "advisory"]>>) EXCEPT !.strict = FALSE],
  Document("halt", <<[Deploy EXCEPT !.mode = "halted"], Status>>)}

\* A class with one mistake.
Mistaken == {
  [Deploy EXCEPT !.escalateOn = @ \cup {"HARNESS_UNHEALTHY"}],
  [Deploy EXCEPT !.approvable = FALSE],
  [Deploy EXCEPT !.escalateOn = {"SOLVER_TIMEOUT"}],
  [Deploy EXCEPT !.facts = <<FactRef(FALSE)>>],
  [Deploy EXCEPT !.critics = <<Critic("solver", TRUE, "halted")>>],
  [Deploy EXCEPT !.critics = @ \o <<Critic("solver", FALSE, "enforce")>>],
  [Deploy EXCEPT !.effect = "read"],
  [Deploy EXCEPT !.groups = {}],
  [Guarded EXCEPT !.effect = "destructive"],
  [Deploy EXCEPT !.schema.closed = FALSE],
  [Deploy EXCEPT !.template = <<Segment(Text("target"), Text("prod"))>>],
  [Deploy EXCEPT !.template = <<Segment(Text("service"), Argument("who"))>>],
  [Deploy EXCEPT !.template = <<Segment(Text("host"), Argument("svc"))>>],
  [Deploy EXCEPT !.budget = 9]}

Base == Document("base", <<Deploy, Status>>)
Refused ==
  {Document("mistaken", <<c>>) : c \in Mistaken} \cup {
    [Base EXCEPT !.digest = "none"], [Base EXCEPT !.digest = "rollout"],
    [Base EXCEPT !.readable = FALSE], [Base EXCEPT !.unknownFields = TRUE],
    [Base EXCEPT !.versioned = FALSE], [Base EXCEPT !.classes = <<Deploy, Guarded>>],
    [Base EXCEPT !.enumerations = [service |-> <<"api", "api">>]],
    [Base EXCEPT !.enumerations = [service |-> <<>>]]}

Offered(documents, expected) == {[document |-> d, expected |-> expected] : d \in documents}

MCDocuments ==
  Offered(Sound \cup Refused, "any") \cup Offered({Base}, "base")
    \cup Offered({Document("other", <<Guarded>>)}, "base")

MCArguments ==
  [svc : {"api", "db", "two words"}, ver : {"v1"}] \cup [svc : {"web"}] \cup [ver : {"v1"}]

MCAnswers == {
  [result |-> "PASS", repairable |-> FALSE], [result |-> "FAIL", repairable |-> TRUE],
  [result |-> "FAIL", repairable |-> FALSE], [result |-> "TIMEOUT", repairable |-> FALSE]}

MCHarnessReasons == {<<"POLICY_ENGINE_UNAVAILABLE", "none">>}
===============================================================================
