-------------------------------- MODULE Registry --------------------------------
(*****************************************************************************)
(* The action class registry: what load_registry() accepts, how a class is   *)
(* found, and how a resource key, the identity of a lease, is rendered       *)
(* (registry/loader.py, registry/models.py, registry/resource_keys.py).      *)
(*                                                                           *)
(* Pure operators over a document.  The typing of single fields (patterns,   *)
(* lengths, lower bounds) is left out; digests are the contents they are of; *)
(* in a template a kind or an id is either a text or one placeholder.        *)
(*****************************************************************************)
EXTENDS Resolver, Sequences, SequencesExt

CONSTANTS
  Kinds,         \* the texts that are a resource kind
  Identifiers    \* the texts that are a resource id

ASSUME RegistryAssumption == "" \notin Kinds

-------------------------------------------------------------------------------
(* Templates and resource keys.  A template is a sequence of segments        *)
(* kind:id; a segment without a colon has NoKind.                            *)

Text(t) == [text |-> t, placeholder |-> FALSE]
Argument(a) == [text |-> a, placeholder |-> TRUE]
NoKind == Text("")
NoTemplate == <<>>

Parts(template) == UNION {{s.kind, s.id} : s \in ToSet(template)}
Placeholders(template) == {p.text : p \in {q \in Parts(template) : q.placeholder}}
TemplateKinds(template) ==
  {s.kind.text : s \in {u \in ToSet(template) : u.kind # NoKind /\ ~u.kind.placeholder}}

\* Every placeholder is supplied with an identifier.
Substitutes(template, arguments) ==
  \A a \in Placeholders(template) : a \in DOMAIN arguments /\ arguments[a] \in Identifiers

Filled(part, arguments) == IF part.placeholder THEN arguments[part.text] ELSE part.text
Rendered(template, arguments) ==
  [i \in DOMAIN template |-> [kind |-> Filled(template[i].kind, arguments),
                              id |-> Filled(template[i].id, arguments)]]

IsResourceKey(key) == \A i \in DOMAIN key : key[i].kind \in Kinds /\ key[i].id \in Identifiers

\* A segment whose kind the registry does not enumerate is accepted.
IsKnown(key, enumerations) ==
  \A i \in DOMAIN key :
    key[i].kind \in DOMAIN enumerations => key[i].id \in ToSet(enumerations[key[i].kind])

\* render_template succeeds.
Renders(template, arguments, enumerations) ==
  /\ Substitutes(template, arguments)
  /\ IsResourceKey(Rendered(template, arguments))
  /\ IsKnown(Rendered(template, arguments), enumerations)

EnumerationsAreSound(enumerations) ==
  /\ DOMAIN enumerations \subseteq Kinds
  /\ \A kind \in DOMAIN enumerations :
       /\ enumerations[kind] # <<>>
       /\ IsInjective(enumerations[kind])
       /\ ToSet(enumerations[kind]) \subseteq Identifiers

-------------------------------------------------------------------------------
(* An action class (ActionClass, FactRequirement, CriticRef).                *)

FactEscalationReasons == {"FACT_MISSING", "FACT_STALE"}
TakesFastPath(effect) == effect \in {"none", "read"}

\* (a), (b)
EscalatesWhatAHumanMayAnswer(c) ==
  /\ c.escalateOn \subseteq EscalatableReasons
  /\ c.escalateOn # {} => c.approvable

\* (b2), (b3)
FactEscalationIsAgreed(c) ==
  (\E i \in DOMAIN c.facts : c.facts[i].escalatable)
    <=> c.escalateOn \cap FactEscalationReasons # {}

\* (c)
NoCriticIsHalted(c) == \A i \in DOMAIN c.critics : c.critics[i].mode # "halted"

\* (f), (g)
EffectAllows(c) ==
  /\ TakesFastPath(c.effect) => ~c.approvable /\ c.groups = {}
  /\ c.effect = "destructive" => c.approvable \/ c.mode = "halted"

ApproversAreNamed(c) == c.approvable => c.groups # {}

\* (h)
SchemaIsClosed(c) == c.schema.object /\ c.schema.closed

\* (k): a schema that states no properties declares nothing and refuses nothing.
TemplateIsDeclared(c) ==
  c.template # NoTemplate =>
    /\ Placeholders(c.template) # {}
    /\ c.schema.stated => Placeholders(c.template) \subseteq c.schema.properties

Names(refs) == [i \in DOMAIN refs |-> refs[i].name]

NamesAreUnique(c) ==
  /\ IsInjective(Names(c.critics))
  /\ IsInjective(Names(c.facts))
  /\ \A i \in DOMAIN c.facts : c.facts[i].key # <<>> /\ IsInjective(c.facts[i].key)

BudgetIsBounded(c) == c.budget \in 0..MaxRepairBudget

\* Bugs: one of the rules is forgotten.
ClassIsSoundUnowned(c) ==
  /\ EscalatesWhatAHumanMayAnswer(c) /\ FactEscalationIsAgreed(c) /\ NoCriticIsHalted(c)
  /\ EffectAllows(c) /\ SchemaIsClosed(c) /\ TemplateIsDeclared(c)
  /\ NamesAreUnique(c) /\ BudgetIsBounded(c)
ClassIsSoundHaltable(c) ==
  /\ EscalatesWhatAHumanMayAnswer(c) /\ FactEscalationIsAgreed(c) /\ EffectAllows(c)
  /\ ApproversAreNamed(c) /\ SchemaIsClosed(c) /\ TemplateIsDeclared(c)
  /\ NamesAreUnique(c) /\ BudgetIsBounded(c)

\* ActionClass(...) is accepted.
ClassIsSound(c) ==
  /\ EscalatesWhatAHumanMayAnswer(c)
  /\ FactEscalationIsAgreed(c)
  /\ NoCriticIsHalted(c)
  /\ EffectAllows(c)
  /\ ApproversAreNamed(c)
  /\ SchemaIsClosed(c)
  /\ TemplateIsDeclared(c)
  /\ NamesAreUnique(c)
  /\ BudgetIsBounded(c)

-------------------------------------------------------------------------------
(* The document (load_registry, ActionClassRegistry).                        *)

\* DigestVerifier: the digest is stated, of this content, and the pinned one.
Verifies(d, expected) ==
  /\ d.digest # "none"
  /\ d.digest = d.content
  /\ expected \in {"any", d.digest}

\* (i)
KeysAreUnique(classes) == IsInjective([i \in DOMAIN classes |-> classes[i].key])

\* Bug: kinds are not compared with the catalogue.
KindsAreAny(d) == TRUE

KindsAreKnown(d) ==
  DOMAIN d.enumerations # {} =>
    \A i \in DOMAIN d.classes :
      TemplateKinds(d.classes[i].template) \subseteq DOMAIN d.enumerations

\* The version before anything is read, the digest before any content is trusted.
Loads(d, expected) ==
  /\ d.readable
  /\ ~d.unknownFields
  /\ Verifies(d, expected)
  /\ EnumerationsAreSound(d.enumerations)
  /\ \A i \in DOMAIN d.classes : ClassIsSound(d.classes[i])
  /\ d.versioned
  /\ KeysAreUnique(d.classes)
  /\ KindsAreKnown(d)

\* ActionClassRegistry.resolve: the class, or what an unregistered key gets.
Registered(d, key) == \E i \in DOMAIN d.classes : d.classes[i].key = key
ClassOf(d, key) == d.classes[CHOOSE i \in DOMAIN d.classes : d.classes[i].key = key]
LookUp(d, key) ==
  IF Registered(d, key) THEN "class" ELSE IF d.strict THEN "refused" ELSE "policy_only"
===============================================================================
