-------------------------------- MODULE Gateway --------------------------------
(*****************************************************************************)
(* One action on its way through a gateway: the class is looked up in the    *)
(* registry that is loaded, the request is assembled against that class,     *)
(* evaluated, recorded and answered, and resubmitted when the answer says    *)
(* so, while the operator reloads the registry at any moment.                *)
(*                                                                           *)
(* The loader, the resolver, the pipeline's rules and the projection are the *)
(* code's own.  The gateway that calls them is not built: its actions are    *)
(* the calls those parts allow, in the order their types force.              *)
(*****************************************************************************)
EXTENDS Registry, AgentResponse

CONSTANTS
  Documents,       \* registry documents, each with the digest it is pinned to
  Keys,            \* (tool, intent) pairs an agent may propose
  Answers,         \* what a critic may answer: a result, and whether repairable
  Statuses,        \* what a fact provider may report
  HarnessReasons,  \* what the harness itself may fail at
  Arguments,       \* argument maps a proposal may carry
  None

\* What the types of the fields leave possible (ActionClass, CriticRef, CriticOutcome,
\* ResolutionRequest).
ASSUME GatewayAssumption ==
  /\ MaxReasonCodes \in Nat \ {0}
  /\ \A code \in HarnessReasons : IsInfrastructure(code)
  /\ \A a \in Answers : a.result \in {"PASS", "FAIL", "NOT_APPLICABLE"} \cup Indeterminate
  /\ \A offer \in Documents : \A i \in DOMAIN offer.document.classes :
       LET c == offer.document.classes[i] IN
       /\ c.mode \in Modes
       /\ \A j \in DOMAIN c.critics : c.critics[j].mode \in Modes

VARIABLES
  registry,   \* the ActionClassRegistry in force, None before the first
  call,       \* the action: its key, its class as looked up, its iteration
  request,    \* the ResolutionRequest
  outcome,    \* the EvaluationOutcome
  response    \* the AgentResponse

vars == <<registry, call, request, outcome, response>>

Init ==
  /\ registry = None
  /\ call = None
  /\ request = None
  /\ outcome = None
  /\ response = None

\* Every document may be offered at any time; only what loads replaces the old.
Loadable ==
  {offer.document : offer \in {o \in Documents : Loads(o.document, o.expected)}}

Reload ==
  /\ registry' \in Loadable
  /\ UNCHANGED <<call, request, outcome, response>>

-------------------------------------------------------------------------------
(* Looking the class up.                                                     *)

Classes == UNION {ToSet(offer.document.classes) : offer \in Documents}
Calls == [key : Keys, class : Classes \cup {None}, iteration : 0..MaxRepairBudget]

\* An outcome without a record: the error's reason, whatever was resolved.  The
\* mode of an outcome is what its record and its token bind, for the properties.
Unrecorded(mode, reason) ==
  [verdict |-> "ABSTAIN", reasons |-> {<<reason, "none">>}, mode |-> mode,
   recorded |-> FALSE, token |-> FALSE]

ASSUME NoneAssumption ==
  /\ None \notin Classes \cup Calls
  /\ None # Unrecorded("enforce", "ACTION_CLASS_UNREGISTERED")

Begin(key, iteration) ==
  \/ /\ LookUp(registry, key) = "class"
     /\ call' = [key |-> key, class |-> ClassOf(registry, key), iteration |-> iteration]
     /\ outcome' = None
  \* UnregisteredActionClassError, which the gateway answers.
  \/ /\ LookUp(registry, key) = "refused"
     /\ call' = [key |-> key, class |-> None, iteration |-> iteration]
     /\ outcome' = Unrecorded("enforce", "ACTION_CLASS_UNREGISTERED")

Propose ==
  /\ registry # None
  /\ call = None
  /\ \E key \in Keys : Begin(key, 0)
  /\ UNCHANGED <<registry, request, response>>

-------------------------------------------------------------------------------
(* Assembling the request against that class.                                *)

Outcome(critic, answer) ==
  [id |-> critic.name, result |-> answer.result, hard |-> critic.hard, mode |-> critic.mode,
   repairable |-> answer.repairable, reason |-> "default"]
Fact(fact, status) ==
  [name |-> fact.name, status |-> status, required |-> fact.required,
   escalatable |-> fact.escalatable]

\* Every critic answers once and every fact is reported once, by name.
ByName(refs) == {refs[i].name : i \in DOMAIN refs}
Named(refs, name) == refs[CHOOSE i \in DOMAIN refs : refs[i].name = name]

Assembling == call # None /\ request = None /\ outcome = None

FactsOf(class, report) ==
  {Fact(Named(class.facts, name), report[name]) : name \in ByName(class.facts)}

Assemble ==
  /\ Assembling
  /\ \E said \in [ByName(call.class.critics) -> Answers],
        report \in [ByName(call.class.facts) -> Statuses],
        broken \in SUBSET HarnessReasons,
        limited, required, satisfied \in BOOLEAN :
       /\ \A f \in FactsOf(call.class, report) : MayBeStated(call.class, f)
       /\ request' =
            [policy |-> call.class,
             critics |-> {Outcome(Named(call.class.critics, name), said[name]) :
                            name \in ByName(call.class.critics)},
             facts |-> FactsOf(call.class, report),
             infrastructure |-> broken,
             iteration |-> call.iteration,
             rateLimited |-> limited,
             approvalRequired |-> required,
             approvalSatisfied |-> satisfied]
  /\ UNCHANGED <<registry, call, outcome, response>>

\* ConfigurationError: no outcome, no record, no answer.
FactIsRefused ==
  /\ Assembling
  /\ \E i \in DOMAIN call.class.facts, status \in Statuses :
       ~MayBeStated(call.class, Fact(call.class.facts[i], status))
  /\ call' = None
  /\ UNCHANGED <<registry, request, outcome, response>>

-------------------------------------------------------------------------------
(* evaluate().  The context's mode comes from the registry a second time, so *)
(* it is the class's as looked up or as it has become since.                 *)

ModesNow ==
  {call.class.mode} \cup
    IF Registered(registry, call.key) THEN {ClassOf(registry, call.key).mode} ELSE {}

\* Bug: nothing compares the two.
ModeAgreesAlways(q, mode) == TRUE

ModeAgrees(q, mode) == mode = q.policy.mode

\* Bug: the record takes any number of reason codes.
RecordableAlways(q) == TRUE

\* The record's schema bounds what the resolver does not: its reason codes.
Recordable(q) == Cardinality(Resolve(q).reasons) <= MaxReasonCodes

Recorded(q, mode, token) ==
  [verdict |-> Resolve(q).verdict, reasons |-> Resolve(q).reasons, mode |-> mode,
   recorded |-> TRUE, token |-> token]

\* What the mint is asked about: this resolution under this mode.
Asked(q, mode) ==
  [mode |-> mode, verdict |-> Resolve(q).verdict,
   infrastructure |-> \E code \in Resolve(q).reasons : IsInfrastructure(code)]

\* Bug: the outcome keeps the verdict that was resolved.
EvaluatesKeepingVerdict(q, mode) ==
  \/ outcome' = [Recorded(q, mode, FALSE) EXCEPT !.recorded = FALSE]
  \/ \E token \in BOOLEAN :
       /\ ModeAgrees(q, mode)
       /\ token => WithholdingReason(Asked(q, mode)) = "none"
       /\ outcome' = Recorded(q, mode, token)

\* The record cannot be built, or cannot be written; or it is, and the token is
\* minted unless there is a reason to withhold it or its issuance fails.
Evaluates(q, mode) ==
  \/ /\ ~ModeAgrees(q, mode) \/ ~Recordable(q)
     /\ outcome' = Unrecorded(mode, "SCHEMA_INVALID")
  \/ /\ ModeAgrees(q, mode) /\ Recordable(q)
     /\ outcome' = Unrecorded(mode, "EVIDENCE_UNAVAILABLE")
  \/ /\ ModeAgrees(q, mode) /\ Recordable(q)
     /\ \E token \in BOOLEAN :
          /\ token => WithholdingReason(Asked(q, mode)) = "none"
          /\ outcome' = Recorded(q, mode, token)

Evaluate ==
  /\ request # None
  /\ outcome = None
  /\ \E mode \in ModesNow : Evaluates(request, mode)
  /\ UNCHANGED <<registry, call, request, response>>

-------------------------------------------------------------------------------
(* The answer, and what follows it.                                          *)

\* The critics' counterexamples, an approval handle, the broker's result.
Offers == [counterexamples : SUBSET Counterexamples, approvalRef : BOOLEAN, result : BOOLEAN]

\* The mode is whatever the caller says: an outcome has none to compare it with.
Project ==
  /\ outcome # None
  /\ response = None
  /\ \E mode \in Modes, o \in Offers :
       /\ Projects(outcome, mode, o.counterexamples, o.approvalRef, o.result)
       /\ response' = Projected(outcome, mode, o.counterexamples, o.approvalRef, o.result)
  /\ UNCHANGED <<registry, call, request, outcome>>

\* A REPAIR answer brings the action back, with whatever class it has by then.
Resubmit ==
  /\ response # None
  /\ IsRepairable(response)
  /\ Begin(call.key, call.iteration + 1)
  /\ request' = None
  /\ response' = None
  /\ UNCHANGED registry

\* The agent turns to another action.
Finish ==
  /\ response # None
  /\ call' = None
  /\ request' = None
  /\ outcome' = None
  /\ response' = None
  /\ UNCHANGED registry

Next ==
  \/ Reload
  \/ Propose
  \/ Assemble
  \/ FactIsRefused
  \/ Evaluate
  \/ Project
  \/ Resubmit
  \/ Finish

Spec == Init /\ [][Next]_vars

-------------------------------------------------------------------------------
(* Properties.                                                               *)

TypeOK ==
  /\ registry = None \/ \E offer \in Documents : registry = offer.document
  /\ call # None /\ call.class # None =>
       /\ call.class.mode \in Modes
       /\ call.class.budget \in 0..MaxRepairBudget
       /\ call.iteration \in 0..MaxRepairBudget
  /\ request # None => call # None /\ request.policy = call.class
  /\ outcome # None => call # None /\ outcome.verdict \in Verdicts /\ outcome.mode \in Modes
  /\ response # None => outcome # None /\ response.verdict = outcome.verdict

\* FR-42, FR-33: a question put to a human is one the class, as it was looked up,
\* lets a human answer, and has somebody named to answer it; whatever could not
\* be evaluated is among what that class escalates.
EscalationsHaveAnOwner ==
  outcome # None /\ outcome.verdict = "REQUIRES_APPROVAL" =>
    /\ call.class.approvable
    /\ call.class.groups # {}
    /\ ~TakesFastPath(call.class.effect)
    /\ \A code \in outcome.reasons :
         code[1] = "APPROVAL_REQUIRED" \/ code[1] \in call.class.escalateOn

\* registry/models.py: a critic that would "quietly stop blocking" is not loaded.
\* A token of an enforcing class means that every hard critic the class lists
\* answered and passed, unless the class itself says shadow or advisory of it.
NoGateIsDisarmed ==
  outcome # None /\ outcome.token /\ call.class.mode = "enforce" =>
    \A i \in DOMAIN call.class.critics :
      LET c == call.class.critics[i] IN
      c.hard /\ c.mode \notin {"shadow", "advisory"} =>
        \E o \in request.critics :
          o.id = c.name /\ o.hard /\ o.result \in {"PASS", "NOT_APPLICABLE"}

\* FR-21, INV-11: a token exists only where the mode the class was resolved under
\* allows one, whatever the class's mode has become by the time of the mint, and
\* it binds that mode.
TokenBindsResolvedMode ==
  outcome # None /\ outcome.token =>
    /\ outcome.mode = call.class.mode
    /\ WithholdingReason(Asked(request, call.class.mode)) = "none"

\* Specification 5.3: a decision that was not recorded was not made.  Its answer
\* is an abstention for an infrastructure reason: nothing to retry, to approve,
\* to learn from or to show for it, whatever mode the projection is given.
UnrecordedTellsNothing ==
  response # None /\ ~outcome.recorded =>
    /\ response.verdict = "ABSTAIN"
    /\ \A code \in response.reasons : IsInfrastructure(code)
    /\ ~IsRepairable(response)
    /\ response.counterexamples = {}
    /\ ~response.approvalRef
    /\ ~response.result

\* By the time of the answer an outcome is recorded, and perhaps authorised and
\* carried out: too late to refuse it.  So every outcome fits the response, in
\* any mode the caller names, and with its result if it has a token (of
\* counterexamples, which are the caller's, it can have none): what the
\* resolver left unexplained or the record had no room for never got this far
\* (response/agent.py: the bounds "are the decision record's own").
EveryOutcomeIsAnswerable ==
  outcome # None => \A mode \in Modes :
    /\ Projects(outcome, mode, {}, FALSE, FALSE)
    /\ outcome.token => Projects(outcome, mode, {}, FALSE, TRUE)

\* Section 5.4: an action comes back only after a recorded REPAIR, within the
\* budget of the class that was evaluated, whatever the registry says by then.
ResubmissionsAreEarned ==
  [][call # None /\ call' # None /\ call'.iteration # call.iteration =>
       /\ outcome.recorded
       /\ outcome.verdict = "REPAIR"
       /\ call'.iteration = call.iteration + 1
       /\ call'.iteration <= call.class.budget]_vars

\* FR-34: where the registry has a catalogue, a lease of a class whose template
\* spells its kinds out names a kind and an id of that catalogue: two spellings
\* of one resource would be two leases.
LeasesAreCanonical ==
  registry # None /\ DOMAIN registry.enumerations # {} =>
    \A i \in DOMAIN registry.classes, arguments \in Arguments :
      LET template == registry.classes[i].template
          key == Rendered(template, arguments)
      IN Renders(template, arguments, registry.enumerations) =>
           \A j \in DOMAIN key : ~template[j].kind.placeholder =>
             /\ key[j].kind \in DOMAIN registry.enumerations
             /\ key[j].id \in ToSet(registry.enumerations[key[j].kind])
===============================================================================
