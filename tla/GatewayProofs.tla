----------------------------- MODULE GatewayProofs -----------------------------
(*****************************************************************************)
(* What an action may rely on, for every registry document, every critic,    *)
(* fact and failure, and every moment of a reload.                           *)
(*                                                                           *)
(* The argument: whatever class an action holds was accepted by the loader   *)
(* (CallInv); what is evaluated is made of that class (RequestInv); an       *)
(* outcome is the resolver's under that class's mode, or an abstention       *)
(* nobody recorded (OutcomeInv); a response repeats its outcome.             *)
(*****************************************************************************)
EXTENDS Gateway, FiniteSetTheorems, TLAPS

\* A class the loader accepted.
IsLoaded(c) ==
  /\ ClassIsSound(c)
  /\ c.mode \in Modes
  /\ \A j \in DOMAIN c.critics : c.critics[j].mode \in Modes

\* A request that states every critic of the class, as the class has it.
IsMadeOf(q, c) ==
  /\ q.policy = c
  /\ \A code \in q.infrastructure : IsInfrastructure(code)
  /\ \A i \in DOMAIN c.critics :
       \E answer \in Answers : Outcome(c.critics[i], answer) \in q.critics

RegistryInv ==
  /\ registry = None \/ registry \in Loadable
  /\ call # None => registry \in Loadable

CallInv ==
  /\ call = None => request = None /\ outcome = None /\ response = None
  /\ call # None =>
       /\ call \in Calls
       /\ call.class # None => IsLoaded(call.class)
       /\ call.class = None => outcome # None /\ ~outcome.recorded

RequestInv ==
  request # None =>
    /\ call.class # None
    /\ IsMadeOf(request, call.class)
    /\ request.iteration = call.iteration

\* Resolved, recorded and perhaps authorised; or an abstention.
IsResolution(o, q) ==
  /\ o.recorded
  /\ Recordable(q)
  /\ o.verdict = Resolve(q).verdict
  /\ o.reasons = Resolve(q).reasons
  /\ o.mode = q.policy.mode
  /\ o.token \in BOOLEAN
  /\ o.token => WithholdingReason(Asked(q, o.mode)) = "none"
IsAbstention(o) ==
  /\ ~o.recorded
  /\ ~o.token
  /\ o.verdict = "ABSTAIN"
  /\ \A code \in o.reasons : IsInfrastructure(code)
  /\ \E reason : o.reasons = {reason}
  /\ o.mode \in Modes

OutcomeInv ==
  outcome # None =>
    \/ request # None /\ IsResolution(outcome, request)
    \/ IsAbstention(outcome)

ResponseInv ==
  response # None =>
    /\ outcome # None
    /\ \E mode \in Modes, o \in Offers :
         /\ Projects(outcome, mode, o.counterexamples, o.approvalRef, o.result)
         /\ response = Projected(outcome, mode, o.counterexamples, o.approvalRef, o.result)

IInv == RegistryInv /\ CallInv /\ RequestInv /\ OutcomeInv /\ ResponseInv

-------------------------------------------------------------------------------
(* The registry and the class an action holds.                               *)

LEMMA LoadedClasses ==
  ASSUME NEW d \in Loadable, NEW i \in DOMAIN d.classes
  PROVE  /\ IsLoaded(d.classes[i])
         /\ d.classes[i] \in Classes
<1>1. PICK offer \in Documents : offer.document = d /\ Loads(offer.document, offer.expected)
  BY DEF Loadable
<1>2. ClassIsSound(d.classes[i])
  BY <1>1 DEF Loads
<1>3. /\ d.classes[i].mode \in Modes
      /\ \A j \in DOMAIN d.classes[i].critics : d.classes[i].critics[j].mode \in Modes
  BY <1>1, GatewayAssumption
<1>4. d.classes[i] \in ToSet(offer.document.classes)
  BY <1>1 DEF ToSet
<1> QED
  BY <1>2, <1>3, <1>4 DEF IsLoaded, Classes

LEMMA Finds ==
  ASSUME NEW d, NEW key, Registered(d, key)
  PROVE  \E i \in DOMAIN d.classes : ClassOf(d, key) = d.classes[i]
BY DEF Registered, ClassOf

\* What is answered for an error is an abstention.
LEMMA ErrorsAbstain ==
  ASSUME NEW mode \in Modes, NEW reason \in InfrastructureReasons
  PROVE  IsAbstention(Unrecorded(mode, reason))
<1> DEFINE code == <<reason, "none">>
           o == Unrecorded(mode, reason)
<1>1. /\ o.verdict = "ABSTAIN" /\ o.reasons = {code} /\ o.mode = mode
      /\ o.recorded = FALSE /\ o.token = FALSE
  BY DEF Unrecorded
<1>2. IsInfrastructure(code)
  BY DEF IsInfrastructure
<1> HIDE DEF o, code
<1>3. \E r : o.reasons = {r}
  BY <1>1
<1> QED
  BY <1>1, <1>2, <1>3 DEF IsAbstention, o

\* A look-up yields a class the loader accepted, or an abstention.
LEMMA BeginsSoundly ==
  ASSUME registry \in Loadable, NEW key \in Keys, NEW n \in 0..MaxRepairBudget,
         Begin(key, n)
  PROVE  /\ call' # None
         /\ call' \in Calls
         /\ call'.iteration = n
         /\ \/ outcome' = None /\ call'.class # None /\ IsLoaded(call'.class)
            \/ outcome' # None /\ call'.class = None /\ IsAbstention(outcome')
<1>1. CASE /\ LookUp(registry, key) = "class"
           /\ call' = [key |-> key, class |-> ClassOf(registry, key), iteration |-> n]
           /\ outcome' = None
  <2>1. PICK i \in DOMAIN registry.classes : ClassOf(registry, key) = registry.classes[i]
    BY <1>1, Finds DEF LookUp
  <2>2. call' \in Calls
    BY <1>1, <2>1, LoadedClasses DEF Calls
  <2>3. call'.class # None
    BY <1>1, <2>1, LoadedClasses, NoneAssumption
  <2> QED
    BY <1>1, <2>1, <2>2, <2>3, LoadedClasses, NoneAssumption
<1>2. CASE /\ LookUp(registry, key) = "refused"
           /\ call' = [key |-> key, class |-> None, iteration |-> n]
           /\ outcome' = Unrecorded("enforce", "ACTION_CLASS_UNREGISTERED")
  <2>1. call' \in Calls
    BY <1>2 DEF Calls
  <2>2. IsAbstention(outcome')
    BY <1>2, ErrorsAbstain DEF InfrastructureReasons, Modes
  <2> QED
    BY <1>2, <2>1, <2>2, NoneAssumption
<1> QED
  BY <1>1, <1>2 DEF Begin

-------------------------------------------------------------------------------
(* One lemma per action that fills in a variable.                            *)

LEMMA NamesIdentify ==
  ASSUME NEW refs, IsInjective(Names(refs)), NEW i \in DOMAIN refs
  PROVE  Named(refs, refs[i].name) = refs[i]
BY DEF IsInjective, Names, Named

LEMMA AssemblesSoundly ==
  ASSUME IsLoaded(call.class), Assemble
  PROVE  IsMadeOf(request', call.class) /\ request'.iteration = call.iteration
<1>1. PICK said \in [ByName(call.class.critics) -> Answers],
           report \in [ByName(call.class.facts) -> Statuses],
           broken \in SUBSET HarnessReasons,
           limited \in BOOLEAN, required \in BOOLEAN, satisfied \in BOOLEAN :
        request' =
          [policy |-> call.class,
           critics |-> {Outcome(Named(call.class.critics, name), said[name]) :
                          name \in ByName(call.class.critics)},
           facts |-> FactsOf(call.class, report),
           infrastructure |-> broken,
           iteration |-> call.iteration,
           rateLimited |-> limited,
           approvalRequired |-> required,
           approvalSatisfied |-> satisfied]
  BY DEF Assemble
<1>2. \A i \in DOMAIN call.class.critics :
        \E answer \in Answers : Outcome(call.class.critics[i], answer) \in request'.critics
  <2> SUFFICES ASSUME NEW i \in DOMAIN call.class.critics
               PROVE  \E answer \in Answers :
                        Outcome(call.class.critics[i], answer) \in request'.critics
    OBVIOUS
  <2> DEFINE name == call.class.critics[i].name
  <2>1. name \in ByName(call.class.critics)
    BY DEF ByName
  <2>2. Named(call.class.critics, name) = call.class.critics[i]
    BY NamesIdentify DEF IsLoaded, ClassIsSound, NamesAreUnique
  <2>3. Outcome(call.class.critics[i], said[name]) \in request'.critics
    BY <1>1, <2>1, <2>2
  <2>4. said[name] \in Answers
    BY <2>1
  <2> QED
    BY <2>3, <2>4
<1>3. /\ request'.policy = call.class
      /\ request'.iteration = call.iteration
      /\ request'.infrastructure \subseteq HarnessReasons
  BY <1>1
<1> QED
  BY <1>2, <1>3, GatewayAssumption DEF IsMadeOf

LEMMA EvaluatesSoundly ==
  ASSUME NEW q, NEW mode \in Modes, Evaluates(q, mode)
  PROVE  IsResolution(outcome', q) \/ IsAbstention(outcome')
<1>1. CASE outcome' = Unrecorded(mode, "SCHEMA_INVALID")
           \/ outcome' = Unrecorded(mode, "EVIDENCE_UNAVAILABLE")
  BY <1>1, ErrorsAbstain DEF InfrastructureReasons
<1>2. CASE ModeAgrees(q, mode) /\ Recordable(q) /\ \E token \in BOOLEAN :
             /\ token => WithholdingReason(Asked(q, mode)) = "none"
             /\ outcome' = Recorded(q, mode, token)
  BY <1>2 DEF IsResolution, Recorded, ModeAgrees
<1> QED
  BY <1>1, <1>2 DEF Evaluates

LEMMA ModesAreModes ==
  ASSUME IInv, request # None
  PROVE  ModesNow \subseteq Modes
<1>1. call # None /\ registry \in Loadable /\ IsLoaded(call.class)
  BY DEF IInv, RegistryInv, CallInv, RequestInv
<1>2. Registered(registry, call.key) => ClassOf(registry, call.key).mode \in Modes
  BY <1>1, Finds, LoadedClasses DEF IsLoaded
<1> QED
  BY <1>1, <1>2 DEF ModesNow, IsLoaded

-------------------------------------------------------------------------------
(* What the resolver's verdicts say of a request made of a loaded class.     *)

\* Under a class that is not halted, a resolution is the real pass's.
LEMMA ResolutionIsThePass ==
  ASSUME NEW q, Resolve(q).reasons # {<<"CLASS_HALTED", "none">>} \/ Resolve(q).verdict # "DENY"
  PROVE  /\ Resolve(q).verdict = ResolvePass(q, TRUE).verdict
         /\ Resolve(q).reasons = ResolvePass(q, TRUE).reasons
<1>1. q.policy.mode # "halted"
  BY DEF Resolve, Decided
<1>2. \E v, r : ResolvePass(q, TRUE) = [verdict |-> v, reasons |-> r, shadow |-> "none"]
  BY DEF ResolvePass, Decided
<1> QED
  BY <1>1, <1>2 DEF Resolve

LEMMA RepairLeavesBudget ==
  ASSUME NEW q, Resolve(q).verdict = "REPAIR", q.iteration \in Nat,
         q.policy.budget \in 0..MaxRepairBudget
  PROVE  q.iteration < q.policy.budget
<1>1. ResolvePass(q, TRUE).verdict = "REPAIR"
  BY ResolutionIsThePass
<1>2. ~BudgetSpent(q)
  BY <1>1 DEF ResolvePass, Decided
<1> QED
  BY <1>2, ResolverAssumption DEF BudgetSpent, Budget

LEMMA OutcomeVerdicts ==
  ASSUME NEW o, NEW q, IsResolution(o, q) \/ IsAbstention(o)
  PROVE  o.verdict \in Verdicts
<1>1. ResolvePass(q, TRUE).verdict \in Verdicts
  BY DEF ResolvePass, Decided, Verdicts
<1>2. Resolve(q).verdict \in Verdicts
  BY <1>1, ResolutionIsThePass DEF Verdicts
<1> QED
  BY <1>2 DEF IsResolution, IsAbstention, Verdicts

\* A question for a human comes from step 6, all of whose abstentions the class
\* escalates, or from step 8.
LEMMA QuestionsAreAllowed ==
  ASSUME NEW q, Resolve(q).verdict = "REQUIRES_APPROVAL"
  PROVE  /\ q.policy.approvable
         /\ \A code \in Resolve(q).reasons :
              code[1] = "APPROVAL_REQUIRED" \/ code[1] \in q.policy.escalateOn
<1>1. /\ ResolvePass(q, TRUE).verdict = "REQUIRES_APPROVAL"
      /\ Resolve(q).reasons = ResolvePass(q, TRUE).reasons
  BY ResolutionIsThePass
<1>2. CASE /\ Infrastructure(q, TRUE) = {}
           /\ MayEscalate(q, TRUE)
           /\ ResolvePass(q, TRUE).reasons = Unevaluated(q, TRUE)
  BY <1>1, <1>2 DEF Unevaluated, MayEscalate
<1>3. CASE /\ q.approvalRequired
           /\ q.policy.approvable
           /\ ResolvePass(q, TRUE).reasons = {<<"APPROVAL_REQUIRED", "rule">>}
  <2>1. <<"APPROVAL_REQUIRED", "rule">>[1] = "APPROVAL_REQUIRED"
    OBVIOUS
  <2>2. \A code \in Resolve(q).reasons : code = <<"APPROVAL_REQUIRED", "rule">>
    BY <1>1, <1>3
  <2>3. \A code \in Resolve(q).reasons : code[1] = "APPROVAL_REQUIRED"
    BY <2>1, <2>2, Zenon
  <2> QED
    BY <1>3, <2>3
<1>4. \/ /\ Infrastructure(q, TRUE) = {}
         /\ MayEscalate(q, TRUE)
         /\ ResolvePass(q, TRUE).reasons = Unevaluated(q, TRUE)
      \/ /\ q.approvalRequired
         /\ q.policy.approvable
         /\ ResolvePass(q, TRUE).reasons = {<<"APPROVAL_REQUIRED", "rule">>}
  BY <1>1 DEF ResolvePass, Decided
<1> QED
  BY <1>2, <1>3, <1>4

\* What is allowed was passed by every critic that blocks.
LEMMA AllowedWasPassed ==
  ASSUME NEW q, Resolve(q).verdict = "ALLOW", NEW o \in q.critics, o.hard, o.mode = "enforce",
         o.result \in {"PASS", "FAIL", "NOT_APPLICABLE"} \cup Indeterminate
  PROVE  o.result \in {"PASS", "NOT_APPLICABLE"}
<1>1. ResolvePass(q, TRUE).verdict = "ALLOW"
  BY ResolutionIsThePass
<1>2. o \in Blocking(q, TRUE)
  BY DEF Blocking, CountsAsHard
<1>3. o.result # "FAIL"
  BY <1>1, <1>2 DEF ResolvePass, Decided, NonRepairable, Repairable, Failures
<1>4. o.result \notin Indeterminate
  <2>1. Abstentions(q, TRUE) = {}
    BY <1>1 DEF ResolvePass, Decided
  <2>2. o.result \in Indeterminate
          => [code |-> ReasonOf(o), source |-> TRUE] \in Abstentions(q, TRUE)
    BY <1>2 DEF Abstentions
  <2> QED
    BY <2>1, <2>2
<1> QED
  BY <1>3, <1>4

-------------------------------------------------------------------------------
(* The invariant.                                                            *)

\* A response that invites a resubmission repeats a recorded REPAIR.
LEMMA InvitationsAreRecorded ==
  ASSUME IInv, response # None, IsRepairable(response)
  PROVE  /\ outcome # None /\ request # None /\ IsResolution(outcome, request)
         /\ Resolve(request).verdict = "REPAIR"
<1>1. outcome # None /\ response.verdict = outcome.verdict
  BY DEF IInv, ResponseInv, Projected
<1>2. (request # None /\ IsResolution(outcome, request)) \/ IsAbstention(outcome)
  BY <1>1 DEF IInv, OutcomeInv
<1>3. outcome.verdict = "REPAIR"
  BY <1>1 DEF IsRepairable, IsTerminal
<1> QED
  BY <1>1, <1>2, <1>3 DEF IsResolution, IsAbstention

\* What is asked back is within the budget of the class that was evaluated.
LEMMA InvitationsAreWithinBudget ==
  ASSUME IInv, response # None, IsRepairable(response)
  PROVE  /\ call # None
         /\ call.key \in Keys
         /\ call.iteration < call.class.budget
         /\ call.iteration + 1 \in 0..MaxRepairBudget
<1>1. /\ request # None
      /\ Resolve(request).verdict = "REPAIR"
  BY InvitationsAreRecorded
<1>2. /\ call # None
      /\ call \in Calls
      /\ IsLoaded(call.class)
      /\ request.policy = call.class
      /\ request.iteration = call.iteration
  BY <1>1 DEF IInv, CallInv, RequestInv, IsMadeOf
<1>3. /\ call.key \in Keys
      /\ call.iteration \in 0..MaxRepairBudget
      /\ call.class.budget \in 0..MaxRepairBudget
  BY <1>2 DEF Calls, IsLoaded, ClassIsSound, BudgetIsBounded
<1>4. call.iteration < call.class.budget
  BY <1>1, <1>2, <1>3, RepairLeavesBudget, ResolverAssumption
<1> QED
  BY <1>2, <1>3, <1>4, ResolverAssumption

LEMMA Inductive == Spec => []IInv
<1>1. Init => IInv
  BY DEF Init, IInv, RegistryInv, CallInv, RequestInv, OutcomeInv, ResponseInv
<1>2. IInv /\ [Next]_vars => IInv'
  <2> SUFFICES ASSUME IInv, [Next]_vars PROVE IInv'
    OBVIOUS
  <2>1. CASE Reload
    <3>1. RegistryInv'
      BY <2>1 DEF Reload, RegistryInv, Loadable
    <3> QED
      BY <2>1, <3>1 DEF Reload, IInv, CallInv, RequestInv, OutcomeInv, ResponseInv
  <2>2. CASE Propose
    <3>1. /\ registry \in Loadable /\ registry' = registry
          /\ request = None /\ request' = None
          /\ response = None /\ response' = None
      BY <2>2 DEF Propose, IInv, RegistryInv, CallInv
    <3>2. PICK key \in Keys : Begin(key, 0)
      BY <2>2 DEF Propose
    <3>3. 0 \in 0..MaxRepairBudget
      BY ResolverAssumption
    <3> QED
      BY <3>1, <3>2, <3>3, BeginsSoundly
         DEF IInv, RegistryInv, CallInv, RequestInv, OutcomeInv, ResponseInv, IsAbstention
  <2>3. CASE Assemble
    <3>1. call # None /\ call.class # None /\ IsLoaded(call.class) /\ outcome = None
      BY <2>3 DEF Assemble, Assembling, IInv, CallInv
    <3>2. IsMadeOf(request', call.class) /\ request'.iteration = call.iteration
      BY <2>3, <3>1, AssemblesSoundly
    <3>3. UNCHANGED <<registry, call, outcome, response>>
      BY <2>3 DEF Assemble
    <3> QED
      BY <3>1, <3>2, <3>3
         DEF IInv, RegistryInv, CallInv, RequestInv, OutcomeInv, ResponseInv
  <2>4. CASE FactIsRefused
    BY <2>4 DEF FactIsRefused, Assembling, IInv, RegistryInv, CallInv, RequestInv, OutcomeInv,
                ResponseInv
  <2>5. CASE Evaluate
    <3>1. /\ request # None /\ outcome = None
          /\ UNCHANGED <<registry, call, request, response>>
      BY <2>5 DEF Evaluate
    <3>2. PICK mode \in ModesNow : Evaluates(request, mode)
      BY <2>5 DEF Evaluate
    <3>3. IsResolution(outcome', request) \/ IsAbstention(outcome')
      BY <3>1, <3>2, ModesAreModes, EvaluatesSoundly
    <3> QED
      BY <3>1, <3>3 DEF IInv, RegistryInv, CallInv, RequestInv, OutcomeInv, ResponseInv
  <2>6. CASE Project
    <3>1. ResponseInv'
      BY <2>6 DEF Project, ResponseInv
    <3>2. call # None
      BY <2>6 DEF Project, IInv, CallInv
    <3> QED
      BY <2>6, <3>1, <3>2 DEF Project, IInv, RegistryInv, CallInv, RequestInv, OutcomeInv
  <2>7. CASE Resubmit
    <3>1. /\ call # None
          /\ call.key \in Keys
          /\ call.iteration + 1 \in 0..MaxRepairBudget
      BY <2>7, InvitationsAreWithinBudget DEF Resubmit
    <3>2. /\ registry \in Loadable /\ registry' = registry
          /\ request' = None
          /\ response' = None
          /\ Begin(call.key, call.iteration + 1)
      BY <2>7, <3>1 DEF Resubmit, IInv, RegistryInv
    <3> QED
      BY <3>1, <3>2, BeginsSoundly
         DEF IInv, RegistryInv, CallInv, RequestInv, OutcomeInv, ResponseInv, IsAbstention
  <2>8. CASE Finish
    BY <2>8 DEF Finish, IInv, RegistryInv, CallInv, RequestInv, OutcomeInv, ResponseInv
  <2>9. CASE UNCHANGED vars
    BY <2>9 DEF vars, IInv, RegistryInv, CallInv, RequestInv, OutcomeInv, ResponseInv
  <2> QED
    BY <2>1, <2>2, <2>3, <2>4, <2>5, <2>6, <2>7, <2>8, <2>9 DEF Next
<1> QED
  BY <1>1, <1>2, PTL DEF Spec

-------------------------------------------------------------------------------
(* The theorems.                                                             *)

\* An answered outcome belongs to a call, a request to the class the call holds,
\* whatever the registry has become since.
THEOREM TypeCorrect == Spec => []TypeOK
<1>1. IInv => TypeOK
  <2> SUFFICES ASSUME IInv PROVE TypeOK
    OBVIOUS
  <2>1. registry = None \/ \E offer \in Documents : registry = offer.document
    BY DEF IInv, RegistryInv, Loadable
  <2>2. call # None /\ call.class # None =>
          /\ call.class.mode \in Modes
          /\ call.class.budget \in 0..MaxRepairBudget
          /\ call.iteration \in 0..MaxRepairBudget
    BY DEF IInv, CallInv, IsLoaded, ClassIsSound, BudgetIsBounded, Calls
  <2>3. request # None => call # None /\ request.policy = call.class
    BY DEF IInv, CallInv, RequestInv, IsMadeOf
  <2>4. outcome # None => call # None /\ outcome.verdict \in Verdicts /\ outcome.mode \in Modes
    <3>1. outcome # None => call # None /\ outcome.verdict \in Verdicts
      BY OutcomeVerdicts DEF IInv, CallInv, OutcomeInv
    <3>2. outcome # None => outcome.mode \in Modes
      BY DEF IInv, CallInv, RequestInv, OutcomeInv, IsMadeOf, IsLoaded, IsResolution, IsAbstention
    <3> QED
      BY <3>1, <3>2
  <2>5. response # None => outcome # None /\ response.verdict = outcome.verdict
    BY DEF IInv, ResponseInv, Projected
  <2> QED
    BY <2>1, <2>2, <2>3, <2>4, <2>5 DEF TypeOK
<1> QED
  BY <1>1, Inductive, PTL

\* FR-42, FR-33: whatever document is loaded, a question put to a human is one its
\* class lets a human answer, and has somebody named to answer it.
THEOREM QuestionsHaveAnOwner == Spec => []EscalationsHaveAnOwner
<1>1. IInv => EscalationsHaveAnOwner
  <2> SUFFICES ASSUME IInv, outcome # None, outcome.verdict = "REQUIRES_APPROVAL"
               PROVE  /\ call.class.approvable
                      /\ call.class.groups # {}
                      /\ ~TakesFastPath(call.class.effect)
                      /\ \A code \in outcome.reasons :
                           code[1] = "APPROVAL_REQUIRED" \/ code[1] \in call.class.escalateOn
    BY DEF EscalationsHaveAnOwner
  <2>1. request # None /\ IsResolution(outcome, request)
    BY DEF IInv, OutcomeInv, IsAbstention
  <2>2. call # None /\ request.policy = call.class /\ ClassIsSound(call.class)
    BY <2>1 DEF IInv, CallInv, RequestInv, IsMadeOf, IsLoaded
  <2>3. /\ request.policy.approvable
        /\ \A code \in Resolve(request).reasons :
             code[1] = "APPROVAL_REQUIRED" \/ code[1] \in request.policy.escalateOn
    BY <2>1, QuestionsAreAllowed DEF IsResolution
  <2> QED
    BY <2>1, <2>2, <2>3 DEF IsResolution, ClassIsSound, ApproversAreNamed, EffectAllows
<1> QED
  BY <1>1, Inductive, PTL

\* What a token's existence says of the request: an enforcing class was allowed.
LEMMA EnforcedTokensWereAllowed ==
  ASSUME NEW q, NEW mode, mode = "enforce", WithholdingReason(Asked(q, mode)) = "none"
  PROVE  Resolve(q).verdict = "ALLOW"
BY DEF WithholdingReason, Asked, BlocksOnVerdict, PermitsExecution

\* FR-32: under every document the loader accepts, a token of an enforcing class
\* means that each hard critic the class enforces answered and passed.
THEOREM GatesStayArmed == Spec => []NoGateIsDisarmed
<1>1. IInv => NoGateIsDisarmed
  <2> SUFFICES ASSUME IInv, outcome # None, outcome.token, call.class.mode = "enforce",
                      NEW i \in DOMAIN call.class.critics,
                      call.class.critics[i].hard,
                      call.class.critics[i].mode \notin {"shadow", "advisory"}
               PROVE  \E o \in request.critics :
                        /\ o.id = call.class.critics[i].name
                        /\ o.hard
                        /\ o.result \in {"PASS", "NOT_APPLICABLE"}
    BY DEF NoGateIsDisarmed
  <2> DEFINE c == call.class.critics[i]
  <2>1. request # None /\ IsResolution(outcome, request)
    BY DEF IInv, OutcomeInv, IsAbstention
  <2>2. /\ IsLoaded(call.class)
        /\ IsMadeOf(request, call.class)
    BY <2>1 DEF IInv, CallInv, RequestInv
  <2>3. c.mode = "enforce"
    <3>1. c.mode \in Modes /\ c.mode # "halted"
      BY <2>2 DEF IsLoaded, ClassIsSound, NoCriticIsHalted
    <3> QED
      BY <3>1 DEF Modes
  <2>4. PICK answer \in Answers : Outcome(c, answer) \in request.critics
    BY <2>2 DEF IsMadeOf
  <2> DEFINE o == Outcome(c, answer)
  <2>5. /\ o.id = c.name
        /\ o.hard
        /\ o.mode = "enforce"
        /\ o.result \in {"PASS", "FAIL", "NOT_APPLICABLE"} \cup Indeterminate
    BY <2>3, <2>4, GatewayAssumption DEF Outcome
  <2>6. Resolve(request).verdict = "ALLOW"
    BY <2>1, <2>2, EnforcedTokensWereAllowed DEF IsResolution, IsMadeOf
  <2>7. o.result \in {"PASS", "NOT_APPLICABLE"}
    BY <2>4, <2>5, <2>6, AllowedWasPassed
  <2> QED
    BY <2>4, <2>5, <2>7
<1> QED
  BY <1>1, Inductive, PTL

\* FR-21, INV-11: however often the registry is reloaded in the middle of an
\* evaluation, a token binds the mode its request was resolved under.
THEOREM TokensBindTheResolvedMode == Spec => []TokenBindsResolvedMode
<1>1. IInv => TokenBindsResolvedMode
  BY DEF IInv, CallInv, RequestInv, OutcomeInv, IsResolution, IsAbstention, IsMadeOf,
         TokenBindsResolvedMode
<1> QED
  BY <1>1, Inductive, PTL

LEMMA UnrecordedSaysNothing ==
  ASSUME IInv, response # None, ~outcome.recorded
  PROVE  /\ response.verdict = "ABSTAIN"
         /\ \A code \in response.reasons : IsInfrastructure(code)
         /\ ~IsRepairable(response)
         /\ response.counterexamples = {}
         /\ ~response.approvalRef
         /\ ~response.result
<1>1. IsAbstention(outcome)
  BY DEF IInv, ResponseInv, OutcomeInv, IsResolution
<1>2. PICK mode \in Modes, o \in Offers :
        /\ Projects(outcome, mode, o.counterexamples, o.approvalRef, o.result)
        /\ response = Projected(outcome, mode, o.counterexamples, o.approvalRef, o.result)
  BY DEF IInv, ResponseInv
<1>3. /\ response.verdict = "ABSTAIN"
      /\ response.reasons = outcome.reasons
      /\ response.result = o.result
  BY <1>1, <1>2 DEF Projected, IsAbstention
<1>4. Fits(response) /\ ~response.result
  BY <1>1, <1>2, <1>3 DEF Projects, IsAbstention
<1>5. response.counterexamples = {} /\ ~response.approvalRef
  BY <1>3, <1>4 DEF Fits, CarriesCounterexamples, CarriesApprovalRef
<1> QED
  BY <1>1, <1>3, <1>4, <1>5 DEF IsAbstention, IsRepairable, IsTerminal

\* Specification 5.3: nothing of a decision that was not recorded reaches the agent.
THEOREM UnrecordedIsAbstention == Spec => []UnrecordedTellsNothing
<1>1. IInv => UnrecordedTellsNothing
  BY UnrecordedSaysNothing DEF UnrecordedTellsNothing
<1> QED
  BY <1>1, Inductive, PTL

\* Every refusal of the resolver has a reason.
LEMMA RefusalsAreExplained ==
  ASSUME NEW q, Resolve(q).verdict # "ALLOW"
  PROVE  Resolve(q).reasons # {}
<1>1. \A outcomes : outcomes # {} /\ (\A o \in outcomes : o.result = "FAIL")
                      => ReasonsOf(outcomes) # {}
  <2> SUFFICES ASSUME NEW outcomes, NEW o \in outcomes, o.result = "FAIL"
               PROVE  ReasonsOf(outcomes) # {}
    OBVIOUS
  <2>1. HasReason(o)
    BY DEF HasReason, DefaultReason
  <2> QED
    BY <2>1 DEF ReasonsOf
<1>2. /\ \A o \in NonRepairable(Blocking(q, TRUE)) : o.result = "FAIL"
      /\ \A o \in Repairable(Blocking(q, TRUE)) : o.result = "FAIL"
  BY DEF NonRepairable, Repairable, Failures
<1>3. CASE q.policy.mode = "halted"
  BY <1>3 DEF Resolve, Decided
<1>4. CASE q.policy.mode # "halted"
  <2>1. Resolve(q).verdict = ResolvePass(q, TRUE).verdict
        /\ Resolve(q).reasons = ResolvePass(q, TRUE).reasons
    <3>1. Resolve(q).reasons # {<<"CLASS_HALTED", "none">>} \/ Resolve(q).verdict # "DENY"
            \/ Resolve(q).reasons # {}
      OBVIOUS
    <3>2. \E v, r : ResolvePass(q, TRUE) = [verdict |-> v, reasons |-> r, shadow |-> "none"]
      BY DEF ResolvePass, Decided
    <3> QED
      BY <1>4, <3>2 DEF Resolve
  <2>2. ResolvePass(q, TRUE).verdict # "ALLOW"
    BY <2>1
  <2>3. Infrastructure(q, TRUE) # {} \/ Abstentions(q, TRUE) # {} => Unevaluated(q, TRUE) # {}
    BY DEF Unevaluated
  <2>4. ResolvePass(q, TRUE).reasons # {}
    BY <1>1, <1>2, <2>2, <2>3 DEF ResolvePass, Decided
  <2> QED
    BY <2>1, <2>4
<1> QED
  BY <1>3, <1>4

\* Section 5.6: whatever is decided, recorded or withheld fits the response the
\* agent is owed, in whatever mode the caller names.
THEOREM OutcomesAreAnswerable == Spec => []EveryOutcomeIsAnswerable
<1>1. IInv => EveryOutcomeIsAnswerable
  <2> SUFFICES ASSUME IInv, outcome # None, NEW mode \in Modes
               PROVE  /\ Projects(outcome, mode, {}, FALSE, FALSE)
                      /\ outcome.token => Projects(outcome, mode, {}, FALSE, TRUE)
    BY DEF EveryOutcomeIsAnswerable
  <2>1. /\ outcome.verdict # "ALLOW" => outcome.reasons # {}
        /\ Cardinality(outcome.reasons) <= MaxReasonCodes
    <3>1. CASE request # None /\ IsResolution(outcome, request)
      BY <3>1, RefusalsAreExplained DEF IsResolution, Recordable
    <3>2. CASE IsAbstention(outcome)
      <4>1. PICK reason : outcome.reasons = {reason}
        BY <3>2 DEF IsAbstention
      <4>2. Cardinality(outcome.reasons) = 1
        BY <4>1, FS_Singleton
      <4> QED
        BY <4>1, <4>2, GatewayAssumption
    <3> QED
      BY <3>1, <3>2 DEF IInv, OutcomeInv
  <2>2. ASSUME NEW result PROVE Fits(Projected(outcome, mode, {}, FALSE, result))
    BY <2>1 DEF Fits, Projected, Shown, ShownRef
  <2> QED
    BY <2>2 DEF Projects
<1> QED
  BY <1>1, Inductive, PTL

\* Section 5.4: an action is evaluated again only after a recorded REPAIR and
\* within the budget of the class it was evaluated as.
THEOREM ResubmissionsAreBounded == Spec => ResubmissionsAreEarned
<1>1. IInv /\ [Next]_vars =>
        [call # None /\ call' # None /\ call'.iteration # call.iteration =>
           /\ outcome.recorded
           /\ outcome.verdict = "REPAIR"
           /\ call'.iteration = call.iteration + 1
           /\ call'.iteration <= call.class.budget]_vars
  <2> SUFFICES ASSUME IInv, Next, call # None, call' # None,
                      call'.iteration # call.iteration
               PROVE  /\ outcome.recorded
                      /\ outcome.verdict = "REPAIR"
                      /\ call'.iteration = call.iteration + 1
                      /\ call'.iteration <= call.class.budget
    OBVIOUS
  <2>1. Resubmit
    BY DEF Next, Reload, Propose, Assemble, FactIsRefused, Evaluate, Project, Finish
  <2>2. response # None /\ IsRepairable(response) /\ Begin(call.key, call.iteration + 1)
    BY <2>1 DEF Resubmit
  <2>3. call'.iteration = call.iteration + 1
    BY <2>2 DEF Begin
  <2>4. /\ call.iteration < call.class.budget
        /\ call.iteration \in Int
        /\ call.class.budget \in Int
    <3>1. call \in Calls /\ IsLoaded(call.class)
      BY <2>2, InvitationsAreRecorded DEF IInv, CallInv, RequestInv
    <3> QED
      BY <2>2, <3>1, InvitationsAreWithinBudget, ResolverAssumption
         DEF Calls, IsLoaded, ClassIsSound, BudgetIsBounded
  <2> QED
    BY <2>2, <2>3, <2>4, InvitationsAreRecorded DEF IsResolution
<1> QED
  BY <1>1, Inductive, PTL DEF ResubmissionsAreEarned, Spec

\* FR-34: every kind a loaded template spells out is in the catalogue, if there is
\* one, and what renders is then an entry of it, for any arguments whatever.
THEOREM KeysAreCanonical == Spec => []LeasesAreCanonical
<1>1. IInv => LeasesAreCanonical
  <2> SUFFICES ASSUME IInv, registry # None, DOMAIN registry.enumerations # {},
                      NEW i \in DOMAIN registry.classes, NEW arguments \in Arguments,
                      Renders(registry.classes[i].template, arguments, registry.enumerations),
                      NEW j \in DOMAIN Rendered(registry.classes[i].template, arguments),
                      ~registry.classes[i].template[j].kind.placeholder
               PROVE  LET key == Rendered(registry.classes[i].template, arguments) IN
                      /\ key[j].kind \in DOMAIN registry.enumerations
                      /\ key[j].id \in ToSet(registry.enumerations[key[j].kind])
    BY DEF LeasesAreCanonical
  <2> DEFINE template == registry.classes[i].template
             key == Rendered(template, arguments)
  <2>1. TemplateKinds(template) \subseteq DOMAIN registry.enumerations
    BY DEF IInv, RegistryInv, Loadable, Loads, KindsAreKnown
  <2>2. j \in DOMAIN template /\ key[j].kind = template[j].kind.text
    BY DEF Rendered, Filled
  <2>3. template[j].kind # NoKind
    <3>1. IsResourceKey(key)
      BY DEF Renders
    <3>2. key[j].kind \in Kinds
      BY <3>1 DEF IsResourceKey
    <3>3. NoKind.text = ""
      BY DEF NoKind, Text
    <3>4. template[j].kind.text \in Kinds
      BY <2>2, <3>2
    <3> QED
      BY <3>3, <3>4, RegistryAssumption
  <2>4. template[j].kind.text \in TemplateKinds(template)
    BY <2>2, <2>3 DEF TemplateKinds, ToSet
  <2>5. IsKnown(key, registry.enumerations)
    BY DEF Renders
  <2> QED
    BY <2>1, <2>2, <2>4, <2>5 DEF IsKnown
<1> QED
  BY <1>1, Inductive, PTL
===============================================================================
