---------------------------- MODULE RepairLoopProofs ---------------------------
(*****************************************************************************)
(* The resolver's promises for every registry, every set of critics, facts   *)
(* and failures, and the loop's for every number of evaluations.             *)
(*                                                                           *)
(* The argument: a pass is a function of ten yes-or-no questions (Step); a   *)
(* request that gathers one more problem answers yes to more of them         *)
(* (Harder); Step is monotone in those answers.                              *)
(*****************************************************************************)
EXTENDS RepairLoop, TLAPS

LEMMA Ranks ==
  /\ SafetyRank("ALLOW") = 1
  /\ SafetyRank("REQUIRES_APPROVAL") = 2
  /\ SafetyRank("REPAIR") = 3
  /\ SafetyRank("ABSTAIN") = 4
  /\ SafetyRank("DENY") = 5
BY DEF SafetyRank, SafetyOrder

\* The nine steps, as answers to what they ask.
Step(nonRepairable, limited, repairable, spent, required, approvable, infrastructure,
     abstains, escalates, satisfied) ==
  IF nonRepairable \/ limited \/ (repairable /\ spent) \/ (required /\ ~approvable) THEN "DENY"
  ELSE IF infrastructure THEN "ABSTAIN"
  ELSE IF abstains THEN IF escalates THEN "REQUIRES_APPROVAL" ELSE "ABSTAIN"
  ELSE IF repairable THEN "REPAIR"
  ELSE IF required /\ ~satisfied THEN "REQUIRES_APPROVAL"
  ELSE "ALLOW"

LEMMA PassIsStep ==
  ASSUME NEW q, NEW h
  PROVE  ResolvePass(q, h).verdict =
           Step(NonRepairable(Blocking(q, h)) # {}, q.rateLimited,
                Repairable(Blocking(q, h)) # {}, BudgetSpent(q),
                q.approvalRequired, q.policy.approvable,
                Infrastructure(q, h) # {}, Abstentions(q, h) # {}, MayEscalate(q, h),
                q.approvalSatisfied)
BY DEF ResolvePass, Decided, Step

LEMMA PassVerdicts ==
  ASSUME NEW q, NEW h
  PROVE  ResolvePass(q, h).verdict \in Verdicts
BY PassIsStep DEF Step, Verdicts

-------------------------------------------------------------------------------
(* Monotonicity of a pass.                                                   *)

\* Pass k of p is looked at by more blockers than pass h of q, and p has every
\* fact, failure and demand that q has.
Harder(q, h, p, k) ==
  /\ p.policy = q.policy
  /\ p.iteration = q.iteration
  /\ p.approvalSatisfied = q.approvalSatisfied
  /\ q.rateLimited => p.rateLimited
  /\ q.approvalRequired => p.approvalRequired
  /\ Blocking(q, h) \subseteq Blocking(p, k)
  /\ q.facts \subseteq p.facts
  /\ q.infrastructure \subseteq p.infrastructure

LEMMA HarderAnswers ==
  ASSUME NEW q, NEW h, NEW p, NEW k, Harder(q, h, p, k)
  PROVE  /\ NonRepairable(Blocking(q, h)) # {} => NonRepairable(Blocking(p, k)) # {}
         /\ Repairable(Blocking(q, h)) # {} => Repairable(Blocking(p, k)) # {}
         /\ BudgetSpent(p) <=> BudgetSpent(q)
         /\ Infrastructure(q, h) # {} => Infrastructure(p, k) # {}
         /\ Abstentions(q, h) \subseteq Abstentions(p, k)
         /\ Failures(Blocking(q, h)) \subseteq Failures(Blocking(p, k))
<1>1. NonRepairable(Blocking(q, h)) \subseteq NonRepairable(Blocking(p, k))
  BY DEF Harder, NonRepairable, Failures
<1>2. Repairable(Blocking(q, h)) \subseteq Repairable(Blocking(p, k))
  BY DEF Harder, Repairable, Failures
<1>3. BudgetSpent(p) <=> BudgetSpent(q)
  BY DEF Harder, BudgetSpent
<1>4. ReasonsOf(Blocking(q, h)) \subseteq ReasonsOf(Blocking(p, k))
  BY DEF Harder, ReasonsOf
<1>5. Infrastructure(q, h) \subseteq Infrastructure(p, k)
  BY <1>4 DEF Harder, Infrastructure
<1>6. Abstentions(q, h) \subseteq Abstentions(p, k)
  BY DEF Harder, Abstentions
<1>7. Failures(Blocking(q, h)) \subseteq Failures(Blocking(p, k))
  BY DEF Harder, Failures
<1> QED
  BY <1>1, <1>2, <1>3, <1>5, <1>6, <1>7

\* Escalation never comes within reach by adding a problem, and never over an
\* outstanding failure.
LEMMA EscalationShrinks ==
  ASSUME NEW q, NEW h, NEW p, NEW k, Harder(q, h, p, k)
  PROVE  /\ MayEscalate(p, k) => MayEscalate(q, h)
         /\ MayEscalate(p, k) => Repairable(Blocking(p, k)) = {}
<1>1. MayEscalate(p, k) => MayEscalate(q, h)
  BY HarderAnswers DEF MayEscalate, Harder
<1>2. MayEscalate(p, k) => Repairable(Blocking(p, k)) = {}
  BY DEF MayEscalate, Repairable
<1> QED
  BY <1>1, <1>2

LEMMA PassIsMonotone ==
  ASSUME NEW q, NEW h, NEW p, NEW k, Harder(q, h, p, k)
  PROVE  IsAtLeastAsSafe(ResolvePass(p, k).verdict, ResolvePass(q, h).verdict)
<1> DEFINE nq == NonRepairable(Blocking(q, h)) # {}
           np == NonRepairable(Blocking(p, k)) # {}
           rq == Repairable(Blocking(q, h)) # {}
           rp == Repairable(Blocking(p, k)) # {}
           iq == Infrastructure(q, h) # {}
           ip == Infrastructure(p, k) # {}
           aq == Abstentions(q, h) # {}
           ap == Abstentions(p, k) # {}
<1>1. /\ nq => np
      /\ rq => rp
      /\ iq => ip
      /\ aq => ap
      /\ BudgetSpent(p) <=> BudgetSpent(q)
      /\ MayEscalate(p, k) => MayEscalate(q, h)
      /\ MayEscalate(p, k) => ~rp
  BY HarderAnswers, EscalationShrinks
<1>2. /\ p.policy = q.policy
      /\ p.approvalSatisfied = q.approvalSatisfied
      /\ q.rateLimited => p.rateLimited
      /\ q.approvalRequired => p.approvalRequired
  BY DEF Harder
<1>3. ResolvePass(q, h).verdict =
        Step(nq, q.rateLimited, rq, BudgetSpent(q), q.approvalRequired, q.policy.approvable,
             iq, aq, MayEscalate(q, h), q.approvalSatisfied)
  BY PassIsStep
<1>4. ResolvePass(p, k).verdict =
        Step(np, p.rateLimited, rp, BudgetSpent(p), p.approvalRequired, p.policy.approvable,
             ip, ap, MayEscalate(p, k), p.approvalSatisfied)
  BY PassIsStep
<1> HIDE DEF nq, np, rq, rp, iq, ip, aq, ap
<1> QED
  BY <1>1, <1>2, <1>3, <1>4, Ranks DEF IsAtLeastAsSafe, Step

-------------------------------------------------------------------------------
(* What resolve() answers.                                                   *)

LEMMA WithShadow ==
  ASSUME NEW q, NEW h, NEW s
  PROVE  /\ ResolvePass(q, h).shadow = "none"
         /\ [ResolvePass(q, h) EXCEPT !.shadow = s].verdict = ResolvePass(q, h).verdict
         /\ [ResolvePass(q, h) EXCEPT !.shadow = s].reasons = ResolvePass(q, h).reasons
         /\ [ResolvePass(q, h) EXCEPT !.shadow = s].shadow = s
<1>1. \E v, r : ResolvePass(q, h) = [verdict |-> v, reasons |-> r, shadow |-> "none"]
  BY DEF ResolvePass, Decided
<1> QED
  BY <1>1

LEMMA ResolveAnswers ==
  ASSUME NEW q
  PROVE  /\ q.policy.mode = "halted" =>
              /\ Resolve(q).verdict = "DENY"
              /\ Resolve(q).reasons = {<<"CLASS_HALTED", "none">>}
              /\ Resolve(q).shadow = "none"
         /\ q.policy.mode # "halted" =>
              /\ Resolve(q).verdict = ResolvePass(q, TRUE).verdict
              /\ Resolve(q).reasons = ResolvePass(q, TRUE).reasons
              /\ q.policy.mode # "enforce" \/ Demoted(q) # {}
                   => Resolve(q).shadow = ResolvePass(q, FALSE).verdict
              /\ q.policy.mode = "enforce" /\ Demoted(q) = {} => Resolve(q).shadow = "none"
<1>1. CASE q.policy.mode = "halted"
  BY <1>1 DEF Resolve, Decided
<1>2. CASE q.policy.mode # "halted" /\ (q.policy.mode # "enforce" \/ Demoted(q) # {})
  <2>1. Resolve(q) = [ResolvePass(q, TRUE) EXCEPT !.shadow = ResolvePass(q, FALSE).verdict]
    BY <1>2 DEF Resolve
  <2>2. /\ Resolve(q).verdict = ResolvePass(q, TRUE).verdict
        /\ Resolve(q).reasons = ResolvePass(q, TRUE).reasons
        /\ Resolve(q).shadow = ResolvePass(q, FALSE).verdict
    BY <2>1, WithShadow
  <2> QED
    BY <1>2, <2>2
<1>3. CASE q.policy.mode # "halted" /\ q.policy.mode = "enforce" /\ Demoted(q) = {}
  <2>1. Resolve(q) = ResolvePass(q, TRUE)
    BY <1>3 DEF Resolve
  <2>2. ResolvePass(q, TRUE).shadow = "none"
    BY WithShadow
  <2> QED
    BY <1>3, <2>1, <2>2
<1> QED
  BY <1>1, <1>2, <1>3

LEMMA ResolveVerdicts ==
  ASSUME NEW q
  PROVE  /\ Resolve(q).verdict \in Verdicts
         /\ Resolve(q).shadow \in Verdicts \cup {"none"}
<1>1. CASE q.policy.mode = "halted"
  BY <1>1, ResolveAnswers DEF Verdicts
<1>2. CASE q.policy.mode # "halted"
  BY <1>2, ResolveAnswers, PassVerdicts
<1> QED
  BY <1>1, <1>2

\* Where enforcement would have decided otherwise, the shadow says so; where no
\* shadow is recorded the two passes see the same critics.
LEMMA NothingDemoted ==
  ASSUME NEW q, Demoted(q) = {}
  PROVE  ResolvePass(q, FALSE) = ResolvePass(q, TRUE)
<1>1. Blocking(q, FALSE) = Blocking(q, TRUE)
  BY DEF Demoted, Blocking, CountsAsHard
<1>2. /\ Infrastructure(q, FALSE) = Infrastructure(q, TRUE)
      /\ Abstentions(q, FALSE) = Abstentions(q, TRUE)
  BY <1>1 DEF Infrastructure, Abstentions
<1>3. /\ Unevaluated(q, FALSE) = Unevaluated(q, TRUE)
      /\ MayEscalate(q, FALSE) <=> MayEscalate(q, TRUE)
  BY <1>1, <1>2 DEF Unevaluated, MayEscalate
<1> QED
  BY <1>1, <1>2, <1>3 DEF ResolvePass

\* The shadow pass looks at every critic the real one looks at.
LEMMA ShadowIsHarder ==
  ASSUME NEW q
  PROVE  Harder(q, TRUE, q, FALSE)
BY DEF Harder, Blocking, CountsAsHard

-------------------------------------------------------------------------------
(* What a verdict says of the request.                                        *)

\* ALLOW is the ninth step: none of the others had anything to say.
LEMMA AllowMeansSilence ==
  ASSUME NEW q, NEW h, ResolvePass(q, h).verdict = "ALLOW"
  PROVE  /\ Failures(Blocking(q, h)) = {}
         /\ ~q.rateLimited
         /\ q.approvalRequired => q.policy.approvable /\ q.approvalSatisfied
         /\ Infrastructure(q, h) = {}
         /\ Abstentions(q, h) = {}
<1>1. /\ NonRepairable(Blocking(q, h)) = {}
      /\ Repairable(Blocking(q, h)) = {}
      /\ ~q.rateLimited
      /\ q.approvalRequired => q.policy.approvable /\ q.approvalSatisfied
      /\ Infrastructure(q, h) = {}
      /\ Abstentions(q, h) = {}
  BY PassIsStep DEF Step
<1>2. Failures(Blocking(q, h)) = {}
  BY <1>1 DEF NonRepairable, Repairable
<1> QED
  BY <1>1, <1>2

\* A pass that refuses, asks or abstains names everything it could not evaluate.
LEMMA PassRecords ==
  ASSUME NEW q, NEW h
  PROVE  /\ Infrastructure(q, h) \subseteq ResolvePass(q, h).reasons
         /\ \A a \in Abstentions(q, h) : a.code \in ResolvePass(q, h).reasons
<1>1. /\ Infrastructure(q, h) \subseteq Unevaluated(q, h)
      /\ \A a \in Abstentions(q, h) : a.code \in Unevaluated(q, h)
  BY DEF Unevaluated
<1>2. \/ Unevaluated(q, h) \subseteq ResolvePass(q, h).reasons
      \/ Infrastructure(q, h) = {} /\ Abstentions(q, h) = {}
  BY DEF ResolvePass, Decided
<1> QED
  BY <1>1, <1>2

\* A failed critic always has a reason, stated or by default.
LEMMA FailuresHaveReasons ==
  ASSUME NEW outcomes, Failures(outcomes) # {}
  PROVE  ReasonsOf(Failures(outcomes)) # {}
<1>1. PICK o \in outcomes : o.result = "FAIL"
  BY DEF Failures
<1>2. HasReason(o)
  BY <1>1 DEF HasReason, DefaultReason
<1> QED
  BY <1>1, <1>2 DEF Failures, ReasonsOf

LEMMA PassExplains ==
  ASSUME NEW q, NEW h, ResolvePass(q, h).verdict # "ALLOW"
  PROVE  ResolvePass(q, h).reasons # {}
<1> DEFINE b == Blocking(q, h)
<1>1. NonRepairable(b) # {} => ReasonsOf(NonRepairable(b)) # {}
  <2>1. NonRepairable(b) = Failures(NonRepairable(b))
    BY DEF NonRepairable, Failures
  <2> QED
    BY <2>1, FailuresHaveReasons
<1>2. Repairable(b) # {} => ReasonsOf(Repairable(b)) # {}
  <2>1. Repairable(b) = Failures(Repairable(b))
    BY DEF Repairable, Failures
  <2> QED
    BY <2>1, FailuresHaveReasons
<1>3. Infrastructure(q, h) # {} \/ Abstentions(q, h) # {} => Unevaluated(q, h) # {}
  BY DEF Unevaluated
<1> QED
  BY <1>1, <1>2, <1>3 DEF ResolvePass, Decided

-------------------------------------------------------------------------------
(* The loop.                                                                 *)

LEMMA EnforcedAnswers ==
  ASSUME NEW q
  PROVE  EnforcedVerdict(q) =
           IF q.policy.mode = "halted" THEN "DENY" ELSE ResolvePass(q, FALSE).verdict
<1>1. CASE q.policy.mode = "halted"
  BY <1>1, ResolveAnswers DEF EnforcedVerdict, Verdict
<1>2. CASE q.policy.mode # "halted" /\ (q.policy.mode # "enforce" \/ Demoted(q) # {})
  <2>1. ResolvePass(q, FALSE).verdict # "none"
    BY PassVerdicts DEF Verdicts
  <2> QED
    BY <1>2, <2>1, ResolveAnswers DEF EnforcedVerdict
<1>3. CASE q.policy.mode # "halted" /\ q.policy.mode = "enforce" /\ Demoted(q) = {}
  BY <1>3, ResolveAnswers, NothingDemoted DEF EnforcedVerdict, Verdict
<1> QED
  BY <1>1, <1>2, <1>3

-------------------------------------------------------------------------------
(* The type invariant and the loop's bound.                                  *)

LEMMA NewRequestType ==
  ASSUME NEW policy \in Policies, NEW i \in Nat
  PROVE  NewRequest(policy, i) \in Request
BY DEF NewRequest, Request

\* Every step keeps requests and resolutions well formed, whatever critics, facts
\* and failures there are: each critic and each fact is counted once.
THEOREM TypeCorrect == Spec => []TypeOK
<1>1. Init => TypeOK
  <2> SUFFICES ASSUME Init PROVE TypeOK
    OBVIOUS
  <2>1. PICK policy \in Policies : request = NewRequest(policy, 0)
    BY DEF Init
  <2>2. request \in Request /\ request.critics = {} /\ request.facts = {}
    BY <2>1, NewRequestType DEF NewRequest
  <2> QED
    BY <2>2 DEF Init, TypeOK
<1>2. TypeOK /\ [Next]_vars => TypeOK'
  <2> SUFFICES ASSUME TypeOK, [Next]_vars PROVE TypeOK'
    OBVIOUS
  <2>1. CASE CriticAnswers
    BY <2>1 DEF CriticAnswers, Gathering, TypeOK, Request
  <2>2. CASE FactLoads
    BY <2>2 DEF FactLoads, Gathering, TypeOK, Request
  <2>3. CASE HarnessFails
    BY <2>3 DEF HarnessFails, Gathering, TypeOK, Request
  <2>4. CASE RateLimits
    BY <2>4 DEF RateLimits, Gathering, TypeOK, Request
  <2>5. CASE RuleRequiresApproval
    BY <2>5 DEF RuleRequiresApproval, Gathering, TypeOK, Request
  <2>6. CASE ApprovalResolves
    BY <2>6 DEF ApprovalResolves, Gathering, TypeOK, Request
  <2>7. CASE Evaluate
    BY <2>7, ResolveVerdicts DEF Evaluate, TypeOK
  <2>8. CASE Resubmit
    <3>1. PICK policy \in Policies : request' = NewRequest(policy, request.iteration + 1)
      BY <2>8 DEF Resubmit
    <3>2. request.iteration + 1 \in Nat
      BY DEF TypeOK, Request
    <3>3. request' \in Request /\ request.critics' = {} /\ request.facts' = {}
      BY <3>1, <3>2, NewRequestType DEF NewRequest
    <3> QED
      BY <2>8, <3>3 DEF Resubmit, TypeOK
  <2>9. CASE EvaluateAfterApproval
    <3>1. PICK policy \in Policies : request' = NewRequest(policy, request.iteration)
      BY <2>9 DEF EvaluateAfterApproval
    <3>2. request.iteration \in Nat
      BY DEF TypeOK, Request
    <3>3. request' \in Request /\ request.critics' = {} /\ request.facts' = {}
      BY <3>1, <3>2, NewRequestType DEF NewRequest
    <3> QED
      BY <2>9, <3>3 DEF EvaluateAfterApproval, TypeOK
  <2>10. CASE UNCHANGED vars
    BY <2>10 DEF vars, TypeOK
  <2> QED
    BY <2>1, <2>2, <2>3, <2>4, <2>5, <2>6, <2>7, <2>8, <2>9, <2>10 DEF Next, Constrains
<1> QED
  BY <1>1, <1>2, PTL DEF Spec

\* A REPAIR verdict was answered while some of the budget was left.
LEMMA RepairLeavesBudget ==
  ASSUME NEW q \in Request, Resolve(q).verdict = "REPAIR"
  PROVE  q.iteration < MaxRepairBudget
<1>1. q.policy.mode # "halted"
  BY ResolveAnswers
<1>2. ResolvePass(q, TRUE).verdict = "REPAIR"
  BY <1>1, ResolveAnswers
<1>3. ~BudgetSpent(q)
  BY <1>2, PassIsStep DEF Step
<1>4. q.iteration \in Nat /\ q.policy.budget \in Nat
  BY LoopAssumption DEF Request, Policy
<1> QED
  BY <1>3, <1>4, ResolverAssumption DEF BudgetSpent, Budget

\* What keeps the loop bounded: a resolution is the resolver's answer to the
\* request it stands beside, whatever the registry's next entry says.
BoundInv ==
  /\ resolution # None => resolution = Resolve(request)
  /\ RepairsAreBounded

\* Section 5.4: no action is evaluated at an iteration beyond the maximum budget,
\* whatever budgets successive registries declare and however often a human is
\* asked in between.
THEOREM Bounded == Spec => []RepairsAreBounded
<1>1. Init => BoundInv
  BY ResolverAssumption DEF Init, NewRequest, RepairsAreBounded, BoundInv
<1>2. TypeOK /\ BoundInv /\ [Next]_vars => BoundInv'
  <2> SUFFICES ASSUME TypeOK, BoundInv, [Next]_vars PROVE BoundInv'
    OBVIOUS
  <2>1. CASE Constrains \/ ApprovalResolves
    BY <2>1 DEF Constrains, CriticAnswers, FactLoads, HarnessFails, RateLimits,
                RuleRequiresApproval, ApprovalResolves, Gathering, RepairsAreBounded,
                BoundInv, TypeOK, Request
  <2>2. CASE Evaluate
    BY <2>2 DEF Evaluate, RepairsAreBounded, BoundInv
  <2>3. CASE Resubmit
    <3>1. Resolve(request).verdict \in Verdicts /\ ~IsTerminal(Resolve(request).verdict)
      BY <2>3, ResolveVerdicts DEF Resubmit, BoundInv
    <3>2. request \in Request /\ request.iteration \in Nat
      BY DEF TypeOK, Request
    <3>3. request.iteration < MaxRepairBudget
      BY <3>1, <3>2, RepairLeavesBudget DEF IsTerminal
    <3>4. request'.iteration = request.iteration + 1 /\ resolution' = None
      BY <2>3 DEF Resubmit, NewRequest
    <3> QED
      BY <3>2, <3>3, <3>4, ResolverAssumption DEF RepairsAreBounded, BoundInv
  <2>4. CASE EvaluateAfterApproval
    BY <2>4 DEF EvaluateAfterApproval, NewRequest, RepairsAreBounded, BoundInv
  <2>5. CASE UNCHANGED vars
    BY <2>5 DEF vars, RepairsAreBounded, BoundInv
  <2> QED
    BY <2>1, <2>2, <2>3, <2>4, <2>5 DEF Next
<1>3. BoundInv => RepairsAreBounded
  BY DEF BoundInv
<1>4. Spec => []TypeOK
  BY TypeCorrect
<1> QED
  BY <1>1, <1>2, <1>3, <1>4, PTL DEF Spec

-------------------------------------------------------------------------------
(* What a request may become.                                                *)

\* In both passes, a step that constrains makes the request harder.
LEMMA ConstrainsHardens ==
  ASSUME TypeOK, Constrains, NEW h
  PROVE  Harder(request, h, request', h)
<1>1. CASE CriticAnswers
  BY <1>1 DEF CriticAnswers, Harder, Blocking, TypeOK, Request
<1>2. CASE FactLoads
  BY <1>2 DEF FactLoads, Harder, Blocking, TypeOK, Request
<1>3. CASE HarnessFails
  BY <1>3 DEF HarnessFails, Harder, Blocking, TypeOK, Request
<1>4. CASE RateLimits
  BY <1>4 DEF RateLimits, Harder, Blocking, TypeOK, Request
<1>5. CASE RuleRequiresApproval
  BY <1>5 DEF RuleRequiresApproval, Harder, Blocking, TypeOK, Request
<1> QED
  BY <1>1, <1>2, <1>3, <1>4, <1>5 DEF Constrains

\* resolver.py: "monotone under the safety order without exception", for every
\* further answer, fact, failure or demand, and for what enforcement would have
\* decided as for what was decided.
THEOREM Monotone == Spec => ConstraintsNeverSoften
<1>1. TypeOK /\ Constrains
        => /\ IsAtLeastAsSafe(Verdict(request'), Verdict(request))
           /\ IsAtLeastAsSafe(EnforcedVerdict(request'), EnforcedVerdict(request))
  <2> SUFFICES ASSUME TypeOK, Constrains
               PROVE  /\ IsAtLeastAsSafe(Verdict(request'), Verdict(request))
                      /\ IsAtLeastAsSafe(EnforcedVerdict(request'), EnforcedVerdict(request))
    OBVIOUS
  <2>1. request'.policy = request.policy
    BY ConstrainsHardens DEF Harder
  <2>2. CASE request.policy.mode = "halted"
    <3>1. Verdict(request) = "DENY" /\ Verdict(request') = "DENY"
      BY <2>1, <2>2, ResolveAnswers DEF Verdict
    <3>2. EnforcedVerdict(request) = "DENY" /\ EnforcedVerdict(request') = "DENY"
      BY <2>1, <2>2, EnforcedAnswers
    <3> QED
      BY <3>1, <3>2, Ranks DEF IsAtLeastAsSafe
  <2>3. CASE request.policy.mode # "halted"
    <3>1. \A h : IsAtLeastAsSafe(ResolvePass(request', h).verdict,
                                 ResolvePass(request, h).verdict)
      BY ConstrainsHardens, PassIsMonotone
    <3>2. /\ Verdict(request) = ResolvePass(request, TRUE).verdict
          /\ Verdict(request') = ResolvePass(request', TRUE).verdict
      BY <2>1, <2>3, ResolveAnswers DEF Verdict
    <3>3. /\ EnforcedVerdict(request) = ResolvePass(request, FALSE).verdict
          /\ EnforcedVerdict(request') = ResolvePass(request', FALSE).verdict
      BY <2>1, <2>3, EnforcedAnswers
    <3> QED
      BY <3>1, <3>2, <3>3
  <2> QED
    BY <2>2, <2>3
<1>2. Spec => []TypeOK
  BY TypeCorrect
<1> QED
  BY <1>1, <1>2, PTL DEF Spec, ConstraintsNeverSoften

\* An approval that resolves changes the ninth answer and no other: it turns the
\* eighth step into the last one.
LEMMA ApprovalAnswersOneStep ==
  ASSUME TypeOK, ApprovalResolves, NEW h
  PROVE  \/ ResolvePass(request', h).verdict = ResolvePass(request, h).verdict
         \/ /\ ResolvePass(request, h).verdict = "REQUIRES_APPROVAL"
            /\ ResolvePass(request', h).verdict = "ALLOW"
            /\ request.policy.approvable
            /\ Abstentions(request, h) = {}
<1>1. request' = [request EXCEPT !.approvalSatisfied = TRUE]
  BY DEF ApprovalResolves
<1>2. /\ request'.policy = request.policy
      /\ request'.critics = request.critics
      /\ request'.facts = request.facts
      /\ request'.infrastructure = request.infrastructure
      /\ request'.iteration = request.iteration
      /\ request'.rateLimited = request.rateLimited
      /\ request'.approvalRequired = request.approvalRequired
      /\ request'.approvalSatisfied
  BY <1>1 DEF TypeOK, Request
<1>3. Blocking(request', h) = Blocking(request, h)
  BY <1>2 DEF Blocking
<1>4. /\ Infrastructure(request', h) = Infrastructure(request, h)
      /\ Abstentions(request', h) = Abstentions(request, h)
      /\ BudgetSpent(request') <=> BudgetSpent(request)
  BY <1>2, <1>3 DEF Infrastructure, Abstentions, BudgetSpent
<1>5. MayEscalate(request', h) <=> MayEscalate(request, h)
  BY <1>2, <1>3, <1>4 DEF MayEscalate
<1> QED
  BY <1>2, <1>3, <1>4, <1>5, PassIsStep DEF Step

\* An approval never turns into execution what the harness refused or could not
\* evaluate, and answers only where the class lets a human answer.
THEOREM ApprovalsAnswerOneQuestion == Spec => ApprovalsNeverOverrule
<1> DEFINE Answered ==
      \/ Verdict(request') = Verdict(request)
      \/ /\ Verdict(request) = "REQUIRES_APPROVAL"
         /\ Verdict(request') = "ALLOW"
         /\ request.policy.approvable
         /\ \A f \in request.facts : f.required => f.status = "FRESH"
<1>1. TypeOK /\ ApprovalResolves => Answered
  <2> SUFFICES ASSUME TypeOK, ApprovalResolves PROVE Answered
    OBVIOUS
  <2>1. request'.policy = request.policy
    BY DEF ApprovalResolves, TypeOK, Request
  <2>2. CASE request.policy.mode = "halted"
    BY <2>1, <2>2, ResolveAnswers DEF Verdict
  <2>3. CASE request.policy.mode # "halted"
    <3>1. /\ Verdict(request) = ResolvePass(request, TRUE).verdict
          /\ Verdict(request') = ResolvePass(request', TRUE).verdict
      BY <2>1, <2>3, ResolveAnswers DEF Verdict
    <3>2. Abstentions(request, TRUE) = {}
            => \A f \in request.facts : f.required => f.status = "FRESH"
      BY DEF Abstentions, Blocks
    <3> QED
      BY <3>1, <3>2, ApprovalAnswersOneStep
  <2> QED
    BY <2>2, <2>3
<1> HIDE DEF Answered
<1>2. Spec => []TypeOK
  BY TypeCorrect
<1>3. Spec => [][ApprovalResolves => Answered]_vars
  BY <1>1, <1>2, PTL DEF Spec
<1> QED
  BY <1>3 DEF ApprovalsNeverOverrule, Answered

-------------------------------------------------------------------------------
(* Promises about each request.                                              *)

\* INV-03: what is allowed is clean, of every request the loop can assemble.
THEOREM AllowedIsClean == Spec => []AllowIsClean
<1>1. TypeOK => AllowIsClean
  <2> SUFFICES ASSUME TypeOK, Verdict(request) = "ALLOW"
               PROVE  /\ \A o \in request.critics : o.hard /\ o.mode = "enforce"
                           => o.result \in {"PASS", "NOT_APPLICABLE"}
                      /\ \A f \in request.facts : f.required => f.status = "FRESH"
                      /\ request.infrastructure = {}
                      /\ ~request.rateLimited
                      /\ request.approvalRequired
                           => request.approvalSatisfied /\ request.policy.approvable
    BY DEF AllowIsClean
  <2>1. ResolvePass(request, TRUE).verdict = "ALLOW"
    BY ResolveAnswers DEF Verdict
  <2>2. /\ Failures(Blocking(request, TRUE)) = {}
        /\ ~request.rateLimited
        /\ request.approvalRequired => request.policy.approvable /\ request.approvalSatisfied
        /\ Infrastructure(request, TRUE) = {}
        /\ Abstentions(request, TRUE) = {}
    BY <2>1, AllowMeansSilence
  <2>3. ASSUME NEW o \in request.critics, o.hard, o.mode = "enforce"
        PROVE  o.result \in {"PASS", "NOT_APPLICABLE"}
    <3>1. o \in Blocking(request, TRUE)
      BY <2>3 DEF Blocking, CountsAsHard
    <3>2. o.result # "FAIL"
      BY <2>2, <3>1 DEF Failures
    <3>3. o.result \notin Indeterminate
      BY <2>2, <3>1 DEF Abstentions
    <3>4. o.result \in {"PASS", "FAIL", "NOT_APPLICABLE"} \cup Indeterminate
      BY LoopAssumption DEF TypeOK, Request, Outcome
    <3> QED
      BY <3>2, <3>3, <3>4
  <2>4. \A f \in request.facts : f.required => f.status = "FRESH"
    BY <2>2 DEF Abstentions, Blocks
  <2>5. request.infrastructure = {}
    BY <2>2 DEF Infrastructure
  <2> QED
    BY <2>2, <2>3, <2>4, <2>5
<1> QED
  BY <1>1, TypeCorrect, PTL

\* Whatever the harness could not evaluate is among the reason codes, whichever
\* step decided, and a refusal always has a reason.
THEOREM UnevaluatedAlwaysRecorded == Spec => []UnevaluatedIsRecorded
<1>1. TypeOK => UnevaluatedIsRecorded
  <2>1. CASE request.policy.mode = "halted"
    BY <2>1, ResolveAnswers DEF UnevaluatedIsRecorded
  <2>2. CASE request.policy.mode # "halted"
    BY <2>2, ResolveAnswers, PassRecords, PassExplains DEF UnevaluatedIsRecorded
  <2> QED
    BY <2>1, <2>2
<1> QED
  BY <1>1, TypeCorrect, PTL

\* Whatever is called infrastructure bears the name of an infrastructure reason.
LEMMA InfrastructureIsNamed ==
  ASSUME NEW q \in Request, NEW h
  PROVE  \A code \in Infrastructure(q, h) : IsInfrastructure(code)
BY LoopAssumption DEF Infrastructure, Request

\* ADR-0016: a failure of the infrastructure mints no token in any mode, whatever
\* the verdict, although the mint sees the reason codes only.
THEOREM InfrastructureNeverMints == Spec => []InfrastructureMintsNothing
<1>1. TypeOK => InfrastructureMintsNothing
  <2> SUFFICES ASSUME TypeOK, Infrastructure(request, TRUE) # {} PROVE ~MayMint(request)
    BY DEF InfrastructureMintsNothing
  <2> DEFINE w == Warrant(request)
  <2>1. w.mode = request.policy.mode
    BY DEF Warrant
  <2>2. CASE request.policy.mode = "halted"
    BY <2>1, <2>2 DEF MayMint, MintAccepts
  <2>3. CASE request.policy.mode # "halted"
    <3>1. PICK code \in Infrastructure(request, TRUE) : IsInfrastructure(code)
      BY InfrastructureIsNamed DEF TypeOK
    <3>2. code \in Resolve(request).reasons
      BY <2>3, PassRecords, ResolveAnswers
    <3>3. w.infrastructure
      BY <3>1, <3>2 DEF Warrant
    <3> HIDE DEF w
    <3>4. WithholdingReason(w) # "none"
      BY <2>1, <2>3, <3>3 DEF WithholdingReason
    <3> QED
      BY <3>4 DEF MayMint, w
  <2> QED
    BY <2>2, <2>3
<1> QED
  BY <1>1, TypeCorrect, PTL

\* A recorded shadow verdict is never less safe than the verdict, and where none
\* is recorded, in an enforcing class, the two passes agree.
THEOREM ShadowNeverSofter == Spec => []ShadowIsHonest
<1>1. ShadowIsHonest
  <2>1. CASE request.policy.mode = "halted"
    BY <2>1, ResolveAnswers DEF ShadowIsHonest
  <2>2. CASE request.policy.mode # "halted" /\ Resolve(request).shadow # "none"
    <3>1. /\ Resolve(request).shadow = ResolvePass(request, FALSE).verdict
          /\ Resolve(request).verdict = ResolvePass(request, TRUE).verdict
      BY <2>2, ResolveAnswers
    <3>2. IsAtLeastAsSafe(ResolvePass(request, FALSE).verdict,
                          ResolvePass(request, TRUE).verdict)
      BY ShadowIsHarder, PassIsMonotone
    <3> QED
      BY <2>2, <3>1, <3>2 DEF ShadowIsHonest
  <2>3. CASE request.policy.mode # "halted" /\ Resolve(request).shadow = "none"
    <3>1. ResolvePass(request, FALSE).verdict # "none"
      BY PassVerdicts DEF Verdicts
    <3>2. request.policy.mode = "enforce" /\ Demoted(request) = {}
      BY <2>3, <3>1, ResolveAnswers
    <3> QED
      BY <2>3, <3>2, NothingDemoted, ResolveAnswers DEF ShadowIsHonest
  <2> QED
    BY <2>1, <2>2, <2>3
<1> QED
  BY <1>1, PTL
===============================================================================
