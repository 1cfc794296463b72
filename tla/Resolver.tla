------------------------------- MODULE Resolver -------------------------------
(*****************************************************************************)
(* resolve(): the fixed sequence of guards that turns what is known of one   *)
(* evaluation into a verdict (resolve/resolver.py, resolve/inputs.py).       *)
(*                                                                           *)
(* Pure operators over a request.  A reason code is <<name, subject>>; the   *)
(* reason codes of a resolution are a set, their order and the prose trace   *)
(* are left out.  A critic whose repairable flag is unstated is one whose    *)
(* flag is FALSE, and reason = "default" is one that supplied no reason.     *)
(*****************************************************************************)
EXTENDS Verdicts, FiniteSets

CONSTANT MaxRepairBudget     \* defaults.MAX_REPAIR_BUDGET

ASSUME ResolverAssumption == MaxRepairBudget \in Nat

\* INFRASTRUCTURE_REASONS, ESCALATABLE_REASONS
InfrastructureReasons ==
  {"POLICY_ENGINE_UNAVAILABLE", "BUNDLE_INTEGRITY_FAILED", "REGISTRY_INTEGRITY_FAILED",
   "EVIDENCE_UNAVAILABLE", "CLOCK_UNAVAILABLE", "MONITOR_STATE_LOST", "HARNESS_UNHEALTHY",
   "CRITIC_ERROR", "SCHEMA_INVALID", "ACTION_CLASS_UNREGISTERED"}
EscalatableReasons == {"SOLVER_UNKNOWN", "SOLVER_TIMEOUT", "FACT_MISSING", "FACT_STALE"}

IsInfrastructure(code) == code[1] \in InfrastructureReasons
IsEscalatable(code) == code[1] \in EscalatableReasons

-------------------------------------------------------------------------------
(* Critic outcomes and facts.                                                *)

Indeterminate == {"UNKNOWN", "TIMEOUT", "ERROR"}
DefaultReason ==
  [FAIL |-> "RULE_FAILED", UNKNOWN |-> "SOLVER_UNKNOWN", TIMEOUT |-> "SOLVER_TIMEOUT",
   ERROR |-> "CRITIC_ERROR"]

\* A hard critic whose own mode is shadow or advisory is treated as soft.
CountsAsHard(o) == o.hard /\ o.mode = "enforce"

HasReason(o) == o.reason # "default" \/ o.result \in DOMAIN DefaultReason
ReasonOf(o) == <<IF o.reason # "default" THEN o.reason ELSE DefaultReason[o.result], o.id>>
ReasonsOf(outcomes) == {ReasonOf(o) : o \in {p \in outcomes : HasReason(p)}}

FactReason ==
  [MISSING |-> "FACT_MISSING", STALE |-> "FACT_STALE", PROVIDER_ERROR |-> "FACT_PROVIDER_ERROR"]

\* Bug: an escalatable fact is one policy can do without.
BlocksUnlessEscalatable(f) == f.required /\ f.status # "FRESH" /\ ~f.escalatable

\* A required fact that is not fresh; an optional one may be absent.
Blocks(f) == f.required /\ f.status # "FRESH"
BlockingReason(f) == <<FactReason[f.status], f.name>>

\* FactState.for_class: an escalatable fact needs a class that escalates this
\* very status; a provider's error never escalates.
MayBeStated(policy, f) ==
  f.escalatable =>
    /\ f.status # "PROVIDER_ERROR"
    /\ policy.approvable
    /\ policy.escalateOn \cap {"FACT_MISSING", "FACT_STALE"} # {}
    /\ f.status \in {"MISSING", "STALE"} => FactReason[f.status] \in policy.escalateOn

-------------------------------------------------------------------------------
(* What a pass over request q looks at.  The real pass honours the critics'  *)
(* own modes; the shadow pass counts every hard critic.                      *)

\* Bug: in the shadow pass the class's mode demotes its critics.
BlockingByClass(q, honour) ==
  {o \in q.critics : IF honour THEN CountsAsHard(o)
                     ELSE o.hard /\ q.policy.mode = "enforce"}

Blocking(q, honour) == {o \in q.critics : IF honour THEN CountsAsHard(o) ELSE o.hard}

Failures(outcomes) == {o \in outcomes : o.result = "FAIL"}
Repairable(outcomes) == {o \in Failures(outcomes) : o.repairable}
NonRepairable(outcomes) == {o \in Failures(outcomes) : ~o.repairable}

\* Bug: a budget above the maximum is believed.
BudgetAsDeclared(policy) == policy.budget

Budget(policy) == IF policy.budget < MaxRepairBudget THEN policy.budget ELSE MaxRepairBudget

\* Bug: one iteration too many.
BudgetSpentLate(q) == q.iteration > Budget(q.policy)

BudgetSpent(q) == q.iteration >= Budget(q.policy)

\* An infrastructure reason counts whatever the critic's nominal result.
Infrastructure(q, honour) ==
  q.infrastructure \cup {code \in ReasonsOf(Blocking(q, honour)) : IsInfrastructure(code)}

\* Each abstention with whether its source permits escalation: for a critic the
\* reason's name decides alone.
Abstentions(q, honour) ==
  {[code |-> ReasonOf(o), source |-> TRUE] :
      o \in {p \in Blocking(q, honour) : p.result \in Indeterminate}}
    \cup
  {[code |-> BlockingReason(f), source |-> f.escalatable] : f \in {g \in q.facts : Blocks(g)}}

\* Bug: the infrastructure reasons of critics are not carried by a denial.
UnevaluatedByHarness(q, honour) ==
  q.infrastructure \cup {a.code : a \in {b \in Abstentions(q, honour) : IsEscalatable(b.code)}}

Unevaluated(q, honour) ==
  Infrastructure(q, honour) \cup {a.code : a \in Abstentions(q, honour)}

\* Bug: an outstanding hard failure does not stand in the way.
MayEscalateOverFailures(q, honour) ==
  /\ q.policy.approvable
  /\ \A a \in Abstentions(q, honour) :
       /\ IsEscalatable(a.code)
       /\ a.code[1] \in q.policy.escalateOn
       /\ a.source

\* Step 6: every abstention must be one a human may answer for, and no hard
\* critic may have failed.
MayEscalate(q, honour) ==
  /\ q.policy.approvable
  /\ Failures(Blocking(q, honour)) = {}
  /\ \A a \in Abstentions(q, honour) :
       /\ IsEscalatable(a.code)
       /\ a.code[1] \in q.policy.escalateOn
       /\ a.source

-------------------------------------------------------------------------------

Decided(verdict, reasons) == [verdict |-> verdict, reasons |-> reasons, shadow |-> "none"]

\* Bug: an approval settles the abstentions along with the rule that asked.
ResolvePassTrustingApproval(q, honour) ==
  LET blocking == Blocking(q, honour) IN
  IF NonRepairable(blocking) # {} THEN Decided("DENY", ReasonsOf(NonRepairable(blocking)))
  ELSE IF q.approvalRequired /\ q.approvalSatisfied THEN Decided("ALLOW", {})
  ELSE IF Unevaluated(q, honour) # {} THEN Decided("ABSTAIN", Unevaluated(q, honour))
  ELSE IF Repairable(blocking) # {} THEN Decided("REPAIR", ReasonsOf(Repairable(blocking)))
  ELSE IF q.approvalRequired THEN Decided("REQUIRES_APPROVAL", {<<"APPROVAL_REQUIRED", "rule">>})
  ELSE Decided("ALLOW", {})

\* _resolve_pass, step by step: every denial before every abstention.
ResolvePass(q, honour) ==
  LET blocking == Blocking(q, honour)
      repairable == Repairable(blocking)
      unevaluated == Unevaluated(q, honour)
  IN
  \* 1: a hard failure no change of the proposal can satisfy
  IF NonRepairable(blocking) # {} THEN
    Decided("DENY", ReasonsOf(NonRepairable(blocking)) \cup unevaluated)
  \* 2: the session's rate limit
  ELSE IF q.rateLimited THEN
    Decided("DENY", {<<"REPAIR_RATE_LIMITED", "none">>} \cup unevaluated)
  \* 3: the repair budget
  ELSE IF repairable # {} /\ BudgetSpent(q) THEN
    Decided("DENY", {<<"REPAIR_BUDGET_EXHAUSTED", "none">>} \cup ReasonsOf(repairable)
                      \cup unevaluated)
  \* 4: an approval nobody may give
  ELSE IF q.approvalRequired /\ ~q.policy.approvable THEN
    Decided("DENY", {<<"APPROVAL_NOT_PERMITTED", "rule">>} \cup unevaluated)
  \* 5: infrastructure, terminal
  ELSE IF Infrastructure(q, honour) # {} THEN
    Decided("ABSTAIN", unevaluated)
  \* 6: any other abstention
  ELSE IF Abstentions(q, honour) # {} THEN
    Decided(IF MayEscalate(q, honour) THEN "REQUIRES_APPROVAL" ELSE "ABSTAIN", unevaluated)
  \* 7: ask the proposer again
  ELSE IF repairable # {} THEN
    Decided("REPAIR", ReasonsOf(repairable))
  \* 8: ask a human
  ELSE IF q.approvalRequired /\ ~q.approvalSatisfied THEN
    Decided("REQUIRES_APPROVAL", {<<"APPROVAL_REQUIRED", "rule">>})
  \* 9
  ELSE Decided("ALLOW", {})

\* The shadow pass runs whenever it could differ from the real one.
Demoted(q) == {o \in q.critics : o.hard /\ ~CountsAsHard(o)}

Resolve(q) ==
  IF q.policy.mode = "halted" THEN Decided("DENY", {<<"CLASS_HALTED", "none">>})
  ELSE IF q.policy.mode # "enforce" \/ Demoted(q) # {} THEN
    [ResolvePass(q, TRUE) EXCEPT !.shadow = ResolvePass(q, FALSE).verdict]
  ELSE ResolvePass(q, TRUE)
===============================================================================
