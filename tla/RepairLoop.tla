------------------------------ MODULE RepairLoop ------------------------------
(*****************************************************************************)
(* One action held open across its evaluations: an evaluation gathers what   *)
(* the critics, the fact providers, the harness and the rules have to say,   *)
(* in any order, and is resolved; a REPAIR verdict brings the proposer back  *)
(* with the next iteration, a REQUIRES_APPROVAL verdict brings the action    *)
(* back once a human has answered, each time against the policy as the       *)
(* registry has it by then.                                                  *)
(*                                                                           *)
(* The resolver and the rule that says when a token may exist are the code's *)
(* own.  What assembles a request is the gateway, which is not built: its    *)
(* actions are the calls the request types allow.                            *)
(*****************************************************************************)
EXTENDS Resolver

CONSTANTS
  Outcomes,        \* what critics may answer
  Facts,           \* what the fact loader may establish
  HarnessReasons,  \* what the harness itself may fail at
  Policies,        \* the class's entry, as successive registries may have it
  None

Policy == [mode : Modes, approvable : BOOLEAN, escalateOn : SUBSET EscalatableReasons,
           budget : Nat]
Outcome == [id : STRING, result : {"PASS", "FAIL", "NOT_APPLICABLE"} \cup Indeterminate,
            hard : BOOLEAN, mode : Modes \ {"halted"}, repairable : BOOLEAN, reason : STRING]
Fact == [name : STRING, status : {"FRESH", "MISSING", "STALE", "PROVIDER_ERROR"},
         required : BOOLEAN, escalatable : BOOLEAN]

\* ResolutionRequest accepts infrastructure reasons only.
ASSUME LoopAssumption ==
  /\ Outcomes \subseteq Outcome
  /\ Facts \subseteq Fact
  /\ \A code \in HarnessReasons : IsInfrastructure(code)
  /\ Policies \subseteq Policy

VARIABLES
  request,       \* the ResolutionRequest, as far as it is assembled
  resolution     \* what resolve() said of it, None before

vars == <<request, resolution>>

Request ==
  [policy : Policies, critics : SUBSET Outcomes, facts : SUBSET Facts,
   infrastructure : SUBSET HarnessReasons, iteration : Nat, rateLimited : BOOLEAN,
   approvalRequired : BOOLEAN, approvalSatisfied : BOOLEAN]

TypeOK ==
  /\ request \in Request
  /\ \A o, p \in request.critics : o.id = p.id => o = p
  /\ \A f, g \in request.facts : f.name = g.name => f = g
  /\ resolution # None => /\ resolution.verdict \in Verdicts
                          /\ resolution.shadow \in Verdicts \cup {"none"}

\* A new evaluation: every fact and every critic afresh (FR-47).
NewRequest(policy, iteration) ==
  [policy |-> policy, critics |-> {}, facts |-> {}, infrastructure |-> {},
   iteration |-> iteration, rateLimited |-> FALSE,
   approvalRequired |-> FALSE, approvalSatisfied |-> FALSE]

Init ==
  /\ \E policy \in Policies : request = NewRequest(policy, 0)
  /\ resolution = None

-------------------------------------------------------------------------------
(* Assembling a request.                                                     *)

Gathering == resolution = None /\ UNCHANGED resolution

CriticAnswers ==
  /\ Gathering
  /\ \E o \in Outcomes :
       /\ \A p \in request.critics : p.id # o.id
       /\ request' = [request EXCEPT !.critics = @ \cup {o}]

FactLoads ==
  /\ Gathering
  /\ \E f \in Facts :
       /\ \A g \in request.facts : g.name # f.name
       /\ request' = [request EXCEPT !.facts = @ \cup {f}]

HarnessFails ==
  /\ Gathering
  /\ \E code \in HarnessReasons \ request.infrastructure :
       request' = [request EXCEPT !.infrastructure = @ \cup {code}]

RateLimits ==
  /\ Gathering
  /\ ~request.rateLimited
  /\ request' = [request EXCEPT !.rateLimited = TRUE]

RuleRequiresApproval ==
  /\ Gathering
  /\ ~request.approvalRequired
  /\ request' = [request EXCEPT !.approvalRequired = TRUE]

\* A resolved approval bound to this proposal, found among the facts.
ApprovalResolves ==
  /\ Gathering
  /\ ~request.approvalSatisfied
  /\ request' = [request EXCEPT !.approvalSatisfied = TRUE]

Constrains ==
  CriticAnswers \/ FactLoads \/ HarnessFails \/ RateLimits \/ RuleRequiresApproval

-------------------------------------------------------------------------------

Evaluate ==
  /\ resolution = None
  /\ resolution' = Resolve(request)
  /\ UNCHANGED request

\* AgentResponse.is_repairable: REPAIR is the only verdict that is not terminal.
Resubmit ==
  /\ resolution # None
  /\ ~IsTerminal(resolution.verdict)
  /\ \E policy \in Policies : request' = NewRequest(policy, request.iteration + 1)
  /\ resolution' = None

EvaluateAfterApproval ==
  /\ resolution # None
  /\ resolution.verdict = "REQUIRES_APPROVAL"
  /\ \E policy \in Policies : request' = NewRequest(policy, request.iteration)
  /\ resolution' = None

Next ==
  \/ Constrains
  \/ ApprovalResolves
  \/ Evaluate
  \/ Resubmit
  \/ EvaluateAfterApproval

Spec == Init /\ [][Next]_vars

-------------------------------------------------------------------------------
(* Properties.                                                               *)

Verdict(q) == Resolve(q).verdict
EnforcedVerdict(q) == IF Resolve(q).shadow = "none" THEN Verdict(q) ELSE Resolve(q).shadow

\* resolver.py: "monotone under the safety order without exception".  Whatever
\* more goes wrong, in whatever order, neither the verdict nor the one
\* enforcement would have given moves towards execution.
ConstraintsNeverSoften ==
  [][Constrains => /\ IsAtLeastAsSafe(Verdict(request'), Verdict(request))
                   /\ IsAtLeastAsSafe(EnforcedVerdict(request'), EnforcedVerdict(request))]_vars

\* An approval answers the rule that asked for it and nothing else: it never
\* turns into execution what the harness refused or could not evaluate, and a
\* human is asked only where the class lets one answer.
ApprovalsNeverOverrule ==
  [][ApprovalResolves =>
       \/ Verdict(request') = Verdict(request)
       \/ /\ Verdict(request) = "REQUIRES_APPROVAL"
          /\ Verdict(request') = "ALLOW"
          /\ request.policy.approvable
          /\ \A f \in request.facts : f.required => f.status = "FRESH"]_vars

\* INV-03: ALLOW means that every enforcing critic passed, every required fact
\* is fresh, the harness is whole and whoever had to approve did.
AllowIsClean ==
  Verdict(request) = "ALLOW" =>
    /\ \A o \in request.critics : o.hard /\ o.mode = "enforce"
         => o.result \in {"PASS", "NOT_APPLICABLE"}
    /\ \A f \in request.facts : f.required => f.status = "FRESH"
    /\ request.infrastructure = {}
    /\ ~request.rateLimited
    /\ request.approvalRequired => request.approvalSatisfied /\ request.policy.approvable

\* Whatever the harness could not evaluate is among the reason codes, whichever
\* step decided, so that the record and the approver see all of it; a refusal
\* always has a reason.
UnevaluatedIsRecorded ==
  LET r == Resolve(request) IN
  /\ r.verdict # "ALLOW" => r.reasons # {}
  /\ request.policy.mode # "halted" =>
       /\ Infrastructure(request, TRUE) \subseteq r.reasons
       /\ \A a \in Abstentions(request, TRUE) : a.code \in r.reasons

\* A token may exist for this evaluation.
Warrant(q) ==
  [mode |-> q.policy.mode, verdict |-> Verdict(q),
   infrastructure |-> \E code \in Resolve(q).reasons : IsInfrastructure(code)]
MayMint(q) == WithholdingReason(Warrant(q)) = "none" /\ MintAccepts(Warrant(q))

\* ADR-0016: a failure of the infrastructure, the harness's own or a critic's,
\* mints no token in any mode, although the mint sees only the reason codes.
InfrastructureMintsNothing == Infrastructure(request, TRUE) # {} => ~MayMint(request)

\* A recorded shadow verdict is never less safe than the verdict, and where none
\* is recorded enforcement would have decided the same.
ShadowIsHonest ==
  LET r == Resolve(request) IN
  IF r.shadow # "none" THEN IsAtLeastAsSafe(r.shadow, r.verdict)
  ELSE request.policy.mode # "halted" => ResolvePass(request, FALSE).verdict = r.verdict

\* Section 5.4: an action is never evaluated at an iteration beyond the maximum
\* budget, which is also the largest the envelope can carry, whatever budgets
\* successive registries declare.
RepairsAreBounded == request.iteration <= MaxRepairBudget
===============================================================================
