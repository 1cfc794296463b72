------------------------------- MODULE Verdicts -------------------------------
(*****************************************************************************)
(* What the resolver, the pipeline, the mint and the broker share: verdicts  *)
(* and their safety order, rollout modes, and when a token may exist.        *)
(*****************************************************************************)
EXTENDS Integers

\* SAFETY_ORDER, least safe first.
SafetyOrder == <<"ALLOW", "REQUIRES_APPROVAL", "REPAIR", "ABSTAIN", "DENY">>
Verdicts == {"ALLOW", "REQUIRES_APPROVAL", "REPAIR", "ABSTAIN", "DENY"}
SafetyRank(v) == CHOOSE i \in 1..5 : SafetyOrder[i] = v
IsAtLeastAsSafe(candidate, baseline) == SafetyRank(candidate) >= SafetyRank(baseline)

PermitsExecution(v) == v = "ALLOW"
IsTerminal(v) == v # "REPAIR"

Modes == {"shadow", "advisory", "enforce", "halted"}
BlocksOnVerdict(mode) == mode \in {"enforce", "halted"}

\* _withholding_reason, of a mode, a verdict and whether some reason code of the
\* resolution is an infrastructure one.
WithholdingReason(r) ==
  CASE r.mode = "halted" -> "class_halted"
    [] r.mode # "halted" /\ r.infrastructure -> "infrastructure_failure"
    [] /\ r.mode # "halted" /\ ~r.infrastructure
       /\ BlocksOnVerdict(r.mode) /\ ~PermitsExecution(r.verdict) -> "verdict"
    [] OTHER -> "none"

\* What TokenService.issue asks again, on its own account.
MintAccepts(r) ==
  /\ r.mode # "halted"
  /\ BlocksOnVerdict(r.mode) => PermitsExecution(r.verdict)
===============================================================================
