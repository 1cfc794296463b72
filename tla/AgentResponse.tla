----------------------------- MODULE AgentResponse -----------------------------
(*****************************************************************************)
(* What the governed agent is told of an evaluation: the projection of an    *)
(* EvaluationOutcome onto an AgentResponse (response/projection.py,          *)
(* response/agent.py).                                                       *)
(*                                                                           *)
(* An outcome is [verdict, reasons, token, ...].  A counterexample is        *)
(* "typed" when every string in it is an identifier and "text" otherwise;    *)
(* the bound on how many counterexamples fit is left out.                    *)
(*****************************************************************************)
EXTENDS Verdicts, FiniteSets

CONSTANT MaxReasonCodes   \* MAX_REASON_CODES, the record's and the response's own

Counterexamples == {"typed", "text"}

\* VERDICTS_CARRYING_COUNTEREXAMPLES, VERDICTS_CARRYING_APPROVAL_REF
CarriesCounterexamples(v) == v \in {"REPAIR", "DENY"}
CarriesApprovalRef(v) == v = "REQUIRES_APPROVAL"

\* discloses_counterexamples
Discloses(mode) == BlocksOnVerdict(mode)

\* What the caller offers is kept only where the mode discloses.
Shown(mode, offered) == IF Discloses(mode) THEN offered ELSE {}
ShownRef(mode, approvalRef) == Discloses(mode) /\ approvalRef

\* AgentResponse(...) is accepted: every refusal explained, counterexamples and
\* the approval reference on the verdicts they belong to, no text.
Fits(r) ==
  /\ r.verdict # "ALLOW" => r.reasons # {}
  /\ Cardinality(r.reasons) <= MaxReasonCodes
  /\ r.counterexamples # {} => CarriesCounterexamples(r.verdict)
  /\ "text" \notin r.counterexamples
  /\ r.approvalRef => CarriesApprovalRef(r.verdict)

Projected(outcome, mode, offered, approvalRef, result) ==
  [verdict |-> outcome.verdict, reasons |-> outcome.reasons,
   counterexamples |-> Shown(mode, offered), approvalRef |-> ShownRef(mode, approvalRef),
   result |-> result]

\* project_evaluation_outcome returns: only an authorised execution has a result.
Projects(outcome, mode, offered, approvalRef, result) ==
  /\ result => outcome.token
  /\ Fits(Projected(outcome, mode, offered, approvalRef, result))

IsRepairable(r) == ~IsTerminal(r.verdict)
===============================================================================
