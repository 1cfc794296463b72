----------------------------- MODULE MCRepairLoop -----------------------------
(* Two critics that fail in every way that differs, one fact, one failure of *)
(* the harness, and entries no registry loader would accept.                 *)
EXTENDS RepairLoop

Critic(id, result, mode, repairable, reason) ==
  [id |-> id, result |-> result, hard |-> TRUE, mode |-> mode, repairable |-> repairable,
   reason |-> reason]

MCOutcomes == {
  Critic("a", "PASS", "enforce", FALSE, "default"),
  Critic("a", "PASS", "enforce", FALSE, "MONITOR_STATE_LOST"),
  Critic("a", "FAIL", "enforce", TRUE, "default"),
  Critic("a", "FAIL", "shadow", TRUE, "default"),
  Critic("a", "TIMEOUT", "advisory", FALSE, "default"),
  Critic("b", "FAIL", "enforce", FALSE, "default"),
  Critic("b", "UNKNOWN", "enforce", FALSE, "default"),
  Critic("b", "UNKNOWN", "enforce", FALSE, "MONITOR_VIOLATION"),
  Critic("b", "ERROR", "enforce", FALSE, "default"),
  [Critic("b", "FAIL", "enforce", FALSE, "default") EXCEPT !.hard = FALSE]}

Ci(status, required, escalatable) ==
  [name |-> "ci", status |-> status, required |-> required, escalatable |-> escalatable]

MCFacts == {
  Ci("FRESH", TRUE, FALSE), Ci("MISSING", FALSE, FALSE), Ci("MISSING", TRUE, FALSE),
  Ci("STALE", TRUE, FALSE), Ci("STALE", TRUE, TRUE), Ci("PROVIDER_ERROR", TRUE, TRUE)}

MCHarnessReasons == {<<"POLICY_ENGINE_UNAVAILABLE", "none">>}

Entry(mode, approvable, escalateOn, budget) ==
  [mode |-> mode, approvable |-> approvable, escalateOn |-> escalateOn, budget |-> budget]

MCPolicies == {
  Entry("enforce", TRUE, {"FACT_STALE", "SOLVER_UNKNOWN"}, 5),
  Entry("enforce", FALSE, {"FACT_STALE"}, 5),
  Entry("enforce", TRUE, {}, 1),
  Entry("shadow", TRUE, {"FACT_STALE", "SOLVER_UNKNOWN"}, 5),
  Entry("shadow", FALSE, {}, 1),
  Entry("advisory", TRUE, {}, 0),
  Entry("halted", TRUE, {}, 1)}
===============================================================================
