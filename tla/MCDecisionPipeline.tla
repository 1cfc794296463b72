-------------------------- MODULE MCDecisionPipeline --------------------------
(* Two gateways: c1 and c2 evaluate one decision on the first, c3 evaluates  *)
(* the same decision on the second.  One replay runs on the first gateway.   *)
EXTENDS DecisionPipeline, TLC

CONSTANTS g1, g2, t1, d1, c1, c2, c3, p1

MCGatewayOf == (c1 :> g1) @@ (c2 :> g1) @@ (c3 :> g2) @@ (p1 :> g1)
MCTenantOf == d1 :> t1
MCDecisionOf == [c \in Calls |-> d1]

Req(mode, verdict, infrastructure, malformed) ==
  [mode |-> mode, verdict |-> verdict, infrastructure |-> infrastructure,
   malformed |-> malformed]

\* One request per way through the code.
MCRequests == {
  Req("enforce", "ALLOW", FALSE, "none"),
  Req("enforce", "ALLOW", FALSE, "evaluation"),
  Req("enforce", "ALLOW", FALSE, "issuance"),
  Req("enforce", "DENY", FALSE, "none"),
  Req("shadow", "DENY", FALSE, "none"),
  Req("shadow", "ABSTAIN", TRUE, "none"),
  Req("halted", "DENY", FALSE, "none")}

MCAllow == {Req("enforce", "ALLOW", FALSE, "none")}

Interchangeable == Permutations({c1, c2})
===============================================================================
