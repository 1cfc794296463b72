---------------------------- MODULE MCEvidenceLog -----------------------------
(* One gateway, two writers, two replays, two tenants that use the same id.  *)
(* The writers and the replays are interchangeable.                          *)
EXTENDS EvidenceLog, TLC

CONSTANTS g1, t1, t2, w1, w2, p1, p2

MCGatewayOf == [x \in {w1, w2, p1, p2} |-> g1]

\* Two tenants with the same id, and one more record of the first tenant.
A1 == [tenant |-> t1, id |-> "a"]
A2 == [tenant |-> t2, id |-> "a"]
B1 == [tenant |-> t1, id |-> "b"]
Poison == [tenant |-> t1, id |-> "bad"]

MCRecords == {A1, A2, B1, Poison}
MCRecoveryRecords == {A1, B1, Poison}
MCUnappendable == {Poison}

Interchangeable == Permutations({w1, w2}) \cup Permutations({p1, p2})
===============================================================================
