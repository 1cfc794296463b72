--------------------------- MODULE MCTokenSpending ----------------------------
(* Two tokens of one decision and one token of another; three threads, two   *)
(* of them of one broker.                                                    *)
EXTENDS TokenSpending, TLC

CONSTANTS d1, d2, t1, t2, t3, e1, e2, x, y, k1, k2, b1, b2, th1, th2, th3

MCDecisionOf == [t \in Tokens |-> IF t = t3 THEN d2 ELSE d1]
MCBindingOf == [d \in Decisions |-> e1]
MCBrokerOf == [th \in Threads |-> IF th = th3 THEN b2 ELSE b1]

Allowed == {[mode |-> "enforce", verdict |-> "ALLOW"]}
\* One warrant per way through issue and verify.
Mixed == Allowed \cup {[mode |-> "shadow", verdict |-> "DENY"],
                       [mode |-> "enforce", verdict |-> "DENY"],
                       [mode |-> "halted", verdict |-> "ALLOW"]}

Interchangeable == Permutations({t1, t2}) \cup Permutations({th1, th2})
===============================================================================
