---------------------------- MODULE DurableEvidence ----------------------------
(*****************************************************************************)
(* What the evidence store, its writers and its write-ahead logs promise,    *)
(* without outages, threads, replays or a quarantine (ADR-0006, FR-23,       *)
(* NFR-12).  Evidence is a list that one record at a time is put at the end  *)
(* of, each id once.  A log promises to make a record durable, owes it from  *)
(* then on, and is quit of it in two ways only: the record is in the         *)
(* evidence, or an operator drops it.                                        *)
(*****************************************************************************)
EXTENDS Integers, Sequences, FiniteSets

CONSTANTS
  Tenants,
  Logs,
  Records,       \* [tenant, id, ...]
  Capacity       \* how many records a log may owe

VARIABLES
  evidence,      \* the records of each tenant, in order
  promised,      \* what each log has promised, in order
  owed,          \* the promises each log has yet to keep, by place
  dropped        \* the promises an operator released a log from

Init ==
  /\ evidence = [t \in Tenants |-> <<>>]
  /\ promised = [g \in Logs |-> <<>>]
  /\ owed = [g \in Logs |-> {}]
  /\ dropped = {}

Same(r, s) == r.tenant = s.tenant /\ r.id = s.id

Durable(r) == \E i \in DOMAIN evidence[r.tenant] : Same(evidence[r.tenant][i], r)

Record(r) ==
  /\ ~Durable(r)
  /\ evidence' = [evidence EXCEPT ![r.tenant] = Append(@, r)]
  /\ UNCHANGED <<promised, owed, dropped>>

Promise(g, r) ==
  /\ Cardinality(owed[g]) < Capacity
  /\ \A i \in owed[g] : ~Same(promised[g][i], r)
  /\ promised' = [promised EXCEPT ![g] = Append(@, r)]
  /\ owed' = [owed EXCEPT ![g] = @ \cup {Len(promised[g]) + 1}]
  /\ UNCHANGED <<evidence, dropped>>

Keep(g, S) ==
  /\ \A i \in S : Durable(promised[g][i])
  /\ owed' = [owed EXCEPT ![g] = @ \ S]
  /\ UNCHANGED <<evidence, promised, dropped>>

Drop(g, S) ==
  /\ dropped' = dropped \cup {<<g, i>> : i \in S}
  /\ owed' = [owed EXCEPT ![g] = @ \ S]
  /\ UNCHANGED <<evidence, promised>>

Next ==
  \/ \E r \in Records : Record(r)
  \/ \E g \in Logs : \E r \in Records : Promise(g, r)
  \/ \E g \in Logs : \E S \in SUBSET owed[g] : Keep(g, S) \/ Drop(g, S)

Spec == Init /\ [][Next]_<<evidence, promised, owed, dropped>>
===============================================================================
