------------------------------- MODULE Evidence -------------------------------
(*****************************************************************************)
(* The evidence store (evidence/store.py) and the gateways' write-ahead logs *)
(* (evidence/wal.py): their state and, one action per region of code that    *)
(* runs under a lock, what each of their operations does to it.  There is no *)
(* Next here.  EvidenceLog closes the module with writers and operators;     *)
(* DecisionPipeline closes it with evaluations that mint tokens.             *)
(*                                                                           *)
(* Abstractions.  A record is its identity, (tenant, id), and whatever else  *)
(* the closing module puts in it; the hash that links a record to the one    *)
(* before it is its position in the tenant's chain (HashChain models the     *)
(* hashes).  A staged record is the position in its gateway's journal at     *)
(* which stage() accepted it: journal is a history, and the queue the code   *)
(* keeps is the set of positions in pending, read in increasing order.       *)
(*****************************************************************************)
EXTENDS Integers, Sequences, FiniteSets

CONSTANTS
  Gateways,      \* gateway processes: each has its own write-ahead log
  Tenants,       \* each has its own chain in the one store
  Replayers,     \* threads that call EvidenceWriter.recover()
  GatewayOf,     \* the gateway a thread runs on
  Unappendable,  \* records prepare_record refuses: wrong schema version or shape
  MaxPending,    \* InMemoryWriteAheadLog(max_pending=...)
  StoreMayLie,   \* may an append land and still report an outage (a timeout)?
  ReadsMayLag    \* may has_record miss a record (a read replica behind its primary)?

ASSUME EvidenceAssumption ==
  /\ \A p \in Replayers : GatewayOf[p] \in Gateways
  /\ MaxPending \in Nat \ {0}
  /\ StoreMayLie \in BOOLEAN
  /\ ReadsMayLag \in BOOLEAN

VARIABLES
  available,     \* InMemoryEvidenceStore._available
  chain,         \* _records: a sequence of records per tenant, seq = position - 1
  journal,       \* what stage() accepted, per gateway, in order (history)
  pending,       \* _pending: positions in journal waiting for a replay
  quarantined,   \* _quarantined: positions set aside
  replay         \* the call to replay() each replayer is in, if any

walVars == <<journal, pending, quarantined>>
evidenceVars == <<available, chain, journal, pending, quarantined, replay>>

\* StagedRecord.key, and the scope in which the store keeps ids unique.
Key(r) == <<r.tenant, r.id>>

\* What a replay is doing: nothing, about to look at the next record of its
\* snapshot, about to append it, or done with the loop.
IdleReplay == [pc |-> "idle", queue |-> {}, written |-> {}]
ReplayPCs == {"idle", "check", "append", "finish"}

EvidenceInit ==
  /\ available = TRUE
  /\ chain = [t \in Tenants |-> <<>>]
  /\ journal = [g \in Gateways |-> <<>>]
  /\ pending = [g \in Gateways |-> {}]
  /\ quarantined = [g \in Gateways |-> {}]
  /\ replay = [p \in Replayers |-> IdleReplay]

ChainTypeOK(Record) ==
  /\ available \in BOOLEAN
  /\ chain \in [Tenants -> Seq(Record)]

LogTypeOK(Record) ==
  /\ journal \in [Gateways -> Seq(Record)]
  /\ pending \in [Gateways -> SUBSET (Nat \ {0})]
  /\ quarantined \in [Gateways -> SUBSET (Nat \ {0})]
  /\ \A g \in Gateways : pending[g] \cup quarantined[g] \subseteq DOMAIN journal[g]

ReplayTypeOK(Id) ==
  /\ replay \in [Replayers -> [pc : ReplayPCs,
                               queue : SUBSET (Nat \ {0}),
                               written : SUBSET (Tenants \X Id)]]
  /\ \A p \in Replayers : replay[p].queue \subseteq DOMAIN journal[GatewayOf[p]]

EvidenceTypeOK(Record, Id) ==
  ChainTypeOK(Record) /\ LogTypeOK(Record) /\ ReplayTypeOK(Id)

-------------------------------------------------------------------------------
(* The store.                                                                *)

\* _ids_seen: the chain and the set of ids change together, under one lock.
InChain(k) == \E i \in DOMAIN chain[k[1]] : Key(chain[k[1]][i]) = k

\* has_record answers even while appends are refused.
HasRecordSays(k, answer) ==
  \/ answer = InChain(k)
  \/ ReadsMayLag /\ answer = FALSE

\* Bug: the append trusts an earlier has_record and does not look at _ids_seen.
AppendBlind(r) ==
  /\ r \notin Unappendable
  /\ available
  /\ chain' = [chain EXCEPT ![r.tenant] = Append(@, r)]

\* Bug: the insert replaces a record of the same id instead of refusing.
AppendReplacing(r) ==
  /\ r \notin Unappendable
  /\ available
  /\ chain' = [chain EXCEPT ![r.tenant] =
       Append(SelectSeq(@, LAMBDA s : s.id # r.id), r)]

\* append() returning normally: the next position of the tenant's chain.
AppendStores(r) ==
  /\ r \notin Unappendable
  /\ available
  /\ ~InChain(Key(r))
  /\ chain' = [chain EXCEPT ![r.tenant] = Append(@, r)]

\* append() raising DuplicateRecordError.
AppendFindsDuplicate(r) ==
  /\ r \notin Unappendable
  /\ available
  /\ InChain(Key(r))
  /\ UNCHANGED chain

\* append() raising EvidenceUnavailableError.  A store behind a network may do
\* so after the record landed; the in-memory one never does.
AppendReportsOutage(r) ==
  /\ r \notin Unappendable
  /\ \/ ~available /\ UNCHANGED chain
     \/ StoreMayLie /\ AppendStores(r)

\* append() raising MalformedRecordError or SchemaVersionError: prepare_record
\* runs before the store looks at its own availability.
AppendRejects(r) ==
  /\ r \in Unappendable
  /\ UNCHANGED chain

\* set_available: the outage and the recovery the fail-closed path exists for.
SetAvailable ==
  /\ available' = ~available
  /\ UNCHANGED <<chain, journal, pending, quarantined, replay>>

-------------------------------------------------------------------------------
(* The write-ahead log of gateway g.                                         *)

Held(g) == pending[g] \cup quarantined[g]
StagedKey(g, i) == Key(journal[g][i])
HoldsKey(g, k) == \E i \in Held(g) : StagedKey(g, i) = k
WithoutKeys(g, S, keys) == {i \in S : StagedKey(g, i) \notin keys}

\* Bug: staging looks for a retry among the pending records only.
StageForgettingQuarantine(g, r) ==
  /\ UNCHANGED quarantined
  /\ \/ /\ \E i \in pending[g] : StagedKey(g, i) = Key(r)
        /\ UNCHANGED <<journal, pending>>
     \/ /\ \A i \in pending[g] : StagedKey(g, i) # Key(r)
        /\ Cardinality(pending[g]) < MaxPending
        /\ journal' = [journal EXCEPT ![g] = Append(@, r)]
        /\ pending' = [pending EXCEPT ![g] = @ \cup {Len(journal[g]) + 1}]

\* stage() returning: a record already held is a retry, anything else joins the
\* end of the queue while there is room.  Quarantined records take up room.
Stage(g, r) ==
  /\ UNCHANGED quarantined
  /\ \/ /\ HoldsKey(g, Key(r))
        /\ UNCHANGED <<journal, pending>>
     \/ /\ ~HoldsKey(g, Key(r))
        /\ Cardinality(Held(g)) < MaxPending
        /\ journal' = [journal EXCEPT ![g] = Append(@, r)]
        /\ pending' = [pending EXCEPT ![g] = @ \cup {Len(journal[g]) + 1}]

\* stage() raising WriteAheadLogFullError.
StageIsFull(g, r) ==
  /\ ~HoldsKey(g, Key(r))
  /\ Cardinality(Held(g)) >= MaxPending
  /\ UNCHANGED walVars

\* quarantine(): out of the replay queue, still held.
Quarantine(g, k) ==
  /\ \E i \in pending[g] :
       /\ StagedKey(g, i) = k
       /\ pending' = [pending EXCEPT ![g] = @ \ {i}]
       /\ quarantined' = [quarantined EXCEPT ![g] = @ \cup {i}]
  /\ UNCHANGED journal

\* discard(): dropped from wherever it is held; naming an absent record is no error.
Discard(g, k) ==
  /\ pending' = [pending EXCEPT ![g] = WithoutKeys(g, @, {k})]
  /\ quarantined' = [quarantined EXCEPT ![g] = WithoutKeys(g, @, {k})]
  /\ UNCHANGED journal

\* The end of the process that holds an in-memory log, and discard_all().
LoseLog(g) ==
  /\ pending' = [pending EXCEPT ![g] = {}]
  /\ quarantined' = [quarantined EXCEPT ![g] = {}]
  /\ UNCHANGED journal

-------------------------------------------------------------------------------
(* replay(): a snapshot of the queue under the lock, then one record after   *)
(* another without it, then the written ones out of the queue as it is by    *)
(* then.  has_record and append are two visits to the store.                 *)

\* i is the next record of the snapshot that replayer p has not dealt with.
NextInQueue(p, i) ==
  /\ i \in replay[p].queue
  /\ \A j \in replay[p].queue : i <= j

ReplayStart(p) ==
  /\ replay[p].pc = "idle"
  /\ replay' = [replay EXCEPT ![p] = [pc |-> "check",
                                      queue |-> pending[GatewayOf[p]],
                                      written |-> {}]]
  /\ UNCHANGED <<available, chain, journal, pending, quarantined>>

\* The record at i is durable: note its key and go on to the next one.
Written(p, i) ==
  replay' = [replay EXCEPT ![p] = [pc |-> "check",
                                   queue |-> @.queue \ {i},
                                   written |-> @.written \cup {StagedKey(GatewayOf[p], i)}]]

ReplayCheck(p) ==
  /\ replay[p].pc = "check"
  /\ \E i \in replay[p].queue :
       /\ NextInQueue(p, i)
       /\ \/ /\ HasRecordSays(StagedKey(GatewayOf[p], i), TRUE)
             /\ Written(p, i)
          \/ /\ HasRecordSays(StagedKey(GatewayOf[p], i), FALSE)
             /\ replay' = [replay EXCEPT ![p].pc = "append"]
  /\ UNCHANGED <<available, chain, journal, pending, quarantined>>

\* Bug: a record the store refuses is skipped and the loop goes on behind it.
ReplayAppendSkipping(p) ==
  /\ replay[p].pc = "append"
  /\ \E i \in replay[p].queue :
       LET r == journal[GatewayOf[p]][i] IN
       /\ NextInQueue(p, i)
       /\ \/ AppendStores(r) /\ Written(p, i)
          \/ AppendFindsDuplicate(r) /\ Written(p, i)
          \/ /\ AppendReportsOutage(r) \/ AppendRejects(r)
             /\ replay' = [replay EXCEPT ![p].pc = "check", ![p].queue = @ \ {i}]
  /\ UNCHANGED <<available, journal, pending, quarantined>>

\* The first refusal that is not a duplicate ends the loop.
ReplayAppend(p) ==
  /\ replay[p].pc = "append"
  /\ \E i \in replay[p].queue :
       LET r == journal[GatewayOf[p]][i] IN
       /\ NextInQueue(p, i)
       /\ \/ AppendStores(r) /\ Written(p, i)
          \/ AppendFindsDuplicate(r) /\ Written(p, i)
          \/ /\ AppendReportsOutage(r) \/ AppendRejects(r)
             /\ replay' = [replay EXCEPT ![p].pc = "finish"]
  /\ UNCHANGED <<available, journal, pending, quarantined>>

\* Bug: the queue is overwritten with what is left of the snapshot, so a record
\* staged while the replay ran is forgotten.
ReplayFinishFromSnapshot(p) ==
  LET g == GatewayOf[p] IN
  /\ \/ replay[p].pc = "finish"
     \/ replay[p].pc = "check" /\ replay[p].queue = {}
  /\ pending' = [pending EXCEPT ![g] = WithoutKeys(g, replay[p].queue, replay[p].written)]
  /\ replay' = [replay EXCEPT ![p] = IdleReplay]
  /\ UNCHANGED <<available, chain, journal, quarantined>>

\* Bug: the written records stay in the queue.
ReplayFinishKeeping(p) ==
  /\ \/ replay[p].pc = "finish"
     \/ replay[p].pc = "check" /\ replay[p].queue = {}
  /\ replay' = [replay EXCEPT ![p] = IdleReplay]
  /\ UNCHANGED <<available, chain, journal, pending, quarantined>>

ReplayFinish(p) ==
  LET g == GatewayOf[p] IN
  /\ \/ replay[p].pc = "finish"
     \/ replay[p].pc = "check" /\ replay[p].queue = {}
  /\ pending' = [pending EXCEPT ![g] = WithoutKeys(g, @, replay[p].written)]
  /\ replay' = [replay EXCEPT ![p] = IdleReplay]
  /\ UNCHANGED <<available, chain, journal, quarantined>>

\* The thread dies inside the loop: what it appended stays staged (wal.py: "a
\* crash between the append and the discard").
ReplayAbandoned(p) ==
  /\ replay[p].pc # "idle"
  /\ replay' = [replay EXCEPT ![p] = IdleReplay]
  /\ UNCHANGED <<available, chain, journal, pending, quarantined>>

ReplayStep(p) == ReplayCheck(p) \/ ReplayAppend(p) \/ ReplayFinish(p)

ReplayNext ==
  \E p \in Replayers : ReplayStart(p) \/ ReplayStep(p) \/ ReplayAbandoned(p)

-------------------------------------------------------------------------------

\* A record id appears at most once in a tenant's chain, however many writers
\* and replays raced to append it: the has_record of a replay and its append
\* are two visits, and only the second look, under the store's lock, counts.
NoDuplicateRecords ==
  \A t \in Tenants : \A i, j \in DOMAIN chain[t] :
    chain[t][i].id = chain[t][j].id => i = j
===============================================================================
