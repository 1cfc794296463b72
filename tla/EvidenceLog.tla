------------------------------ MODULE EvidenceLog -----------------------------
(*****************************************************************************)
(* The durability of evidence: writers that append through EvidenceWriter,   *)
(* replays that drain what an outage left staged, and an operator who        *)
(* quarantines and discards, all interleaved at the granularity of the       *)
(* store's and the log's locks.                                              *)
(*****************************************************************************)
EXTENDS Evidence

CONSTANTS
  Writers,      \* threads, each of which calls EvidenceWriter.write once
  Records,      \* what they may write: [tenant, id, body]
  MaxStaged,    \* model bound on the stage() calls that bypass the writer
  None

Ids == {r.id : r \in Records}
Keys == {Key(r) : r \in Records}

ASSUME EvidenceLogAssumption ==
  /\ \A w \in Writers : GatewayOf[w] \in Gateways
  /\ \A r \in Records : r.tenant \in Tenants
  /\ Unappendable \subseteq Records
  /\ None \notin Records

VARIABLES
  writer,       \* the call to write() each writer is in
  discarded     \* history: <<g, i>> an operator dropped from g's log

vars == <<evidenceVars, writer, discarded>>

WriterPCs == {"idle", "stage", "stored", "refused", "staged", "dropped"}

TypeOK ==
  /\ EvidenceTypeOK(Records, Ids)
  /\ writer \in [Writers -> [pc : WriterPCs, rec : Records \cup {None}]]
  /\ \A w \in Writers : writer[w].rec = None <=> writer[w].pc = "idle"
  /\ discarded \subseteq Gateways \X (Nat \ {0})

Init ==
  /\ EvidenceInit
  /\ writer = [w \in Writers |-> [pc |-> "idle", rec |-> None]]
  /\ discarded = {}

-------------------------------------------------------------------------------
(* EvidenceWriter.write: append, and on an outage stage and re-raise.  Two   *)
(* visits, so the store may come back or the log fill up in between.         *)

WriteTo(w, pc, r) == writer' = [writer EXCEPT ![w] = [pc |-> pc, rec |-> r]]

\* prepare_record refuses the unappendable before the store sees them.
WriteAppend(w) ==
  /\ writer[w].pc = "idle"
  /\ \E r \in Records \ Unappendable :
       \/ AppendStores(r) /\ WriteTo(w, "stored", r)
       \/ AppendFindsDuplicate(r) /\ WriteTo(w, "refused", r)
       \/ AppendReportsOutage(r) /\ WriteTo(w, "stage", r)
  /\ UNCHANGED <<available, walVars, replay, discarded>>

WriteStage(w) ==
  /\ writer[w].pc = "stage"
  /\ LET r == writer[w].rec
         g == GatewayOf[w]
     IN \/ Stage(g, r) /\ WriteTo(w, "staged", r)
        \/ StageIsFull(g, r) /\ WriteTo(w, "dropped", r)
  /\ UNCHANGED <<available, chain, replay, discarded>>

\* The log is a public protocol: a record this build cannot chain can be staged
\* directly.  It is the case quarantine() exists for.
StageDirectly(g) ==
  /\ Len(journal[g]) < MaxStaged
  /\ \E r \in Unappendable : Stage(g, r)
  /\ UNCHANGED <<available, chain, replay, writer, discarded>>

-------------------------------------------------------------------------------
(* The operator.  quarantine and discard take the tenant as an option and    *)
(* refuse to choose when the bare id is ambiguous, which changes nothing.    *)

OperatorQuarantines(g) ==
  /\ \E k \in Keys : Quarantine(g, k)
  /\ UNCHANGED <<available, chain, replay, writer, discarded>>

OperatorDiscards(g) ==
  /\ \E k \in Keys :
       /\ HoldsKey(g, k)
       /\ Discard(g, k)
       /\ discarded' = discarded \cup {<<g, i>> : i \in {j \in Held(g) : StagedKey(g, j) = k}}
  /\ UNCHANGED <<available, chain, replay, writer>>

OperatorDiscardsAll(g) ==
  /\ Held(g) # {}
  /\ LoseLog(g)
  /\ discarded' = discarded \cup {<<g, i>> : i \in Held(g)}
  /\ UNCHANGED <<available, chain, replay, writer>>

-------------------------------------------------------------------------------

Next ==
  \/ SetAvailable /\ UNCHANGED <<writer, discarded>>
  \/ \E w \in Writers : WriteAppend(w) \/ WriteStage(w)
  \/ ReplayNext /\ UNCHANGED <<writer, discarded>>
  \/ \E g \in Gateways :
       \/ StageDirectly(g)
       \/ OperatorQuarantines(g)
       \/ OperatorDiscards(g)
       \/ OperatorDiscardsAll(g)

Spec == Init /\ [][Next]_vars

\* A call that has begun runs on; nothing makes anyone begin one.  Nor does
\* anything in the code call recover(): that is left to the property below.
FairSpec ==
  /\ Spec
  /\ \A w \in Writers : WF_vars(WriteStage(w))
  /\ \A p \in Replayers : WF_vars(ReplayStep(p) /\ UNCHANGED <<writer, discarded>>)

-------------------------------------------------------------------------------
(* Properties.                                                               *)

\* Evidence is never lost silently: what stage() accepted is still held, or in
\* the chain, or was dropped by name; and what a writer was told agrees with it.
StagedIsAccountedFor ==
  \A g \in Gateways : \A i \in DOMAIN journal[g] :
    i \in Held(g) \/ InChain(StagedKey(g, i)) \/ <<g, i>> \in discarded

AnswerIsTrue(w) ==
  LET k == Key(writer[w].rec) IN
  /\ writer[w].pc \in {"stored", "refused"} => InChain(k)
  /\ writer[w].pc = "staged" => \E i \in DOMAIN journal[GatewayOf[w]] : StagedKey(GatewayOf[w], i) = k

NothingLost ==
  /\ StagedIsAccountedFor
  /\ \A w \in Writers : writer[w].pc # "idle" => AnswerIsTrue(w)

\* A log never holds two copies of one record, nor more records than its bound:
\* a quarantined record still takes up its room, and re-staging it would put it
\* back at the head of the queue.
BacklogBounded ==
  \A g \in Gateways :
    /\ Cardinality(Held(g)) <= MaxPending
    /\ \A i, j \in Held(g) : StagedKey(g, i) = StagedKey(g, j) => i = j

\* Replay stops at the first failure: when a replay makes a staged record
\* durable, everything that was staged before it and still waits is durable too.
AppendedByReplay(p, i) ==
  /\ replay[p].pc = "append"
  /\ NextInQueue(p, i)
  /\ chain' # chain
  /\ replay'[p] # replay[p]

ReplayKeepsStagingOrder ==
  [][\A p \in Replayers : \A i \in replay[p].queue :
       AppendedByReplay(p, i) =>
         \A j \in pending[GatewayOf[p]] : j < i => InChain(StagedKey(GatewayOf[p], j))]_vars

\* ADR-0006, FR-23: evidence is only ever appended to, one record at a time, and
\* what a log holds leaves it only once it is durable or when an operator names
\* it, whatever outages, retries and replays there are in between.
Durability == INSTANCE DurableEvidence WITH
  Logs <- Gateways,
  Capacity <- MaxPending,
  evidence <- chain,
  promised <- journal,
  owed <- [g \in Gateways |-> Held(g)],
  dropped <- discarded

ImplementsDurableEvidence == Durability!Spec

\* If the store stays up, no unappendable record stays in the queue, and
\* replays keep coming and finishing, then what is staged leaves the queue.
PoisonPending == \E g \in Gateways : \E i \in pending[g] : journal[g][i] \in Unappendable

\* One position per write() call and per record staged directly.
Positions == 1..(MaxStaged + Cardinality(Writers))

ReplaysKeepFinishing == \A p \in Replayers : []<><<ReplayFinish(p)>>_vars

StagedDrains ==
  (<>[]available /\ <>[]~PoisonPending /\ ReplaysKeepFinishing)
    => \A g \in Gateways : \A i \in Positions : [](i \in pending[g] => <>(i \notin pending[g]))
===============================================================================
