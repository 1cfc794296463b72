--------------------------- MODULE EvidenceLogProofs --------------------------
(*****************************************************************************)
(* The safety properties of EvidenceLog, for every number of writers,        *)
(* replayers, gateways, tenants and records and every log bound.             *)
(*                                                                           *)
(* Each step of Next is first summarised (Step): the chains grow, a log      *)
(* shrinks or takes one record at its end, a replay advances.  The           *)
(* invariants are then proved from that summary.                             *)
(*****************************************************************************)
EXTENDS EvidenceLog, EvidenceProofs, FiniteSetTheorems

\* What a replay has noted as written is in the chain.
WrittenStands ==
  \A p \in Replayers : \A k \in replay[p].written : InChain(k)

\* Whatever waits before a record of a replay's snapshot is still to be dealt
\* with by that replay, or is durable: nothing is passed over.
Covers(p) ==
  \A i \in replay[p].queue : \A j \in pending[GatewayOf[p]] :
    j < i => j \in replay[p].queue \/ InChain(StagedKey(GatewayOf[p], j))

ReplayCovers == \A p \in Replayers : Covers(p)

AnswersAreTrue == \A w \in Writers : writer[w].pc # "idle" => AnswerIsTrue(w)

HeldIsFinite == \A g \in Gateways : IsFiniteSet(Held(g))

BaseInv == TypeOK /\ ChainInv

-------------------------------------------------------------------------------
(* The summary of a step.                                                    *)

LogMoves(h) == Shrinks(h) \/ \E r \in Records : GrowsBy(h, r)

\* What leaves a log was seen durable by a replay, or was dropped by name.
LeavesFor(h) ==
  \A i \in Held(h) \ Held(h)' :
    \/ \E p \in Replayers : StagedKey(h, i) \in replay[p].written
    \/ <<h, i>> \in discarded'

Advances(q) ==
  \/ replay'[q] = replay[q]
  \/ replay'[q] = IdleReplay
  \/ replay'[q].queue = replay[q].queue /\ replay'[q].written = replay[q].written
  \/ replay'[q].queue = pending[GatewayOf[q]] /\ replay'[q].written = {}
  \/ \E i \in replay[q].queue :
       /\ replay'[q].queue = replay[q].queue \ {i}
       /\ replay'[q].written = replay[q].written \cup {StagedKey(GatewayOf[q], i)}
       /\ \/ InChain(StagedKey(GatewayOf[q], i)) /\ UNCHANGED chain
          \/ AppendStores(journal[GatewayOf[q]][i])

Answers(w) == writer'[w] = writer[w] \/ AnswerIsTrue(w)'

Step ==
  /\ TypeOK' /\ ChainInv' /\ ChainGrows
  /\ \A h \in Gateways : LogMoves(h) /\ LeavesFor(h)
  /\ \A q \in Replayers : Advances(q)
  /\ \A w \in Writers : Answers(w)
  /\ discarded \subseteq discarded'

-------------------------------------------------------------------------------

LEMMA RecordsWellFormed == WellFormed(Records, Ids)
  BY EvidenceLogAssumption DEF WellFormed, Ids

LEMMA ChainStands ==
  ASSUME NEW k, k[1] \in Tenants, ChainGrows, InChain(k)
  PROVE  InChain(k)'
  BY DEF InChain, ChainGrows

\* An append puts the record's key in the chain.
LEMMA AppendedIsInChain ==
  ASSUME ChainTypeOK(Records), NEW r \in Records, AppendStores(r)
  PROVE  InChain(Key(r))'
  <1>1. r.tenant \in Tenants
    BY EvidenceLogAssumption
  <1>2. /\ DOMAIN chain'[r.tenant] = DOMAIN chain[r.tenant] \cup {Len(chain[r.tenant]) + 1}
        /\ chain'[r.tenant][Len(chain[r.tenant]) + 1] = r
    BY <1>1, AppendAddsAtEnd
  <1> QED
    BY <1>2 DEF InChain, Key

LEMMA TypedWriter ==
  ASSUME TypeOK, NEW w \in Writers, NEW pc \in WriterPCs \ {"idle"}, NEW r \in Records,
         WriteTo(w, pc, r)
  PROVE  /\ writer' \in [Writers -> [pc : WriterPCs, rec : Records \cup {None}]]
         /\ \A v \in Writers : writer'[v].rec = None <=> writer'[v].pc = "idle"
         /\ writer'[w] = [pc |-> pc, rec |-> r]
         /\ \A v \in Writers : v # w => writer'[v] = writer[v]
  BY EvidenceLogAssumption DEF TypeOK, WriteTo

LEMMA KeepsChain ==
  ASSUME BaseInv, UNCHANGED chain
  PROVE  ChainInv' /\ ChainGrows
  BY DEF BaseInv, ChainInv, ChainGrows, OwnChain, NoDuplicateRecords

LEMMA KeepsReplays ==
  ASSUME TypeOK, UNCHANGED replay,
         \A h \in Gateways : DOMAIN journal[h] \subseteq DOMAIN journal'[h]
  PROVE  ReplayTypeOK(Ids)' /\ \A q \in Replayers : Advances(q)
  BY EvidenceAssumption DEF TypeOK, EvidenceTypeOK, ReplayTypeOK, Advances

LEMMA KeepsLog ==
  ASSUME TypeOK, UNCHANGED walVars
  PROVE  LogTypeOK(Records)' /\ \A h \in Gateways : LogMoves(h) /\ LeavesFor(h)
  BY DEF TypeOK, EvidenceTypeOK, LogTypeOK, walVars, LogMoves, LeavesFor, Shrinks, Held

-------------------------------------------------------------------------------
(* Each action is such a step.                                               *)

LEMMA WriteAppendSteps ==
  ASSUME BaseInv, NEW w \in Writers, WriteAppend(w)
  PROVE  Step
  <1> USE DEF BaseInv
  <1>1. PICK r \in Records \ Unappendable :
          \/ AppendStores(r) /\ WriteTo(w, "stored", r)
          \/ AppendFindsDuplicate(r) /\ WriteTo(w, "refused", r)
          \/ AppendReportsOutage(r) /\ WriteTo(w, "stage", r)
    BY DEF WriteAppend
  <1>2. UNCHANGED <<available, walVars, replay, discarded>>
    BY DEF WriteAppend
  <1>3. PICK pc \in {"stored", "refused", "stage"} :
          /\ WriteTo(w, pc, r)
          /\ pc = "stored" => AppendStores(r)
          /\ pc = "refused" => InChain(Key(r)) /\ UNCHANGED chain
    BY <1>1 DEF AppendFindsDuplicate
  <1>4. r.tenant \in Tenants
    BY EvidenceLogAssumption
  <1>5. ChainTypeOK(Records)' /\ ChainInv' /\ ChainGrows
    <2>1. CASE AppendStores(r)
      BY <1>2, <1>4, <2>1, AppendAddsAtEnd, AppendKeepsChain
         DEF TypeOK, EvidenceTypeOK, ChainTypeOK
    <2>2. CASE UNCHANGED chain
      BY <1>2, <2>2, KeepsChain DEF TypeOK, EvidenceTypeOK, ChainTypeOK
    <2> QED
      BY <1>1, <2>1, <2>2 DEF AppendFindsDuplicate, AppendReportsOutage
  <1>6. /\ LogTypeOK(Records)' /\ ReplayTypeOK(Ids)'
        /\ \A h \in Gateways : LogMoves(h) /\ LeavesFor(h)
        /\ \A q \in Replayers : Advances(q)
    BY <1>2, KeepsLog, KeepsReplays DEF walVars
  <1>7. pc \in WriterPCs \ {"idle"}
    BY DEF WriterPCs
  <1>8. /\ writer' \in [Writers -> [pc : WriterPCs, rec : Records \cup {None}]]
        /\ \A v \in Writers : writer'[v].rec = None <=> writer'[v].pc = "idle"
        /\ writer'[w] = [pc |-> pc, rec |-> r]
        /\ \A v \in Writers : v # w => writer'[v] = writer[v]
    BY <1>3, <1>7, TypedWriter
  <1>9. AnswerIsTrue(w)'
    <2>1. pc = "stored" => InChain(Key(r))'
      BY <1>3, AppendedIsInChain DEF TypeOK, EvidenceTypeOK
    <2>2. pc = "refused" => InChain(Key(r))'
      BY <1>3 DEF InChain
    <2> QED
      BY <1>3, <1>8, <2>1, <2>2 DEF AnswerIsTrue
  <1> QED
    BY <1>2, <1>5, <1>6, <1>8, <1>9 DEF Step, TypeOK, EvidenceTypeOK, Answers

\* A record just staged, or found held, is in the journal.
LEMMA StagedIsInJournal ==
  ASSUME LogTypeOK(Records), NEW g \in Gateways, NEW r \in Records, Stage(g, r)
  PROVE  \E i \in DOMAIN journal'[g] : StagedKey(g, i)' = Key(r)
  <1>1. CASE HoldsKey(g, Key(r)) /\ UNCHANGED journal
    BY <1>1 DEF HoldsKey, Held, LogTypeOK, StagedKey
  <1>2. CASE journal' = [journal EXCEPT ![g] = Append(journal[g], r)]
    <2>1. journal[g] \in Seq(Records) /\ journal'[g] = Append(journal[g], r)
      BY <1>2 DEF LogTypeOK
    <2>2. /\ Len(journal[g]) + 1 \in DOMAIN journal'[g]
          /\ journal'[g][Len(journal[g]) + 1] = r
      BY <2>1
    <2> QED
      BY <2>2 DEF StagedKey
  <1> QED
    BY <1>1, <1>2 DEF Stage

\* What a visit to stage() does to the logs.
LEMMA StagingMoves ==
  ASSUME BaseInv, NEW g \in Gateways, NEW r \in Records,
         Stage(g, r) \/ StageIsFull(g, r)
  PROVE  /\ LogTypeOK(Records)'
         /\ \A h \in Gateways : DOMAIN journal[h] \subseteq DOMAIN journal'[h]
         /\ \A h \in Gateways : LogMoves(h) /\ LeavesFor(h)
  <1> USE DEF BaseInv, TypeOK, EvidenceTypeOK
  <1>1. /\ LogTypeOK(Records)'
        /\ \A h \in Gateways : DOMAIN journal[h] \subseteq DOMAIN journal'[h]
    <2>1. CASE Stage(g, r)
      BY <2>1, StageKeepsTypes
    <2>2. CASE StageIsFull(g, r)
      BY <2>2 DEF StageIsFull, walVars, LogTypeOK
    <2> QED
      BY <2>1, <2>2
  <1>2. \A h \in Gateways : LogMoves(h)
    BY StageMoves DEF LogMoves
  <1>3. \A h \in Gateways : Held(h) \subseteq Held(h)'
    BY DEF Stage, StageIsFull, walVars, Held, LogTypeOK
  <1> QED
    BY <1>1, <1>2, <1>3 DEF LeavesFor

LEMMA WriteStageSteps ==
  ASSUME BaseInv, NEW w \in Writers, WriteStage(w)
  PROVE  Step
  <1> USE DEF BaseInv
  <1> DEFINE r == writer[w].rec
             g == GatewayOf[w]
  <1>1. r \in Records /\ g \in Gateways
    BY EvidenceLogAssumption DEF WriteStage, TypeOK
  <1>2. UNCHANGED <<available, chain, replay, discarded>>
    BY DEF WriteStage
  <1>3. PICK pc \in {"staged", "dropped"} :
          /\ WriteTo(w, pc, r)
          /\ IF pc = "staged" THEN Stage(g, r) ELSE StageIsFull(g, r)
    BY DEF WriteStage
  <1>4. /\ LogTypeOK(Records)'
        /\ \A h \in Gateways : DOMAIN journal[h] \subseteq DOMAIN journal'[h]
        /\ \A h \in Gateways : LogMoves(h) /\ LeavesFor(h)
    BY <1>1, <1>3, StagingMoves
  <1>5. ReplayTypeOK(Ids)' /\ \A q \in Replayers : Advances(q)
    BY <1>2, <1>4, KeepsReplays
  <1>6. ChainTypeOK(Records)' /\ ChainInv' /\ ChainGrows
    BY <1>2, KeepsChain DEF TypeOK, EvidenceTypeOK, ChainTypeOK
  <1>7. pc \in WriterPCs \ {"idle"}
    BY DEF WriterPCs
  <1>8. /\ writer' \in [Writers -> [pc : WriterPCs, rec : Records \cup {None}]]
        /\ \A v \in Writers : writer'[v].rec = None <=> writer'[v].pc = "idle"
        /\ writer'[w] = [pc |-> pc, rec |-> r]
        /\ \A v \in Writers : v # w => writer'[v] = writer[v]
    BY <1>1, <1>3, <1>7, TypedWriter
  <1>9. AnswerIsTrue(w)'
    <2>1. pc = "staged" => \E i \in DOMAIN journal'[g] : StagedKey(g, i)' = Key(r)
      BY <1>1, <1>3, StagedIsInJournal DEF TypeOK, EvidenceTypeOK
    <2> QED
      BY <1>8, <2>1 DEF AnswerIsTrue
  <1> QED
    BY <1>2, <1>4, <1>5, <1>6, <1>8, <1>9 DEF Step, TypeOK, EvidenceTypeOK, Answers

\* An action that touches only the logs and the history of drops.
LEMMA LogStepSteps ==
  ASSUME BaseInv, UNCHANGED <<available, chain, replay, writer>>,
         LogTypeOK(Records)', discarded \subseteq discarded',
         discarded' \subseteq Gateways \X (Nat \ {0}),
         \A h \in Gateways : DOMAIN journal[h] \subseteq DOMAIN journal'[h],
         \A h \in Gateways : LogMoves(h) /\ LeavesFor(h)
  PROVE  Step
  <1>1. ReplayTypeOK(Ids)' /\ \A q \in Replayers : Advances(q)
    BY KeepsReplays DEF BaseInv
  <1>2. ChainTypeOK(Records)' /\ ChainInv' /\ ChainGrows
    BY KeepsChain DEF BaseInv, TypeOK, EvidenceTypeOK, ChainTypeOK
  <1> QED
    BY <1>1, <1>2 DEF BaseInv, Step, TypeOK, EvidenceTypeOK, Answers

LEMMA OperatorSteps ==
  ASSUME BaseInv, NEW g \in Gateways,
         OperatorQuarantines(g) \/ OperatorDiscards(g) \/ OperatorDiscardsAll(g)
  PROVE  Step
  <1> USE DEF BaseInv, TypeOK, EvidenceTypeOK
  <1>1. CASE OperatorQuarantines(g)
    <2>1. PICK k \in Keys : Quarantine(g, k)
      BY <1>1 DEF OperatorQuarantines
    <2>2. UNCHANGED <<available, chain, replay, writer, discarded>> /\ UNCHANGED journal
      BY <1>1, <2>1 DEF OperatorQuarantines, Quarantine
    <2>3. LogTypeOK(Records)'
      BY <2>1, QuarantineKeepsTypes
    <2>4. \A h \in Gateways : LogMoves(h) /\ LeavesFor(h)
      BY <2>1, QuarantineMoves DEF LogMoves, LeavesFor
    <2> QED
      BY <2>2, <2>3, <2>4, LogStepSteps
  <1>2. CASE OperatorDiscards(g)
    <2>1. PICK k \in Keys :
            /\ Discard(g, k)
            /\ discarded' = discarded \cup {<<g, i>> : i \in {j \in Held(g) : StagedKey(g, j) = k}}
      BY <1>2 DEF OperatorDiscards
    <2>2. UNCHANGED <<available, chain, replay, writer>> /\ UNCHANGED journal
      BY <1>2, <2>1 DEF OperatorDiscards, Discard
    <2>3. LogTypeOK(Records)'
      BY <2>1, DiscardKeepsTypes
    <2>4. \A h \in Gateways : LogMoves(h) /\ LeavesFor(h)
      BY <2>1, DiscardMoves DEF LogMoves, LeavesFor
    <2>5. Held(g) \subseteq Nat \ {0}
      BY DEF Held, LogTypeOK
    <2>6. discarded \subseteq discarded' /\ discarded' \subseteq Gateways \X (Nat \ {0})
      BY <2>1, <2>5
    <2> QED
      BY <2>2, <2>3, <2>4, <2>6, LogStepSteps
  <1>3. CASE OperatorDiscardsAll(g)
    <2>1. LoseLog(g) /\ discarded' = discarded \cup {<<g, i>> : i \in Held(g)}
      BY <1>3 DEF OperatorDiscardsAll
    <2>2. UNCHANGED <<available, chain, replay, writer>> /\ UNCHANGED journal
      BY <1>3, <2>1 DEF OperatorDiscardsAll, LoseLog
    <2>3. LogTypeOK(Records)'
      BY <2>1, LoseLogKeepsTypes
    <2>4. \A h \in Gateways : LogMoves(h) /\ LeavesFor(h)
      BY <2>1, LoseLogMoves DEF LogMoves, LeavesFor
    <2>5. Held(g) \subseteq Nat \ {0}
      BY DEF Held, LogTypeOK
    <2>6. discarded \subseteq discarded' /\ discarded' \subseteq Gateways \X (Nat \ {0})
      BY <2>1, <2>5
    <2> QED
      BY <2>2, <2>3, <2>4, <2>6, LogStepSteps
  <1> QED
    BY <1>1, <1>2, <1>3

LEMMA StageDirectlySteps ==
  ASSUME BaseInv, NEW g \in Gateways, StageDirectly(g)
  PROVE  Step
  <1>1. PICK r \in Unappendable : Stage(g, r)
    BY DEF StageDirectly
  <1>2. r \in Records
    BY EvidenceLogAssumption
  <1>3. /\ LogTypeOK(Records)'
        /\ \A h \in Gateways : DOMAIN journal[h] \subseteq DOMAIN journal'[h]
        /\ \A h \in Gateways : LogMoves(h) /\ LeavesFor(h)
    BY <1>1, <1>2, StagingMoves
  <1> QED
    BY <1>3, LogStepSteps DEF StageDirectly, BaseInv, TypeOK

\* Replays, outages, and steps of the environment that leave the module alone.
LEMMA ReplaySteps ==
  ASSUME BaseInv, ReplayNext, UNCHANGED <<writer, discarded>>
  PROVE  Step
  <1> USE DEF BaseInv, TypeOK, EvidenceTypeOK
  <1>1. EvidenceTypeOK(Records, Ids)' /\ ChainInv' /\ ChainGrows
    BY RecordsWellFormed, ReplayKeepsTypes
  <1>2. \A h \in Gateways : LogMoves(h) /\ LeavesFor(h)
    BY ReplayMoves DEF LogMoves, LeavesFor
  <1>3. \A q \in Replayers : Advances(q)
    BY ReplayAdvances DEF Advances
  <1> QED
    BY <1>1, <1>2, <1>3 DEF Step, Answers

LEMMA QuietSteps ==
  ASSUME BaseInv, available' \in BOOLEAN,
         UNCHANGED <<chain, walVars, replay, writer, discarded>>
  PROVE  Step
  <1>1. /\ LogTypeOK(Records)' /\ ReplayTypeOK(Ids)'
        /\ \A h \in Gateways : LogMoves(h) /\ LeavesFor(h)
        /\ \A q \in Replayers : Advances(q)
    BY KeepsLog, KeepsReplays DEF BaseInv, walVars
  <1>2. ChainTypeOK(Records)' /\ ChainInv' /\ ChainGrows
    BY KeepsChain DEF BaseInv, TypeOK, EvidenceTypeOK, ChainTypeOK
  <1> QED
    BY <1>1, <1>2 DEF BaseInv, Step, TypeOK, EvidenceTypeOK, Answers

LEMMA NextSteps ==
  ASSUME BaseInv, [Next]_vars
  PROVE  Step
  <1>1. CASE SetAvailable /\ UNCHANGED <<writer, discarded>>
    BY <1>1, QuietSteps
       DEF SetAvailable, walVars, BaseInv, TypeOK, EvidenceTypeOK, ChainTypeOK
  <1>2. CASE UNCHANGED vars
    BY <1>2, QuietSteps
       DEF vars, evidenceVars, walVars, BaseInv, TypeOK, EvidenceTypeOK, ChainTypeOK
  <1> QED
    BY <1>1, <1>2, WriteAppendSteps, WriteStageSteps, ReplaySteps, StageDirectlySteps,
       OperatorSteps DEF Next

-------------------------------------------------------------------------------
(* What the summary gives.                                                   *)

\* Journals only grow, so a staged record keeps its place and its key.
LEMMA JournalStands ==
  ASSUME TypeOK, NEW h \in Gateways, LogMoves(h), NEW i \in DOMAIN journal[h]
  PROVE  /\ i \in DOMAIN journal'[h]
         /\ StagedKey(h, i)' = StagedKey(h, i)
         /\ StagedKey(h, i)[1] \in Tenants
  <1>1. journal[h] \in Seq(Records)
    BY DEF TypeOK, EvidenceTypeOK, LogTypeOK
  <1>2. journal[h][i].tenant \in Tenants
    BY <1>1, EvidenceLogAssumption
  <1>3. StagedKey(h, i)[1] \in Tenants
    BY <1>2 DEF StagedKey, Key
  <1>4. CASE Shrinks(h)
    BY <1>3, <1>4 DEF Shrinks, StagedKey
  <1>5. ASSUME NEW r \in Records, GrowsBy(h, r)
        PROVE  i \in DOMAIN journal'[h] /\ journal'[h][i] = journal[h][i]
    BY <1>1, <1>5 DEF GrowsBy
  <1> QED
    BY <1>3, <1>4, <1>5 DEF LogMoves, StagedKey

LEMMA WrittenStandsStep ==
  ASSUME BaseInv, WrittenStands, Step
  PROVE  WrittenStands'
  <1> SUFFICES ASSUME NEW p \in Replayers, NEW k \in replay'[p].written
               PROVE  InChain(k)'
    BY DEF WrittenStands
  <1>1. k \in replay[p].written => InChain(k)'
    BY ChainStands DEF BaseInv, TypeOK, EvidenceTypeOK, ReplayTypeOK, WrittenStands, Step
  <1>2. ASSUME NEW i \in replay[p].queue, k = StagedKey(GatewayOf[p], i),
               \/ InChain(k) /\ UNCHANGED chain
               \/ AppendStores(journal[GatewayOf[p]][i])
        PROVE  InChain(k)'
    <2>1. journal[GatewayOf[p]][i] \in Records
      BY EvidenceAssumption DEF BaseInv, TypeOK, EvidenceTypeOK, ReplayTypeOK, LogTypeOK
    <2>2. CASE AppendStores(journal[GatewayOf[p]][i])
      BY <1>2, <2>1, <2>2, AppendedIsInChain DEF BaseInv, TypeOK, EvidenceTypeOK, StagedKey
    <2>3. CASE InChain(k) /\ UNCHANGED chain
      BY <2>3 DEF InChain
    <2> QED
      BY <1>2, <2>2, <2>3
  <1>3. Advances(p)
    BY DEF Step
  <1> QED
    BY <1>1, <1>2, <1>3 DEF Advances, IdleReplay

LEMMA ReplayCoversStep ==
  ASSUME BaseInv, ReplayCovers, Step
  PROVE  ReplayCovers'
  <1> USE DEF BaseInv, TypeOK, EvidenceTypeOK
  <1> SUFFICES ASSUME NEW p \in Replayers, NEW i \in replay'[p].queue,
                      NEW j \in pending'[GatewayOf[p]], j < i
               PROVE  j \in replay'[p].queue \/ InChain(StagedKey(GatewayOf[p], j))'
    BY DEF ReplayCovers, Covers
  <1> DEFINE g == GatewayOf[p]
  <1>1. g \in Gateways /\ LogMoves(g) /\ Advances(p) /\ ChainGrows
    BY EvidenceAssumption DEF Step
  <1>2. replay[p].queue \subseteq DOMAIN journal[g] /\ pending[g] \subseteq DOMAIN journal[g]
    BY <1>1 DEF ReplayTypeOK, LogTypeOK
  <1>3. CASE replay'[p] = IdleReplay
    BY <1>3 DEF IdleReplay
  <1>4. i \in replay[p].queue \/ i \in pending[g]
    BY <1>1 DEF Advances, IdleReplay
  <1>5. j \in pending[g]
    <2>1. CASE Shrinks(g)
      BY <2>1 DEF Shrinks
    <2>2. ASSUME NEW r \in Records, GrowsBy(g, r)
          PROVE  j \in pending[g]
      <3>1. journal[g] \in Seq(Records)
        BY <1>1 DEF LogTypeOK
      <3>2. i \in 1..Len(journal[g])
        BY <1>2, <1>4, <3>1
      <3> QED
        BY <2>2, <3>1, <3>2 DEF GrowsBy
    <2> QED
      BY <1>1, <2>1, <2>2 DEF LogMoves
  <1>6. InChain(StagedKey(g, j)) => InChain(StagedKey(g, j))'
    <2>1. PICK k : k = StagedKey(g, j)
      OBVIOUS
    <2>2. StagedKey(g, j)' = k /\ k[1] \in Tenants
      BY <1>1, <1>2, <1>5, <2>1, JournalStands
    <2>3. InChain(k) => InChain(k)'
      BY <1>1, <2>2, ChainStands
    <2> QED
      BY <2>1, <2>2, <2>3 DEF InChain
  <1>7. CASE replay'[p].queue = pending[g]
    BY <1>5, <1>7
  <1>8. ASSUME i \in replay[p].queue
        PROVE  j \in replay[p].queue \/ InChain(StagedKey(g, j))
    BY <1>5, <1>8 DEF ReplayCovers, Covers
  <1>9. CASE replay'[p].queue = replay[p].queue
    BY <1>6, <1>8, <1>9
  <1>10. ASSUME NEW m \in replay[p].queue, replay'[p].queue = replay[p].queue \ {m},
                \/ InChain(StagedKey(g, m)) /\ UNCHANGED chain
                \/ AppendStores(journal[g][m])
         PROVE  j \in replay'[p].queue \/ InChain(StagedKey(g, j))'
    <2>1. CASE j # m
      BY <1>6, <1>8, <1>10, <2>1
    <2>2. CASE j = m /\ InChain(StagedKey(g, m))
      BY <1>6, <2>2
    <2>3. CASE j = m /\ AppendStores(journal[g][m])
      <3>1. PICK r \in Records : r = journal[g][m]
        BY <1>1, <1>2 DEF LogTypeOK
      <3>2. InChain(Key(r))'
        BY <2>3, <3>1, AppendedIsInChain
      <3>3. StagedKey(g, j)' = Key(r)
        BY <1>1, <1>2, <1>5, <2>3, <3>1, JournalStands DEF StagedKey
      <3> QED
        BY <3>2, <3>3 DEF InChain
    <2> QED
      BY <1>10, <2>1, <2>2, <2>3
  <1> QED
    BY <1>1, <1>3, <1>7, <1>9, <1>10 DEF Advances

\* The part of NothingLost about the logs.
LEMMA AccountedForStep ==
  ASSUME BaseInv, WrittenStands, StagedIsAccountedFor, Step
  PROVE  StagedIsAccountedFor'
  <1> USE DEF BaseInv, TypeOK, EvidenceTypeOK
  <1> SUFFICES ASSUME NEW g \in Gateways, NEW i \in DOMAIN journal'[g]
               PROVE  i \in Held(g)' \/ InChain(StagedKey(g, i))' \/ <<g, i>> \in discarded'
    BY DEF StagedIsAccountedFor
  <1>1. LogMoves(g) /\ LeavesFor(g) /\ ChainGrows /\ discarded \subseteq discarded'
    BY DEF Step
  <1>2. ASSUME i \notin DOMAIN journal[g]
        PROVE  i \in Held(g)'
    <2>1. PICK r \in Records : GrowsBy(g, r)
      BY <1>1, <1>2 DEF LogMoves, Shrinks
    <2>2. journal[g] \in Seq(Records)
      BY DEF LogTypeOK
    <2>3. i = Len(journal[g]) + 1
      BY <1>2, <2>1, <2>2 DEF GrowsBy
    <2> QED
      BY <2>1, <2>3 DEF GrowsBy
  <1>3. ASSUME i \in DOMAIN journal[g]
        PROVE  i \in Held(g)' \/ InChain(StagedKey(g, i))' \/ <<g, i>> \in discarded'
    <2>1. PICK k : k = StagedKey(g, i)
      OBVIOUS
    <2>2. StagedKey(g, i)' = k /\ k[1] \in Tenants
      BY <1>1, <1>3, <2>1, JournalStands
    <2>3. InChain(k) => InChain(StagedKey(g, i))'
      <3>1. InChain(k) => InChain(k)'
        BY <1>1, <2>2, ChainStands
      <3> QED
        BY <2>2, <3>1 DEF InChain
    <2>4. i \in Held(g) \/ InChain(k) \/ <<g, i>> \in discarded
      BY <1>3, <2>1 DEF StagedIsAccountedFor
    <2>5. ASSUME i \in Held(g), i \notin Held(g)'
          PROVE  InChain(k) \/ <<g, i>> \in discarded'
      BY <1>1, <2>1, <2>5 DEF LeavesFor, WrittenStands
    <2> QED
      BY <1>1, <2>3, <2>4, <2>5
  <1> QED
    BY <1>2, <1>3

\* The part about what writers were told.
LEMMA AnswersStep ==
  ASSUME BaseInv, AnswersAreTrue, Step
  PROVE  AnswersAreTrue'
  <1> USE DEF BaseInv, TypeOK, EvidenceTypeOK
  <1> SUFFICES ASSUME NEW w \in Writers, writer'[w].pc # "idle", writer'[w] = writer[w]
               PROVE  AnswerIsTrue(w)'
    BY DEF AnswersAreTrue, Step, Answers
  <1>1. AnswerIsTrue(w)
    BY DEF AnswersAreTrue
  <1>2. writer[w].rec \in Records /\ GatewayOf[w] \in Gateways
    BY EvidenceLogAssumption
  <1>3. PICK k : k = Key(writer[w].rec)
    OBVIOUS
  <1>4. Key(writer'[w].rec) = k /\ k[1] \in Tenants
    BY <1>2, <1>3, EvidenceLogAssumption DEF Key
  <1>5. writer[w].pc \in {"stored", "refused"} => InChain(k)'
    BY <1>1, <1>3, <1>4, ChainStands DEF AnswerIsTrue, Step
  <1>6. ASSUME writer[w].pc = "staged"
        PROVE  \E i \in DOMAIN journal'[GatewayOf[w]] : StagedKey(GatewayOf[w], i)' = k
    BY <1>1, <1>2, <1>3, <1>6, JournalStands DEF AnswerIsTrue, Step
  <1> QED
    BY <1>4, <1>5, <1>6 DEF AnswerIsTrue

LEMMA BacklogStep ==
  ASSUME BaseInv, HeldIsFinite, BacklogBounded, Step
  PROVE  HeldIsFinite' /\ BacklogBounded'
  <1> USE DEF BaseInv, TypeOK, EvidenceTypeOK
  <1> SUFFICES ASSUME NEW g \in Gateways
               PROVE  /\ IsFiniteSet(Held(g)')
                      /\ Cardinality(Held(g)') <= MaxPending
                      /\ \A i, j \in Held(g)' : StagedKey(g, i)' = StagedKey(g, j)' => i = j
    BY DEF HeldIsFinite, BacklogBounded
  <1>1. LogMoves(g)
    BY DEF Step
  <1>2. /\ IsFiniteSet(Held(g)) /\ Cardinality(Held(g)) \in Nat
        /\ Cardinality(Held(g)) <= MaxPending
    BY FS_CardinalityType DEF HeldIsFinite, BacklogBounded
  <1>3. \A i \in Held(g) : i \in DOMAIN journal[g] /\ StagedKey(g, i)' = StagedKey(g, i)
    BY <1>1, JournalStands DEF LogTypeOK, Held
  <1>4. CASE Shrinks(g)
    <2>1. Held(g)' \subseteq Held(g)
      BY <1>4 DEF Shrinks
    <2>2. IsFiniteSet(Held(g)') /\ Cardinality(Held(g)') <= Cardinality(Held(g))
      BY <1>2, <2>1, FS_Subset
    <2>3. Cardinality(Held(g)') \in Nat
      BY <2>2, FS_CardinalityType
    <2>4. Cardinality(Held(g)') <= MaxPending
      BY <1>2, <2>2, <2>3, EvidenceAssumption
    <2> QED
      BY <1>3, <2>1, <2>2, <2>4 DEF BacklogBounded
  <1>5. ASSUME NEW r \in Records, GrowsBy(g, r)
        PROVE  /\ IsFiniteSet(Held(g)')
               /\ Cardinality(Held(g)') <= MaxPending
               /\ \A i, j \in Held(g)' : StagedKey(g, i)' = StagedKey(g, j)' => i = j
    <2>0. PICK n : n = Len(journal[g]) + 1
      OBVIOUS
    <2>1. Held(g)' = Held(g) \cup {n} /\ Cardinality(Held(g)) < MaxPending
      BY <1>5, <2>0 DEF GrowsBy
    <2>2. IsFiniteSet(Held(g)') /\ Cardinality(Held(g)') <= Cardinality(Held(g)) + 1
      <3>1. /\ IsFiniteSet(Held(g) \cup {n})
            /\ \/ Cardinality(Held(g) \cup {n}) = Cardinality(Held(g))
               \/ Cardinality(Held(g) \cup {n}) = Cardinality(Held(g)) + 1
        BY <1>2, FS_AddElement, Zenon
      <3> QED
        BY <1>2, <2>1, <3>1
    <2>3. Cardinality(Held(g)') \in Nat
      BY <2>2, FS_CardinalityType
    <2>4. Cardinality(Held(g)') <= MaxPending
      BY <1>2, <2>1, <2>2, <2>3, EvidenceAssumption
    <2>5. StagedKey(g, n)' = Key(r)
      <3>1. journal[g] \in Seq(Records) /\ journal'[g] = Append(journal[g], r)
        BY <1>5 DEF GrowsBy, LogTypeOK
      <3> QED
        BY <2>0, <3>1 DEF StagedKey
    <2>6. \A i \in Held(g) : StagedKey(g, i)' # Key(r)
      BY <1>3, <1>5 DEF GrowsBy, HoldsKey
    <2> QED
      BY <1>3, <2>1, <2>2, <2>4, <2>5, <2>6 DEF BacklogBounded
  <1> QED
    BY <1>1, <1>4, <1>5 DEF LogMoves

-------------------------------------------------------------------------------
(* The inductive invariant.  NothingLost alone is not inductive: that a      *)
(* replay may take out of a log what it noted as written needs WrittenStands,*)
(* and a log's bound needs its records to be finitely many.                  *)

Inv ==
  /\ BaseInv
  /\ WrittenStands
  /\ ReplayCovers
  /\ StagedIsAccountedFor
  /\ AnswersAreTrue
  /\ HeldIsFinite
  /\ BacklogBounded

LEMMA InitInv ==
  ASSUME Init
  PROVE  Inv
  <1> USE DEF Init, EvidenceInit
  <1>1. /\ TypeOK /\ ChainInv
        /\ \A w \in Writers : writer[w].pc = "idle"
    BY EvidenceAssumption
       DEF TypeOK, EvidenceTypeOK, ChainTypeOK, LogTypeOK, ReplayTypeOK, IdleReplay, ReplayPCs,
           WriterPCs, ChainInv, OwnChain, NoDuplicateRecords
  <1>2. WrittenStands /\ ReplayCovers
    BY DEF WrittenStands, ReplayCovers, Covers, IdleReplay
  <1>3. StagedIsAccountedFor /\ AnswersAreTrue
    BY <1>1 DEF StagedIsAccountedFor, AnswersAreTrue
  <1>4. \A g \in Gateways : Held(g) = {}
    BY DEF Held
  <1>5. IsFiniteSet({}) /\ Cardinality({}) = 0
    BY FS_EmptySet
  <1>6. HeldIsFinite
    BY <1>4, <1>5 DEF HeldIsFinite
  <1>7. \A g \in Gateways : Cardinality(Held(g)) = 0 /\ \A i, j \in Held(g) : i = j
    BY <1>4, <1>5
  <1>8. BacklogBounded
    BY <1>7, EvidenceAssumption DEF BacklogBounded
  <1> QED
    BY <1>1, <1>2, <1>3, <1>6, <1>8 DEF Inv, BaseInv

LEMMA NextInv ==
  ASSUME Inv, [Next]_vars
  PROVE  Inv'
  <1>1. Step
    BY NextSteps DEF Inv
  <1>2. BaseInv'
    BY <1>1 DEF Step, BaseInv
  <1> QED
    BY <1>1, <1>2, WrittenStandsStep, ReplayCoversStep, AccountedForStep, AnswersStep,
       BacklogStep DEF Inv

\* The inductive invariant: what every property of this module follows from.
THEOREM Invariant == Spec => []Inv
  BY InitInv, NextInv, PTL DEF Spec

\* The state of the store, the logs and the calls is always well typed.
THEOREM EvidenceTypeCorrect == Spec => []TypeOK
  <1>1. Inv => TypeOK
    BY DEF Inv, BaseInv
  <1> QED
    BY <1>1, Invariant, PTL

\* The store never holds two records with one id in one tenant's chain,
\* however many writers and replays append at once.
THEOREM RecordsAreUnique == Spec => []NoDuplicateRecords
  <1>1. Inv => NoDuplicateRecords
    BY DEF Inv, BaseInv, ChainInv
  <1> QED
    BY <1>1, Invariant, PTL

\* What stage() accepted is held, durable or dropped by name, and what a writer
\* was told about its record is true.
THEOREM EvidenceIsNotLost == Spec => []NothingLost
  <1>1. Inv => NothingLost
    BY DEF Inv, NothingLost, AnswersAreTrue
  <1> QED
    BY <1>1, Invariant, PTL

\* A log respects its bound and holds one copy of a record.
THEOREM LogsAreBounded == Spec => []BacklogBounded
  <1>1. Inv => BacklogBounded
    BY DEF Inv
  <1> QED
    BY <1>1, Invariant, PTL

\* Replay makes records durable in the order in which they were staged.
THEOREM ReplayIsInOrder == Spec => ReplayKeepsStagingOrder
  <1>1. ASSUME Inv, [Next]_vars
        PROVE  [\A p \in Replayers : \A i \in replay[p].queue :
                  AppendedByReplay(p, i) =>
                    \A j \in pending[GatewayOf[p]] :
                      j < i => InChain(StagedKey(GatewayOf[p], j))]_vars
    <2> SUFFICES ASSUME NEW p \in Replayers, NEW i \in replay[p].queue, AppendedByReplay(p, i),
                        NEW j \in pending[GatewayOf[p]], j < i
                 PROVE  InChain(StagedKey(GatewayOf[p], j))
      OBVIOUS
    <2>1. j \in replay[p].queue \/ InChain(StagedKey(GatewayOf[p], j))
      BY <1>1 DEF Inv, ReplayCovers, Covers
    <2>2. i \in Nat /\ j \in Nat
      BY <1>1, EvidenceAssumption
         DEF Inv, BaseInv, TypeOK, EvidenceTypeOK, LogTypeOK, ReplayTypeOK
    <2>3. j \notin replay[p].queue
      BY <2>2 DEF AppendedByReplay, NextInQueue
    <2> QED
      BY <2>1, <2>3
  <1> QED
    BY <1>1, Invariant, PTL DEF Spec, ReplayKeepsStagingOrder
-------------------------------------------------------------------------------
(* The log implements its promise.                                           *)

Owed == [g \in Gateways |-> Held(g)]

durableVars == <<chain, journal, Owed, discarded>>

\* To be durable is to be in the chain.
LEMMA DurableIsInChain ==
  ASSUME NEW r
  PROVE  Durability!Durable(r) <=> InChain(Key(r))
  BY DEF Durability!Durable, Durability!Same, InChain, Key

LEMMA AppendIsRecorded ==
  ASSUME NEW r \in Records, AppendStores(r), UNCHANGED <<walVars, discarded>>
  PROVE  Durability!Next
  <1>1. Owed' = Owed
    BY DEF Owed, Held, walVars
  <1>2. Durability!Record(r)
    BY <1>1, DurableIsInChain DEF Durability!Record, AppendStores, Owed, walVars
  <1> QED
    BY <1>2 DEF Durability!Next

LEMMA StagingIsPromised ==
  ASSUME TypeOK, NEW g \in Gateways, NEW r \in Records, Stage(g, r) \/ StageIsFull(g, r),
         UNCHANGED <<chain, discarded>>
  PROVE  [Durability!Next]_durableVars
  <1>1. CASE UNCHANGED walVars
    BY <1>1 DEF durableVars, Owed, Held, walVars
  <1>2. CASE /\ ~HoldsKey(g, Key(r))
             /\ Cardinality(Held(g)) < MaxPending
             /\ journal' = [journal EXCEPT ![g] = Append(journal[g], r)]
             /\ pending' = [pending EXCEPT ![g] = pending[g] \cup {Len(journal[g]) + 1}]
             /\ UNCHANGED quarantined
    <2>1. /\ pending \in [Gateways -> SUBSET (Nat \ {0})]
          /\ quarantined \in [Gateways -> SUBSET (Nat \ {0})]
      BY DEF TypeOK, EvidenceTypeOK, LogTypeOK
    <2>2. \A h \in Gateways :
            Held(h)' = IF h = g THEN Held(g) \cup {Len(journal[g]) + 1} ELSE Held(h)
      BY <1>2, <2>1 DEF Held
    <2>3. Owed' = [Owed EXCEPT ![g] = Owed[g] \cup {Len(journal[g]) + 1}]
      BY <2>2 DEF Owed
    <2>4. Owed[g] = Held(g)
      BY DEF Owed
    <2>5. \A i \in Owed[g] : ~Durability!Same(journal[g][i], r)
      BY <1>2, <2>4 DEF HoldsKey, StagedKey, Key, Durability!Same
    <2>6. Durability!Promise(g, r)
      <3>1. Durability!Cardinality(Owed[g]) = Cardinality(Owed[g])
        BY Zenon DEF Durability!Cardinality, Cardinality, Durability!IsFiniteSet, IsFiniteSet
      <3> QED
        BY <1>2, <2>3, <2>4, <2>5, <3>1 DEF Durability!Promise, Owed
    <2> QED
      BY <2>6 DEF Durability!Next
  <1> QED
    BY <1>1, <1>2 DEF Stage, StageIsFull, walVars

\* A log from which nothing or only something leaves, and no other log changes.
LEMMA LeavingKeepsOrDrops ==
  ASSUME NEW g \in Gateways, UNCHANGED <<chain, journal>>,
         Held(g)' \subseteq Held(g), \A h \in Gateways : h # g => Held(h)' = Held(h),
         \/ /\ UNCHANGED discarded
            /\ \A i \in Held(g) \ Held(g)' : InChain(StagedKey(g, i))
         \/ discarded' = discarded \cup {<<g, i>> : i \in Held(g) \ Held(g)'}
  PROVE  Durability!Next
  <1> DEFINE S == Held(g) \ Held(g)'
  <1>1. Held(g)' = Held(g) \ S /\ S \in SUBSET Held(g)
    OBVIOUS
  <1>2. \A h \in Gateways : Held(h)' = IF h = g THEN Held(g) \ S ELSE Held(h)
    BY <1>1
  <1> HIDE DEF S
  <1>3. Owed' = [Owed EXCEPT ![g] = Owed[g] \ S]
    BY <1>2 DEF Owed
  <1>4. S \in SUBSET Owed[g]
    BY <1>1 DEF Owed
  <1>5. CASE UNCHANGED discarded /\ \A i \in S : InChain(StagedKey(g, i))
    <2>1. \A i \in S : Durability!Durable(journal[g][i])
      BY <1>5, DurableIsInChain DEF StagedKey
    <2>2. Durability!Keep(g, S)
      BY <1>3, <1>5, <2>1 DEF Durability!Keep, Owed
    <2> QED
      BY <1>4, <2>2 DEF Durability!Next, Owed
  <1>6. CASE discarded' = discarded \cup {<<g, i>> : i \in S}
    <2>1. Durability!Drop(g, S)
      BY <1>3, <1>6 DEF Durability!Drop, Owed
    <2> QED
      BY <1>4, <2>1 DEF Durability!Next, Owed
  <1> QED
    BY <1>5, <1>6 DEF S

LEMMA ReplayKeepsPromises ==
  ASSUME TypeOK, WrittenStands, ReplayNext, UNCHANGED <<writer, discarded>>
  PROVE  [Durability!Next]_durableVars
  <1>1. PICK p \in Replayers : ReplayStart(p) \/ ReplayStep(p) \/ ReplayAbandoned(p)
    BY DEF ReplayNext
  <1>2. ASSUME UNCHANGED <<chain, walVars>>
        PROVE  UNCHANGED durableVars
    BY <1>2 DEF durableVars, Owed, Held, walVars
  <1>3. CASE ReplayAppend(p)
    <2>1. PICK i \in replay[p].queue :
            LET r == journal[GatewayOf[p]][i] IN
            AppendStores(r) \/ AppendFindsDuplicate(r) \/ AppendReportsOutage(r) \/ AppendRejects(r)
      BY <1>3 DEF ReplayAppend
    <2> DEFINE r == journal[GatewayOf[p]][i]
    <2>2. r \in Records
      BY EvidenceAssumption DEF TypeOK, EvidenceTypeOK, LogTypeOK, ReplayTypeOK
    <2>3. UNCHANGED walVars
      BY <1>3 DEF ReplayAppend, walVars
    <2>4. UNCHANGED chain \/ AppendStores(r)
      BY <2>1 DEF AppendFindsDuplicate, AppendReportsOutage, AppendRejects
    <2> HIDE DEF r
    <2> QED
      BY <1>2, <2>2, <2>3, <2>4, AppendIsRecorded
  <1>4. CASE ReplayFinish(p)
    <2> DEFINE g == GatewayOf[p]
    <2>1. g \in Gateways
      BY EvidenceAssumption
    <2>2. /\ pending' = [pending EXCEPT ![g] = WithoutKeys(g, pending[g], replay[p].written)]
          /\ UNCHANGED <<chain, journal, quarantined>>
      BY <1>4 DEF ReplayFinish
    <2>3. \A h \in Gateways : h # g => Held(h)' = Held(h)
      BY <2>2 DEF Held, TypeOK, EvidenceTypeOK, LogTypeOK
    <2>4. pending'[g] = WithoutKeys(g, pending[g], replay[p].written)
      BY <2>1, <2>2 DEF TypeOK, EvidenceTypeOK, LogTypeOK
    <2>5. /\ Held(g)' \subseteq Held(g)
          /\ \A i \in Held(g) \ Held(g)' : StagedKey(g, i) \in replay[p].written
      BY <2>2, <2>4 DEF Held, WithoutKeys
    <2>6. \A i \in Held(g) \ Held(g)' : InChain(StagedKey(g, i))
      BY <2>5 DEF WrittenStands
    <2> HIDE DEF g
    <2> QED
      BY <2>1, <2>2, <2>3, <2>5, <2>6, LeavingKeepsOrDrops
  <1>5. CASE ReplayStart(p) \/ ReplayCheck(p) \/ ReplayAbandoned(p)
    BY <1>2, <1>5 DEF ReplayStart, ReplayCheck, ReplayAbandoned, walVars
  <1> QED
    BY <1>1, <1>3, <1>4, <1>5 DEF ReplayStep

LEMMA OperatorReleases ==
  ASSUME TypeOK, NEW g \in Gateways,
         OperatorQuarantines(g) \/ OperatorDiscards(g) \/ OperatorDiscardsAll(g)
  PROVE  [Durability!Next]_durableVars
  <1> USE DEF TypeOK, EvidenceTypeOK
  <1>1. CASE OperatorQuarantines(g)
    <2>1. PICK k \in Keys : Quarantine(g, k)
      BY <1>1 DEF OperatorQuarantines
    <2>2. \A h \in Gateways : Held(h)' = Held(h)
      BY <2>1, QuarantineMoves
    <2>3. Owed' = Owed
      BY <2>2 DEF Owed
    <2> QED
      BY <1>1, <2>1, <2>3 DEF OperatorQuarantines, Quarantine, durableVars
  <1>2. CASE OperatorDiscards(g)
    <2>1. PICK k \in Keys :
            /\ Discard(g, k)
            /\ discarded' = discarded \cup {<<g, i>> : i \in {j \in Held(g) : StagedKey(g, j) = k}}
      BY <1>2 DEF OperatorDiscards
    <2>2. UNCHANGED <<chain, journal>>
      BY <1>2, <2>1 DEF OperatorDiscards, Discard
    <2>3. /\ pending'[g] = WithoutKeys(g, pending[g], {k})
          /\ quarantined'[g] = WithoutKeys(g, quarantined[g], {k})
          /\ \A h \in Gateways : h # g => Held(h)' = Held(h)
      BY <2>1 DEF Discard, LogTypeOK, Held
    <2>4. Held(g)' = Held(g) \ {j \in Held(g) : StagedKey(g, j) = k}
      BY <2>3 DEF Held, WithoutKeys
    <2>5. {j \in Held(g) : StagedKey(g, j) = k} = Held(g) \ Held(g)'
      BY <2>4
    <2>6. discarded' = discarded \cup {<<g, i>> : i \in Held(g) \ Held(g)'}
      BY <2>1, <2>5
    <2> QED
      BY <2>2, <2>3, <2>4, <2>6, LeavingKeepsOrDrops
  <1>3. CASE OperatorDiscardsAll(g)
    <2>1. LoseLog(g) /\ UNCHANGED chain /\ discarded' = discarded \cup {<<g, i>> : i \in Held(g)}
      BY <1>3 DEF OperatorDiscardsAll
    <2>2. Held(g)' = {} /\ \A h \in Gateways : h # g => Held(h)' = Held(h)
      BY <2>1 DEF LoseLog, LogTypeOK, Held
    <2>3. Held(g) \ Held(g)' = Held(g) /\ Held(g)' \subseteq Held(g)
      BY <2>2
    <2> QED
      BY <2>1, <2>2, <2>3, LeavingKeepsOrDrops DEF LoseLog
  <1> QED
    BY <1>1, <1>2, <1>3

LEMMA StepIsDurable ==
  ASSUME TypeOK, WrittenStands, [Next]_vars
  PROVE  [Durability!Next]_durableVars
  <1>1. ASSUME NEW w \in Writers, WriteAppend(w)
        PROVE  [Durability!Next]_durableVars
    <2>1. PICK r \in Records \ Unappendable :
            AppendStores(r) \/ AppendFindsDuplicate(r) \/ AppendReportsOutage(r)
      BY <1>1 DEF WriteAppend
    <2>2. UNCHANGED <<walVars, discarded>>
      BY <1>1 DEF WriteAppend
    <2>3. CASE AppendStores(r)
      BY <2>2, <2>3, AppendIsRecorded
    <2>4. CASE UNCHANGED chain
      BY <2>2, <2>4 DEF durableVars, Owed, Held, walVars
    <2> QED
      BY <2>1, <2>3, <2>4 DEF AppendFindsDuplicate, AppendReportsOutage
  <1>2. ASSUME NEW w \in Writers, WriteStage(w)
        PROVE  [Durability!Next]_durableVars
    <2>1. GatewayOf[w] \in Gateways /\ writer[w].rec \in Records
      BY <1>2, EvidenceLogAssumption DEF WriteStage, TypeOK
    <2>2. /\ Stage(GatewayOf[w], writer[w].rec) \/ StageIsFull(GatewayOf[w], writer[w].rec)
          /\ UNCHANGED <<chain, discarded>>
      BY <1>2 DEF WriteStage
    <2> QED
      BY <2>1, <2>2, StagingIsPromised
  <1>3. ASSUME NEW g \in Gateways, StageDirectly(g)
        PROVE  [Durability!Next]_durableVars
    BY <1>3, StagingIsPromised, EvidenceLogAssumption DEF StageDirectly
  <1>4. CASE SetAvailable /\ UNCHANGED <<writer, discarded>>
    BY <1>4 DEF SetAvailable, durableVars, Owed, Held
  <1>5. CASE UNCHANGED vars
    BY <1>5 DEF vars, evidenceVars, durableVars, Owed, Held
  <1> QED
    BY <1>1, <1>2, <1>3, <1>4, <1>5, ReplayKeepsPromises, OperatorReleases DEF Next

\* Writers, logs, replays and operators together implement the promise of the
\* evidence log: what is recorded stands, and what is owed is kept or dropped.
THEOREM LogImplementsDurableEvidence == Spec => ImplementsDurableEvidence
  <1>1. Init => Durability!Init
    BY DEF Init, EvidenceInit, Durability!Init, Held
  <1>2. Inv => TypeOK /\ WrittenStands
    BY DEF Inv, BaseInv
  <1>3. TypeOK /\ WrittenStands /\ [Next]_vars => [Durability!Next]_durableVars
    BY StepIsDurable
  <1> QED
    BY <1>1, <1>2, <1>3, Invariant, PTL
       DEF Spec, ImplementsDurableEvidence, Durability!Spec, durableVars, Owed
===============================================================================
