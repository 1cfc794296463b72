------------------------ MODULE DecisionPipelineProofs ------------------------
(*****************************************************************************)
(* That an evaluated decision yields at most one token, for any number of    *)
(* calls, gateways and replays, any outage, any crash, and reads and appends *)
(* that lie.  The argument needs neither the ledger nor its lock: the store  *)
(* refuses a second record with an id, the issuance record's id is the       *)
(* decision's, and a token is signed only behind its own issuance record.    *)
(*****************************************************************************)
EXTENDS DecisionPipeline, EvidenceProofs

LEMMA RecordsWellFormed ==
  /\ WellFormed(Record, Ids)
  /\ \A c \in Calls : /\ DecisionOf[c] \in Decisions
                      /\ GatewayOf[c] \in Gateways
                      /\ TenantOfCall(c) \in Tenants
                      /\ EvaluationRecord(c) \in Record
                      /\ EvaluationRecord(c).tenant = TenantOfCall(c)
                      /\ IssuanceRecord(c) \in Record
                      /\ IssuanceRecord(c).tenant = TenantOfCall(c)
  <1>1. ASSUME NEW c \in Calls
        PROVE  DecisionOf[c] \in Decisions /\ GatewayOf[c] \in Gateways /\ TenantOfCall(c) \in Tenants
    BY PipelineAssumption DEF TenantOfCall
  <1>2. ASSUME NEW c \in Calls
        PROVE  <<"evaluation", c>> \in Ids /\ IssuanceId(DecisionOf[c]) \in Ids
    BY <1>1 DEF Ids, IssuanceId
  <1>3. ASSUME NEW r \in Record PROVE r.tenant \in Tenants /\ r.id \in Ids
    <2>1. PICK c \in Calls : r = EvaluationRecord(c) \/ r = IssuanceRecord(c)
      BY <1>3 DEF Record
    <2>2. r.tenant = TenantOfCall(c)
      BY <2>1 DEF EvaluationRecord, IssuanceRecord
    <2>3. r.id \in {<<"evaluation", c>>, IssuanceId(DecisionOf[c])}
      BY <2>1 DEF EvaluationRecord, IssuanceRecord
    <2> QED
      BY <1>1, <1>2, <2>2, <2>3
  <1> QED
    BY <1>1, <1>3 DEF WellFormed, EvaluationRecord, IssuanceRecord, Record

LEMMA WithheldIsAnOutcome ==
  ASSUME NEW r, WithholdingReason(r) # "none"
  PROVE  WithholdingReason(r) \in {"verdict", "class_halted", "infrastructure_failure"}
  BY DEF WithholdingReason

-------------------------------------------------------------------------------

LEMMA InitKeepsTypes == Init => TypeOK /\ ChainInv
  <1> SUFFICES ASSUME Init PROVE TypeOK /\ ChainInv
    OBVIOUS
  <1>1. ChainTypeOK(Record)
    BY DEF Init, EvidenceInit, ChainTypeOK
  <1>2. LogTypeOK(Record)
    BY DEF Init, EvidenceInit, LogTypeOK
  <1>3. ReplayTypeOK(Ids)
    BY DEF Init, EvidenceInit, ReplayTypeOK, IdleReplay, ReplayPCs
  <1>4. ChainInv
    BY DEF Init, EvidenceInit, ChainInv, OwnChain, NoDuplicateRecords
  <1> QED
    BY <1>1, <1>2, <1>3, <1>4 DEF Init, TypeOK, EvidenceTypeOK, PCs

\* One call moves on: where to, and what its moving leaves alone.
LEMMA GotoKeepsTypes ==
  ASSUME TypeOK, NEW c \in Calls, NEW label \in PCs, Goto(c, label)
  PROVE  /\ pc' \in [Calls -> PCs]
         /\ pc'[c] = label
         /\ \A e \in Calls : e # c => pc'[e] = pc[e]
  BY DEF Goto, TypeOK

LEMMA ReleaseKeepsTypes ==
  ASSUME TypeOK, NEW g \in Gateways, Release(g)
  PROVE  holder' \in [Gateways -> Calls \cup {None}]
  BY DEF Release, TypeOK

LEMMA StepKeepsTypes ==
  ASSUME TypeOK, ChainInv, [Next]_vars
  PROVE  TypeOK' /\ ChainInv' /\ ChainGrows
  <1> USE DEF TypeOK, EvidenceTypeOK
  <1>1. ASSUME UNCHANGED <<available, chain>>
        PROVE  ChainTypeOK(Record)' /\ ChainInv' /\ ChainGrows
    BY <1>1 DEF ChainTypeOK, ChainInv, ChainGrows, OwnChain, NoDuplicateRecords
  <1>2. ASSUME UNCHANGED walVars
        PROVE  LogTypeOK(Record)'
    BY <1>2 DEF LogTypeOK, walVars
  <1>3. ASSUME UNCHANGED <<journal, replay>>
        PROVE  ReplayTypeOK(Ids)'
    BY <1>3 DEF ReplayTypeOK
  <1>4. ASSUME UNCHANGED evidenceVars
        PROVE  EvidenceTypeOK(Record, Ids)' /\ ChainInv' /\ ChainGrows
    BY <1>1, <1>2, <1>3, <1>4 DEF evidenceVars, walVars
  <1>5. ASSUME NEW r \in Record, AppendStores(r) \/ UNCHANGED chain,
               UNCHANGED <<available, walVars, replay>>
        PROVE  EvidenceTypeOK(Record, Ids)' /\ ChainInv' /\ ChainGrows
    <2>1. CASE AppendStores(r)
      <3>1. ChainTypeOK(Record)' /\ ChainInv' /\ ChainGrows
        BY <1>5, <2>1, AppendAddsAtEnd, AppendKeepsChain, RecordsWellFormed
           DEF ChainTypeOK, WellFormed
      <3> QED
        BY <1>2, <1>3, <1>5, <3>1 DEF walVars
    <2>2. CASE UNCHANGED chain
      BY <1>1, <1>2, <1>3, <1>5, <2>2 DEF walVars
    <2> QED
      BY <1>5, <2>1, <2>2
  <1>6. ASSUME NEW c \in Calls, NEW r \in Record,
               Stage(GatewayOf[c], r) \/ StageIsFull(GatewayOf[c], r),
               UNCHANGED <<available, chain, replay>>
        PROVE  EvidenceTypeOK(Record, Ids)' /\ ChainInv' /\ ChainGrows
    <2>1. CASE Stage(GatewayOf[c], r)
      <3>1. /\ LogTypeOK(Record)'
            /\ \A h \in Gateways : DOMAIN journal[h] \subseteq DOMAIN journal'[h]
        BY <2>1, StageKeepsTypes, RecordsWellFormed
      <3>2. ReplayTypeOK(Ids)'
        BY <1>6, <3>1, EvidenceAssumption DEF ReplayTypeOK
      <3> QED
        BY <1>1, <1>6, <3>1, <3>2
    <2>2. CASE StageIsFull(GatewayOf[c], r)
      BY <1>1, <1>2, <1>3, <1>6, <2>2 DEF StageIsFull, walVars
    <2> QED
      BY <1>6, <2>1, <2>2
  <1>7. ASSUME NEW g \in Gateways, NEW d \in Decisions, NEW c \in Calls \cup {None},
               ledger' = [ledger EXCEPT ![g][d] = c]
        PROVE  ledger' \in [Gateways -> [Decisions -> Calls \cup {None}]]
    BY <1>7
  <1>8. CASE UNCHANGED vars
    BY <1>4, <1>8 DEF vars, pipelineVars
  <1>9. CASE SetAvailable /\ UNCHANGED pipelineVars
    <2>1. ChainTypeOK(Record)' /\ ChainInv' /\ ChainGrows
      BY <1>9 DEF SetAvailable, ChainTypeOK, ChainInv, ChainGrows, OwnChain, NoDuplicateRecords
    <2> QED
      BY <1>2, <1>3, <1>9, <2>1 DEF SetAvailable, pipelineVars, walVars
  <1>10. CASE ReplayNext /\ UNCHANGED pipelineVars
    BY <1>10, ReplayKeepsTypes, RecordsWellFormed DEF pipelineVars
  <1>11. ASSUME NEW c \in Calls, CallStep(c)
         PROVE  TypeOK' /\ ChainInv' /\ ChainGrows
    <2> USE DEF PCs, InsideLock, Ended, Outcomes
    <2>1. CASE RejectEvaluation(c)
      BY <1>4, <2>1, GotoKeepsTypes DEF RejectEvaluation
    <2>2. CASE AppendEvaluation(c)
      <3>1. AppendStores(EvaluationRecord(c)) \/ UNCHANGED chain
        BY <2>2 DEF AppendEvaluation, AppendReportsOutage
      <3>2. EvidenceTypeOK(Record, Ids)' /\ ChainInv' /\ ChainGrows
        BY <1>5, <2>2, <3>1, RecordsWellFormed DEF AppendEvaluation
      <3> QED
        BY <2>2, <3>2, GotoKeepsTypes DEF AppendEvaluation
    <2>3. CASE StageEvaluation(c)
      <3>1. EvidenceTypeOK(Record, Ids)' /\ ChainInv' /\ ChainGrows
        BY <1>6, <2>3, RecordsWellFormed DEF StageEvaluation
      <3> QED
        BY <2>3, <3>1, GotoKeepsTypes DEF StageEvaluation
    <2>4. CASE Withhold(c)
      BY <1>4, <2>4, GotoKeepsTypes, WithheldIsAnOutcome DEF Withhold
    <2>5. CASE Claim(c)
      <3>1. holder' \in [Gateways -> Calls \cup {None}]
        BY <2>5, RecordsWellFormed DEF Claim
      <3> QED
        BY <1>4, <2>5, <3>1, GotoKeepsTypes DEF Claim
    <2>6. CASE Lookup(c)
      <3>1. ledger' \in [Gateways -> [Decisions -> Calls \cup {None}]]
        <4>1. CASE UNCHANGED ledger
          BY <4>1
        <4>2. CASE \E i \in DOMAIN chain[TenantOfCall(c)] :
                     ledger' = [ledger EXCEPT ![GatewayOf[c]][DecisionOf[c]]
                                  = chain[TenantOfCall(c)][i].call]
          <5>1. PICK i \in DOMAIN chain[TenantOfCall(c)] :
                     ledger' = [ledger EXCEPT ![GatewayOf[c]][DecisionOf[c]]
                                  = chain[TenantOfCall(c)][i].call]
            BY <4>2
          <5>2. chain[TenantOfCall(c)][i] \in Record
            BY RecordsWellFormed DEF ChainTypeOK
          <5>3. chain[TenantOfCall(c)][i].call \in Calls
            BY <5>2 DEF Record, EvaluationRecord, IssuanceRecord
          <5> QED
            BY <1>7, <5>1, <5>3, RecordsWellFormed
        <4> QED
          BY <2>6, <4>1, <4>2 DEF Lookup, TenantOfCall
      <3>2. holder' \in [Gateways -> Calls \cup {None}]
        BY <2>6, ReleaseKeepsTypes, RecordsWellFormed DEF Lookup
      <3> QED
        BY <1>4, <2>6, <3>1, <3>2, GotoKeepsTypes DEF Lookup
    <2>7. CASE RejectIssuance(c)
      BY <1>4, <2>7, GotoKeepsTypes DEF RejectIssuance
    <2>8. CASE AppendIssuance(c)
      <3>1. AppendStores(IssuanceRecord(c)) \/ UNCHANGED chain
        BY <2>8 DEF AppendIssuance, AppendReportsOutage, AppendFindsDuplicate
      <3>2. EvidenceTypeOK(Record, Ids)' /\ ChainInv' /\ ChainGrows
        BY <1>5, <2>8, <3>1, RecordsWellFormed DEF AppendIssuance
      <3>3. ledger' \in [Gateways -> [Decisions -> Calls \cup {None}]]
        BY <1>7, <2>8, RecordsWellFormed DEF AppendIssuance
      <3>4. holder' \in [Gateways -> Calls \cup {None}]
        BY <2>8, ReleaseKeepsTypes, RecordsWellFormed DEF AppendIssuance
      <3>5. pc' \in [Calls -> PCs]
        BY <2>8, GotoKeepsTypes DEF AppendIssuance
      <3> QED
        BY <2>8, <3>2, <3>3, <3>4, <3>5 DEF AppendIssuance
    <2>9. CASE StageIssuance(c)
      <3>1. EvidenceTypeOK(Record, Ids)' /\ ChainInv' /\ ChainGrows
        BY <1>6, <2>9, RecordsWellFormed DEF StageIssuance
      <3> QED
        BY <2>9, <3>1, GotoKeepsTypes DEF StageIssuance
    <2>10. CASE DropStagedIssuance(c)
      <3>1. LogTypeOK(Record)'
        BY <2>10, DiscardKeepsTypes, RecordsWellFormed DEF DropStagedIssuance
      <3>2. ReplayTypeOK(Ids)'
        BY <1>3, <2>10 DEF DropStagedIssuance, Discard
      <3>3. holder' \in [Gateways -> Calls \cup {None}]
        BY <2>10, ReleaseKeepsTypes, RecordsWellFormed DEF DropStagedIssuance
      <3> QED
        BY <1>1, <2>10, <3>1, <3>2, <3>3, GotoKeepsTypes DEF DropStagedIssuance
    <2>11. CASE Sign(c)
      BY <1>4, <2>11, GotoKeepsTypes DEF Sign
    <2> QED
      BY <1>11, <2>1, <2>2, <2>3, <2>4, <2>5, <2>6, <2>7, <2>8, <2>9, <2>10, <2>11 DEF CallStep
  <1>12. ASSUME NEW g \in Gateways, Crash(g)
         PROVE  TypeOK' /\ ChainInv' /\ ChainGrows
    <2>1. LogTypeOK(Record)'
      BY <1>12, LoseLogKeepsTypes DEF Crash
    <2>2. ReplayTypeOK(Ids)'
      BY <1>12 DEF Crash, LoseLog, ReplayTypeOK, IdleReplay, ReplayPCs
    <2>3. pc' \in [Calls -> PCs]
      BY <1>12 DEF Crash, PCs, Ended
    <2>4. holder' \in [Gateways -> Calls \cup {None}]
      BY <1>12, ReleaseKeepsTypes DEF Crash
    <2> QED
      BY <1>1, <1>12, <2>1, <2>2, <2>3, <2>4 DEF Crash
  <1> QED
    BY <1>8, <1>9, <1>10, <1>11, <1>12 DEF Next

\* Every variable keeps its type, and no tenant's chain ever holds an id twice.
THEOREM TypeCorrect == Spec => [](TypeOK /\ ChainInv)
  <1>1. Init => TypeOK /\ ChainInv
    BY InitKeepsTypes
  <1>2. TypeOK /\ ChainInv /\ [Next]_vars => (TypeOK /\ ChainInv)'
    BY StepKeepsTypes
  <1> QED
    BY <1>1, <1>2, PTL DEF Spec

-------------------------------------------------------------------------------
(* At most one token.                                                        *)

\* A call moves by a step of its own, or dies with its gateway.
LEMMA CallMoves ==
  ASSUME TypeOK, [Next]_vars, NEW c \in Calls
  PROVE  /\ pc'[c] = pc[c] \/ CallStep(c) \/ pc'[c] = "crashed"
         /\ request' = request
  <1>1. CASE UNCHANGED vars
    BY <1>1 DEF vars, pipelineVars
  <1>2. CASE SetAvailable /\ UNCHANGED pipelineVars
    BY <1>2 DEF pipelineVars
  <1>3. CASE ReplayNext /\ UNCHANGED pipelineVars
    BY <1>3 DEF pipelineVars
  <1>4. ASSUME NEW e \in Calls, CallStep(e)
        PROVE  (e # c => pc'[c] = pc[c]) /\ request' = request
    BY <1>4 DEF CallStep, TypeOK, Goto, RejectEvaluation, AppendEvaluation, StageEvaluation,
       Withhold, Claim, Lookup, RejectIssuance, AppendIssuance, StageIssuance,
       DropStagedIssuance, Sign
  <1>5. ASSUME NEW g \in Gateways, Crash(g)
        PROVE  (pc'[c] = pc[c] \/ pc'[c] = "crashed") /\ request' = request
    BY <1>5 DEF Crash
  <1> QED
    BY <1>1, <1>2, <1>3, <1>4, <1>5 DEF Next

\* Past its evaluation record, and with nothing said against a token yet.
Underway == {"recorded", "sign", "token"} \cup InsideLock

EvaluationStands ==
  \A c \in Calls : pc[c] \in Underway =>
    \E i \in DOMAIN chain[TenantOfCall(c)] : chain[TenantOfCall(c)][i] = EvaluationRecord(c)

MintInv == TypeOK /\ ChainInv /\ EvaluationStands /\ TokenIsRecorded

LEMMA StepKeepsEvaluations ==
  ASSUME MintInv, [Next]_vars
  PROVE  EvaluationStands'
  <1> USE DEF MintInv
  <1> SUFFICES ASSUME NEW c \in Calls, pc'[c] \in Underway
               PROVE  \E i \in DOMAIN chain'[TenantOfCall(c)] :
                        chain'[TenantOfCall(c)][i] = EvaluationRecord(c)
    BY DEF EvaluationStands, TenantOfCall, EvaluationRecord
  <1>1. ChainGrows
    BY StepKeepsTypes
  <1>2. ASSUME pc[c] \in Underway
        PROVE  \E i \in DOMAIN chain'[TenantOfCall(c)] :
                 chain'[TenantOfCall(c)][i] = EvaluationRecord(c)
    BY <1>1, <1>2, RecordsWellFormed DEF ChainGrows, EvaluationStands
  <1>3. CASE pc'[c] = pc[c]
    BY <1>2, <1>3
  <1>4. pc'[c] # "crashed"
    BY DEF Underway, InsideLock
  <1>5. CASE CallStep(c)
    <2>1. CASE AppendEvaluation(c)
      <3>1. AppendStores(EvaluationRecord(c))
        BY <2>1, StepKeepsTypes DEF AppendEvaluation, Goto, TypeOK, Underway, InsideLock
      <3> QED
        BY <3>1, AppendAddsAtEnd, RecordsWellFormed DEF TypeOK, EvidenceTypeOK
    <2>2. CASE RejectEvaluation(c) \/ StageEvaluation(c) \/ Withhold(c)
      <3>1. pc'[c] \in Outcomes
        BY <2>2, WithheldIsAnOutcome
           DEF RejectEvaluation, StageEvaluation, Withhold, Goto, TypeOK, Outcomes
      <3>2. pc'[c] # "token"
        BY <2>2, WithheldIsAnOutcome
           DEF RejectEvaluation, StageEvaluation, Withhold, Goto, TypeOK
      <3> QED
        BY <3>1, <3>2 DEF Underway, InsideLock, Outcomes
    <2>3. CASE \/ Claim(c) \/ Lookup(c) \/ RejectIssuance(c) \/ AppendIssuance(c)
               \/ StageIssuance(c) \/ DropStagedIssuance(c) \/ Sign(c)
      <3>1. pc[c] \in Underway
        BY <2>3 DEF Claim, Lookup, RejectIssuance, AppendIssuance, StageIssuance,
           DropStagedIssuance, Sign, Underway, InsideLock
      <3> QED
        BY <1>2, <3>1
    <2> QED
      BY <1>5, <2>1, <2>2, <2>3 DEF CallStep
  <1> QED
    BY <1>3, <1>4, <1>5, CallMoves

\* Only a call whose own issuance record has just been stored is signed for.
LEMMA StepKeepsTokensRecorded ==
  ASSUME MintInv, [Next]_vars
  PROVE  TokenIsRecorded'
  <1> USE DEF MintInv
  <1> DEFINE Recorded(c, ch) ==
        \E i, j \in DOMAIN ch[TenantOfCall(c)] :
          /\ i < j
          /\ ch[TenantOfCall(c)][i] = EvaluationRecord(c)
          /\ ch[TenantOfCall(c)][j] = IssuanceRecord(c)
  <1> SUFFICES ASSUME NEW c \in Calls, pc'[c] \in {"sign", "token"}
               PROVE  Recorded(c, chain')
    BY DEF TokenIsRecorded, TenantOfCall, EvaluationRecord, IssuanceRecord
  <1>1. ChainGrows /\ TenantOfCall(c) \in Tenants
    BY StepKeepsTypes, RecordsWellFormed
  <1>2. ASSUME pc[c] \in {"sign", "token"}
        PROVE  Recorded(c, chain')
    <2>1. Recorded(c, chain)
      BY <1>2 DEF TokenIsRecorded
    <2> QED
      BY <1>1, <2>1 DEF ChainGrows
  <1>3. CASE CallStep(c)
    <2>1. Sign(c) \/ AppendIssuance(c)
      BY <1>3, WithheldIsAnOutcome
         DEF CallStep, Goto, TypeOK, RejectEvaluation, AppendEvaluation, StageEvaluation,
             Withhold, Claim, Lookup, RejectIssuance, StageIssuance, DropStagedIssuance
    <2>2. CASE Sign(c)
      BY <1>2, <2>2 DEF Sign
    <2>3. CASE AppendIssuance(c)
      <3>1. AppendStores(IssuanceRecord(c))
        BY <2>3 DEF AppendIssuance, Goto, TypeOK
      <3> DEFINE s == chain[TenantOfCall(c)]
      <3>2. PICK i \in DOMAIN s : s[i] = EvaluationRecord(c)
        BY <2>3 DEF AppendIssuance, EvaluationStands, Underway, InsideLock
      <3>3. DOMAIN s = 1..Len(s) /\ Len(s) \in Nat
        BY <1>1 DEF TypeOK, EvidenceTypeOK, ChainTypeOK
      <3>4. i < Len(s) + 1
        BY <3>2, <3>3
      <3>5. /\ DOMAIN chain'[TenantOfCall(c)] = DOMAIN s \cup {Len(s) + 1}
            /\ chain'[TenantOfCall(c)][i] = s[i]
            /\ chain'[TenantOfCall(c)][Len(s) + 1] = IssuanceRecord(c)
        BY <3>1, <3>2, AppendAddsAtEnd, RecordsWellFormed DEF TypeOK, EvidenceTypeOK
      <3> HIDE DEF s
      <3> QED
        BY <3>2, <3>4, <3>5
    <2> QED
      BY <2>1, <2>2, <2>3
  <1> QED
    BY <1>2, <1>3, CallMoves

LEMMA MintInvHolds == Spec => []MintInv
  <1>1. Init => MintInv
    <2> SUFFICES ASSUME Init PROVE EvaluationStands /\ TokenIsRecorded
      BY InitKeepsTypes DEF MintInv
    <2> QED
      BY DEF Init, EvaluationStands, TokenIsRecorded, Underway, InsideLock
  <1>2. MintInv /\ [Next]_vars => MintInv'
    BY StepKeepsTypes, StepKeepsEvaluations, StepKeepsTokensRecorded DEF MintInv
  <1> QED
    BY <1>1, <1>2, PTL DEF Spec

\* INV-05, FR-23: a token exists only behind its evaluation and issuance records.
THEOREM TokensAreRecorded == Spec => []TokenIsRecorded
  BY MintInvHolds, PTL DEF MintInv

\* Two tokens of one decision would have two issuance records with one id.
LEMMA RecordedOnceMintedOnce == MintInv => AtMostOneToken
  <1> SUFFICES ASSUME MintInv, NEW c \in Calls, NEW e \in Calls,
                      HasToken(c), HasToken(e), DecisionOf[c] = DecisionOf[e]
               PROVE  c = e
    BY DEF AtMostOneToken
  <1> DEFINE t == TenantOfCall(c)
  <1>1. t = TenantOfCall(e) /\ t \in Tenants
    BY RecordsWellFormed DEF TenantOfCall
  <1>2. PICK i \in DOMAIN chain[t] : chain[t][i] = IssuanceRecord(c)
    BY DEF MintInv, TokenIsRecorded, HasToken
  <1>3. PICK j \in DOMAIN chain[t] : chain[t][j] = IssuanceRecord(e)
    BY <1>1 DEF MintInv, TokenIsRecorded, HasToken
  <1>4. i = j
    BY <1>1, <1>2, <1>3 DEF MintInv, ChainInv, NoDuplicateRecords, IssuanceRecord
  <1> QED
    BY <1>2, <1>3, <1>4 DEF IssuanceRecord

\* ADR-0008: whatever happens, a decision yields at most one token.
THEOREM AtMostOneTokenEver == Spec => []AtMostOneToken
  BY MintInvHolds, RecordedOnceMintedOnce, PTL

-------------------------------------------------------------------------------
(* Warrants, refusals, and what is left in the logs.                         *)

\* ADR-0016: no token, and no issuance record, without a warrant for it.
THEOREM TokensAreWarranted == Spec => []TokenIsWarranted
  <1>1. Init => TokenIsWarranted
    BY DEF Init, TokenIsWarranted, InsideLock
  <1>2. TypeOK /\ TokenIsWarranted /\ [Next]_vars => TokenIsWarranted'
    <2> SUFFICES ASSUME TypeOK, TokenIsWarranted, [Next]_vars,
                        NEW c \in Calls, pc'[c] \in {"sign", "token"} \cup InsideLock
                 PROVE  /\ ~request[c].infrastructure
                        /\ request[c].mode # "halted"
                        /\ request[c].mode = "enforce" => request[c].verdict = "ALLOW"
      BY PipelineAssumption, CallMoves DEF TokenIsWarranted
    <2>1. CASE pc[c] \in {"sign", "token"} \cup InsideLock
      BY <2>1 DEF TokenIsWarranted
    <2>2. CASE Claim(c)
      <3>1. request[c] \in Request
        BY PipelineAssumption DEF TypeOK
      <3> QED
        BY <2>2, <3>1, PipelineAssumption
           DEF Claim, WithholdingReason, MintAccepts, BlocksOnVerdict, PermitsExecution, Request, Modes
    <2>3. CASE CallStep(c) /\ pc[c] \notin {"sign", "token"} \cup InsideLock
      BY <2>2, <2>3, WithheldIsAnOutcome
         DEF CallStep, Goto, TypeOK, InsideLock, RejectEvaluation, AppendEvaluation,
             StageEvaluation, Withhold, Lookup, RejectIssuance, AppendIssuance,
             StageIssuance, DropStagedIssuance, Sign
    <2> QED
      BY <2>1, <2>3, CallMoves DEF InsideLock
  <1> QED
    BY <1>1, <1>2, TypeCorrect, PTL DEF Spec

\* The issuance of d that stands in the chain names call c.
Names(d, c, ch) ==
  \E i \in DOMAIN ch[TenantOf[d]] :
    ch[TenantOf[d]][i].id = IssuanceId(d) /\ ch[TenantOf[d]][i].call = c

LEMMA IssuanceInChain ==
  ASSUME TypeOK, ChainInv, NEW d \in Decisions
  PROVE  InChain(IssuanceKey(d)) <=>
           \E i \in DOMAIN chain[TenantOf[d]] : chain[TenantOf[d]][i].id = IssuanceId(d)
  BY PipelineAssumption DEF InChain, IssuanceKey, Key, ChainInv, OwnChain

LEMMA StepKeepsRefusals ==
  ASSUME TypeOK, ChainInv, RefusalNamesAnIssuance, [Next]_vars
  PROVE  RefusalNamesAnIssuance'
  <1> USE PipelineAssumption
  <1>1. ChainGrows /\ TypeOK' /\ ChainInv'
    BY StepKeepsTypes
  <1>2. ASSUME NEW d \in Decisions, NEW c, Names(d, c, chain)
        PROVE  Names(d, c, chain')
    BY <1>1, <1>2 DEF ChainGrows, Names
  <1>3. ASSUME NEW d \in Decisions, InChain(IssuanceKey(d))
        PROVE  InChain(IssuanceKey(d))'
    BY <1>1, <1>3 DEF ChainGrows, InChain, IssuanceKey, Key
  <1>4. \A c \in Calls : DecisionOf[c] \in Decisions /\ GatewayOf[c] \in Gateways
    BY RecordsWellFormed
  \* What a ledger comes to remember.
  <1>5. ASSUME NEW g \in Gateways, NEW d \in Decisions, ledger'[g][d] # None
        PROVE  Names(d, ledger'[g][d], chain')
    <2>1. CASE ledger'[g][d] = ledger[g][d]
      <3>1. Names(d, ledger[g][d], chain)
        BY <1>5, <2>1 DEF RefusalNamesAnIssuance, Names
      <3> QED
        BY <1>2, <2>1, <3>1
    <2>2. ASSUME NEW c \in Calls, Lookup(c), ledger' # ledger
          PROVE  Names(d, ledger'[g][d], chain')
      <3>1. PICK i \in DOMAIN chain[TenantOfCall(c)] :
              /\ Key(chain[TenantOfCall(c)][i]) = IssuanceKey(DecisionOf[c])
              /\ ledger' = [ledger EXCEPT ![GatewayOf[c]][DecisionOf[c]]
                              = chain[TenantOfCall(c)][i].call]
        BY <2>2 DEF Lookup, TenantOfCall
      <3>2. CASE g = GatewayOf[c] /\ d = DecisionOf[c]
        <4>1. ledger'[g][d] = chain[TenantOf[d]][i].call
          BY <3>1, <3>2 DEF TypeOK, TenantOfCall
        <4>2. chain[TenantOf[d]][i].id = IssuanceId(d)
          BY <3>1, <3>2 DEF Key, IssuanceKey, TenantOfCall
        <4>3. Names(d, ledger'[g][d], chain)
          BY <3>1, <3>2, <4>1, <4>2 DEF Names, TenantOfCall
        <4> QED
          BY <1>2, <4>3
      <3>3. CASE ~(g = GatewayOf[c] /\ d = DecisionOf[c])
        <4>1. ledger'[g][d] = ledger[g][d]
          BY <1>4, <3>1, <3>3 DEF TypeOK
        <4> QED
          BY <2>1, <4>1
      <3> QED
        BY <3>2, <3>3
    <2>3. ASSUME NEW c \in Calls, AppendIssuance(c), ledger' # ledger
          PROVE  Names(d, ledger'[g][d], chain')
      <3>1. /\ AppendStores(IssuanceRecord(c))
            /\ ledger' = [ledger EXCEPT ![GatewayOf[c]][DecisionOf[c]] = c]
        BY <2>3 DEF AppendIssuance
      <3>2. CASE g = GatewayOf[c] /\ d = DecisionOf[c]
        <4>1. ledger'[g][d] = c
          BY <3>1, <3>2 DEF TypeOK
        <4>2. \E i \in DOMAIN chain'[TenantOfCall(c)] :
                chain'[TenantOfCall(c)][i] = IssuanceRecord(c)
          <5> DEFINE n == Len(chain[TenantOfCall(c)]) + 1
          <5>0. PICK r \in Record : r = IssuanceRecord(c) /\ r.tenant = TenantOfCall(c)
            BY RecordsWellFormed
          <5>1. r.tenant \in Tenants /\ AppendStores(r) /\ ChainTypeOK(Record)
            BY <3>1, <5>0, RecordsWellFormed DEF TypeOK, EvidenceTypeOK
          <5>2. /\ DOMAIN chain'[r.tenant] = DOMAIN chain[r.tenant] \cup {Len(chain[r.tenant]) + 1}
                /\ chain'[r.tenant][Len(chain[r.tenant]) + 1] = r
            BY <5>1, AppendAddsAtEnd
          <5>3. n \in DOMAIN chain'[TenantOfCall(c)] /\ chain'[TenantOfCall(c)][n] = IssuanceRecord(c)
            BY <5>0, <5>2
          <5> HIDE DEF n
          <5> QED
            BY <5>3
        <4> QED
          BY <3>2, <4>1, <4>2 DEF Names, IssuanceRecord, TenantOfCall
      <3>3. CASE ~(g = GatewayOf[c] /\ d = DecisionOf[c])
        BY <1>4, <2>1, <3>1, <3>3 DEF TypeOK
      <3> QED
        BY <3>2, <3>3
    <2>4. ASSUME NEW h \in Gateways, Crash(h)
          PROVE  ledger'[g][d] = ledger[g][d]
      BY <1>5, <2>4 DEF Crash, TypeOK
    <2>5. ledger' = ledger \/ (\E c \in Calls : Lookup(c) \/ AppendIssuance(c))
                           \/ (\E h \in Gateways : Crash(h))
      BY DEF Next, vars, pipelineVars, CallStep, RejectEvaluation, AppendEvaluation,
         StageEvaluation, Withhold, Claim, RejectIssuance, StageIssuance,
         DropStagedIssuance, Sign
    <2> QED
      BY <2>1, <2>2, <2>3, <2>4, <2>5
  \* What a refused call was refused for.
  <1>6. ASSUME NEW c \in Calls, pc'[c] = "issuance_refused"
        PROVE  InChain(IssuanceKey(DecisionOf[c]))'
    <2> DEFINE d == DecisionOf[c]
    <2>1. CASE pc[c] = "issuance_refused"
      BY <1>3, <1>4, <2>1 DEF RefusalNamesAnIssuance
    <2>2. CASE Claim(c)
      <3>1. ledger[GatewayOf[c]][d] # None
        BY <1>6, <2>2 DEF Claim, Goto, TypeOK
      <3>2. InChain(IssuanceKey(d))
        BY <1>4, <3>1, IssuanceInChain DEF RefusalNamesAnIssuance
      <3> QED
        BY <1>3, <1>4, <3>2
    <2>3. CASE Lookup(c)
      <3>1. HasRecordSays(IssuanceKey(d), TRUE)
        BY <1>6, <2>3 DEF Lookup, Goto, TypeOK
      <3>2. InChain(IssuanceKey(d))
        BY <3>1 DEF HasRecordSays
      <3> QED
        BY <1>3, <1>4, <3>2
    <2>4. CASE AppendIssuance(c)
      <3>1. AppendFindsDuplicate(IssuanceRecord(c))
        BY <1>6, <2>4 DEF AppendIssuance, Goto, TypeOK
      <3>2. Key(IssuanceRecord(c)) = IssuanceKey(d)
        BY DEF Key, IssuanceRecord, IssuanceKey, TenantOfCall
      <3> QED
        BY <1>3, <1>4, <3>1, <3>2 DEF AppendFindsDuplicate
    <2>5. CASE CallStep(c) /\ ~Claim(c) /\ ~Lookup(c) /\ ~AppendIssuance(c)
      BY <1>6, <2>5, WithheldIsAnOutcome
         DEF CallStep, Goto, TypeOK, RejectEvaluation, AppendEvaluation, StageEvaluation,
             Withhold, RejectIssuance, StageIssuance, DropStagedIssuance, Sign
    <2> QED
      BY <1>6, <2>1, <2>2, <2>3, <2>4, <2>5, CallMoves
  <1> QED
    BY <1>5, <1>6 DEF RefusalNamesAnIssuance, Names

\* Every refusal names an issuance that stands in the chain, and no process
\* remembers one that does not.
THEOREM RefusalsNameIssuances == Spec => []RefusalNamesAnIssuance
  <1>1. Init => RefusalNamesAnIssuance
    BY DEF Init, RefusalNamesAnIssuance
  <1>2. TypeOK /\ ChainInv /\ RefusalNamesAnIssuance /\ [Next]_vars => RefusalNamesAnIssuance'
    BY StepKeepsRefusals
  <1> QED
    BY <1>1, <1>2, TypeCorrect, PTL DEF Spec

-------------------------------------------------------------------------------
(* The lock, and what a log may hold while it is held.                       *)

\* A call inside the lock of its gateway's ledger is the one that holds it.
LockInv ==
  /\ \A c \in Calls : pc[c] \in InsideLock => holder[GatewayOf[c]] = c
  /\ \A g \in Gateways : holder[g] # None => GatewayOf[holder[g]] = g

LEMMA StepKeepsLock ==
  ASSUME TypeOK, LockInv, [Next]_vars
  PROVE  LockInv'
  <1> USE RecordsWellFormed, PipelineAssumption DEF TypeOK
  <1>1. ASSUME UNCHANGED <<pc, holder>>
        PROVE  LockInv'
    BY <1>1 DEF LockInv
  <1>2. ASSUME NEW c \in Calls, NEW label \in PCs, Goto(c, label), UNCHANGED holder,
               label \in InsideLock => pc[c] \in InsideLock
        PROVE  LockInv'
    BY <1>2 DEF LockInv, Goto
  <1>3. ASSUME NEW c \in Calls, NEW label \in PCs \ InsideLock, Goto(c, label),
               pc[c] \in InsideLock, Release(GatewayOf[c])
        PROVE  LockInv'
    BY <1>3 DEF LockInv, Goto, Release
  <1>4. ASSUME NEW c \in Calls, Goto(c, "lookup"), holder[GatewayOf[c]] = None,
               holder' = [holder EXCEPT ![GatewayOf[c]] = c]
        PROVE  LockInv'
    BY <1>4 DEF LockInv, Goto
  <1>5. ASSUME NEW c \in Calls, CallStep(c)
        PROVE  LockInv'
    <2> USE DEF PCs, Ended, Outcomes, InsideLock
    <2>1. CASE \/ RejectEvaluation(c) \/ AppendEvaluation(c) \/ StageEvaluation(c)
               \/ Withhold(c) \/ RejectIssuance(c) \/ StageIssuance(c) \/ Sign(c)
      BY <1>2, <2>1, WithheldIsAnOutcome DEF RejectEvaluation, AppendEvaluation, StageEvaluation,
         Withhold, RejectIssuance, StageIssuance, Sign
    <2>2. CASE Claim(c)
      BY <1>2, <1>4, <2>2 DEF Claim
    <2>3. CASE Lookup(c)
      BY <1>2, <1>3, <2>3 DEF Lookup
    <2>4. CASE AppendIssuance(c)
      BY <1>2, <1>3, <2>4 DEF AppendIssuance
    <2>5. CASE DropStagedIssuance(c)
      BY <1>3, <2>5 DEF DropStagedIssuance
    <2> QED
      BY <1>5, <2>1, <2>2, <2>3, <2>4, <2>5 DEF CallStep
  <1>6. ASSUME NEW g \in Gateways, Crash(g)
        PROVE  LockInv'
    <2>1. /\ \A c \in Calls : GatewayOf[c] = g => pc'[c] \notin InsideLock
          /\ \A c \in Calls : GatewayOf[c] # g => pc'[c] = pc[c]
          /\ holder'[g] = None
          /\ \A h \in Gateways : h # g => holder'[h] = holder[h]
      BY <1>6 DEF Crash, Release, Ended, Outcomes, InsideLock
    <2> QED
      BY <2>1 DEF LockInv
  <1> QED
    BY <1>1, <1>5, <1>6 DEF Next, vars, pipelineVars

LEMMA ReplayAddsNothing ==
  ASSUME TypeOK, ReplayNext
  PROVE  /\ journal' = journal
         /\ \A g \in Gateways : Held(g)' \subseteq Held(g)
  <1>1. PICK p \in Replayers : ReplayStart(p) \/ ReplayStep(p) \/ ReplayAbandoned(p)
    BY DEF ReplayNext
  <1>2. CASE UNCHANGED walVars
    BY <1>2 DEF walVars, Held
  <1>3. CASE ReplayFinish(p)
    <2>1. \A g \in Gateways : pending'[g] \subseteq pending[g]
      BY <1>3, EvidenceAssumption
         DEF ReplayFinish, WithoutKeys, TypeOK, EvidenceTypeOK, LogTypeOK
    <2> QED
      BY <1>3, <2>1 DEF ReplayFinish, Held
  <1> QED
    BY <1>1, <1>2, <1>3
       DEF ReplayStep, ReplayStart, ReplayCheck, ReplayAppend, ReplayAbandoned, walVars

\* Position i of the log of g is an issuance that must be on its way out.
Leaving(g, i) ==
  journal[g][i].id[1] = "token_issued" =>
    /\ holder[g] # None
    /\ pc[holder[g]] = "drop_issuance"
    /\ journal[g][i] = IssuanceRecord(holder[g])

\* Staging adds at most the one record, at a position of its own.
LEMMA StageAddsOne ==
  ASSUME TypeOK, NEW g \in Gateways, NEW r \in Record, Stage(g, r) \/ StageIsFull(g, r),
         NEW h \in Gateways, NEW i \in Held(h)'
  PROVE  \/ i \in Held(h) /\ journal'[h][i] = journal[h][i]
         \/ h = g /\ journal'[h][i] = r
  <1> DEFINE s == journal[g]
  <1>1. s \in Seq(Record) /\ Len(s) \in Nat /\ DOMAIN s = 1..Len(s)
    BY DEF TypeOK, EvidenceTypeOK, LogTypeOK
  <1>2. CASE UNCHANGED walVars
    BY <1>2 DEF walVars, Held
  <1>3. CASE /\ journal' = [journal EXCEPT ![g] = Append(s, r)]
             /\ pending' = [pending EXCEPT ![g] = @ \cup {Len(s) + 1}]
             /\ UNCHANGED quarantined
    <2>1. CASE h # g
      BY <1>3, <2>1 DEF TypeOK, EvidenceTypeOK, LogTypeOK, Held
    <2>2. CASE h = g
      <3>1. Held(h)' = Held(g) \cup {Len(s) + 1} /\ journal'[h] = Append(s, r)
        BY <1>3, <2>2 DEF TypeOK, EvidenceTypeOK, LogTypeOK, Held
      <3>2. Append(s, r)[Len(s) + 1] = r /\ \A j \in 1..Len(s) : Append(s, r)[j] = s[j]
        BY <1>1
      <3>3. Held(g) \subseteq DOMAIN s
        BY DEF TypeOK, EvidenceTypeOK, LogTypeOK, Held
      <3> QED
        BY <1>1, <2>2, <3>1, <3>2, <3>3
    <2> QED
      BY <2>1, <2>2
  <1> QED
    BY <1>2, <1>3 DEF Stage, StageIsFull, walVars

LEMMA StepKeepsLogClean ==
  ASSUME TypeOK, LockInv, NoWithheldIssuanceInLog, [Next]_vars
  PROVE  NoWithheldIssuanceInLog'
  <1> USE RecordsWellFormed, PipelineAssumption
  <1> SUFFICES ASSUME NEW h \in Gateways, NEW i \in Held(h)'
               PROVE  Leaving(h, i)'
    BY DEF NoWithheldIssuanceInLog, Leaving, IssuanceRecord
  <1>1. ASSUME i \in Held(h), journal'[h][i] = journal[h][i],
               holder'[h] = holder[h], pc'[holder[h]] = pc[holder[h]]
        PROVE  Leaving(h, i)'
    BY <1>1 DEF NoWithheldIssuanceInLog, Leaving, IssuanceRecord
  \* A log whose gateway is at no withheld issuance holds no issuance at all.
  <1>2. ASSUME i \in Held(h), journal'[h][i] = journal[h][i],
               holder[h] = None \/ pc[holder[h]] # "drop_issuance"
        PROVE  Leaving(h, i)'
    BY <1>2 DEF NoWithheldIssuanceInLog, Leaving
  <1>3. CASE UNCHANGED <<walVars, pc, holder>>
    BY <1>1, <1>3 DEF walVars, Held
  <1>4. CASE ReplayNext /\ UNCHANGED pipelineVars
    BY <1>1, <1>4, ReplayAddsNothing DEF pipelineVars
  <1>5. ASSUME NEW c \in Calls, CallStep(c)
        PROVE  Leaving(h, i)'
    <2> DEFINE g == GatewayOf[c]
    <2>1. ASSUME h # g, UNCHANGED walVars \/ Stage(g, EvaluationRecord(c))
                                           \/ StageIsFull(g, EvaluationRecord(c))
                                           \/ Stage(g, IssuanceRecord(c))
                                           \/ StageIsFull(g, IssuanceRecord(c))
                                           \/ Discard(g, IssuanceKey(DecisionOf[c])),
                 \A e \in Calls : e # c => pc'[e] = pc[e],
                 holder'[h] = holder[h]
          PROVE  Leaving(h, i)'
      <3>1. i \in Held(h) /\ journal'[h][i] = journal[h][i]
        <4>1. CASE UNCHANGED walVars
          BY <4>1 DEF walVars, Held
        <4>2. CASE Discard(g, IssuanceKey(DecisionOf[c]))
          BY <2>1, <4>2 DEF Discard, Held, TypeOK, EvidenceTypeOK, LogTypeOK
        <4> QED
          BY <2>1, <4>1, <4>2, StageAddsOne
      <3>2. CASE holder[h] = None
        BY <1>2, <3>1, <3>2
      <3>3. CASE holder[h] # None
        BY <1>1, <2>1, <3>1, <3>3 DEF LockInv, TypeOK
      <3> QED
        BY <3>2, <3>3
    <2>2. ASSUME h = g, UNCHANGED walVars,
                 holder[g] = None \/ (holder[g] = c /\ pc[c] # "drop_issuance")
          PROVE  Leaving(h, i)'
      BY <1>2, <2>2 DEF walVars, Held
    <2>3. ASSUME h = g, pc[c] \notin InsideLock, UNCHANGED holder,
                 \A e \in Calls : e # c => pc'[e] = pc[e],
                 i \in Held(h) /\ journal'[h][i] = journal[h][i]
          PROVE  Leaving(h, i)'
      <3>1. CASE holder[h] = c
        BY <1>2, <2>3, <3>1 DEF InsideLock
      <3>2. CASE holder[h] # c
        BY <1>1, <1>2, <2>3, <3>2 DEF TypeOK
      <3> QED
        BY <3>1, <3>2
    <2>4. \A e \in Calls : e # c => pc'[e] = pc[e]
      BY <1>5 DEF CallStep, Goto, TypeOK, RejectEvaluation, AppendEvaluation, StageEvaluation,
         Withhold, Claim, Lookup, RejectIssuance, AppendIssuance, StageIssuance,
         DropStagedIssuance, Sign
    <2>5. pc[c] \in InsideLock => holder[g] = c
      BY DEF LockInv
    <2>6. CASE RejectEvaluation(c) \/ AppendEvaluation(c) \/ Withhold(c) \/ Sign(c)
      <3>1. UNCHANGED <<walVars, holder>> /\ pc[c] \notin InsideLock
        BY <2>6 DEF RejectEvaluation, AppendEvaluation, Withhold, Sign, evidenceVars, walVars,
           InsideLock
      <3>2. i \in Held(h) /\ journal'[h][i] = journal[h][i]
        BY <3>1 DEF walVars, Held
      <3> QED
        BY <2>1, <2>3, <2>4, <3>1, <3>2
    <2>7. CASE StageEvaluation(c)
      <3>1. pc[c] \notin InsideLock /\ UNCHANGED holder
        BY <2>7 DEF StageEvaluation, InsideLock
      <3>2. CASE h = g
        <4>1. CASE i \in Held(h) /\ journal'[h][i] = journal[h][i]
          BY <2>3, <2>4, <3>1, <3>2, <4>1
        <4>2. CASE journal'[h][i] = EvaluationRecord(c)
          BY <4>2 DEF Leaving, EvaluationRecord
        <4> QED
          BY <2>7, <3>2, <4>1, <4>2, StageAddsOne DEF StageEvaluation
      <3> QED
        BY <2>1, <2>4, <2>7, <3>1, <3>2 DEF StageEvaluation
    <2>8. CASE Claim(c) \/ Lookup(c) \/ RejectIssuance(c) \/ AppendIssuance(c)
      <3>1. UNCHANGED walVars
        BY <2>8 DEF Claim, Lookup, RejectIssuance, AppendIssuance, evidenceVars, walVars
      <3>2. holder[g] = None \/ (holder[g] = c /\ pc[c] # "drop_issuance")
        BY <2>5, <2>8 DEF Claim, Lookup, RejectIssuance, AppendIssuance, InsideLock
      <3>3. h # g => holder'[h] = holder[h]
        BY <2>8 DEF Claim, Lookup, RejectIssuance, AppendIssuance, Release, TypeOK
      <3> QED
        BY <2>1, <2>2, <2>4, <3>1, <3>2, <3>3
    <2>9. CASE StageIssuance(c)
      <3>1. holder[g] = c /\ UNCHANGED holder /\ pc[c] = "stage_issuance"
        BY <2>5, <2>9 DEF StageIssuance, InsideLock
      <3>2. CASE h = g
        <4>1. CASE i \in Held(h) /\ journal'[h][i] = journal[h][i]
          BY <1>2, <3>1, <3>2, <4>1
        <4>2. CASE journal'[h][i] = IssuanceRecord(c)
          <5>1. pc'[c] = "drop_issuance"
            BY <2>9 DEF StageIssuance, Goto, TypeOK
          <5> QED
            BY <3>1, <3>2, <4>2, <5>1 DEF Leaving, IssuanceRecord
        <4> QED
          BY <2>9, <3>2, <4>1, <4>2, StageAddsOne DEF StageIssuance
      <3> QED
        BY <2>1, <2>4, <2>9, <3>1, <3>2 DEF StageIssuance
    <2>10. CASE DropStagedIssuance(c)
      <3>1. holder[g] = c /\ Discard(g, IssuanceKey(DecisionOf[c]))
        BY <2>5, <2>10 DEF DropStagedIssuance, InsideLock
      <3>2. CASE h = g
        <4>1. /\ journal' = journal /\ i \in Held(h)
              /\ StagedKey(h, i) # IssuanceKey(DecisionOf[c])
          BY <3>1, <3>2 DEF Discard, Held, WithoutKeys, TypeOK, EvidenceTypeOK, LogTypeOK
        <4>2. journal[h][i] # IssuanceRecord(c)
          BY <4>1 DEF StagedKey, Key, IssuanceRecord, IssuanceKey, TenantOfCall
        <4> QED
          BY <3>1, <3>2, <4>1, <4>2 DEF NoWithheldIssuanceInLog, Leaving
      <3>3. CASE h # g
        BY <2>1, <2>4, <2>10, <3>1, <3>3 DEF DropStagedIssuance, Release, TypeOK
      <3> QED
        BY <3>2, <3>3
    <2> QED
      BY <1>5, <2>6, <2>7, <2>8, <2>9, <2>10 DEF CallStep
  <1>6. ASSUME NEW g \in Gateways, Crash(g)
        PROVE  Leaving(h, i)'
    <2>1. h # g /\ i \in Held(h) /\ journal' = journal
      BY <1>6 DEF Crash, LoseLog, Held, TypeOK, EvidenceTypeOK, LogTypeOK
    <2>2. holder'[h] = holder[h]
      BY <1>6, <2>1 DEF Crash, Release, TypeOK
    <2>3. CASE holder[h] = None
      BY <1>2, <2>1, <2>3
    <2>4. CASE holder[h] # None
      <3>1. holder[h] \in Calls /\ GatewayOf[holder[h]] = h
        BY <2>4 DEF LockInv, TypeOK
      <3>2. pc'[holder[h]] = pc[holder[h]]
        BY <1>6, <2>1, <3>1 DEF Crash
      <3> QED
        BY <1>1, <2>1, <2>2, <3>2
    <2> QED
      BY <2>3, <2>4
  <1> QED
    BY <1>3, <1>4, <1>5, <1>6 DEF Next, vars, pipelineVars, evidenceVars, SetAvailable, walVars

\* A withheld token leaves no issuance record in any log: only a call that is
\* about to drop the record, and holds the lock until it has, ever has one there.
THEOREM LogsHoldNoWithheldIssuance == Spec => []NoWithheldIssuanceInLog
  <1>1. Init => LockInv /\ NoWithheldIssuanceInLog
    BY DEF Init, EvidenceInit, LockInv, NoWithheldIssuanceInLog, Held, InsideLock
  <1>2. TypeOK /\ LockInv /\ NoWithheldIssuanceInLog /\ [Next]_vars
          => (LockInv /\ NoWithheldIssuanceInLog)'
    BY StepKeepsLock, StepKeepsLogClean
  <1> QED
    BY <1>1, <1>2, TypeCorrect, PTL DEF Spec

-------------------------------------------------------------------------------
(* The mint implements MintOnce.                                             *)

\* What a chain says of a decision's issuance, read from any chain.
LEMMA RecordedInChain ==
  ASSUME NEW s, NEW d, \A i, j \in DOMAIN s : s[i].id = s[j].id => i = j
  PROVE  /\ \A i \in DOMAIN s : s[i].id = IssuanceId(d) => RecordedIn(s, d) = s[i].call
         /\ (\A i \in DOMAIN s : s[i].id # IssuanceId(d)) => RecordedIn(s, d) = None
  <1> DEFINE at == {i \in DOMAIN s : s[i].id = IssuanceId(d)}
  <1>1. RecordedIn(s, d) = IF at = {} THEN None ELSE s[CHOOSE i \in at : TRUE].call
    BY DEF RecordedIn
  <1>2. ASSUME NEW i \in DOMAIN s, s[i].id = IssuanceId(d)
        PROVE  RecordedIn(s, d) = s[i].call
    <2>1. at = {i}
      BY <1>2
    <2>2. (CHOOSE j \in at : TRUE) = i
      BY <2>1
    <2> QED
      BY <1>1, <2>1, <2>2
  <1> QED
    BY <1>1, <1>2

Chain(d) == chain[TenantOf[d]]

\* A record changes what is recorded only by being the first issuance of its
\* decision, whoever appends it: a call, or a replay.
LEMMA AppendRecords ==
  ASSUME TypeOK, ChainInv, ChainInv', NEW r \in Record, AppendStores(r)
  PROVE  \/ \A d \in Decisions : RecordedIn(Chain(d)', d) = RecordedIn(Chain(d), d)
         \/ \E c \in Calls :
              /\ RecordedIn(Chain(DecisionOf[c]), DecisionOf[c]) = None
              /\ RecordedIn(Chain(DecisionOf[c])', DecisionOf[c]) = c
              /\ \A d \in Decisions \ {DecisionOf[c]} :
                   RecordedIn(Chain(d)', d) = RecordedIn(Chain(d), d)
  <1> USE RecordsWellFormed, PipelineAssumption DEF Chain
  <1>1. r.tenant \in Tenants
    BY DEF WellFormed
  <1> DEFINE n == Len(chain[r.tenant]) + 1
  <1>2. /\ \A t \in Tenants : t # r.tenant => chain'[t] = chain[t]
        /\ DOMAIN chain'[r.tenant] = DOMAIN chain[r.tenant] \cup {n}
        /\ \A i \in DOMAIN chain[r.tenant] : chain'[r.tenant][i] = chain[r.tenant][i]
        /\ chain'[r.tenant][n] = r
    BY <1>1, AppendAddsAtEnd DEF TypeOK, EvidenceTypeOK
  <1> HIDE DEF n
  <1>3. ASSUME NEW d \in Decisions
        PROVE  /\ \A i \in DOMAIN Chain(d) : Chain(d)[i].id = IssuanceId(d)
                    => RecordedIn(Chain(d), d) = Chain(d)[i].call
               /\ (\A i \in DOMAIN Chain(d) : Chain(d)[i].id # IssuanceId(d))
                    => RecordedIn(Chain(d), d) = None
               /\ \A i \in DOMAIN Chain(d)' : Chain(d)'[i].id = IssuanceId(d)
                    => RecordedIn(Chain(d)', d) = Chain(d)'[i].call
               /\ (\A i \in DOMAIN Chain(d)' : Chain(d)'[i].id # IssuanceId(d))
                    => RecordedIn(Chain(d)', d) = None
    <2> DEFINE s == chain[TenantOf[d]]
               z == chain'[TenantOf[d]]
    <2>1. /\ \A i, j \in DOMAIN s : s[i].id = s[j].id => i = j
          /\ \A i, j \in DOMAIN z : z[i].id = z[j].id => i = j
      BY DEF ChainInv, NoDuplicateRecords
    <2>2. /\ \A i \in DOMAIN s : s[i].id = IssuanceId(d) => RecordedIn(s, d) = s[i].call
          /\ (\A i \in DOMAIN s : s[i].id # IssuanceId(d)) => RecordedIn(s, d) = None
          /\ \A i \in DOMAIN z : z[i].id = IssuanceId(d) => RecordedIn(z, d) = z[i].call
          /\ (\A i \in DOMAIN z : z[i].id # IssuanceId(d)) => RecordedIn(z, d) = None
      <3> HIDE DEF s, z
      <3> QED
        BY <2>1, RecordedInChain
    <2> QED
      BY <2>2
  <1>4. ASSUME NEW d \in Decisions, TenantOf[d] # r.tenant \/ r.id # IssuanceId(d)
        PROVE  RecordedIn(Chain(d)', d) = RecordedIn(Chain(d), d)
    <2>1. CASE TenantOf[d] # r.tenant
      BY <1>2, <2>1
    <2>2. CASE TenantOf[d] = r.tenant
      <3>1. CASE \E i \in DOMAIN Chain(d) : Chain(d)[i].id = IssuanceId(d)
        <4>1. PICK i \in DOMAIN Chain(d) : Chain(d)[i].id = IssuanceId(d)
          BY <3>1
        <4>2. i \in DOMAIN Chain(d)' /\ Chain(d)'[i] = Chain(d)[i]
          BY <1>2, <2>2
        <4>3. RecordedIn(Chain(d), d) = Chain(d)[i].call
          BY <1>3, <4>1
        <4>4. RecordedIn(Chain(d)', d) = Chain(d)'[i].call
          BY <1>3, <4>1, <4>2
        <4> QED
          BY <4>2, <4>3, <4>4
      <3>2. CASE \A i \in DOMAIN Chain(d) : Chain(d)[i].id # IssuanceId(d)
        <4>1. \A i \in DOMAIN Chain(d)' : Chain(d)'[i].id # IssuanceId(d)
          BY <1>2, <1>4, <2>2, <3>2
        <4> QED
          BY <1>3, <3>2, <4>1
      <3> QED
        BY <3>1, <3>2
    <2> QED
      BY <2>1, <2>2
  <1>5. CASE \E c \in Calls : r = EvaluationRecord(c)
    BY <1>4, <1>5 DEF EvaluationRecord, IssuanceId
  <1>6. ASSUME NEW c \in Calls, r = IssuanceRecord(c)
        PROVE  /\ RecordedIn(Chain(DecisionOf[c]), DecisionOf[c]) = None
               /\ RecordedIn(Chain(DecisionOf[c])', DecisionOf[c]) = c
               /\ \A d \in Decisions \ {DecisionOf[c]} :
                    RecordedIn(Chain(d)', d) = RecordedIn(Chain(d), d)
    <2> DEFINE d == DecisionOf[c]
    <2>1. r.tenant = TenantOf[d] /\ r.id = IssuanceId(d) /\ r.call = c
      BY <1>6 DEF IssuanceRecord, TenantOfCall
    <2>2. \A i \in DOMAIN Chain(d) : Chain(d)[i].id # IssuanceId(d)
      BY <2>1, IssuanceInChain DEF AppendStores, Key, IssuanceKey
    <2>3. RecordedIn(Chain(d), d) = None
      BY <1>3, <2>2
    <2>4. RecordedIn(Chain(d)', d) = c
      <3>1. n \in DOMAIN Chain(d)' /\ Chain(d)'[n].id = IssuanceId(d) /\ Chain(d)'[n].call = c
        BY <1>2, <2>1
      <3> QED
        BY <1>3, <3>1
    <2>5. \A e \in Decisions \ {d} : r.id # IssuanceId(e)
      BY <2>1 DEF IssuanceId
    <2> QED
      BY <1>4, <2>3, <2>4, <2>5
  <1> QED
    BY <1>5, <1>6 DEF Record

Recorded == [d \in Decisions |-> RecordedIn(chain[TenantOf[d]], d)]
Handed == {c \in Calls : HasToken(c)}

\* Every step of the pipeline is a step of the abstract mint, or a stutter.
LEMMA StepRefinesMint ==
  ASSUME MintInv, [Next]_vars
  PROVE  [Mint!Next]_<<Recorded, Handed>>
  <1> USE RecordsWellFormed, PipelineAssumption DEF MintInv
  <1>1. TypeOK' /\ ChainInv'
    BY StepKeepsTypes
  <1>2. ASSUME UNCHANGED chain, \A c \in Calls : HasToken(c)' <=> HasToken(c)
        PROVE  UNCHANGED <<Recorded, Handed>>
    BY <1>2 DEF Recorded, Handed
  <1>3. ASSUME NEW r \in Record, AppendStores(r), \A c \in Calls : HasToken(c)' <=> HasToken(c)
        PROVE  [Mint!Next]_<<Recorded, Handed>>
    <2>1. Handed' = Handed
      BY <1>3 DEF Handed
    <2>2. CASE \A d \in Decisions : RecordedIn(Chain(d)', d) = RecordedIn(Chain(d), d)
      BY <2>1, <2>2 DEF Recorded, Chain
    <2>3. ASSUME NEW c \in Calls,
                 RecordedIn(Chain(DecisionOf[c]), DecisionOf[c]) = None,
                 RecordedIn(Chain(DecisionOf[c])', DecisionOf[c]) = c,
                 \A d \in Decisions \ {DecisionOf[c]} :
                   RecordedIn(Chain(d)', d) = RecordedIn(Chain(d), d)
          PROVE  Mint!Record(c)
      <3>1. Recorded[DecisionOf[c]] = None
        BY <2>3 DEF Recorded, Chain
      <3>2. Recorded' = [Recorded EXCEPT ![DecisionOf[c]] = c]
        BY <2>3 DEF Recorded, Chain
      <3> QED
        BY <2>1, <3>1, <3>2 DEF Mint!Record, Recorded, Handed
    <2> QED
      BY <1>1, <1>3, <2>2, <2>3, AppendRecords DEF Mint!Next, Recorded, Handed
  <1>4. CASE SetAvailable /\ UNCHANGED pipelineVars
    BY <1>2, <1>4 DEF SetAvailable, pipelineVars, HasToken
  <1>5. CASE ReplayNext /\ UNCHANGED pipelineVars
    <2>1. UNCHANGED chain \/ \E r \in Record : AppendStores(r)
      <3>1. PICK p \in Replayers : ReplayStart(p) \/ ReplayStep(p) \/ ReplayAbandoned(p)
        BY <1>5 DEF ReplayNext
      <3>2. CASE ReplayAppend(p)
        <4>1. \A i \in replay[p].queue : journal[GatewayOf[p]][i] \in Record
          BY EvidenceAssumption DEF TypeOK, EvidenceTypeOK, LogTypeOK, ReplayTypeOK
        <4> QED
          BY <3>2, <4>1 DEF ReplayAppend, AppendFindsDuplicate, AppendReportsOutage, AppendRejects
      <3> QED
        BY <3>1, <3>2 DEF ReplayStep, ReplayStart, ReplayCheck, ReplayFinish, ReplayAbandoned
    <2> QED
      BY <1>2, <1>3, <1>5, <2>1 DEF pipelineVars, HasToken
  <1>6. ASSUME NEW c \in Calls, CallStep(c)
        PROVE  [Mint!Next]_<<Recorded, Handed>>
    <2>1. CASE Sign(c)
      <3>1. /\ Handed' = Handed \cup {c} /\ c \notin Handed
            /\ Recorded' = Recorded
        BY <2>1 DEF Sign, Goto, TypeOK, Handed, HasToken, Recorded, evidenceVars
      <3>2. Recorded[DecisionOf[c]] = c
        <4> DEFINE s == chain[TenantOf[DecisionOf[c]]]
        <4>1. PICK i \in DOMAIN s : s[i] = IssuanceRecord(c)
          BY <2>1 DEF Sign, TokenIsRecorded, TenantOfCall
        <4>2. \A m, n \in DOMAIN s : s[m].id = s[n].id => m = n
          BY DEF ChainInv, NoDuplicateRecords
        <4>3. s[i].id = IssuanceId(DecisionOf[c]) /\ s[i].call = c
          BY <4>1 DEF IssuanceRecord
        <4>4. RecordedIn(s, DecisionOf[c]) = c
          <5> HIDE DEF s
          <5> QED
            BY <4>1, <4>2, <4>3, RecordedInChain
        <4> QED
          BY <4>4 DEF Recorded
      <3> QED
        BY <3>1, <3>2 DEF Mint!Next, Mint!HandOut, Recorded, Handed
    <2>2. CASE ~Sign(c)
      <3>1. \A e \in Calls : HasToken(e)' <=> HasToken(e)
        BY <1>6, <2>2, WithheldIsAnOutcome
           DEF CallStep, HasToken, Goto, TypeOK, RejectEvaluation, AppendEvaluation,
               StageEvaluation, Withhold, Claim, Lookup, RejectIssuance, AppendIssuance,
               StageIssuance, DropStagedIssuance
      <3>2. \/ UNCHANGED chain
            \/ AppendStores(EvaluationRecord(c))
            \/ AppendStores(IssuanceRecord(c))
        BY <1>6, <2>2
           DEF CallStep, RejectEvaluation, AppendEvaluation, StageEvaluation, Withhold, Claim,
               Lookup, RejectIssuance, AppendIssuance, StageIssuance, DropStagedIssuance,
               evidenceVars, AppendReportsOutage, AppendFindsDuplicate
      <3> QED
        BY <1>2, <1>3, <3>1, <3>2
    <2> QED
      BY <2>1, <2>2
  <1>7. ASSUME NEW g \in Gateways, Crash(g)
        PROVE  UNCHANGED <<Recorded, Handed>>
    <2>1. \A c \in Calls : HasToken(c)' <=> HasToken(c)
      BY <1>7 DEF Crash, HasToken, TypeOK, Ended, Outcomes
    <2> QED
      BY <1>2, <1>7, <2>1 DEF Crash
  <1>8. CASE UNCHANGED vars
    BY <1>2, <1>8 DEF vars, evidenceVars, pipelineVars, HasToken
  <1> QED
    BY <1>4, <1>5, <1>6, <1>7, <1>8 DEF Next

\* The pipeline implements the mint: an issuance is recorded once per decision
\* and a token handed out only under the record that names it.
THEOREM PipelineImplementsMintOnce == Spec => ImplementsMintOnce
  <1>1. Init => Mint!Init
    BY PipelineAssumption DEF Init, EvidenceInit, Mint!Init, RecordedIn, HasToken
  <1>2. MintInv /\ [Next]_vars => [Mint!Next]_<<Recorded, Handed>>
    BY StepRefinesMint
  <1> QED
    BY <1>1, <1>2, MintInvHolds, PTL DEF Spec, ImplementsMintOnce, Mint!Spec, Recorded, Handed
===============================================================================
