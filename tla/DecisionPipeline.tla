--------------------------- MODULE DecisionPipeline ---------------------------
(*****************************************************************************)
(* DecisionPipeline.evaluate with the mint it drives (TokenService.issue and *)
(* InMemoryIssuanceLedger.claim_recorded): evaluations on several gateways   *)
(* that share one evidence store, racing each other, the replays of          *)
(* Evidence, outages and gateway crashes.                                    *)
(*                                                                           *)
(* A call to evaluate() is a thread.  Its token, if it mints one, is named   *)
(* after it: a call generates at most one token id.  What the resolver       *)
(* decides is part of the request a call brings (Resolver models it).        *)
(*****************************************************************************)
EXTENDS Evidence, Verdicts

CONSTANTS
  Calls,         \* calls to evaluate(), each made once
  Decisions,     \* (tenant, decision_id) pairs
  TenantOf,      \* the tenant of a decision
  DecisionOf,    \* the decision a call is about
  Requests,      \* what the resolver may have said of a call
  None

\* infrastructure: some reason code of the resolution is an infrastructure one.
\* malformed: the record whose payload the schema will reject, if any.
Request == [mode : Modes, verdict : Verdicts, infrastructure : BOOLEAN,
            malformed : {"none", "evaluation", "issuance"}]

ASSUME PipelineAssumption ==
  /\ \A c \in Calls : GatewayOf[c] \in Gateways
  /\ \A d \in Decisions : TenantOf[d] \in Tenants
  /\ DecisionOf \in [Calls -> Decisions]
  /\ Requests \subseteq Request
  /\ None \notin Calls
  /\ Unappendable = {}

VARIABLES
  request,       \* what each call brings, fixed from the start
  pc,            \* how far each call has got, or how it ended
  ledger,        \* InMemoryIssuanceLedger._entries of each gateway
  holder         \* the call inside each gateway's ledger lock

pipelineVars == <<request, pc, ledger, holder>>
vars == <<evidenceVars, pipelineVars>>

\* TokenWithheld, and a token.
Outcomes == {"token", "verdict", "class_halted", "infrastructure_failure",
             "evaluation_unrecorded", "issuance_unrecorded", "issuance_refused"}
InsideLock == {"lookup", "append_issuance", "stage_issuance", "drop_issuance"}
Ended == Outcomes \cup {"crashed"}
PCs == {"start", "stage_evaluation", "recorded", "sign"} \cup InsideLock \cup Ended

TenantOfCall(c) == TenantOf[DecisionOf[c]]

\* The evaluation record has a generated id; the issuance record's id is derived
\* from its decision, so any two calls about one decision name the same record.
EvaluationRecord(c) == [tenant |-> TenantOfCall(c), id |-> <<"evaluation", c>>, call |-> c]
IssuanceId(d) == <<"token_issued", d>>
IssuanceKey(d) == <<TenantOf[d], IssuanceId(d)>>
IssuanceRecord(c) ==
  [tenant |-> TenantOfCall(c), id |-> IssuanceId(DecisionOf[c]), call |-> c]

Ids == ({"evaluation"} \X Calls) \cup ({"token_issued"} \X Decisions)
Record == {EvaluationRecord(c) : c \in Calls} \cup {IssuanceRecord(c) : c \in Calls}

TypeOK ==
  /\ EvidenceTypeOK(Record, Ids)
  /\ request \in [Calls -> Requests]
  /\ pc \in [Calls -> PCs]
  /\ ledger \in [Gateways -> [Decisions -> Calls \cup {None}]]
  /\ holder \in [Gateways -> Calls \cup {None}]

Init ==
  /\ EvidenceInit
  /\ request \in [Calls -> Requests]
  /\ pc = [c \in Calls |-> "start"]
  /\ ledger = [g \in Gateways |-> [d \in Decisions |-> None]]
  /\ holder = [g \in Gateways |-> None]

Goto(c, label) == pc' = [pc EXCEPT ![c] = label]
Release(g) == holder' = [holder EXCEPT ![g] = None]

-------------------------------------------------------------------------------
(* The evaluation record comes first (_write_evaluation).                    *)

\* A payload the schema rejects is never written, and nothing is staged.
RejectEvaluation(c) ==
  /\ pc[c] = "start"
  /\ request[c].malformed = "evaluation"
  /\ Goto(c, "evaluation_unrecorded")
  /\ UNCHANGED <<evidenceVars, request, ledger, holder>>

AppendEvaluation(c) ==
  /\ pc[c] = "start"
  /\ request[c].malformed # "evaluation"
  /\ \/ AppendStores(EvaluationRecord(c)) /\ Goto(c, "recorded")
     \/ AppendReportsOutage(EvaluationRecord(c)) /\ Goto(c, "stage_evaluation")
  /\ UNCHANGED <<available, walVars, replay, request, ledger, holder>>

\* The writer stages and re-raises; a full log raises instead.  Either way the
\* response is overridden and there is no token.
StageEvaluation(c) ==
  /\ pc[c] = "stage_evaluation"
  /\ \/ Stage(GatewayOf[c], EvaluationRecord(c))
     \/ StageIsFull(GatewayOf[c], EvaluationRecord(c))
  /\ Goto(c, "evaluation_unrecorded")
  /\ UNCHANGED <<available, chain, replay, request, ledger, holder>>

-------------------------------------------------------------------------------
(* Whether a token may be minted at all.                                     *)

Withhold(c) ==
  /\ pc[c] = "recorded"
  /\ WithholdingReason(request[c]) # "none"
  /\ Goto(c, WithholdingReason(request[c]))
  /\ UNCHANGED <<evidenceVars, request, ledger, holder>>

-------------------------------------------------------------------------------
(* claim_recorded: the ledger's lock is held from the first look at the      *)
(* cache until the issuance record is durable or given up.                   *)

\* This process already recorded, or adopted, an issuance: refuse from the cache.
Claim(c) ==
  LET g == GatewayOf[c] IN
  /\ pc[c] = "recorded"
  /\ WithholdingReason(request[c]) = "none"
  /\ MintAccepts(request[c])
  /\ holder[g] = None
  /\ \/ /\ ledger[g][DecisionOf[c]] # None
        /\ Goto(c, "issuance_refused")
        /\ UNCHANGED holder
     \/ /\ ledger[g][DecisionOf[c]] = None
        /\ Goto(c, "lookup")
        /\ holder' = [holder EXCEPT ![g] = c]
  /\ UNCHANGED <<evidenceVars, request, ledger>>

\* recorded_issuance: an issuance this process did not write is adopted.  One
\* that has_record knows of and the read does not find is refused as unreadable.
Lookup(c) ==
  LET g == GatewayOf[c]
      d == DecisionOf[c]
  IN
  /\ pc[c] = "lookup"
  /\ \/ /\ HasRecordSays(IssuanceKey(d), TRUE)
        /\ \/ \E i \in DOMAIN chain[TenantOf[d]] :
                /\ Key(chain[TenantOf[d]][i]) = IssuanceKey(d)
                /\ ledger' = [ledger EXCEPT ![g][d] = chain[TenantOf[d]][i].call]
           \/ ReadsMayLag /\ UNCHANGED ledger
        /\ Goto(c, "issuance_refused")
        /\ Release(g)
     \/ /\ HasRecordSays(IssuanceKey(d), FALSE)
        /\ Goto(c, "append_issuance")
        /\ UNCHANGED <<ledger, holder>>
  /\ UNCHANGED <<evidenceVars, request>>

\* The payload the schema rejects: nothing was staged, but the un-staging runs.
RejectIssuance(c) ==
  /\ pc[c] = "append_issuance"
  /\ request[c].malformed = "issuance"
  /\ Goto(c, "drop_issuance")
  /\ UNCHANGED <<evidenceVars, request, ledger, holder>>

\* Bug: a record the chain already holds is taken for this call's own.
AppendIssuanceAdopting(c) ==
  LET g == GatewayOf[c] IN
  /\ pc[c] = "append_issuance"
  /\ request[c].malformed # "issuance"
  /\ \/ /\ AppendStores(IssuanceRecord(c)) \/ AppendFindsDuplicate(IssuanceRecord(c))
        /\ ledger' = [ledger EXCEPT ![g][DecisionOf[c]] = c]
        /\ Goto(c, "sign")
        /\ Release(g)
     \/ /\ AppendReportsOutage(IssuanceRecord(c))
        /\ Goto(c, "stage_issuance")
        /\ UNCHANGED <<ledger, holder>>
  /\ UNCHANGED <<available, walVars, replay, request>>

\* The append is the claim: the store refuses a second record with this id.
AppendIssuance(c) ==
  LET g == GatewayOf[c] IN
  /\ pc[c] = "append_issuance"
  /\ request[c].malformed # "issuance"
  /\ \/ /\ AppendStores(IssuanceRecord(c))
        /\ ledger' = [ledger EXCEPT ![g][DecisionOf[c]] = c]
        /\ Goto(c, "sign")
        /\ Release(g)
     \/ /\ AppendFindsDuplicate(IssuanceRecord(c))
        /\ Goto(c, "issuance_refused")
        /\ Release(g)
        /\ UNCHANGED ledger
     \/ /\ AppendReportsOutage(IssuanceRecord(c))
        /\ Goto(c, "stage_issuance")
        /\ UNCHANGED <<ledger, holder>>
  /\ UNCHANGED <<available, walVars, replay, request>>

\* Bug: the outage is swallowed once the record is staged, and the mint goes on.
StageIssuanceAndMint(c) ==
  /\ pc[c] = "stage_issuance"
  /\ Stage(GatewayOf[c], IssuanceRecord(c))
  /\ Goto(c, "sign")
  /\ Release(GatewayOf[c])
  /\ UNCHANGED <<available, chain, replay, request, ledger>>

StageIssuance(c) ==
  /\ pc[c] = "stage_issuance"
  /\ \/ Stage(GatewayOf[c], IssuanceRecord(c))
     \/ StageIsFull(GatewayOf[c], IssuanceRecord(c))
  /\ Goto(c, "drop_issuance")
  /\ UNCHANGED <<available, chain, replay, request, ledger, holder>>

\* Bug: the issuance record of a withheld token is left to the replay.
KeepStagedIssuance(c) ==
  /\ pc[c] = "drop_issuance"
  /\ Goto(c, "issuance_unrecorded")
  /\ Release(GatewayOf[c])
  /\ UNCHANGED <<evidenceVars, request, ledger>>

\* Bug: the exception leaves the ledger locked.
DropStagedIssuanceLocked(c) ==
  /\ pc[c] = "drop_issuance"
  /\ Discard(GatewayOf[c], IssuanceKey(DecisionOf[c]))
  /\ Goto(c, "issuance_unrecorded")
  /\ UNCHANGED <<available, chain, replay, request, ledger, holder>>

\* _drop_staged_issuance, then the exception that releases the lock.
DropStagedIssuance(c) ==
  /\ pc[c] = "drop_issuance"
  /\ Discard(GatewayOf[c], IssuanceKey(DecisionOf[c]))
  /\ Goto(c, "issuance_unrecorded")
  /\ Release(GatewayOf[c])
  /\ UNCHANGED <<available, chain, replay, request, ledger>>

Sign(c) ==
  /\ pc[c] = "sign"
  /\ Goto(c, "token")
  /\ UNCHANGED <<evidenceVars, request, ledger, holder>>

-------------------------------------------------------------------------------
(* A gateway process dies: its calls, its replays, its ledger and its        *)
(* in-memory log with it.  Calls not yet made are made to its successor.     *)

Crash(g) ==
  /\ LoseLog(g)
  /\ replay' = [p \in Replayers |-> IF GatewayOf[p] = g THEN IdleReplay ELSE replay[p]]
  /\ pc' = [c \in Calls |-> IF GatewayOf[c] = g /\ pc[c] \notin Ended \cup {"start"}
                              THEN "crashed" ELSE pc[c]]
  /\ ledger' = [ledger EXCEPT ![g] = [d \in Decisions |-> None]]
  /\ Release(g)
  /\ UNCHANGED <<available, chain, request>>

-------------------------------------------------------------------------------

CallStep(c) ==
  \/ RejectEvaluation(c)
  \/ AppendEvaluation(c)
  \/ StageEvaluation(c)
  \/ Withhold(c)
  \/ Claim(c)
  \/ Lookup(c)
  \/ RejectIssuance(c)
  \/ AppendIssuance(c)
  \/ StageIssuance(c)
  \/ DropStagedIssuance(c)
  \/ Sign(c)

Next ==
  \/ SetAvailable /\ UNCHANGED pipelineVars
  \/ ReplayNext /\ UNCHANGED pipelineVars
  \/ \E c \in Calls : CallStep(c)
  \/ \E g \in Gateways : Crash(g)

Spec == Init /\ [][Next]_vars

\* A call that has begun runs on; nothing makes anyone begin one.
FairSpec == Spec /\ \A c \in Calls : WF_vars(pc[c] # "start" /\ CallStep(c))

-------------------------------------------------------------------------------
(* Properties.                                                               *)

HasToken(c) == pc[c] = "token"
IssuedIn(t, i) == chain[t][i].id[1] = "token_issued"

\* ADR-0008: a decision yields at most one token, whichever gateways evaluate
\* it, however often, and whatever crashed, lied or was replayed in between.
AtMostOneToken ==
  \A c, e \in Calls :
    HasToken(c) /\ HasToken(e) /\ DecisionOf[c] = DecisionOf[e] => c = e

\* INV-05 and FR-23: a token exists only behind a durable issuance record that
\* names it, which stands behind a durable evaluation record of the same call.
TokenIsRecorded ==
  \A c \in Calls : pc[c] \in {"sign", "token"} =>
    \E i, j \in DOMAIN chain[TenantOfCall(c)] :
      /\ i < j
      /\ chain[TenantOfCall(c)][i] = EvaluationRecord(c)
      /\ chain[TenantOfCall(c)][j] = IssuanceRecord(c)

\* A refused second mint names an issuance that is durable, and what a process
\* remembers of issuances is what the chain says.
RefusalNamesAnIssuance ==
  /\ \A c \in Calls : pc[c] = "issuance_refused" => InChain(IssuanceKey(DecisionOf[c]))
  /\ \A g \in Gateways : \A d \in Decisions :
       ledger[g][d] # None =>
         \E i \in DOMAIN chain[TenantOf[d]] :
           /\ chain[TenantOf[d]][i].id = IssuanceId(d)
           /\ chain[TenantOf[d]][i].call = ledger[g][d]

\* Withheld means withheld, in the log as well as in the return value: a log
\* holds an issuance record only while the call that failed to write it is
\* still inside the ledger's lock, about to drop it.
NoWithheldIssuanceInLog ==
  \A g \in Gateways : \A i \in Held(g) :
    journal[g][i].id[1] = "token_issued" =>
      /\ holder[g] # None
      /\ pc[holder[g]] = "drop_issuance"
      /\ journal[g][i] = IssuanceRecord(holder[g])

\* ADR-0016: a failure of the infrastructure mints nothing in any mode, and a
\* blocking mode mints for ALLOW only.
TokenIsWarranted ==
  \A c \in Calls : pc[c] \in {"sign", "token"} \cup InsideLock =>
    /\ ~request[c].infrastructure
    /\ request[c].mode # "halted"
    /\ request[c].mode = "enforce" => request[c].verdict = "ALLOW"

\* Every call that has begun ends with an outcome: the lock that spans the
\* write of the issuance record is given back on every path.
EveryCallAnswers == \A c \in Calls : (pc[c] # "start") ~> (pc[c] \in Ended)

\* The mint implements MintOnce: an issuance is recorded once per decision, and
\* a token is handed out only under the record that names it.
RecordedIn(s, d) ==
  LET at == {i \in DOMAIN s : s[i].id = IssuanceId(d)}
  IN IF at = {} THEN None ELSE s[CHOOSE i \in at : TRUE].call

Mint == INSTANCE MintOnce WITH
  Tokens <- Calls,
  Unrecorded <- None,
  recorded <- [d \in Decisions |-> RecordedIn(chain[TenantOf[d]], d)],
  handed <- {c \in Calls : HasToken(c)}

ImplementsMintOnce == Mint!Spec

\* tokens/nonce.py:334-336, of DUPLICATE_ISSUANCE: "it always names a decision
\* that genuinely was authorised once".
RecordedMeansAuthorised ==
  \A t \in Tenants : \A i \in DOMAIN chain[t] :
    IssuedIn(t, i) => pc[chain[t][i].call] # "issuance_unrecorded"
===============================================================================
