# Neuroharness in TLA+

Neuroharness decides whether an agent's action may run. An action is evaluated, the
evaluation is recorded, an evaluation that may execute yields one token, and a broker
spends that token on one dispatch. This directory models the parts of
`src/neuroharness` that hold state or order steps, checks them with TLC on small
instances, and proves the most important of the properties with TLAPS for every instance.

Paths below are relative to `src/neuroharness/` unless they begin with `docs/` or `tests/`.

## Inventory

| Component | State | Operations | Who calls it |
| --- | --- | --- | --- |
| evidence store (`evidence/store.py`) | a chain of records and a set of ids per tenant, an availability switch, one lock | `append`, `read`, `has_record`, `verify`, `verify_against_checkpoint`, `checkpoint`, `set_available` | the writer, the replay, the pipeline |
| evidence writer (`evidence/store.py`) | none | `write` (append, stage on an outage, re-raise), `recover` | the pipeline, an operator's job |
| write-ahead log (`evidence/wal.py`) | a pending queue and a quarantine, bounded together, one lock that `replay` gives up while it talks to the store | `stage`, `replay`, `quarantine`, `discard`, `discard_all` | the writer, the pipeline, operators |
| hash chain (`evidence/chain.py`) | none | `compute_record_hash`, `verify_chain`, `create_checkpoint`, `verify_against_checkpoint` | the store, auditors |
| decision pipeline (`pipeline/decision.py`) | none of its own | `evaluate`: resolve, record, withhold or mint | the gateway |
| issuance ledger (`tokens/nonce.py`) | the issuance of each decision, one lock held across the write of the issuance record | `claim`, `claim_recorded` | the token service |
| token service (`tokens/service.py`) | none of its own | `issue`, `verify`, `consume` | the pipeline, brokers |
| nonce store, revocation list (`tokens/nonce.py`) | spent tokens with broker and time; revoked tokens and keys | `consume` (purge, look, insert or classify), `revoke_token`, `revoke_key` | the token service, operators |
| signers (`tokens/signer.py`) | an active key and the keys that verify | `rotate_to`, `retire`, `sign`, `verify` | the token service, operators |
| resolver (`resolve/`) | none | `resolve`: a real pass and, where it may differ, a shadow pass | the pipeline |
| agent response (`response/`) | none | projection of an outcome, `is_repairable` | the gateway |
| registry (`registry/`) | an immutable snapshot | loading, validation | the gateway |
| envelope and proposal (`envelope/`, `models/envelope.py`) | none | stripping, argument validation, context, freezing, the two digests of an envelope | the gateway, brokers |
| canonical form (`canonical/`) | none | `parse_json`, `canonicalize`, `digest_value`, `proposal_digest`, `envelope_digest` | everything that identifies a document |
| decision record model (`models/record.py`) | the state of an `Approval` | validation | the pipeline, an approval orchestrator |
| configuration, logging | none | settings, observation | everything |

The gateway, the broker, the policy engine, the critic bank and the approval
orchestrator are not built in the repository. Where the built code is only meaningful
with a caller, the caller is modelled by the calls the code's types allow, and its
actions are marked external in `PROJECT.json`.

Interactions: gateways are processes that share one evidence store, each with a
write-ahead log and an issuance ledger of its own; a tool call becomes an envelope, whose
two digests are what an approval and a token are about; `evaluate` calls the resolver, the
writer and the token service, whose ledger calls back into the pipeline
(`_IssuanceRecord`) to write the issuance record under the ledger's lock; a replay runs
beside all of that on the same store and log. Brokers share a nonce store.

What is hard here, and what makes each part correct:

* **Durability.** Outages between an append and a stage, appends that land and report
  failure, concurrent replays, operators editing the queue under a replay. Evidence is
  not lost, not duplicated, not reordered, not hoarded.
* **Minting.** Several gateways, ledgers that crash, look-ups that lag. At most one token
  per decision, never without its durable record, a lock given back on every path.
* **Spending.** Time passes inside `consume`, entries are purged, tokens and keys are
  withdrawn, modes and bundles change. One dispatch per decision.
* **Resolution.** Nine ordered guards and two passes. A further problem never moves the
  verdict towards execution; an approval answers one question only.
* **Governance.** A registry replaced in the middle of an evaluation, a document that is
  well formed and disarms a gate, a record that fails after its verdict is known. The class an
  action was looked up as is the one it is judged, minted, answered and resubmitted under.
* **Intake.** A call, an approver and a broker see the same document at three times and in three
  forms: a text, a frozen model, and what was read back of either of its encodings. They
  speak of one document, an approval means what was shown, a schema is wholly applied.
* **Audit.** Lost, reordered, repeated, altered, misfiled and rebuilt records. What
  verifies is what was appended; healthy chains are never accused.

`PROJECT.json` lists every hazard at its line with the properties that would catch it.

## Modules

| Module | Models | Composition |
| --- | --- | --- |
| `Verdicts` | `resolve/safety.py`, `Verdict`, `Mode`, `_withholding_reason`, the mint's own checks | shared operators |
| `Evidence` | store and write-ahead log: state, and one action per region under a lock | no `Next`; closed by the next two |
| `EvidenceLog` | `EvidenceWriter`, operators | extends `Evidence`; implements `DurableEvidence` |
| `DurableEvidence` | what store, writers and logs promise (ADR-0006, FR-23) | abstract specification |
| `DecisionPipeline` | `evaluate`, `_IssuanceRecord`, `claim_recorded`, crashes | extends `Evidence`, `Verdicts`; implements `MintOnce` |
| `MintOnce` | what minting promises (ADR-0026) | abstract specification |
| `TokenSpending` | `issue` with the in-memory claim, `verify`, `consume`, keys, revocation | extends `Verdicts`; implements `SpendOnce` |
| `SpendOnce` | what a token promises (ADR-0008, FR-22) | abstract specification |
| `Resolver` | `resolve`, `_resolve_pass`, `CriticOutcome`, `FactState` | pure operators |
| `RepairLoop` | one action across evaluations: gathering, resolving, repairing, approving | extends `Resolver` |
| `Registry` | `load_registry`, the rules of `registry/models.py`, templates and keys | extends `Resolver`; pure operators |
| `AgentResponse` | `project_evaluation_outcome`, `AgentResponse` | extends `Verdicts`; pure operators |
| `Gateway` | one action from look-up to answer and resubmission, under reloads | extends `Registry`, `AgentResponse` |
| `HashChain` | chain linking, verification, checkpoints, storage faults | on its own |
| `Canonical` | `canonical/jcs.py`, `canonical/digest.py`: reading, writing, identifying | pure operators |
| `Arguments` | `BoundedSchemaValidator` | extends `Canonical`; pure operators |
| `Intake` | one tool call from its text to the broker, with its approval | extends `Arguments` |
| `EvidenceProofs`, `EvidenceLogProofs`, `DecisionPipelineProofs`, `TokenSpendingProofs`, `RepairLoopProofs`, `GatewayProofs`, `IntakeProofs`, `HashChainProofs` | theorems | extend the module they are about |
| `MC*` | instances for TLC | |

### How state and actions correspond to the code

* **`Evidence`.** `chain[t]` is `_records[t]`; a record is its identity, and its link is
  its position (`HashChain` models the links). `append` is one critical section with
  four outcomes, so there are four operators: stores, finds a duplicate, reports an
  outage, rejects. `StoreMayLie` lets an append land and report an outage, and
  `ReadsMayLag` lets `has_record` miss a record: the protocol's obligations
  (`tokens/nonce.py:438-448`) and the tests' doubles (`IssuanceRecordLandsThenReportsFailure`,
  `StaleReadStore`, `LyingReadStore`, `_ForgetfulStore`) ask for both. `journal` is a history
  of what `stage` accepted; `_pending` and `_quarantined` are sets of positions in it.
  A replay is `ReplayStart` (the snapshot), `ReplayCheck` and `ReplayAppend` (one visit
  to the store each), `ReplayFinish` (the rewrite of the queue); it may also be abandoned.
* **`DecisionPipeline`.** A call is a thread with a program counter; a region under the
  ledger's lock runs from `Claim` to the action that releases `holder`. The token is
  named after its call. What the resolver said, and whether one of the two records will
  fail its schema, is the request a call brings, fixed from the start. A crash ends a gateway's calls and
  replays and empties its ledger and its log, which is the in-memory one. Only deployments
  with a write-ahead log are modelled.
* **`TokenSpending`.** `consume` is three steps: `Present` reads the clock, `Verify`,
  `Spend`. `MaxStall` bounds how long one call may take. `now` may be passed by the
  caller in the code; here it is the clock, in whole units, never backwards. A signer is
  immutable in the code; rotation is the publication of a new one. `live` and `uses` are history.
* **`DurableEvidence`** has no outage, thread, replay or quarantine. In `EvidenceLog`, `evidence` is
  `chain`, `promised` is `journal`, what is `owed` is what the log holds, queue and quarantine
  together, and `dropped` is what an operator discarded. An append that stores is
  `Record`, a stage that fits is `Promise`, the end of a replay is `Keep`, a discard is `Drop`;
  every other step is a stutter.
* **`SpendOnce`** has no clock, key, window or purge. In `TokenSpending`, `claimed` is the
  ledger, `dispatched` the first uses that were counted, and a call is pending from `Present` to
  its answer. A spend is `Dispatch`, `Repeat` or `Replay` by the answer it gives, a refused
  verification is `Refuse`, an accepted one and all of time and governance are stutters.
* **`Resolver`.** A reason code is a name and a subject, and the reason codes of a
  resolution are a set: their order and the explanations are left out. An unstated
  `repairable` is `FALSE`. `ResolvePass` has the code's nine steps in its order.
* **`RepairLoop`.** The request is assembled piece by piece so that "one more problem"
  is a step, and monotonicity an action property. Facts are built by the plain
  constructor, so an escalatable fact need not agree with its class
  (`validate_class_permission` runs only where a class policy is given). `Resubmit` is
  what `is_repairable` invites; the registry may have another entry by then.
* **`Registry`.** A document is its content, with a flag for each way its reading fails
  outright; a digest is the content it is of. `ClassIsSound` is one conjunct per rule of
  `ActionClass`, `Loads` one per check of the loader. In a template a kind or an id is a
  text or one placeholder, not a mixture; what a pattern or a length admits is the
  constants `Kinds` and `Identifiers`.
* **`AgentResponse`.** Counterexamples are a set of two sorts, typed and free text, since
  the code tells nothing else of them apart; the bound on their number is left out.
  `MaxReasonCodes` bounds the reason codes of the response and of the record alike.
* **`Gateway`.** The gateway itself is not built; its actions are the calls the parts
  allow, in the order their types force. The class is a snapshot taken at look-up
  (`Begin`); the mode of the decision's context is read again (`ModesNow`), which is what
  `_assert_mode_agrees` is for. `Evaluates` has the three ways out of `evaluate`: a
  mismatch, a record that cannot be written, a recorded outcome with or without a token.
  `FactIsRefused` is the `ConfigurationError` of `FactState.for_class`, after which the
  call ends without an answer. Each critic and each fact a class lists is stated once.
  The projection is given any mode, since its caller names one (`response/projection.py:124`),
  an `EvaluationOutcome` carries none and nothing compares the two; what a class in a rollout
  discloses is therefore the caller's to get right, and no property promises it. The `mode` of
  the model's outcome is what the record and the token bind. A key that a permissive registry does not
  list is not pursued: nothing in the repository says what policy it is resolved against.
* **`Canonical`.** A document is a function from paths to what stands there, so that all of
  parsing, writing, freezing and projecting is said pointwise. Members have no order (there is
  one canonical order), floats are counted in halves, strings are atoms of which some cannot
  be encoded, and a digest is the form it is taken over: SHA-256 is taken to be injective. A
  text is its first reading and what was written over it, which is what a repeated key is.
* **`Arguments`.** A schema is a function from paths to keywords, each with whether the
  evaluator can act on its value. A pattern is the set of strings it is found in; the choices of
  an `enum` are scalars. `Descends` is the recursion of `_check`.
* **`Intake`.** `Propose` is a call that stripping, the models, the validator and both digests let
  through; a refused call leaves nothing. `Churns` moves what the projection leaves
  out, `AsksOtherwise` what it names. An approval has the two digests of the code's `Approval`;
  the ask it carries is a history variable, what the approver was shown. An expired or
  superseded request ends as a rejected one does. The orchestrator and the broker are
  external: `Envelope` has `model_dump(mode="json")` keep every scalar (`envelope/wire.py:128`), so that
  an infinite float such as `1e400` is refused by canonicalisation; pydantic may be set to write it
  as null instead, which is the library's affair and not decided in this repository. `Evaluate` is FR-47's fresh evaluation, and `Execute` accepts either
  encoding of the envelope its token binds.
* **`HashChain`.** A digest is the tuple of its inputs, so distinct inputs have distinct
  digests; a signature is the tuple it covers. Storage may do to records at rest what
  the chain is there to notice, and whoever holds the whole store may rebuild a chain
  (`Relink`) or rewrite one record under a hash of its own (`Reseal`). `checkpoint()` reads
  the head under the lock and signs it after letting go (`evidence/store.py:413-423`), so
  `ReadHead` and `SignCheckpoint` are two steps, with a head in `heads` between them.
  Key ids, anchors and the domain separator are left out.

## Runs

| Run | Shows | Bounds, and why they are enough |
| --- | --- | --- |
| `evidence_log` | evidence is not duplicated, lost, reordered or hoarded; `DurableEvidence` implemented | two writers, two replays: the smallest number with two replays racing each other and a writer; log of two, one unappendable record, lying store, lagging reads |
| `evidence_recovery` | the queue drains | one replay, two writers; both reorderings of a poison record and a good one |
| `pipeline` | one token, always recorded, `MintOnce` implemented | three calls of one decision on two gateways, a replay, crashes at every step |
| `pipeline_liveness` | tokens are warranted, calls end | every combination of mode, verdict, infrastructure and malformed record that the withholding rule distinguishes; two calls |
| `pipeline_wedge` | **violation**: an issuance that was withheld becomes durable | the interleaving needs one call and one replay |
| `token_spending` | one dispatch per decision, `SpendOnce` implemented | two tokens of one decision and one of another, three threads of two brokers, `Lifetimes + MaxStall <= Retention + 1` tight; with a retention one shorter a forgotten token is spent twice within the time given |
| `token_governance` | refusals stand | one thread, every governing action, one warrant per way through `verify` |
| `token_retention` | **violation**: a spent token is forgotten while it can verify | a class lifetime longer than the retention |
| `repair_loop` | the resolver's properties | ten outcomes of two critics, six states of one fact, one harness failure, seven class entries, maximum budget 2 with a class that declares more |
| `gateway` | what the loader lets through is enough for the resolver, the mint and the response | five sound registries of one class in every mode and of three effects, 22 documents with one mistake each, a pinned digest; four answers of a critic, four statuses of a fact, one harness failure; maximum budget 2, so that the budget of 1 and of 2 both end |
| `intake` | gateway, approver and broker speak of one document | 27 calls: every kind of number, string and container once as an argument, deep nesting, claims, stray and repeated keys; five schemas, three of which cannot be wholly applied; bounds of 2 (`SafeBound`), 4 (`PlainBound`), 5 (`MaxDepth`) and 1 (`MaxStrippedKeys`), so that a value on each side of each occurs; three moves, enough for a change of the world between any two of proposing, asking, evaluating and executing, and one to undo it |
| `hash_chain` | the chain and its checkpoints tell damage from health | two tenants, four records, two faults of eight kinds, one checkpoint, read and signed in two steps: an append after a fault, a fault after a checkpoint and either between a head read and its signature all occur |

`MaxMoves`, `MaxStaged`, `MaxTime`, `MaxFaults`, `MaxRecords` and `MaxCheckpoints` bound the model only.
`CHECK_DEADLOCK FALSE` is set for `RepairLoop`, `HashChain` and `Intake`, where an action
really ends (a terminal verdict) or the bounds of the model are reached. The type
invariant of every component is proved.

Each property of a passing run has a mutant: an operator beside the definition, marked
"Bug:", that changes it as a plausible mistake would, under which the property fails.

### Fairness

A call that has begun runs on: weak fairness on each step of a call after its first
(`DecisionPipeline!FairSpec`) and of a writer and a replay (`EvidenceLog!FairSpec`),
since nothing in those functions waits for another thread except the locks, which
`EveryCallAnswers` shows are given back. Nothing makes anyone *begin* a call. Nothing in the
code calls `recover()` either, so that replays keep finishing is an assumption inside
`StagedDrains`, along with a store that stays up and a queue without unappendable records.
Crashes, outages, operators and time are never fair.

### Where the code and its words differ

* `tokens/nonce.py:334-336` says a refused issuance "always names a decision that
  genuinely was authorised once". `replay()` appends from a snapshot, so an issuance record that the
  pipeline drops meanwhile becomes durable although its token was withheld; the decision
  can never mint (run `pipeline_wedge`). Nothing unsafe follows: `AtMostOneToken` holds.
  A record quarantined during a replay is appended the same way, against `evidence/wal.py:32-34`.
* `tokens/nonce.py:219-225` says `_purge` drops entries no unexpired token can
  reach. The retention is a multiple of the store's own lifetime, a class's token lifetime has no
  upper bound (run `token_retention`). `TokenSpendingProofs` proves the claim under
  `ShortLived`, the condition the configuration would have to check. Without it a forgotten token could
  be spent again.
Observed while modelling, with no run about them:

* `registry/models.py:607` says every declared template "must render against the shared
  enumerations", checked at load. Only the kinds a template spells out are compared: a
  segment without a kind, or an id outside the catalogue, is found out when a lease is
  taken. What does render is canonical (`LeasesAreCanonical`).
* To the validator an object is a `dict` (`envelope/arguments.py:94`), while a `Proposal` holds its
  arguments frozen, as a mapping proxy: the arguments have to be validated as they were parsed
  or thawed, never as the model holds them. `Intake` validates them as parsed and as read back.
* An argument `1.0` is refused where the schema says `integer`, although a broker would accept it
  from the canonical form, which is `1`; the other way round nothing is lost
  (`ValidationSurvivesTheWire`). To an `enum`, `true` is `1` (`envelope/arguments.py:337-343`).
* The gateway refuses more than `MAX_STRIPPED_KEYS` stray keys (`models/envelope.py:262`), but
  `strip_context_keys` itself has no bound: the refusal comes when the context is built.
* FR-46 has an approval bound to the proposal digest; the projection leaves out the action id, the
  session and the tenant, so an approval of one action holds for the same ask in another.
* FR-48 asks for two humans behind an override; `Override.authorized_by` asks for two
  distinct principals, of whatever kind (`models/record.py`).
* In shadow, more reason codes than a record may hold (`models/record.py:583`) turn an action
  that would have run into an unrecorded abstention without a token (`UnrecordedTellsNothing`
  says it tells the agent nothing), although shadow is to change nothing (INV-11).
* A record quarantined while a replay has it in its snapshot is appended all the same
  (`evidence/wal.py:403`); a staged evaluation carries the verdict that was resolved although
  the response was overridden by a refused mint (`pipeline/decision.py:396`); a shadow `REPAIR`
  invites a resubmission of an action that has its token (`response/projection.py:181`);
  a fact that the loader accepted cannot be stated once its provider
  fails if its class may not escalate on it (`resolve/inputs.py:233`).
* The repository's `README.md:41` says that anything the harness cannot evaluate is fail-closed in
  every rollout mode, "no token, no execution". In shadow and advisory modes only
  infrastructure reasons withhold the token, not a missing fact; ADR-0016 words the rule
  that narrowly, and `InfrastructureMintsNothing` shows that the narrow rule holds.
* `resolve/resolver.py:151-153` says every denial carries whatever else was wrong. A
  denial at steps 1, 2 or 4 omits outstanding repairable failures; what could not be
  evaluated is always carried (`UnevaluatedIsRecorded`).
* `FR-33` (`docs/sdd/01-specification.md:231`) asks the loader to refuse a critic's mode looser than
  its class's; `registry/models.py:301-327` says why it does not. `NoGateIsDisarmed`
  therefore excepts critics the class itself declares shadow or advisory.
* `FR-35` (`docs/sdd/01-specification.md:233`) says a class of effect none or read is never
  repairable; the loader accepts a repair budget for it.
* `evidence/chain.py:28-31` says the result names the first index that does not verify; a
  record without structure is reported before an earlier one whose content was altered.
  No run shows it; what `DiagnosisIsTrue` says of the index excludes that label.
* `evidence/chain.py:161-162` says of `SEQUENCE_OUT_OF_ORDER` that all sequence numbers are
  present. A run whose numbers are 0, 0, 2 gets that label (`chain.py:334-338`) although 1 is
  gone: a repetition hides a loss. `DiagnosisIsTrue` claims what the code computes, a repetition or,
  without one, every number and one of them late.
* The same label, like `SEQUENCE_GAP`, is computed over the whole run: a foreign or misfiled
  record further on can make it a gap, of which `evidence/chain.py:159` says that at least one
  record was removed, although none was. `DiagnosisIsTrue` claims a missing number, not a loss.
* The mode a response is projected under is a parameter of `project_evaluation_outcome`
  (`response/projection.py:120-132`) that nothing compares with the mode that was evaluated: a
  mode read again after a promotion discloses what shadow may not.

## Proofs

All theorems hold for every value of the constants that meets the named assumptions.

* **`EvidenceProofs`** holds lemmas about `Evidence`'s actions, used by both modules that
  close it: uniqueness of ids, what each action preserves of logs and replays.
* **`EvidenceLogProofs`** proves each safety property of the run `evidence_log`. The inductive
  invariant adds to the properties that what a replay noted as written is in the
  chain (`WrittenStands`), that staged positions are distinct records, and what each program
  counter of a writer implies; without the first, `ReplayFinish` could drop a record nobody stored.
  `LogImplementsDurableEvidence` needs types and `WrittenStands` only: what leaves a log at the
  end of a replay is `Keep`, and the other departures are an operator's `Drop`.
* **`DecisionPipelineProofs`** proves the safety properties of the runs `pipeline` and
  `pipeline_liveness` and the refinement of `MintOnce`. The inductive invariant says who
  is inside each lock, that a call past its append has its record in the chain in the right
  place, and that ledgers repeat what chains say. `MintOnce` follows from
  uniqueness of ids: the abstract `recorded` is a function of the chain that only an append
  to an absent id changes.
* **`TokenSpendingProofs`** proves the properties of both runs. `OneActionEver` and
  `SpentTokensAreRemembered` assume `ShortLived`, that every lifetime plus `MaxStall` is at
  most `Retention + 1`; the invariant relates a call's moment, the token's expiry and the entry's age, so
  that a purge can only reach entries whose token no call in flight can still carry.
  `SpendingImplementsSpendOnce` follows: a first use finds no dispatch of its decision because
  the store has not forgotten one (`FirstUseIsFirst`) and the ledger let one token be minted, and
  an entry of the store is a dispatch. That a duplicate delivery is the
  broker's own retry (`DuplicatesAreRetries`) needs no condition.
* **`RepairLoopProofs`** proves every property of the run `repair_loop`. A pass of `resolve()`
  is a function of ten yes-or-no questions, a request with one more problem answers
  yes to more of them, and the function is monotone. The loop's bound needs an
  invariant that ties a resolution to its request; monotonicity is shown step by step, and the
  rest are promises about single requests.
* **`GatewayProofs`** proves every property of the run `gateway`. The inductive invariant
  says that the class an action holds was accepted by the loader, that the request states
  every critic of that class, that an outcome is the resolver's under that class's mode or
  an abstention nobody recorded, and that a response repeats its outcome. That every outcome
  can be answered (`OutcomesAreAnswerable`) rests on the resolver, which explains each verdict
  but `ALLOW`, and on the record, whose bound on reason codes is the response's. Nothing in it
  speaks of the registry now in force, which is why reloads cannot disturb it. Assumed:
  the types the documents' fields have (`GatewayAssumption`), that `None` is no value of
  the model (`NoneAssumption`), that the empty text is no resource kind.
* **`IntakeProofs`** proves every property of the run `intake`, for every set of texts and
  schemas, of any depth. A document is a function on paths, so most of it is pointwise. What
  is not: the validator stops below a value of the wrong type, and the least such ancestor of a
  governed path is itself reported, so without a violation everything is reached
  (`GovernedIsReached`); every token comes back from either encoding with the form it was sent in
  (`TokensComeBack`), and an argument comes back as itself or as the int its float was
  (`ParsedIsKept`); the projection of an envelope is its ask and the ancestors of its ask, which
  are objects in every envelope (`DigestsFollowTheAsk`). The invariants say that a call at
  hand was admitted, that an approval and a token each speak of an envelope that was made,
  and that no admitted argument is infinite, which rests on `Envelope` keeping what it is
  given. Assumed: an agent host sends an object, and a
  class's arguments are a closed object (`IntakeAssumption`). `Names` stands in for `STRING`
  in the proofs, because the provers do not know a literal for a string.

* **`HashChainProofs`** proves every property of the run `hash_chain`, for chains of any length
  under any number of faults. Inductive are the types, that a checkpoint was
  signed over the head it attests to, as is a head not signed yet, and that every digest in storage was taken by the store
  over a record it accepted, is unreadable, or names a tenant whose chain was rebuilt
  (`HashesAreTraced`): a fault moves digests about, and only `Relink` and `Reseal` make them. From there a
  record whose digest is its own was accepted as it stands; a run that verifies from its genesis
  is linked (`VerifiedIsLinked`); and, a digest being the tuple of its inputs, two linked runs
  that agree on one digest agree on all before it (`OneHashPinsAll`), which is what
  a checkpoint pins. The converse, that a linked chain verifies whole, from any start
  and against its own checkpoints, is `LinkedVerifies`. Before the first
  break every record is what `append()` makes and the one at the break is not
  (`LinkedUpToTheBreak`), so the index is exact. A record named for its hash or its form is
  accepted by no tenant, since what was accepted has its own hash, which is never unreadable. A gap or
  disorder is counting: a set of numbers without a hole is an interval, so what is not
  contiguous and repeats nothing misses one, and a run that is contiguous and ascends counts
  one by one, so one that is out of place has a record late. The prover has no induction
  over data; each of these takes the least position in doubt instead (`LeastNumber`), and
  `RebuildingEnds` shows in that way that `Linked`, a recursive function, is one.

Only model-checked: liveness (`StagedDrains`, `EveryCallAnswers`), which is out of the
prover's reach. `RecordedMeansAuthorised` and, without `ShortLived`, `SpentIsRemembered` are
false, as their runs show.

## Not modelled

The gateway, the broker, the policy engine, the critic bank and the approval orchestrator, which
are not built; configuration, dependency injection and logging, which are data and observation;
of the record model all but the two digests and state of an `Approval`, the bound on
reason codes and whether a record is well formed; of the signers the MAC, the registry of
algorithms and the payload. Member order, escapes and exponents of the canonical form are
data that no property tells apart. Deployments without a write-ahead log are left out.

## Plan

1. (done) `Evidence`, `EvidenceLog` with `DurableEvidence`, `DecisionPipeline` with `MintOnce`,
   `TokenSpending` with `SpendOnce`, `Resolver` with `RepairLoop`, `HashChain`, and their proofs.
2. (done) `Registry`, `AgentResponse` and `Gateway`, which closes them with the resolver,
   and their proofs.
3. (done) `Canonical`, `Arguments` and `Intake`, and their proofs.
4. A composition of `Resolver` with `DecisionPipeline`: the request of a call is what
   `Resolve` says rather than any request, and a record carries its verdict, so that a
   staged and replayed record can be compared with what the agent was told; `Gateway`'s
   `Evaluates` as the abstraction it implements.
5. A broker that spends what the pipeline mints over the envelope `Intake` binds:
   `DecisionPipeline`, `TokenSpending` and `Intake` over one token.
6. `DecisionPipeline` as an implementation of `DurableEvidence` too, where a crash drops
   what an in-memory log owes; `MintOnce` and `SpendOnce` composed over one token.
