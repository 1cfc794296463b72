---------------------------- MODULE EvidenceProofs ----------------------------
(*****************************************************************************)
(* What every module that closes Evidence needs of its operations: they keep *)
(* the types, a chain only grows, and it never holds an id twice.            *)
(* R is the closing module's set of records and I its set of ids.            *)
(*****************************************************************************)
EXTENDS Evidence, TLAPS

\* Every record names one of the tenants and one of the ids.
WellFormed(R, I) == \A r \in R : r.tenant \in Tenants /\ r.id \in I

\* A record stands in the chain of the tenant it names.
OwnChain == \A t \in Tenants : \A i \in DOMAIN chain[t] : chain[t][i].tenant = t

ChainInv == OwnChain /\ NoDuplicateRecords

\* What is in a chain stays where it is (append-only evidence, Article III).
ChainGrows ==
  \A t \in Tenants : \A i \in DOMAIN chain[t] :
    i \in DOMAIN chain'[t] /\ chain'[t][i] = chain[t][i]

-------------------------------------------------------------------------------

\* The store's append puts one record at the end of its tenant's chain.
LEMMA AppendAddsAtEnd ==
  ASSUME NEW R, ChainTypeOK(R), NEW r \in R, r.tenant \in Tenants, AppendStores(r)
  PROVE  /\ chain' \in [Tenants -> Seq(R)]
         /\ \A t \in Tenants : t # r.tenant => chain'[t] = chain[t]
         /\ DOMAIN chain'[r.tenant] = DOMAIN chain[r.tenant] \cup {Len(chain[r.tenant]) + 1}
         /\ \A i \in DOMAIN chain[r.tenant] : chain'[r.tenant][i] = chain[r.tenant][i]
         /\ chain'[r.tenant][Len(chain[r.tenant]) + 1] = r
         /\ Len(chain[r.tenant]) + 1 \notin DOMAIN chain[r.tenant]
  <1> DEFINE s == chain[r.tenant]
  <1>1. s \in Seq(R) /\ Len(s) \in Nat /\ DOMAIN s = 1..Len(s)
    BY DEF ChainTypeOK
  <1>2. chain' = [chain EXCEPT ![r.tenant] = Append(s, r)]
    BY DEF AppendStores
  <1>3. /\ Append(s, r) \in Seq(R)
        /\ DOMAIN Append(s, r) = 1..(Len(s) + 1)
        /\ \A i \in 1..Len(s) : Append(s, r)[i] = s[i]
        /\ Append(s, r)[Len(s) + 1] = r
    BY <1>1
  <1>4. chain'[r.tenant] = Append(s, r)
    BY <1>2 DEF ChainTypeOK
  <1>5. \A t \in Tenants : t # r.tenant => chain'[t] = chain[t]
    BY <1>2 DEF ChainTypeOK
  <1>6. chain' \in [Tenants -> Seq(R)]
    BY <1>2, <1>3 DEF ChainTypeOK
  <1>7. 1..(Len(s) + 1) = 1..Len(s) \cup {Len(s) + 1}
    BY <1>1
  <1> QED
    BY <1>1, <1>3, <1>4, <1>5, <1>6, <1>7

LEMMA AppendKeepsChain ==
  ASSUME NEW R, ChainTypeOK(R), ChainInv, NEW r \in R, r.tenant \in Tenants, AppendStores(r)
  PROVE  ChainInv' /\ ChainGrows
  <1> USE AppendAddsAtEnd
  <1>1. ChainGrows
    BY DEF ChainGrows
  <1>2. OwnChain'
    BY DEF OwnChain, ChainInv
  <1>3. NoDuplicateRecords'
    <2> SUFFICES ASSUME NEW t \in Tenants, NEW i \in DOMAIN chain'[t], NEW j \in DOMAIN chain'[t],
                        chain'[t][i].id = chain'[t][j].id
                 PROVE  i = j
      BY DEF NoDuplicateRecords
    <2>1. CASE t # r.tenant
      BY <2>1 DEF ChainInv, NoDuplicateRecords
    <2>2. CASE t = r.tenant
      <3>1. \A k \in DOMAIN chain[t] : chain[t][k].id # r.id
        BY <2>2 DEF AppendStores, InChain, Key, ChainInv, OwnChain
      <3> QED
        BY <2>2, <3>1 DEF ChainInv, NoDuplicateRecords
    <2> QED
      BY <2>1, <2>2
  <1> QED
    BY <1>1, <1>2, <1>3 DEF ChainInv

\* What a record appended at position i of the journal of g is, and where.
LEMMA StageKeepsTypes ==
  ASSUME NEW R, LogTypeOK(R), NEW g \in Gateways, NEW r \in R, Stage(g, r)
  PROVE  /\ LogTypeOK(R)'
         /\ \A h \in Gateways : DOMAIN journal[h] \subseteq DOMAIN journal'[h]
  <1> DEFINE s == journal[g]
  <1>1. s \in Seq(R) /\ Len(s) \in Nat /\ DOMAIN s = 1..Len(s)
    BY DEF LogTypeOK
  <1>2. CASE UNCHANGED <<journal, pending>>
    BY <1>2 DEF Stage, LogTypeOK
  <1>3. CASE /\ journal' = [journal EXCEPT ![g] = Append(s, r)]
             /\ pending' = [pending EXCEPT ![g] = @ \cup {Len(s) + 1}]
    <2>1. /\ Append(s, r) \in Seq(R)
          /\ DOMAIN Append(s, r) = 1..(Len(s) + 1)
      BY <1>1
    <2>2. /\ journal' \in [Gateways -> Seq(R)]
          /\ journal'[g] = Append(s, r)
          /\ \A h \in Gateways : h # g => journal'[h] = journal[h]
      BY <1>3, <2>1 DEF LogTypeOK
    <2>3. \A h \in Gateways : DOMAIN journal[h] \subseteq DOMAIN journal'[h]
      <3> SUFFICES ASSUME NEW h \in Gateways PROVE DOMAIN journal[h] \subseteq DOMAIN journal'[h]
        OBVIOUS
      <3>1. CASE h = g
        BY <1>1, <2>1, <2>2, <3>1
      <3>2. CASE h # g
        BY <2>2, <3>2
      <3> QED
        BY <3>1, <3>2
    <2>4. /\ pending' \in [Gateways -> SUBSET (Nat \ {0})]
          /\ pending'[g] = pending[g] \cup {Len(s) + 1}
          /\ \A h \in Gateways : h # g => pending'[h] = pending[h]
      BY <1>1, <1>3 DEF LogTypeOK
    <2>5. quarantined' = quarantined
      BY DEF Stage
    <2>6. \A h \in Gateways : pending'[h] \cup quarantined'[h] \subseteq DOMAIN journal'[h]
      <3> SUFFICES ASSUME NEW h \in Gateways
                   PROVE  pending'[h] \cup quarantined'[h] \subseteq DOMAIN journal'[h]
        OBVIOUS
      <3>1. CASE h = g
        <4>1. Len(s) + 1 \in DOMAIN journal'[g]
          BY <1>1, <2>1, <2>2
        <4> QED
          BY <2>3, <2>4, <2>5, <3>1, <4>1 DEF LogTypeOK
      <3>2. CASE h # g
        BY <2>2, <2>4, <2>5, <3>2 DEF LogTypeOK
      <3> QED
        BY <3>1, <3>2
    <2> QED
      BY <2>2, <2>3, <2>4, <2>5, <2>6 DEF LogTypeOK
  <1> QED
    BY <1>2, <1>3 DEF Stage

\* Nothing that takes records out of a log, or sets them aside, adds any.
LEMMA DropKeepsTypes ==
  ASSUME NEW R, LogTypeOK(R), NEW g \in Gateways, UNCHANGED journal,
         NEW P, NEW Q, P \subseteq Held(g), Q \subseteq Held(g),
         pending' = [pending EXCEPT ![g] = P],
         quarantined' = [quarantined EXCEPT ![g] = Q]
  PROVE  LogTypeOK(R)'
  <1>1. Held(g) \subseteq Nat \ {0} /\ Held(g) \subseteq DOMAIN journal[g]
    BY DEF LogTypeOK, Held
  <1>2. /\ pending' \in [Gateways -> SUBSET (Nat \ {0})]
        /\ quarantined' \in [Gateways -> SUBSET (Nat \ {0})]
    BY <1>1 DEF LogTypeOK
  <1>3. \A h \in Gateways : h # g => pending'[h] = pending[h] /\ quarantined'[h] = quarantined[h]
    BY DEF LogTypeOK
  <1>4. pending'[g] = P /\ quarantined'[g] = Q
    BY DEF LogTypeOK
  <1>5. \A h \in Gateways : pending'[h] \cup quarantined'[h] \subseteq DOMAIN journal[h]
    BY <1>1, <1>3, <1>4 DEF LogTypeOK
  <1> QED
    BY <1>2, <1>5 DEF LogTypeOK

LEMMA QuarantineKeepsTypes ==
  ASSUME NEW R, LogTypeOK(R), NEW g \in Gateways, NEW k, Quarantine(g, k)
  PROVE  LogTypeOK(R)'
  <1>1. PICK i \in pending[g] :
          /\ pending' = [pending EXCEPT ![g] = pending[g] \ {i}]
          /\ quarantined' = [quarantined EXCEPT ![g] = quarantined[g] \cup {i}]
    BY DEF Quarantine
  <1>2. pending[g] \ {i} \subseteq Held(g) /\ quarantined[g] \cup {i} \subseteq Held(g)
    BY DEF Held
  <1> QED
    BY <1>1, <1>2, DropKeepsTypes DEF Quarantine

LEMMA DiscardKeepsTypes ==
  ASSUME NEW R, LogTypeOK(R), NEW g \in Gateways, NEW k, Discard(g, k)
  PROVE  LogTypeOK(R)'
  <1>1. /\ WithoutKeys(g, pending[g], {k}) \subseteq Held(g)
        /\ WithoutKeys(g, quarantined[g], {k}) \subseteq Held(g)
    BY DEF WithoutKeys, Held
  <1> QED
    BY <1>1, DropKeepsTypes DEF Discard

LEMMA LoseLogKeepsTypes ==
  ASSUME NEW R, LogTypeOK(R), NEW g \in Gateways, LoseLog(g)
  PROVE  LogTypeOK(R)'
  BY DEF LoseLog, LogTypeOK

\* The replay of p stays well typed when p moves to a well typed state of its
\* own and the journals do not change.
LEMMA ReplayMovesType ==
  ASSUME NEW I, ReplayTypeOK(I), NEW p \in Replayers, UNCHANGED journal,
         NEW s, replay' = [replay EXCEPT ![p] = s],
         s \in [pc : ReplayPCs, queue : SUBSET (Nat \ {0}), written : SUBSET (Tenants \X I)],
         s.queue \subseteq DOMAIN journal[GatewayOf[p]]
  PROVE  ReplayTypeOK(I)'
  <1>1. /\ replay' \in [Replayers -> [pc : ReplayPCs, queue : SUBSET (Nat \ {0}),
                                     written : SUBSET (Tenants \X I)]]
        /\ replay'[p] = s
        /\ \A q \in Replayers : q # p => replay'[q] = replay[q]
    BY DEF ReplayTypeOK
  <1> QED
    BY <1>1 DEF ReplayTypeOK

LEMMA WrittenKeepsTypes ==
  ASSUME NEW R, NEW I, WellFormed(R, I), LogTypeOK(R), ReplayTypeOK(I),
         NEW p \in Replayers, NEW i \in replay[p].queue, UNCHANGED journal, Written(p, i)
  PROVE  ReplayTypeOK(I)'
  <1> DEFINE s == [pc |-> "check", queue |-> replay[p].queue \ {i},
                   written |-> replay[p].written \cup {StagedKey(GatewayOf[p], i)}]
  <1>1. GatewayOf[p] \in Gateways /\ i \in DOMAIN journal[GatewayOf[p]]
    BY EvidenceAssumption DEF ReplayTypeOK
  <1>2. journal[GatewayOf[p]][i] \in R
    BY <1>1 DEF LogTypeOK
  <1>3. StagedKey(GatewayOf[p], i) \in Tenants \X I
    BY <1>2 DEF StagedKey, Key, WellFormed
  <1>4. s \in [pc : ReplayPCs, queue : SUBSET (Nat \ {0}), written : SUBSET (Tenants \X I)]
    BY <1>3 DEF ReplayTypeOK, ReplayPCs
  <1>5. replay' = [replay EXCEPT ![p] = s]
    BY DEF Written
  <1>6. s.queue \subseteq DOMAIN journal[GatewayOf[p]]
    BY DEF ReplayTypeOK
  <1> HIDE DEF s
  <1> QED
    BY <1>4, <1>5, <1>6, ReplayMovesType

\* One more: the moves of a replay that do not add to what it has written.
LEMMA PCMovesType ==
  ASSUME NEW I, ReplayTypeOK(I), NEW p \in Replayers, UNCHANGED journal,
         NEW pc \in ReplayPCs, replay' = [replay EXCEPT ![p].pc = pc]
  PROVE  ReplayTypeOK(I)'
  BY DEF ReplayTypeOK

LEMMA ReplayAppendKeepsTypes ==
  ASSUME NEW R, NEW I, WellFormed(R, I), EvidenceTypeOK(R, I), ChainInv,
         NEW p \in Replayers, ReplayAppend(p)
  PROVE  EvidenceTypeOK(R, I)' /\ ChainInv' /\ ChainGrows
  <1> USE DEF EvidenceTypeOK
  <1>1. PICK i \in replay[p].queue :
          LET r == journal[GatewayOf[p]][i] IN
          \/ AppendStores(r) /\ Written(p, i)
          \/ AppendFindsDuplicate(r) /\ Written(p, i)
          \/ /\ AppendReportsOutage(r) \/ AppendRejects(r)
             /\ replay' = [replay EXCEPT ![p].pc = "finish"]
    BY DEF ReplayAppend
  <1> DEFINE r == journal[GatewayOf[p]][i]
  <1>2. r \in R /\ r.tenant \in Tenants
    BY EvidenceAssumption DEF ReplayTypeOK, LogTypeOK, WellFormed
  <1>3. UNCHANGED <<available, journal, pending, quarantined>>
    BY DEF ReplayAppend
  <1>4. LogTypeOK(R)'
    BY <1>3 DEF LogTypeOK
  <1>5. ReplayTypeOK(I)'
    <2>1. CASE Written(p, i)
      BY <1>3, <2>1, WrittenKeepsTypes
    <2>2. CASE replay' = [replay EXCEPT ![p].pc = "finish"]
      BY <1>3, <2>2, PCMovesType DEF ReplayPCs
    <2> QED
      BY <1>1, <2>1, <2>2
  <1>6. AppendStores(r) \/ UNCHANGED chain
    BY <1>1 DEF AppendFindsDuplicate, AppendReportsOutage, AppendRejects
  <1>7. CASE AppendStores(r)
    <2> HIDE DEF r
    <2> QED
      BY <1>2, <1>3, <1>4, <1>5, <1>7, AppendAddsAtEnd, AppendKeepsChain DEF ChainTypeOK
  <1>8. CASE UNCHANGED chain
    BY <1>3, <1>4, <1>5, <1>8
       DEF ChainTypeOK, ChainInv, ChainGrows, OwnChain, NoDuplicateRecords
  <1> QED
    BY <1>6, <1>7, <1>8

LEMMA ReplayKeepsTypes ==
  ASSUME NEW R, NEW I, WellFormed(R, I), EvidenceTypeOK(R, I), ChainInv, ReplayNext
  PROVE  EvidenceTypeOK(R, I)' /\ ChainInv' /\ ChainGrows
  <1> USE DEF EvidenceTypeOK
  <1>1. PICK p \in Replayers : ReplayStart(p) \/ ReplayStep(p) \/ ReplayAbandoned(p)
    BY DEF ReplayNext
  <1>2. GatewayOf[p] \in Gateways
    BY EvidenceAssumption
  <1>3. CASE ReplayAppend(p)
    BY <1>3, ReplayAppendKeepsTypes
  <1>4. ASSUME UNCHANGED <<available, chain>>
        PROVE  ChainTypeOK(R)' /\ ChainInv' /\ ChainGrows
    BY <1>4 DEF ChainTypeOK, ChainInv, ChainGrows, OwnChain, NoDuplicateRecords
  <1>5. ASSUME UNCHANGED walVars
        PROVE  LogTypeOK(R)'
    BY <1>5 DEF LogTypeOK, walVars
  <1>6. CASE ReplayStart(p)
    <2> DEFINE s == [pc |-> "check", queue |-> pending[GatewayOf[p]], written |-> {}]
    <2>1. s \in [pc : ReplayPCs, queue : SUBSET (Nat \ {0}), written : SUBSET (Tenants \X I)]
      BY <1>2 DEF LogTypeOK, ReplayPCs
    <2>2. s.queue \subseteq DOMAIN journal[GatewayOf[p]]
      BY <1>2 DEF LogTypeOK
    <2>3. ReplayTypeOK(I)'
      <3>1. replay' = [replay EXCEPT ![p] = s] /\ UNCHANGED journal
        BY <1>6 DEF ReplayStart
      <3> HIDE DEF s
      <3> QED
        BY <2>1, <2>2, <3>1, ReplayMovesType
    <2> QED
      BY <1>4, <1>5, <1>6, <2>3 DEF ReplayStart, walVars
  <1>7. CASE ReplayCheck(p)
    <2>1. UNCHANGED <<available, chain, walVars>>
      BY <1>7 DEF ReplayCheck, walVars
    <2>2. PICK i \in replay[p].queue :
            Written(p, i) \/ replay' = [replay EXCEPT ![p].pc = "append"]
      BY <1>7 DEF ReplayCheck
    <2>3. ReplayTypeOK(I)'
      <3>1. CASE Written(p, i)
        BY <2>1, <3>1, WrittenKeepsTypes DEF walVars
      <3>2. CASE replay' = [replay EXCEPT ![p].pc = "append"]
        BY <2>1, <3>2, PCMovesType DEF walVars, ReplayPCs
      <3> QED
        BY <2>2, <3>1, <3>2
    <2> QED
      BY <1>4, <1>5, <2>1, <2>3
  <1>8. IdleReplay \in [pc : ReplayPCs, queue : SUBSET (Nat \ {0}), written : SUBSET (Tenants \X I)]
        /\ IdleReplay.queue \subseteq DOMAIN journal[GatewayOf[p]]
    BY DEF IdleReplay, ReplayPCs
  <1>9. CASE ReplayFinish(p)
    <2>1. LogTypeOK(R)'
      <3> DEFINE g == GatewayOf[p]
                 P == WithoutKeys(g, pending[g], replay[p].written)
      <3>1. P \subseteq pending[g]
        BY DEF WithoutKeys
      <3>2. pending' = [pending EXCEPT ![g] = P] /\ UNCHANGED <<journal, quarantined>>
        BY <1>9 DEF ReplayFinish
      <3> HIDE DEF P
      <3> QED
        BY <1>2, <3>1, <3>2 DEF LogTypeOK
    <2>2. ReplayTypeOK(I)'
      BY <1>8, <1>9, ReplayMovesType DEF ReplayFinish
    <2> QED
      BY <1>4, <1>9, <2>1, <2>2 DEF ReplayFinish
  <1>10. CASE ReplayAbandoned(p)
    <2>1. ReplayTypeOK(I)'
      BY <1>8, <1>10, ReplayMovesType DEF ReplayAbandoned
    <2> QED
      BY <1>4, <1>5, <1>10, <2>1 DEF ReplayAbandoned, walVars
  <1> QED
    BY <1>1, <1>3, <1>6, <1>7, <1>9, <1>10 DEF ReplayStep

-------------------------------------------------------------------------------
(* How a log moves: it shrinks, or one new record joins the end of its queue. *)

Shrinks(g) ==
  /\ journal'[g] = journal[g]
  /\ pending'[g] \subseteq pending[g]
  /\ Held(g)' \subseteq Held(g)

GrowsBy(g, r) ==
  LET n == Len(journal[g]) + 1 IN
  /\ ~HoldsKey(g, Key(r))
  /\ Cardinality(Held(g)) < MaxPending
  /\ journal'[g] = Append(journal[g], r)
  /\ pending'[g] = pending[g] \cup {n}
  /\ Held(g)' = Held(g) \cup {n}

LEMMA StageMoves ==
  ASSUME NEW R, LogTypeOK(R), NEW g \in Gateways, NEW r \in R,
         Stage(g, r) \/ StageIsFull(g, r), NEW h \in Gateways
  PROVE  Shrinks(h) \/ (h = g /\ GrowsBy(h, r))
  <1>1. CASE UNCHANGED walVars
    BY <1>1 DEF walVars, Shrinks, Held
  <1>2. CASE /\ ~HoldsKey(g, Key(r))
             /\ Cardinality(Held(g)) < MaxPending
             /\ journal' = [journal EXCEPT ![g] = Append(journal[g], r)]
             /\ pending' = [pending EXCEPT ![g] = pending[g] \cup {Len(journal[g]) + 1}]
             /\ UNCHANGED quarantined
    <2>1. CASE h # g
      BY <1>2, <2>1 DEF LogTypeOK, Shrinks, Held
    <2>2. CASE h = g
      <3>1. journal'[h] = Append(journal[g], r) /\ pending'[h] = pending[g] \cup {Len(journal[g]) + 1}
        BY <1>2, <2>2 DEF LogTypeOK
      <3>2. Held(h)' = Held(g) \cup {Len(journal[g]) + 1}
        BY <1>2, <2>2, <3>1 DEF Held
      <3> QED
        BY <1>2, <2>2, <3>1, <3>2 DEF GrowsBy
    <2> QED
      BY <2>1, <2>2
  <1> QED
    BY <1>1, <1>2 DEF Stage, StageIsFull, walVars

LEMMA QuarantineMoves ==
  ASSUME NEW R, LogTypeOK(R), NEW g \in Gateways, NEW k, Quarantine(g, k), NEW h \in Gateways
  PROVE  Shrinks(h) /\ Held(h)' = Held(h)
  BY DEF Quarantine, Shrinks, Held, LogTypeOK

LEMMA DiscardMoves ==
  ASSUME NEW R, LogTypeOK(R), NEW g \in Gateways, NEW k, Discard(g, k), NEW h \in Gateways
  PROVE  Shrinks(h) /\ \A i \in Held(h) \ Held(h)' : h = g /\ StagedKey(h, i) = k
  <1>1. CASE h # g
    BY <1>1 DEF Discard, Shrinks, Held, LogTypeOK
  <1>2. CASE h = g
    BY <1>2 DEF Discard, Shrinks, Held, LogTypeOK, WithoutKeys
  <1> QED
    BY <1>1, <1>2

LEMMA LoseLogMoves ==
  ASSUME NEW R, LogTypeOK(R), NEW g \in Gateways, LoseLog(g), NEW h \in Gateways
  PROVE  Shrinks(h) /\ (h # g => Held(h)' = Held(h))
  BY DEF LoseLog, Shrinks, Held, LogTypeOK

\* A replay takes out of a log only what it has seen durable.
LEMMA ReplayMoves ==
  ASSUME NEW R, LogTypeOK(R), ReplayNext, NEW h \in Gateways
  PROVE  /\ Shrinks(h)
         /\ \A i \in Held(h) \ Held(h)' :
              \E p \in Replayers : StagedKey(h, i) \in replay[p].written
  <1>1. PICK p \in Replayers : ReplayStart(p) \/ ReplayStep(p) \/ ReplayAbandoned(p)
    BY DEF ReplayNext
  <1>2. CASE UNCHANGED walVars
    BY <1>2 DEF walVars, Shrinks, Held
  <1>3. CASE ReplayFinish(p)
    <2>1. CASE h # GatewayOf[p]
      BY <1>3, <2>1 DEF ReplayFinish, LogTypeOK, Shrinks, Held
    <2>2. CASE h = GatewayOf[p]
      <3>1. /\ pending'[h] = WithoutKeys(h, pending[h], replay[p].written)
            /\ UNCHANGED <<journal, quarantined>>
        BY <1>3, <2>2 DEF ReplayFinish, LogTypeOK
      <3> QED
        BY <3>1 DEF WithoutKeys, Shrinks, Held
    <2> QED
      BY <2>1, <2>2
  <1> QED
    BY <1>1, <1>2, <1>3
       DEF ReplayStep, ReplayStart, ReplayCheck, ReplayAppend, ReplayAbandoned, walVars

\* A replay that moves in its loop: it notes a durable record, or changes its pc.
LEMMA ReplayAdvances ==
  ASSUME NEW I, ReplayTypeOK(I), ReplayNext, NEW q \in Replayers
  PROVE  \/ replay'[q] = replay[q]
         \/ replay'[q] = IdleReplay
         \/ replay'[q].queue = replay[q].queue /\ replay'[q].written = replay[q].written
         \/ replay'[q].queue = pending[GatewayOf[q]] /\ replay'[q].written = {}
         \/ \E i \in replay[q].queue :
              /\ replay'[q].queue = replay[q].queue \ {i}
              /\ replay'[q].written = replay[q].written \cup {StagedKey(GatewayOf[q], i)}
              /\ \/ InChain(StagedKey(GatewayOf[q], i)) /\ UNCHANGED chain
                 \/ AppendStores(journal[GatewayOf[q]][i])
  <1>1. PICK p \in Replayers : ReplayStart(p) \/ ReplayStep(p) \/ ReplayAbandoned(p)
    BY DEF ReplayNext
  <1>2. CASE q # p
    BY <1>1, <1>2 DEF ReplayStep, ReplayStart, ReplayCheck, ReplayAppend, ReplayFinish,
       ReplayAbandoned, Written, ReplayTypeOK
  <1>3. CASE q = p
    <2>1. CASE ReplayStart(p)
      BY <1>3, <2>1 DEF ReplayStart, ReplayTypeOK
    <2>2. CASE ReplayFinish(p) \/ ReplayAbandoned(p)
      BY <1>3, <2>2 DEF ReplayFinish, ReplayAbandoned, ReplayTypeOK
    <2>3. CASE ReplayCheck(p)
      BY <1>3, <2>3 DEF ReplayCheck, HasRecordSays, Written, ReplayTypeOK
    <2>4. CASE ReplayAppend(p)
      BY <1>3, <2>4 DEF ReplayAppend, AppendFindsDuplicate, Written, ReplayTypeOK, StagedKey
    <2> QED
      BY <1>1, <2>1, <2>2, <2>3, <2>4 DEF ReplayStep
  <1> QED
    BY <1>2, <1>3
===============================================================================
