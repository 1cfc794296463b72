------------------------------- MODULE HashChain -------------------------------
(*****************************************************************************)
(* The hash chain that makes stored evidence tamper-evident                  *)
(* (evidence/chain.py, and the store's append, verify and checkpoint):       *)
(* records are appended, the head is signed from time to time, storage loses,*)
(* reorders, repeats, alters and misfiles records, and the chain is judged.  *)
(*                                                                           *)
(* A digest is symbolic: the tuple of what it is taken over, so that two     *)
(* digests are equal exactly when their inputs are.  A signature is the      *)
(* tuple it covers.  Positions count from 1, sequence numbers from 0.        *)
(*****************************************************************************)
EXTENDS Integers, SequencesExt

CONSTANTS
  Tenants,
  Bodies,           \* a record's id and everything else in it but its links
  MaxRecords,       \* model bound on the records appended, over all tenants
  MaxFaults,        \* model bound on what happens to records at rest
  MaxCheckpoints    \* model bound on calls of checkpoint(), over all tenants

ASSUME HashChainAssumption ==
  /\ MaxRecords \in Nat
  /\ MaxFaults \in Nat
  /\ MaxCheckpoints \in Nat

VARIABLES
  chain,            \* what storage holds for each tenant
  accepted,         \* history: the records the store appended, per tenant
  heads,            \* heads read by calls of checkpoint() that have not signed yet
  checkpoints,      \* signed heads, with what they were signed over (history)
  faults,           \* how many faults there have been
  relinked          \* history: the tenants whose chain was rebuilt outside the store

vars == <<chain, accepted, heads, checkpoints, faults, relinked>>

GenesisSeq == 0
NoHash == <<>>
Unreadable == <<"unreadable">>      \* what is left of a digest that lost its form

Hash(r) == <<r.tenant, r.seq, r.body, r.prev>>
Sealed(r) == [tenant |-> r.tenant, seq |-> r.seq, body |-> r.body, prev |-> r.prev,
              hash |-> Hash(r)]

\* The records that append() makes of these bodies, one after another.
Linked(t, bodies) ==
  LET rec[n \in 1..Len(bodies)] ==
        Sealed([tenant |-> t, seq |-> GenesisSeq + n - 1, body |-> bodies[n],
                prev |-> IF n = 1 THEN NoHash ELSE rec[n - 1].hash])
  IN rec

BodiesOf(run) == [i \in DOMAIN run |-> run[i].body]

\* A record with its five fields.
IsRecord(r) ==
  /\ r = [tenant |-> r.tenant, seq |-> r.seq, body |-> r.body, prev |-> r.prev, hash |-> r.hash]
  /\ r.tenant \in Tenants
  /\ r.seq \in Nat
  /\ r.body \in Bodies

IsRun(run) == run \in Seq(Range(run)) /\ \A i \in DOMAIN run : IsRecord(run[i])

\* Every record of the run is what append() made of it at its place in t's chain.
IsLinked(t, run) ==
  \A i \in DOMAIN run :
    run[i] = Sealed([tenant |-> t, seq |-> GenesisSeq + i - 1, body |-> run[i].body,
                     prev |-> IF i = 1 THEN NoHash ELSE run[i - 1].hash])

TypeOK ==
  /\ chain \in [Tenants -> Range(chain)]
  /\ \A t \in Tenants : IsRun(chain[t])
  /\ accepted \in [Tenants -> Range(accepted)]
  /\ \A t \in Tenants : \A r \in accepted[t] : IsRecord(r) /\ r.tenant = t /\ r.hash = Hash(r)
  /\ \A h \in heads : h.tenant \in Tenants /\ h.seq \in Nat /\ IsRun(h.attested)
  /\ \A c \in checkpoints : c.tenant \in Tenants /\ c.seq \in Nat /\ IsRun(c.attested)
  /\ faults \in 0..MaxFaults
  /\ relinked \subseteq Tenants

Init ==
  /\ chain = [t \in Tenants |-> <<>>]
  /\ accepted = [t \in Tenants |-> {}]
  /\ heads = {}
  /\ checkpoints = {}
  /\ faults = 0
  /\ relinked = {}

-------------------------------------------------------------------------------
(* The store.                                                                *)

\* append(): seq and prev_record_hash come from the head as storage has it; an
\* id the store has seen is refused.
Appended(t, b) ==
  LET head == Last(chain[t]) IN
  Sealed(IF chain[t] = <<>>
         THEN [tenant |-> t, seq |-> GenesisSeq, body |-> b, prev |-> NoHash]
         ELSE [tenant |-> t, seq |-> head.seq + 1, body |-> b, prev |-> head.hash])

AppendRecord(t) ==
  /\ Cardinality(UNION {accepted[u] : u \in Tenants}) < MaxRecords
  /\ chain[t] # <<>> => Last(chain[t]).hash # Unreadable
  /\ \E b \in Bodies :
       /\ \A r \in accepted[t] : r.body # b
       /\ chain' = [chain EXCEPT ![t] = Append(@, Appended(t, b))]
       /\ accepted' = [accepted EXCEPT ![t] = @ \cup {Appended(t, b)}]
  /\ UNCHANGED <<heads, checkpoints, faults, relinked>>

\* checkpoint() reads the head, whatever it is, and lets go of the lock;
\* nothing for an empty chain.
ReadHead(t) ==
  /\ Cardinality(checkpoints \cup heads) < MaxCheckpoints
  /\ chain[t] # <<>>
  /\ Last(chain[t]).hash # Unreadable
  /\ heads' = heads \cup {[tenant |-> t, seq |-> Last(chain[t]).seq,
                           hash |-> Last(chain[t]).hash, attested |-> chain[t]]}
  /\ UNCHANGED <<chain, accepted, checkpoints, faults, relinked>>

\* create_checkpoint(): the head that was read is signed, wherever the chain is by now.
SignCheckpoint(t) ==
  /\ \E h \in heads :
       /\ h.tenant = t
       /\ heads' = heads \ {h}
       /\ checkpoints' = checkpoints \cup
            {[tenant |-> t, seq |-> h.seq, hash |-> h.hash,
              signature |-> <<t, h.seq, h.hash>>, attested |-> h.attested]}
  /\ UNCHANGED <<chain, accepted, faults, relinked>>

-------------------------------------------------------------------------------
(* verify_chain.                                                             *)

Verified == [ok |-> TRUE]
Broken(i, reason) == [ok |-> FALSE, at |-> i, reason |-> reason]

Seqs(run) == {run[i].seq : i \in DOMAIN run}
Repeated(run) == Cardinality(Seqs(run)) # Len(run)
Contiguous(run) ==
  /\ ~Repeated(run)
  /\ \A low \in Seqs(run) : (\A s \in Seqs(run) : low <= s) => Seqs(run) = low..(low + Len(run) - 1)

\* Bug: a gap is whatever is not contiguous.
DisorderByContiguity(run) ==
  IF Contiguous(run) THEN "sequence_out_of_order" ELSE "sequence_gap"

\* One label for the run: what is out of place at its first bad sequence number.
Disorder(run) ==
  IF Repeated(run) \/ Contiguous(run) THEN "sequence_out_of_order" ELSE "sequence_gap"

\* What is out of place between the record at i and the one before it.
BreakBetween(run, i) ==
  IF run[i].seq # run[i - 1].seq + 1 THEN Disorder(run)
  ELSE IF run[i].prev # run[i - 1].hash THEN "prev_hash_mismatch"
  ELSE "none"

\* What is out of place with the first record.
BreakAtStart(r, genesis) ==
  IF genesis /\ r.seq # GenesisSeq THEN "missing_genesis"
  ELSE IF r.seq = GenesisSeq /\ r.prev # NoHash THEN "prev_hash_mismatch"
  ELSE "none"

\* Bug: only the links are compared, not the content.
BreakAtByLinks(run, tenant, genesis, i) ==
  IF run[i].tenant # tenant THEN "tenant_mismatch"
  ELSE IF i = 1 THEN BreakAtStart(run[i], genesis)
  ELSE BreakBetween(run, i)

\* What is wrong with the record at i, judged against the one before it.
BreakAt(run, tenant, genesis, i) ==
  IF run[i].tenant # tenant THEN "tenant_mismatch"
  ELSE IF Hash(run[i]) # run[i].hash THEN "record_hash_mismatch"
  ELSE IF i = 1 THEN BreakAtStart(run[i], genesis)
  ELSE BreakBetween(run, i)

First(S) == CHOOSE i \in S : \A j \in S : i <= j

\* Structure is judged over the whole run before any record is compared.
VerifyChain(run, tenant, genesis) ==
  LET malformed == {i \in DOMAIN run : run[i].hash = Unreadable}
      bad == {i \in DOMAIN run : BreakAt(run, tenant, genesis, i) # "none"}
  IN IF malformed # {} THEN Broken(First(malformed), "malformed_record")
     ELSE IF bad # {} THEN Broken(First(bad), BreakAt(run, tenant, genesis, First(bad)))
     ELSE Verified

\* The n-th smallest member of a set of positions.
Nth(S, n) == CHOOSE i \in S : Cardinality({j \in S : j < i}) = n - 1

\* read(): the records whose sequence number is at least start, as they stand.
Read(t, start) ==
  LET selected == {i \in DOMAIN chain[t] : chain[t][i].seq >= start}
  IN [n \in 1..Cardinality(selected) |-> chain[t][Nth(selected, n)]]

\* Bug: a partial read is judged as a whole chain.
VerifyAnchored(t, start) == VerifyChain(Read(t, start), t, TRUE)

\* store.verify(): anchored exactly when the whole chain was asked for.
Verify(t, start) == VerifyChain(Read(t, start), t, start = GenesisSeq)

\* Bug: a checkpointed run is not required to begin at the beginning.
AgainstCheckpointUnanchored(t, c) ==
  LET run == Read(t, GenesisSeq)
      chained == VerifyChain(run, t, FALSE)
      at == {i \in DOMAIN run : run[i].seq = c.seq}
  IN IF c.signature # <<t, c.seq, c.hash>> THEN Broken(Len(run) + 1, "checkpoint_invalid")
     ELSE IF ~chained.ok THEN chained
     ELSE IF at = {} THEN Broken(Len(run) + 1, "truncated")
     ELSE IF run[First(at)].hash # c.hash THEN Broken(First(at), "checkpoint_mismatch")
     ELSE Verified

\* verify_against_checkpoint: the signature, the chain from its genesis, the
\* reach of the run, and the record that was signed.
AgainstCheckpoint(t, c) ==
  LET run == Read(t, GenesisSeq)
      chained == VerifyChain(run, t, TRUE)
      at == {i \in DOMAIN run : run[i].seq = c.seq}
  IN IF c.signature # <<t, c.seq, c.hash>> THEN Broken(Len(run) + 1, "checkpoint_invalid")
     ELSE IF ~chained.ok THEN chained
     ELSE IF at = {} THEN Broken(Len(run) + 1, "truncated")
     ELSE IF run[First(at)].hash # c.hash THEN Broken(First(at), "checkpoint_mismatch")
     ELSE Verified

-------------------------------------------------------------------------------
(* Storage: what becomes of records at rest.                                 *)

Becomes(t, run) ==
  /\ faults < MaxFaults
  /\ faults' = faults + 1
  /\ chain' = [chain EXCEPT ![t] = run]
  /\ UNCHANGED <<accepted, heads, checkpoints>>

Lose(t) ==
  \E i \in DOMAIN chain[t] : Becomes(t, RemoveAt(chain[t], i)) /\ UNCHANGED relinked

Reorder(t) ==
  \E i, j \in DOMAIN chain[t] :
    /\ i < j
    /\ Becomes(t, [chain[t] EXCEPT ![i] = chain[t][j], ![j] = chain[t][i]])
    /\ UNCHANGED relinked

Repeat(t) ==
  \E i \in DOMAIN chain[t] :
    Becomes(t, InsertAt(chain[t], i + 1, chain[t][i])) /\ UNCHANGED relinked

Alter(t) ==
  \E i \in DOMAIN chain[t] : \E b \in Bodies \ {chain[t][i].body} :
    Becomes(t, [chain[t] EXCEPT ![i].body = b]) /\ UNCHANGED relinked

Garble(t) ==
  \E i \in DOMAIN chain[t] :
    Becomes(t, [chain[t] EXCEPT ![i].hash = Unreadable]) /\ UNCHANGED relinked

\* A record of another chain takes the place of one here, or follows them all,
\* under its own tenant or relabelled.
Misfile(t) ==
  \E u \in Tenants \ {t} : \E j \in DOMAIN chain[u] : \E owner \in {t, u} :
  \E i \in 1..(Len(chain[t]) + 1) :
    LET r == [chain[u][j] EXCEPT !.tenant = owner] IN
    /\ Becomes(t, IF i > Len(chain[t]) THEN Append(chain[t], r) ELSE [chain[t] EXCEPT ![i] = r])
    /\ UNCHANGED relinked

\* The holder of the whole store rewrites a record, or drops one, and computes
\* every hash and link anew.
Relink(t) ==
  /\ chain[t] # <<>>
  /\ \/ \E i \in DOMAIN chain[t] : \E b \in Bodies :
          Becomes(t, Linked(t, [BodiesOf(chain[t]) EXCEPT ![i] = b]))
     \/ \E i \in DOMAIN chain[t] : Becomes(t, Linked(t, RemoveAt(BodiesOf(chain[t]), i)))
  /\ relinked' = relinked \cup {t}

\* Or rewrites one record under a hash of its own and leaves the links alone.
Resealed(t, r, b) == Sealed([tenant |-> t, seq |-> r.seq, body |-> b, prev |-> r.prev])

Reseal(t) ==
  /\ \E i \in DOMAIN chain[t] : \E b \in Bodies \ {chain[t][i].body} :
       Becomes(t, [chain[t] EXCEPT ![i] = Resealed(t, chain[t][i], b)])
  /\ relinked' = relinked \cup {t}

Fault(t) ==
  \/ Lose(t) \/ Reorder(t) \/ Repeat(t) \/ Alter(t)
  \/ Garble(t) \/ Misfile(t) \/ Relink(t) \/ Reseal(t)

Next == \E t \in Tenants : AppendRecord(t) \/ ReadHead(t) \/ SignCheckpoint(t) \/ Fault(t)

Spec == Init /\ [][Next]_vars

-------------------------------------------------------------------------------
(* Properties.                                                               *)

\* A verifier that accuses healthy evidence gets switched off: what the store
\* appended and storage kept verifies, read from any sequence number on, and
\* against every checkpoint signed on the way there.
Intact(t) ==
  /\ IsLinked(t, chain[t])
  /\ {chain[t][i] : i \in DOMAIN chain[t]} = accepted[t]

NoFalseAlarm ==
  \A t \in Tenants : Intact(t) =>
    /\ \A start \in GenesisSeq..Len(chain[t]) : Verify(t, start).ok
    /\ \A c \in checkpoints :
         c.tenant = t /\ IsPrefix(c.attested, chain[t]) => AgainstCheckpoint(t, c).ok

\* SEC-10, NFR-15: short of a chain rebuilt outside the store, a chain that
\* verifies holds only records the store appended for that tenant, each where
\* the store put it: nothing edited, misfiled, reordered, repeated or lost from
\* the front or the middle.
VerifiedIsAccepted ==
  \A t \in Tenants \ relinked : Verify(t, GenesisSeq).ok =>
    /\ \A i \in DOMAIN chain[t] : chain[t][i] \in accepted[t]
    /\ IsLinked(t, chain[t])

\* SEC-10: whatever happened since, rebuilding included, a chain that verifies
\* against a checkpoint still begins with what the checkpoint was signed over.
CheckpointPinsHistory ==
  \A c \in checkpoints : \A t \in Tenants :
    AgainstCheckpoint(t, c).ok =>
      /\ t = c.tenant
      /\ VerifyChain(c.attested, t, TRUE).ok => IsPrefix(c.attested, chain[t])

\* Two records of the run share a sequence number.
Twice(run) == \E i, j \in DOMAIN run : i # j /\ run[i].seq = run[j].seq

\* No sequence number is missing between two that are there.
AllPresent(run) == \A low, high \in Seqs(run) : \A n \in low..high : n \in Seqs(run)

\* A record comes after one with a greater sequence number.
Late(run) == \E i \in 2..Len(run) : run[i].seq < run[i - 1].seq

\* An operator branches on the reason and starts at the index.  The index is the
\* first place where the chain is not what append() makes, unless some record
\* cannot be read; a record named for its hash or its form is none the store
\* ever appended, for any tenant; a gap means a missing number and no
\* repetition, anywhere in the run; disorder means a repetition or, without one,
\* that all numbers are there and one is late.  The words of chain.py on
\* disorder, "all sequence numbers are present", go further, and do not hold
\* where a number came twice: <<0, 0, 2>> is reported as disorder too.
DiagnosisIsTrue ==
  \A t \in Tenants :
    LET run == chain[t]
        v == Verify(t, GenesisSeq)
    IN ~v.ok =>
       /\ v.reason # "malformed_record" =>
            /\ IsLinked(t, SubSeq(run, 1, v.at - 1))
            /\ ~IsLinked(t, SubSeq(run, 1, v.at))
       /\ v.reason \in {"record_hash_mismatch", "malformed_record"} =>
            \A u \in Tenants : run[v.at] \notin accepted[u]
       /\ v.reason = "sequence_gap" => ~AllPresent(run) /\ ~Twice(run)
       /\ v.reason = "sequence_out_of_order" => Twice(run) \/ (AllPresent(run) /\ Late(run))
=============================================================================
