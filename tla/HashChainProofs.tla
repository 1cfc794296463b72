---------------------------- MODULE HashChainProofs ---------------------------
(*****************************************************************************)
(* What the chain's verifier may be trusted with, for chains, checkpoints    *)
(* and faults of any number.                                                 *)
(*                                                                           *)
(* The argument: every digest that can be read was taken by the store, or by *)
(* whoever rebuilt the chain of the tenant it names (HashesAreTraced), so a  *)
(* record whose digest is its own was accepted as it stands; a chain that    *)
(* verifies repeats its sequence numbers and links from the genesis record   *)
(* on (VerifiedIsLinked); and a digest commits to the link before it, so two *)
(* linked chains that agree on one digest agree on everything before it      *)
(* (OneHashPinsAll).  Induction over positions is by the least one in doubt. *)
(*****************************************************************************)
EXTENDS HashChain, SequenceTheorems, FiniteSetTheorems, WellFoundedInduction, TLAPS

\* A digest that can be read was taken by the store over a record it accepted,
\* or names a tenant whose chain was rebuilt.
IsTracedIn(taken, rebuilt, h) ==
  \/ h = Unreadable
  \/ h[1] \in rebuilt
  \/ \E t \in Tenants : \E a \in taken[t] : a.hash = h

IsTraced(h) == IsTracedIn(accepted, relinked, h)

HashesAreTraced == \A t \in Tenants : \A i \in DOMAIN chain[t] : IsTraced(chain[t][i].hash)

\* A head that was read is the last record of the chain as it was read, and a
\* checkpoint was signed over the head of the chain it attests to.
CheckpointsAreHeads ==
  /\ \A h \in heads :
       /\ h.attested # <<>>
       /\ Last(h.attested).seq = h.seq
       /\ Last(h.attested).hash = h.hash
  /\ \A c \in checkpoints :
       /\ c.signature = <<c.tenant, c.seq, c.hash>>
       /\ c.attested # <<>>
       /\ Last(c.attested).seq = c.seq
       /\ Last(c.attested).hash = c.hash

IInv == TypeOK /\ HashesAreTraced /\ CheckpointsAreHeads

-------------------------------------------------------------------------------
(* Numbers and runs.                                                         *)

LEMMA LeastNumber ==
  ASSUME NEW T, T \subseteq Nat, T # {}
  PROVE  \E m \in T : \A n \in T : m <= n
<1>1. IsWellFoundedOn(OpToRel(<, Nat), Nat)
  BY NatLessThanWellFounded
<1>2. \E m \in T : \A n \in T : <<n, m>> \notin OpToRel(<, Nat)
  BY <1>1, WFMin
<1>3. OpToRel(<, Nat) = {ss \in Nat \X Nat : ss[1] < ss[2]}
  BY DEF OpToRel
<1>4. PICK m \in T : \A n \in T : <<n, m>> \notin {ss \in Nat \X Nat : ss[1] < ss[2]}
  BY <1>2, <1>3
<1>5. ASSUME NEW n \in T PROVE m <= n
  <2>1. m \in Nat /\ n \in Nat /\ <<n, m>> \in Nat \X Nat
    OBVIOUS
  <2>2. ~(<<n, m>>[1] < <<n, m>>[2])
    BY <1>4, <2>1
  <2> QED
    BY <2>1, <2>2
<1> QED
  BY <1>5

LEMMA FirstIsLeast ==
  ASSUME NEW T, T \subseteq Nat, T # {}
  PROVE  First(T) \in T /\ \A n \in T : First(T) <= n
BY LeastNumber DEF First

LEMMA RunShape ==
  ASSUME NEW run, IsRun(run)
  PROVE  /\ Len(run) \in Nat
         /\ DOMAIN run = 1..Len(run)
         /\ run \in Seq(Range(run))
         /\ \A i \in DOMAIN run : run[i] \in Range(run) /\ IsRecord(run[i])
BY DEF IsRun, Range

\* A sequence over a set of records is a run.
LEMMA RunOver ==
  ASSUME NEW S, \A r \in S : IsRecord(r), NEW run \in Seq(S)
  PROVE  IsRun(run) /\ \A i \in DOMAIN run : run[i] \in S
<1>1. run \in Seq(Range(run))
  BY SeqOfRange
<1>2. \A i \in DOMAIN run : run[i] \in S
  OBVIOUS
<1> QED
  BY <1>1, <1>2 DEF IsRun

LEMMA RemovedOver ==
  ASSUME NEW S, NEW s \in Seq(S), NEW i \in DOMAIN s
  PROVE  RemoveAt(s, i) \in Seq(S)
<1>1. /\ i \in 1..Len(s) /\ Len(s) \in Nat
      /\ \A j \in 1..(i - 1) : s[j] \in S
      /\ \A j \in (i + 1)..Len(s) : s[j] \in S
  OBVIOUS
<1>2. SubSeq(s, 1, i - 1) \in Seq(S)
  BY <1>1, SubSeqProperties
<1>3. SubSeq(s, i + 1, Len(s)) \in Seq(S)
  BY <1>1, SubSeqProperties
<1> QED
  BY <1>2, <1>3, ConcatProperties DEF RemoveAt

LEMMA InsertedOver ==
  ASSUME NEW S, NEW s \in Seq(S), NEW i \in 1..(Len(s) + 1), NEW e \in S
  PROVE  InsertAt(s, i, e) \in Seq(S)
<1>1. /\ i \in Int /\ Len(s) \in Nat
      /\ \A j \in 1..(i - 1) : s[j] \in S
      /\ \A j \in i..Len(s) : s[j] \in S
  OBVIOUS
<1>2. SubSeq(s, 1, i - 1) \in Seq(S)
  BY <1>1, SubSeqProperties
<1>3. SubSeq(s, i, Len(s)) \in Seq(S)
  BY <1>1, SubSeqProperties
<1>4. <<e>> \in Seq(S)
  OBVIOUS
<1>5. SubSeq(s, 1, i - 1) \o <<e>> \in Seq(S)
  BY <1>2, <1>4, ConcatProperties
<1> QED
  BY <1>3, <1>5, ConcatProperties DEF InsertAt

-------------------------------------------------------------------------------
(* Digests and links.                                                        *)

LEMMA HashesAreReadable ==
  ASSUME NEW r
  PROVE  Hash(r) # Unreadable /\ Hash(r)[1] = r.tenant
BY DEF Hash, Unreadable

\* A digest is taken over the whole record.
LEMMA HashIsInjective ==
  ASSUME NEW r, NEW s, IsRecord(r), IsRecord(s), r.hash = Hash(r), s.hash = Hash(s),
         r.hash = s.hash
  PROVE  r = s
<1>1. r.tenant = s.tenant /\ r.seq = s.seq /\ r.body = s.body /\ r.prev = s.prev
  BY DEF Hash
<1> QED
  BY <1>1 DEF IsRecord

\* What a linked run says of each of its records.
LEMMA LinkedRecord ==
  ASSUME NEW t, NEW run, IsRun(run), IsLinked(t, run), NEW i \in DOMAIN run
  PROVE  /\ run[i].tenant = t
         /\ run[i].seq = i - 1
         /\ run[i].hash = Hash(run[i])
         /\ i = 1 => run[i].prev = NoHash
         /\ i # 1 => run[i].prev = run[i - 1].hash
<1>1. run[i] = Sealed([tenant |-> t, seq |-> GenesisSeq + i - 1, body |-> run[i].body,
                       prev |-> IF i = 1 THEN NoHash ELSE run[i - 1].hash])
  BY DEF IsLinked
<1> DEFINE b == run[i].body
           p == IF i = 1 THEN NoHash ELSE run[i - 1].hash
<1>2. run[i] = [tenant |-> t, seq |-> GenesisSeq + i - 1, body |-> b, prev |-> p,
                hash |-> <<t, GenesisSeq + i - 1, b, p>>]
  BY <1>1 DEF Sealed, Hash
<1> HIDE DEF b
<1>3. run[i].tenant = t /\ run[i].seq = GenesisSeq + i - 1 /\ run[i].prev = p
      /\ run[i].body = b /\ run[i].hash = <<t, GenesisSeq + i - 1, b, p>>
  BY <1>2
<1>4. i \in Nat
  BY RunShape
<1> QED
  BY <1>3, <1>4 DEF Hash, GenesisSeq

-------------------------------------------------------------------------------
(* What verify_chain answers.                                                *)

\* Nothing is wrong with the record at i, judged against the one before it.
IsSound(run, t, genesis, i) ==
  /\ run[i].tenant = t
  /\ run[i].hash = Hash(run[i])
  /\ i = 1 => (genesis => run[i].seq = GenesisSeq) /\ (run[i].seq = GenesisSeq => run[i].prev = NoHash)
  /\ i # 1 => run[i].seq = run[i - 1].seq + 1 /\ run[i].prev = run[i - 1].hash

LEMMA SoundMeansNoBreak ==
  ASSUME NEW run, NEW t, NEW genesis \in BOOLEAN, NEW i
  PROVE  BreakAt(run, t, genesis, i) = "none" <=> IsSound(run, t, genesis, i)
<1>1. Disorder(run) \in {"sequence_out_of_order", "sequence_gap"}
  BY DEF Disorder
<1> QED
  BY <1>1 DEF BreakAt, BreakAtStart, BreakBetween, IsSound

\* Either all is well, or the verifier names a record that cannot be read, or
\* the first record with something wrong.
LEMMA VerifierAnswers ==
  ASSUME NEW run, NEW t, NEW genesis \in BOOLEAN, DOMAIN run \subseteq Nat
  PROVE  LET v == VerifyChain(run, t, genesis) IN
         /\ v.ok <=> \A i \in DOMAIN run : IsSound(run, t, genesis, i)
         /\ ~v.ok /\ v.reason # "malformed_record" =>
              /\ v.at \in DOMAIN run
              /\ v.reason = BreakAt(run, t, genesis, v.at)
              /\ v.reason # "none"
              /\ \A i \in DOMAIN run : i < v.at => IsSound(run, t, genesis, i)
<1> DEFINE malformed == {i \in DOMAIN run : run[i].hash = Unreadable}
           bad == {i \in DOMAIN run : BreakAt(run, t, genesis, i) # "none"}
           v == VerifyChain(run, t, genesis)
<1>1. bad = {i \in DOMAIN run : ~IsSound(run, t, genesis, i)}
  BY SoundMeansNoBreak
<1>2. malformed \subseteq bad
  BY <1>1, HashesAreReadable DEF IsSound
<1>3. CASE malformed # {}
  <2>1. v = Broken(First(malformed), "malformed_record")
    BY <1>3 DEF VerifyChain
  <2>2. ~v.ok /\ v.reason = "malformed_record"
    BY <2>1 DEF Broken
  <2>3. bad # {}
    BY <1>2, <1>3
  <2> QED
    BY <1>1, <2>2, <2>3
<1>4. CASE malformed = {} /\ bad # {}
  <2>1. v = Broken(First(bad), BreakAt(run, t, genesis, First(bad)))
    BY <1>4 DEF VerifyChain
  <2>2. ~v.ok /\ v.at = First(bad) /\ v.reason = BreakAt(run, t, genesis, First(bad))
    BY <2>1 DEF Broken
  <2>3. First(bad) \in bad /\ \A n \in bad : First(bad) <= n
    BY <1>4, FirstIsLeast
  <2>4. First(bad) \in Nat /\ First(bad) \in DOMAIN run
    BY <2>3
  <2>5. ASSUME NEW i \in DOMAIN run, i < First(bad) PROVE IsSound(run, t, genesis, i)
    <3>1. i \in Nat /\ ~(First(bad) <= i)
      BY <2>4, <2>5
    <3>2. i \notin bad
      BY <2>3, <3>1
    <3> QED
      BY <1>1, <3>2
  <2>6. ~\A i \in DOMAIN run : IsSound(run, t, genesis, i)
    BY <1>1, <1>4
  <2> HIDE DEF v, bad
  <2>7. BreakAt(run, t, genesis, First(bad)) # "none"
    BY <2>3 DEF bad
  <2> QED
    BY <2>2, <2>4, <2>5, <2>6, <2>7 DEF v
<1>5. CASE malformed = {} /\ bad = {}
  <2>1. v = Verified
    BY <1>5 DEF VerifyChain
  <2>2. v.ok
    BY <2>1 DEF Verified
  <2> QED
    BY <1>1, <1>5, <2>2
<1> QED
  BY <1>3, <1>4, <1>5

\* A run that verifies from its genesis is what append() would have made of it.
LEMMA VerifiedIsLinked ==
  ASSUME NEW t, NEW run, IsRun(run), VerifyChain(run, t, TRUE).ok
  PROVE  IsLinked(t, run)
<1>1. DOMAIN run = 1..Len(run) /\ Len(run) \in Nat
  BY RunShape
<1>2. \A i \in DOMAIN run : IsSound(run, t, TRUE, i)
  <2>1. DOMAIN run \subseteq Nat
    BY <1>1
  <2> QED
    BY <2>1, VerifierAnswers
<1> DEFINE T == {i \in DOMAIN run : run[i].seq # i - 1}
<1>3. T = {}
  <2> SUFFICES ASSUME T # {} PROVE FALSE
    OBVIOUS
  <2>0. T \subseteq Nat
    BY <1>1
  <2>1. PICK m \in T : \A n \in T : m <= n
    <3> HIDE DEF T
    <3> QED
      BY <2>0, LeastNumber
  <2>2. CASE m = 1
    BY <1>2, <2>1, <2>2 DEF IsSound, GenesisSeq
  <2>3. CASE m # 1
    <3>1. m - 1 \in DOMAIN run /\ m \in Nat /\ ~(m <= m - 1)
      BY <1>1, <2>3
    <3>2. m - 1 \notin T
      BY <2>1, <3>1
    <3>3. run[m - 1].seq = m - 2
      BY <3>1, <3>2
    <3>4. run[m].seq = run[m - 1].seq + 1
      BY <1>2, <2>3 DEF IsSound
    <3> QED
      BY <3>1, <3>3, <3>4
  <2> QED
    BY <2>2, <2>3
<1>4. ASSUME NEW i \in DOMAIN run
      PROVE  run[i] = Sealed([tenant |-> t, seq |-> GenesisSeq + i - 1, body |-> run[i].body,
                              prev |-> IF i = 1 THEN NoHash ELSE run[i - 1].hash])
  <2>1. run[i].seq = GenesisSeq + i - 1 /\ i \in Nat
    BY <1>1, <1>3 DEF GenesisSeq
  <2>2. run[i].prev = IF i = 1 THEN NoHash ELSE run[i - 1].hash
    BY <1>2, <1>3, <2>1 DEF IsSound, GenesisSeq
  <2>3. run[i].tenant = t /\ run[i].hash = Hash(run[i])
    BY <1>2 DEF IsSound
  <2>4. run[i] = [tenant |-> run[i].tenant, seq |-> run[i].seq, body |-> run[i].body,
                  prev |-> run[i].prev, hash |-> run[i].hash]
    BY RunShape DEF IsRecord
  <2> QED
    BY <2>1, <2>2, <2>3, <2>4 DEF Sealed, Hash
<1> QED
  BY <1>4 DEF IsLinked

\* Two linked runs that agree on one digest agree on every record up to it.
LEMMA OneHashPinsAll ==
  ASSUME NEW t, NEW run, NEW other, IsRun(run), IsRun(other),
         IsLinked(t, run), IsLinked(t, other),
         NEW n \in DOMAIN run, n \in DOMAIN other, run[n].hash = other[n].hash,
         NEW i \in 1..n
  PROVE  run[i] = other[i]
<1>1. /\ DOMAIN run = 1..Len(run) /\ Len(run) \in Nat
      /\ DOMAIN other = 1..Len(other) /\ Len(other) \in Nat
  BY RunShape
<1>2. n \in Nat /\ 1..n \subseteq DOMAIN run /\ 1..n \subseteq DOMAIN other
  BY <1>1
<1>3. ASSUME NEW j \in 1..n, run[j].hash = other[j].hash PROVE run[j] = other[j]
  <2>1. run[j].hash = Hash(run[j]) /\ other[j].hash = Hash(other[j])
    BY <1>2, LinkedRecord
  <2>2. IsRecord(run[j]) /\ IsRecord(other[j])
    BY <1>2, RunShape
  <2> QED
    BY <1>3, <2>1, <2>2, HashIsInjective
<1> DEFINE T == {k \in 0..(n - 1) : run[n - k].hash # other[n - k].hash}
<1>4. T = {}
  <2> SUFFICES ASSUME T # {} PROVE FALSE
    OBVIOUS
  <2>0. T \subseteq Nat
    BY <1>2
  <2>1. PICK m \in T : \A k \in T : m <= k
    <3> HIDE DEF T
    <3> QED
      BY <2>0, LeastNumber
  <2>2. m # 0 /\ m \in 0..(n - 1)
    BY <1>2
  <2>3. m - 1 \in 0..(n - 1) /\ ~(m <= m - 1) /\ n - (m - 1) = n - m + 1
    BY <1>2, <2>2
  <2>4. run[n - m + 1].hash = other[n - m + 1].hash
    BY <2>1, <2>3
  <2>5. n - m + 1 \in 1..n /\ n - m + 1 # 1 /\ (n - m + 1) - 1 = n - m
    BY <1>2, <2>2
  <2>6. run[n - m + 1] = other[n - m + 1]
    BY <1>3, <2>4, <2>5
  <2>7. /\ run[n - m + 1].prev = run[n - m].hash
        /\ other[n - m + 1].prev = other[n - m].hash
    BY <1>2, <2>5, LinkedRecord
  <2> QED
    BY <2>6, <2>7
<1>5. n - i \in 0..(n - 1) /\ n - (n - i) = i
  BY <1>2
<1>6. run[i].hash = other[i].hash
  BY <1>4, <1>5
<1> QED
  BY <1>3, <1>6

-------------------------------------------------------------------------------
(* What a read returns.                                                      *)

LEMMA NthOfInterval ==
  ASSUME NEW a \in Nat, NEW b \in Nat, NEW n \in 1..Cardinality(a..b)
  PROVE  Nth(a..b, n) = a + n - 1 /\ a + n - 1 \in a..b
<1>1. Cardinality(a..b) = IF a > b THEN 0 ELSE b - a + 1
  BY FS_Interval
<1>2. n \in Nat /\ n >= 1 /\ n <= b - a + 1 /\ a <= b
  BY <1>1
<1>3. ASSUME NEW i \in a..b PROVE Cardinality({j \in a..b : j < i}) = i - a
  <2>1. {j \in a..b : j < i} = a..(i - 1)
    OBVIOUS
  <2>2. Cardinality(a..(i - 1)) = i - a
    <3>1. a \in Int /\ i - 1 \in Int /\ i >= a
      OBVIOUS
    <3>2. Cardinality(a..(i - 1)) = IF a > i - 1 THEN 0 ELSE (i - 1) - a + 1
      BY <3>1, FS_Interval
    <3> QED
      BY <3>1, <3>2
  <2> QED
    BY <2>1, <2>2
<1>4. a + n - 1 \in a..b
  BY <1>2
<1>5. \A i \in a..b : Cardinality({j \in a..b : j < i}) = n - 1 <=> i = a + n - 1
  BY <1>2, <1>3
<1> QED
  BY <1>4, <1>5 DEF Nth

\* Where the records from start on are the last ones, a read returns them.
LEMMA ReadIsTail ==
  ASSUME NEW t, NEW start, IsRun(chain[t]), NEW k \in 0..Len(chain[t]),
         {i \in DOMAIN chain[t] : chain[t][i].seq >= start} = (k + 1)..Len(chain[t])
  PROVE  /\ DOMAIN Read(t, start) = 1..(Len(chain[t]) - k)
         /\ \A n \in 1..(Len(chain[t]) - k) : Read(t, start)[n] = chain[t][k + n]
<1> DEFINE last == Len(chain[t])
           selected == (k + 1)..last
<1>1. last \in Nat /\ k \in Nat /\ k <= last
  BY RunShape
<1>2. Cardinality(selected) = last - k
  <2>1. k + 1 \in Int /\ last \in Int
    BY <1>1
  <2>2. Cardinality(selected) = IF k + 1 > last THEN 0 ELSE last - (k + 1) + 1
    BY <2>1, FS_Interval
  <2> QED
    BY <1>1, <2>2
<1>3. \A n \in 1..(last - k) : Nth(selected, n) = k + n
  <2>1. k + 1 \in Nat /\ last \in Nat
    BY <1>1
  <2>2. \A n \in 1..Cardinality(selected) : Nth(selected, n) = (k + 1) + n - 1
    BY <2>1, NthOfInterval
  <2> QED
    BY <1>1, <1>2, <2>2
<1>4. Read(t, start) = [n \in 1..Cardinality(selected) |-> chain[t][Nth(selected, n)]]
  BY DEF Read
<1> QED
  BY <1>2, <1>3, <1>4

\* A read from the genesis on is the chain.
LEMMA ReadAll ==
  ASSUME NEW t, IsRun(chain[t])
  PROVE  Read(t, GenesisSeq) = chain[t]
<1>1. /\ DOMAIN chain[t] = 1..Len(chain[t])
      /\ Len(chain[t]) \in Nat
      /\ chain[t] \in Seq(Range(chain[t]))
      /\ \A i \in DOMAIN chain[t] : chain[t][i].seq \in Nat
  BY RunShape DEF IsRecord
<1>2. {i \in DOMAIN chain[t] : chain[t][i].seq >= GenesisSeq} = (0 + 1)..Len(chain[t])
  BY <1>1 DEF GenesisSeq
<1>3. 0 \in 0..Len(chain[t])
  BY <1>1
<1>4. /\ DOMAIN Read(t, GenesisSeq) = 1..(Len(chain[t]) - 0)
      /\ \A n \in 1..(Len(chain[t]) - 0) : Read(t, GenesisSeq)[n] = chain[t][0 + n]
  BY <1>2, <1>3, ReadIsTail
<1>5. \A n \in 1..Len(chain[t]) : Read(t, GenesisSeq)[n] = chain[t][n]
  BY <1>1, <1>4
<1>6. DOMAIN Read(t, GenesisSeq) = DOMAIN chain[t]
  BY <1>1, <1>4
<1>7. Read(t, GenesisSeq) = [n \in DOMAIN Read(t, GenesisSeq) |-> Read(t, GenesisSeq)[n]]
  BY DEF Read
<1>8. chain[t] = [n \in DOMAIN chain[t] |-> chain[t][n]]
  BY <1>1
<1> QED
  BY <1>1, <1>5, <1>6, <1>7, <1>8

-------------------------------------------------------------------------------
(* The invariant gives the properties.                                       *)

\* A linked chain verifies, read from any sequence number on.
LEMMA LinkedVerifies ==
  ASSUME NEW t, IsRun(chain[t]), IsLinked(t, chain[t]), NEW start \in GenesisSeq..Len(chain[t])
  PROVE  Verify(t, start).ok
<1> DEFINE run == Read(t, start)
           last == Len(chain[t])
<1>1. /\ last \in Nat /\ start \in Nat /\ start <= last
      /\ DOMAIN chain[t] = 1..last
  BY RunShape DEF GenesisSeq
<1>2. {i \in DOMAIN chain[t] : chain[t][i].seq >= start} = (start + 1)..last
  <2>1. \A i \in 1..last : chain[t][i].seq = i - 1
    BY <1>1, LinkedRecord
  <2> QED
    BY <1>1, <2>1
<1>3. start \in 0..last
  BY <1>1
<1>4. /\ DOMAIN run = 1..(last - start)
      /\ \A n \in 1..(last - start) : run[n] = chain[t][start + n]
  BY <1>2, <1>3, ReadIsTail
<1>5. ASSUME NEW n \in DOMAIN run
      PROVE  IsSound(run, t, start = GenesisSeq, n)
  <2>1. /\ n \in Nat /\ n >= 1 /\ start + n \in DOMAIN chain[t]
        /\ run[n] = chain[t][start + n]
    BY <1>1, <1>4
  <2>2. /\ run[n].tenant = t
        /\ run[n].seq = (start + n) - 1
        /\ run[n].hash = Hash(run[n])
        /\ start + n = 1 => run[n].prev = NoHash
        /\ start + n # 1 => run[n].prev = chain[t][(start + n) - 1].hash
    BY <2>1, LinkedRecord
  <2>3. CASE n = 1
    BY <1>1, <2>1, <2>2, <2>3 DEF IsSound, GenesisSeq
  <2>4. CASE n # 1
    <3>1. n - 1 \in 1..(last - start) /\ start + (n - 1) = (start + n) - 1
      BY <1>1, <1>4, <2>1, <2>4
    <3>2. run[n - 1] = chain[t][(start + n) - 1] /\ (start + n) - 1 \in DOMAIN chain[t]
      BY <1>1, <1>4, <3>1
    <3>3. run[n - 1].seq = ((start + n) - 1) - 1
      BY <3>2, LinkedRecord
    <3> QED
      BY <1>1, <2>1, <2>2, <2>4, <3>2, <3>3 DEF IsSound
  <2> QED
    BY <2>3, <2>4
<1>6. DOMAIN run \subseteq Nat /\ (start = GenesisSeq) \in BOOLEAN
  BY <1>1, <1>4
<1> HIDE DEF run
<1>7. VerifyChain(run, t, start = GenesisSeq).ok
  BY <1>5, <1>6, VerifierAnswers
<1> QED
  BY <1>7 DEF run, Verify

\* A chain that begins with what a checkpoint attests to verifies against it.
LEMMA HonestCheckpointsVerify ==
  ASSUME TypeOK, CheckpointsAreHeads, NEW t \in Tenants, NEW c \in checkpoints, c.tenant = t,
         IsLinked(t, chain[t]), IsPrefix(c.attested, chain[t])
  PROVE  AgainstCheckpoint(t, c).ok
<1> DEFINE run == chain[t]
           n == Len(c.attested)
           at == {i \in DOMAIN run : run[i].seq = c.seq}
<1>1. /\ IsRun(run) /\ IsRun(c.attested)
      /\ c.signature = <<t, c.seq, c.hash>>
      /\ c.attested # <<>>
      /\ c.attested[n].seq = c.seq
      /\ c.attested[n].hash = c.hash
  BY DEF TypeOK, CheckpointsAreHeads, Last
<1>2. /\ DOMAIN run = 1..Len(run) /\ Len(run) \in Nat
      /\ DOMAIN c.attested = 1..n /\ n \in Nat /\ c.attested \in Seq(Range(c.attested))
  BY <1>1, RunShape
<1>3. n >= 1
  BY <1>1, <1>2, EmptySeq
<1>4. n <= Len(run) /\ SubSeq(c.attested, 1, n)[n] = SubSeq(run, 1, n)[n]
  BY DEF IsPrefix
<1>5. run[n] = c.attested[n] /\ n \in DOMAIN run
  <2>1. SubSeq(c.attested, 1, n)[n] = c.attested[n]
    BY <1>2, <1>3
  <2>2. SubSeq(run, 1, n)[n] = run[n]
    BY <1>2, <1>3, <1>4
  <2> QED
    BY <1>2, <1>3, <1>4, <2>1, <2>2
<1>6. at = {n}
  <2>1. \A i \in DOMAIN run : run[i].seq = i - 1 /\ i \in Nat
    BY <1>1, <1>2, LinkedRecord
  <2>2. run[n].seq = c.seq /\ n \in DOMAIN run /\ n \in Nat
    BY <1>1, <1>2, <1>5
  <2>3. c.seq = n - 1
    BY <2>1, <2>2
  <2>4. ASSUME NEW i \in DOMAIN run
        PROVE  run[i].seq = c.seq <=> i = n
    BY <2>1, <2>2, <2>3
  <2> HIDE DEF run, n
  <2> QED
    BY <2>2, <2>4
<1>7. First(at) = n
  BY <1>2, <1>6 DEF First
<1>8. VerifyChain(run, t, TRUE).ok
  <2>1. GenesisSeq \in GenesisSeq..Len(run)
    BY <1>2 DEF GenesisSeq
  <2>2. Verify(t, GenesisSeq).ok
    BY <1>1, <2>1, LinkedVerifies
  <2> QED
    BY <1>1, <2>2, ReadAll DEF Verify
<1>9. Read(t, GenesisSeq) = run
  BY <1>1, ReadAll
<1>10. AgainstCheckpoint(t, c) = Verified
  <2> HIDE DEF run
  <2> QED
    BY <1>1, <1>5, <1>6, <1>7, <1>8, <1>9 DEF AgainstCheckpoint
<1> QED
  BY <1>10 DEF Verified

LEMMA NoFalseAlarmFromInvariant ==
  ASSUME IInv
  PROVE  NoFalseAlarm
<1> SUFFICES ASSUME NEW t \in Tenants, Intact(t)
             PROVE  /\ \A start \in GenesisSeq..Len(chain[t]) : Verify(t, start).ok
                    /\ \A c \in checkpoints :
                         c.tenant = t /\ IsPrefix(c.attested, chain[t])
                           => AgainstCheckpoint(t, c).ok
  BY DEF NoFalseAlarm
<1>1. IsRun(chain[t]) /\ IsLinked(t, chain[t])
  BY DEF IInv, TypeOK, Intact
<1> QED
  BY <1>1, LinkedVerifies, HonestCheckpointsVerify DEF IInv

LEMMA AcceptedFromInvariant ==
  ASSUME IInv
  PROVE  VerifiedIsAccepted
<1> SUFFICES ASSUME NEW t \in Tenants \ relinked, Verify(t, GenesisSeq).ok
             PROVE  /\ \A i \in DOMAIN chain[t] : chain[t][i] \in accepted[t]
                    /\ IsLinked(t, chain[t])
  BY DEF VerifiedIsAccepted
<1>1. IsRun(chain[t])
  BY DEF IInv, TypeOK
<1>2. IsLinked(t, chain[t])
  BY <1>1, ReadAll, VerifiedIsLinked DEF Verify
<1>3. ASSUME NEW i \in DOMAIN chain[t] PROVE chain[t][i] \in accepted[t]
  <2> DEFINE r == chain[t][i]
  <2>1. r.tenant = t /\ r.hash = Hash(r) /\ IsRecord(r)
    BY <1>1, <1>2, LinkedRecord, RunShape
  <2>2. r.hash # Unreadable /\ r.hash[1] = t
    BY <2>1, HashesAreReadable
  <2>3. PICK u \in Tenants : \E a \in accepted[u] : a.hash = r.hash
    BY <2>2 DEF IInv, HashesAreTraced, IsTraced, IsTracedIn
  <2>4. PICK a \in accepted[u] : a.hash = r.hash
    BY <2>3
  <2>5. IsRecord(a) /\ a.tenant = u /\ a.hash = Hash(a)
    BY DEF IInv, TypeOK
  <2>6. a = r
    BY <2>1, <2>4, <2>5, HashIsInjective
  <2> QED
    BY <2>1, <2>5, <2>6
<1> QED
  BY <1>2, <1>3

LEMMA PinnedFromInvariant ==
  ASSUME IInv
  PROVE  CheckpointPinsHistory
<1> SUFFICES ASSUME NEW c \in checkpoints, NEW t \in Tenants, AgainstCheckpoint(t, c).ok
             PROVE  /\ t = c.tenant
                    /\ VerifyChain(c.attested, t, TRUE).ok => IsPrefix(c.attested, chain[t])
  BY DEF CheckpointPinsHistory
<1> DEFINE run == chain[t]
           n == Len(c.attested)
           at == {i \in DOMAIN run : run[i].seq = c.seq}
<1>1. /\ IsRun(run) /\ IsRun(c.attested)
      /\ c.signature = <<c.tenant, c.seq, c.hash>>
      /\ c.attested # <<>>
      /\ c.attested[n].seq = c.seq
      /\ c.attested[n].hash = c.hash
  BY DEF IInv, TypeOK, CheckpointsAreHeads, Last
<1>2. Read(t, GenesisSeq) = run
  BY <1>1, ReadAll
<1>3. /\ c.signature = <<t, c.seq, c.hash>>
      /\ VerifyChain(run, t, TRUE).ok
      /\ at # {}
      /\ run[First(at)].hash = c.hash
  <2> HIDE DEF run
  <2> QED
    BY <1>2 DEF AgainstCheckpoint, Broken
<1>4. t = c.tenant
  BY <1>1, <1>3
<1>5. ASSUME VerifyChain(c.attested, t, TRUE).ok PROVE IsPrefix(c.attested, run)
  <2>1. /\ DOMAIN run = 1..Len(run) /\ Len(run) \in Nat /\ run \in Seq(Range(run))
        /\ DOMAIN c.attested = 1..n /\ n \in Nat /\ c.attested \in Seq(Range(c.attested))
    BY <1>1, RunShape
  <2>2. IsLinked(t, run) /\ IsLinked(t, c.attested)
    BY <1>1, <1>3, <1>5, VerifiedIsLinked
  <2>3. n >= 1
    BY <1>1, <2>1, EmptySeq
  <2>4. c.seq = n - 1
    BY <1>1, <2>1, <2>2, <2>3, LinkedRecord
  <2>5. First(at) = n /\ n \in DOMAIN run
    <3>1. \A i \in DOMAIN run : run[i].seq = i - 1 /\ i \in Nat
      BY <1>1, <2>1, <2>2, LinkedRecord
    <3>2. at = {n} /\ n \in DOMAIN run
      BY <1>3, <2>1, <2>4, <3>1
    <3> QED
      BY <2>1, <3>2 DEF First
  <2>6. n \in DOMAIN c.attested /\ c.attested[n].hash = run[n].hash
    <3>1. n \in DOMAIN c.attested
      BY <2>1, <2>3
    <3> HIDE DEF n, at
    <3> QED
      BY <1>1, <1>3, <2>5, <3>1
  <2>7. \A i \in 1..n : c.attested[i] = run[i]
    <3> HIDE DEF run
    <3> QED
      BY <1>1, <2>2, <2>5, <2>6, OneHashPinsAll
  <2>8. n <= Len(run)
    BY <2>1, <2>5
  <2>9. SubSeq(c.attested, 1, n) = SubSeq(run, 1, n)
    <3>1. SubSeq(c.attested, 1, n) = [i \in 1..n |-> c.attested[i]]
      BY <2>1
    <3>2. SubSeq(run, 1, n) = [i \in 1..n |-> run[i]]
      BY <2>1, <2>8
    <3> QED
      BY <2>7, <3>1, <3>2
  <2> QED
    BY <2>8, <2>9 DEF IsPrefix
<1> QED
  BY <1>4, <1>5

-------------------------------------------------------------------------------
(* A chain rebuilt outside the store.                                        *)

\* One record made of b, linked to the one before it.
Rebuilt(t, f, bodies, n) ==
  Sealed([tenant |-> t, seq |-> GenesisSeq + n - 1, body |-> bodies[n],
          prev |-> IF n = 1 THEN NoHash ELSE f[n - 1].hash])

\* The recursion has a solution as far as len.
IsRebuilding(t, bodies, len) == \E f : f = [n \in 1..len |-> Rebuilt(t, f, bodies, n)]

LEMMA RebuildingEnds ==
  ASSUME NEW t, NEW bodies, NEW len \in Nat
  PROVE  IsRebuilding(t, bodies, len)
<1> DEFINE T == {m \in Nat : ~\E f : f = [n \in 1..m |-> Rebuilt(t, f, bodies, n)]}
<1>1. T = {}
  <2> SUFFICES ASSUME T # {} PROVE FALSE
    OBVIOUS
  <2>1. T \subseteq Nat
    OBVIOUS
  <2>2. PICK m \in T : \A n \in T : m <= n
    <3> HIDE DEF T
    <3> QED
      BY <2>1, LeastNumber
  <2>3. CASE m = 0
    <3> DEFINE f == [n \in 1..0 |-> NoHash]
    <3>1. f = [n \in 1..0 |-> Rebuilt(t, f, bodies, n)]
      <4>1. 1..0 = {}
        OBVIOUS
      <4> QED
        BY <4>1
    <3> HIDE DEF f
    <3> QED
      BY <2>3, <3>1
  <2>4. CASE m # 0
    <3>1. m \in Nat /\ m - 1 \in Nat /\ ~(m <= m - 1)
      BY <2>4
    <3>2. m - 1 \notin T
      BY <2>2, <3>1
    <3>3. PICK f : f = [n \in 1..(m - 1) |-> Rebuilt(t, f, bodies, n)]
      BY <3>1, <3>2
    <3> DEFINE g == [n \in 1..m |-> IF n = m THEN Rebuilt(t, f, bodies, m) ELSE f[n]]
    <3>4. ASSUME NEW n \in 1..m PROVE g[n] = Rebuilt(t, g, bodies, n)
      <4>1. n # 1 => n - 1 \in 1..m /\ n - 1 # m /\ g[n - 1] = f[n - 1]
        BY <3>1
      <4>2. Rebuilt(t, g, bodies, n) = Rebuilt(t, f, bodies, n)
        <5> HIDE DEF g
        <5> QED
          BY <4>1 DEF Rebuilt
      <4>3. CASE n = m
        BY <4>2, <4>3
      <4>4. CASE n # m
        <5>1. n \in 1..(m - 1) /\ g[n] = f[n]
          BY <3>1, <4>4
        <5>2. f[n] = Rebuilt(t, f, bodies, n)
          <6> HIDE DEF g
          <6> QED
            BY <3>3, <5>1
        <5> QED
          BY <4>2, <5>1, <5>2
      <4> QED
        BY <4>3, <4>4
    <3>5. g = [n \in 1..m |-> g[n]]
      OBVIOUS
    <3> HIDE DEF g
    <3>6. g = [n \in 1..m |-> Rebuilt(t, g, bodies, n)]
      BY <3>4, <3>5
    <3> QED
      BY <2>2, <3>6
  <2> QED
    BY <2>3, <2>4
<1> QED
  BY <1>1 DEF IsRebuilding

LEMMA LinkedDef ==
  ASSUME NEW t, NEW bodies, Len(bodies) \in Nat
  PROVE  Linked(t, bodies) =
           [n \in 1..Len(bodies) |-> Rebuilt(t, Linked(t, bodies), bodies, n)]
<1>1. Linked(t, bodies) = CHOOSE f : f = [n \in 1..Len(bodies) |-> Rebuilt(t, f, bodies, n)]
  BY DEF Linked, Rebuilt
<1>2. \E f : f = [n \in 1..Len(bodies) |-> Rebuilt(t, f, bodies, n)]
  <2>1. IsRebuilding(t, bodies, Len(bodies))
    BY RebuildingEnds
  <2> QED
    BY <2>1 DEF IsRebuilding
<1> QED
  BY <1>1, <1>2

\* A rebuilt chain is a run of its tenant's records, every digest among them.
LEMMA RebuiltIsTraced ==
  ASSUME NEW t \in Tenants, NEW bodies \in Seq(Bodies)
  PROVE  /\ IsRun(Linked(t, bodies))
         /\ \A i \in DOMAIN Linked(t, bodies) : Linked(t, bodies)[i].hash[1] = t
<1> DEFINE run == Linked(t, bodies)
<1>1. Len(bodies) \in Nat /\ \A n \in 1..Len(bodies) : bodies[n] \in Bodies
  OBVIOUS
<1>2. run = [n \in 1..Len(bodies) |-> Rebuilt(t, run, bodies, n)]
  BY <1>1, LinkedDef
<1> HIDE DEF run
<1>3. ASSUME NEW n \in 1..Len(bodies) PROVE IsRecord(run[n]) /\ run[n].hash[1] = t
  <2> DEFINE link == IF n = 1 THEN NoHash ELSE run[n - 1].hash
  <2>1. run[n] = Sealed([tenant |-> t, seq |-> GenesisSeq + n - 1, body |-> bodies[n], prev |-> link])
    BY <1>2 DEF Rebuilt
  <2> HIDE DEF link
  <2>2. run[n] = [tenant |-> t, seq |-> GenesisSeq + n - 1, body |-> bodies[n], prev |-> link,
                  hash |-> <<t, GenesisSeq + n - 1, bodies[n], link>>]
    BY <2>1 DEF Sealed, Hash
  <2>3. GenesisSeq + n - 1 \in Nat /\ bodies[n] \in Bodies
    BY <1>1 DEF GenesisSeq
  <2> QED
    BY <2>2, <2>3 DEF IsRecord
<1>4. DOMAIN run = 1..Len(bodies)
  BY <1>2
<1>5. run \in Seq(Range(run))
  <2>1. run \in [1..Len(bodies) -> Range(run)]
    BY <1>2, <1>4 DEF Range
  <2> QED
    BY <1>1, <2>1
<1> QED
  BY <1>3, <1>4, <1>5 DEF IsRun, run

LEMMA BodiesOfARun ==
  ASSUME NEW run, IsRun(run)
  PROVE  BodiesOf(run) \in Seq(Bodies) /\ DOMAIN BodiesOf(run) = DOMAIN run
<1>1. DOMAIN run = 1..Len(run) /\ Len(run) \in Nat /\ \A i \in DOMAIN run : run[i].body \in Bodies
  BY RunShape DEF IsRecord
<1>2. BodiesOf(run) \in [1..Len(run) -> Bodies]
  BY <1>1 DEF BodiesOf
<1> QED
  BY <1>1, <1>2

-------------------------------------------------------------------------------
(* The invariant is one.                                                     *)

LEMMA TracesLast ==
  ASSUME NEW h, IsTraced(h), relinked \subseteq relinked',
         \A t \in Tenants : accepted[t] \subseteq accepted'[t]
  PROVE  IsTracedIn(accepted', relinked', h)
BY DEF IsTraced, IsTracedIn

\* A tenant's chain becomes another run of traced records.
LEMMA NewRunKeepsInvariant ==
  ASSUME IInv, NEW t \in Tenants, NEW run, IsRun(run), chain' = [chain EXCEPT ![t] = run],
         \A i \in DOMAIN run : IsTracedIn(accepted', relinked', run[i].hash),
         relinked \subseteq relinked',
         \A u \in Tenants : accepted[u] \subseteq accepted'[u]
  PROVE  /\ chain' \in [Tenants -> Range(chain')]
         /\ \A u \in Tenants : IsRun(chain'[u])
         /\ HashesAreTraced'
<1>1. chain \in [Tenants -> Range(chain)] /\ \A u \in Tenants : IsRun(chain[u])
  BY DEF IInv, TypeOK
<1>2. chain'[t] = run /\ \A u \in Tenants \ {t} : chain'[u] = chain[u]
  BY <1>1
<1>3. chain' \in [Tenants -> Range(chain')]
  BY <1>1 DEF Range
<1>4. \A u \in Tenants : IsRun(chain'[u])
  BY <1>1, <1>2
<1>5. ASSUME NEW u \in Tenants, NEW i \in DOMAIN chain'[u] PROVE IsTracedIn(accepted', relinked', chain'[u][i].hash)
  <2>1. CASE u = t
    BY <1>2, <2>1
  <2>2. CASE u # t
    <3>1. i \in DOMAIN chain[u] /\ chain'[u][i] = chain[u][i]
      BY <1>2, <2>2
    <3>2. IsTraced(chain[u][i].hash)
      BY <3>1 DEF IInv, HashesAreTraced
    <3> QED
      BY <3>1, <3>2, TracesLast
  <2> QED
    BY <2>1, <2>2
<1>6. HashesAreTraced'
  BY <1>5 DEF HashesAreTraced, IsTraced
<1> QED
  BY <1>3, <1>4, <1>6

\* The same of a fault, which touches neither what was accepted nor what was signed.
LEMMA FaultKeepsInvariant ==
  ASSUME IInv, NEW t \in Tenants, NEW run, IsRun(run), Becomes(t, run),
         relinked \subseteq relinked', relinked' \subseteq Tenants,
         \A i \in DOMAIN run : IsTracedIn(accepted', relinked', run[i].hash)
  PROVE  IInv'
<1>1. /\ chain' = [chain EXCEPT ![t] = run]
      /\ UNCHANGED <<accepted, heads, checkpoints>>
      /\ faults' \in 0..MaxFaults
  BY HashChainAssumption DEF Becomes, IInv, TypeOK
<1>2. /\ chain' \in [Tenants -> Range(chain')]
      /\ \A u \in Tenants : IsRun(chain'[u])
      /\ HashesAreTraced'
  BY <1>1, NewRunKeepsInvariant
<1>3. TypeOK'
  BY <1>1, <1>2 DEF IInv, TypeOK
<1>4. CheckpointsAreHeads'
  BY <1>1 DEF IInv, CheckpointsAreHeads
<1> QED
  BY <1>2, <1>3, <1>4 DEF IInv

\* A run put together from a set of traced records.
LEMMA RearrangedKeepsInvariant ==
  ASSUME IInv, NEW t \in Tenants, NEW S, \A r \in S : IsRecord(r) /\ IsTraced(r.hash),
         NEW run \in Seq(S), Becomes(t, run), UNCHANGED relinked
  PROVE  IInv'
<1>1. IsRun(run) /\ \A i \in DOMAIN run : run[i] \in S
  BY RunOver
<1>2. \A u \in Tenants : accepted[u] \subseteq accepted'[u]
  BY DEF Becomes
<1>3. \A i \in DOMAIN run : IsTracedIn(accepted', relinked', run[i].hash)
  BY <1>1, <1>2, TracesLast
<1>4. relinked \subseteq relinked' /\ relinked' \subseteq Tenants
  BY DEF IInv, TypeOK
<1> QED
  BY <1>1, <1>3, <1>4, FaultKeepsInvariant

\* What storage holds for a tenant.
LEMMA StoredRecords ==
  ASSUME IInv, NEW t \in Tenants
  PROVE  /\ IsRun(chain[t])
         /\ chain[t] \in Seq(Range(chain[t]))
         /\ \A r \in Range(chain[t]) : IsRecord(r) /\ IsTraced(r.hash)
<1>1. IsRun(chain[t])
  BY DEF IInv, TypeOK
<1>2. \A i \in DOMAIN chain[t] : IsTraced(chain[t][i].hash)
  BY DEF IInv, HashesAreTraced
<1> QED
  BY <1>1, <1>2, RunShape DEF Range

\* And with one more record.
LEMMA StoredWith ==
  ASSUME IInv, NEW t \in Tenants, NEW r, IsRecord(r), IsTraced(r.hash)
  PROVE  /\ chain[t] \in Seq(Range(chain[t]) \cup {r})
         /\ \A s \in Range(chain[t]) \cup {r} : IsRecord(s) /\ IsTraced(s.hash)
<1>1. chain[t] \in Seq(Range(chain[t]))
  BY StoredRecords
<1>2. chain[t] \in Seq(Range(chain[t]) \cup {r})
  BY <1>1, SeqMonotonic
<1> QED
  BY <1>2, StoredRecords

\* A record of a run, and one with another tenant, body or digest.
LEMMA ChangedRecords ==
  ASSUME IInv, NEW t \in Tenants, NEW i \in DOMAIN chain[t]
  PROVE  /\ IsRecord(chain[t][i]) /\ IsTraced(chain[t][i].hash)
         /\ \A b \in Bodies :
              /\ IsRecord([chain[t][i] EXCEPT !.body = b])
              /\ IsTraced([chain[t][i] EXCEPT !.body = b].hash)
         /\ \A u \in Tenants :
              /\ IsRecord([chain[t][i] EXCEPT !.tenant = u])
              /\ IsTraced([chain[t][i] EXCEPT !.tenant = u].hash)
         /\ IsRecord([chain[t][i] EXCEPT !.hash = Unreadable])
         /\ IsTraced([chain[t][i] EXCEPT !.hash = Unreadable].hash)
<1> DEFINE r == chain[t][i]
<1>1. IsRecord(r) /\ IsTraced(r.hash)
  BY StoredRecords, RunShape
<1> HIDE DEF r
<1>2. \E a, n, b, p, h : r = [tenant |-> a, seq |-> n, body |-> b, prev |-> p, hash |-> h]
  BY <1>1 DEF IsRecord
<1>3. ASSUME NEW b \in Bodies
      PROVE  IsRecord([r EXCEPT !.body = b]) /\ [r EXCEPT !.body = b].hash = r.hash
  BY <1>1, <1>2 DEF IsRecord
<1>4. ASSUME NEW u \in Tenants
      PROVE  IsRecord([r EXCEPT !.tenant = u]) /\ [r EXCEPT !.tenant = u].hash = r.hash
  BY <1>1, <1>2 DEF IsRecord
<1>5. IsRecord([r EXCEPT !.hash = Unreadable]) /\ [r EXCEPT !.hash = Unreadable].hash = Unreadable
  BY <1>1, <1>2 DEF IsRecord
<1>6. IsTraced(Unreadable)
  BY DEF IsTraced, IsTracedIn
<1> QED
  BY <1>1, <1>3, <1>4, <1>5, <1>6 DEF r

LEMMA AppendedRecord ==
  ASSUME IInv, NEW t \in Tenants, NEW b \in Bodies
  PROVE  /\ IsRecord(Appended(t, b))
         /\ Appended(t, b).tenant = t
         /\ Appended(t, b).hash = Hash(Appended(t, b))
<1> DEFINE n == IF chain[t] = <<>> THEN GenesisSeq ELSE Last(chain[t]).seq + 1
           link == IF chain[t] = <<>> THEN NoHash ELSE Last(chain[t]).hash
<1>1. n \in Nat
  <2>1. CASE chain[t] = <<>>
    BY <2>1 DEF GenesisSeq
  <2>2. CASE chain[t] # <<>>
    <3>1. chain[t] \in Seq(Range(chain[t])) /\ IsRun(chain[t])
      BY StoredRecords
    <3>2. Len(chain[t]) \in DOMAIN chain[t]
      BY <2>2, <3>1, EmptySeq, RunShape
    <3>3. Last(chain[t]).seq \in Nat
      BY <3>1, <3>2, RunShape DEF IsRecord, Last
    <3> QED
      BY <2>2, <3>3
  <2> QED
    BY <2>1, <2>2
<1>2. Appended(t, b) = Sealed([tenant |-> t, seq |-> n, body |-> b, prev |-> link])
  BY DEF Appended
<1> HIDE DEF n, link
<1>3. Appended(t, b) = [tenant |-> t, seq |-> n, body |-> b, prev |-> link,
                        hash |-> <<t, n, b, link>>]
  BY <1>2 DEF Sealed, Hash
<1> QED
  BY <1>1, <1>3 DEF IsRecord, Hash

LEMMA AppendKeepsInvariant ==
  ASSUME IInv, NEW t \in Tenants, AppendRecord(t)
  PROVE  IInv'
<1>1. PICK b \in Bodies :
        /\ chain' = [chain EXCEPT ![t] = Append(chain[t], Appended(t, b))]
        /\ accepted' = [accepted EXCEPT ![t] = accepted[t] \cup {Appended(t, b)}]
  BY DEF AppendRecord
<1> DEFINE r == Appended(t, b)
           S == Range(chain[t]) \cup {r}
<1>2. UNCHANGED <<heads, checkpoints, faults, relinked>>
  BY DEF AppendRecord
<1>3. IsRecord(r) /\ r.tenant = t /\ r.hash = Hash(r)
  BY AppendedRecord
<1> HIDE DEF r
<1>4. accepted \in [Tenants -> Range(accepted)]
  BY DEF IInv, TypeOK
<1>5. /\ accepted'[t] = accepted[t] \cup {r}
      /\ \A u \in Tenants \ {t} : accepted'[u] = accepted[u]
      /\ accepted' \in [Tenants -> Range(accepted')]
  BY <1>1, <1>4 DEF Range, r
<1>6. \A u \in Tenants : accepted[u] \subseteq accepted'[u]
  BY <1>5
<1>7. chain[t] \in Seq(S) /\ Append(chain[t], r) \in Seq(S)
  <2>1. chain[t] \in Seq(S)
    BY StoredRecords, SeqMonotonic
  <2> QED
    BY <2>1, AppendProperties
<1>8. \A s \in S : IsRecord(s) /\ IsTracedIn(accepted', relinked', s.hash)
  <2>1. ASSUME NEW s \in Range(chain[t])
        PROVE  IsRecord(s) /\ IsTracedIn(accepted', relinked', s.hash)
    BY <1>2, <1>6, StoredRecords, TracesLast
  <2>2. IsTracedIn(accepted', relinked', r.hash)
    BY <1>5 DEF IsTracedIn
  <2> QED
    BY <1>3, <2>1, <2>2
<1>9. IsRun(Append(chain[t], r))
      /\ \A i \in DOMAIN Append(chain[t], r) : Append(chain[t], r)[i] \in S
  <2> HIDE DEF S
  <2> QED
    BY <1>7, <1>8, RunOver
<1>10. /\ chain' \in [Tenants -> Range(chain')]
       /\ \A u \in Tenants : IsRun(chain'[u])
       /\ HashesAreTraced'
  <2>1. chain' = [chain EXCEPT ![t] = Append(chain[t], r)]
    BY <1>1 DEF r
  <2>2. \A i \in DOMAIN Append(chain[t], r) :
          IsTracedIn(accepted', relinked', Append(chain[t], r)[i].hash)
    BY <1>8, <1>9
  <2>3. relinked \subseteq relinked'
    BY <1>2
  <2> QED
    BY <1>6, <1>9, <2>1, <2>2, <2>3, NewRunKeepsInvariant
<1>11. \A u \in Tenants : \A a \in accepted'[u] : IsRecord(a) /\ a.tenant = u /\ a.hash = Hash(a)
  BY <1>3, <1>5 DEF IInv, TypeOK
<1>12. TypeOK'
  BY <1>2, <1>5, <1>10, <1>11 DEF IInv, TypeOK
<1>13. CheckpointsAreHeads'
  BY <1>2 DEF IInv, CheckpointsAreHeads
<1> QED
  BY <1>10, <1>12, <1>13 DEF IInv

LEMMA ReadingKeepsInvariant ==
  ASSUME IInv, NEW t \in Tenants, ReadHead(t)
  PROVE  IInv'
<1> DEFINE head == Last(chain[t])
           h == [tenant |-> t, seq |-> head.seq, hash |-> head.hash, attested |-> chain[t]]
<1>1. /\ heads' = heads \cup {h}
      /\ chain[t] # <<>>
      /\ UNCHANGED <<chain, accepted, checkpoints, faults, relinked>>
  BY DEF ReadHead
<1>2. IsRun(chain[t]) /\ chain[t] \in Seq(Range(chain[t]))
  BY StoredRecords
<1>3. head.seq \in Nat
  <2>1. Len(chain[t]) \in DOMAIN chain[t]
    BY <1>1, <1>2, EmptySeq, RunShape
  <2> QED
    BY <1>2, <2>1, RunShape DEF IsRecord, Last
<1>4. h.tenant = t /\ h.seq = head.seq /\ h.hash = head.hash /\ h.attested = chain[t]
  OBVIOUS
<1> HIDE DEF h
<1>5. TypeOK'
  BY <1>1, <1>2, <1>3, <1>4 DEF IInv, TypeOK
<1>6. CheckpointsAreHeads'
  BY <1>1, <1>4 DEF IInv, CheckpointsAreHeads
<1>7. HashesAreTraced'
  BY <1>1 DEF IInv, HashesAreTraced, IsTraced
<1> QED
  BY <1>5, <1>6, <1>7 DEF IInv

LEMMA SigningKeepsInvariant ==
  ASSUME IInv, NEW t \in Tenants, SignCheckpoint(t)
  PROVE  IInv'
<1>1. PICK h \in heads :
        /\ h.tenant = t
        /\ heads' = heads \ {h}
        /\ checkpoints' = checkpoints \cup
             {[tenant |-> t, seq |-> h.seq, hash |-> h.hash,
               signature |-> <<t, h.seq, h.hash>>, attested |-> h.attested]}
  BY DEF SignCheckpoint
<1> DEFINE c == [tenant |-> t, seq |-> h.seq, hash |-> h.hash,
                 signature |-> <<t, h.seq, h.hash>>, attested |-> h.attested]
<1>2. checkpoints' = checkpoints \cup {c} /\ UNCHANGED <<chain, accepted, faults, relinked>>
  BY <1>1 DEF SignCheckpoint
<1>3. /\ c.tenant = t /\ c.seq = h.seq /\ c.hash = h.hash
      /\ c.signature = <<t, h.seq, h.hash>> /\ c.attested = h.attested
  OBVIOUS
<1> HIDE DEF c
<1>4. TypeOK'
  BY <1>1, <1>2, <1>3 DEF IInv, TypeOK
<1>5. CheckpointsAreHeads'
  BY <1>1, <1>2, <1>3 DEF IInv, CheckpointsAreHeads
<1>6. HashesAreTraced'
  BY <1>2 DEF IInv, HashesAreTraced, IsTraced
<1> QED
  BY <1>4, <1>5, <1>6 DEF IInv

LEMMA FaultsKeepInvariant ==
  ASSUME IInv, NEW t \in Tenants, Fault(t)
  PROVE  IInv'
<1> DEFINE stored == Range(chain[t])
<1>1. /\ IsRun(chain[t])
      /\ chain[t] \in Seq(stored)
      /\ \A r \in stored : IsRecord(r) /\ IsTraced(r.hash)
  BY StoredRecords
<1>2. /\ Len(chain[t]) \in Nat /\ DOMAIN chain[t] = 1..Len(chain[t])
      /\ \A i \in DOMAIN chain[t] : chain[t][i] \in stored
  BY <1>1, RunShape
<1>3. CASE Lose(t)
  <2>1. PICK i \in DOMAIN chain[t] : Becomes(t, RemoveAt(chain[t], i)) /\ UNCHANGED relinked
    BY <1>3 DEF Lose
  <2>2. RemoveAt(chain[t], i) \in Seq(stored)
    BY <1>1, RemovedOver
  <2> QED
    BY <1>1, <2>1, <2>2, RearrangedKeepsInvariant
<1>4. CASE Reorder(t)
  <2>1. PICK i, j \in DOMAIN chain[t] :
          /\ Becomes(t, [chain[t] EXCEPT ![i] = chain[t][j], ![j] = chain[t][i]])
          /\ UNCHANGED relinked
    BY <1>4 DEF Reorder
  <2>2. [chain[t] EXCEPT ![i] = chain[t][j], ![j] = chain[t][i]] \in Seq(stored)
    <3>1. [chain[t] EXCEPT ![i] = chain[t][j]] \in Seq(stored)
          /\ Len([chain[t] EXCEPT ![i] = chain[t][j]]) = Len(chain[t])
      BY <1>1, <1>2, ExceptSeq
    <3>2. [[chain[t] EXCEPT ![i] = chain[t][j]] EXCEPT ![j] = chain[t][i]] \in Seq(stored)
      BY <1>2, <3>1, ExceptSeq
    <3> QED
      BY <3>2
  <2> QED
    BY <1>1, <2>1, <2>2, RearrangedKeepsInvariant
<1>5. CASE Repeat(t)
  <2>1. PICK i \in DOMAIN chain[t] :
          Becomes(t, InsertAt(chain[t], i + 1, chain[t][i])) /\ UNCHANGED relinked
    BY <1>5 DEF Repeat
  <2>2. i + 1 \in 1..(Len(chain[t]) + 1)
    BY <1>2
  <2>3. InsertAt(chain[t], i + 1, chain[t][i]) \in Seq(stored)
    BY <1>1, <1>2, <2>2, InsertedOver
  <2> QED
    BY <1>1, <2>1, <2>3, RearrangedKeepsInvariant
<1>6. ASSUME NEW i \in DOMAIN chain[t], NEW r, IsRecord(r), IsTraced(r.hash),
             Becomes(t, [chain[t] EXCEPT ![i] = r]), UNCHANGED relinked
      PROVE  IInv'
  <2> DEFINE S == stored \cup {r}
  <2>1. chain[t] \in Seq(S) /\ \A s \in S : IsRecord(s) /\ IsTraced(s.hash)
    BY <1>6, StoredWith
  <2>2. r \in S /\ i \in 1..Len(chain[t])
    BY <1>2
  <2> HIDE DEF S
  <2>3. [chain[t] EXCEPT ![i] = r] \in Seq(S)
    BY <2>1, <2>2, ExceptSeq
  <2> QED
    BY <1>6, <2>1, <2>3, RearrangedKeepsInvariant
<1>7. CASE Alter(t)
  <2>1. PICK i \in DOMAIN chain[t], b \in Bodies :
          Becomes(t, [chain[t] EXCEPT ![i].body = b]) /\ UNCHANGED relinked
    BY <1>7 DEF Alter
  <2>2. [chain[t] EXCEPT ![i].body = b] = [chain[t] EXCEPT ![i] = [chain[t][i] EXCEPT !.body = b]]
    OBVIOUS
  <2>3. IsRecord([chain[t][i] EXCEPT !.body = b]) /\ IsTraced([chain[t][i] EXCEPT !.body = b].hash)
    BY ChangedRecords
  <2> QED
    BY <1>6, <2>1, <2>2, <2>3
<1>8. CASE Garble(t)
  <2>1. PICK i \in DOMAIN chain[t] :
          Becomes(t, [chain[t] EXCEPT ![i].hash = Unreadable]) /\ UNCHANGED relinked
    BY <1>8 DEF Garble
  <2>2. [chain[t] EXCEPT ![i].hash = Unreadable]
          = [chain[t] EXCEPT ![i] = [chain[t][i] EXCEPT !.hash = Unreadable]]
    OBVIOUS
  <2>3. /\ IsRecord([chain[t][i] EXCEPT !.hash = Unreadable])
        /\ IsTraced([chain[t][i] EXCEPT !.hash = Unreadable].hash)
    BY ChangedRecords
  <2> QED
    BY <1>6, <2>1, <2>2, <2>3
<1>9. CASE Misfile(t)
  <2> DEFINE Misfiled(u, j, owner, i) ==
               LET m == [chain[u][j] EXCEPT !.tenant = owner] IN
               Becomes(t, IF i > Len(chain[t]) THEN Append(chain[t], m) ELSE [chain[t] EXCEPT ![i] = m])
  <2>0. PICK u \in Tenants \ {t} :
          \E j \in DOMAIN chain[u] : \E owner \in {t, u} : \E i \in 1..(Len(chain[t]) + 1) :
            Misfiled(u, j, owner, i) /\ UNCHANGED relinked
    BY <1>9 DEF Misfile
  <2>1. PICK j \in DOMAIN chain[u], owner \in {t, u}, i \in 1..(Len(chain[t]) + 1) :
          Misfiled(u, j, owner, i) /\ UNCHANGED relinked
    BY <2>0
  <2> DEFINE r == [chain[u][j] EXCEPT !.tenant = owner]
  <2>2. IsRecord(r) /\ IsTraced(r.hash)
    BY ChangedRecords
  <2>3. CASE i > Len(chain[t])
    <3> DEFINE S == stored \cup {r}
    <3>1. chain[t] \in Seq(S) /\ \A s \in S : IsRecord(s) /\ IsTraced(s.hash)
      BY <2>2, StoredWith
    <3>2. Append(chain[t], r) \in Seq(S)
      BY <3>1, AppendProperties
    <3>3. Becomes(t, Append(chain[t], r)) /\ UNCHANGED relinked
      BY <2>1, <2>3
    <3> HIDE DEF S, r
    <3> QED
      BY <3>1, <3>2, <3>3, RearrangedKeepsInvariant
  <2>4. CASE ~(i > Len(chain[t]))
    <3>1. i \in DOMAIN chain[t]
      BY <1>2, <2>4
    <3>2. Becomes(t, [chain[t] EXCEPT ![i] = r]) /\ UNCHANGED relinked
      BY <2>1, <2>4
    <3> HIDE DEF r
    <3> QED
      BY <1>6, <2>2, <3>1, <3>2
  <2> QED
    BY <2>3, <2>4
<1>10. CASE Relink(t)
  <2>1. BodiesOf(chain[t]) \in Seq(Bodies) /\ DOMAIN BodiesOf(chain[t]) = DOMAIN chain[t]
    BY <1>1, BodiesOfARun
  <2>2. PICK bodies \in Seq(Bodies) : Becomes(t, Linked(t, bodies))
    <3>1. CASE \E i \in DOMAIN chain[t] : \E b \in Bodies :
                 Becomes(t, Linked(t, [BodiesOf(chain[t]) EXCEPT ![i] = b]))
      <4>1. PICK i \in DOMAIN chain[t], b \in Bodies :
              Becomes(t, Linked(t, [BodiesOf(chain[t]) EXCEPT ![i] = b]))
        BY <3>1
      <4>2. [BodiesOf(chain[t]) EXCEPT ![i] = b] \in Seq(Bodies)
        <5>1. i \in 1..Len(BodiesOf(chain[t]))
          BY <2>1
        <5> QED
          BY <2>1, <5>1, ExceptSeq
      <4> QED
        BY <4>1, <4>2
    <3>2. CASE \E i \in DOMAIN chain[t] : Becomes(t, Linked(t, RemoveAt(BodiesOf(chain[t]), i)))
      BY <2>1, <3>2, RemovedOver
    <3> QED
      BY <1>10, <3>1, <3>2 DEF Relink
  <2>3. relinked' = relinked \cup {t}
    BY <1>10 DEF Relink
  <2>4. IsRun(Linked(t, bodies))
        /\ \A i \in DOMAIN Linked(t, bodies) :
             IsTracedIn(accepted', relinked', Linked(t, bodies)[i].hash)
    BY <2>3, RebuiltIsTraced DEF IsTracedIn
  <2>5. relinked \subseteq relinked' /\ relinked' \subseteq Tenants
    BY <2>3 DEF IInv, TypeOK
  <2> QED
    BY <2>2, <2>4, <2>5, FaultKeepsInvariant
<1>11. CASE Reseal(t)
  <2>1. PICK i \in DOMAIN chain[t], b \in Bodies :
          Becomes(t, [chain[t] EXCEPT ![i] = Resealed(t, chain[t][i], b)])
    BY <1>11 DEF Reseal
  <2> DEFINE r == Resealed(t, chain[t][i], b)
             S == stored \cup {r}
  <2>2. relinked' = relinked \cup {t}
    BY <1>11 DEF Reseal
  <2>3. IsRecord(r) /\ r.hash[1] = t
    <3> DEFINE n == chain[t][i].seq
               link == chain[t][i].prev
    <3>1. n \in Nat
      BY <1>1, RunShape DEF IsRecord
    <3>2. r = Sealed([tenant |-> t, seq |-> n, body |-> b, prev |-> link])
      BY DEF Resealed
    <3> HIDE DEF n, link, r
    <3>3. r = [tenant |-> t, seq |-> n, body |-> b, prev |-> link, hash |-> <<t, n, b, link>>]
      BY <3>2 DEF Sealed, Hash
    <3> QED
      BY <3>1, <3>3 DEF IsRecord
  <2>4. relinked \subseteq relinked' /\ relinked' \subseteq Tenants
        /\ \A u \in Tenants : accepted[u] \subseteq accepted'[u]
    BY <2>1, <2>2 DEF IInv, TypeOK, Becomes
  <2> HIDE DEF r
  <2>5. \A s \in S : IsRecord(s) /\ IsTracedIn(accepted', relinked', s.hash)
    <3>1. ASSUME NEW s \in stored PROVE IsRecord(s) /\ IsTracedIn(accepted', relinked', s.hash)
      BY <1>1, <2>4, TracesLast
    <3>2. IsTracedIn(accepted', relinked', r.hash)
      BY <2>2, <2>3 DEF IsTracedIn
    <3> QED
      BY <2>3, <3>1, <3>2
  <2>6. [chain[t] EXCEPT ![i] = r] \in Seq(S)
    <3>1. chain[t] \in Seq(S)
      BY <1>1, SeqMonotonic
    <3>2. i \in 1..Len(chain[t]) /\ r \in S
      BY <1>2
    <3> HIDE DEF S
    <3> QED
      BY <3>1, <3>2, ExceptSeq
  <2>7. Becomes(t, [chain[t] EXCEPT ![i] = r])
    BY <2>1 DEF r
  <2> DEFINE run == [chain[t] EXCEPT ![i] = r]
  <2>8. IsRun(run) /\ \A k \in DOMAIN run : run[k] \in S
    <3> HIDE DEF S, run
    <3>1. run \in Seq(S)
      BY <2>6 DEF run
    <3> QED
      BY <2>5, <3>1, RunOver
  <2>9. \A k \in DOMAIN run : IsTracedIn(accepted', relinked', run[k].hash)
    BY <2>5, <2>8
  <2> HIDE DEF run, S
  <2> QED
    BY <2>4, <2>7, <2>8, <2>9, FaultKeepsInvariant DEF run
<1> QED
  BY <1>3, <1>4, <1>5, <1>7, <1>8, <1>9, <1>10, <1>11 DEF Fault

\* The invariant holds from the empty store on, whatever is appended, signed,
\* lost, altered or rebuilt.
LEMMA InvariantHolds == Spec => []IInv
<1>1. Init => IInv
  <2> SUFFICES ASSUME Init PROVE IInv
    OBVIOUS
  <2>1. \A t \in Tenants : chain[t] = <<>> /\ accepted[t] = {}
    BY DEF Init
  <2>2. IsRun(<<>>)
    BY EmptySeq DEF IsRun
  <2>3. chain \in [Tenants -> Range(chain)] /\ accepted \in [Tenants -> Range(accepted)]
    BY DEF Init, Range
  <2>4. TypeOK
    <3>1. \A t \in Tenants : IsRun(chain[t])
      BY <2>1, <2>2
    <3>2. \A t \in Tenants : \A r \in accepted[t] : IsRecord(r) /\ r.tenant = t /\ r.hash = Hash(r)
      BY <2>1
    <3>3. /\ \A h \in heads : h.tenant \in Tenants /\ h.seq \in Nat /\ IsRun(h.attested)
          /\ \A c \in checkpoints : c.tenant \in Tenants /\ c.seq \in Nat /\ IsRun(c.attested)
          /\ relinked \subseteq Tenants
      BY DEF Init
    <3>4. faults \in 0..MaxFaults
      BY HashChainAssumption DEF Init, HashChainAssumption
    <3> QED
      BY <2>3, <3>1, <3>2, <3>3, <3>4 DEF TypeOK
  <2>5. HashesAreTraced /\ CheckpointsAreHeads
    BY <2>1 DEF Init, HashesAreTraced, CheckpointsAreHeads
  <2> QED
    BY <2>4, <2>5 DEF IInv
<1>2. IInv /\ [Next]_vars => IInv'
  <2> SUFFICES ASSUME IInv, [Next]_vars PROVE IInv'
    OBVIOUS
  <2>1. CASE Next
    BY <2>1, AppendKeepsInvariant, ReadingKeepsInvariant, SigningKeepsInvariant, FaultsKeepInvariant DEF Next
  <2>2. CASE UNCHANGED vars
    BY <2>2 DEF vars, IInv, TypeOK, HashesAreTraced, IsTraced, CheckpointsAreHeads
  <2> QED
    BY <2>1, <2>2
<1> QED
  BY <1>1, <1>2, PTL DEF Spec

-------------------------------------------------------------------------------
(* What the reasons say.                                                     *)

\* The sequence numbers of a run are as many as its records exactly when no two
\* records share one.
LEMMA RepeatedMeansTwice ==
  ASSUME NEW run, IsRun(run)
  PROVE  /\ IsFiniteSet(Seqs(run))
         /\ Cardinality(Seqs(run)) \in Nat
         /\ Seqs(run) \subseteq Nat
         /\ Repeated(run) <=> Twice(run)
<1> DEFINE f == [i \in 1..Len(run) |-> run[i].seq]
<1>1. /\ Len(run) \in Nat /\ DOMAIN run = 1..Len(run)
      /\ \A i \in DOMAIN run : run[i].seq \in Nat
  BY RunShape DEF IsRecord
<1>2. f \in Surjection(1..Len(run), Seqs(run))
  BY <1>1 DEF Surjection, Seqs
<1>3. IsFiniteSet(1..Len(run)) /\ Cardinality(1..Len(run)) = Len(run)
  BY <1>1, FS_Interval
<1>4. /\ IsFiniteSet(Seqs(run))
      /\ Cardinality(Seqs(run)) = Cardinality(1..Len(run)) <=> f \in Injection(1..Len(run), Seqs(run))
  <2> HIDE DEF f
  <2> QED
    BY <1>2, <1>3, FS_Surjection
<1>5. Cardinality(Seqs(run)) \in Nat
  BY <1>4, FS_CardinalityType
<1>6. ~Twice(run) <=> f \in Injection(1..Len(run), Seqs(run))
  BY <1>1, <1>2 DEF Injection, Surjection, IsInjective, Twice
<1>7. Seqs(run) \subseteq Nat
  BY <1>1 DEF Seqs
<1> HIDE DEF f
<1> QED
  BY <1>3, <1>4, <1>5, <1>6, <1>7 DEF Repeated

\* As many sequence numbers as records, and none missing between two of them:
\* then they are the ones that follow the lowest.
LEMMA NoHoleIsContiguous ==
  ASSUME NEW run, IsRun(run), ~Repeated(run), AllPresent(run)
  PROVE  Contiguous(run)
<1> USE DEF AllPresent
<1> SUFFICES ASSUME NEW low \in Seqs(run), \A s \in Seqs(run) : low <= s
             PROVE  Seqs(run) = low..(low + Len(run) - 1)
  BY DEF Contiguous
<1> DEFINE top == low + Len(run) - 1
<1>1. /\ IsFiniteSet(Seqs(run)) /\ Seqs(run) \subseteq Nat /\ low \in Nat
      /\ Cardinality(Seqs(run)) = Len(run) /\ Len(run) \in Nat
  BY RepeatedMeansTwice, RunShape DEF Repeated
<1>2. ASSUME NEW k \in low..top, k \notin Seqs(run) PROVE FALSE
  <2>1. k \in Nat /\ low <= k /\ k <= top /\ top \in Int
    BY <1>1
  <2>2. ASSUME NEW s \in Seqs(run) PROVE s \in low..(k - 1)
    <3>1. s \in Nat /\ low <= s
      BY <1>1
    <3>2. CASE k <= s
      <4>1. k \in low..s
        BY <2>1, <3>1, <3>2
      <4> QED
        BY <1>2, <4>1
    <3> QED
      BY <2>1, <3>1, <3>2
  <2>3. Seqs(run) \in SUBSET (low..(k - 1))
    BY <2>2
  <2>4. /\ IsFiniteSet(low..(k - 1))
        /\ Cardinality(low..(k - 1)) = IF low > k - 1 THEN 0 ELSE (k - 1) - low + 1
    <3>1. low \in Int /\ k - 1 \in Int
      BY <1>1, <2>1
    <3> QED
      BY <3>1, FS_Interval
  <2>5. Cardinality(Seqs(run)) <= Cardinality(low..(k - 1))
    BY <2>3, <2>4, FS_Subset
  <2> QED
    BY <1>1, <2>1, <2>4, <2>5
<1>3. (low..top) \in SUBSET Seqs(run)
  BY <1>2
<1>4. Cardinality(low..top) = Len(run)
  <2>1. top \in Int /\ low \in Int
    BY <1>1
  <2>2. Cardinality(low..top) = IF low > top THEN 0 ELSE top - low + 1
    BY <2>1, FS_Interval
  <2> QED
    BY <1>1, <2>2
<1> QED
  BY <1>1, <1>3, <1>4, FS_Subset

\* A run that ascends without a gap counts up from its first record.
LEMMA AscendingContiguousCounts ==
  ASSUME NEW run, IsRun(run), Contiguous(run),
         \A i \in 2..Len(run) : run[i - 1].seq < run[i].seq,
         NEW i \in 2..Len(run)
  PROVE  run[i].seq = run[i - 1].seq + 1
<1> DEFINE last == Len(run)
           low == run[1].seq
<1>1. /\ last \in Nat /\ DOMAIN run = 1..last
      /\ \A j \in 1..last : run[j].seq \in Nat /\ run[j].seq \in Seqs(run)
      /\ last >= 2 /\ low \in Nat /\ low \in Seqs(run)
  BY RunShape DEF IsRecord, Seqs
<1>2. ASSUME NEW j \in 1..last PROVE run[j].seq >= low + j - 1
  <2> DEFINE T == {k \in 1..last : ~(run[k].seq >= low + k - 1)}
  <2>1. T = {}
    <3> SUFFICES ASSUME T # {} PROVE FALSE
      OBVIOUS
    <3>0. T \subseteq Nat
      OBVIOUS
    <3>1. PICK m \in T : \A n \in T : m <= n
      <4> HIDE DEF T
      <4> QED
        BY <3>0, LeastNumber
    <3>2. m \in 1..last /\ ~(run[m].seq >= low + m - 1)
      BY <3>1
    <3>3. m # 1
      BY <1>1, <3>2
    <3>4. m \in 2..last /\ m - 1 \in 1..last /\ ~(m <= m - 1)
      BY <1>1, <3>2, <3>3
    <3>5. m - 1 \notin T
      BY <3>1, <3>4
    <3>6. run[m - 1].seq >= low + (m - 1) - 1
      BY <3>4, <3>5
    <3>7. run[m - 1].seq < run[m].seq
      BY <3>4
    <3>8. m \in Nat /\ run[m - 1].seq \in Nat /\ run[m].seq \in Nat
      BY <1>1, <3>2, <3>4
    <3> DEFINE lower == run[m - 1].seq
               higher == run[m].seq
    <3>9. /\ lower \in Nat /\ higher \in Nat /\ lower < higher
          /\ ~(higher >= low + m - 1)
          /\ lower >= low + (m - 1) - 1
      BY <3>2, <3>6, <3>7, <3>8
    <3> HIDE DEF T, lower, higher, low
    <3> QED
      BY <1>1, <3>8, <3>9
  <2> QED
    BY <2>1
<1>3. Seqs(run) = low..(low + last - 1)
  <2>1. ASSUME NEW s \in Seqs(run) PROVE low <= s
    <3>1. PICK j \in 1..last : s = run[j].seq
      BY <1>1 DEF Seqs
    <3> QED
      BY <1>1, <1>2, <3>1
  <2> QED
    BY <1>1, <2>1 DEF Contiguous
<1>4. ASSUME NEW j \in 1..last PROVE run[j].seq <= low + j - 1
  <2> DEFINE T == {k \in 0..(last - 1) : ~(run[last - k].seq <= low + (last - k) - 1)}
  <2>1. T = {}
    <3> SUFFICES ASSUME T # {} PROVE FALSE
      OBVIOUS
    <3>0. T \subseteq Nat
      BY <1>1
    <3>1. PICK m \in T : \A n \in T : m <= n
      <4> HIDE DEF T
      <4> QED
        BY <3>0, LeastNumber
    <3>2. m \in 0..(last - 1) /\ ~(run[last - m].seq <= low + (last - m) - 1)
      BY <3>1
    <3>3. m # 0
      <4>1. last \in 1..last
        BY <1>1
      <4>2. run[last].seq \in low..(low + last - 1)
        BY <1>1, <1>3, <4>1
      <4>3. run[last].seq <= low + last - 1 /\ last - 0 = last
        BY <1>1, <4>2
      <4> QED
        BY <3>2, <4>3
    <3>4. m - 1 \in 0..(last - 1) /\ ~(m <= m - 1)
      BY <1>1, <3>2, <3>3
    <3>5. m - 1 \notin T
      BY <3>1, <3>4
    <3>6. run[last - (m - 1)].seq <= low + (last - (m - 1)) - 1
      BY <3>4, <3>5
    <3>7. /\ last - (m - 1) \in 2..last /\ last - m \in 1..last
          /\ (last - (m - 1)) - 1 = last - m
      BY <1>1, <3>2, <3>3
    <3>8. run[last - m].seq < run[last - (m - 1)].seq
      BY <3>7
    <3>9. m \in Nat /\ last - (m - 1) \in 1..last
      BY <1>1, <3>2, <3>3
    <3>10. run[last - m].seq \in Nat /\ run[last - (m - 1)].seq \in Nat
      BY <1>1, <3>7, <3>9
    <3> DEFINE lower == run[last - m].seq
               higher == run[last - (m - 1)].seq
    <3>11. /\ lower \in Nat /\ higher \in Nat /\ lower < higher
           /\ ~(lower <= low + (last - m) - 1)
           /\ higher <= low + (last - (m - 1)) - 1
      BY <3>2, <3>6, <3>8, <3>10
    <3> HIDE DEF T, lower, higher, low, last
    <3> QED
      BY <1>1, <3>9, <3>11
  <2>2. last - j \in 0..(last - 1) /\ last - (last - j) = j
    BY <1>1
  <2>3. last - j \notin T
    BY <2>1
  <2> HIDE DEF T
  <2> QED
    BY <2>2, <2>3 DEF T
<1>5. i \in 1..last /\ i - 1 \in 1..last
  BY <1>1
<1>6. /\ run[i].seq >= low + i - 1 /\ run[i].seq <= low + i - 1
      /\ run[i - 1].seq >= low + (i - 1) - 1 /\ run[i - 1].seq <= low + (i - 1) - 1
  BY <1>2, <1>4, <1>5
<1> QED
  BY <1>1, <1>5, <1>6

\* And a run of numbers that follow the lowest misses none.
LEMMA ContiguousHasNoHole ==
  ASSUME NEW run, IsRun(run), Contiguous(run), Seqs(run) # {}
  PROVE  AllPresent(run)
<1>1. Seqs(run) \subseteq Nat
  BY RepeatedMeansTwice
<1>2. PICK low \in Seqs(run) : \A s \in Seqs(run) : low <= s
  BY <1>1, LeastNumber
<1>3. Seqs(run) = low..(low + Len(run) - 1) /\ low \in Nat /\ Len(run) \in Nat
  BY <1>1, <1>2, RunShape DEF Contiguous
<1>4. ASSUME NEW a \in Seqs(run), NEW b \in Seqs(run), NEW n \in a..b
      PROVE  n \in low..(low + Len(run) - 1)
  BY <1>3
<1> QED
  BY <1>3, <1>4 DEF AllPresent

\* A number is gone and none came twice where a gap is reported; where disorder
\* is, one came twice, or all are there and one is late.
LEMMA DisorderIsTrue ==
  ASSUME NEW run, IsRun(run), NEW at \in 2..Len(run), run[at].seq # run[at - 1].seq + 1
  PROVE  /\ Disorder(run) = "sequence_gap" => ~AllPresent(run) /\ ~Twice(run)
         /\ Disorder(run) = "sequence_out_of_order" => Twice(run) \/ (AllPresent(run) /\ Late(run))
<1>1. CASE Disorder(run) = "sequence_gap"
  <2>1. ~Repeated(run) /\ ~Contiguous(run)
    BY <1>1 DEF Disorder
  <2> QED
    BY <1>1, <2>1, NoHoleIsContiguous, RepeatedMeansTwice
<1>2. CASE Disorder(run) = "sequence_out_of_order" /\ Repeated(run)
  BY <1>2, RepeatedMeansTwice
<1>3. CASE Disorder(run) = "sequence_out_of_order" /\ ~Repeated(run)
  <2>1. Contiguous(run) /\ ~Twice(run)
    BY <1>3, RepeatedMeansTwice DEF Disorder
  <2>2. PICK i \in 2..Len(run) : ~(run[i - 1].seq < run[i].seq)
    BY <2>1, AscendingContiguousCounts
  <2>3. i \in DOMAIN run /\ i - 1 \in DOMAIN run /\ i # i - 1
    BY <2>2, RunShape
  <2>4. run[i].seq \in Nat /\ run[i - 1].seq \in Nat
    BY <2>3, RunShape DEF IsRecord
  <2>5. run[i].seq # run[i - 1].seq
    BY <2>1, <2>3 DEF Twice
  <2>6. Late(run)
    BY <2>2, <2>4, <2>5 DEF Late
  <2>7. Seqs(run) # {}
    BY <2>3 DEF Seqs
  <2> QED
    BY <1>3, <2>1, <2>6, <2>7, ContiguousHasNoHole
<1> QED
  BY <1>1, <1>2, <1>3

\* A run that is linked has nothing wrong with any of its records.
LEMMA LinkedIsSound ==
  ASSUME NEW t, NEW run, IsRun(run), IsLinked(t, run), NEW i \in DOMAIN run
  PROVE  IsSound(run, t, TRUE, i)
<1>1. DOMAIN run = 1..Len(run) /\ Len(run) \in Nat
  BY RunShape
<1>2. /\ run[i].tenant = t /\ run[i].seq = i - 1 /\ run[i].hash = Hash(run[i])
      /\ i = 1 => run[i].prev = NoHash
      /\ i # 1 => run[i].prev = run[i - 1].hash
  BY LinkedRecord
<1>3. ASSUME i # 1 PROVE run[i].seq = run[i - 1].seq + 1
  <2>1. i - 1 \in DOMAIN run
    BY <1>1, <1>3
  <2>2. run[i - 1].seq = (i - 1) - 1
    BY <2>1, LinkedRecord
  <2> QED
    BY <1>1, <1>2, <2>2
<1>4. i = 1 => run[i].seq = GenesisSeq
  BY <1>2 DEF GenesisSeq
<1> QED
  BY <1>2, <1>3, <1>4 DEF IsSound

\* A run up to one of its records.
LEMMA UpTo ==
  ASSUME NEW run, IsRun(run), NEW n \in 0..Len(run)
  PROVE  /\ IsRun(SubSeq(run, 1, n))
         /\ DOMAIN SubSeq(run, 1, n) = 1..n
         /\ \A i \in 1..n : i \in DOMAIN run /\ SubSeq(run, 1, n)[i] = run[i]
<1>1. /\ DOMAIN run = 1..Len(run) /\ Len(run) \in Nat /\ run \in Seq(Range(run))
      /\ n \in Nat /\ n <= Len(run)
      /\ \A i \in DOMAIN run : IsRecord(run[i]) /\ run[i] \in Range(run)
  BY RunShape
<1>2. /\ DOMAIN SubSeq(run, 1, n) = 1..n
      /\ \A i \in 1..n : i \in DOMAIN run /\ SubSeq(run, 1, n)[i] = run[i]
  BY <1>1
<1>3. SubSeq(run, 1, n) \in Seq(Range(run))
  BY <1>1, SubSeqProperties
<1>4. \A r \in Range(run) : IsRecord(r)
  BY <1>1 DEF Range
<1>5. IsRun(SubSeq(run, 1, n))
  BY <1>3, <1>4, RunOver
<1> QED
  BY <1>2, <1>5

\* Up to the record before the one named the chain is what append() makes, and
\* with it no longer.
LEMMA LinkedUpToTheBreak ==
  ASSUME NEW t, NEW run, IsRun(run), NEW at \in DOMAIN run,
         \A i \in DOMAIN run : i < at => IsSound(run, t, TRUE, i),
         ~IsSound(run, t, TRUE, at)
  PROVE  IsLinked(t, SubSeq(run, 1, at - 1)) /\ ~IsLinked(t, SubSeq(run, 1, at))
<1>1. /\ DOMAIN run = 1..Len(run) /\ Len(run) \in Nat
      /\ at - 1 \in 0..Len(run) /\ at \in 0..Len(run) /\ at \in 1..at
  BY RunShape
<1> DEFINE before == SubSeq(run, 1, at - 1)
           with == SubSeq(run, 1, at)
<1>2. /\ IsRun(before)
      /\ DOMAIN before = 1..(at - 1)
      /\ \A i \in 1..(at - 1) : i \in DOMAIN run /\ before[i] = run[i]
  BY <1>1, UpTo
<1>3. /\ IsRun(with)
      /\ DOMAIN with = 1..at
      /\ \A i \in 1..at : i \in DOMAIN run /\ with[i] = run[i]
  BY <1>1, UpTo
<1> HIDE DEF before, with
<1>4. ASSUME NEW i \in DOMAIN before PROVE IsSound(before, t, TRUE, i)
  <2>1. i \in DOMAIN run /\ i < at /\ before[i] = run[i] /\ i \in Nat
    BY <1>1, <1>2
  <2>2. i # 1 => before[i - 1] = run[i - 1]
    BY <1>1, <1>2
  <2>3. IsSound(run, t, TRUE, i)
    BY <2>1
  <2> QED
    BY <2>1, <2>2, <2>3 DEF IsSound
<1>5. IsLinked(t, before)
  <2>1. DOMAIN before \subseteq Nat
    BY <1>1, <1>2
  <2>2. VerifyChain(before, t, TRUE).ok
    BY <1>4, <2>1, VerifierAnswers
  <2> QED
    BY <1>2, <2>2, VerifiedIsLinked
<1>6. ASSUME IsLinked(t, with) PROVE FALSE
  <2>1. IsSound(with, t, TRUE, at)
    BY <1>1, <1>3, <1>6, LinkedIsSound
  <2>2. with[at] = run[at] /\ (at # 1 => with[at - 1] = run[at - 1])
    BY <1>1, <1>3
  <2> QED
    BY <2>1, <2>2 DEF IsSound
<1> QED
  BY <1>5, <1>6 DEF before, with

\* What the fields of a refusal are.
LEMMA BrokenFields ==
  ASSUME NEW i, NEW reason
  PROVE  ~Broken(i, reason).ok /\ Broken(i, reason).at = i /\ Broken(i, reason).reason = reason
BY DEF Broken

\* A record refused for its form is one that cannot be read.
LEMMA MalformedIsUnreadable ==
  ASSUME NEW run, NEW t, DOMAIN run \subseteq Nat, ~VerifyChain(run, t, TRUE).ok,
         VerifyChain(run, t, TRUE).reason = "malformed_record"
  PROVE  run[VerifyChain(run, t, TRUE).at].hash = Unreadable
<1> DEFINE malformed == {i \in DOMAIN run : run[i].hash = Unreadable}
           bad == {i \in DOMAIN run : BreakAt(run, t, TRUE, i) # "none"}
           v == VerifyChain(run, t, TRUE)
<1>1. v = IF malformed # {} THEN Broken(First(malformed), "malformed_record")
          ELSE IF bad # {} THEN Broken(First(bad), BreakAt(run, t, TRUE, First(bad)))
          ELSE Verified
  BY DEF VerifyChain
<1>2. ~v.ok /\ v.reason = "malformed_record"
  OBVIOUS
<1>3. Verified.ok
  BY DEF Verified
<1>4. malformed \subseteq Nat
  OBVIOUS
<1>5. \A i : BreakAt(run, t, TRUE, i) # "malformed_record"
  BY DEF BreakAt, BreakAtStart, BreakBetween, Disorder
<1> HIDE DEF v, malformed, bad
<1>6. malformed # {}
  <2> SUFFICES ASSUME malformed = {} PROVE FALSE
    OBVIOUS
  <2>1. bad # {}
    BY <1>1, <1>2, <1>3
  <2>2. v = Broken(First(bad), BreakAt(run, t, TRUE, First(bad)))
    BY <1>1, <2>1
  <2>3. v.reason = BreakAt(run, t, TRUE, First(bad))
    BY <2>2, BrokenFields
  <2> QED
    BY <1>2, <1>5, <2>3
<1>7. v.at = First(malformed)
  BY <1>1, <1>6, BrokenFields
<1>8. First(malformed) \in malformed
  BY <1>4, <1>6, FirstIsLeast
<1>9. run[v.at].hash = Unreadable
  BY <1>7, <1>8 DEF malformed
<1> QED
  BY <1>9 DEF v

LEMMA DiagnosisFromInvariant ==
  ASSUME IInv
  PROVE  DiagnosisIsTrue
<1> SUFFICES ASSUME NEW t \in Tenants, ~Verify(t, GenesisSeq).ok
             PROVE  LET run == chain[t]
                        v == Verify(t, GenesisSeq)
                    IN /\ v.reason # "malformed_record" =>
                            /\ IsLinked(t, SubSeq(run, 1, v.at - 1))
                            /\ ~IsLinked(t, SubSeq(run, 1, v.at))
                       /\ v.reason \in {"record_hash_mismatch", "malformed_record"} =>
                            \A u \in Tenants : run[v.at] \notin accepted[u]
                       /\ v.reason = "sequence_gap" => ~AllPresent(run) /\ ~Twice(run)
                       /\ v.reason = "sequence_out_of_order" =>
                            Twice(run) \/ (AllPresent(run) /\ Late(run))
  BY DEF DiagnosisIsTrue
<1> DEFINE run == chain[t]
           v == VerifyChain(run, t, TRUE)
<1>1. IsRun(run)
  BY DEF IInv, TypeOK
<1>2. DOMAIN run = 1..Len(run) /\ Len(run) \in Nat
  BY <1>1, RunShape
<1>3. Verify(t, GenesisSeq) = v
  BY <1>1, ReadAll DEF Verify
<1>4. ASSUME v.reason # "malformed_record"
      PROVE  /\ v.at \in DOMAIN run
             /\ v.reason = BreakAt(run, t, TRUE, v.at)
             /\ v.reason # "none"
             /\ \A i \in DOMAIN run : i < v.at => IsSound(run, t, TRUE, i)
  <2>1. ~v.ok /\ v.reason # "malformed_record"
    BY <1>3, <1>4
  <2>2. DOMAIN run \subseteq Nat
    BY <1>2
  <2> HIDE DEF run
  <2> QED
    BY <2>1, <2>2, VerifierAnswers
<1>5. ASSUME v.reason = "malformed_record"
      PROVE  run[v.at].hash = Unreadable
  <2>1. DOMAIN run \subseteq Nat
    BY <1>2
  <2> HIDE DEF run
  <2> QED
    BY <1>3, <1>5, <2>1, MalformedIsUnreadable
<1> HIDE DEF run, v
<1>6. ASSUME v.reason # "malformed_record"
      PROVE  IsLinked(t, SubSeq(run, 1, v.at - 1)) /\ ~IsLinked(t, SubSeq(run, 1, v.at))
  <2>1. ~IsSound(run, t, TRUE, v.at)
    BY <1>4, <1>6, SoundMeansNoBreak
  <2> QED
    BY <1>1, <1>4, <1>6, <2>1, LinkedUpToTheBreak
<1>7. ASSUME v.reason \in {"record_hash_mismatch", "malformed_record"}, NEW u \in Tenants
      PROVE  run[v.at] \notin accepted[u]
  <2>1. run[v.at].hash # Hash(run[v.at])
    <3>1. CASE v.reason = "malformed_record"
      BY <1>5, <3>1, HashesAreReadable
    <3>2. CASE v.reason = "record_hash_mismatch"
      <4>1. BreakAt(run, t, TRUE, v.at) = "record_hash_mismatch"
        BY <1>4, <3>2
      <4> QED
        BY <4>1 DEF BreakAt, BreakAtStart, BreakBetween, Disorder
    <3> QED
      BY <1>7, <3>1, <3>2
  <2>2. \A a \in accepted[u] : a.hash = Hash(a)
    BY DEF IInv, TypeOK
  <2> QED
    BY <2>1, <2>2
<1>8. ASSUME v.reason \in {"sequence_gap", "sequence_out_of_order"}
      PROVE  /\ v.at \in 2..Len(run)
             /\ run[v.at].seq # run[v.at - 1].seq + 1
             /\ v.reason = Disorder(run)
  <2>0. v.reason # "malformed_record"
    BY <1>8
  <2>1. v.at # 1 /\ BreakAt(run, t, TRUE, v.at) = BreakBetween(run, v.at)
    BY <1>4, <1>8, <2>0 DEF BreakAt, BreakAtStart
  <2>2. run[v.at].seq # run[v.at - 1].seq + 1 /\ v.reason = Disorder(run)
    BY <1>4, <1>8, <2>0, <2>1 DEF BreakBetween
  <2>3. \A at \in 1..Len(run) : at # 1 => at \in 2..Len(run)
    BY <1>2
  <2>4. v.at \in 2..Len(run)
    BY <1>2, <1>4, <2>0, <2>1, <2>3
  <2> QED
    BY <2>2, <2>4
<1>9. /\ v.reason = "sequence_gap" => ~AllPresent(run) /\ ~Twice(run)
      /\ v.reason = "sequence_out_of_order" => Twice(run) \/ (AllPresent(run) /\ Late(run))
  BY <1>1, <1>8, DisorderIsTrue
<1> QED
  BY <1>3, <1>6, <1>7, <1>9 DEF run

-------------------------------------------------------------------------------
(* The theorems.                                                             *)

\* Whatever is appended, signed or done to storage, every chain is a run of
\* records, and what a tenant's history holds is the tenant's, each record
\* under its own digest (append: store.py).
THEOREM ChainTypeCorrect == Spec => []TypeOK
<1>1. IInv => TypeOK
  BY DEF IInv
<1> QED
  BY <1>1, InvariantHolds, PTL

\* Evidence that is as the store appended it verifies, from any sequence number
\* on and against every checkpoint signed on its way (verify_chain and
\* verify_against_checkpoint: chain.py).
THEOREM HealthyChainsVerify == Spec => []NoFalseAlarm
BY NoFalseAlarmFromInvariant, InvariantHolds, PTL

\* A chain that verifies and was not rebuilt outside the store holds what the
\* store appended, where it put it (verify_chain: chain.py).
THEOREM VerifiedEvidenceIsAccepted == Spec => []VerifiedIsAccepted
BY AcceptedFromInvariant, InvariantHolds, PTL

\* A chain that verifies against a checkpoint begins with what was signed, even
\* when it was rebuilt (verify_against_checkpoint: chain.py).
THEOREM CheckpointsPinHistory == Spec => []CheckpointPinsHistory
BY PinnedFromInvariant, InvariantHolds, PTL

\* The index of a refusal is the first place where the chain is not what append()
\* makes; a record refused for its content was never appended; a gap misses a
\* number and repeats none; disorder repeats one, or misses none and has one
\* late (verify_chain and its disorder label: chain.py).
THEOREM DiagnosesAreTrue == Spec => []DiagnosisIsTrue
BY DiagnosisFromInvariant, InvariantHolds, PTL
===============================================================================
