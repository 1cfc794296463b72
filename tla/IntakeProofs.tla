----------------------------- MODULE IntakeProofs ------------------------------
(*****************************************************************************)
(* What Intake promises, for every set of texts and schemas and for every    *)
(* depth and bound.                                                          *)
(*                                                                           *)
(* A document is a function on paths, so what is said of every document is   *)
(* said of every path of it, and there is no induction over its depth.  The  *)
(* one argument that descends is the validator's (GovernedIsReached): it     *)
(* stops at the first value of the wrong type, and there it reports.  The    *)
(* other two are that every token comes back from the wire with the form it  *)
(* was sent in (TokensComeBack), and that the projection of an envelope is   *)
(* its ask and the ancestors of its ask (DigestsFollowTheAsk).               *)
(*****************************************************************************)
EXTENDS Intake, SequenceTheorems, WellFoundedInduction, TLAPS

-------------------------------------------------------------------------------
(* Paths.                                                                    *)

\* The provers do not know a literal for a STRING.
Names ==
  STRING \cup
  {"0", "1", "action_class", "actor", "agent", "agent_id", "agent_version", "arguments", "context",
   "delegation_chain", "digest", "environment", "facts", "fresh", "intent", "mode",
   "policy_bundle", "principal", "proposal", "stale", "status", "stripped_proposal_keys", "tool",
   "value"}

Paths == Seq(Names)

IsTree(v) ==
  /\ <<>> \in DOMAIN v
  /\ \A p \in DOMAIN v : p \in Paths /\ \A n \in 0..Len(p) : SubSeq(p, 1, n) \in DOMAIN v

Tokens == Values \cup [kind : {"string"}, text : Names]

LEMMA RootedIsATree ==
  ASSUME NEW v, IsRooted(v)
  PROVE  IsTree(v)
<1>1. Seq(STRING) \subseteq Seq(Names)
  BY SeqMonotonic DEF Names
<1> QED
  BY <1>1 DEF IsRooted, IsTree, Paths

LEMMA PrefixIsElementwise ==
  ASSUME NEW p \in Paths, NEW q \in Paths
  PROVE  IsPrefix(p, q) <=> Len(p) <= Len(q) /\ \A i \in 1..Len(p) : p[i] = q[i]
<1>1. Len(p) \in Nat /\ Len(q) \in Nat
  BY LenProperties DEF Paths
<1>2. SubSeq(p, 1, Len(p)) = p
  BY SubSeqFull DEF Paths
<1> SUFFICES ASSUME Len(p) <= Len(q)
             PROVE  p = SubSeq(q, 1, Len(p)) <=> \A i \in 1..Len(p) : p[i] = q[i]
  BY <1>2 DEF IsPrefix
<1>3. \A i \in 1..Len(p) : q[i] \in Names
  BY <1>1, ElementOfSeq DEF Paths
<1>4. /\ SubSeq(q, 1, Len(p)) \in Seq(Names)
      /\ Len(SubSeq(q, 1, Len(p))) = Len(p)
      /\ \A i \in 1..Len(p) : SubSeq(q, 1, Len(p))[i] = q[i]
  BY <1>1, <1>3, SubSeqProperties
<1> QED
  BY <1>4, SeqEqual DEF Paths

LEMMA ConcatIs ==
  ASSUME NEW p \in Paths, NEW q \in Paths
  PROVE  /\ Len(p) \in Nat /\ Len(q) \in Nat
         /\ p \o q \in Paths /\ Len(p \o q) = Len(p) + Len(q)
         /\ \A i \in 1..(Len(p) + Len(q)) :
              (p \o q)[i] = IF i <= Len(p) THEN p[i] ELSE q[i - Len(p)]
BY LenProperties, ConcatProperties DEF Paths

LEMMA PathsExtend ==
  ASSUME NEW p \in Paths, NEW q \in Paths
  PROVE  /\ p \o q \in Paths
         /\ IsPrefix(p, p \o q)
         /\ SubSeq(p \o q, Len(p) + 1, Len(p \o q)) = q
<1>1. Len(p) \in Nat /\ Len(q) \in Nat
  BY LenProperties DEF Paths
<1>2. /\ p \o q \in Seq(Names) /\ Len(p \o q) = Len(p) + Len(q)
      /\ \A i \in 1..(Len(p) + Len(q)) :
           (p \o q)[i] = IF i <= Len(p) THEN p[i] ELSE q[i - Len(p)]
  BY ConcatProperties DEF Paths
<1>3. IsPrefix(p, p \o q)
  <2>1. /\ p \o q \in Paths
        /\ Len(p) <= Len(p \o q) /\ \A i \in 1..Len(p) : p[i] = (p \o q)[i]
    BY <1>1, <1>2 DEF Paths
  <2> QED
    BY <2>1, PrefixIsElementwise
<1>4. \A i \in (Len(p) + 1)..(Len(p) + Len(q)) : (p \o q)[i] \in Names
  BY <1>1, <1>2, ElementOfSeq
<1>5. /\ SubSeq(p \o q, Len(p) + 1, Len(p) + Len(q)) \in Seq(Names)
      /\ Len(SubSeq(p \o q, Len(p) + 1, Len(p) + Len(q))) = Len(q)
      /\ \A i \in 1..Len(q) : SubSeq(p \o q, Len(p) + 1, Len(p) + Len(q))[i] = q[i]
  BY <1>1, <1>2, <1>4, SubSeqProperties
<1>6. SubSeq(p \o q, Len(p) + 1, Len(p) + Len(q)) = q
  BY <1>5, SeqEqual DEF Paths
<1> QED
  BY <1>2, <1>3, <1>6 DEF Paths

LEMMA PathsSplit ==
  ASSUME NEW p \in Paths, NEW q \in Paths, IsPrefix(p, q)
  PROVE  /\ SubSeq(q, Len(p) + 1, Len(q)) \in Paths
         /\ Len(SubSeq(q, Len(p) + 1, Len(q))) = Len(q) - Len(p)
         /\ q = p \o SubSeq(q, Len(p) + 1, Len(q))
<1> DEFINE rest == SubSeq(q, Len(p) + 1, Len(q))
<1>1. /\ Len(p) \in Nat /\ Len(q) \in Nat /\ Len(p) <= Len(q)
      /\ \A i \in 1..Len(p) : p[i] = q[i]
  BY LenProperties, PrefixIsElementwise DEF Paths
<1>2. \A i \in (Len(p) + 1)..Len(q) : q[i] \in Names
  BY <1>1, ElementOfSeq DEF Paths
<1>3. /\ rest \in Seq(Names)
      /\ Len(rest) = Len(q) - Len(p)
      /\ \A i \in 1..(Len(q) - Len(p)) : rest[i] = q[Len(p) + i]
  BY <1>1, <1>2, SubSeqProperties
<1>4. /\ p \o rest \in Seq(Names) /\ Len(p \o rest) = Len(q)
      /\ \A i \in 1..Len(q) : (p \o rest)[i] = IF i <= Len(p) THEN p[i] ELSE rest[i - Len(p)]
  BY <1>1, <1>3, ConcatProperties DEF Paths
<1>5. \A i \in 1..Len(q) : (p \o rest)[i] = q[i]
  BY <1>1, <1>3, <1>4
<1>6. q = p \o rest
  BY <1>4, <1>5, SeqEqual DEF Paths
<1> QED
  BY <1>3, <1>6 DEF Paths

\* The first steps of a path.
LEMMA Steps ==
  ASSUME NEW p \in Paths, NEW n \in 0..Len(p)
  PROVE  /\ SubSeq(p, 1, n) \in Paths
         /\ Len(SubSeq(p, 1, n)) = n
         /\ IsPrefix(SubSeq(p, 1, n), p)
         /\ \A m \in 0..n : SubSeq(SubSeq(p, 1, n), 1, m) = SubSeq(p, 1, m)
<1>1. Len(p) \in Nat
  BY LenProperties DEF Paths
<1>2. \A i \in 1..Len(p) : p[i] \in Names
  BY ElementOfSeq DEF Paths
<1>3. \A k \in 0..Len(p) :
        /\ SubSeq(p, 1, k) \in Seq(Names) /\ Len(SubSeq(p, 1, k)) = k
        /\ \A i \in 1..k : SubSeq(p, 1, k)[i] = p[i]
  BY <1>1, <1>2, SubSeqProperties
<1>4. IsPrefix(SubSeq(p, 1, n), p)
  <2> DEFINE s == SubSeq(p, 1, n)
  <2>1. s \in Paths /\ Len(s) <= Len(p) /\ \A i \in 1..Len(s) : s[i] = p[i]
    BY <1>1, <1>3 DEF Paths
  <2> HIDE DEF s
  <2>2. IsPrefix(s, p)
    BY <2>1, PrefixIsElementwise
  <2> QED
    BY <2>2 DEF s
<1>5. ASSUME NEW m \in 0..n
      PROVE  SubSeq(SubSeq(p, 1, n), 1, m) = SubSeq(p, 1, m)
  <2> DEFINE s == SubSeq(p, 1, n)
  <2>1. s \in Seq(Names) /\ Len(s) = n /\ \A i \in 1..n : s[i] = p[i]
    BY <1>3
  <2>2. m \in 0..Len(p)
    BY <1>1
  <2>3. \A i \in 1..m : s[i] \in Names
    BY <1>1, <1>2, <2>1
  <2> HIDE DEF s
  <2>4. SubSeq(s, 1, m) \in Seq(Names) /\ Len(SubSeq(s, 1, m)) = m
        /\ \A i \in 1..m : SubSeq(s, 1, m)[i] = s[i]
    BY <1>1, <2>3, SubSeqProperties
  <2>5. \A i \in 1..m : SubSeq(s, 1, m)[i] = SubSeq(p, 1, m)[i]
    BY <1>1, <1>3, <2>1, <2>2, <2>4
  <2> QED
    BY <1>3, <2>2, <2>4, <2>5, SeqEqual DEF s
<1> QED
  BY <1>3, <1>4, <1>5 DEF Paths

LEMMA ShortPaths ==
  /\ <<>> \in Paths
  /\ \A a \in Names : <<a>> \in Paths
  /\ \A a, b \in Names : <<a, b>> \in Paths
  /\ \A a, b, c \in Names : <<a, b, c>> \in Paths
<1> HIDE DEF Names
<1> QED
  BY DEF Paths

LEMMA KnownNames ==
  /\ {"0", "1", "agent", "fresh", "stale"} \subseteq Names
  /\ {"context", "proposal", "tool", "intent", "arguments"} \subseteq Names
  /\ {"actor", "facts", "action_class", "policy_bundle", "stripped_proposal_keys"} \subseteq Names
  /\ {"agent_id", "agent_version", "principal", "environment", "delegation_chain"} \subseteq Names
  /\ {"status", "value", "mode", "digest"} \subseteq Names
BY DEF Names

-------------------------------------------------------------------------------
(* Documents.                                                                *)

LEMMA WhatIsBelow ==
  ASSUME NEW v, DOMAIN v \subseteq Paths, NEW root \in Paths
  PROVE  /\ DOMAIN Below(v, root) = {p \in Paths : root \o p \in DOMAIN v}
         /\ \A p \in DOMAIN Below(v, root) : Below(v, root)[p] = v[root \o p]
<1> DEFINE D == {SubSeq(q, Len(root) + 1, Len(q)) : q \in {r \in DOMAIN v : IsPrefix(root, r)}}
<1>1. ASSUME NEW p \in D PROVE p \in Paths /\ root \o p \in DOMAIN v
  <2>1. PICK q \in DOMAIN v : IsPrefix(root, q) /\ p = SubSeq(q, Len(root) + 1, Len(q))
    OBVIOUS
  <2> QED
    BY <2>1, PathsSplit
<1>2. ASSUME NEW p \in Paths, root \o p \in DOMAIN v PROVE p \in D
  BY <1>2, PathsExtend
<1>3. D = {p \in Paths : root \o p \in DOMAIN v}
  <2> HIDE DEF D
  <2> QED
    BY <1>1, <1>2
<1>4. Below(v, root) = [p \in D |-> v[root \o p]]
  BY DEF Below
<1> HIDE DEF D
<1> QED
  BY <1>3, <1>4

LEMMA WhatIsUnder ==
  ASSUME NEW v, DOMAIN v \subseteq Paths, NEW root \in Paths
  PROVE  /\ DOMAIN Under(root, v) = {root \o q : q \in DOMAIN v}
         /\ \A q \in DOMAIN v : Under(root, v)[root \o q] = v[q]
<1>1. Under(root, v) = [p \in {root \o q : q \in DOMAIN v} |-> v[SubSeq(p, Len(root) + 1, Len(p))]]
  BY DEF Under
<1>2. \A q \in DOMAIN v : SubSeq(root \o q, Len(root) + 1, Len(root \o q)) = q
  BY PathsExtend
<1> QED
  BY <1>1, <1>2

LEMMA TreePaths ==
  ASSUME NEW v, IsTree(v)
  PROVE  DOMAIN v \subseteq Paths
BY DEF IsTree, Paths

LEMMA StepsOfConcat ==
  ASSUME NEW p \in Paths, NEW q \in Paths, NEW n \in 0..Len(q)
  PROVE  /\ Len(p) + n \in 0..Len(p \o q)
         /\ SubSeq(p \o q, 1, Len(p) + n) = p \o SubSeq(q, 1, n)
<1>1. /\ Len(p) \in Nat /\ Len(q) \in Nat
      /\ p \o q \in Paths /\ Len(p \o q) = Len(p) + Len(q)
      /\ \A i \in 1..(Len(p) + Len(q)) :
           (p \o q)[i] = IF i <= Len(p) THEN p[i] ELSE q[i - Len(p)]
  BY ConcatIs
<1> DEFINE s == SubSeq(q, 1, n)
           t == SubSeq(p \o q, 1, Len(p) + n)
<1>2. s \in Seq(Names) /\ Len(s) = n /\ \A i \in 1..n : s[i] = q[i]
  <2>1. \A i \in 1..n : q[i] \in Names
    BY <1>1, ElementOfSeq DEF Paths
  <2> QED
    BY <1>1, <2>1, SubSeqProperties
<1>3. t \in Seq(Names) /\ Len(t) = Len(p) + n /\ \A i \in 1..(Len(p) + n) : t[i] = (p \o q)[i]
  <2>1. \A i \in 1..(Len(p) + n) : (p \o q)[i] \in Names
    BY <1>1, ElementOfSeq DEF Paths
  <2> QED
    BY <1>1, <2>1, SubSeqProperties
<1> HIDE DEF s, t
<1>4. /\ p \o s \in Seq(Names) /\ Len(p \o s) = Len(p) + n
      /\ \A i \in 1..(Len(p) + n) : (p \o s)[i] = IF i <= Len(p) THEN p[i] ELSE s[i - Len(p)]
  <2>1. s \in Paths
    BY <1>2 DEF Paths
  <2>2. /\ p \o s \in Paths /\ Len(p \o s) = Len(p) + Len(s)
        /\ \A i \in 1..(Len(p) + Len(s)) :
             (p \o s)[i] = IF i <= Len(p) THEN p[i] ELSE s[i - Len(p)]
    BY <2>1, ConcatIs
  <2> QED
    BY <1>2, <2>2 DEF Paths
<1>5. ASSUME NEW i \in 1..(Len(p) + n) PROVE t[i] = (p \o s)[i]
  <2>1. CASE i <= Len(p)
    BY <1>1, <1>3, <1>4, <2>1
  <2>2. CASE ~(i <= Len(p))
    <3>1. i - Len(p) \in 1..n /\ i \in 1..(Len(p) + Len(q))
      BY <1>1, <2>2
    <3> QED
      BY <1>1, <1>2, <1>3, <1>4, <2>2, <3>1
  <2> QED
    BY <2>1, <2>2
<1>6. t = p \o s
  BY <1>3, <1>4, <1>5, SeqEqual
<1> QED
  BY <1>1, <1>6 DEF s, t

LEMMA BelowIsATree ==
  ASSUME NEW v, IsTree(v), NEW root \in DOMAIN v
  PROVE  IsTree(Below(v, root))
<1>1. DOMAIN v \subseteq Paths /\ root \in Paths
  BY TreePaths
<1>2. <<>> \in Paths /\ root \o <<>> = root
  BY <1>1, ConcatEmptySeq, EmptySeq DEF Paths
<1>3. ASSUME NEW p \in Paths, root \o p \in DOMAIN v, NEW n \in 0..Len(p)
      PROVE  SubSeq(p, 1, n) \in Paths /\ root \o SubSeq(p, 1, n) \in DOMAIN v
  <2>1. SubSeq(p, 1, n) \in Paths
    BY Steps
  <2>2. /\ Len(root) + n \in 0..Len(root \o p)
        /\ SubSeq(root \o p, 1, Len(root) + n) = root \o SubSeq(p, 1, n)
    BY <1>1, StepsOfConcat
  <2>3. \A m \in 0..Len(root \o p) : SubSeq(root \o p, 1, m) \in DOMAIN v
    BY <1>3 DEF IsTree
  <2> QED
    BY <2>1, <2>2, <2>3
<1>4. DOMAIN Below(v, root) = {p \in Paths : root \o p \in DOMAIN v}
  BY <1>1, WhatIsBelow
<1>5. <<>> \in DOMAIN Below(v, root)
  BY <1>2, <1>4
<1>6. \A p \in DOMAIN Below(v, root) :
        p \in Paths /\ \A n \in 0..Len(p) : SubSeq(p, 1, n) \in DOMAIN Below(v, root)
  BY <1>3, <1>4
<1> QED
  BY <1>5, <1>6 DEF IsTree, Paths

-------------------------------------------------------------------------------
(* The validator.                                                            *)

LEMMA LeastNumber ==
  ASSUME NEW T, T \subseteq Nat, T # {}
  PROVE  \E m \in T : \A n \in T : m <= n
<1>1. IsWellFoundedOn(OpToRel(<, Nat), Nat)
  BY NatLessThanWellFounded
<1>2. \E m \in T : \A n \in T : <<n, m>> \notin OpToRel(<, Nat)
  BY <1>1, WFMin
<1>3. OpToRel(<, Nat) = {ss \in Nat \X Nat : ss[1] < ss[2]}
  BY DEF OpToRel
<1>4. PICK m \in T : \A n \in T : <<n, m>> \notin {ss \in Nat \X Nat : ss[1] < ss[2]}
  BY <1>2, <1>3
<1>5. ASSUME NEW n \in T PROVE m <= n
  <2>1. m \in Nat /\ n \in Nat /\ <<n, m>> \in Nat \X Nat
    OBVIOUS
  <2>2. ~(<<n, m>>[1] < <<n, m>>[2])
    BY <1>4, <2>1
  <2> QED
    BY <2>1, <2>2
<1> QED
  BY <1>5

LEMMA WhollyApplied ==
  ASSUME NEW v, NEW s, Violations(v, s) = {}
  PROVE  /\ \A p \in DOMAIN s : \A keyword \in DOMAIN s[p] : Supports(s[p], keyword)
         /\ \A p \in DOMAIN v : Descends(v, s, p) => CheckAt(v, s, p) = {}
<1>1. Unsupported(s) = {} /\ Check(v, s) = {}
  BY DEF Violations
<1>2. ASSUME NEW p \in DOMAIN s, NEW keyword \in DOMAIN s[p], ~Supports(s[p], keyword)
      PROVE  FALSE
  <2>1. <<p, "unsupported_schema", keyword>> \in Unsupported(s)
    BY <1>2 DEF Unsupported
  <2> QED
    BY <1>1, <2>1
<1>3. \A p \in DOMAIN v : Descends(v, s, p) => CheckAt(v, s, p) = {}
  BY <1>1 DEF Check
<1> QED
  BY <1>2, <1>3

\* _check reaches every value its schema governs: it stops at a value of the wrong
\* type only, and then there is a violation.
LEMMA GovernedIsReached ==
  ASSUME NEW v, IsTree(v), NEW s, IsTree(s), Violations(v, s) = {}, NEW p \in Governed(v, s)
  PROVE  Descends(v, s, p)
<1> DEFINE q(n) == SubSeq(p, 1, n)
           T == {n \in 0..(Len(p) - 1) : IsMistyped(v[q(n)], s[q(n)])}
<1>1. /\ p \in DOMAIN v /\ p \in DOMAIN s /\ p \in Paths
      /\ \A n \in 0..(Len(p) - 1) : IsMapping(v[q(n)])
  BY TreePaths DEF Governed
<1>2. Len(p) \in Nat
  BY <1>1, LenProperties DEF Paths
<1>3. ASSUME T # {} PROVE FALSE
  <2>1. PICK m \in T : \A n \in T : m <= n
    <3>1. T \subseteq Nat
      BY <1>2
    <3> HIDE DEF T
    <3> QED
      BY <1>3, <3>1, LeastNumber
  <2>2. m \in 0..Len(p) /\ m \in 0..(Len(p) - 1) /\ IsMistyped(v[q(m)], s[q(m)])
    BY <1>2, <2>1
  <2>3. q(m) \in Paths /\ Len(q(m)) = m /\ \A n \in 0..m : SubSeq(q(m), 1, n) = q(n)
    BY <1>1, <2>2, Steps
  <2>4. q(m) \in DOMAIN v /\ q(m) \in DOMAIN s
    BY <1>1, <2>2 DEF IsTree
  <2>5. ASSUME NEW n \in 0..(m - 1)
        PROVE  /\ SubSeq(q(m), 1, n) = q(n)
               /\ IsMapping(v[q(n)]) /\ ~IsMistyped(v[q(n)], s[q(n)])
    <3>1. n \in 0..m /\ n \in 0..(Len(p) - 1) /\ ~(m <= n)
      BY <1>2, <2>2
    <3> QED
      BY <1>1, <2>1, <2>3, <3>1
  <2> HIDE DEF T, q
  <2>6. Descends(v, s, q(m))
    BY <2>3, <2>4, <2>5 DEF Descends
  <2>7. CheckAt(v, s, q(m)) = {<<q(m), "wrong_type", s[q(m)]["type"].is>>}
    BY <2>2 DEF CheckAt
  <2> QED
    BY <2>4, <2>6, <2>7, WhollyApplied
<1>4. \A n \in 0..(Len(p) - 1) : ~IsMistyped(v[q(n)], s[q(n)])
  BY <1>3
<1> QED
  BY <1>1, <1>4 DEF Descends

LEMMA TypesAreJSONTypes ==
  ASSUME NEW x, NEW type, IsType(x, type)
  PROVE  HasJsonType(x, type)
BY DEF IsType, HasJsonType, IsMapping, IsSequence, Form, Literal

LEMMA NamesAreSteps ==
  ASSUME NEW v, IsTree(v), NEW p \in Paths
  PROVE  /\ \A n : Append(p, n) \in DOMAIN v => n \in NamesAt(v, p)
         /\ \A n \in NamesAt(v, p) :
              /\ Append(p, n) \in DOMAIN v
              /\ Len(Append(p, n)) = Len(p) + 1 /\ IsPrefix(p, Append(p, n))
<1>1. Len(p) \in Nat /\ DOMAIN v \subseteq Paths
  BY LenProperties, TreePaths DEF Paths
<1>2. ASSUME NEW n, Append(p, n) \in DOMAIN v PROVE n \in NamesAt(v, p)
  <2>1. /\ p \in Seq(Names \cup {n})
        /\ Len(Append(p, n)) = Len(p) + 1
        /\ \A i \in 1..Len(p) : Append(p, n)[i] = p[i]
        /\ Append(p, n)[Len(p) + 1] = n
    <3>1. p \in Seq(Names \cup {n})
      BY SeqMonotonic DEF Paths
    <3> QED
      BY <3>1, AppendProperties
  <2> DEFINE q == Append(p, n)
  <2>2. q \in Paths /\ Len(p) <= Len(q) /\ \A i \in 1..Len(p) : p[i] = q[i]
    BY <1>1, <1>2, <2>1
  <2> HIDE DEF q
  <2>3. IsPrefix(p, q)
    BY <2>2, PrefixIsElementwise
  <2> QED
    BY <1>2, <2>1, <2>3 DEF NamesAt, q
<1>3. ASSUME NEW n \in NamesAt(v, p)
      PROVE  /\ Append(p, n) \in DOMAIN v
             /\ Len(Append(p, n)) = Len(p) + 1 /\ IsPrefix(p, Append(p, n))
  <2>1. PICK q \in DOMAIN v : Len(q) = Len(p) + 1 /\ IsPrefix(p, q) /\ n = q[Len(q)]
    BY DEF NamesAt
  <2>2. q \in Paths /\ \A i \in 1..Len(p) : p[i] = q[i]
    BY <1>1, <2>1, PrefixIsElementwise
  <2>3. n \in Names
    BY <1>1, <2>1, <2>2, ElementOfSeq DEF Paths
  <2>4. /\ Append(p, n) \in Seq(Names) /\ Len(Append(p, n)) = Len(p) + 1
        /\ \A i \in 1..Len(p) : Append(p, n)[i] = p[i]
        /\ Append(p, n)[Len(p) + 1] = n
    BY <2>3, AppendProperties DEF Paths
  <2>5. \A i \in 1..Len(q) : Append(p, n)[i] = q[i]
    BY <1>1, <2>1, <2>2, <2>4
  <2>6. Append(p, n) = q
    BY <2>1, <2>2, <2>4, <2>5, SeqEqual DEF Paths
  <2> QED
    BY <2>1, <2>6
<1> QED
  BY <1>2, <1>3

LEMMA NumbersAreHalves ==
  ASSUME NEW x \in Values, x.kind \in {"int", "float", "bool"}
  PROVE  Halves(x) \in Int
<1>1. CASE x.kind = "int"
  BY <1>1 DEF Halves, Values, Common, Null
<1>2. CASE x.kind = "float"
  BY <1>2 DEF Halves, Values, Common, Null
<1>3. CASE x.kind = "bool"
  BY <1>3 DEF Halves
<1> QED
  BY <1>1, <1>2, <1>3

LEMMA ShapedBounds ==
  ASSUME NEW s, IsSchema(s), NEW p \in DOMAIN s, NEW keyword \in {"minimum", "maximum"},
         Says(s[p], keyword)
  PROVE  s[p][keyword].is \in Int
BY DEF IsSchema, Says, SupportedKeywords, KeywordShapes

\* An empty list of violations means what JSON Schema means by valid.
LEMMA CheckedIsSatisfied ==
  ASSUME NEW v, IsTree(v), \A p \in DOMAIN v : v[p] \in Values,
         NEW s, IsSchema(s), Violations(v, s) = {}
  PROVE  Satisfies(v, s)
<1> SUFFICES ASSUME NEW p \in Governed(v, s)
             PROVE  /\ \A keyword \in DOMAIN s[p] :
                         /\ Supports(s[p], keyword)
                         /\ Meets(v[p], NamesAt(v, p), keyword, s[p][keyword].is)
                    /\ IsMapping(v[p]) /\ "additionalProperties" \in DOMAIN s[p] =>
                         \A n \in NamesAt(v, p) :
                           Append(p, n) \in DOMAIN s \/ s[p]["additionalProperties"].is
  BY DEF Satisfies
<1> DEFINE x == v[p]
           sub == s[p]
<1>1. p \in DOMAIN v /\ p \in DOMAIN s /\ p \in Paths /\ x \in Values
  BY TreePaths DEF Governed
<1>2. Descends(v, s, p)
  BY RootedIsATree, GovernedIsReached DEF IsSchema
<1>3. /\ \A keyword \in DOMAIN sub : Supports(sub, keyword)
      /\ CheckAt(v, s, p) = {}
  BY <1>1, <1>2, WhollyApplied
<1>4. ~IsMistyped(x, sub) /\ Breaks(x, sub) = {}
      /\ (IsMapping(x) => Missing(v, s, p) = {} /\ Undeclared(v, s, p) = {})
  BY <1>3 DEF CheckAt
<1>5. \A keyword \in DOMAIN sub : Says(sub, keyword)
  BY <1>3 DEF Says, Supports
<1>6. ASSUME NEW keyword \in DOMAIN sub
      PROVE  Meets(x, NamesAt(v, p), keyword, sub[keyword].is)
  <2>1. CASE keyword = "type"
    <3>1. IsType(x, sub[keyword].is)
      BY <1>4, <1>5, <2>1 DEF IsMistyped
    <3> HIDE DEF x, sub
    <3> QED
      BY <2>1, <3>1, TypesAreJSONTypes DEF Meets
  <2>2. CASE keyword = "enum"
    <3>1. \E choice \in sub[keyword].is : PyEqual(x, choice)
      BY <1>4, <1>5, <2>2 DEF Breaks
    <3> HIDE DEF x, sub
    <3> QED
      BY <2>2, <3>1 DEF Meets
  <2>3. CASE keyword = "pattern"
    <3>1. ~(x.kind = "string" /\ x.text \notin sub[keyword].is)
      BY <1>4, <1>5, <2>3 DEF Breaks
    <3> HIDE DEF x, sub
    <3> QED
      BY <2>3, <3>1 DEF Meets
  <2>4. CASE keyword = "minimum"
    <3>1. ~(x.kind \in {"int", "float"} /\ Halves(x) < sub[keyword].is)
      BY <1>4, <1>5, <2>4 DEF Breaks
    <3>2. sub[keyword].is \in Int
      BY <1>1, <1>5, <2>4, ShapedBounds
    <3>3. x.kind \in {"int", "float"} => Halves(x) \in Int
      BY <1>1, NumbersAreHalves
    <3> HIDE DEF x, sub
    <3> QED
      BY <2>4, <3>1, <3>2, <3>3 DEF Meets
  <2>5. CASE keyword = "maximum"
    <3>1. ~(x.kind \in {"int", "float"} /\ Halves(x) > sub[keyword].is)
      BY <1>4, <1>5, <2>5 DEF Breaks
    <3>2. sub[keyword].is \in Int
      BY <1>1, <1>5, <2>5, ShapedBounds
    <3>3. x.kind \in {"int", "float"} => Halves(x) \in Int
      BY <1>1, NumbersAreHalves
    <3> HIDE DEF x, sub
    <3> QED
      BY <2>5, <3>1, <3>2, <3>3 DEF Meets
  <2>6. CASE keyword = "required"
    <3>1. IsMapping(x) => \A n \in sub[keyword].is : Append(p, n) \in DOMAIN v
      BY <1>4, <1>5, <2>6 DEF Missing
    <3>2. IsMapping(x) => sub[keyword].is \subseteq NamesAt(v, p)
      BY <1>1, <3>1, NamesAreSteps
    <3> HIDE DEF x, sub
    <3> QED
      BY <2>6, <3>2 DEF Meets
  <2>7. CASE keyword \notin {"type", "enum", "pattern", "minimum", "maximum", "required"}
    BY <2>7 DEF Meets
  <2> QED
    BY <2>1, <2>2, <2>3, <2>4, <2>5, <2>6, <2>7
<1>7. ASSUME IsMapping(x), "additionalProperties" \in DOMAIN sub, NEW n \in NamesAt(v, p)
      PROVE  Append(p, n) \in DOMAIN s \/ sub["additionalProperties"].is
  <2>1. /\ Append(p, n) \in DOMAIN v
        /\ Len(Append(p, n)) = Len(p) + 1 /\ IsPrefix(p, Append(p, n))
    BY <1>1, NamesAreSteps
  <2>2. Says(sub, "additionalProperties") /\ Undeclared(v, s, p) = {}
    BY <1>4, <1>5, <1>7
  <2> QED
    BY <2>1, <2>2 DEF Undeclared
<1> QED
  BY <1>3, <1>6, <1>7

-------------------------------------------------------------------------------
(* What an admitted call says.                                               *)

LEMMA LiteralsAreUnderstood ==
  ASSUME NEW x \in Literals, x.kind # "constant"
  PROVE  Understood(x) \in Values
<1>1. CASE x.kind \in {"literal", "decimal"}
  BY <1>1 DEF Understood, Literals, Values, Common, Null, IntOf, FloatOf
<1>2. CASE x.kind \in {"huge", "object", "array"}
  BY <1>2 DEF Understood, Values, Infinity, Dict, List
<1>3. CASE x.kind \notin {"literal", "decimal", "huge", "object", "array"}
  <2>1. Understood(x) = x
    BY <1>3 DEF Understood
  <2>2. x \in Common
    BY <1>3 DEF Literals
  <2> QED
    BY <2>1, <2>2 DEF Values
<1> QED
  BY <1>1, <1>2, <1>3

LEMMA ParsedOnce ==
  ASSUME NEW t, Parses(t)
  PROVE  /\ DOMAIN Value(t) = DOMAIN t.first
         /\ \A p \in DOMAIN t.first : Value(t)[p] = Understood(t.first[p])
         /\ Value(t) = FirstReading(t)
<1>1. DOMAIN t.again = {}
  BY DEF Parses
<1>2. (DOMAIN t.first \ Overwritten(t)) \cup DOMAIN t.again = DOMAIN t.first
  BY <1>1 DEF Overwritten
<1>3. Value(t) = [p \in DOMAIN t.first |-> Understood(t.first[p])]
  BY <1>1, <1>2 DEF Value
<1> QED
  BY <1>3 DEF FirstReading

LEMMA ParsedIsAValue ==
  ASSUME NEW t \in Texts, Parses(t)
  PROVE  /\ IsTree(Value(t))
         /\ \A p \in DOMAIN Value(t) : Value(t)[p] \in Values
         /\ Value(t)[<<>>] = Dict
<1>1. IsForm(t.first) /\ t.first[<<>>] = Object
  BY IntakeAssumption
<1>2. IsTree(Value(t))
  BY <1>1, ParsedOnce, RootedIsATree DEF IsForm, IsTree
<1>3. \A p \in DOMAIN Value(t) : Value(t)[p] \in Values
  BY <1>1, ParsedOnce, LiteralsAreUnderstood DEF IsForm, Parses
<1>4. Value(t)[<<>>] = Understood(Object)
  BY <1>1, ParsedOnce, RootedIsATree DEF IsForm, IsTree
<1> QED
  BY <1>2, <1>3, <1>4 DEF Understood, Object

Admitted(t, s) ==
  /\ t \in Texts /\ Parses(t)
  /\ <<"arguments">> \in DOMAIN Value(t) /\ IsMapping(Value(t)[<<"arguments">>])
  /\ Violations(ArgumentsOf(t), s) = {}

LEMMA ArgumentsAreAValue ==
  ASSUME NEW t, NEW s, Admitted(t, s)
  PROVE  /\ IsTree(ArgumentsOf(t))
         /\ \A p \in DOMAIN ArgumentsOf(t) : ArgumentsOf(t)[p] \in Values
<1>1. /\ IsTree(Value(t)) /\ <<"arguments">> \in DOMAIN Value(t)
      /\ \A p \in DOMAIN Value(t) : Value(t)[p] \in Values
  BY ParsedIsAValue DEF Admitted
<1>2. DOMAIN Value(t) \subseteq Paths
  BY <1>1, TreePaths
<1> QED
  BY <1>1, <1>2, BelowIsATree, WhatIsBelow DEF ArgumentsOf

-------------------------------------------------------------------------------
(* What holds of a call while it is at hand.                                 *)

TextInv ==
  /\ schema \in Schemas
  /\ text # None => Admitted(text, schema)

LEMMA AdmitsIsAdmitted ==
  ASSUME NEW t \in Texts, Admits(t, world)
  PROVE  Admitted(t, schema)
BY DEF Admits, Admitted

THEOREM CallsAreAdmitted == Spec => []TextInv
<1>1. Init => TextInv
  BY DEF Init, TextInv
<1>2. TextInv /\ [Next]_vars => TextInv'
  <2> SUFFICES ASSUME TextInv, [Next]_vars PROVE TextInv'
    OBVIOUS
  <2>1. schema' = schema
    BY DEF Next, Propose, Churns, AsksOtherwise, Change, RequestApproval, Decide, Evaluate,
           Execute, vars
  <2>2. CASE Propose
    <3>1. text' \in Texts /\ Admits(text', world)
      BY <2>2 DEF Propose
    <3> QED
      BY <2>1, <3>1, AdmitsIsAdmitted DEF TextInv
  <2>3. CASE UNCHANGED text
    BY <2>1, <2>3 DEF TextInv
  <2> QED
    BY <2>2, <2>3 DEF Next, Churns, AsksOtherwise, Change, RequestApproval, Decide, Evaluate,
                      Execute, vars
<1> QED
  BY <1>1, <1>2, PTL DEF Spec

\* An admitted call has one meaning, whichever of its keys a parser keeps: no key
\* of it is given twice (reject_duplicate_keys).
THEOREM CallsHaveOneMeaning == Spec => []OneMeaning
<1>1. TextInv => OneMeaning
  BY ParsedOnce DEF TextInv, Admitted, OneMeaning
<1> QED
  BY <1>1, CallsAreAdmitted, PTL

\* Whatever the schema, if the validator had nothing to say of a call's arguments
\* they satisfy every keyword of it, at every depth (ADR-0024).
THEOREM AcceptedMeansSatisfied == Spec => []AcceptedIsFullyChecked
<1>1. TextInv => AcceptedIsFullyChecked
  <2> SUFFICES ASSUME TextInv, text # None PROVE Satisfies(ArgumentsOf(text), schema)
    BY DEF AcceptedIsFullyChecked
  <2>1. Admitted(text, schema) /\ IsSchema(schema)
    BY IntakeAssumption DEF TextInv
  <2>2. /\ IsTree(ArgumentsOf(text)) /\ Violations(ArgumentsOf(text), schema) = {}
        /\ \A p \in DOMAIN ArgumentsOf(text) : ArgumentsOf(text)[p] \in Values
    BY <2>1, ArgumentsAreAValue DEF Admitted
  <2> QED
    BY <2>1, <2>2, CheckedIsSatisfied
<1> QED
  BY <1>1, CallsAreAdmitted, PTL

-------------------------------------------------------------------------------
(* The envelope is a document of values.                                     *)

IsValue(v) == DOMAIN v \subseteq Paths /\ \A p \in DOMAIN v : v[p] \in Tokens

LEMMA MergedIs ==
  ASSUME NEW f, NEW g
  PROVE  /\ DOMAIN (f ++ g) = DOMAIN f \cup DOMAIN g
         /\ \A p \in DOMAIN f : (f ++ g)[p] = f[p]
         /\ \A p \in DOMAIN g \ DOMAIN f : (f ++ g)[p] = g[p]
BY DEF ++

LEMMA MergedIsAValue ==
  ASSUME NEW f, NEW g, IsValue(f), IsValue(g)
  PROVE  IsValue(f ++ g)
BY DEF IsValue, ++

LEMMA OneIsAValue ==
  ASSUME NEW p \in Paths, NEW x \in Tokens
  PROVE  IsValue(At(p, x))
BY DEF IsValue, At

LEMMA UnderIsAValue ==
  ASSUME NEW v, IsValue(v), NEW root \in Paths
  PROVE  IsValue(Under(root, v))
<1>1. DOMAIN v \subseteq Paths /\ \A p \in DOMAIN v : v[p] \in Tokens
  BY DEF IsValue
<1>2. /\ DOMAIN Under(root, v) = {root \o q : q \in DOMAIN v}
      /\ \A q \in DOMAIN v : Under(root, v)[root \o q] = v[q]
  BY <1>1, WhatIsUnder
<1>3. \A q \in DOMAIN v : root \o q \in Paths
  BY <1>1, ConcatIs
<1> HIDE DEF IsValue
<1> QED
  BY <1>1, <1>2, <1>3 DEF IsValue

LEMMA KnownTokens ==
  /\ Dict \in Tokens /\ Tuple \in Tokens
  /\ \A n \in Int : IntOf(n) \in Tokens
  /\ \A t \in Names : Str(t) \in Tokens
<1> HIDE DEF Names
<1> QED
  BY DEF Dict, Tuple, IntOf, Str, Tokens, Values, Common, Null

Worlds == [Ask \cup Churn -> Revisions]

LEMMA WorldsAre ==
  ASSUME NEW w \in Worlds
  PROVE  /\ w.principal \in Int /\ w.hops \in Int /\ w.environment \in Int /\ w.bundle \in Int
         /\ w.agent_version \in Int /\ w.mode \in Int /\ w.fact \in Int
         /\ Hops(w) \subseteq Names
<1>1. \A aspect \in Ask \cup Churn : w[aspect] \in {1, 2}
  BY DEF Worlds, Revisions
<1>2. /\ w.principal \in {1, 2} /\ w.hops \in {1, 2} /\ w.environment \in {1, 2}
      /\ w.bundle \in {1, 2} /\ w.agent_version \in {1, 2} /\ w.mode \in {1, 2}
      /\ w.fact \in {1, 2}
  BY <1>1 DEF Ask, Churn
<1>3. Hops(w) \subseteq {"0", "1"}
  BY <1>2 DEF Hops
<1>4. Hops(w) \subseteq Names
  BY <1>3, KnownNames
<1> QED
  BY <1>2, <1>4

LEMMA ActorIsAValue ==
  ASSUME NEW w \in Worlds
  PROVE  IsValue(Actor(w))
<1> DEFINE f1 == At(<<>>, Dict)
           f2 == At(<<"agent_id">>, Str("agent"))
           f3 == At(<<"agent_version">>, IntOf(w.agent_version))
           f4 == At(<<"principal">>, IntOf(w.principal))
           f5 == At(<<"environment">>, IntOf(w.environment))
           f6 == At(<<"delegation_chain">>, Tuple)
           f7 == [p \in {<<"delegation_chain", hop>> : hop \in Hops(w)} |-> Dict]
           f8 == [p \in {<<"delegation_chain", hop, "principal">> : hop \in Hops(w)} |-> Str(p[2])]
<1>1. IsValue(f1) /\ IsValue(f2) /\ IsValue(f3)
  BY WorldsAre, ShortPaths, KnownNames, KnownTokens, OneIsAValue
<1>2. IsValue(f4) /\ IsValue(f5) /\ IsValue(f6)
  BY WorldsAre, ShortPaths, KnownNames, KnownTokens, OneIsAValue
<1>3. IsValue(f7)
  BY WorldsAre, ShortPaths, KnownNames, KnownTokens DEF IsValue
<1>4. IsValue(f8)
  BY WorldsAre, ShortPaths, KnownNames, KnownTokens DEF IsValue
<1>5. Actor(w) = f1 ++ f2 ++ f3 ++ f4 ++ f5 ++ f6 ++ f7 ++ f8
  BY DEF Actor
<1> HIDE DEF f1, f2, f3, f4, f5, f6, f7, f8
<1> QED
  BY <1>1, <1>2, <1>3, <1>4, <1>5, MergedIsAValue

LEMMA FactsAreAValue ==
  ASSUME NEW w \in Worlds
  PROVE  IsValue(Facts(w))
<1> DEFINE f1 == At(<<>>, Tuple)
           f2 == At(<<"0">>, Dict)
           f3 == At(<<"0", "status">>, Str(IF w.fact = 2 THEN "stale" ELSE "fresh"))
           f4 == [p \in IF w.fact = 2 THEN {} ELSE {<<"0", "value">>} |-> IntOf(w.fact)]
<1>1. IsValue(f1) /\ IsValue(f2)
  BY ShortPaths, KnownNames, KnownTokens, OneIsAValue
<1>2. IsValue(f3)
  BY ShortPaths, KnownNames, KnownTokens, OneIsAValue
<1>3. IsValue(f4)
  BY WorldsAre, ShortPaths, KnownNames, KnownTokens DEF IsValue
<1>4. Facts(w) = f1 ++ f2 ++ f3 ++ f4
  BY DEF Facts
<1> HIDE DEF f1, f2, f3, f4
<1> QED
  BY <1>1, <1>2, <1>3, <1>4, MergedIsAValue

LEMMA ContextIsAValue ==
  ASSUME NEW w \in Worlds, NEW stripped, stripped \subseteq Names
  PROVE  IsValue(Context(w, stripped))
<1> DEFINE f1 == At(<<>>, Dict)
           f2 == Under(<<"actor">>, Actor(w))
           f3 == Under(<<"facts">>, Facts(w))
           f4 == At(<<"action_class">>, Dict)
           f5 == At(<<"action_class", "mode">>, IntOf(w.mode))
           f6 == At(<<"policy_bundle">>, Dict)
           f7 == At(<<"policy_bundle", "digest">>, IntOf(w.bundle))
           f8 == At(<<"stripped_proposal_keys">>, Tuple)
           f9 == [p \in {<<"stripped_proposal_keys", key>> : key \in stripped} |-> Str(p[2])]
<1>1. IsValue(f1) /\ IsValue(f4) /\ IsValue(f5)
  BY WorldsAre, ShortPaths, KnownNames, KnownTokens, OneIsAValue
<1>2. IsValue(f6) /\ IsValue(f7) /\ IsValue(f8)
  BY WorldsAre, ShortPaths, KnownNames, KnownTokens, OneIsAValue
<1>3. IsValue(f2) /\ IsValue(f3)
  BY ShortPaths, KnownNames, ActorIsAValue, FactsAreAValue, UnderIsAValue
<1>4. IsValue(f9)
  BY ShortPaths, KnownNames, KnownTokens DEF IsValue
<1>5. Context(w, stripped) = f1 ++ f2 ++ f3 ++ f4 ++ f5 ++ f6 ++ f7 ++ f8 ++ f9
  BY DEF Context
<1> HIDE DEF f1, f2, f3, f4, f5, f6, f7, f8, f9
<1> QED
  BY <1>1, <1>2, <1>3, <1>4, <1>5, MergedIsAValue

Frozen(x) == IF IsMapping(x) THEN Proxy ELSE IF IsSequence(x) THEN Tuple ELSE x

LEMMA FrozenIsAToken ==
  ASSUME NEW x \in Tokens
  PROVE  Frozen(x) \in Tokens
BY DEF Frozen, Proxy, Tuple, Tokens, Values

LEMMA StrippedAreNames ==
  ASSUME NEW v, DOMAIN v \subseteq Paths
  PROVE  Stripped(v) \subseteq Names
<1> SUFFICES ASSUME NEW p \in DOMAIN v, Len(p) = 1 PROVE p[1] \in Names
  BY DEF Stripped
<1>1. p \in Seq(Names) /\ 1 \in 1..Len(p)
  BY DEF Paths
<1> QED
  BY <1>1, ElementOfSeq

\* An envelope before it is frozen.
Draft(t, w) ==
  At(<<>>, Dict) ++ Under(<<"proposal">>, Proposal(Value(t))) ++
  Under(<<"context">>, Context(w, Stripped(Value(t))))

LEMMA EnvelopeIsFrozen ==
  ASSUME NEW t, NEW w
  PROVE  /\ DOMAIN Envelope(t, w) = DOMAIN Draft(t, w)
         /\ \A p \in DOMAIN Draft(t, w) : Envelope(t, w)[p] = Frozen(Draft(t, w)[p])
<1>1. Envelope(t, w) = Freeze(Draft(t, w))
  BY DEF Envelope, Draft
<1> QED
  BY <1>1 DEF Freeze, Frozen

LEMMA ProposalIsAValue ==
  ASSUME NEW t \in Texts, Parses(t)
  PROVE  /\ IsValue(Proposal(Value(t)))
         /\ <<>> \in DOMAIN Proposal(Value(t)) /\ Proposal(Value(t))[<<>>] = Dict
<1>1. /\ IsTree(Value(t)) /\ Value(t)[<<>>] = Dict
      /\ \A p \in DOMAIN Value(t) : Value(t)[p] \in Tokens
  BY ParsedIsAValue DEF Tokens
<1>2. DOMAIN Value(t) \subseteq Paths
  BY <1>1, TreePaths
<1>3. IsValue(Proposal(Value(t)))
  BY <1>1, <1>2 DEF Proposal, IsValue
<1>4. <<>> \in DOMAIN Value(t)
  BY <1>1 DEF IsTree
<1> QED
  BY <1>1, <1>3, <1>4 DEF Proposal

LEMMA EnvelopeIsAValue ==
  ASSUME NEW t \in Texts, Parses(t), NEW w \in Worlds
  PROVE  IsValue(Envelope(t, w))
<1>1. DOMAIN Value(t) \subseteq Paths
  BY ParsedIsAValue, TreePaths
<1>2. IsValue(At(<<>>, Dict))
  BY ShortPaths, KnownTokens, OneIsAValue
<1>3. IsValue(Under(<<"proposal">>, Proposal(Value(t))))
  BY ProposalIsAValue, UnderIsAValue, ShortPaths, KnownNames
<1>4. IsValue(Under(<<"context">>, Context(w, Stripped(Value(t)))))
  BY <1>1, StrippedAreNames, ContextIsAValue, UnderIsAValue, ShortPaths, KnownNames
<1>5. IsValue(Draft(t, w))
  BY <1>2, <1>3, <1>4, MergedIsAValue DEF Draft
<1> QED
  BY <1>5, EnvelopeIsFrozen, FrozenIsAToken DEF IsValue

-------------------------------------------------------------------------------
(* What becomes of a value on the wire.                                      *)

DumpForm(x) == IF x.kind = "float" THEN Decimal(x.halves) ELSE Form(x)

\* What is read back is what was sent, save for the container a model keeps, and
\* for a whole float, which is an int by then.
Survives(x, y) ==
  \/ y = IF IsMapping(x) THEN Dict ELSE IF IsSequence(x) THEN List ELSE x
  \/ x.kind = "float" /\ y.kind = "int" /\ Halves(y) = Halves(x)

LEMMA FormsAre ==
  ASSUME NEW x
  PROVE  /\ x.kind = "int" => Form(x) = Literal(x.n)
         /\ x.kind = "float" => Form(x) = FormatFloat(x.halves)
         /\ x.kind \in {"dict", "proxy"} => Form(x) = Object
         /\ x.kind \in {"list", "tuple"} => Form(x) = Array
         /\ x.kind \notin {"int", "float", "dict", "proxy", "list", "tuple"} => Form(x) = x
BY DEF Form, IsMapping, IsSequence

LEMMA HalvesOfWholes ==
  ASSUME NEW h \in Int, h % 2 = 0
  PROVE  h \div 2 \in Int /\ 2 * (h \div 2) = h
OBVIOUS

LEMMA TokensComeBack ==
  ASSUME NEW x \in Tokens, x.kind # "infinity",
         NEW y \in {Understood(Form(x)), Understood(DumpForm(x))}
  PROVE  /\ y \in Tokens /\ Form(y) = Form(x) /\ Survives(x, y)
         /\ Form(x).kind # "constant" /\ DumpForm(x).kind # "constant"
<1>1. CASE x.kind = "int"
  <2>1. x = IntOf(x.n) /\ x.n \in Int
    BY <1>1 DEF Tokens, Values, Common, Null, IntOf
  <2>2. Form(x) = Literal(x.n) /\ DumpForm(x) = Literal(x.n)
    BY <1>1, FormsAre DEF DumpForm
  <2>3. y = x
    BY <2>1, <2>2 DEF Understood, Literal
  <2> QED
    BY <1>1, <2>2, <2>3 DEF Survives, IsMapping, IsSequence, Literal
<1>2. CASE x.kind = "float"
  <2>1. x = FloatOf(x.halves) /\ x.halves \in Int
    BY <1>2 DEF Tokens, Values, Common, Null, FloatOf
  <2>2. Form(x) = FormatFloat(x.halves) /\ DumpForm(x) = Decimal(x.halves)
    BY <1>2, FormsAre DEF DumpForm
  <2>3. Understood(Decimal(x.halves)) = x
    BY <2>1 DEF Understood, Decimal
  <2>4. CASE FormatFloat(x.halves) = Decimal(x.halves)
    BY <1>2, <2>2, <2>3, <2>4 DEF Survives, IsMapping, IsSequence, Decimal
  <2>5. CASE FormatFloat(x.halves) # Decimal(x.halves)
    <3>1. x.halves % 2 = 0 /\ FormatFloat(x.halves) = Literal(x.halves \div 2)
      BY <2>5 DEF FormatFloat
    <3>2. x.halves \div 2 \in Int /\ 2 * (x.halves \div 2) = x.halves
      BY <2>1, <3>1, HalvesOfWholes
    <3> DEFINE z == IntOf(x.halves \div 2)
    <3>3. Understood(Form(x)) = z
      BY <2>2, <3>1 DEF Understood, Literal
    <3>4. Form(z) = Form(x) /\ z \in Tokens
      <4>1. z \in Tokens
        BY <3>2 DEF IntOf, Tokens, Values
      <4>2. Form(z) = Literal(x.halves \div 2)
        BY FormsAre DEF IntOf
      <4> QED
        BY <2>2, <3>1, <4>1, <4>2
    <3>5. Halves(z) = Halves(x) /\ z.kind = "int"
      BY <1>2, <3>2 DEF Halves, IntOf
    <3>6. Survives(x, z) /\ Survives(x, x)
      BY <1>2, <3>5 DEF Survives, IsMapping, IsSequence
    <3>7. Form(x).kind # "constant" /\ DumpForm(x).kind # "constant"
      BY <2>2, <3>1 DEF Literal, Decimal
    <3> HIDE DEF z
    <3> QED
      BY <2>2, <2>3, <3>3, <3>4, <3>6, <3>7
  <2> QED
    BY <2>4, <2>5
<1>3. CASE x.kind \in {"dict", "proxy"}
  <2>1. Form(x) = Object /\ DumpForm(x) = Object
    BY <1>3, FormsAre DEF DumpForm
  <2>2. y = Dict
    BY <2>1 DEF Understood, Object
  <2>3. Form(Dict) = Object
    BY FormsAre DEF Dict
  <2> QED
    BY <1>3, <2>1, <2>2, <2>3, KnownTokens DEF Survives, IsMapping, Object
<1>4. CASE x.kind \in {"list", "tuple"}
  <2>1. Form(x) = Array /\ DumpForm(x) = Array
    BY <1>4, FormsAre DEF DumpForm
  <2>2. y = List
    BY <2>1 DEF Understood, Array
  <2>3. List \in Tokens /\ Form(List) = Array
    BY FormsAre DEF List, Tokens, Values
  <2> QED
    BY <1>4, <2>1, <2>2, <2>3 DEF Survives, IsMapping, IsSequence, Array
<1>5. CASE x.kind \in {"null", "bool", "string"}
  <2>1. Form(x) = x /\ DumpForm(x) = x
    BY <1>5, FormsAre DEF DumpForm
  <2>2. y = x
    BY <1>5, <2>1 DEF Understood
  <2> QED
    BY <1>5, <2>1, <2>2 DEF Survives, IsMapping, IsSequence
<1>6. x.kind \in {"null", "bool", "string", "int", "float", "infinity", "dict", "proxy", "list", "tuple"}
  BY DEF Tokens, Values, Common, Null
<1> QED
  BY <1>1, <1>2, <1>3, <1>4, <1>5, <1>6

\* A document and what is read back of it.
Alike(v, u) ==
  /\ DOMAIN u = DOMAIN v
  /\ \A p \in DOMAIN v :
       /\ v[p] \in Tokens /\ u[p] \in Tokens /\ v[p].kind # "infinity"
       /\ Form(u[p]) = Form(v[p]) /\ Survives(v[p], u[p])

LEMMA WiresAreAlike ==
  ASSUME NEW v, IsValue(v), Writable(v), NEW wire \in Wires(v)
  PROVE  Parses(wire) /\ Alike(v, Value(wire))
<1> DEFINE W(p) == wire.first[p]
<1>1. /\ DOMAIN wire.first = DOMAIN v /\ DOMAIN wire.again = {}
      /\ \A p \in DOMAIN v : W(p) \in {Form(v[p]), DumpForm(v[p])}
  <2>1. CASE wire = Once(Canonicalize(v))
    BY <2>1 DEF Once, Canonicalize
  <2>2. CASE wire = Once(Dumps(v))
    BY <2>2 DEF Once, Dumps, DumpForm
  <2> QED
    BY <2>1, <2>2 DEF Wires
<1>2. \A p \in DOMAIN v : v[p] \in Tokens /\ v[p].kind # "infinity"
  BY DEF IsValue, Writable
<1>3. ASSUME NEW p \in DOMAIN v
      PROVE  /\ W(p).kind # "constant" /\ Understood(W(p)) \in Tokens
             /\ Form(Understood(W(p))) = Form(v[p]) /\ Survives(v[p], Understood(W(p)))
  <2> DEFINE x == v[p]
             form == W(p)
  <2>1. x \in Tokens /\ x.kind # "infinity" /\ form \in {Form(x), DumpForm(x)}
    BY <1>1, <1>2
  <2> HIDE DEF x, form
  <2> QED
    BY <2>1, TokensComeBack DEF x, form
<1>4. Parses(wire)
  BY <1>1, <1>3 DEF Parses
<1>5. DOMAIN Value(wire) = DOMAIN v /\ \A p \in DOMAIN v : Value(wire)[p] = Understood(W(p))
  BY <1>1, <1>4, ParsedOnce
<1> HIDE DEF W
<1> QED
  BY <1>2, <1>3, <1>4, <1>5 DEF Alike

LEMMA SurvivorsAre ==
  ASSUME NEW x \in Tokens, NEW y \in Tokens, x.kind # "infinity", Survives(x, y)
  PROVE  /\ y.kind # "infinity"
         /\ y.kind = "string" => y = x
         /\ IsMapping(y) <=> IsMapping(x)
         /\ IsSequence(y) <=> IsSequence(x)
         /\ y.kind \in {"int", "float"} <=> x.kind \in {"int", "float"}
<1>1. CASE x.kind = "float" /\ y.kind = "int"
  BY <1>1 DEF IsMapping, IsSequence
<1>2. CASE IsMapping(x)
  BY <1>2 DEF Survives, IsMapping, IsSequence, Dict
<1>3. CASE IsSequence(x)
  BY <1>3 DEF Survives, IsMapping, IsSequence, List
<1>4. CASE ~IsMapping(x) /\ ~IsSequence(x) /\ y = x
  BY <1>4
<1> QED
  BY <1>1, <1>2, <1>3, <1>4 DEF Survives

LEMMA AlikeDigests ==
  ASSUME NEW v, NEW u, Alike(v, u)
  PROVE  Digest(u) = Digest(v) /\ (HasDigest(v) => HasDigest(u))
<1>1. DOMAIN u = DOMAIN v /\ \A p \in DOMAIN v : Form(u[p]) = Form(v[p])
  BY DEF Alike
<1>2. Digest(u) = Digest(v)
  BY <1>1 DEF Digest, Canonicalize
<1>3. ASSUME NEW p \in DOMAIN v
      PROVE  /\ u[p].kind # "infinity"
             /\ u[p].kind = "string" => u[p] = v[p]
             /\ IsMapping(u[p]) <=> IsMapping(v[p])
             /\ IsSequence(u[p]) <=> IsSequence(v[p])
             /\ u[p].kind \in {"int", "float"} <=> v[p].kind \in {"int", "float"}
  BY <1>1, SurvivorsAre DEF Alike
<1>4. ASSUME HasDigest(v) PROVE Writable(u)
  <2>1. Writable(v)
    BY <1>4 DEF HasDigest
  <2> QED
    BY <1>1, <1>3, <2>1 DEF Writable
<1>5. ASSUME NEW p \in DOMAIN v, RendersAsUnsafeInteger(u[p]) PROVE RendersAsUnsafeInteger(v[p])
  BY <1>1, <1>3, <1>5 DEF RendersAsUnsafeInteger
<1> QED
  BY <1>1, <1>2, <1>4, <1>5 DEF HasDigest

LEMMA AlikeProjections ==
  ASSUME NEW v, NEW u, Alike(v, u)
  PROVE  Alike(Projected(v), Projected(u))
<1> DEFINE D(w) == {q \in DOMAIN w : \E path \in ProposalDigestProjection :
                                       IsPrefix(path, q) \/ IsPrefix(q, path)}
<1>1. Projected(v) = [p \in D(v) |-> v[p]] /\ Projected(u) = [p \in D(u) |-> u[p]]
  BY DEF Projected, Project
<1>2. DOMAIN u = DOMAIN v
  BY DEF Alike
<1>3. D(u) = D(v) /\ D(v) \subseteq DOMAIN v
  BY <1>2
<1> HIDE DEF D
<1> QED
  BY <1>1, <1>3 DEF Alike

LEMMA EncodingsAgree ==
  ASSUME NEW v, IsValue(v), HasBothDigests(v), NEW wire \in Wires(v)
  PROVE  /\ Accepts(wire, EnvelopeDigest(v))
         /\ HasProposalDigest(Value(wire))
         /\ ProposalDigest(Value(wire)) = ProposalDigest(v)
<1>1. Parses(wire) /\ Alike(v, Value(wire))
  BY WiresAreAlike DEF HasBothDigests, HasDigest
<1>2. Accepts(wire, EnvelopeDigest(v))
  BY <1>1, AlikeDigests DEF Accepts, EnvelopeDigest, HasBothDigests
<1>3. Alike(Projected(v), Projected(Value(wire))) /\ DOMAIN Value(wire) = DOMAIN v
  BY <1>1, AlikeProjections DEF Alike
<1> QED
  BY <1>2, <1>3, AlikeDigests DEF HasProposalDigest, ProposalDigest, HasBothDigests

-------------------------------------------------------------------------------
(* Types, and the digests of an envelope.                                    *)

ApprovalStates == {"pending", "approved", "rejected", "consumed", "void"}

IsApproval(a) ==
  /\ DOMAIN a = {"state", "proposal_digest", "policy_bundle_digest", "ask"}
  /\ a.state \in ApprovalStates

TypeInv ==
  /\ world \in Worlds
  /\ moves \in 0..MaxMoves
  /\ approval # None => IsApproval(approval)

LEMMA ChangesStayInTheWorld ==
  ASSUME NEW aspects, aspects \subseteq Ask \cup Churn, TypeInv, Change(aspects)
  PROVE  world' \in Worlds /\ moves' \in 0..MaxMoves
<1>1. PICK aspect \in aspects, r \in Revisions : world' = [world EXCEPT ![aspect] = r]
  BY DEF Change
<1>2. world' \in Worlds
  BY <1>1 DEF TypeInv, Worlds
<1>3. moves < MaxMoves /\ moves' = moves + 1 /\ moves \in 0..MaxMoves /\ MaxMoves \in Nat
  BY IntakeAssumption DEF Change, TypeInv
<1> QED
  BY <1>2, <1>3

LEMMA TypesAreKept == Spec => []TypeInv
<1>1. Init => TypeInv
  <2> SUFFICES ASSUME Init PROVE TypeInv
    OBVIOUS
  <2>1. world \in Worlds
    BY DEF Init, Worlds, Revisions
  <2> QED
    BY <2>1, IntakeAssumption DEF Init, TypeInv
<1>2. TypeInv /\ [Next]_vars => TypeInv'
  <2> SUFFICES ASSUME TypeInv, [Next]_vars PROVE TypeInv'
    OBVIOUS
  <2>1. CASE Propose
    <3>1. moves' \in 0..MaxMoves
      BY <2>1, IntakeAssumption DEF Propose, TypeInv
    <3> QED
      BY <2>1, <3>1 DEF Propose, TypeInv
  <2>2. CASE Churns \/ AsksOtherwise
    <3>1. world' \in Worlds /\ moves' \in 0..MaxMoves
      BY <2>2, ChangesStayInTheWorld DEF Churns, AsksOtherwise
    <3> QED
      BY <2>2, <3>1 DEF Churns, AsksOtherwise, Change, TypeInv
  <2>3. CASE RequestApproval
    <3>1. IsApproval(approval')
      BY <2>3 DEF RequestApproval, IsApproval, ApprovalStates
    <3> QED
      BY <2>3, <3>1 DEF RequestApproval, TypeInv
  <2>4. CASE Decide
    <3>1. IsApproval(approval')
      BY <2>4 DEF Decide, TypeInv, IsApproval, ApprovalStates
    <3> QED
      BY <2>4, <3>1 DEF Decide, TypeInv
  <2>5. CASE Evaluate
    <3>1. IsApproval(approval')
      BY <2>5 DEF Evaluate, TypeInv, IsApproval, ApprovalStates
    <3> QED
      BY <2>5, <3>1 DEF Evaluate, TypeInv
  <2>6. CASE Execute \/ UNCHANGED vars
    BY <2>6 DEF Execute, vars, TypeInv
  <2> QED
    BY <2>1, <2>2, <2>3, <2>4, <2>5, <2>6 DEF Next
<1> QED
  BY <1>1, <1>2, PTL DEF Spec

\* Every variable keeps its type: a call at hand is one of the texts, a revision is
\* one of the two, an approval is in one of its states (ApprovalState).
THEOREM TypeCorrect == Spec => []TypeOK
<1>1. TypeInv /\ TextInv => TypeOK
  BY DEF TypeInv, TextInv, Admitted, TypeOK, Worlds, IsApproval, ApprovalStates
<1> QED
  BY <1>1, TypesAreKept, CallsAreAdmitted, PTL

\* What the gateway digests the broker digests to the same, from the canonical text
\* or from any other encoding of the document, for every document (jcs.py).
THEOREM TheBrokerAgrees == Spec => []BrokerAgrees
<1>1. TypeInv /\ TextInv => BrokerAgrees
  <2> SUFFICES ASSUME TypeInv, TextInv, text # None, HasBothDigests(EnvelopeNow)
               PROVE  \A wire \in Wires(EnvelopeNow) :
                        /\ Accepts(wire, EnvelopeDigest(EnvelopeNow))
                        /\ HasProposalDigest(Value(wire))
                        /\ ProposalDigest(Value(wire)) = ProposalDigest(EnvelopeNow)
    BY DEF BrokerAgrees
  <2>1. IsValue(EnvelopeNow)
    BY EnvelopeIsAValue DEF EnvelopeNow, TypeInv, TextInv, Admitted
  <2> QED
    BY <2>1, EncodingsAgree
<1> QED
  BY <1>1, TypesAreKept, CallsAreAdmitted, PTL

-------------------------------------------------------------------------------
(* Where things stand in an envelope.                                        *)

\* A document that is all below one name.
Starts(f, a) == \A p \in DOMAIN f : Len(p) >= 1 /\ p[1] = a

LEMMA UnderStarts ==
  ASSUME NEW v, DOMAIN v \subseteq Paths, NEW a \in Names
  PROVE  Starts(Under(<<a>>, v), a)
<1>1. <<a>> \in Paths /\ Len(<<a>>) = 1 /\ <<a>>[1] = a
  BY ShortPaths
<1>2. ASSUME NEW q \in DOMAIN v PROVE Len(<<a>> \o q) >= 1 /\ (<<a>> \o q)[1] = a
  BY <1>1, ConcatIs
<1>3. DOMAIN Under(<<a>>, v) = {<<a>> \o q : q \in DOMAIN v}
  BY <1>1, WhatIsUnder
<1> QED
  BY <1>2, <1>3 DEF Starts

LEMMA OneStarts ==
  /\ \A a, x : Starts(At(<<a>>, x), a)
  /\ \A a, b, x : Starts(At(<<a, b>>, x), a)
BY DEF Starts, At

LEMMA FirstStays ==
  ASSUME NEW f, NEW g, NEW p \in DOMAIN f
  PROVE  p \in DOMAIN (f ++ g) /\ (f ++ g)[p] = f[p]
BY MergedIs

LEMMA BehindIs ==
  ASSUME NEW f, NEW g, NEW p, p \notin DOMAIN f
  PROVE  /\ p \in DOMAIN (f ++ g) <=> p \in DOMAIN g
         /\ p \in DOMAIN g => (f ++ g)[p] = g[p]
BY DEF ++

LEMMA MergedHas ==
  ASSUME NEW f, NEW g, NEW p
  PROVE  p \in DOMAIN (f ++ g) <=> p \in DOMAIN f \/ p \in DOMAIN g
BY DEF ++

LEMMA RootStays ==
  ASSUME NEW p \in Paths
  PROVE  p \o <<>> = p
BY ConcatEmptySeq DEF Paths

LEMMA ActorIsADict ==
  ASSUME NEW w
  PROVE  <<>> \in DOMAIN Actor(w) /\ Actor(w)[<<>>] = Dict
<1> DEFINE f1 == At(<<>>, Dict)
           f2 == At(<<"agent_id">>, Str("agent"))
           f3 == At(<<"agent_version">>, IntOf(w.agent_version))
           f4 == At(<<"principal">>, IntOf(w.principal))
           f5 == At(<<"environment">>, IntOf(w.environment))
           f6 == At(<<"delegation_chain">>, Tuple)
           f7 == [p \in {<<"delegation_chain", hop>> : hop \in Hops(w)} |-> Dict]
           f8 == [p \in {<<"delegation_chain", hop, "principal">> : hop \in Hops(w)} |-> Str(p[2])]
<1>1. <<>> \in DOMAIN f1 /\ f1[<<>>] = Dict
  BY DEF At
<1>2. Actor(w) = f1 ++ f2 ++ f3 ++ f4 ++ f5 ++ f6 ++ f7 ++ f8
  BY DEF Actor
<1> HIDE DEF f1, f2, f3, f4, f5, f6, f7, f8
<1> QED
  BY <1>1, <1>2, FirstStays

LEMMA ContextHas ==
  ASSUME NEW w \in Worlds, NEW stripped, stripped \subseteq Names
  PROVE  LET c == Context(w, stripped) IN
         /\ <<>> \in DOMAIN c /\ c[<<>>] = Dict
         /\ <<"actor">> \in DOMAIN c /\ c[<<"actor">>] = Dict
         /\ <<"policy_bundle">> \in DOMAIN c /\ c[<<"policy_bundle">>] = Dict
         /\ <<"policy_bundle", "digest">> \in DOMAIN c
         /\ c[<<"policy_bundle", "digest">>] = IntOf(w.bundle)
         /\ \A p \in DOMAIN c : Len(p) >= 1 /\ p[1] = "policy_bundle" =>
              p \in {<<"policy_bundle">>, <<"policy_bundle", "digest">>}
<1> DEFINE f1 == At(<<>>, Dict)
           f2 == Under(<<"actor">>, Actor(w))
           f3 == Under(<<"facts">>, Facts(w))
           f4 == At(<<"action_class">>, Dict)
           f5 == At(<<"action_class", "mode">>, IntOf(w.mode))
           f6 == At(<<"policy_bundle">>, Dict)
           f7 == At(<<"policy_bundle", "digest">>, IntOf(w.bundle))
           f8 == At(<<"stripped_proposal_keys">>, Tuple)
           f9 == [p \in {<<"stripped_proposal_keys", key>> : key \in stripped} |-> Str(p[2])]
           g == f1 ++ f2 ++ f3 ++ f4 ++ f5
           c == Context(w, stripped)
<1>1. DOMAIN f1 = {<<>>} /\ f1[<<>>] = Dict /\ Len(<<>>) = 0
  BY DEF At
<1>2. /\ <<"actor">> \in DOMAIN f2 /\ f2[<<"actor">>] = Dict
      /\ Starts(f2, "actor")
  <2>1. <<>> \in DOMAIN Actor(w) /\ Actor(w)[<<>>] = Dict
    BY ActorIsADict
  <2>2. DOMAIN Actor(w) \subseteq Paths
    BY ActorIsAValue DEF IsValue
  <2>3. <<"actor">> \in Paths /\ "actor" \in Names
    BY ShortPaths, KnownNames
  <2>4. <<"actor">> \o <<>> = <<"actor">>
    BY <2>3, RootStays
  <2> QED
    BY <2>1, <2>2, <2>3, <2>4, WhatIsUnder, UnderStarts
<1>3. Starts(f3, "facts")
  BY FactsAreAValue, UnderStarts, KnownNames DEF IsValue
<1>4. Starts(f4, "action_class") /\ Starts(f5, "action_class")
  BY OneStarts
<1>5. /\ DOMAIN f6 = {<<"policy_bundle">>} /\ f6[<<"policy_bundle">>] = Dict
      /\ DOMAIN f7 = {<<"policy_bundle", "digest">>}
      /\ f7[<<"policy_bundle", "digest">>] = IntOf(w.bundle)
  BY DEF At
<1>6. Starts(f8, "stripped_proposal_keys") /\ Starts(f9, "stripped_proposal_keys")
  BY OneStarts DEF Starts
<1>7. c = g ++ f6 ++ f7 ++ f8 ++ f9
  BY Zenon DEF Context
<1> HIDE DEF f1, f2, f3, f4, f5, f6, f7, f8, f9, c, g
<1>8. /\ DOMAIN g = DOMAIN f1 \cup DOMAIN f2 \cup DOMAIN f3 \cup DOMAIN f4 \cup DOMAIN f5
      /\ \A p \in DOMAIN f1 : g[p] = f1[p]
      /\ \A p \in DOMAIN f2 \ DOMAIN f1 : g[p] = f2[p]
  <2> DEFINE h2 == f1 ++ f2
             h3 == h2 ++ f3
             h4 == h3 ++ f4
  <2>1. /\ DOMAIN h2 = DOMAIN f1 \cup DOMAIN f2
        /\ \A p \in DOMAIN f1 : h2[p] = f1[p]
        /\ \A p \in DOMAIN f2 \ DOMAIN f1 : h2[p] = f2[p]
    BY MergedIs
  <2> HIDE DEF h2
  <2>2. DOMAIN h3 = DOMAIN h2 \cup DOMAIN f3 /\ \A p \in DOMAIN h2 : h3[p] = h2[p]
    BY MergedIs
  <2> HIDE DEF h3
  <2>3. DOMAIN h4 = DOMAIN h3 \cup DOMAIN f4 /\ \A p \in DOMAIN h3 : h4[p] = h3[p]
    BY MergedIs
  <2> HIDE DEF h4
  <2>4. g = h4 ++ f5
    BY DEF g, h2, h3, h4
  <2>5. DOMAIN g = DOMAIN h4 \cup DOMAIN f5 /\ \A p \in DOMAIN h4 : g[p] = h4[p]
    BY <2>4, MergedIs
  <2> QED
    BY <2>1, <2>2, <2>3, <2>5
<1>9. \A p \in DOMAIN g : Len(p) >= 1 => p[1] # "policy_bundle"
  BY <1>1, <1>2, <1>3, <1>4, <1>8 DEF Starts
<1>10. /\ DOMAIN c = DOMAIN g \cup DOMAIN f6 \cup DOMAIN f7 \cup DOMAIN f8 \cup DOMAIN f9
       /\ \A p \in DOMAIN g : c[p] = g[p]
       /\ \A p \in DOMAIN f6 : p \notin DOMAIN g => c[p] = f6[p]
       /\ \A p \in DOMAIN f7 : p \notin DOMAIN g \cup DOMAIN f6 => c[p] = f7[p]
  <2> DEFINE h6 == g ++ f6
             h7 == h6 ++ f7
             h8 == h7 ++ f8
  <2>1. /\ DOMAIN h6 = DOMAIN g \cup DOMAIN f6
        /\ \A p \in DOMAIN g : h6[p] = g[p]
        /\ \A p \in DOMAIN f6 \ DOMAIN g : h6[p] = f6[p]
    BY MergedIs
  <2> HIDE DEF h6
  <2>2. /\ DOMAIN h7 = DOMAIN h6 \cup DOMAIN f7
        /\ \A p \in DOMAIN h6 : h7[p] = h6[p]
        /\ \A p \in DOMAIN f7 \ DOMAIN h6 : h7[p] = f7[p]
    BY MergedIs
  <2> HIDE DEF h7
  <2>3. DOMAIN h8 = DOMAIN h7 \cup DOMAIN f8 /\ \A p \in DOMAIN h7 : h8[p] = h7[p]
    BY MergedIs
  <2> HIDE DEF h8
  <2>4. c = h8 ++ f9
    BY <1>7 DEF h6, h7, h8
  <2>5. DOMAIN c = DOMAIN h8 \cup DOMAIN f9 /\ \A p \in DOMAIN h8 : c[p] = h8[p]
    BY <2>4, MergedIs
  <2>6. \A p \in DOMAIN h7 : c[p] = h7[p]
    BY <2>3, <2>5
  <2> QED
    BY <2>1, <2>2, <2>3, <2>5, <2>6
<1>11. <<>> \in DOMAIN c /\ c[<<>>] = Dict
  BY <1>1, <1>8, <1>10
<1>12. <<"actor">> \in DOMAIN c /\ c[<<"actor">>] = Dict
  BY <1>1, <1>2, <1>8, <1>10
<1>13. <<"policy_bundle">> \in DOMAIN c /\ c[<<"policy_bundle">>] = Dict
  BY <1>5, <1>9, <1>10
<1>14. /\ <<"policy_bundle", "digest">> \in DOMAIN c
       /\ c[<<"policy_bundle", "digest">>] = IntOf(w.bundle)
  BY <1>5, <1>9, <1>10
<1>15. \A p \in DOMAIN c : Len(p) >= 1 /\ p[1] = "policy_bundle" =>
         p \in {<<"policy_bundle">>, <<"policy_bundle", "digest">>}
  BY <1>5, <1>6, <1>9, <1>10 DEF Starts
<1> QED
  BY <1>11, <1>12, <1>13, <1>14, <1>15 DEF c

LEMMA ConcatCancels ==
  ASSUME NEW a \in Paths, NEW p \in Paths, NEW r \in Paths, a \o p = a \o r
  PROVE  p = r
<1>1. SubSeq(a \o p, Len(a) + 1, Len(a \o p)) = p
  BY PathsExtend
<1>2. SubSeq(a \o r, Len(a) + 1, Len(a \o r)) = r
  BY PathsExtend
<1> QED
  BY <1>1, <1>2

LEMMA TwoNames ==
  ASSUME NEW a \in Names, NEW b \in Names
  PROVE  <<a>> \o <<b>> = <<a, b>>
<1>1. <<a>> \in Paths /\ <<b>> \in Paths /\ <<a, b>> \in Paths
  BY ShortPaths
<1> DEFINE q == <<a>> \o <<b>>
<1>2. q \in Paths /\ Len(q) = 2 /\ q[1] = a /\ q[2] = b
  <2>1. Len(<<a>>) = 1 /\ Len(<<b>>) = 1 /\ <<a>>[1] = a /\ <<b>>[1] = b
    OBVIOUS
  <2> QED
    BY <1>1, <2>1, ConcatIs
<1> HIDE DEF q
<1>3. Len(<<a, b>>) = 2 /\ <<a, b>>[1] = a /\ <<a, b>>[2] = b
  OBVIOUS
<1>4. \A i \in 1..2 : q[i] = <<a, b>>[i]
  BY <1>2, <1>3
<1>5. q = <<a, b>>
  BY <1>1, <1>2, <1>3, <1>4, SeqEqual DEF Paths
<1> QED
  BY <1>5 DEF q

LEMMA UnderContext ==
  ASSUME NEW t \in Texts, Parses(t), NEW w \in Worlds, NEW p \in Paths
  PROVE  LET c == Context(w, Stripped(Value(t)))
             q == <<"context">> \o p IN
         /\ q \in DOMAIN Envelope(t, w) <=> p \in DOMAIN c
         /\ p \in DOMAIN c => Envelope(t, w)[q] = Frozen(c[p])
<1> DEFINE c == Context(w, Stripped(Value(t)))
           q == <<"context">> \o p
           top == At(<<>>, Dict)
           mine == Under(<<"proposal">>, Proposal(Value(t)))
           rest == Under(<<"context">>, c)
<1>1. <<"context">> \in Paths /\ <<"proposal">> \in Paths /\ "proposal" \in Names
  BY ShortPaths, KnownNames
<1>2. DOMAIN c \subseteq Paths
  BY ParsedIsAValue, TreePaths, StrippedAreNames, ContextIsAValue DEF IsValue
<1>3. Len(q) >= 1 /\ q[1] = "context"
  BY <1>1, ConcatIs
<1>4. q \notin DOMAIN top /\ q \notin DOMAIN mine
  <2>1. Starts(mine, "proposal")
    BY <1>1, ProposalIsAValue, UnderStarts DEF IsValue
  <2> HIDE DEF q, mine
  <2>2. q \notin DOMAIN top
    BY <1>3 DEF At
  <2> QED
    BY <1>3, <2>1, <2>2 DEF Starts
<1>5. /\ q \in DOMAIN rest <=> p \in DOMAIN c
      /\ p \in DOMAIN c => rest[q] = c[p]
  <2> HIDE DEF c
  <2>1. /\ DOMAIN rest = {<<"context">> \o r : r \in DOMAIN c}
        /\ \A r \in DOMAIN c : rest[<<"context">> \o r] = c[r]
    BY <1>1, <1>2, WhatIsUnder
  <2>2. ASSUME NEW r \in DOMAIN c, q = <<"context">> \o r PROVE r = p
    BY <1>1, <1>2, <2>2, ConcatCancels
  <2> HIDE DEF rest
  <2> QED
    BY <2>1, <2>2
<1>6. Draft(t, w) = top ++ mine ++ rest
  BY DEF Draft
<1> HIDE DEF top, mine, rest, q, c
<1>7. /\ q \in DOMAIN Draft(t, w) <=> q \in DOMAIN rest
      /\ q \in DOMAIN rest => Draft(t, w)[q] = rest[q]
  <2> DEFINE both == top ++ mine
  <2>1. q \notin DOMAIN both
    BY <1>4, MergedIs
  <2>2. Draft(t, w) = both ++ rest
    BY <1>6
  <2> HIDE DEF both
  <2>3. /\ q \in DOMAIN (both ++ rest) <=> q \in DOMAIN rest
        /\ q \in DOMAIN rest => (both ++ rest)[q] = rest[q]
    BY <2>1, BehindIs
  <2> QED
    BY <2>2, <2>3
<1> QED
  BY <1>5, <1>7, EnvelopeIsFrozen DEF c, q

LEMMA EnvelopeHas ==
  ASSUME NEW t \in Texts, Parses(t), NEW w \in Worlds
  PROVE  LET e == Envelope(t, w) IN
         /\ {<<>>, <<"proposal">>, <<"context">>, <<"context", "actor">>,
             <<"context", "policy_bundle">>} \subseteq DOMAIN e
         /\ e[<<>>] = Proxy /\ e[<<"proposal">>] = Proxy /\ e[<<"context">>] = Proxy
         /\ e[<<"context", "actor">>] = Proxy /\ e[<<"context", "policy_bundle">>] = Proxy
<1> DEFINE e == Envelope(t, w)
           c == Context(w, Stripped(Value(t)))
           top == At(<<>>, Dict)
           mine == Under(<<"proposal">>, Proposal(Value(t)))
           rest == Under(<<"context">>, c)
<1>1. Frozen(Dict) = Proxy
  BY DEF Frozen, Dict, IsMapping
<1>2. /\ <<>> \in Paths /\ <<"actor">> \in Paths /\ <<"policy_bundle">> \in Paths
      /\ <<"context">> \in Paths /\ <<"proposal">> \in Paths
  BY ShortPaths, KnownNames
<1>3. Draft(t, w) = top ++ mine ++ rest
  BY DEF Draft
<1>4. <<>> \in DOMAIN top /\ top[<<>>] = Dict /\ DOMAIN top = {<<>>}
  BY DEF At
<1>5. <<"proposal">> \in DOMAIN mine /\ mine[<<"proposal">>] = Dict
  <2>1. <<"proposal">> \o <<>> = <<"proposal">>
    BY <1>2, RootStays
  <2> QED
    <3> DEFINE v == Proposal(Value(t))
    <3>1. DOMAIN v \subseteq Paths /\ <<>> \in DOMAIN v /\ v[<<>>] = Dict
      BY ProposalIsAValue DEF IsValue
    <3> HIDE DEF v
    <3>2. <<"proposal">> \o <<>> \in DOMAIN Under(<<"proposal">>, v)
          /\ Under(<<"proposal">>, v)[<<"proposal">> \o <<>>] = Dict
      BY <1>2, <3>1, WhatIsUnder
    <3> QED
      BY <2>1, <3>2 DEF v
<1> HIDE DEF top, mine, rest
<1>6. /\ <<>> \in DOMAIN Draft(t, w) /\ Draft(t, w)[<<>>] = Dict
      /\ <<"proposal">> \in DOMAIN Draft(t, w) /\ Draft(t, w)[<<"proposal">>] = Dict
  <2> DEFINE both == top ++ mine
  <2>1. /\ <<>> \in DOMAIN both /\ both[<<>>] = Dict
        /\ <<"proposal">> \in DOMAIN both /\ both[<<"proposal">>] = Dict
    <3>1. <<"proposal">> \notin DOMAIN top
      BY <1>4
    <3>2. /\ DOMAIN both = DOMAIN top \cup DOMAIN mine
          /\ \A p \in DOMAIN top : both[p] = top[p]
          /\ \A p \in DOMAIN mine \ DOMAIN top : both[p] = mine[p]
      BY MergedIs
    <3> QED
      BY <1>4, <1>5, <3>1, <3>2
  <2>2. Draft(t, w) = both ++ rest
    BY <1>3
  <2> HIDE DEF both
  <2> QED
    BY <2>1, <2>2, FirstStays
<1>7. /\ <<>> \in DOMAIN e /\ e[<<>>] = Proxy
      /\ <<"proposal">> \in DOMAIN e /\ e[<<"proposal">>] = Proxy
  BY <1>1, <1>6, EnvelopeIsFrozen
<1>8. /\ <<>> \in DOMAIN c /\ c[<<>>] = Dict
      /\ <<"actor">> \in DOMAIN c /\ c[<<"actor">>] = Dict
      /\ <<"policy_bundle">> \in DOMAIN c /\ c[<<"policy_bundle">>] = Dict
  BY ParsedIsAValue, TreePaths, StrippedAreNames, ContextHas
<1>9. /\ <<"context">> \o <<>> = <<"context">>
      /\ <<"context">> \o <<"actor">> = <<"context", "actor">>
      /\ <<"context">> \o <<"policy_bundle">> = <<"context", "policy_bundle">>
  BY <1>2, RootStays, TwoNames, KnownNames
<1> HIDE DEF c, e
<1>10. <<"context">> \in DOMAIN e /\ e[<<"context">>] = Proxy
  BY <1>1, <1>2, <1>8, <1>9, UnderContext DEF c, e
<1>11. <<"context", "actor">> \in DOMAIN e /\ e[<<"context", "actor">>] = Proxy
  BY <1>1, <1>2, <1>8, <1>9, UnderContext DEF c, e
<1>12. <<"context", "policy_bundle">> \in DOMAIN e /\ e[<<"context", "policy_bundle">>] = Proxy
  BY <1>1, <1>2, <1>8, <1>9, UnderContext DEF c, e
<1> QED
  BY <1>7, <1>10, <1>11, <1>12 DEF e

LEMMA ThreeNames ==
  ASSUME NEW a \in Names, NEW b \in Names, NEW c \in Names
  PROVE  <<a>> \o <<b, c>> = <<a, b, c>>
<1>1. <<a>> \in Paths /\ <<b, c>> \in Paths /\ <<a, b, c>> \in Paths
  BY ShortPaths
<1> DEFINE q == <<a>> \o <<b, c>>
<1>2. q \in Paths /\ Len(q) = 3 /\ q[1] = a /\ q[2] = b /\ q[3] = c
  <2>1. Len(<<a>>) = 1 /\ Len(<<b, c>>) = 2 /\ <<a>>[1] = a /\ <<b, c>>[1] = b /\ <<b, c>>[2] = c
    OBVIOUS
  <2> QED
    BY <1>1, <2>1, ConcatIs
<1> HIDE DEF q
<1>3. Len(<<a, b, c>>) = 3 /\ <<a, b, c>>[1] = a /\ <<a, b, c>>[2] = b /\ <<a, b, c>>[3] = c
  OBVIOUS
<1>4. \A i \in 1..3 : q[i] = <<a, b, c>>[i]
  BY <1>2, <1>3
<1>5. q = <<a, b, c>>
  BY <1>1, <1>2, <1>3, <1>4, SeqEqual DEF Paths
<1> QED
  BY <1>5 DEF q

Bundle == <<"context", "policy_bundle">>
BundleDigest == <<"context", "policy_bundle", "digest">>

\* Nothing of the bundle but its digest is in an envelope.
LEMMA BundleHas ==
  ASSUME NEW t \in Texts, Parses(t), NEW w \in Worlds
  PROVE  LET e == Envelope(t, w) IN
         /\ BundleDigest \in DOMAIN e /\ e[BundleDigest] = IntOf(w.bundle)
         /\ \A p \in Paths : Bundle \o p \in DOMAIN e => Bundle \o p \in {Bundle, BundleDigest}
<1> DEFINE e == Envelope(t, w)
           c == Context(w, Stripped(Value(t)))
           pb == <<"policy_bundle">>
           pbd == <<"policy_bundle", "digest">>
<1>1. Stripped(Value(t)) \subseteq Names
  BY ParsedIsAValue, TreePaths, StrippedAreNames
<1>2. /\ pbd \in DOMAIN c /\ c[pbd] = IntOf(w.bundle)
      /\ \A p \in DOMAIN c : Len(p) >= 1 /\ p[1] = "policy_bundle" => p \in {pb, pbd}
  BY <1>1, ContextHas
<1>3. /\ pb \in Paths /\ pbd \in Paths /\ <<"context">> \in Paths
      /\ Len(pb) = 1 /\ pb[1] = "policy_bundle"
      /\ <<"context">> \o pb = Bundle /\ <<"context">> \o pbd = BundleDigest
  BY ShortPaths, KnownNames, TwoNames, ThreeNames DEF Bundle, BundleDigest
<1>4. Frozen(IntOf(w.bundle)) = IntOf(w.bundle)
  BY DEF Frozen, IntOf, IsMapping, IsSequence
<1> HIDE DEF e, c, pb, pbd
<1>5. BundleDigest \in DOMAIN e /\ e[BundleDigest] = IntOf(w.bundle)
  BY <1>2, <1>3, <1>4, UnderContext DEF e, c
<1>6. ASSUME NEW p \in Paths, Bundle \o p \in DOMAIN e PROVE Bundle \o p \in {Bundle, BundleDigest}
  <2> DEFINE q == pb \o p
  <2>1. q \in Paths /\ Len(q) >= 1 /\ q[1] = "policy_bundle"
    <3>1. pb \in Paths /\ Len(pb) = 1 /\ pb[1] = "policy_bundle"
      BY <1>3
    <3>2. /\ Len(p) \in Nat /\ pb \o p \in Paths /\ Len(pb \o p) = Len(pb) + Len(p)
          /\ \A i \in 1..(Len(pb) + Len(p)) :
               (pb \o p)[i] = IF i <= Len(pb) THEN pb[i] ELSE p[i - Len(pb)]
      BY <3>1, ConcatIs
    <3> QED
      BY <3>1, <3>2
  <2>2. Bundle \o p = <<"context">> \o q
    <3>1. <<"context">> \in Seq(Names) /\ pb \in Seq(Names) /\ p \in Seq(Names)
      BY <1>3 DEF Paths
    <3>2. (<<"context">> \o pb) \o p = <<"context">> \o (pb \o p)
      BY <3>1, ConcatAssociative
    <3> QED
      BY <1>3, <3>2
  <2> HIDE DEF q
  <2>3. q \in DOMAIN c
    BY <1>6, <2>1, <2>2, UnderContext DEF e, c
  <2>4. q \in {pb, pbd}
    BY <1>2, <2>1, <2>3
  <2> QED
    BY <1>3, <2>2, <2>4
<1> QED
  BY <1>5, <1>6 DEF e

-------------------------------------------------------------------------------
(* The projection is the ask.                                                *)

Agree(d, e, q) == (q \in DOMAIN d <=> q \in DOMAIN e) /\ (q \in DOMAIN d => Form(d[q]) = Form(e[q]))

IsProjected(q) ==
  \E path \in ProposalDigestProjection : IsPrefix(path, q) \/ IsPrefix(q, path)

LEMMA FieldsAgree ==
  ASSUME NEW d, NEW e, DOMAIN d \subseteq Paths, DOMAIN e \subseteq Paths, NEW root \in Paths
  PROVE  Canonicalize(Below(d, root)) = Canonicalize(Below(e, root))
           <=> \A p \in Paths : Agree(d, e, root \o p)
<1> DEFINE D(v) == {p \in Paths : root \o p \in DOMAIN v}
<1>1. /\ DOMAIN Below(d, root) = D(d) /\ \A p \in D(d) : Below(d, root)[p] = d[root \o p]
      /\ DOMAIN Below(e, root) = D(e) /\ \A p \in D(e) : Below(e, root)[p] = e[root \o p]
  BY WhatIsBelow
<1>2. /\ Canonicalize(Below(d, root)) = [p \in D(d) |-> Form(d[root \o p])]
      /\ Canonicalize(Below(e, root)) = [p \in D(e) |-> Form(e[root \o p])]
  BY <1>1 DEF Canonicalize
<1> HIDE DEF D
<1>3. [p \in D(d) |-> Form(d[root \o p])] = [p \in D(e) |-> Form(e[root \o p])]
        <=> D(d) = D(e) /\ \A p \in D(d) : Form(d[root \o p]) = Form(e[root \o p])
  OBVIOUS
<1>4. D(d) = D(e) <=> \A p \in Paths : root \o p \in DOMAIN d <=> root \o p \in DOMAIN e
  BY DEF D
<1>5. \A p : p \in D(d) <=> p \in Paths /\ root \o p \in DOMAIN d
  BY DEF D
<1> QED
  BY <1>2, <1>3, <1>4, <1>5 DEF Agree

LEMMA DigestsAgree ==
  ASSUME NEW d, NEW e, DOMAIN d \subseteq Paths, DOMAIN e \subseteq Paths
  PROVE  ProposalDigest(d) = ProposalDigest(e)
           <=> \A q \in Paths : IsProjected(q) => Agree(d, e, q)
<1> DEFINE D(v) == {q \in DOMAIN v : IsProjected(q)}
<1>1. /\ ProposalDigest(d) = [q \in D(d) |-> Form(d[q])]
      /\ ProposalDigest(e) = [q \in D(e) |-> Form(e[q])]
  BY DEF ProposalDigest, Digest, Canonicalize, Projected, Project, IsProjected
<1> HIDE DEF D
<1>2. [q \in D(d) |-> Form(d[q])] = [q \in D(e) |-> Form(e[q])]
        <=> D(d) = D(e) /\ \A q \in D(d) : Form(d[q]) = Form(e[q])
  OBVIOUS
<1>3. D(d) = D(e) <=> \A q \in Paths : IsProjected(q) => (q \in DOMAIN d <=> q \in DOMAIN e)
  BY DEF D
<1>4. \A q : q \in D(d) <=> q \in DOMAIN d /\ IsProjected(q)
  BY DEF D
<1> QED
  BY <1>1, <1>2, <1>3, <1>4 DEF Agree

LEMMA BundlePaths ==
  /\ Bundle \in Paths /\ BundleDigest \in Paths
  /\ IsPrefix(Bundle, BundleDigest)
<1>1. Bundle \in Paths /\ BundleDigest \in Paths
  BY ShortPaths, KnownNames DEF Bundle, BundleDigest
<1>2. /\ Len(Bundle) = 2 /\ Bundle[1] = "context" /\ Bundle[2] = "policy_bundle"
      /\ Len(BundleDigest) = 3
      /\ BundleDigest[1] = "context" /\ BundleDigest[2] = "policy_bundle"
  BY DEF Bundle, BundleDigest
<1>3. Len(Bundle) <= Len(BundleDigest) /\ \A i \in 1..Len(Bundle) : Bundle[i] = BundleDigest[i]
  BY <1>2
<1> QED
  BY <1>1, <1>3, PrefixIsElementwise

\* Two envelopes agree on the bundle when they were made under the same one.
LEMMA BundlesAgree ==
  ASSUME NEW t \in Texts, Parses(t), NEW w \in Worlds,
         NEW u \in Texts, Parses(u), NEW x \in Worlds
  PROVE  w.bundle = x.bundle
           <=> \A p \in Paths : Agree(Envelope(t, w), Envelope(u, x), Bundle \o p)
<1> DEFINE d == Envelope(t, w)
           e == Envelope(u, x)
<1>1. /\ BundleDigest \in DOMAIN d /\ d[BundleDigest] = IntOf(w.bundle)
      /\ \A p \in Paths : Bundle \o p \in DOMAIN d => Bundle \o p \in {Bundle, BundleDigest}
  BY BundleHas
<1>2. /\ BundleDigest \in DOMAIN e /\ e[BundleDigest] = IntOf(x.bundle)
      /\ \A p \in Paths : Bundle \o p \in DOMAIN e => Bundle \o p \in {Bundle, BundleDigest}
  BY BundleHas
<1>3. Bundle \in DOMAIN d /\ d[Bundle] = Proxy
  BY EnvelopeHas DEF Bundle
<1>4. Bundle \in DOMAIN e /\ e[Bundle] = Proxy
  BY EnvelopeHas DEF Bundle
<1> HIDE DEF d, e
<1>5. ASSUME w.bundle = x.bundle, NEW p \in Paths PROVE Agree(d, e, Bundle \o p)
  BY <1>1, <1>2, <1>3, <1>4, <1>5 DEF Agree
<1>6. ASSUME \A p \in Paths : Agree(d, e, Bundle \o p) PROVE w.bundle = x.bundle
  <2>1. PICK p \in Paths : BundleDigest = Bundle \o p
    BY BundlePaths, PathsSplit
  <2>2. Form(d[BundleDigest]) = Form(e[BundleDigest])
    BY <1>1, <1>6, <2>1 DEF Agree
  <2>3. Form(IntOf(w.bundle)) = Literal(w.bundle) /\ Form(IntOf(x.bundle)) = Literal(x.bundle)
    BY FormsAre DEF IntOf
  <2>4. Literal(w.bundle) = Literal(x.bundle)
    BY <1>1, <1>2, <2>2, <2>3
  <2> QED
    BY <2>4 DEF Literal
<1> QED
  BY <1>5, <1>6 DEF d, e

LEMMA ShortPrefixes ==
  ASSUME NEW q \in Paths, NEW a \in Names, NEW b \in Names
  PROVE  /\ IsPrefix(q, <<a, b>>) => q \in {<<>>, <<a>>, <<a, b>>}
         /\ \A c \in Names :
              IsPrefix(q, <<a, b, c>>) => q \in {<<>>, <<a>>, <<a, b>>, <<a, b, c>>}
<1>1. /\ <<>> \in Paths /\ <<a>> \in Paths /\ <<a, b>> \in Paths
      /\ \A c \in Names : <<a, b, c>> \in Paths
  BY ShortPaths
<1>2. Len(q) \in Nat
  BY LenProperties DEF Paths
<1>3. \A r \in Paths : Len(q) = Len(r) /\ (\A i \in 1..Len(q) : q[i] = r[i]) => q = r
  BY SeqEqual DEF Paths
<1>4. ASSUME IsPrefix(q, <<a, b>>) PROVE q \in {<<>>, <<a>>, <<a, b>>}
  <2>1. Len(<<a, b>>) = 2 /\ <<a, b>>[1] = a /\ <<a, b>>[2] = b
    OBVIOUS
  <2>2. Len(q) <= Len(<<a, b>>) /\ \A i \in 1..Len(q) : q[i] = <<a, b>>[i]
    BY <1>1, <1>4, PrefixIsElementwise
  <2>3. CASE Len(q) = 0
    BY <1>1, <1>3, <2>3
  <2>4. CASE Len(q) = 1
    <3>1. Len(<<a>>) = 1 /\ <<a>>[1] = a
      OBVIOUS
    <3> QED
      BY <1>1, <1>3, <2>1, <2>2, <2>4, <3>1
  <2>5. CASE Len(q) = 2
    BY <1>1, <1>3, <2>1, <2>2, <2>5
  <2>6. Len(q) = 0 \/ Len(q) = 1 \/ Len(q) = 2
    <3>1. Len(q) <= Len(<<a, b>>)
      BY <2>2
    <3>2. Len(q) <= 2
      BY <3>1
    <3>3. \A n \in Nat : n <= 2 => n = 0 \/ n = 1 \/ n = 2
      OBVIOUS
    <3> QED
      BY <1>2, <3>2, <3>3
  <2> QED
    BY <2>3, <2>4, <2>5, <2>6
<1>5. ASSUME NEW c \in Names, IsPrefix(q, <<a, b, c>>)
      PROVE  q \in {<<>>, <<a>>, <<a, b>>, <<a, b, c>>}
  <2>1. Len(<<a, b, c>>) = 3 /\ <<a, b, c>>[1] = a /\ <<a, b, c>>[2] = b /\ <<a, b, c>>[3] = c
    OBVIOUS
  <2>2. Len(q) <= Len(<<a, b, c>>) /\ \A i \in 1..Len(q) : q[i] = <<a, b, c>>[i]
    BY <1>1, <1>5, PrefixIsElementwise
  <2>3. CASE Len(q) = 0
    BY <1>1, <1>3, <2>3
  <2>4. CASE Len(q) = 1
    <3>1. Len(<<a>>) = 1 /\ <<a>>[1] = a
      OBVIOUS
    <3> QED
      BY <1>1, <1>3, <2>1, <2>2, <2>4, <3>1
  <2>5. CASE Len(q) = 2
    <3>1. Len(<<a, b>>) = 2 /\ <<a, b>>[1] = a /\ <<a, b>>[2] = b
      OBVIOUS
    <3> QED
      BY <1>1, <1>3, <2>1, <2>2, <2>5, <3>1
  <2>6. CASE Len(q) = 3
    BY <1>1, <1>3, <2>1, <2>2, <2>6
  <2>7. Len(q) = 0 \/ Len(q) = 1 \/ Len(q) = 2 \/ Len(q) = 3
    <3>1. Len(q) <= Len(<<a, b, c>>)
      BY <2>2
    <3>2. Len(q) <= 3
      BY <3>1
    <3>3. \A n \in Nat : n <= 3 => n = 0 \/ n = 1 \/ n = 2 \/ n = 3
      OBVIOUS
    <3> QED
      BY <1>2, <3>2, <3>3
  <2> QED
    BY <2>3, <2>4, <2>5, <2>6, <2>7
<1> QED
  BY <1>4, <1>5

\* The paths of an ask.
AskPaths == (ProposalDigestProjection \ {BundleDigest}) \cup {Bundle}

Ancestors == {<<>>, <<"proposal">>, <<"context">>, <<"context", "actor">>, Bundle}

LEMMA AsksAre ==
  ASSUME NEW d, NEW e
  PROVE  AskOf(d) = AskOf(e)
           <=> \A root \in AskPaths : Canonicalize(Below(d, root)) = Canonicalize(Below(e, root))
<1> DEFINE F(v, root) == Canonicalize(Below(v, root))
           A(v) ==
             [tool |-> F(v, <<"proposal", "tool">>),
              intent |-> F(v, <<"proposal", "intent">>),
              arguments |-> F(v, <<"proposal", "arguments">>),
              agent |-> F(v, <<"context", "actor", "agent_id">>),
              principal |-> F(v, <<"context", "actor", "principal">>),
              chain |-> F(v, <<"context", "actor", "delegation_chain">>),
              environment |-> F(v, <<"context", "actor", "environment">>),
              bundle |-> F(v, <<"context", "policy_bundle">>)]
<1>1. AskOf(d) = A(d) /\ AskOf(e) = A(e)
  BY DEF AskOf
<1>2. AskPaths = {
        <<"proposal", "tool">>, <<"proposal", "intent">>, <<"proposal", "arguments">>,
        <<"context", "actor", "agent_id">>, <<"context", "actor", "principal">>,
        <<"context", "actor", "delegation_chain">>, <<"context", "actor", "environment">>,
        <<"context", "policy_bundle">>}
  BY DEF AskPaths, ProposalDigestProjection, BundleDigest, Bundle
<1> HIDE DEF F
<1>3. A(d) = A(e) <=>
        /\ F(d, <<"proposal", "tool">>) = F(e, <<"proposal", "tool">>)
        /\ F(d, <<"proposal", "intent">>) = F(e, <<"proposal", "intent">>)
        /\ F(d, <<"proposal", "arguments">>) = F(e, <<"proposal", "arguments">>)
        /\ F(d, <<"context", "actor", "agent_id">>) = F(e, <<"context", "actor", "agent_id">>)
        /\ F(d, <<"context", "actor", "principal">>) = F(e, <<"context", "actor", "principal">>)
        /\ F(d, <<"context", "actor", "delegation_chain">>)
             = F(e, <<"context", "actor", "delegation_chain">>)
        /\ F(d, <<"context", "actor", "environment">>) = F(e, <<"context", "actor", "environment">>)
        /\ F(d, <<"context", "policy_bundle">>) = F(e, <<"context", "policy_bundle">>)
  OBVIOUS
<1>4. (\A root \in AskPaths : F(d, root) = F(e, root)) <=> A(d) = A(e)
  <2> HIDE DEF A
  <2> QED
    BY <1>2, <1>3
<1> QED
  BY <1>1, <1>4 DEF F

LEMMA ProjectionPaths ==
  /\ ProposalDigestProjection \subseteq Paths
  /\ AskPaths \subseteq Paths
  /\ \A path \in ProposalDigestProjection : \A q \in Paths :
       IsPrefix(q, path) => q = path \/ q \in Ancestors
<1>1. \A path \in ProposalDigestProjection :
        \/ \E name \in {"tool", "intent", "arguments"} : path = <<"proposal", name>>
        \/ \E name \in {"agent_id", "principal", "delegation_chain", "environment"} :
             path = <<"context", "actor", name>>
        \/ path = BundleDigest
  BY DEF ProposalDigestProjection, BundleDigest
<1>2. /\ {"tool", "intent", "arguments"} \subseteq Names
      /\ {"agent_id", "principal", "delegation_chain", "environment"} \subseteq Names
      /\ {"proposal", "context", "actor", "policy_bundle", "digest"} \subseteq Names
  BY KnownNames
<1>3. ProposalDigestProjection \subseteq Paths
  BY <1>1, <1>2, ShortPaths, BundlePaths
<1>4. AskPaths \subseteq Paths
  BY <1>3, BundlePaths DEF AskPaths
<1>5. ASSUME NEW path \in ProposalDigestProjection, NEW q \in Paths, IsPrefix(q, path)
      PROVE  q = path \/ q \in Ancestors
  <2>1. ASSUME NEW name \in {"tool", "intent", "arguments"}, path = <<"proposal", name>>
        PROVE  q = path \/ q \in Ancestors
    <3>1. q \in {<<>>, <<"proposal">>, <<"proposal", name>>}
      BY <1>2, <1>5, <2>1, ShortPrefixes
    <3> QED
      BY <2>1, <3>1 DEF Ancestors
  <2>2. ASSUME NEW name \in {"agent_id", "principal", "delegation_chain", "environment"},
               path = <<"context", "actor", name>>
        PROVE  q = path \/ q \in Ancestors
    <3>1. q \in {<<>>, <<"context">>, <<"context", "actor">>, <<"context", "actor", name>>}
      BY <1>2, <1>5, <2>2, ShortPrefixes
    <3> QED
      BY <2>2, <3>1 DEF Ancestors
  <2>3. CASE path = BundleDigest
    <3>1. q \in {<<>>, <<"context">>, Bundle, BundleDigest}
      BY <1>2, <1>5, <2>3, ShortPrefixes DEF Bundle, BundleDigest
    <3> QED
      BY <2>3, <3>1 DEF Ancestors
  <2> QED
    BY <1>1, <2>1, <2>2, <2>3
<1> QED
  BY <1>3, <1>4, <1>5

\* Two envelopes have the same proposal digest, under the same bundle, exactly when
\* they ask for the same.
LEMMA DigestsFollowTheAsk ==
  ASSUME NEW t \in Texts, Parses(t), NEW w \in Worlds,
         NEW u \in Texts, Parses(u), NEW x \in Worlds,
         ProposalDigestProjection \subseteq DOMAIN Envelope(t, w),
         ProposalDigestProjection \subseteq DOMAIN Envelope(u, x)
  PROVE  /\ ProposalDigest(Envelope(t, w)) = ProposalDigest(Envelope(u, x))
         /\ w.bundle = x.bundle
         <=> AskOf(Envelope(t, w)) = AskOf(Envelope(u, x))
<1> DEFINE d == Envelope(t, w)
           e == Envelope(u, x)
<1>1. /\ DOMAIN d \subseteq Paths /\ DOMAIN e \subseteq Paths
      /\ ProposalDigestProjection \subseteq DOMAIN d
      /\ ProposalDigestProjection \subseteq DOMAIN e
  BY EnvelopeIsAValue DEF IsValue
<1>2. \A q \in Ancestors : Agree(d, e, q)
  <2>1. \A q \in Ancestors : q \in DOMAIN d /\ d[q] = Proxy
    BY EnvelopeHas DEF Ancestors, Bundle
  <2>2. \A q \in Ancestors : q \in DOMAIN e /\ e[q] = Proxy
    BY EnvelopeHas DEF Ancestors, Bundle
  <2> HIDE DEF d, e
  <2> QED
    BY <2>1, <2>2 DEF Agree
<1>3. w.bundle = x.bundle <=> \A p \in Paths : Agree(d, e, Bundle \o p)
  BY BundlesAgree
<1> HIDE DEF d, e
<1>4. AskOf(d) = AskOf(e) <=> \A root \in AskPaths : \A p \in Paths : Agree(d, e, root \o p)
  BY <1>1, AsksAre, FieldsAgree, ProjectionPaths
<1>5. ProposalDigest(d) = ProposalDigest(e) <=> \A q \in Paths : IsProjected(q) => Agree(d, e, q)
  BY <1>1, DigestsAgree
<1>6. ASSUME ProposalDigest(d) = ProposalDigest(e), w.bundle = x.bundle,
             NEW root \in AskPaths, NEW p \in Paths
      PROVE  Agree(d, e, root \o p)
  <2>1. CASE root = Bundle
    BY <1>3, <1>6, <2>1
  <2>2. CASE root \in ProposalDigestProjection
    <3>1. root \in Paths /\ root \o p \in Paths /\ IsPrefix(root, root \o p)
      BY ProjectionPaths, PathsExtend
    <3>2. IsProjected(root \o p)
      BY <2>2, <3>1 DEF IsProjected
    <3> QED
      BY <1>5, <1>6, <3>1, <3>2
  <2> QED
    BY <2>1, <2>2 DEF AskPaths
<1>7. ASSUME \A root \in AskPaths : \A p \in Paths : Agree(d, e, root \o p)
      PROVE  /\ \A p \in Paths : Agree(d, e, Bundle \o p)
             /\ \A q \in Paths : IsProjected(q) => Agree(d, e, q)
  <2>1. \A p \in Paths : Agree(d, e, Bundle \o p)
    BY <1>7 DEF AskPaths
  <2>2. ASSUME NEW path \in ProposalDigestProjection, NEW q \in Paths, IsPrefix(path, q)
        PROVE  Agree(d, e, q)
    <3>1. path \in Paths
      BY ProjectionPaths
    <3>2. PICK rest \in Paths : q = path \o rest
      BY <2>2, <3>1, PathsSplit
    <3>3. CASE path # BundleDigest
      BY <1>7, <3>2, <3>3 DEF AskPaths
    <3>4. CASE path = BundleDigest
      <4>1. PICK last \in Paths : BundleDigest = Bundle \o last
        BY BundlePaths, PathsSplit
      <4>2. q = Bundle \o (last \o rest)
        <5>1. Bundle \in Seq(Names) /\ last \in Seq(Names) /\ rest \in Seq(Names)
          BY BundlePaths DEF Paths
        <5>2. (Bundle \o last) \o rest = Bundle \o (last \o rest)
          BY <5>1, ConcatAssociative
        <5> QED
          BY <3>2, <3>4, <4>1, <5>2
      <4>3. last \o rest \in Paths
        BY ConcatIs
      <4> QED
        BY <2>1, <4>2, <4>3
    <3> QED
      BY <3>3, <3>4
  <2>3. ASSUME NEW path \in ProposalDigestProjection, NEW q \in Paths, IsPrefix(q, path)
        PROVE  Agree(d, e, q)
    <3>1. CASE q \in Ancestors
      BY <1>2, <3>1
    <3>2. CASE q = path
      <4>1. IsPrefix(q, q)
        <5>1. q \o <<>> = q /\ <<>> \in Paths
          BY RootStays, ShortPaths
        <5>2. IsPrefix(q, q \o <<>>)
          BY <5>1, PathsExtend
        <5> QED
          BY <5>1, <5>2
      <4> QED
        BY <2>2, <3>2, <4>1
    <3> QED
      BY <2>3, <3>1, <3>2, ProjectionPaths
  <2> QED
    BY <2>1, <2>2, <2>3 DEF IsProjected
<1> QED
  BY <1>3, <1>4, <1>5, <1>6, <1>7 DEF d, e

-------------------------------------------------------------------------------
(* Approvals.                                                                *)

\* Whatever the world, the envelope of an admitted call has what is projected.
IsProjectable(t) == \A w \in Worlds : ProposalDigestProjection \subseteq DOMAIN Envelope(t, w)

LEMMA UnderProposal ==
  ASSUME NEW t \in Texts, Parses(t), NEW w \in Worlds, NEW name \in Names
  PROVE  <<"proposal", name>> \in DOMAIN Envelope(t, w) <=> <<name>> \in DOMAIN Proposal(Value(t))
<1> DEFINE c == Context(w, Stripped(Value(t)))
           v == Proposal(Value(t))
           q == <<"proposal", name>>
           top == At(<<>>, Dict)
           mine == Under(<<"proposal">>, v)
           rest == Under(<<"context">>, c)
           both == top ++ mine
<1>1. /\ <<"context">> \in Paths /\ <<"proposal">> \in Paths /\ <<name>> \in Paths
      /\ "context" \in Names /\ "proposal" \in Names
      /\ <<"proposal">> \o <<name>> = q
  BY ShortPaths, KnownNames, TwoNames
<1>2. DOMAIN v \subseteq Paths /\ DOMAIN c \subseteq Paths
  BY ProposalIsAValue, ParsedIsAValue, TreePaths, StrippedAreNames, ContextIsAValue DEF IsValue
<1>3. q \notin DOMAIN rest
  <2>1. Starts(rest, "context")
    BY <1>1, <1>2, UnderStarts
  <2>2. q[1] = "proposal"
    OBVIOUS
  <2> HIDE DEF q, rest
  <2> QED
    BY <2>1, <2>2 DEF Starts
<1>4. q \notin DOMAIN top
  BY DEF At
<1> HIDE DEF v, c
<1>5. q \in DOMAIN mine <=> <<name>> \in DOMAIN v
  <2>1. DOMAIN mine = {<<"proposal">> \o r : r \in DOMAIN v}
    BY <1>1, <1>2, WhatIsUnder
  <2>2. ASSUME NEW r \in DOMAIN v, q = <<"proposal">> \o r PROVE r = <<name>>
    <3>1. r \in Paths /\ <<"proposal">> \o r = <<"proposal">> \o <<name>>
      BY <1>1, <1>2, <2>2
    <3> QED
      BY <1>1, <3>1, ConcatCancels
  <2> HIDE DEF mine, q
  <2> QED
    BY <1>1, <2>1, <2>2
<1>6. Draft(t, w) = both ++ rest
  BY DEF Draft, v, c
<1> HIDE DEF top, mine, rest, q
<1>7. DOMAIN both = DOMAIN top \cup DOMAIN mine
  BY MergedIs
<1> HIDE DEF both
<1>8. DOMAIN Draft(t, w) = DOMAIN both \cup DOMAIN rest
  BY <1>6, MergedIs
<1> QED
  BY <1>3, <1>4, <1>5, <1>7, <1>8, EnvelopeIsFrozen DEF q, v

LEMMA ActorHas ==
  ASSUME NEW t \in Texts, Parses(t), NEW w \in Worlds,
         NEW name \in {"agent_id", "principal", "delegation_chain", "environment"}
  PROVE  <<"context", "actor", name>> \in DOMAIN Envelope(t, w)
<1> DEFINE c == Context(w, Stripped(Value(t)))
           f1 == At(<<>>, Dict)
           f2 == At(<<"agent_id">>, Str("agent"))
           f3 == At(<<"agent_version">>, IntOf(w.agent_version))
           f4 == At(<<"principal">>, IntOf(w.principal))
           f5 == At(<<"environment">>, IntOf(w.environment))
           f6 == At(<<"delegation_chain">>, Tuple)
           f7 == [p \in {<<"delegation_chain", hop>> : hop \in Hops(w)} |-> Dict]
           f8 == [p \in {<<"delegation_chain", hop, "principal">> : hop \in Hops(w)} |-> Str(p[2])]
           h5 == f1 ++ f2 ++ f3 ++ f4 ++ f5
           h6 == h5 ++ f6
           h8 == h6 ++ f7 ++ f8
<1>1. /\ name \in Names /\ "actor" \in Names /\ "context" \in Names
      /\ <<"context">> \in Paths /\ <<"actor">> \in Paths /\ <<name>> \in Paths
      /\ <<"actor", name>> \in Paths
      /\ <<"actor">> \o <<name>> = <<"actor", name>>
      /\ <<"context">> \o <<"actor", name>> = <<"context", "actor", name>>
  <2>1. name \in Names /\ "actor" \in Names /\ "context" \in Names
    BY KnownNames
  <2> QED
    BY <2>1, ShortPaths, TwoNames, ThreeNames
<1>2. Actor(w) = h8
  BY Zenon DEF Actor
<1>3. <<name>> \in DOMAIN f2 \cup DOMAIN f4 \cup DOMAIN f5 \cup DOMAIN f6
  BY DEF At
<1> HIDE DEF f1, f2, f3, f4, f5, f6, f7, f8
<1>4. <<name>> \in DOMAIN h8
  BY <1>3, MergedHas
<1>5. <<name>> \in DOMAIN Actor(w) /\ DOMAIN Actor(w) \subseteq Paths
  BY <1>2, <1>4, ActorIsAValue DEF IsValue
<1> HIDE DEF h5, h6, h8
<1>6. <<"actor", name>> \in DOMAIN Under(<<"actor">>, Actor(w))
  BY <1>1, <1>5, WhatIsUnder
<1>7. <<"actor", name>> \in DOMAIN c
  <2> DEFINE g1 == At(<<>>, Dict)
             g2 == Under(<<"actor">>, Actor(w))
             g3 == Under(<<"facts">>, Facts(w))
             g4 == At(<<"action_class">>, Dict)
             g5 == At(<<"action_class", "mode">>, IntOf(w.mode))
             g6 == At(<<"policy_bundle">>, Dict)
             g7 == At(<<"policy_bundle", "digest">>, IntOf(w.bundle))
             g8 == At(<<"stripped_proposal_keys">>, Tuple)
             g9 == [p \in {<<"stripped_proposal_keys", key>> : key \in Stripped(Value(t))} |->
                      Str(p[2])]
  <2>1. c = g1 ++ g2 ++ g3 ++ g4 ++ g5 ++ g6 ++ g7 ++ g8 ++ g9
    BY Zenon DEF Context
  <2>2. <<"actor", name>> \in DOMAIN g2
    BY <1>6
  <2> HIDE DEF g1, g2, g3, g4, g5, g6, g7, g8, g9, c
  <2> QED
    BY <2>1, <2>2, MergedHas
<1> HIDE DEF c
<1> QED
  BY <1>1, <1>7, UnderContext DEF c

LEMMA AdmittedIsProjectable ==
  ASSUME NEW t \in Texts, Admits(t, world), world \in Worlds
  PROVE  IsProjectable(t)
<1>1. Parses(t) /\ ProposalDigestProjection \subseteq DOMAIN Envelope(t, world)
  BY DEF Admits, HasBothDigests, HasProposalDigest
<1> SUFFICES ASSUME NEW w \in Worlds, NEW path \in ProposalDigestProjection
             PROVE  path \in DOMAIN Envelope(t, w)
  BY DEF IsProjectable
<1>2. ASSUME NEW name \in {"tool", "intent", "arguments"}, path = <<"proposal", name>>
      PROVE  path \in DOMAIN Envelope(t, w)
  <2>1. name \in Names
    BY KnownNames
  <2> QED
    BY <1>1, <1>2, <2>1, UnderProposal
<1>3. ASSUME NEW name \in {"agent_id", "principal", "delegation_chain", "environment"},
             path = <<"context", "actor", name>>
      PROVE  path \in DOMAIN Envelope(t, w)
  BY <1>1, <1>3, ActorHas
<1>4. CASE path = BundleDigest
  BY <1>1, <1>4, BundleHas
<1> QED
  BY <1>2, <1>3, <1>4 DEF ProposalDigestProjection, BundleDigest

\* An envelope made of an admitted call.
WasMade(e, t, w) ==
  /\ t \in Texts /\ Parses(t) /\ IsProjectable(t) /\ w \in Worlds
  /\ e = Envelope(t, w)

\* The call at hand has an envelope, an approval speaks of one that was shown, a
\* token of one that was evaluated and asks for the same, and what runs is that one.
MadeInv == text # None => WasMade(EnvelopeNow, text, world)

ApprovalInv ==
  approval # None =>
    /\ text # None
    /\ \E t \in Texts : \E w \in Worlds :
         /\ WasMade(Envelope(t, w), t, w)
         /\ approval.proposal_digest = ProposalDigest(Envelope(t, w))
         /\ approval.policy_bundle_digest = w.bundle
         /\ approval.ask = AskOf(Envelope(t, w))

TokenInv ==
  token # None =>
    /\ \E t \in Texts : \E w \in Worlds : WasMade(token.over, t, w)
    /\ HasBothDigests(token.over)
    /\ token.ask = AskOf(token.over)

ApprovedInv == MadeInv /\ ApprovalInv /\ TokenInv /\ ApprovalMeansWhatWasShown

LEMMA HonouredIsTheAsk ==
  ASSUME MadeInv, ApprovalInv, approval # None
  PROVE  Honoured <=> AskOf(EnvelopeNow) = approval.ask
<1>1. PICK t \in Texts, w \in Worlds :
        /\ WasMade(Envelope(t, w), t, w)
        /\ approval.proposal_digest = ProposalDigest(Envelope(t, w))
        /\ approval.policy_bundle_digest = w.bundle
        /\ approval.ask = AskOf(Envelope(t, w))
  BY DEF ApprovalInv
<1>2. WasMade(EnvelopeNow, text, world)
  BY DEF MadeInv, ApprovalInv
<1>3. /\ ProposalDigest(Envelope(t, w)) = ProposalDigest(Envelope(text, world))
      /\ w.bundle = world.bundle
      <=> AskOf(Envelope(t, w)) = AskOf(Envelope(text, world))
  BY <1>1, <1>2, DigestsFollowTheAsk DEF WasMade, IsProjectable
<1> QED
  BY <1>1, <1>3 DEF Honoured, EnvelopeNow

LEMMA AlikeAsk ==
  ASSUME NEW v, NEW u, IsValue(v), Alike(v, u)
  PROVE  AskOf(u) = AskOf(v)
<1>1. DOMAIN v \subseteq Paths /\ DOMAIN u = DOMAIN v /\ \A p \in DOMAIN v : Form(u[p]) = Form(v[p])
  BY DEF Alike, IsValue
<1>2. \A q : Agree(u, v, q)
  BY <1>1 DEF Agree
<1>3. \A root \in AskPaths : Canonicalize(Below(u, root)) = Canonicalize(Below(v, root))
  BY <1>1, <1>2, FieldsAgree, ProjectionPaths
<1> QED
  BY <1>3, AsksAre

LEMMA ApprovalsAreKept == Spec => []ApprovedInv
<1>1. Init => ApprovedInv
  BY DEF Init, ApprovedInv, MadeInv, ApprovalInv, TokenInv, ApprovalMeansWhatWasShown
<1>2. ApprovedInv /\ TextInv /\ TypeInv /\ [Next]_vars => ApprovedInv'
  <2> SUFFICES ASSUME ApprovedInv, TextInv, TypeInv, [Next]_vars PROVE ApprovedInv'
    OBVIOUS
  <2> USE DEF ApprovedInv
  <2>1. CASE Propose
    <3>1. text' \in Texts /\ Admits(text', world) /\ world \in Worlds /\ world' = world
      BY <2>1 DEF Propose, TypeInv
    <3>2. Parses(text') /\ IsProjectable(text')
      BY <3>1, AdmittedIsProjectable DEF Admits
    <3>3. MadeInv' /\ text' # None
      BY <3>1, <3>2, IntakeAssumption DEF MadeInv, WasMade, EnvelopeNow
    <3> QED
      BY <2>1, <3>3 DEF Propose, ApprovalInv, TokenInv, ApprovalMeansWhatWasShown
  <2>2. CASE Churns \/ AsksOtherwise
    <3>1. world' \in Worlds /\ UNCHANGED <<text, approval, token, executed>>
      BY <2>2, ChangesStayInTheWorld DEF Churns, AsksOtherwise, Change
    <3>2. MadeInv'
      BY <3>1 DEF MadeInv, WasMade, EnvelopeNow
    <3> QED
      BY <3>1, <3>2 DEF ApprovalInv, TokenInv, ApprovalMeansWhatWasShown
  <2>3. CASE RequestApproval
    <3>1. WasMade(EnvelopeNow, text, world) /\ text # None /\ UNCHANGED <<text, world>>
      BY <2>3 DEF RequestApproval, MadeInv
    <3>2. /\ approval'.proposal_digest = ProposalDigest(EnvelopeNow)
          /\ approval'.policy_bundle_digest = world.bundle
          /\ approval'.ask = AskOf(EnvelopeNow)
      BY <2>3 DEF RequestApproval
    <3>3. ApprovalInv'
      BY <3>1, <3>2 DEF ApprovalInv, WasMade
    <3> QED
      BY <2>3, <3>3 DEF RequestApproval, MadeInv, EnvelopeNow, TokenInv, ApprovalMeansWhatWasShown
  <2>4. CASE Decide
    <3>1. /\ approval # None /\ UNCHANGED text
          /\ approval'.proposal_digest = approval.proposal_digest
          /\ approval'.policy_bundle_digest = approval.policy_bundle_digest
          /\ approval'.ask = approval.ask
      BY <2>4 DEF Decide, TypeInv, IsApproval
    <3>2. ApprovalInv'
      BY <3>1 DEF ApprovalInv
    <3> QED
      BY <2>4, <3>2 DEF Decide, MadeInv, EnvelopeNow, TokenInv, ApprovalMeansWhatWasShown
  <2>5. CASE Evaluate
    <3>1. /\ approval # None /\ HasBothDigests(EnvelopeNow) /\ UNCHANGED <<text, world>>
          /\ approval'.proposal_digest = approval.proposal_digest
          /\ approval'.policy_bundle_digest = approval.policy_bundle_digest
          /\ approval'.ask = approval.ask
      BY <2>5 DEF Evaluate, TypeInv, IsApproval
    <3>2. ApprovalInv'
      BY <3>1 DEF ApprovalInv
    <3>3. ApprovalMeansWhatWasShown'
      BY <2>5 DEF Evaluate, ApprovalMeansWhatWasShown
    <3>4. MadeInv'
      BY <3>1 DEF MadeInv, EnvelopeNow
    <3>5. CASE ~Honoured
      BY <2>5, <3>2, <3>3, <3>4, <3>5 DEF Evaluate, TokenInv
    <3>6. CASE Honoured
      <4>1. token' = [over |-> EnvelopeNow, ask |-> approval.ask]
        BY <2>5, <3>6 DEF Evaluate
      <4>2. WasMade(EnvelopeNow, text, world) /\ text \in Texts /\ world \in Worlds
        BY <3>1 DEF MadeInv, ApprovalInv, WasMade
      <4>3. AskOf(EnvelopeNow) = approval.ask
        BY <3>1, <3>6, HonouredIsTheAsk
      <4>4. token'.over = EnvelopeNow /\ token'.ask = approval.ask
        BY <4>1
      <4>5. TokenInv'
        BY <3>1, <4>2, <4>3, <4>4 DEF TokenInv
      <4> QED
        BY <3>2, <3>3, <3>4, <4>5
    <3> QED
      BY <3>5, <3>6
  <2>6. CASE Execute
    <3>1. PICK wire \in Wires(token.over) : executed' = Value(wire)
      BY <2>6 DEF Execute
    <3>2. PICK t \in Texts, w \in Worlds : WasMade(token.over, t, w)
      BY <2>6 DEF Execute, TokenInv
    <3>3. IsValue(token.over) /\ Writable(token.over)
      BY <2>6, <3>2, EnvelopeIsAValue DEF Execute, TokenInv, WasMade, HasBothDigests, HasDigest
    <3>4. Alike(token.over, executed')
      BY <3>1, <3>3, WiresAreAlike
    <3>5. AskOf(executed') = AskOf(token.over) /\ Digest(executed') = Digest(token.over)
      BY <3>3, <3>4, AlikeAsk, AlikeDigests
    <3>6. token.ask = AskOf(token.over)
      BY <2>6 DEF Execute, TokenInv
    <3>7. ApprovalMeansWhatWasShown'
      BY <2>6, <3>5, <3>6 DEF Execute, ApprovalMeansWhatWasShown
    <3> QED
      BY <2>6, <3>7 DEF Execute, MadeInv, EnvelopeNow, ApprovalInv, TokenInv
  <2>7. CASE UNCHANGED vars
    BY <2>7 DEF vars, MadeInv, EnvelopeNow, ApprovalInv, TokenInv, ApprovalMeansWhatWasShown
  <2> QED
    BY <2>1, <2>2, <2>3, <2>4, <2>5, <2>6, <2>7 DEF Next
<1> QED
  BY <1>1, <1>2, TypesAreKept, CallsAreAdmitted, PTL DEF Spec

\* What runs on an approval is what the approver was shown and the document that
\* was evaluated last, whatever was proposed, changed and sent in between (FR-40).
THEOREM WhatRunsWasShown == Spec => []ApprovalMeansWhatWasShown
<1>1. ApprovedInv => ApprovalMeansWhatWasShown
  BY DEF ApprovedInv
<1> QED
  BY <1>1, ApprovalsAreKept, PTL

\* An approval is honoured exactly while the ask is what was shown: nothing the
\* projection leaves out voids it, and nothing in it can change (ADR-0020).
THEOREM ApprovalsFollowTheAsk == Spec => []ApprovalFollowsTheAsk
<1>1. ApprovedInv => ApprovalFollowsTheAsk
  BY HonouredIsTheAsk DEF ApprovedInv, ApprovalFollowsTheAsk
<1> QED
  BY <1>1, ApprovalsAreKept, PTL

-------------------------------------------------------------------------------
(* Validation at the broker.                                                 *)

\* What a parsed value may be by the time it is read back.
Kept(x, y) == y = x \/ (x.kind = "float" /\ y.kind = "int" /\ Halves(y) = Halves(x))

LEMMA KeptIsTyped ==
  ASSUME NEW x, NEW y, Kept(x, y), NEW type \in JSONTypes, IsType(x, type)
  PROVE  IsType(y, type)
<1>1. CASE y = x
  BY <1>1
<1>2. CASE x.kind = "float" /\ y.kind = "int"
  BY <1>2 DEF IsType, JSONTypes, IsSequence
<1> QED
  BY <1>1, <1>2 DEF Kept

LEMMA KeptIsEqual ==
  ASSUME NEW x, NEW y, Kept(x, y), NEW choice, PyEqual(x, choice)
  PROVE  PyEqual(y, choice)
<1>1. CASE y = x
  BY <1>1
<1>2. CASE x.kind = "float" /\ y.kind = "int" /\ Halves(y) = Halves(x)
  <2>1. choice.kind \in {"int", "float", "bool"} /\ Halves(x) = Halves(choice)
    BY <1>2 DEF PyEqual
  <2> QED
    BY <1>2, <2>1 DEF PyEqual
<1> QED
  BY <1>1, <1>2 DEF Kept

LEMMA KeptBreaksNothing ==
  ASSUME NEW x, NEW y, Kept(x, y), NEW sub, Breaks(x, sub) = {}
  PROVE  Breaks(y, sub) = {}
<1>1. CASE y = x
  BY <1>1
<1>2. CASE x.kind = "float" /\ y.kind = "int" /\ Halves(y) = Halves(x)
  <2> SUFFICES ASSUME NEW keyword \in {"enum", "pattern", "minimum", "maximum"},
                      Says(sub, keyword), keyword \in Breaks(y, sub)
               PROVE  FALSE
    BY DEF Breaks
  <2>1. CASE keyword = "enum"
    <3>1. \E choice \in sub[keyword].is : PyEqual(x, choice)
      BY <2>1 DEF Breaks
    <3>2. \E choice \in sub[keyword].is : PyEqual(y, choice)
      BY <3>1, KeptIsEqual
    <3> QED
      BY <2>1, <3>2 DEF Breaks
  <2>2. CASE keyword = "pattern"
    BY <1>2, <2>2 DEF Breaks
  <2>3. CASE keyword = "minimum"
    <3>1. ~(Halves(x) < sub[keyword].is)
      BY <1>2, <2>3 DEF Breaks
    <3>2. Halves(y) < sub[keyword].is
      BY <2>3 DEF Breaks
    <3> QED
      BY <1>2, <3>1, <3>2
  <2>4. CASE keyword = "maximum"
    <3>1. ~(Halves(x) > sub[keyword].is)
      BY <1>2, <2>4 DEF Breaks
    <3>2. Halves(y) > sub[keyword].is
      BY <1>2, <2>4 DEF Breaks
    <3> QED
      BY <1>2, <3>1, <3>2
  <2> QED
    BY <2>1, <2>2, <2>3, <2>4
<1> QED
  BY <1>1, <1>2 DEF Kept

LEMMA KeptIsAccepted ==
  ASSUME NEW v, IsTree(v), NEW s, IsSchema(s), Violations(v, s) = {},
         NEW u, DOMAIN u = DOMAIN v, \A p \in DOMAIN v : Kept(v[p], u[p])
  PROVE  Violations(u, s) = {}
<1>1. \A p \in DOMAIN v : IsMapping(u[p]) <=> IsMapping(v[p])
  BY DEF Kept, IsMapping
<1>2. IsTree(s)
  BY RootedIsATree DEF IsSchema
<1>3. ASSUME NEW p \in DOMAIN u, Descends(u, s, p) PROVE CheckAt(u, s, p) = {}
  <2>1. p \in DOMAIN v /\ p \in DOMAIN s /\ p \in Paths
    BY <1>3, TreePaths DEF Descends
  <2>2. p \in Governed(v, s)
    <3>1. ASSUME NEW n \in 0..(Len(p) - 1) PROVE IsMapping(v[SubSeq(p, 1, n)])
      <4>1. IsMapping(u[SubSeq(p, 1, n)])
        BY <1>3 DEF Descends
      <4>2. n \in 0..Len(p)
        BY <2>1, LenProperties DEF Paths
      <4>3. SubSeq(p, 1, n) \in DOMAIN v
        BY <2>1, <4>2 DEF IsTree
      <4> QED
        BY <1>1, <4>1, <4>3
    <3> QED
      BY <2>1, <3>1 DEF Governed
  <2>3. CheckAt(v, s, p) = {}
    BY <1>2, <2>1, <2>2, GovernedIsReached, WhollyApplied
  <2>4. /\ ~IsMistyped(v[p], s[p]) /\ Breaks(v[p], s[p]) = {}
        /\ IsMapping(v[p]) => Missing(v, s, p) = {} /\ Undeclared(v, s, p) = {}
    BY <2>3 DEF CheckAt
  <2>5. ~IsMistyped(u[p], s[p])
    <3> SUFFICES ASSUME Says(s[p], "type") PROVE IsType(u[p], s[p]["type"].is)
      BY DEF IsMistyped
    <3>1. s[p]["type"].is \in JSONTypes
      BY <2>1 DEF IsSchema, Says, SupportedKeywords, KeywordShapes
    <3>2. IsType(v[p], s[p]["type"].is)
      BY <2>4 DEF IsMistyped
    <3> QED
      BY <2>1, <3>1, <3>2, KeptIsTyped
  <2>6. Breaks(u[p], s[p]) = {}
    BY <2>1, <2>4, KeptBreaksNothing
  <2>7. Missing(u, s, p) = Missing(v, s, p) /\ Undeclared(u, s, p) = Undeclared(v, s, p)
    BY DEF Missing, Undeclared
  <2> QED
    BY <1>1, <2>1, <2>4, <2>5, <2>6, <2>7 DEF CheckAt
<1>4. Check(u, s) = {}
  BY <1>3 DEF Check
<1>5. Unsupported(s) = {}
  BY DEF Violations
<1> QED
  BY <1>4, <1>5 DEF Violations

LEMMA WireReads ==
  ASSUME NEW v, NEW wire \in Wires(v)
  PROVE  /\ DOMAIN Value(wire) = DOMAIN v
         /\ \A p \in DOMAIN v :
              Value(wire)[p] \in {Understood(Form(v[p])), Understood(DumpForm(v[p]))}
<1>1. /\ DOMAIN wire.first = DOMAIN v /\ DOMAIN wire.again = {}
      /\ \A p \in DOMAIN v : wire.first[p] \in {Form(v[p]), DumpForm(v[p])}
  <2>1. CASE wire = Once(Canonicalize(v))
    BY <2>1 DEF Once, Canonicalize
  <2>2. CASE wire = Once(Dumps(v))
    BY <2>2 DEF Once, Dumps, DumpForm
  <2> QED
    BY <2>1, <2>2 DEF Wires
<1>2. (DOMAIN wire.first \ Overwritten(wire)) \cup DOMAIN wire.again = DOMAIN v
  BY <1>1 DEF Overwritten
<1>3. Value(wire) = [p \in DOMAIN v |-> Understood(wire.first[p])]
  BY <1>1, <1>2 DEF Value
<1> QED
  BY <1>1, <1>3

SentArguments == <<"proposal", "arguments">>

LEMMA ArgumentsAreSent ==
  ASSUME NEW t, NEW s, Admitted(t, s), NEW w \in Worlds, NEW p \in Paths
  PROVE  /\ SentArguments \o p \in DOMAIN Envelope(t, w) <=> p \in DOMAIN ArgumentsOf(t)
         /\ p \in DOMAIN ArgumentsOf(t) =>
              Envelope(t, w)[SentArguments \o p] = Frozen(ArgumentsOf(t)[p])
<1> DEFINE c == Context(w, Stripped(Value(t)))
           payload == Value(t)
           v == Proposal(payload)
           args == <<"arguments">>
           r == args \o p
           q == <<"proposal">> \o r
           top == At(<<>>, Dict)
           mine == Under(<<"proposal">>, v)
           rest == Under(<<"context">>, c)
           both == top ++ mine
<1>1. /\ <<"context">> \in Paths /\ <<"proposal">> \in Paths /\ args \in Paths
      /\ "context" \in Names /\ <<"proposal">> \o args = SentArguments
  BY ShortPaths, KnownNames, TwoNames DEF SentArguments
<1>2. t \in Texts /\ Parses(t) /\ args \in DOMAIN payload /\ IsMapping(payload[args])
  BY DEF Admitted
<1>3. DOMAIN payload \subseteq Paths /\ DOMAIN v \subseteq Paths /\ DOMAIN c \subseteq Paths
  BY <1>2, ProposalIsAValue, ParsedIsAValue, TreePaths, StrippedAreNames, ContextIsAValue DEF IsValue
<1>4. r \in Paths /\ Len(r) >= 1 /\ r[1] = "arguments"
  <2>1. args \in Paths /\ Len(args) = 1 /\ args[1] = "arguments"
    BY <1>1
  <2> HIDE DEF args
  <2>2. /\ Len(p) \in Nat /\ args \o p \in Paths /\ Len(args \o p) = Len(args) + Len(p)
        /\ \A i \in 1..(Len(args) + Len(p)) :
             (args \o p)[i] = IF i <= Len(args) THEN args[i] ELSE p[i - Len(args)]
    BY <2>1, ConcatIs
  <2> QED
    BY <2>1, <2>2
<1>5. SentArguments \o p = q
  <2>1. <<"proposal">> \in Seq(Names) /\ args \in Seq(Names) /\ p \in Seq(Names)
    BY <1>1 DEF Paths
  <2>2. (<<"proposal">> \o args) \o p = <<"proposal">> \o (args \o p)
    BY <2>1, ConcatAssociative
  <2> QED
    BY <1>1, <2>2
<1>6. /\ r \in DOMAIN v <=> r \in DOMAIN payload
      /\ r \in DOMAIN v => v[r] = payload[r]
  <2>1. payload[args] # Null
    BY <1>2 DEF IsMapping, Null
  <2>2. Len(<<>>) = 0 /\ "arguments" \in ProposalFields
    BY DEF ProposalFields
  <2>3. r # <<>> /\ <<r[1]>> = args
    BY <1>4, <2>2
  <2> HIDE DEF r, payload, args
  <2>4. r[1] \in ProposalFields
    BY <1>4, <2>2
  <2> QED
    BY <2>1, <2>3, <2>4 DEF Proposal
<1>7. /\ p \in DOMAIN ArgumentsOf(t) <=> r \in DOMAIN payload
      /\ p \in DOMAIN ArgumentsOf(t) => ArgumentsOf(t)[p] = payload[r]
  BY <1>1, <1>3, WhatIsBelow DEF ArgumentsOf
<1>8. Len(q) >= 1 /\ q[1] = "proposal"
  <2>1. Len(<<"proposal">>) = 1 /\ <<"proposal">>[1] = "proposal"
    OBVIOUS
  <2>2. r \in Paths
    BY <1>4
  <2> HIDE DEF r
  <2>3. /\ Len(r) \in Nat /\ Len(<<"proposal">> \o r) = 1 + Len(r)
        /\ \A i \in 1..(1 + Len(r)) :
             (<<"proposal">> \o r)[i] = IF i <= 1 THEN <<"proposal">>[i] ELSE r[i - 1]
    BY <1>1, <2>1, <2>2, ConcatIs
  <2> QED
    BY <2>1, <2>3
<1> HIDE DEF payload, v, c, r, args
<1>9. q \notin DOMAIN rest
  <2>1. Starts(rest, "context")
    BY <1>1, <1>3, UnderStarts
  <2> HIDE DEF q, rest
  <2> QED
    BY <1>8, <2>1 DEF Starts
<1>10. q \notin DOMAIN top
  <2> HIDE DEF q
  <2> QED
    BY <1>8 DEF At
<1>11. /\ q \in DOMAIN mine <=> r \in DOMAIN v
       /\ r \in DOMAIN v => mine[q] = v[r]
  <2>1. /\ DOMAIN mine = {<<"proposal">> \o k : k \in DOMAIN v}
        /\ \A k \in DOMAIN v : mine[<<"proposal">> \o k] = v[k]
    BY <1>1, <1>3, WhatIsUnder
  <2>2. ASSUME NEW k \in DOMAIN v, q = <<"proposal">> \o k PROVE k = r
    BY <1>1, <1>3, <1>4, <2>2, ConcatCancels
  <2> HIDE DEF mine
  <2> QED
    BY <2>1, <2>2
<1>12. Draft(t, w) = both ++ rest
  BY DEF Draft, v, c, payload
<1> HIDE DEF top, mine, rest, q
<1>13. /\ q \in DOMAIN both <=> q \in DOMAIN mine
       /\ q \in DOMAIN mine => both[q] = mine[q]
  BY <1>10, BehindIs
<1> HIDE DEF both
<1>14. /\ q \in DOMAIN Draft(t, w) <=> q \in DOMAIN both
       /\ q \in DOMAIN both => Draft(t, w)[q] = both[q]
  <2>1. q \in DOMAIN (both ++ rest) <=> q \in DOMAIN both \/ q \in DOMAIN rest
    BY MergedHas
  <2>2. q \in DOMAIN both => (both ++ rest)[q] = both[q]
    BY FirstStays
  <2> QED
    BY <1>9, <1>12, <2>1, <2>2
<1> QED
  BY <1>5, <1>6, <1>7, <1>11, <1>13, <1>14, EnvelopeIsFrozen

\* Only an object or an array becomes another thing in a model, and each comes back
\* as what it was.
LEMMA ParsedIsKept ==
  ASSUME NEW x \in Values, x.kind \notin {"infinity", "proxy", "tuple"},
         NEW y \in {Understood(Form(Frozen(x))), Understood(DumpForm(Frozen(x)))}
  PROVE  Kept(x, y)
<1> DEFINE f == Frozen(x)
<1>1. f \in Tokens /\ f.kind # "infinity"
  <2>1. x \in Tokens
    BY DEF Tokens
  <2> QED
    BY <2>1, FrozenIsAToken DEF Frozen, Proxy, Tuple
<1>2. Survives(f, y)
  <2> HIDE DEF f
  <2> QED
    BY <1>1, TokensComeBack DEF f
<1>3. CASE x.kind = "dict"
  <2>1. x = Dict
    BY <1>3 DEF Values, Common, Null, Dict
  <2>2. f = Proxy /\ IsMapping(Proxy) /\ Proxy.kind = "proxy"
    BY <1>3 DEF Frozen, IsMapping, Proxy
  <2> HIDE DEF f
  <2>3. y = Dict
    BY <1>2, <2>2 DEF Survives
  <2> QED
    BY <2>1, <2>3 DEF Kept
<1>4. CASE x.kind = "list"
  <2>1. x = List
    BY <1>4 DEF Values, Common, Null, List
  <2>2. f = Tuple /\ IsSequence(Tuple) /\ ~IsMapping(Tuple) /\ Tuple.kind = "tuple"
    BY <1>4 DEF Frozen, IsMapping, IsSequence, Tuple
  <2> HIDE DEF f
  <2>3. y = List
    BY <1>2, <2>2 DEF Survives
  <2> QED
    BY <2>1, <2>3 DEF Kept
<1>5. CASE x.kind \notin {"dict", "list"}
  <2>1. f = x /\ ~IsMapping(x) /\ ~IsSequence(x)
    BY <1>5 DEF Frozen, IsMapping, IsSequence
  <2> HIDE DEF f
  <2> QED
    BY <1>2, <2>1 DEF Survives, Kept
<1> QED
  BY <1>3, <1>4, <1>5

LEMMA ParsedIsPlain ==
  ASSUME NEW t, NEW s, Admitted(t, s), NEW p \in DOMAIN ArgumentsOf(t)
  PROVE  ArgumentsOf(t)[p].kind \notin {"proxy", "tuple"}
<1>1. /\ t \in Texts /\ Parses(t)
      /\ \A q \in DOMAIN t.first : t.first[q] \in Literals
  BY IntakeAssumption DEF Admitted, IsForm
<1>2. ASSUME NEW x \in Literals PROVE Understood(x).kind \notin {"proxy", "tuple"}
  <2>1. CASE x.kind \in {"literal", "decimal", "huge", "object", "array"}
    BY <2>1 DEF Understood, IntOf, FloatOf, Infinity, Dict, List
  <2>2. CASE x.kind \notin {"literal", "decimal", "huge", "object", "array"}
    <3>1. Understood(x) = x
      BY <2>2 DEF Understood
    <3>2. x.kind \notin {"proxy", "tuple"}
      BY DEF Literals, Common, Null
    <3> QED
      BY <3>1, <3>2
  <2> QED
    BY <2>1, <2>2
<1>3. DOMAIN Value(t) \subseteq Paths /\ <<"arguments">> \in Paths
  BY <1>1, ParsedIsAValue, TreePaths, ShortPaths, KnownNames
<1>4. PICK q \in DOMAIN Value(t) : ArgumentsOf(t)[p] = Value(t)[q]
  BY <1>3, WhatIsBelow DEF ArgumentsOf
<1>5. q \in DOMAIN t.first /\ Value(t)[q] = Understood(t.first[q])
  BY <1>1, ParsedOnce
<1> QED
  BY <1>1, <1>2, <1>4, <1>5

\* No argument of an admitted call is infinite.
FiniteInv == text # None => \A p \in DOMAIN ArgumentsOf(text) : ArgumentsOf(text)[p].kind # "infinity"

LEMMA AdmittedIsFinite ==
  ASSUME NEW t \in Texts, Admits(t, world), world \in Worlds, NEW p \in DOMAIN ArgumentsOf(t)
  PROVE  ArgumentsOf(t)[p].kind # "infinity"
<1>1. Admitted(t, schema) /\ Writable(Envelope(t, world))
  BY AdmitsIsAdmitted DEF Admits, HasBothDigests, HasDigest
<1>2. p \in Paths
  BY <1>1, ArgumentsAreAValue, TreePaths
<1> DEFINE q == SentArguments \o p
           x == ArgumentsOf(t)[p]
<1>3. q \in DOMAIN Envelope(t, world) /\ Envelope(t, world)[q] = Frozen(x)
  BY <1>1, <1>2, ArgumentsAreSent
<1> HIDE DEF q, x
<1>4. Frozen(x).kind # "infinity"
  BY <1>1, <1>3 DEF Writable
<1>5. x.kind = "infinity" => Frozen(x) = x
  BY DEF Frozen, IsMapping, IsSequence
<1> QED
  BY <1>4, <1>5 DEF x

LEMMA ArgumentsStayFinite == Spec => []FiniteInv
<1>1. Init => FiniteInv
  BY DEF Init, FiniteInv
<1>2. FiniteInv /\ TypeInv /\ [Next]_vars => FiniteInv'
  <2> SUFFICES ASSUME FiniteInv, TypeInv, [Next]_vars PROVE FiniteInv'
    OBVIOUS
  <2>1. CASE Propose
    <3>1. text' \in Texts /\ Admits(text', world) /\ world \in Worlds
      BY <2>1 DEF Propose, TypeInv
    <3>2. \A p \in DOMAIN ArgumentsOf(text') : ArgumentsOf(text')[p].kind # "infinity"
      BY <3>1, AdmittedIsFinite
    <3> QED
      BY <3>2 DEF FiniteInv
  <2>2. CASE UNCHANGED text
    BY <2>2 DEF FiniteInv
  <2> QED
    BY <2>1, <2>2 DEF Next, Churns, AsksOtherwise, Change, RequestApproval, Decide, Evaluate,
                      Execute, vars
<1> QED
  BY <1>1, <1>2, TypesAreKept, PTL DEF Spec

LEMMA AcceptedTwice ==
  ASSUME NEW t, NEW s \in Schemas, Admitted(t, s), NEW w \in Worlds,
         \A p \in DOMAIN ArgumentsOf(t) : ArgumentsOf(t)[p].kind # "infinity",
         NEW wire \in Wires(Envelope(t, w))
  PROVE  Violations(Below(Value(wire), SentArguments), s) = {}
<1> DEFINE v == ArgumentsOf(t)
           e == Envelope(t, w)
           u == Below(Value(wire), SentArguments)
<1>1. IsTree(v) /\ DOMAIN v \subseteq Paths /\ \A p \in DOMAIN v : v[p] \in Values
  BY ArgumentsAreAValue, TreePaths
<1>2. DOMAIN e \subseteq Paths /\ SentArguments \in Paths
  BY EnvelopeIsAValue, ShortPaths, KnownNames DEF Admitted, IsValue, SentArguments
<1>3. /\ DOMAIN Value(wire) = DOMAIN e
      /\ \A q \in DOMAIN e :
           Value(wire)[q] \in {Understood(Form(e[q])), Understood(DumpForm(e[q]))}
  BY WireReads
<1>4. \A p \in Paths :
        /\ SentArguments \o p \in DOMAIN e <=> p \in DOMAIN v
        /\ p \in DOMAIN v => e[SentArguments \o p] = Frozen(v[p])
  BY ArgumentsAreSent
<1>5. /\ DOMAIN u = {p \in Paths : SentArguments \o p \in DOMAIN Value(wire)}
      /\ \A p \in DOMAIN u : u[p] = Value(wire)[SentArguments \o p]
  BY <1>2, <1>3, WhatIsBelow
<1>6. \A p \in DOMAIN v : v[p].kind \notin {"infinity", "proxy", "tuple"}
  BY ParsedIsPlain
<1> HIDE DEF v, e, u
<1>7. DOMAIN u = DOMAIN v
  BY <1>1, <1>3, <1>4, <1>5
<1>8. ASSUME NEW p \in DOMAIN v PROVE Kept(v[p], u[p])
  <2>1. p \in Paths /\ u[p] = Value(wire)[SentArguments \o p]
    BY <1>1, <1>5, <1>7
  <2>2. SentArguments \o p \in DOMAIN e /\ e[SentArguments \o p] = Frozen(v[p])
    BY <1>4, <2>1
  <2>3. u[p] \in {Understood(Form(Frozen(v[p]))), Understood(DumpForm(Frozen(v[p])))}
    BY <1>3, <2>1, <2>2
  <2>4. v[p] \in Values /\ v[p].kind \notin {"infinity", "proxy", "tuple"}
    BY <1>1, <1>6
  <2> QED
    BY <2>3, <2>4, ParsedIsKept
<1>9. IsSchema(s) /\ Violations(v, s) = {}
  BY IntakeAssumption DEF Admitted, v
<1>10. Violations(u, s) = {}
  BY <1>1, <1>7, <1>8, <1>9, KeptIsAccepted
<1> QED
  BY <1>10 DEF u

\* What the gateway's validator accepted the broker's accepts as well, from either
\* encoding, although a float may be an int by then (FR-02).
THEOREM ValidationHoldsTwice == Spec => []ValidationSurvivesTheWire
<1>1. TextInv /\ TypeInv /\ FiniteInv => ValidationSurvivesTheWire
  <2> SUFFICES ASSUME TextInv, TypeInv, FiniteInv, text # None, NEW wire \in Wires(EnvelopeNow)
               PROVE  Violations(Below(Value(wire), SentArguments), schema) = {}
    BY DEF ValidationSurvivesTheWire, SentArguments
  <2> QED
    BY AcceptedTwice DEF TextInv, TypeInv, FiniteInv, EnvelopeNow
<1> QED
  BY <1>1, TypesAreKept, CallsAreAdmitted, ArgumentsStayFinite, PTL

===============================================================================
