-------------------------- MODULE TokenSpendingProofs -------------------------
(*****************************************************************************)
(* The safety properties of TokenSpending for every number of tokens,        *)
(* brokers and threads and every setting of the clocks.  The two about first *)
(* uses hold of a service whose tokens are gone before the nonce store       *)
(* forgets them: ShortLived.  Nothing in the code enforces it, and           *)
(* MCTokenRetention shows what happens without it.                           *)
(*****************************************************************************)
EXTENDS TokenSpending, TLAPS

\* A token presented in the last moment of its life reaches the nonce store
\* before its first use is purged.
ShortLived == \A l \in Lifetimes : l + MaxStall <= Retention + 1

-------------------------------------------------------------------------------
(* Types.                                                                    *)

LEMMA TokenTyped ==
  ASSUME TypeOK, NEW t \in Tokens
  PROVE  /\ token[t].minted \in BOOLEAN
         /\ token[t].minted => token[t] \in Token
         /\ nonce[t].spent \in BOOLEAN
         /\ nonce[t].spent => nonce[t] \in Entry
  <1>1. token[t] \in Token \cup {NoToken} /\ nonce[t] \in Entry \cup {NoEntry}
    BY DEF TypeOK
  <1>2. NoToken.minted = FALSE /\ \A x \in Token : x.minted = TRUE
    BY DEF NoToken, Token
  <1>3. NoEntry.spent = FALSE /\ \A x \in Entry : x.spent = TRUE
    BY DEF NoEntry, Entry
  <1> QED
    BY <1>1, <1>2, <1>3

LEMMA CallTyped ==
  ASSUME TypeOK, NEW th \in Threads, consume[th] # Idle
  PROVE  /\ consume[th] \in Call
         /\ consume[th].token \in Tokens
         /\ token[consume[th].token].minted
         /\ consume[th].moment \in Int
  BY DEF TypeOK, Call

LEMMA AnswerTyped ==
  ASSUME TypeOK, NEW th \in Threads, consume[th] # Idle,
         NEW pc \in {"presented", "verified"} \cup Answers,
         consume' = [consume EXCEPT ![th].pc = pc]
  PROVE  /\ consume' \in [Threads -> Call \cup {Idle}]
         /\ consume'[th] = [consume[th] EXCEPT !.pc = pc]
         /\ \A o \in Threads : o # th => consume'[o] = consume[o]
         /\ \A o \in Threads : consume'[o] # Idle <=> consume[o] # Idle
         /\ \A o \in Threads : consume[o] # Idle => consume'[o].token = consume[o].token
  <1>1. consume[th] \in Call
    BY CallTyped
  <1>2. [consume[th] EXCEPT !.pc = pc] \in Call
    BY <1>1 DEF Call
  <1>3. /\ consume' \in [Threads -> Call \cup {Idle}]
        /\ consume'[th] = [consume[th] EXCEPT !.pc = pc]
        /\ \A o \in Threads : o # th => consume'[o] = consume[o]
    BY <1>2 DEF TypeOK
  <1>4. consume'[th] # Idle
    BY <1>3 DEF Idle, Answers
  <1>5. consume'[th].token = consume[th].token
    BY <1>1, <1>3 DEF Call
  <1> QED
    BY <1>3, <1>4, <1>5

LEMMA PurgedTyped ==
  ASSUME TypeOK, NEW moment
  PROVE  /\ Purged(moment) \in [Tokens -> Entry \cup {NoEntry}]
         /\ \A t \in Tokens : Purged(moment)[t].spent => Purged(moment)[t] = nonce[t]
         /\ \A t \in Tokens : Purged(moment)[t] = nonce[t] \/ Purged(moment)[t] = NoEntry
  BY DEF Purged, NoEntry, TypeOK

LEMMA InitTypes == Init => TypeOK
  BY SpendingAssumption
     DEF Init, TypeOK, NoToken, NoEntry, Idle

LEMMA IssueTypes ==
  ASSUME TypeOK, NEW t \in Tokens, Issue(t)
  PROVE  /\ TypeOK'
         /\ \A u \in Tokens : token[u].minted => token'[u] = token[u]
  <1>1. PICK w \in Warrants, b \in Bundles, l \in Lifetimes :
          /\ w.mode # "halted"
          /\ token' = [token EXCEPT ![t] =
               [minted |-> TRUE, mode |-> w.mode, verdict |-> w.verdict, key |-> signer.active,
                bundle |-> b, issued |-> now, expires |-> now + l]]
    BY DEF Issue, MintAccepts
  <1>2. [minted |-> TRUE, mode |-> w.mode, verdict |-> w.verdict, key |-> signer.active,
         bundle |-> b, issued |-> now, expires |-> now + l] \in Token
    BY SpendingAssumption DEF TypeOK, Token
  <1>3. /\ token' \in [Tokens -> Token \cup {NoToken}]
        /\ token'[t].minted
        /\ \A u \in Tokens : u # t => token'[u] = token[u]
        /\ ~token[t].minted
    BY <1>1, <1>2 DEF TypeOK, Issue
  <1>4. \A th \in Threads : consume[th] # Idle => token'[consume[th].token].minted
    BY <1>3, CallTyped
  <1>5. ledger' \in [Decisions -> Tokens \cup {None}]
    BY SpendingAssumption DEF Issue, Claim, TypeOK
  <1> QED
    BY <1>3, <1>4, <1>5 DEF Issue, governance, TypeOK

LEMMA PresentTypes ==
  ASSUME TypeOK, NEW th \in Threads, Present(th)
  PROVE  TypeOK'
  <1>1. PICK t \in Tokens, b \in Bindings :
          /\ token[t].minted
          /\ consume' = [consume EXCEPT ![th] =
               [pc |-> "presented", token |-> t, binding |-> b, moment |-> now,
                mode |-> current.mode, bundle |-> current.bundle, live |-> ~Withdrawn(t)]]
    BY DEF Present
  <1> DEFINE c == [pc |-> "presented", token |-> t, binding |-> b, moment |-> now,
                   mode |-> current.mode, bundle |-> current.bundle, live |-> ~Withdrawn(t)]
  <1>2. (~Withdrawn(t)) \in BOOLEAN
    BY Zenon DEF Withdrawn
  <1>3. c \in Call
    <2> HIDE DEF Withdrawn
    <2> QED
      BY <1>2 DEF Call, TypeOK
  <1>4. c.token = t
    OBVIOUS
  <1> HIDE DEF c
  <1>5. consume' = [consume EXCEPT ![th] = c]
    BY <1>1 DEF c
  <1>6. /\ consume' \in [Threads -> Call \cup {Idle}]
        /\ consume'[th] = c
        /\ \A o \in Threads : o # th => consume'[o] = consume[o]
    BY <1>3, <1>5 DEF TypeOK
  <1> QED
    BY <1>1, <1>4, <1>6 DEF Present, governance, TypeOK

LEMMA VerifyTypes ==
  ASSUME TypeOK, NEW th \in Threads, Verify(th)
  PROVE  TypeOK'
  <1>1. consume[th] # Idle
    BY DEF Verify, Idle
  <1>2. PICK pc \in {"verified", "refused"} : consume' = [consume EXCEPT ![th].pc = pc]
    BY DEF Verify
  <1> QED
    BY <1>1, <1>2, AnswerTyped, CallTyped DEF Verify, governance, TypeOK, Answers

LEMMA SpendTypes ==
  ASSUME TypeOK, NEW th \in Threads, Spend(th)
  PROVE  TypeOK'
  <1> DEFINE t == consume[th].token
             at == consume[th].moment
             broker == BrokerOf[th]
             kept == Purged(at)
  <1>1. consume[th] # Idle
    BY DEF Spend, Idle
  <1>2. t \in Tokens /\ at \in 0..MaxTime /\ broker \in Brokers
    BY <1>1, CallTyped, SpendingAssumption DEF Call
  <1>3. PICK pc \in Answers : consume' = [consume EXCEPT ![th].pc = pc]
    BY DEF Spend, Answer, Answers
  <1>4. [spent |-> TRUE, broker |-> broker, at |-> at] \in Entry
    BY <1>2 DEF Entry
  <1>5. nonce' \in [Tokens -> Entry \cup {NoEntry}]
    <2>1. kept \in [Tokens -> Entry \cup {NoEntry}]
      BY PurgedTyped
    <2> HIDE DEF kept
    <2>2. nonce' = kept \/ nonce' = [kept EXCEPT ![t] = [spent |-> TRUE, broker |-> broker, at |-> at]]
      BY DEF Spend, kept
    <2> QED
      BY <1>4, <2>1, <2>2
  <1>6. uses' \in [Tokens -> [Brokers -> Nat]]
    <2> DEFINE row == [uses[t] EXCEPT ![broker] = uses[t][broker] + 1]
    <2>1. uses' = uses \/ uses' = [uses EXCEPT ![t] = row]
      BY DEF Spend
    <2>2. row \in [Brokers -> Nat]
      BY <1>2 DEF TypeOK
    <2> HIDE DEF row
    <2> QED
      BY <1>2, <2>1, <2>2 DEF TypeOK
  <1>7. /\ consume' \in [Threads -> Call \cup {Idle}]
        /\ \A o \in Threads : consume'[o] # Idle <=> consume[o] # Idle
        /\ \A o \in Threads : consume[o] # Idle => consume'[o].token = consume[o].token
    BY <1>1, <1>3, AnswerTyped
  <1>8. UNCHANGED <<now, governance, ledger, token>>
    BY DEF Spend
  <1> HIDE DEF t, at, broker, kept
  <1> QED
    BY <1>5, <1>6, <1>7, <1>8 DEF governance, TypeOK

LEMMA WorldTypes ==
  ASSUME TypeOK, Tick \/ Govern
  PROVE  TypeOK'
  <1>1. CASE Tick
    BY <1>1, SpendingAssumption DEF Tick, governance, TypeOK
  <1>2. CASE SetMode \/ ActivateBundle
    BY <1>2, SpendingAssumption DEF SetMode, ActivateBundle, TypeOK
  <1>3. CASE RotateTo \/ Retire \/ Revoke
    BY <1>3 DEF RotateTo, Retire, Revoke, TypeOK
  <1> QED
    BY <1>1, <1>2, <1>3 DEF Govern

LEMMA NextTypes ==
  ASSUME TypeOK, [Next]_vars
  PROVE  TypeOK'
  <1>1. CASE UNCHANGED vars
    BY <1>1 DEF vars, governance, TypeOK
  <1> QED
    BY <1>1, IssueTypes, PresentTypes, VerifyTypes, SpendTypes, WorldTypes DEF Next

-------------------------------------------------------------------------------
(* The parts of the inductive invariant.                                     *)

\* One minted token per decision, and it outlives its issue by its lifetime.
Mints ==
  \A t \in Tokens : token[t].minted =>
    /\ ledger[DecisionOf[t]] = t
    /\ token[t].mode # "halted"
    /\ token[t].issued <= now
    /\ \E l \in Lifetimes : token[t].expires = token[t].issued + l

\* What a call has established by the time it is past verify.
Established(c) ==
  LET t == c.token IN
  /\ c.live
  /\ c.moment < token[t].expires
  /\ token[t].mode = c.mode /\ c.mode # "halted"
  /\ c.mode = "enforce" => token[t].verdict = "ALLOW"
  /\ c.bundle # token[t].bundle => c.moment - token[t].issued <= Grace

Past == {"verified", "first_use", "duplicate_delivery", "replay"}

Calls ==
  \A th \in Threads : consume[th] # Idle =>
    LET c == consume[th] IN
    /\ token[c.token].issued <= c.moment /\ c.moment <= now
    /\ InFlight(th) => now <= c.moment + MaxStall
    /\ c.pc = "presented" /\ ~c.live => Withdrawn(c.token)
    /\ c.pc \in Past => Established(c)

\* An entry of the nonce store is the record of a first use.
Entries ==
  \A t \in Tokens : nonce[t].spent =>
    /\ uses[t][nonce[t].broker] > 0
    /\ token[t].issued <= nonce[t].at /\ nonce[t].at <= now

\* A first use the store no longer holds is older than the retention.
Forgets ==
  \A t \in Tokens : Used(t) =>
    /\ token[t].minted
    /\ ~nonce[t].spent => now > token[t].issued + Retention

OneUse ==
  \A t \in Tokens : \A b, e \in Brokers :
    /\ uses[t][b] <= 1
    /\ uses[t][b] > 0 /\ uses[t][e] > 0 => b = e

\* FR-22: a duplicate delivery is a retry of a dispatch that happened, at the
\* broker that made it.
DuplicateIsARetry ==
  \A th \in Threads :
    consume[th].pc = "duplicate_delivery" => uses[consume[th].token][BrokerOf[th]] > 0

-------------------------------------------------------------------------------
(* What a step leaves standing.                                              *)

\* Who writes which variable.
LEMMA Frames ==
  ASSUME [Next]_vars
  PROVE  /\ UNCHANGED <<token, ledger>> \/ \E t \in Tokens : Issue(t)
         /\ UNCHANGED now \/ Tick
         /\ UNCHANGED governance \/ Govern
         /\ UNCHANGED <<nonce, uses>> \/ \E th \in Threads : Spend(th)
         /\ UNCHANGED consume \/ \E th \in Threads : Present(th) \/ Verify(th) \/ Spend(th)
  <1>1. CASE UNCHANGED vars
    BY <1>1 DEF vars
  <1>2. CASE \E t \in Tokens : Issue(t)
    BY <1>2 DEF Issue
  <1>3. CASE \E th \in Threads : Present(th) \/ Verify(th) \/ Spend(th)
    BY <1>3 DEF Present, Verify, Spend
  <1>4. CASE Tick
    BY <1>4 DEF Tick
  <1>5. CASE Govern
    BY <1>5 DEF Govern, SetMode, ActivateBundle, RotateTo, Retire, Revoke
  <1> QED
    BY <1>1, <1>2, <1>3, <1>4, <1>5 DEF Next

LEMMA Standing ==
  ASSUME TypeOK, [Next]_vars
  PROVE  /\ \A t \in Tokens : token[t].minted => token'[t] = token[t]
         /\ now \in Nat /\ now' \in Nat /\ now <= now'
         /\ \A t \in Tokens : token[t].minted /\ Withdrawn(t) => Withdrawn(t)'
  <1>1. \A t \in Tokens : token[t].minted => token'[t] = token[t]
    BY Frames, IssueTypes
  <1>2. now \in Nat
    BY SpendingAssumption DEF TypeOK
  <1>3. now' = now \/ now' = now + 1
    BY Frames DEF Tick
  <1>4. revoked \subseteq revoked' /\ signer'.keys \subseteq signer.keys
    <2>1. CASE UNCHANGED governance
      BY <2>1 DEF governance
    <2>2. CASE Govern
      BY <2>2 DEF Govern, SetMode, ActivateBundle, RotateTo, Retire, Revoke, TypeOK
    <2> QED
      BY <2>1, <2>2, Frames
  <1>5. ASSUME NEW t \in Tokens, token[t].minted, Withdrawn(t)
        PROVE  Withdrawn(t)'
    BY <1>1, <1>4, <1>5 DEF Withdrawn
  <1> QED
    BY <1>1, <1>2, <1>3, <1>5

\* Numbers of a minted token and of a call.
LEMMA Numbers ==
  ASSUME TypeOK, NEW t \in Tokens, token[t].minted
  PROVE  token[t].issued \in Nat /\ token[t].expires \in Nat
  <1>1. token[t] \in Token
    BY TokenTyped
  <1>2. token[t].issued \in 0..MaxTime /\ token[t].expires \in Nat
    BY <1>1 DEF Token
  <1> QED
    BY <1>2

LEMMA MintsStep ==
  ASSUME TypeOK, Mints, [Next]_vars
  PROVE  Mints'
  <1> SUFFICES ASSUME NEW t \in Tokens, token'[t].minted
               PROVE  /\ ledger'[DecisionOf[t]] = t
                      /\ token'[t].mode # "halted"
                      /\ token'[t].issued <= now'
                      /\ \E l \in Lifetimes : token'[t].expires = token'[t].issued + l
    BY DEF Mints
  <1>1. CASE token[t].minted
    <2>1. ledger'[DecisionOf[t]] = ledger[DecisionOf[t]]
      <3>1. CASE UNCHANGED ledger
        BY <3>1
      <3>2. ASSUME NEW u \in Tokens, Issue(u)
            PROVE  ledger'[DecisionOf[t]] = ledger[DecisionOf[t]]
        BY <1>1, <3>2, SpendingAssumption DEF Issue, Claim, Mints, TypeOK
      <3> QED
        BY <3>1, <3>2, Frames
    <2> QED
      BY <1>1, <2>1, Standing, Numbers DEF Mints
  <1>2. CASE ~token[t].minted
    <2>1. PICK u \in Tokens : Issue(u)
      BY <1>2, Frames
    <2>2. PICK w \in Warrants, b \in Bundles, l \in Lifetimes :
            /\ w.mode # "halted"
            /\ token' = [token EXCEPT ![u] =
                 [minted |-> TRUE, mode |-> w.mode, verdict |-> w.verdict, key |-> signer.active,
                  bundle |-> b, issued |-> now, expires |-> now + l]]
      BY <2>1 DEF Issue, MintAccepts
    <2>3. PICK m : m = [minted |-> TRUE, mode |-> w.mode, verdict |-> w.verdict,
                        key |-> signer.active, bundle |-> b, issued |-> now, expires |-> now + l]
      OBVIOUS
    <2>4. t = u
      BY <1>2, <2>2 DEF TypeOK
    <2>5. token'[t] = m
      BY <2>2, <2>3, <2>4 DEF TypeOK
    <2>6. ledger' = [ledger EXCEPT ![DecisionOf[t]] = t] /\ now' = now
      BY <2>1, <2>4 DEF Issue, Claim
    <2>7. ledger'[DecisionOf[t]] = t
      BY <2>6, SpendingAssumption DEF TypeOK
    <2>8. m.issued <= now' /\ m.mode # "halted" /\ m.expires = m.issued + l
      BY <2>2, <2>3, <2>6, Standing
    <2> QED
      BY <2>5, <2>7, <2>8
  <1> QED
    BY <1>1, <1>2

\* A call keeps what it was presented with; only how far it is changes.
LEMMA SameCall ==
  ASSUME TypeOK, NEW th \in Threads, consume[th] # Idle,
         NEW pc \in {"presented", "verified"} \cup Answers,
         consume' = [consume EXCEPT ![th].pc = pc]
  PROVE  /\ consume'[th].pc = pc
         /\ consume'[th].token = consume[th].token
         /\ consume'[th].moment = consume[th].moment
         /\ consume'[th].mode = consume[th].mode
         /\ consume'[th].bundle = consume[th].bundle
         /\ consume'[th].live = consume[th].live
  <1>1. consume[th] \in Call /\ consume'[th] = [consume[th] EXCEPT !.pc = pc]
    BY CallTyped, AnswerTyped
  <1> QED
    BY <1>1 DEF Call

\* Verify and Spend move one call on.
LEMMA MovesOn ==
  ASSUME TypeOK, NEW th \in Threads, Verify(th) \/ Spend(th)
  PROVE  /\ consume[th] # Idle
         /\ \E pc \in {"presented", "verified"} \cup Answers :
              consume' = [consume EXCEPT ![th].pc = pc]
         /\ \A o \in Threads : o # th => consume'[o] = consume[o]
         /\ consume'[th].pc \in Answers \cup {"verified"}
         /\ consume'[th].token = consume[th].token
         /\ consume'[th].moment = consume[th].moment
         /\ consume'[th].mode = consume[th].mode
         /\ consume'[th].bundle = consume[th].bundle
         /\ consume'[th].live = consume[th].live
  <1>1. consume[th] # Idle
    BY DEF Verify, Spend, Idle
  <1>2. PICK pc \in Answers \cup {"verified"} : consume' = [consume EXCEPT ![th].pc = pc]
    BY DEF Verify, Spend, Answer, Answers
  <1>3. pc \in {"presented", "verified"} \cup Answers
    BY <1>2
  <1>4. /\ consume'[th].pc = pc
        /\ consume'[th].token = consume[th].token
        /\ consume'[th].moment = consume[th].moment
        /\ consume'[th].mode = consume[th].mode
        /\ consume'[th].bundle = consume[th].bundle
        /\ consume'[th].live = consume[th].live
    BY <1>1, <1>2, <1>3, SameCall
  <1>5. \A o \in Threads : o # th => consume'[o] = consume[o]
    BY <1>1, <1>2, <1>3, AnswerTyped
  <1> QED
    BY <1>1, <1>2, <1>3, <1>4, <1>5

\* What verify accepts, it has established.
LEMMA AcceptedIsEstablished ==
  ASSUME TypeOK, Mints, Calls, NEW th \in Threads, consume[th].pc = "presented",
         Accepts(consume[th])
  PROVE  Established(consume[th])
  <1> DEFINE c == consume[th]
             t == c.token
  <1>1. c # Idle
    BY DEF Idle
  <1>2. /\ t \in Tokens /\ token[t].minted /\ c.moment \in Int
        /\ token[t].issued \in Nat /\ token[t].expires \in Nat
    BY <1>1, CallTyped, Numbers
  <1>3. c.live
    BY <1>1 DEF Calls, Accepts
  <1>4. c.moment < token[t].expires
    BY <1>2 DEF Accepts, Expired
  <1>5. token[t].mode = c.mode /\ c.mode # "halted"
    BY <1>2 DEF Accepts, Mints
  <1>6. c.mode = "enforce" => token[t].verdict = "ALLOW"
    BY DEF Accepts
  <1>7. c.bundle # token[t].bundle => c.moment - token[t].issued <= Grace
    BY <1>2, SpendingAssumption DEF Accepts, BundleIsCurrent
  <1> QED
    BY <1>3, <1>4, <1>5, <1>6, <1>7 DEF Established

LEMMA CallsStep ==
  ASSUME TypeOK, Mints, Calls, [Next]_vars
  PROVE  Calls'
  <1> SUFFICES ASSUME NEW th \in Threads, NEW d, d = consume'[th], d # Idle
               PROVE  /\ token'[d.token].issued <= d.moment /\ d.moment <= now'
                      /\ d.pc \in {"presented", "verified"} => now' <= d.moment + MaxStall
                      /\ d.pc = "presented" /\ ~d.live => Withdrawn(d.token)'
                      /\ d.pc \in Past => Established(d)'
    BY DEF Calls, InFlight
  <1>1. CASE d = consume[th]
    <2>1. /\ d.token \in Tokens /\ token[d.token].minted /\ token'[d.token] = token[d.token]
          /\ d.moment \in Int
      BY <1>1, CallTyped, Standing
    <2>2. /\ token[d.token].issued <= d.moment /\ d.moment <= now
          /\ d.pc \in {"presented", "verified"} => now <= d.moment + MaxStall
          /\ d.pc = "presented" /\ ~d.live => Withdrawn(d.token)
          /\ d.pc \in Past => Established(d)
      BY <1>1 DEF Calls, InFlight
    <2>3. d.moment <= now' /\ (Withdrawn(d.token) => Withdrawn(d.token)')
      BY <2>1, <2>2, Standing
    <2>4. d.pc \in {"presented", "verified"} => now' <= d.moment + MaxStall
      <3>1. CASE now' = now
        BY <2>2, <3>1
      <3>2. CASE Tick
        BY <1>1, <2>1, <3>2, Standing, SpendingAssumption DEF InFlight, Tick
      <3> QED
        BY <3>1, <3>2, Frames
    <2>5. Established(d) => Established(d)'
      BY <2>1 DEF Established
    <2> QED
      BY <2>1, <2>2, <2>3, <2>4, <2>5
  <1>2. CASE Present(th)
    <2>1. PICK t \in Tokens, b \in Bindings :
            /\ token[t].minted
            /\ consume' = [consume EXCEPT ![th] =
                 [pc |-> "presented", token |-> t, binding |-> b, moment |-> now,
                  mode |-> current.mode, bundle |-> current.bundle, live |-> ~Withdrawn(t)]]
      BY <1>2 DEF Present
    <2>2. /\ d.pc = "presented" /\ d.token = t
          /\ d.moment = now /\ d.live = ~Withdrawn(t)
      BY <2>1 DEF TypeOK
    <2>3. token[t].issued <= now /\ now' = now /\ now \in Nat
      BY <1>2, <2>1, Standing DEF Mints, Present
    <2>4. token'[t] = token[t] /\ (Withdrawn(t) => Withdrawn(t)')
      BY <2>1, Standing
    <2>5. ~d.live => Withdrawn(t)
      BY <2>2, Zenon
    <2>6. now <= now + MaxStall
      BY <2>3, SpendingAssumption
    <2>7. d.pc \notin Past
      BY <2>2 DEF Past
    <2>8. Withdrawn(t)' => Withdrawn(d.token)'
      BY <2>2, Zenon
    <2> QED
      BY <2>2, <2>3, <2>4, <2>5, <2>6, <2>7, <2>8
  <1>3. CASE Verify(th) \/ Spend(th)
    <2>1. PICK c : c = consume[th]
      OBVIOUS
    <2>2. /\ c # Idle
          /\ d.pc \in Answers \cup {"verified"}
          /\ d.token = c.token /\ d.moment = c.moment /\ d.mode = c.mode
          /\ d.bundle = c.bundle /\ d.live = c.live
      BY <1>3, <2>1, MovesOn
    <2>3. c.token \in Tokens /\ token[c.token].minted /\ token'[c.token] = token[c.token]
      BY <2>1, <2>2, CallTyped, Standing
    <2>4. now' = now
      BY <1>3 DEF Verify, Spend
    <2>5. c.pc \in {"presented", "verified"}
      BY <1>3, <2>1 DEF Verify, Spend
    <2>6. /\ token[c.token].issued <= c.moment /\ c.moment <= now
          /\ now <= c.moment + MaxStall
          /\ c.pc \in Past => Established(c)
      BY <2>1, <2>2, <2>5 DEF Calls, InFlight
    <2>7. d.pc \in Past => Established(c)
      <3>1. CASE Verify(th)
        <4>1. d.pc = IF Accepts(c) THEN "verified" ELSE "refused"
          BY <2>1, <2>2, <3>1 DEF Verify, TypeOK, Call, Idle
        <4> QED
          BY <2>1, <3>1, <4>1, AcceptedIsEstablished DEF Past, Verify
      <3>2. CASE Spend(th)
        BY <2>1, <2>6, <3>2 DEF Spend, Past
      <3> QED
        BY <1>3, <3>1, <3>2
    <2>8. Established(c) => Established(d)'
      BY <2>2, <2>3 DEF Established
    <2>9. d.pc # "presented"
      BY <2>2 DEF Answers
    <2> QED
      BY <2>2, <2>3, <2>4, <2>6, <2>7, <2>8, <2>9
  <1>4. \/ d = consume[th]
        \/ Present(th) \/ Verify(th) \/ Spend(th)
    <2>1. ASSUME NEW o \in Threads, Present(o), o # th
          PROVE  consume'[th] = consume[th]
      BY <2>1 DEF Present, TypeOK
    <2> QED
      BY <2>1, Frames, MovesOn
  <1> QED
    BY <1>1, <1>2, <1>3, <1>4

-------------------------------------------------------------------------------
(* The nonce store.                                                          *)

\* The purge forgets only what is older than the retention.
LEMMA PurgeForgets ==
  ASSUME TypeOK, NEW moment \in Int, NEW t \in Tokens
  PROVE  \/ Purged(moment)[t] = nonce[t]
         \/ /\ nonce[t].spent /\ nonce[t].at \in Int /\ nonce[t].at < moment - Retention
            /\ ~Purged(moment)[t].spent
  <1>1. nonce[t].spent => nonce[t].at \in 0..MaxTime
    BY TokenTyped DEF Entry
  <1>2. NoEntry.spent = FALSE
    BY DEF NoEntry
  <1> QED
    BY <1>1, <1>2 DEF Purged

\* What spending does: a first use is entered and counted, anything else only
\* purges.
LEMMA SpendEffects ==
  ASSUME TypeOK, NEW th \in Threads, NEW c, c = consume[th], Spend(th)
  PROVE  /\ c.token \in Tokens /\ c.moment \in Int /\ BrokerOf[th] \in Brokers
         /\ token[c.token].minted /\ c # Idle /\ c.pc = "verified"
         /\ \/ /\ ~Purged(c.moment)[c.token].spent
               /\ nonce'[c.token] = [spent |-> TRUE, broker |-> BrokerOf[th], at |-> c.moment]
               /\ uses'[c.token] = [uses[c.token] EXCEPT ![BrokerOf[th]] = uses[c.token][BrokerOf[th]] + 1]
               /\ consume'[th].pc = "first_use"
            \/ /\ Purged(c.moment)[c.token].spent
               /\ nonce'[c.token] = Purged(c.moment)[c.token]
               /\ uses'[c.token] = uses[c.token]
               /\ consume'[th].pc = IF IsRetry(Purged(c.moment)[c.token], BrokerOf[th], c.moment)
                                      THEN "duplicate_delivery" ELSE "replay"
  <1>1. /\ c # Idle /\ c.pc = "verified"
        /\ c.token \in Tokens /\ token[c.token].minted /\ c.moment \in Int
        /\ BrokerOf[th] \in Brokers
    BY CallTyped, SpendingAssumption DEF Spend, Idle
  <1>2. PICK kept : kept = Purged(c.moment)
    OBVIOUS
  <1>3. kept \in [Tokens -> Entry \cup {NoEntry}]
    BY <1>2, PurgedTyped
  <1>4. PICK row : row = [uses[c.token] EXCEPT ![BrokerOf[th]] = uses[c.token][BrokerOf[th]] + 1]
    OBVIOUS
  <1>5. \/ /\ ~kept[c.token].spent
           /\ nonce' = [kept EXCEPT ![c.token] =
                          [spent |-> TRUE, broker |-> BrokerOf[th], at |-> c.moment]]
           /\ uses' = [uses EXCEPT ![c.token] = row]
           /\ consume' = [consume EXCEPT ![th].pc = "first_use"]
        \/ /\ kept[c.token].spent /\ nonce' = kept /\ uses' = uses
           /\ consume' = [consume EXCEPT ![th].pc =
                            IF IsRetry(kept[c.token], BrokerOf[th], c.moment)
                              THEN "duplicate_delivery" ELSE "replay"]
    BY <1>2, <1>4 DEF Spend, Answer
  <1>6. CASE /\ ~kept[c.token].spent
             /\ nonce' = [kept EXCEPT ![c.token] =
                            [spent |-> TRUE, broker |-> BrokerOf[th], at |-> c.moment]]
             /\ uses' = [uses EXCEPT ![c.token] = row]
             /\ consume' = [consume EXCEPT ![th].pc = "first_use"]
    <2>1. consume'[th].pc = "first_use"
      BY <1>1, <1>6, SameCall DEF Answers
    <2> QED
      BY <1>1, <1>2, <1>3, <1>4, <1>6, <2>1 DEF TypeOK
  <1>7. ASSUME NEW pc \in Answers, kept[c.token].spent, nonce' = kept, uses' = uses,
               pc = IF IsRetry(kept[c.token], BrokerOf[th], c.moment)
                      THEN "duplicate_delivery" ELSE "replay",
               consume' = [consume EXCEPT ![th].pc = pc]
        PROVE  consume'[th].pc = pc
    BY <1>1, <1>7, SameCall
  <1> QED
    BY <1>1, <1>2, <1>5, <1>6, <1>7 DEF Answers

LEMMA SpendLeaves ==
  ASSUME TypeOK, NEW th \in Threads, NEW c, c = consume[th], Spend(th)
  PROVE  \A u \in Tokens : u # c.token =>
           nonce'[u] = Purged(c.moment)[u] /\ uses'[u] = uses[u]
  <1>1. c.token \in Tokens
    BY SpendEffects
  <1>2. PICK kept : kept = Purged(c.moment)
    OBVIOUS
  <1>3. kept \in [Tokens -> Entry \cup {NoEntry}]
    BY <1>2, PurgedTyped
  <1>4. nonce' = kept \/ \E e : nonce' = [kept EXCEPT ![c.token] = e]
    BY <1>2 DEF Spend
  <1>5. uses' = uses \/ \E e : uses' = [uses EXCEPT ![c.token] = e]
    BY DEF Spend
  <1> QED
    BY <1>1, <1>2, <1>3, <1>4, <1>5 DEF TypeOK

\* A token that can still be spent has not been forgotten: a first use finds
\* no earlier one.
LEMMA FirstUseIsFirst ==
  ASSUME ShortLived, TypeOK, Mints, Calls, Entries, Forgets,
         NEW th \in Threads, NEW c, c = consume[th], Spend(th),
         ~Purged(c.moment)[c.token].spent
  PROVE  ~Used(c.token)
  <1> SUFFICES ASSUME Used(c.token) PROVE FALSE
    OBVIOUS
  <1> DEFINE t == c.token
  <1>1. /\ t \in Tokens /\ c.moment \in Int /\ token[t].minted /\ c # Idle /\ c.pc = "verified"
        /\ token[t].issued \in Nat /\ token[t].expires \in Nat
    BY SpendEffects, Numbers
  <1>2. PICK l \in Lifetimes : token[t].expires = token[t].issued + l
    BY <1>1 DEF Mints
  <1>3. l \in Nat /\ MaxStall \in Nat /\ Retention \in Nat /\ l + MaxStall <= Retention + 1
    BY SpendingAssumption DEF ShortLived
  <1>4. now \in Nat
    BY SpendingAssumption DEF TypeOK
  <1>5. now <= c.moment + MaxStall /\ c.moment <= now /\ c.moment < token[t].expires
    BY <1>1 DEF Calls, InFlight, Past, Established
  <1>6. now <= token[t].issued + Retention
    BY <1>1, <1>2, <1>3, <1>4, <1>5
  <1>7. nonce[t].spent
    BY <1>1, <1>3, <1>4, <1>6 DEF Forgets
  <1>8. nonce[t].at \in Int /\ nonce[t].at < c.moment - Retention
    BY <1>1, <1>7, PurgeForgets
  <1>9. token[t].issued <= nonce[t].at
    BY <1>1, <1>7 DEF Entries
  <1> QED
    BY <1>1, <1>3, <1>4, <1>5, <1>6, <1>8, <1>9

LEMMA BooksStep ==
  ASSUME TypeOK, Mints, Calls, Entries, Forgets, [Next]_vars
  PROVE  Entries' /\ Forgets'
  <1> SUFFICES ASSUME NEW u \in Tokens
               PROVE  /\ nonce'[u].spent =>
                           /\ uses'[u][nonce'[u].broker] > 0
                           /\ token'[u].issued <= nonce'[u].at /\ nonce'[u].at <= now'
                      /\ Used(u)' =>
                           /\ token'[u].minted
                           /\ ~nonce'[u].spent => now' > token'[u].issued + Retention
    BY DEF Entries, Forgets
  <1>1. nonce[u].spent => nonce[u].broker \in Brokers /\ nonce[u].at \in Nat
    <2>1. nonce[u].spent => nonce[u] \in Entry
      BY TokenTyped
    <2>2. nonce[u].spent => nonce[u].broker \in Brokers /\ nonce[u].at \in 0..MaxTime
      BY <2>1 DEF Entry
    <2> QED
      BY <2>2
  <1>2. nonce[u].spent => Used(u)
    BY <1>1 DEF Entries, Used
  <1>3. Used(u) => /\ token[u].minted /\ token'[u] = token[u]
                   /\ token[u].issued \in Nat
    BY Standing, Numbers DEF Forgets
  <1>4. now \in Nat /\ now' \in Nat /\ now <= now' /\ Retention \in Nat
    BY Standing, SpendingAssumption
  <1>5. ASSUME uses'[u] = uses[u],
               \/ nonce'[u] = nonce[u]
               \/ /\ ~nonce'[u].spent
                  /\ nonce[u].spent => nonce[u].at < now - Retention
        PROVE  /\ nonce'[u].spent =>
                    /\ uses'[u][nonce'[u].broker] > 0
                    /\ token'[u].issued <= nonce'[u].at /\ nonce'[u].at <= now'
               /\ Used(u)' =>
                    /\ token'[u].minted
                    /\ ~nonce'[u].spent => now' > token'[u].issued + Retention
    <2>1. Used(u)' = Used(u)
      BY <1>5 DEF Used
    <2>2. nonce'[u].spent =>
            /\ uses'[u][nonce'[u].broker] > 0
            /\ token'[u].issued <= nonce'[u].at /\ nonce'[u].at <= now'
      BY <1>1, <1>2, <1>3, <1>4, <1>5 DEF Entries
    <2>3. Used(u) /\ ~nonce'[u].spent => now' > token'[u].issued + Retention
      BY <1>1, <1>3, <1>4, <1>5 DEF Entries, Forgets
    <2> QED
      BY <1>3, <2>1, <2>2, <2>3
  <1>6. CASE UNCHANGED <<nonce, uses>>
    BY <1>5, <1>6
  <1>7. ASSUME NEW th \in Threads, Spend(th)
        PROVE  /\ nonce'[u].spent =>
                    /\ uses'[u][nonce'[u].broker] > 0
                    /\ token'[u].issued <= nonce'[u].at /\ nonce'[u].at <= now'
               /\ Used(u)' =>
                    /\ token'[u].minted
                    /\ ~nonce'[u].spent => now' > token'[u].issued + Retention
    <2>1. PICK c : c = consume[th]
      OBVIOUS
    <2>2. /\ c # Idle /\ c.token \in Tokens /\ c.moment \in Int /\ BrokerOf[th] \in Brokers
          /\ token[c.token].minted
      BY <1>7, <2>1, SpendEffects
    <2>3. token[c.token].issued <= c.moment /\ c.moment <= now
      BY <2>1, <2>2 DEF Calls
    <2>4. \/ Purged(c.moment)[u] = nonce[u]
          \/ ~Purged(c.moment)[u].spent /\ (nonce[u].spent => nonce[u].at < now - Retention)
      <3>1. \/ Purged(c.moment)[u] = nonce[u]
            \/ /\ nonce[u].at \in Int /\ nonce[u].at < c.moment - Retention
               /\ ~Purged(c.moment)[u].spent
        BY <2>2, PurgeForgets
      <3> QED
        BY <1>4, <2>2, <2>3, <3>1
    <2>5. CASE nonce'[u] = Purged(c.moment)[u] /\ uses'[u] = uses[u]
      BY <1>5, <2>4, <2>5
    <2>6. CASE /\ u = c.token
               /\ nonce'[u] = [spent |-> TRUE, broker |-> BrokerOf[th], at |-> c.moment]
               /\ uses'[u] = [uses[u] EXCEPT ![BrokerOf[th]] = uses[u][BrokerOf[th]] + 1]
      <3>1. uses[u] \in [Brokers -> Nat]
        BY DEF TypeOK
      <3>2. uses'[u][BrokerOf[th]] > 0
        BY <2>2, <2>6, <3>1
      <3>3. nonce'[u].spent /\ nonce'[u].broker = BrokerOf[th] /\ nonce'[u].at = c.moment
        BY <2>6
      <3>4. token'[u] = token[u]
        BY <2>2, <2>6, Standing
      <3>5. c.moment <= now'
        BY <1>4, <2>2, <2>3
      <3> QED
        BY <2>2, <2>3, <2>6, <3>2, <3>3, <3>4, <3>5
    <2>7. \A v \in Tokens : v # c.token =>
            nonce'[v] = Purged(c.moment)[v] /\ uses'[v] = uses[v]
      BY <1>7, <2>1, SpendLeaves
    <2>8. \/ nonce'[c.token] = Purged(c.moment)[c.token] /\ uses'[c.token] = uses[c.token]
          \/ /\ nonce'[c.token] = [spent |-> TRUE, broker |-> BrokerOf[th], at |-> c.moment]
             /\ uses'[c.token] =
                  [uses[c.token] EXCEPT ![BrokerOf[th]] = uses[c.token][BrokerOf[th]] + 1]
      BY <1>7, <2>1, SpendEffects
    <2> QED
      BY <2>5, <2>6, <2>7, <2>8
  <1> QED
    BY <1>6, <1>7, Frames

LEMMA DuplicatesStep ==
  ASSUME TypeOK, Entries, DuplicateIsARetry, [Next]_vars
  PROVE  DuplicateIsARetry'
  <1> SUFFICES ASSUME NEW th \in Threads, NEW d, d = consume'[th], d.pc = "duplicate_delivery"
               PROVE  uses'[d.token][BrokerOf[th]] > 0
    BY DEF DuplicateIsARetry
  <1>1. \A t \in Tokens : \A b \in Brokers : uses[t][b] > 0 => uses'[t][b] > 0
    <2>1. CASE UNCHANGED uses
      BY <2>1
    <2>2. ASSUME NEW o \in Threads, Spend(o), NEW t \in Tokens, NEW b \in Brokers, uses[t][b] > 0
          PROVE  uses'[t][b] > 0
      <3>1. PICK c : c = consume[o]
        OBVIOUS
      <3>2. uses[t] \in [Brokers -> Nat]
        BY DEF TypeOK
      <3>3. BrokerOf[o] \in Brokers
        BY SpendingAssumption
      <3>4. \/ uses'[t] = uses[t]
            \/ uses'[t] = [uses[t] EXCEPT ![BrokerOf[o]] = uses[t][BrokerOf[o]] + 1]
        <4>1. t # c.token => uses'[t] = uses[t]
          BY <2>2, <3>1, SpendLeaves
        <4>2. \/ uses'[c.token] = uses[c.token]
              \/ uses'[c.token] =
                   [uses[c.token] EXCEPT ![BrokerOf[o]] = uses[c.token][BrokerOf[o]] + 1]
          BY <2>2, <3>1, SpendEffects
        <4> QED
          BY <4>1, <4>2
      <3> QED
        BY <2>2, <3>2, <3>3, <3>4
    <2> QED
      BY <2>1, <2>2, Frames
  <1>2. CASE d = consume[th]
    <2>1. d.token \in Tokens /\ BrokerOf[th] \in Brokers
      BY <1>2, CallTyped, SpendingAssumption DEF Idle
    <2> QED
      BY <1>1, <1>2, <2>1 DEF DuplicateIsARetry
  <1>3. CASE Spend(th)
    <2>1. PICK c : c = consume[th]
      OBVIOUS
    <2>2. /\ Purged(c.moment)[c.token].spent
          /\ IsRetry(Purged(c.moment)[c.token], BrokerOf[th], c.moment)
          /\ c.token \in Tokens /\ BrokerOf[th] \in Brokers
      BY <1>3, <2>1, SpendEffects
    <2>3. nonce[c.token].spent /\ nonce[c.token].broker = BrokerOf[th]
      BY <2>2, PurgedTyped DEF IsRetry
    <2>4. uses[c.token][BrokerOf[th]] > 0
      BY <2>2, <2>3 DEF Entries
    <2>5. d.token = c.token
      BY <1>3, <2>1, MovesOn
    <2> QED
      BY <1>1, <2>2, <2>4, <2>5
  <1>4. ~Present(th)
    BY DEF Present, TypeOK
  <1>5. ~Verify(th)
    <2>1. ASSUME Verify(th) PROVE FALSE
      <3>1. PICK pc \in {"verified", "refused"} : consume' = [consume EXCEPT ![th].pc = pc]
        BY <2>1 DEF Verify
      <3>2. consume[th] # Idle
        BY <2>1 DEF Verify, Idle
      <3>3. consume'[th].pc = pc
        BY <3>1, <3>2, SameCall DEF Answers
      <3> QED
        BY <3>3
    <2> QED
      BY <2>1
  <1>6. d = consume[th] \/ Spend(th)
    <2>1. ASSUME NEW o \in Threads, Present(o), o # th
          PROVE  consume'[th] = consume[th]
      BY <2>1 DEF Present, TypeOK
    <2> QED
      BY <1>4, <1>5, <2>1, Frames, MovesOn
  <1> QED
    BY <1>2, <1>3, <1>6

LEMMA OneUseStep ==
  ASSUME ShortLived, TypeOK, Mints, Calls, Entries, Forgets, OneUse, [Next]_vars
  PROVE  OneUse'
  <1>1. CASE UNCHANGED uses
    BY <1>1 DEF OneUse
  <1>2. ASSUME NEW th \in Threads, Spend(th)
        PROVE  OneUse'
    <2>1. PICK c : c = consume[th]
      OBVIOUS
    <2> SUFFICES ASSUME NEW t \in Tokens
                 PROVE  \A b, e \in Brokers :
                          /\ uses'[t][b] <= 1
                          /\ uses'[t][b] > 0 /\ uses'[t][e] > 0 => b = e
      BY DEF OneUse
    <2>2. CASE uses'[t] = uses[t]
      BY <2>2 DEF OneUse
    <2>3. CASE /\ t = c.token /\ ~Purged(c.moment)[c.token].spent
               /\ uses'[t] = [uses[t] EXCEPT ![BrokerOf[th]] = uses[t][BrokerOf[th]] + 1]
      <3>1. uses[t] \in [Brokers -> Nat]
        BY DEF TypeOK
      <3>2. \A b \in Brokers : uses[t][b] = 0
        BY <1>2, <2>1, <2>3, <3>1, FirstUseIsFirst DEF Used
      <3> QED
        BY <2>3, <3>1, <3>2
    <2>4. \A u \in Tokens : u # c.token =>
            nonce'[u] = Purged(c.moment)[u] /\ uses'[u] = uses[u]
      BY <1>2, <2>1, SpendLeaves
    <2>5. \/ uses'[c.token] = uses[c.token]
          \/ /\ ~Purged(c.moment)[c.token].spent
             /\ uses'[c.token] =
                  [uses[c.token] EXCEPT ![BrokerOf[th]] = uses[c.token][BrokerOf[th]] + 1]
      BY <1>2, <2>1, SpendEffects
    <2> QED
      BY <2>2, <2>3, <2>4, <2>5
  <1> QED
    BY <1>1, <1>2, Frames

-------------------------------------------------------------------------------
(* The theorems.  Inv holds of every deployment; OneUse only of a short-lived*)
(* one, because a forgotten first use must not be able to happen again.      *)

Inv == TypeOK /\ Mints /\ Calls /\ Entries /\ Forgets /\ DuplicateIsARetry

LEMMA InitInv ==
  ASSUME Init
  PROVE  Inv /\ OneUse
  <1>1. TypeOK
    BY InitTypes
  <1>2. Mints /\ Entries
    BY DEF Init, Mints, Entries, NoToken, NoEntry
  <1>3. Calls /\ DuplicateIsARetry
    BY DEF Init, Calls, DuplicateIsARetry, Idle
  <1>4. Forgets /\ OneUse
    BY DEF Init, Forgets, OneUse, Used
  <1> QED
    BY <1>1, <1>2, <1>3, <1>4 DEF Inv

\* The inductive invariant: what every property of this module follows from.
THEOREM Invariant == Spec => []Inv
  <1>1. Init => Inv
    BY InitInv
  <1>2. Inv /\ [Next]_vars => Inv'
    BY NextTypes, MintsStep, CallsStep, BooksStep, DuplicatesStep DEF Inv
  <1> QED
    BY <1>1, <1>2, PTL DEF Spec

\* Clock, keys, tokens, nonce entries and calls are always well typed; the
\* active key is always one the service verifies.
THEOREM SpendingTypeCorrect == Spec => []TypeOK
  <1>1. Inv => TypeOK
    BY DEF Inv
  <1> QED
    BY <1>1, Invariant, PTL

\* A broker told "duplicate" has itself dispatched on the token before.
THEOREM DuplicatesAreRetries == Spec => []DuplicateIsARetry
  <1>1. Inv => DuplicateIsARetry
    BY DEF Inv, DuplicateIsARetry
  <1> QED
    BY <1>1, Invariant, PTL

\* What was withdrawn, expired or of another mode when it was presented never
\* gets past verify.
THEOREM RefusalsStand == Spec => []RefusedStaysRefused
  <1>1. Inv => RefusedStaysRefused
    <2> SUFFICES ASSUME Inv, NEW th \in Threads, consume[th].pc \in Past
                 PROVE  /\ token[consume[th].token].issued <= consume[th].moment
                        /\ Established(consume[th])
      BY DEF RefusedStaysRefused, Past, Established
    <2>1. consume[th] # Idle
      BY DEF Idle, Past
    <2> QED
      BY <2>1 DEF Inv, Calls
  <1> QED
    BY <1>1, Invariant, PTL

LEMMA OneUseIsInvariant ==
  ASSUME ShortLived
  PROVE  Spec => []OneUse
  <1>1. Init => OneUse
    BY InitInv
  <1>2. Inv /\ OneUse /\ [Next]_vars => OneUse'
    BY OneUseStep DEF Inv
  <1> QED
    BY <1>1, <1>2, Invariant, PTL DEF Spec

\* At most one first use over all the tokens of a decision and all brokers, if
\* no token outlives the retention less the longest stall.
THEOREM OneActionEver ==
  ASSUME ShortLived
  PROVE  Spec => []OneActionPerDecision
  <1>1. Inv /\ OneUse => OneActionPerDecision
    <2> SUFFICES ASSUME Inv, OneUse, NEW t \in Tokens, NEW u \in Tokens,
                        NEW b \in Brokers, NEW e \in Brokers
                 PROVE  /\ uses[t][b] <= 1
                        /\ uses[t][b] > 0 /\ uses[u][e] > 0 /\ DecisionOf[t] = DecisionOf[u]
                             => t = u /\ b = e
      BY DEF OneActionPerDecision
    <2>1. uses[t][b] > 0 /\ uses[u][e] > 0 => token[t].minted /\ token[u].minted
      BY DEF Inv, Forgets, Used
    <2>2. token[t].minted /\ token[u].minted /\ DecisionOf[t] = DecisionOf[u] => t = u
      BY DEF Inv, Mints
    <2> QED
      BY <2>1, <2>2 DEF OneUse
  <1> QED
    BY <1>1, Invariant, OneUseIsInvariant, PTL

\* A spent token that could still verify is one the nonce store remembers, under
\* the same condition.
THEOREM SpentTokensAreRemembered ==
  ASSUME ShortLived
  PROVE  Spec => []SpentIsRemembered
  <1>1. Inv => SpentIsRemembered
    <2> SUFFICES ASSUME Inv, NEW t \in Tokens, Used(t), ~Expired(t, now)
                 PROVE  nonce[t].spent /\ uses[t][nonce[t].broker] > 0
      BY DEF SpentIsRemembered
    <2>1. token[t].minted /\ (~nonce[t].spent => now > token[t].issued + Retention)
      BY DEF Inv, Forgets
    <2>2. PICK l \in Lifetimes : token[t].expires = token[t].issued + l
      BY <2>1 DEF Inv, Mints
    <2>3. /\ l \in Nat /\ MaxStall \in Nat /\ Retention \in Nat /\ now \in Nat
          /\ token[t].issued \in Nat /\ l + MaxStall <= Retention + 1
      BY <2>1, Numbers, SpendingAssumption DEF Inv, TypeOK, ShortLived
    <2>4. now < token[t].expires
      BY <2>2, <2>3 DEF Expired
    <2>5. nonce[t].spent
      BY <2>1, <2>2, <2>3, <2>4
    <2> QED
      BY <2>5 DEF Inv, Entries
  <1> QED
    BY <1>1, Invariant, PTL

-------------------------------------------------------------------------------
(* Spending implements its promise.                                          *)

Dispatches == {use \in Tokens \X Brokers : uses[use[1]][use[2]] > 0}

Calling == [th \in Threads |-> Told(consume[th])]

spendingVars == <<ledger, Dispatches, Calling>>

\* Exactly the calls in flight have not been answered.
LEMMA PendingIsInFlight ==
  ASSUME TypeOK, NEW th \in Threads, consume[th] # Idle
  PROVE  /\ Calling[th].token = consume[th].token
         /\ InFlight(th) <=> Calling[th].answer = "pending"
<1>1. consume[th].pc \in {"presented", "verified"} \cup Answers
  BY CallTyped DEF Call
<1>2. CASE InFlight(th)
  <2>1. Calling[th] = [token |-> consume[th].token, answer |-> "pending"]
    BY <1>2 DEF Calling, Told, InFlight
  <2> QED
    BY <1>2, <2>1
<1>3. CASE ~InFlight(th)
  <2>1. Calling[th] = [token |-> consume[th].token, answer |-> consume[th].pc]
    BY <1>3 DEF Calling, Told, InFlight
  <2>2. Calling[th].answer = consume[th].pc /\ Calling[th].token = consume[th].token
    BY <2>1
  <2> QED
    BY <1>1, <1>3, <2>2 DEF InFlight, Answers
<1> QED
  BY <1>2, <1>3

\* The answer of a call that was moved on is told, and nothing else is.
LEMMA Telling ==
  ASSUME TypeOK, NEW th \in Threads, Verify(th) \/ Spend(th),
         NEW answer \in Answers, consume'[th].pc = answer, UNCHANGED ledger
  PROVE  Spending!Tell(th, answer)
<1>1. /\ consume[th] # Idle /\ InFlight(th)
      /\ \A o \in Threads : o # th => consume'[o] = consume[o]
      /\ consume'[th].token = consume[th].token
  BY MovesOn DEF Verify, Spend, InFlight
<1>2. consume'[th] # Idle /\ ~InFlight(th)'
  BY DEF Idle, Answers, InFlight
<1>3. Calling[th].answer = "pending" /\ Calling[th].token = consume[th].token
  BY <1>1, PendingIsInFlight
<1>4. Told(consume'[th]) = [token |-> Calling[th].token, answer |-> answer]
  BY <1>1, <1>2, <1>3 DEF Told, InFlight
<1>5. \A o \in Threads : o # th => Told(consume'[o]) = Told(consume[o])
  BY <1>1
<1>6. Calling' = [Calling EXCEPT ![th] = [token |-> Calling[th].token, answer |-> answer]]
  BY <1>4, <1>5 DEF Calling
<1> QED
  BY <1>3, <1>6 DEF Spending!Tell, Calling

\* Minting is the claim.
LEMMA IssueMints ==
  ASSUME NEW t \in Tokens, Issue(t)
  PROVE  Spending!Next
<1>1. Spending!Mint(t)
  BY DEF Issue, Claim, Spending!Mint
<1> QED
  BY <1>1 DEF Spending!Next

LEMMA PresentAsks ==
  ASSUME TypeOK, Mints, NEW th \in Threads, Present(th)
  PROVE  Spending!Next
<1>1. PICK t \in Tokens, b \in Bindings :
        /\ token[t].minted
        /\ consume' = [consume EXCEPT ![th] =
             [pc |-> "presented", token |-> t, binding |-> b, moment |-> now,
              mode |-> current.mode, bundle |-> current.bundle, live |-> ~Withdrawn(t)]]
  BY DEF Present
<1>2. ledger[DecisionOf[t]] = t
  BY <1>1 DEF Mints
<1>3. Calling[th].answer # "pending"
  <2>1. ~InFlight(th)
    BY DEF Present
  <2>2. consume[th] = Idle => Calling[th] = [answer |-> "silent"]
    BY DEF Calling, Told
  <2> QED
    BY <2>1, <2>2, PendingIsInFlight
<1>4. /\ consume'[th].pc = "presented" /\ consume'[th].token = t
      /\ \A o \in Threads : o # th => consume'[o] = consume[o]
  BY <1>1 DEF TypeOK
<1>5. Told(consume'[th]) = [token |-> t, answer |-> "pending"]
  BY <1>4 DEF Told, Idle
<1>6. Calling' = [Calling EXCEPT ![th] = [token |-> t, answer |-> "pending"]]
  BY <1>4, <1>5 DEF Calling
<1>7. Spending!Ask(th, t)
  BY <1>2, <1>3, <1>6 DEF Spending!Ask, Calling, Present
<1> QED
  BY <1>7 DEF Spending!Next

LEMMA VerifyRefusesOrGoesOn ==
  ASSUME TypeOK, NEW th \in Threads, Verify(th)
  PROVE  [Spending!Next]_spendingVars
<1>1. consume[th] # Idle /\ InFlight(th) /\ UNCHANGED <<ledger, uses>>
  BY DEF Verify, InFlight, Idle
<1>2. consume'[th].pc \in {"verified", "refused"}
  <2>1. PICK pc \in {"verified", "refused"} : consume' = [consume EXCEPT ![th].pc = pc]
    BY DEF Verify
  <2> QED
    BY <1>1, <2>1, SameCall DEF Answers
<1>3. CASE consume'[th].pc = "refused"
  <2>1. Spending!Tell(th, "refused")
    BY <1>1, <1>3, Telling DEF Answers
  <2>2. Spending!Refuse(th)
    BY <1>1, <2>1 DEF Spending!Refuse
  <2> QED
    BY <2>2 DEF Spending!Next
<1>4. CASE consume'[th].pc = "verified"
  <2>1. /\ \A o \in Threads : o # th => consume'[o] = consume[o]
        /\ consume'[th].token = consume[th].token
    BY MovesOn
  <2>2. Told(consume'[th]) = Told(consume[th])
    BY <1>1, <1>4, <2>1 DEF Told, InFlight, Idle
  <2>3. Calling' = Calling
    BY <2>1, <2>2 DEF Calling
  <2> QED
    BY <1>1, <2>3 DEF spendingVars, Dispatches
<1> QED
  BY <1>2, <1>3, <1>4

\* The use that Spend counts, or none.
LEMMA SpendIsCounted ==
  ASSUME TypeOK, NEW th \in Threads, NEW t \in Tokens, t = consume[th].token, Spend(th),
         uses'[t] = [uses[t] EXCEPT ![BrokerOf[th]] = uses[t][BrokerOf[th]] + 1]
  PROVE  Dispatches' = Dispatches \cup {<<t, BrokerOf[th]>>}
<1>1. BrokerOf[th] \in Brokers
  BY SpendingAssumption
<1>2. uses[t] \in [Brokers -> Nat]
  BY DEF TypeOK
<1>3. \A u \in Tokens : u # t => uses'[u] = uses[u]
  BY SpendLeaves
<1>4. ASSUME NEW u \in Tokens, NEW b \in Brokers
      PROVE  uses'[u][b] > 0 <=> uses[u][b] > 0 \/ <<u, b>> = <<t, BrokerOf[th]>>
  BY <1>1, <1>2, <1>3
<1>5. ASSUME NEW use \in Tokens \X Brokers
      PROVE  uses'[use[1]][use[2]] > 0
               <=> uses[use[1]][use[2]] > 0 \/ use = <<t, BrokerOf[th]>>
  BY <1>4
<1> QED
  BY <1>1, <1>5 DEF Dispatches

LEMMA SpendAnswers ==
  ASSUME ShortLived, Inv, NEW th \in Threads, Spend(th)
  PROVE  Spending!Next
<1> USE DEF Inv
<1>1. PICK c : c = consume[th]
  OBVIOUS
<1>2. /\ c.token \in Tokens /\ c.moment \in Int /\ BrokerOf[th] \in Brokers
      /\ token[c.token].minted /\ c # Idle /\ c.pc = "verified"
  BY <1>1, SpendEffects
<1>3. UNCHANGED ledger /\ Calling[th].token = c.token
  <2>1. UNCHANGED ledger
    BY DEF Spend
  <2>2. Calling[th].token = c.token
    BY <1>1, <1>2, PendingIsInFlight
  <2> QED
    BY <2>1, <2>2
<1>4. CASE /\ ~Purged(c.moment)[c.token].spent
           /\ uses'[c.token] = [uses[c.token] EXCEPT ![BrokerOf[th]] = uses[c.token][BrokerOf[th]] + 1]
           /\ consume'[th].pc = "first_use"
  <2>1. Spending!Tell(th, "first_use")
    BY <1>3, <1>4, Telling DEF Answers
  <2>2. Dispatches' = Dispatches \cup {<<c.token, BrokerOf[th]>>}
    BY <1>1, <1>2, <1>4, SpendIsCounted
  <2>3. ~Used(c.token)
    BY <1>1, <1>4, FirstUseIsFirst
  <2>4. ASSUME NEW use \in Dispatches, DecisionOf[use[1]] = DecisionOf[c.token]
        PROVE  FALSE
    <3>1. use[1] \in Tokens /\ Used(use[1])
      BY DEF Dispatches, Used
    <3>2. token[use[1]].minted
      BY <3>1 DEF Forgets
    <3>3. use[1] = c.token
      BY <1>2, <2>4, <3>1, <3>2 DEF Mints
    <3> QED
      BY <2>3, <3>1, <3>3
  <2>5. Spending!Dispatch(th)
    BY <1>3, <2>1, <2>2, <2>4 DEF Spending!Dispatch, Dispatches, Calling
  <2> QED
    BY <2>5 DEF Spending!Next
<1>5. CASE /\ Purged(c.moment)[c.token].spent
           /\ uses'[c.token] = uses[c.token]
           /\ consume'[th].pc = IF IsRetry(Purged(c.moment)[c.token], BrokerOf[th], c.moment)
                                  THEN "duplicate_delivery" ELSE "replay"
  <2>1. Dispatches' = Dispatches
    <3>1. \A u \in Tokens : uses'[u] = uses[u]
      BY <1>1, <1>5, SpendLeaves
    <3> QED
      BY <3>1 DEF Dispatches
  <2>2. nonce[c.token].spent /\ Purged(c.moment)[c.token] = nonce[c.token]
    BY <1>2, <1>5, PurgeForgets
  <2>3. /\ nonce[c.token].broker \in Brokers
        /\ <<c.token, nonce[c.token].broker>> \in Dispatches
    <3>1. nonce[c.token].broker \in Brokers
      BY <1>2, <2>2, TokenTyped DEF Entry
    <3>2. uses[c.token][nonce[c.token].broker] > 0
      BY <1>2, <2>2 DEF Entries
    <3> QED
      BY <1>2, <3>1, <3>2 DEF Dispatches
  <2>4. CASE consume'[th].pc = "duplicate_delivery"
    <3>1. nonce[c.token].broker = BrokerOf[th]
      BY <1>5, <2>2, <2>4 DEF IsRetry
    <3>2. Spending!Tell(th, "duplicate_delivery")
      BY <1>3, <2>4, Telling DEF Answers
    <3>3. Spending!Repeat(th)
      BY <1>3, <2>1, <2>3, <3>1, <3>2 DEF Spending!Repeat, Dispatches, Calling
    <3> QED
      BY <3>3 DEF Spending!Next
  <2>5. CASE consume'[th].pc = "replay"
    <3>1. Spending!Tell(th, "replay")
      BY <1>3, <2>5, Telling DEF Answers
    <3>2. \E use \in Dispatches : use[1] = c.token
      BY <2>3
    <3>3. Spending!Replay(th)
      BY <1>3, <2>1, <3>1, <3>2 DEF Spending!Replay, Dispatches, Calling
    <3> QED
      BY <3>3 DEF Spending!Next
  <2> QED
    BY <1>5, <2>4, <2>5
<1> QED
  BY <1>1, <1>4, <1>5, SpendEffects

LEMMA StepIsSpending ==
  ASSUME ShortLived, Inv, [Next]_vars
  PROVE  [Spending!Next]_spendingVars
<1>1. CASE Tick \/ Govern \/ UNCHANGED vars
  BY <1>1 DEF Tick, Govern, SetMode, ActivateBundle, RotateTo, Retire, Revoke, vars,
              spendingVars, Dispatches, Calling
<1>2. ASSUME NEW t \in Tokens, Issue(t)
      PROVE  Spending!Next
  BY <1>2, IssueMints
<1>3. ASSUME NEW th \in Threads, Present(th) \/ Verify(th) \/ Spend(th)
      PROVE  [Spending!Next]_spendingVars
  BY <1>3, PresentAsks, VerifyRefusesOrGoesOn, SpendAnswers DEF Inv
<1> QED
  BY <1>1, <1>2, <1>3 DEF Next

\* Mint, presentation, verification and the nonce store together implement
\* SpendOnce, under the condition that a forgotten token can no longer verify.
THEOREM SpendingImplementsSpendOnce ==
  ASSUME ShortLived
  PROVE  Spec => ImplementsSpendOnce
<1>1. Init => Spending!Init
  <2>1. Init => Dispatches = {}
    BY DEF Init, Dispatches
  <2>2. Init => Calling = [th \in Threads |-> Spending!Silent]
    BY DEF Init, Calling, Told, Spending!Silent
  <2> QED
    BY <2>1, <2>2 DEF Init, Spending!Init, Dispatches, Calling
<1>2. Inv /\ [Next]_vars => [Spending!Next]_spendingVars
  BY StepIsSpending
<1> QED
  BY <1>1, <1>2, Invariant, PTL
     DEF Spec, ImplementsSpendOnce, Spending!Spec, spendingVars, Dispatches, Calling
===============================================================================
