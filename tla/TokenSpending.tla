----------------------------- MODULE TokenSpending ----------------------------
(*****************************************************************************)
(* The spending half of a decision token (tokens/service.py, tokens/nonce.py,*)
(* tokens/signer.py): minting under the in-memory claim, verification of     *)
(* every binding, and the nonce store that makes a token good for one        *)
(* dispatch, while time passes, keys rotate and retire, tokens and keys are  *)
(* revoked, and the class's mode and the policy bundle change.               *)
(*                                                                           *)
(* consume() is three steps: it reads the clock, it verifies, it spends.     *)
(* Nothing ties them together, so a presentation may verify at a moment long *)
(* past by the time it reaches the nonce store.  Time is in whole units and  *)
(* does not run backwards; a binding stands for the tenant and the envelope  *)
(* digest.  DecisionPipeline models minting against the evidence chain.      *)
(*****************************************************************************)
EXTENDS FiniteSets, Verdicts

CONSTANTS
  Decisions, Tokens, Bindings, Bundles, Keys, Brokers,
  Threads,       \* threads of brokers, each of which calls consume() over and over
  DecisionOf,    \* the decision a token would authorise
  BindingOf,     \* what that decision was made about
  BrokerOf,      \* the broker a thread belongs to
  Warrants,      \* the [mode, verdict] pairs a mint may be asked for
  ClassModes,    \* the modes the class passes through
  Revocable,     \* the tokens and keys an operator may revoke
  Lifetimes,     \* ttl_seconds of the mint: the service's, or the action class's
  Ttl,           \* InMemoryNonceStore(ttl_seconds=...)
  Retention,     \* InMemoryNonceStore(retention_seconds=...)
  Grace,         \* bundle_grace_seconds
  MaxStall,      \* how long a presentation may take to reach the nonce store
  MaxTime,       \* model bound on the clock
  None

ASSUME SpendingAssumption ==
  /\ DecisionOf \in [Tokens -> Decisions]
  /\ BindingOf \in [Decisions -> Bindings]
  /\ BrokerOf \in [Threads -> Brokers]
  /\ Warrants \subseteq [mode : Modes, verdict : Verdicts]
  /\ ClassModes \subseteq Modes
  /\ Revocable \subseteq Tokens \cup Keys
  /\ Lifetimes \subseteq Nat \ {0}
  /\ Ttl \in Nat \ {0}
  /\ Retention \in Nat
  /\ Retention >= Ttl
  /\ Grace \in Nat
  /\ MaxStall \in Nat
  /\ MaxTime \in Nat
  /\ None \notin Tokens

VARIABLES
  now,           \* the injected clock
  current,       \* the class's mode and the policy bundle, as the registry has them
  signer,        \* MultiKeySigner: the active key and the keys it verifies
  revoked,       \* InMemoryRevocationList: tokens and keys
  ledger,        \* InMemoryIssuanceLedger: the token claimed for each decision
  token,         \* the minted tokens
  nonce,         \* InMemoryNonceStore._entries
  consume,       \* the call to consume() each thread is in, or was in last
  uses           \* history: the brokers that dispatched on each token, one per first use

governance == <<current, signer, revoked>>
vars == <<now, governance, ledger, token, nonce, consume, uses>>

NoToken == [minted |-> FALSE]
NoEntry == [spent |-> FALSE]
Idle == [pc |-> "idle"]

Token == [minted : {TRUE}, mode : Modes, verdict : Verdicts, key : Keys, bundle : Bundles,
          issued : 0..MaxTime, expires : Nat]
Entry == [spent : {TRUE}, broker : Brokers, at : 0..MaxTime]
Answers == {"first_use", "duplicate_delivery", "replay", "refused"}

\* live is history: the token had not been withdrawn when the call began.
Call == [pc : {"presented", "verified"} \cup Answers, token : Tokens, binding : Bindings,
         moment : 0..MaxTime, mode : Modes, bundle : Bundles, live : BOOLEAN]
InFlight(th) == consume[th].pc \in {"presented", "verified"}

TypeOK ==
  /\ now \in 0..MaxTime
  /\ current \in [mode : Modes, bundle : Bundles]
  /\ signer \in [active : Keys, keys : SUBSET Keys] /\ signer.active \in signer.keys
  /\ revoked \subseteq Revocable
  /\ ledger \in [Decisions -> Tokens \cup {None}]
  /\ token \in [Tokens -> Token \cup {NoToken}]
  /\ nonce \in [Tokens -> Entry \cup {NoEntry}]
  /\ consume \in [Threads -> Call \cup {Idle}]
  /\ \A th \in Threads : consume[th] # Idle => token[consume[th].token].minted
  /\ uses \in [Tokens -> [Brokers -> Nat]]

Init ==
  /\ now = 0
  /\ current \in [mode : ClassModes, bundle : Bundles]
  /\ \E k \in Keys : signer = [active |-> k, keys |-> Keys]
  /\ revoked = {}
  /\ ledger = [d \in Decisions |-> None]
  /\ token = [t \in Tokens |-> NoToken]
  /\ nonce = [t \in Tokens |-> NoEntry]
  /\ consume = [th \in Threads |-> Idle]
  /\ uses = [t \in Tokens |-> [b \in Brokers |-> 0]]

-------------------------------------------------------------------------------
(* Minting (issue, and the ledger's claim).                                  *)

\* Bug: the claim is not conditional.
ClaimBlindly(t) == ledger' = [ledger EXCEPT ![DecisionOf[t]] = t]

\* An atomic conditional insert; the loser's token object is never signed.
Claim(t) ==
  /\ ledger[DecisionOf[t]] = None
  /\ ledger' = [ledger EXCEPT ![DecisionOf[t]] = t]

\* The mode and the bundle are the ones the decision was evaluated under.
Issue(t) ==
  /\ ~token[t].minted
  /\ \E w \in Warrants : \E b \in Bundles : \E lifetime \in Lifetimes :
       /\ MintAccepts(w)
       /\ token' = [token EXCEPT ![t] =
            [minted |-> TRUE, mode |-> w.mode, verdict |-> w.verdict, key |-> signer.active,
             bundle |-> b, issued |-> now, expires |-> now + lifetime]]
  /\ Claim(t)
  /\ UNCHANGED <<now, governance, nonce, consume, uses>>

-------------------------------------------------------------------------------
(* Spending (consume): the clock and the caller's view of the class first.   *)

Withdrawn(t) == {t, token[t].key} \cap revoked # {} \/ token[t].key \notin signer.keys

Present(th) ==
  /\ ~InFlight(th)
  /\ \E t \in {u \in Tokens : token[u].minted} : \E b \in Bindings :
       consume' = [consume EXCEPT ![th] =
         [pc |-> "presented", token |-> t, binding |-> b, moment |-> now,
          mode |-> current.mode, bundle |-> current.bundle, live |-> ~Withdrawn(t)]]
  /\ UNCHANGED <<now, governance, ledger, token, nonce, uses>>

Expired(t, moment) == moment >= token[t].expires

\* A token of a superseded bundle lives at most Grace from its issue.
BundleIsCurrent(t, bundle, moment) ==
  \/ token[t].bundle = bundle
  \/ Grace > 0 /\ moment <= token[t].issued + Grace

\* Bug: the revocation list is asked about tokens, not about keys.
AcceptsForgettingKeys(c) ==
  LET t == c.token IN
  /\ token[t].key \in signer.keys
  /\ t \notin revoked
  /\ ~Expired(t, c.moment)
  /\ c.binding = BindingOf[DecisionOf[t]]
  /\ token[t].mode = c.mode
  /\ c.mode = "enforce" => token[t].verdict = "ALLOW"
  /\ BundleIsCurrent(t, c.bundle, c.moment)

\* verify: signature, revocation, lifetime, tenant and envelope, mode, verdict
\* and bundle.  The last look at the shadow flag cannot fail once modes agree.
Accepts(c) ==
  LET t == c.token IN
  /\ ~Withdrawn(t)
  /\ ~Expired(t, c.moment)
  /\ c.binding = BindingOf[DecisionOf[t]]
  /\ token[t].mode = c.mode
  /\ ~BlocksOnVerdict(token[t].mode) => ~BlocksOnVerdict(c.mode)
  /\ c.mode = "enforce" => token[t].verdict = "ALLOW"
  /\ BundleIsCurrent(t, c.bundle, c.moment)

\* A refused presentation burns nothing.
Verify(th) ==
  /\ consume[th].pc = "presented"
  /\ consume' = [consume EXCEPT ![th].pc = IF Accepts(consume[th]) THEN "verified" ELSE "refused"]
  /\ UNCHANGED <<now, governance, ledger, token, nonce, uses>>

\* Bug: the oldest entries give way to newer ones, whatever their age.
PurgedUnderPressure(moment) ==
  [t \in Tokens |-> IF \E u \in Tokens : nonce[t].spent /\ nonce[u].spent /\ nonce[t].at < nonce[u].at
                      THEN NoEntry ELSE nonce[t]]

\* _purge: what was first consumed before the horizon is forgotten.
Purged(moment) ==
  [t \in Tokens |-> IF nonce[t].spent /\ nonce[t].at < moment - Retention
                      THEN NoEntry ELSE nonce[t]]

\* Bug: any second presentation inside the window passes for a retry.
IsRetryAnywhere(entry, broker, moment) == moment - entry.at <= Ttl

\* Same delivery, same broker, in time.  verify has tied the envelope to the
\* token, so two presentations of one token never differ in it here.
IsRetry(entry, broker, moment) ==
  /\ entry.broker = broker
  /\ moment - entry.at <= Ttl

Answer(th, outcome) == consume' = [consume EXCEPT ![th].pc = outcome]

\* NonceStore.consume, one critical section: purge, look, insert or classify.
Spend(th) ==
  LET t == consume[th].token
      at == consume[th].moment
      broker == BrokerOf[th]
      kept == Purged(at)
  IN
  /\ consume[th].pc = "verified"
  /\ \/ /\ ~kept[t].spent
        /\ nonce' = [kept EXCEPT ![t] = [spent |-> TRUE, broker |-> broker, at |-> at]]
        /\ uses' = [uses EXCEPT ![t][broker] = @ + 1]
        /\ Answer(th, "first_use")
     \/ /\ kept[t].spent
        /\ nonce' = kept
        /\ Answer(th, IF IsRetry(kept[t], broker, at) THEN "duplicate_delivery" ELSE "replay")
        /\ UNCHANGED uses
  /\ UNCHANGED <<now, governance, ledger, token>>

-------------------------------------------------------------------------------
(* The world around it.                                                      *)

\* Time waits for no presentation longer than MaxStall.
Tick ==
  /\ now < MaxTime
  /\ \A th \in Threads : InFlight(th) => now < consume[th].moment + MaxStall
  /\ now' = now + 1
  /\ UNCHANGED <<governance, ledger, token, nonce, consume, uses>>

SetMode ==
  /\ \E m \in ClassModes \ {current.mode} : current' = [current EXCEPT !.mode = m]
  /\ UNCHANGED <<now, signer, revoked, ledger, token, nonce, consume, uses>>

ActivateBundle ==
  /\ \E b \in Bundles \ {current.bundle} : current' = [current EXCEPT !.bundle = b]
  /\ UNCHANGED <<now, signer, revoked, ledger, token, nonce, consume, uses>>

\* rotate_to: the other keys go on verifying.
RotateTo ==
  /\ \E k \in signer.keys \ {signer.active} : signer' = [signer EXCEPT !.active = k]
  /\ UNCHANGED <<now, current, revoked, ledger, token, nonce, consume, uses>>

\* retire: never the active key.
Retire ==
  /\ \E k \in signer.keys \ {signer.active} : signer' = [signer EXCEPT !.keys = @ \ {k}]
  /\ UNCHANGED <<now, current, revoked, ledger, token, nonce, consume, uses>>

\* revoke_token and revoke_key: there is no way back.
Revoke ==
  /\ \E x \in Revocable \ revoked : revoked' = revoked \cup {x}
  /\ UNCHANGED <<now, current, signer, ledger, token, nonce, consume, uses>>

Govern == SetMode \/ ActivateBundle \/ RotateTo \/ Retire \/ Revoke

Next ==
  \/ \E t \in Tokens : Issue(t)
  \/ \E th \in Threads : Present(th) \/ Verify(th) \/ Spend(th)
  \/ Tick
  \/ Govern

Spec == Init /\ [][Next]_vars

-------------------------------------------------------------------------------
(* Properties.                                                               *)

Used(t) == \E b \in Brokers : uses[t][b] > 0

\* ADR-0008 and FR-22, "exactly one action": over all the tokens of a decision
\* and all brokers there is at most one first use, so at most one dispatch,
\* whatever retries, purges and slow presentations there were.
OneActionPerDecision ==
  \A t, u \in Tokens : \A b, e \in Brokers :
    /\ uses[t][b] <= 1
    /\ uses[t][b] > 0 /\ uses[u][e] > 0 /\ DecisionOf[t] = DecisionOf[u]
         => <<t, b>> = <<u, e>>

\* nonce.py:222-225: _purge drops "entries too old to be reachable by any
\* unexpired token", so a token that was spent and could still verify is one the
\* store remembers, under the broker that dispatched on it.
SpentIsRemembered ==
  \A t \in Tokens : Used(t) /\ ~Expired(t, now) =>
    nonce[t].spent /\ uses[t][nonce[t].broker] > 0

\* FR-21, FR-48, MUT-20: what is withdrawn, expired or of another mode when the
\* broker presents it never dispatches and never burns, however the revocation,
\* the rotation or the promotion interleaves with the call.
RefusedStaysRefused ==
  \A th \in Threads :
    consume[th].pc \in {"verified", "first_use", "duplicate_delivery", "replay"} =>
      LET c == consume[th]
          t == c.token
      IN /\ c.live
         /\ token[t].issued <= c.moment /\ c.moment < token[t].expires
         /\ token[t].mode = c.mode /\ c.mode # "halted"
         /\ c.mode = "enforce" => token[t].verdict = "ALLOW"
         /\ c.bundle # token[t].bundle => c.moment - token[t].issued <= Grace

\* What a thread presents, and what it has been told of it.
Told(c) ==
  IF c = Idle THEN [answer |-> "silent"]
  ELSE [token |-> c.token,
        answer |-> IF c.pc \in {"presented", "verified"} THEN "pending" ELSE c.pc]

\* ADR-0008, FR-22: each decision yields one token and each token one dispatch,
\* and whoever presents it is told the truth: first use when nobody has
\* dispatched on the decision, duplicate delivery when that broker has, replay
\* when somebody has.
Spending == INSTANCE SpendOnce WITH
  Unclaimed <- None,
  claimed <- ledger,
  dispatched <- {use \in Tokens \X Brokers : uses[use[1]][use[2]] > 0},
  call <- [th \in Threads |-> Told(consume[th])]

ImplementsSpendOnce == Spending!Spec
===============================================================================
