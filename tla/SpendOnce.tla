------------------------------- MODULE SpendOnce ------------------------------
(*****************************************************************************)
(* What tokens promise, without clocks, keys, retention or purges (ADR-0008, *)
(* FR-22).  A decision yields one token and the token one dispatch; a broker *)
(* that presents it is told to dispatch, that it has dispatched on it        *)
(* already, that somebody has, or to go away.                                *)
(*****************************************************************************)
CONSTANTS
  Decisions,
  Tokens,
  Brokers,
  Threads,       \* of brokers
  DecisionOf,    \* the decision a token would authorise
  BrokerOf,      \* the broker a thread belongs to
  Unclaimed

VARIABLES
  claimed,       \* the token each decision yielded
  dispatched,    \* <<token, broker>> of every dispatch
  call           \* the token each thread presents or presented last, and its answer

Silent == [answer |-> "silent"]

Init ==
  /\ claimed = [d \in Decisions |-> Unclaimed]
  /\ dispatched = {}
  /\ call = [th \in Threads |-> Silent]

Mint(t) ==
  /\ claimed[DecisionOf[t]] = Unclaimed
  /\ claimed' = [claimed EXCEPT ![DecisionOf[t]] = t]
  /\ UNCHANGED <<dispatched, call>>

Ask(th, t) ==
  /\ call[th].answer # "pending"
  /\ claimed[DecisionOf[t]] = t
  /\ call' = [call EXCEPT ![th] = [token |-> t, answer |-> "pending"]]
  /\ UNCHANGED <<claimed, dispatched>>

Tell(th, answer) ==
  /\ call[th].answer = "pending"
  /\ call' = [call EXCEPT ![th] = [token |-> call[th].token, answer |-> answer]]
  /\ UNCHANGED claimed

Dispatch(th) ==
  /\ Tell(th, "first_use")
  /\ \A use \in dispatched : DecisionOf[use[1]] # DecisionOf[call[th].token]
  /\ dispatched' = dispatched \cup {<<call[th].token, BrokerOf[th]>>}

\* A retry of the broker's own delivery.
Repeat(th) ==
  /\ Tell(th, "duplicate_delivery")
  /\ <<call[th].token, BrokerOf[th]>> \in dispatched
  /\ UNCHANGED dispatched

Replay(th) ==
  /\ Tell(th, "replay")
  /\ \E use \in dispatched : use[1] = call[th].token
  /\ UNCHANGED dispatched

Refuse(th) ==
  /\ Tell(th, "refused")
  /\ UNCHANGED dispatched

Next ==
  \/ \E t \in Tokens : Mint(t) \/ \E th \in Threads : Ask(th, t)
  \/ \E th \in Threads : Dispatch(th) \/ Repeat(th) \/ Replay(th) \/ Refuse(th)

Spec == Init /\ [][Next]_<<claimed, dispatched, call>>
===============================================================================
