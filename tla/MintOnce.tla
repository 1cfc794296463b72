------------------------------- MODULE MintOnce -------------------------------
(*****************************************************************************)
(* What minting promises, without stores, logs, locks or gateways (ADR-0026: *)
(* the issuance claim is the record).  A decision's issuance is recorded     *)
(* once and never again, and a token is handed out only under the record     *)
(* that names it.                                                            *)
(*****************************************************************************)
CONSTANTS
  Decisions,
  Tokens,
  DecisionOf,    \* the decision a token would authorise
  Unrecorded

VARIABLES
  recorded,      \* the token each decision's issuance record names
  handed         \* the tokens that reached a caller

Init ==
  /\ recorded = [d \in Decisions |-> Unrecorded]
  /\ handed = {}

Record(t) ==
  /\ recorded[DecisionOf[t]] = Unrecorded
  /\ recorded' = [recorded EXCEPT ![DecisionOf[t]] = t]
  /\ UNCHANGED handed

HandOut(t) ==
  /\ recorded[DecisionOf[t]] = t
  /\ t \notin handed
  /\ handed' = handed \cup {t}
  /\ UNCHANGED recorded

Next == \E t \in Tokens : Record(t) \/ HandOut(t)

Spec == Init /\ [][Next]_<<recorded, handed>>
===============================================================================
