----------------------------- MODULE OrderPayment -----------------------------
(*************************************************************************)
(* What paying promises, without requests, retries, webhooks or          *)
(* configurations: an order is open, is then paid or closed, and stays   *)
(* so; it is paid by one attempt, whose money the provider holds, and    *)
(* that attempt alone delivers the goods.  Money may be captured at any  *)
(* time, for an order that is paid or closed too: what becomes of it     *)
(* then is not promised here.                                            *)
(*************************************************************************)
CONSTANTS Orders, Attempts, OrderOf

VARIABLES
  phase,      (* "absent", "open", "paid" or "closed", per order.        *)
  captured,   (* The attempts whose money the provider holds.            *)
  payers,     (* Per order, the attempts that paid it.                   *)
  delivered   (* Per order, the attempts whose payment delivered goods.  *)

promiseVars == <<phase, captured, payers, delivered>>

Init ==
  /\ phase = [o \in Orders |-> "absent"]
  /\ captured = {}
  /\ payers = [o \in Orders |-> {}]
  /\ delivered = [o \in Orders |-> {}]

Open(o) ==
  /\ phase[o] = "absent"
  /\ phase' = [phase EXCEPT ![o] = "open"]
  /\ UNCHANGED <<captured, payers, delivered>>

Capture(a) ==
  /\ captured' = captured \cup {a}
  /\ UNCHANGED <<phase, payers, delivered>>

Pay(a) ==
  LET o == OrderOf[a] IN
  /\ phase[o] = "open"
  /\ a \in captured
  /\ phase' = [phase EXCEPT ![o] = "paid"]
  /\ payers' = [payers EXCEPT ![o] = {a}]
  /\ delivered' = [delivered EXCEPT ![o] = {a}]
  /\ UNCHANGED captured

Close(o) ==
  /\ phase[o] = "open"
  /\ phase' = [phase EXCEPT ![o] = "closed"]
  /\ UNCHANGED <<captured, payers, delivered>>

Next ==
  \/ \E o \in Orders : Open(o) \/ Close(o)
  \/ \E a \in Attempts : Capture(a) \/ Pay(a)

Spec == Init /\ [][Next]_promiseVars
=============================================================================
