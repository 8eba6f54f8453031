------------------------------- MODULE BddSpec -------------------------------
(***************************************************************************)
(* What create_bdd promises its callers: it answers once, and a diagram it *)
(* answers with is true in exactly the worlds in which the expression is,  *)
(* a world giving each random variable at most one value.                  *)
(***************************************************************************)
EXTENDS BddTree

VARIABLES
  order,      \* the rvas of the expression
  sat,        \* the sets of rvas that make it true
  status,     \* "pending", "stored" or "none"
  meaning     \* the worlds in which the stored diagram is true

specVars == <<order, sat, status, meaning>>

Init == status = "pending" /\ meaning = {}

Store ==
  /\ status = "pending"
  /\ status' = "stored"
  /\ meaning' = sat \cap WorldsOver({order[p] : p \in DOMAIN order})
  /\ UNCHANGED <<order, sat>>

GiveUp ==
  /\ status = "pending"
  /\ status' = "none"
  /\ UNCHANGED <<order, sat, meaning>>

Next == Store \/ GiveUp

Spec == Init /\ [][Next]_specVars
=============================================================================
