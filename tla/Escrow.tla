------------------------------- MODULE Escrow -------------------------------
(***************************************************************************)
(* What the marketplace promises about the money of one order, with no     *)
(* word of deliveries, revisions, deadlines or dispute procedure: a        *)
(* payment is kept in escrow, any part of it can be put on hold and taken  *)
(* off again, and the provider gets all of it at once, when the work under *)
(* review is accepted and nothing is on hold.                              *)
(***************************************************************************)
CONSTANTS Funds,      \* the payments an order may receive
          Original    \* the one that pays for the order itself

VARIABLES phase,      \* whose turn it is
          funds,      \* where each payment is
          held        \* the payments on hold

escrowVars == <<phase, funds, held>>

EscrowTypeOK ==
  /\ phase \in {"asked", "working", "reviewing", "done", "void"}
  /\ funds \in [Funds -> {"none", "escrow", "released"}]
  /\ held \subseteq Funds

EscrowInit ==
  /\ phase = "asked"
  /\ funds = [f \in Funds |-> "none"]
  /\ held = {}

Agree    == phase = "asked" /\ phase' = "working" /\ UNCHANGED <<funds, held>>
CallOff  == phase = "asked" /\ phase' = "void" /\ UNCHANGED <<funds, held>>

\* The order itself may be paid at any time of the work; it goes on hold at once
\* when the order is already in dispute.
PayOrder ==
  /\ phase = "working"
  /\ funds[Original] = "none"
  /\ funds' = [funds EXCEPT ![Original] = "escrow"]
  /\ held' \in {held, held \cup {Original}}
  /\ UNCHANGED phase

HandOver == phase = "working" /\ funds[Original] = "escrow"
            /\ phase' = "reviewing" /\ UNCHANGED <<funds, held>>
SendBack == phase = "reviewing" /\ phase' = "working" /\ UNCHANGED <<funds, held>>

\* An extra is bought during the review and sends the work back.
PayExtra(f) ==
  /\ phase = "reviewing" /\ phase' = "working"
  /\ f # Original /\ funds[f] = "none"
  /\ funds' = [funds EXCEPT ![f] = "escrow"]
  /\ UNCHANGED held

Release ==
  /\ phase = "reviewing" /\ phase' = "done"
  /\ funds[Original] = "escrow"
  /\ held = {}
  /\ funds' = [f \in Funds |-> IF funds[f] = "escrow" THEN "released" ELSE funds[f]]
  /\ UNCHANGED held

PutOnHold(f) ==
  /\ phase \in {"working", "reviewing", "done"}
  /\ funds[f] # "none" /\ f \notin held
  /\ held' = held \cup {f} /\ UNCHANGED <<phase, funds>>

TakeOffHold(f) ==
  /\ f \in held
  /\ held' = held \ {f} /\ UNCHANGED <<phase, funds>>

EscrowNext ==
  \/ Agree \/ CallOff \/ PayOrder \/ HandOver \/ SendBack \/ Release
  \/ \E f \in Funds : PayExtra(f) \/ PutOnHold(f) \/ TakeOffHold(f)

EscrowSpec == EscrowInit /\ [][EscrowNext]_escrowVars

-----------------------------------------------------------------------------
(* The promise when payments can also be returned to the client.  What is to be *)
(* returned is on hold first; what is returned is final.                   *)

ReturnsTypeOK ==
  /\ phase \in {"asked", "working", "reviewing", "done", "void"}
  /\ funds \in [Funds -> {"none", "escrow", "released", "returned"}]
  /\ held \subseteq Funds

\* The client gives up an order that was paid and not yet worked for.
GiveUp ==
  /\ phase = "working" /\ phase' = "void"
  /\ funds[Original] = "escrow"
  /\ held' = held \cup {Original} /\ UNCHANGED funds

\* What is free is released, and the provider waits for the rest.
ReleaseFree ==
  LET free == {f \in Funds \ held : funds[f] = "escrow"} IN
  /\ phase = "reviewing" /\ phase' = "done"
  /\ funds[Original] = "escrow" /\ free # {}
  /\ funds' = [f \in Funds |-> IF f \in free THEN "released" ELSE funds[f]]
  /\ UNCHANGED held

\* An extra that was paid for in vain is on hold from the start.
KeepExtra(f) ==
  /\ f # Original /\ funds[f] = "none"
  /\ funds' = [funds EXCEPT ![f] = "escrow"]
  /\ held' = held \cup {f} /\ UNCHANGED phase

Hold(f) ==
  /\ funds[f] \in {"escrow", "released"} /\ f \notin held
  /\ held' = held \cup {f} /\ UNCHANGED <<phase, funds>>

Return(f) ==
  /\ f \in held /\ funds[f] \in {"escrow", "released"}
  /\ funds' = [funds EXCEPT ![f] = "returned"]
  /\ held' = held \ {f} /\ UNCHANGED phase

ReturnsNext ==
  \/ Agree \/ CallOff \/ PayOrder \/ HandOver \/ SendBack \/ GiveUp \/ ReleaseFree
  \/ \E f \in Funds : PayExtra(f) \/ KeepExtra(f) \/ Hold(f) \/ TakeOffHold(f) \/ Return(f)

ReturnsSpec == EscrowInit /\ [][ReturnsNext]_escrowVars
=============================================================================
