-------------------------------- MODULE Coins --------------------------------
(***************************************************************************)
(* What the stack of coin views promises: three maps from outpoints to      *)
(* coins, each with the block it belongs to.  view is the one a block is    *)
(* connected or disconnected in, tip is the chain state, db is what is on   *)
(* disk.  Changes are made in view; they reach tip and then db as a whole.  *)
(***************************************************************************)
CONSTANTS Outpoint, Coin, Spent, Hash

VARIABLES db, dbBest, tip, tipBest, view, viewBest

vars == <<db, dbBest, tip, tipBest, view, viewBest>>

Init ==
    /\ db \in [Outpoint -> Coin \cup {Spent}] /\ dbBest \in Hash
    /\ tip = db /\ tipBest = dbBest
    /\ view = tip /\ viewBest = tipBest

Add(o, c) == view' = [view EXCEPT ![o] = c] /\ UNCHANGED <<db, dbBest, tip, tipBest, viewBest>>

Spend(o) == view' = [view EXCEPT ![o] = Spent] /\ UNCHANGED <<db, dbBest, tip, tipBest, viewBest>>

SetBest(h) == viewBest' = h /\ UNCHANGED <<db, dbBest, tip, tipBest, view>>

Discard == view' = tip /\ viewBest' = tipBest /\ UNCHANGED <<db, dbBest, tip, tipBest>>

Commit == tip' = view /\ tipBest' = viewBest /\ UNCHANGED <<db, dbBest, view, viewBest>>

Persist ==
    /\ view = tip /\ viewBest = tipBest
    /\ db' = tip /\ dbBest' = tipBest
    /\ UNCHANGED <<tip, tipBest, view, viewBest>>

Next ==
    \/ \E o \in Outpoint : Spend(o) \/ \E c \in Coin : Add(o, c)
    \/ \E h \in Hash : SetBest(h)
    \/ Discard \/ Commit \/ Persist

Spec == Init /\ [][Next]_vars
=============================================================================
