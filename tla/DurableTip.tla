----------------------------- MODULE DurableTip -----------------------------
(***************************************************************************)
(* What the coin database promises across crashes: the chain state is the   *)
(* state of one block; a crash takes the node back to the block of the last *)
(* flush, and a power failure to the block of an earlier flush, never to    *)
(* anything in between.                                                     *)
(***************************************************************************)
EXTENDS BlockTree

VARIABLES tip, written, synced

vars == <<tip, written, synced>>

Init == tip = Genesis /\ written = Genesis /\ synced = Genesis

(* A block is connected or disconnected.                                    *)
Move ==
    /\ \E b \in Block : (Parent[b] = tip \/ Parent[tip] = b) /\ tip' = b
    /\ UNCHANGED <<written, synced>>

Flush == written' = tip /\ UNCHANGED <<tip, synced>>

WriteBack == synced' = written /\ UNCHANGED <<tip, written>>

Crash == tip' = written /\ UNCHANGED <<written, synced>>

PowerFailure == tip' = synced /\ written' = synced /\ UNCHANGED synced

Next == Move \/ Flush \/ WriteBack \/ Crash \/ PowerFailure

Spec == Init /\ [][Next]_vars
=============================================================================
