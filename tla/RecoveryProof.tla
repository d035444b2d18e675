--------------------------- MODULE RecoveryProof ----------------------------
(***************************************************************************)
(* Startup never lacks a block or undo data, BatchWrite's assertion holds,  *)
(* and Recovery implements DurableTip, for every tree of blocks.  Then, by  *)
(* induction over transactions and blocks: the coins are those of the tip,  *)
(* and a replay restores them from whatever a flush has left.               *)
(***************************************************************************)
EXTENDS Recovery, FiniteSetTheorems, WellFoundedInduction, TLAPS

(* The index on disk has the data of a block and of its ancestors, and the  *)
(* undo data of all of them but the genesis block.                          *)
Covered(b) ==
    /\ b \in Block
    /\ Ancestors[b] \subseteq diskHave
    /\ Ancestors[b] \ {Genesis} \subseteq diskUndo

CoveredDb(b, h) ==
    /\ b = NoBlock \/ Covered(b)
    /\ \/ h = <<>>
       \/ \E new, old : h = <<new, old>> /\ Covered(new) /\ (old = NoBlock \/ Covered(old))

(* The index on disk is ahead of the coin database, of what a power failure *)
(* leaves of it, and of a flush that is under way.                          *)
DiskOK ==
    /\ diskHave \subseteq Block
    /\ \A b \in diskHave : Ancestors[b] \subseteq diskHave
    /\ CoveredDb(best, heads)
    /\ CoveredDb(stable[2], stable[3])

MemoryOK ==
    /\ tip \in have /\ have \subseteq Block /\ Genesis \in have
    /\ diskHave \subseteq have /\ diskUndo \subseteq undo
    /\ \A b \in have : Ancestors[b] \subseteq have
    /\ Ancestors[tip] \ {Genesis} \subseteq undo

PhaseOK ==
    \/ pc = "run" /\ MemoryOK /\ heads = <<>>
    \/ pc = "flush" /\ MemoryOK /\ Covered(tip) /\ (heads = <<>> \/ heads[1] = tip)
    \/ pc = "down"

IInv == DiskOK /\ PhaseOK

(* An action keeps the invariant and is a step of the abstract store.       *)
Simulates == IInv' /\ [Store!Next]_(Store!vars)

-----------------------------------------------------------------------------
(* A block is its own ancestor.                                             *)
LEMMA OwnAncestor == \A b \in Block : b \in Ancestors[b]
  BY TreeAssumption DEF TreeAssumption

(* A block that is stored changes nothing that is durable.                  *)
LEMMA AcceptBlockSimulates ==
    ASSUME IInv, NEW b \in Block, AcceptBlock(b) PROVE Simulates
  <1> USE DEF AcceptBlock, disk, index, coinsdb
  <1>0. pc = "run" /\ MemoryOK /\ heads = <<>>
    BY DEF IInv, PhaseOK
  <1>1. DiskOK'
    BY DEF IInv, DiskOK, CoveredDb, Covered
  <1>2. b # Genesis /\ Ancestors[b] = {b} \cup Ancestors[Parent[b]]
    BY <1>0, TreeAssumption DEF TreeAssumption, MemoryOK
  <1>3. MemoryOK'
    BY <1>0, <1>2 DEF MemoryOK
  <1>4. UNCHANGED Store!vars
    BY DEF Store!vars, Committed
  <1> QED
    BY <1>0, <1>1, <1>3, <1>4 DEF Simulates, IInv, PhaseOK

(* ConnectTip moves the tip to a child, whose undo data is then in memory.  *)
LEMMA ConnectTipSimulates ==
    ASSUME IInv, NEW b \in Block, ConnectTip(b) PROVE Simulates
  <1> USE DEF ConnectTip, disk, index, coinsdb
  <1>0. pc = "run" /\ MemoryOK /\ heads = <<>>
    BY DEF IInv, PhaseOK
  <1>1. DiskOK'
    BY DEF IInv, DiskOK, CoveredDb, Covered
  <1>2. Ancestors[b] = {b} \cup Ancestors[Parent[b]]
    BY TreeAssumption DEF TreeAssumption
  <1>3. MemoryOK'
    BY <1>0, <1>2 DEF MemoryOK
  <1>4. Store!Move
    BY <1>0 DEF Store!Move, Committed
  <1> QED
    BY <1>0, <1>1, <1>3, <1>4 DEF Simulates, IInv, PhaseOK, Store!Next

(* DisconnectTip moves the tip to its parent.                               *)
LEMMA DisconnectTipSimulates ==
    ASSUME IInv, DisconnectTip PROVE Simulates
  <1> USE DEF DisconnectTip, disk, index, coinsdb
  <1>0. pc = "run" /\ MemoryOK /\ heads = <<>>
    BY DEF IInv, PhaseOK
  <1>1. DiskOK'
    BY DEF IInv, DiskOK, CoveredDb, Covered
  <1>2. tip \in Block /\ Parent[tip] \in Block /\ Ancestors[tip] = {tip} \cup Ancestors[Parent[tip]]
    BY <1>0, TreeAssumption DEF TreeAssumption, MemoryOK
  <1>3. Parent[tip] \in have
    BY <1>0, <1>2, OwnAncestor DEF MemoryOK
  <1>4. MemoryOK'
    BY <1>0, <1>2, <1>3 DEF MemoryOK
  <1>5. Store!Move
    BY <1>0, <1>2 DEF Store!Move, Committed
  <1> QED
    BY <1>0, <1>1, <1>4, <1>5 DEF Simulates, IInv, PhaseOK, Store!Next

(* The index is written before the coins: from here on it covers the tip.   *)
LEMMA FlushIndexSimulates ==
    ASSUME IInv, FlushIndex PROVE Simulates
  <1> USE DEF FlushIndex, memory, coinsdb
  <1>0. pc = "run" /\ MemoryOK /\ heads = <<>>
    BY DEF IInv, PhaseOK
  <1>1. \A b : Covered(b) => Covered(b)'
    BY <1>0 DEF Covered, MemoryOK
  <1>2. CoveredDb(best, heads)' /\ CoveredDb(stable[2], stable[3])'
    BY <1>1 DEF CoveredDb, IInv, DiskOK
  <1>3. DiskOK'
    BY <1>0, <1>2 DEF DiskOK, MemoryOK
  <1>4. MemoryOK' /\ Covered(tip)'
    BY <1>0 DEF MemoryOK, Covered
  <1>5. UNCHANGED Store!vars
    BY <1>0 DEF Store!vars, Committed
  <1> QED
    BY <1>0, <1>3, <1>4, <1>5 DEF Simulates, IInv, PhaseOK

(* The first batch of a flush commits it to the tip, the others stutter.    *)
LEMMA WritePartialBatchSimulates ==
    ASSUME IInv, WritePartialBatch PROVE Simulates
  <1> USE DEF WritePartialBatch, index, memory
  <1>0. pc = "flush" /\ MemoryOK /\ Covered(tip) /\ (heads = <<>> \/ heads[1] = tip)
    BY DEF IInv, PhaseOK
  <1>1. OldTip = NoBlock \/ Covered(OldTip)
    BY DEF IInv, DiskOK, CoveredDb, OldTip
  <1>2. Covered(tip)' /\ (OldTip = NoBlock \/ Covered(OldTip))
    BY <1>0, <1>1 DEF Covered
  <1>3. CoveredDb(best, heads)'
    BY <1>0, <1>1 DEF CoveredDb, Covered
  <1>4. CoveredDb(stable[2], stable[3])'
    BY DEF IInv, DiskOK, CoveredDb, Covered
  <1>5. DiskOK'
    BY <1>3, <1>4 DEF IInv, DiskOK
  <1>6. MemoryOK' /\ heads'[1] = tip'
    BY <1>0 DEF MemoryOK
  <1>7. Store!Flush
    BY <1>0 DEF Store!Flush, Committed
  <1> QED
    BY <1>0, <1>2, <1>5, <1>6, <1>7 DEF Simulates, IInv, PhaseOK, Store!Next

(* The last batch commits a flush that had only one, and ends the           *)
(* transition.                                                              *)
LEMMA WriteFinalBatchSimulates ==
    ASSUME IInv, WriteFinalBatch PROVE Simulates
  <1> USE DEF WriteFinalBatch, index, memory
  <1>0. pc = "flush" /\ MemoryOK /\ Covered(tip)
    BY DEF IInv, PhaseOK
  <1>1. CoveredDb(best, heads)'
    BY <1>0 DEF CoveredDb, Covered
  <1>2. CoveredDb(stable[2], stable[3])'
    BY DEF IInv, DiskOK, CoveredDb, Covered
  <1>3. DiskOK'
    BY <1>1, <1>2 DEF IInv, DiskOK
  <1>4. MemoryOK'
    BY <1>0 DEF MemoryOK
  <1>5. Store!Flush
    BY <1>0, TreeAssumption DEF Store!Flush, Committed, MemoryOK, TreeAssumption
  <1> QED
    BY <1>3, <1>4, <1>5 DEF Simulates, IInv, PhaseOK, Store!Next

(* A crash leads back to the tip of the last flush that was begun.          *)
LEMMA CrashSimulates ==
    ASSUME IInv, Crash PROVE Simulates
  <1> USE DEF Crash, Stop, disk, index, coinsdb
  <1>1. DiskOK'
    BY Zenon DEF IInv, DiskOK, CoveredDb, Covered
  <1>2. Store!Crash
    BY DEF Store!Crash, Committed
  <1> QED
    BY <1>1, <1>2 DEF Simulates, IInv, PhaseOK, Store!Next

(* A power failure leads back to what has reached the medium.               *)
LEMMA PowerFailureSimulates ==
    ASSUME IInv, PowerFailure PROVE Simulates
  <1> USE DEF PowerFailure, Stop, index
  <1>1. DiskOK'
    BY DEF IInv, DiskOK, CoveredDb, Covered
  <1>2. Store!PowerFailure
    BY DEF Store!PowerFailure, Committed
  <1> QED
    BY <1>1, <1>2 DEF Simulates, IInv, PhaseOK, Store!Next

(* LevelDB's log reaches the medium.                                        *)
LEMMA WriteBackSimulates ==
    ASSUME IInv, WriteBack PROVE Simulates
  <1> USE DEF WriteBack, index, coinsdb, memory
  <1>1. stable'[2] = best /\ stable'[3] = heads
    OBVIOUS
  <1>2. CoveredDb(best, heads)' /\ CoveredDb(stable[2], stable[3])'
    BY <1>1 DEF IInv, DiskOK, CoveredDb, Covered
  <1>3. DiskOK'
    BY <1>2 DEF IInv, DiskOK
  <1>4. PhaseOK'
    BY DEF IInv, PhaseOK, MemoryOK, Covered
  <1>5. Store!WriteBack
    BY <1>1 DEF Store!WriteBack, Committed
  <1> QED
    BY <1>3, <1>4, <1>5 DEF Simulates, IInv, Store!Next

(* The blocks ReplayBlocks reads are on disk.                               *)
LEMMA ReplayPossible ==
    ASSUME IInv, heads # <<>>
    PROVE  CanReplay(heads[2], heads[1]) /\ Covered(heads[1])
  <1>1. PICK new, old : heads = <<new, old>> /\ Covered(new) /\ (old = NoBlock \/ Covered(old))
    BY DEF IInv, DiskOK, CoveredDb
  <1>2. new \in diskHave /\ (old = NoBlock \/ old \in diskHave)
    BY <1>1, OwnAncestor DEF Covered
  <1>3. Rollback(old, new) \subseteq diskHave \cap diskUndo
    <2>1. Genesis \in Ancestors[new]
      BY <1>1, TreeAssumption DEF TreeAssumption, Covered
    <2> QED
      BY <1>1, <2>1 DEF Rollback, Covered
  <1>4. Rollforward(old, new) \subseteq diskHave
    BY <1>1 DEF Rollforward, Covered
  <1> QED
    BY <1>1, <1>2, <1>3, <1>4 DEF CanReplay

(* Startup finds all it needs, with or without a flush to replay, and       *)
(* stutters.                                                                *)
LEMMA RestartSimulates ==
    ASSUME IInv, Restart PROVE Simulates
  <1> USE DEF Restart, disk, index, coinsdb
  <1>1. DiskOK'
    BY DEF IInv, DiskOK, CoveredDb, Covered
  <1>2. /\ have' \subseteq Block /\ Genesis \in have' /\ diskHave' \subseteq have'
        /\ diskUndo' \subseteq undo' /\ \A b \in have' : Ancestors[b] \subseteq have'
    BY TreeAssumption DEF TreeAssumption, IInv, DiskOK
  <1>3. \A b : Covered(b) => b \in have' /\ Ancestors[b] \ {Genesis} \subseteq undo'
    BY OwnAncestor DEF Covered
  <1>4. CASE heads = <<>>
    <2>1. tip' = (IF best = NoBlock THEN Genesis ELSE best)
      BY <1>4
    <2>2. best = NoBlock \/ Covered(best)
      BY DEF IInv, DiskOK, CoveredDb
    <2>3. MemoryOK'
      <3>1. CASE best = NoBlock
        BY <3>1, <2>1, <1>2, TreeAssumption DEF TreeAssumption, MemoryOK
      <3>2. CASE best # NoBlock
        BY <3>2, <2>1, <2>2, <1>2, <1>3 DEF MemoryOK
      <3> QED
        BY <3>1, <3>2
    <2>4. pc' = "run"
      BY <1>4, <2>3 DEF MemoryOK
    <2>5. UNCHANGED Store!vars
      BY <1>4, <2>1, <2>4 DEF Store!vars, Committed
    <2> QED
      BY <1>1, <1>4, <2>3, <2>4, <2>5 DEF Simulates, IInv, PhaseOK
  <1>5. CASE heads # <<>>
    <2>1. CanReplay(heads[2], heads[1]) /\ Covered(heads[1])
      BY <1>5, ReplayPossible
    <2>2. tip' = heads[1] /\ pc' = "flush"
      BY <1>5, <2>1
    <2>3. MemoryOK'
      BY <2>1, <2>2, <1>2, <1>3 DEF MemoryOK
    <2>4. Covered(tip)'
      BY <2>1, <2>2 DEF Covered
    <2>5. UNCHANGED Store!vars
      BY <1>5, <2>2 DEF Store!vars, Committed
    <2> QED
      BY <1>1, <2>2, <2>3, <2>4, <2>5 DEF Simulates, IInv, PhaseOK
  <1> QED
    BY <1>4, <1>5

-----------------------------------------------------------------------------
(* Every step of the node keeps the invariant and is a step of the store.   *)
THEOREM Simulation == Spec => []IInv /\ Store!Spec
  <1>1. Init => IInv /\ Store!Init
    BY TreeAssumption
    DEF TreeAssumption, Init, coinsdb, IInv, DiskOK, PhaseOK, MemoryOK, CoveredDb, Covered,
        Store!Init, Committed
  <1>2. IInv /\ [Next]_vars => Simulates
    <2> SUFFICES ASSUME IInv, [Next]_vars PROVE Simulates
      OBVIOUS
    <2>1. CASE UNCHANGED vars
      <3>0. UNCHANGED <<diskHave, diskUndo, db, best, heads, stable, have, undo, tip, coins, pc>>
        BY <2>1, Zenon DEF vars, disk, index, coinsdb, memory
      <3>1. DiskOK'
        BY <3>0, Zenon DEF IInv, DiskOK, CoveredDb, Covered
      <3>2. PhaseOK'
        BY <3>0, Zenon DEF IInv, PhaseOK, MemoryOK, Covered
      <3>3. UNCHANGED Store!vars
        BY <3>0, Zenon DEF Store!vars, Committed
      <3> QED
        BY <3>1, <3>2, <3>3, Zenon DEF Simulates, IInv
    <2> QED
      BY <2>1, AcceptBlockSimulates, ConnectTipSimulates, DisconnectTipSimulates,
         FlushIndexSimulates, WritePartialBatchSimulates, WriteFinalBatchSimulates,
         CrashSimulates, PowerFailureSimulates, WriteBackSimulates, RestartSimulates DEF Next
  <1> QED
    BY <1>1, <1>2, PTL DEF Spec, Store!Spec, Simulates

(* The first batch of a flush is its commit point, also under power         *)
(* failures and crashes during a replay.                                    *)
THEOREM RecoveryImplementsDurableTip == Spec => ImplementsDurableTip
  BY Simulation, PTL DEF ImplementsDurableTip

(* ReplayBlocks and LoadChainTip never fail: FlushStateToDisk writes the    *)
(* index before the coins.                                                  *)
THEOREM StartupNeverStuck == Spec => []NeverStuck
  <1>1. IInv => NeverStuck
    BY DEF IInv, PhaseOK, NeverStuck
  <1> QED
    BY <1>1, Simulation, PTL

(* The assertion in BatchWrite holds.                                       *)
THEOREM FlushesAlwaysToHead == Spec => []FlushesToHead
  <1>1. IInv => FlushesToHead
    BY DEF IInv, PhaseOK, FlushesToHead
  <1> QED
    BY <1>1, Simulation, PTL

-----------------------------------------------------------------------------
(* A set of naturals that is not empty has a least element.                 *)
LEMMA Least ==
    ASSUME NEW T \in SUBSET Nat, T # {} PROVE \E n \in T : \A m \in T : n <= m
  <1> DEFINE R == OpToRel(<, Nat)
  <1>1. IsWellFoundedOn(R, Nat)
    BY NatLessThanWellFounded, Zenon
  <1>2. \A x, y \in Nat : x < y => <<x, y>> \in R
    BY Zenon DEF OpToRel
  <1> HIDE DEF R
  <1>3. PICK x \in T : \A y \in T : ~(<<y, x>> \in R)
    BY <1>1, WFMin, Zenon
  <1>4. \A y \in T : ~(y < x)
    BY <1>2, <1>3, Zenon
  <1> QED
    BY <1>4

(* Induction up to n, for the members of a set.                             *)
LEMMA UpTo ==
    ASSUME NEW n \in Nat, NEW P, 0 \in P, \A i \in 1..n : i - 1 \in P => i \in P
    PROVE  \A i \in 0..n : i \in P
  <1> DEFINE T == {i \in 0..n : i \notin P}
  <1> SUFFICES ASSUME T # {} PROVE FALSE
    OBVIOUS
  <1>0. T \in SUBSET Nat
    OBVIOUS
  <1>1. PICK i \in T : \A m \in T : i <= m
    BY <1>0, Least, Zenon
  <1>2. i \in 1..n
    OBVIOUS
  <1>3. i - 1 \in 0..n /\ i - 1 < i
    BY <1>2
  <1>4. i - 1 \notin T
    BY <1>1, <1>3
  <1> QED
    BY <1>2, <1>3, <1>4

(* f results from v by n steps.                                             *)
Iteration(f, S, n, v, step) ==
    f \in [0..n -> S] /\ f[0] = v /\ \A i \in 1..n : f[i] = step[i][f[i - 1]]

(* A recursive definition over 0..n has a solution.                         *)
LEMMA Iterate ==
    ASSUME NEW S, NEW n \in Nat, NEW v \in S, NEW step \in [1..n -> [S -> S]]
    PROVE  \E f : Iteration(f, S, n, v, step)
  <1> DEFINE Solves(f, m) == f[0] = v /\ \A i \in 1..m : f[i] = step[i][f[i - 1]]
             P == {m \in 0..n : \E f \in [0..m -> S] : Solves(f, m)}
  <1>1. 0 \in P
    <2> DEFINE g == [i \in 0..0 |-> v]
    <2>1. g \in [0..0 -> S] /\ g[0] = v
      OBVIOUS
    <2>2. 1..0 = {}
      OBVIOUS
    <2> HIDE DEF g
    <2>3. Solves(g, 0)
      BY <2>1, <2>2
    <2>4. 0 \in 0..n
      OBVIOUS
    <2> QED
      BY <2>1, <2>3, <2>4
  <1>2. ASSUME NEW m \in 1..n, m - 1 \in P PROVE m \in P
    <2>1. PICK f \in [0..(m - 1) -> S] : Solves(f, m - 1)
      BY <1>2
    <2> DEFINE g == [i \in 0..m |-> IF i < m THEN f[i] ELSE step[m][f[m - 1]]]
    <2>2. m \in Nat /\ m - 1 \in 0..(m - 1) /\ step[m] \in [S -> S]
      OBVIOUS
    <2>3. f[m - 1] \in S
      BY <2>1, <2>2
    <2>4. \A i \in 0..m : i < m => i \in 0..(m - 1) /\ f[i] \in S
      BY <2>1, <2>2
    <2>5. g \in [0..m -> S]
      BY <2>2, <2>3, <2>4
    <2>6. \A i \in 0..(m - 1) : g[i] = f[i]
      BY <2>2
    <2>7. g[m] = step[m][f[m - 1]]
      BY <2>2
    <2> HIDE DEF g
    <2>8. g[0] = v
      BY <2>1, <2>2, <2>6
    <2>9. ASSUME NEW i \in 1..m PROVE g[i] = step[i][g[i - 1]]
      <3>1. i - 1 \in 0..(m - 1)
        BY <2>2
      <3>2. CASE i = m
        BY <3>1, <3>2, <2>6, <2>7
      <3>3. CASE i # m
        <4>1. i \in 1..(m - 1) /\ i \in 0..(m - 1)
          BY <3>3, <2>2
        <4> QED
          BY <3>1, <4>1, <2>1, <2>6
      <3> QED
        BY <3>2, <3>3
    <2> QED
      BY <2>2, <2>5, <2>8, <2>9
  <1> HIDE DEF P
  <1>3. n \in 0..n
    OBVIOUS
  <1>4. n \in P
    BY <1>1, <1>2, <1>3, UpTo, Zenon
  <1> QED
    BY <1>4, Zenon DEF P, Iteration

(* Induction along a sequence of values.                                    *)
LEMMA StaysIn ==
    ASSUME NEW S, NEW n \in Nat, NEW g, g[0] \in S, \A i \in 1..n : g[i - 1] \in S => g[i] \in S
    PROVE  \A i \in 0..n : g[i] \in S
  <1> DEFINE P == {i \in 0..n : g[i] \in S}
  <1>1. 0 \in P
    OBVIOUS
  <1>2. \A i \in 1..n : i - 1 \in P => i \in P
    OBVIOUS
  <1> HIDE DEF P
  <1>3. \A i \in 0..n : i \in P
    BY <1>1, <1>2, UpTo, Zenon
  <1> QED
    BY <1>3 DEF P

(* What a view of the coins answers.                                        *)
View == [Outpoint -> Block \cup {Spent}]

(* The transactions of a block.                                             *)
LEMMA Transactions ==
    ASSUME NEW b \in Block
    PROVE  /\ Len(Txs[b]) \in Nat
           /\ \A i \in 1..Len(Txs[b]) : /\ Txs[b][i].in \in SUBSET Outpoint
                                        /\ Txs[b][i].out \in SUBSET Outpoint
  <1> DEFINE T == [in : SUBSET Outpoint, out : SUBSET Outpoint]
  <1>1. Txs[b] \in Seq(T)
    BY TxsAssumption, Zenon DEF TxsAssumption
  <1>2. \A tx \in T : tx.in \in SUBSET Outpoint /\ tx.out \in SUBSET Outpoint
    OBVIOUS
  <1> HIDE DEF T
  <1>3. Len(Txs[b]) \in Nat /\ \A i \in 1..Len(Txs[b]) : Txs[b][i] \in T
    BY <1>1
  <1> QED
    BY <1>2, <1>3, Zenon

(* A transaction turns a view into a view.                                  *)
LEMMA ApplyTxType ==
    ASSUME NEW view \in View, NEW b \in Block, NEW tx PROVE ApplyTx(view, b, tx) \in View
  BY DEF ApplyTx, View

(* The recursion of Steps.                                                  *)
LEMMA StepsDef ==
    ASSUME NEW view \in View, NEW b \in Block
    PROVE  /\ Steps(view, b) \in [0..Len(Txs[b]) -> View]
           /\ Steps(view, b)[0] = view
           /\ \A i \in 1..Len(Txs[b]) :
                 Steps(view, b)[i] = ApplyTx(Steps(view, b)[i - 1], b, Txs[b][i])
  <1> DEFINE n == Len(Txs[b])
             Def(f) == [i \in 0..n |-> IF i = 0 THEN view ELSE ApplyTx(f[i - 1], b, Txs[b][i])]
             step == [i \in 1..n |-> [w \in View |-> ApplyTx(w, b, Txs[b][i])]]
             g == Steps(view, b)
  <1>1. n \in Nat
    BY Transactions, Zenon
  <1>2. step \in [1..n -> [View -> View]]
    BY ApplyTxType, Zenon
  <1>3. g = CHOOSE f : f = Def(f)
    BY Zenon DEF Steps
  <1> HIDE DEF n, g
  <1>4. \E f : f = Def(f)
    <2> HIDE DEF step
    <2>0. PICK f : Iteration(f, View, n, view, step)
      BY <1>1, <1>2, Iterate, Zenon
    <2>1. f \in [0..n -> View] /\ f[0] = view /\ \A i \in 1..n : f[i] = step[i][f[i - 1]]
      BY <2>0, Zenon DEF Iteration
    <2>2. \A i \in 1..n : i - 1 \in 0..n
      BY <1>1
    <2>3. \A i \in 1..n : f[i] = ApplyTx(f[i - 1], b, Txs[b][i])
      BY <2>1, <2>2, Zenon DEF step
    <2>4. \A i \in 0..n : i # 0 => i \in 1..n
      BY <1>1
    <2>5. \A i \in 0..n : f[i] = Def(f)[i]
      BY <2>1, <2>3, <2>4, Zenon
    <2>6. f = [i \in 0..n |-> f[i]] /\ Def(f) = [i \in 0..n |-> Def(f)[i]]
      BY <2>1, Zenon
    <2>7. f = Def(f)
      BY <2>5, <2>6, Zenon
    <2> QED
      BY <2>7, Zenon
  <1>5. g = Def(g)
    BY <1>3, <1>4, Zenon
  <1>6. 0 \in 0..n /\ \A i \in 1..n : i \in 0..n /\ i # 0
    BY <1>1
  <1>7. g[0] = view /\ \A i \in 1..n : g[i] = ApplyTx(g[i - 1], b, Txs[b][i])
    <2>1. \A i \in 0..n : g[i] = IF i = 0 THEN view ELSE ApplyTx(g[i - 1], b, Txs[b][i])
      BY <1>5, Zenon
    <2> QED
      BY <1>6, <2>1, Zenon
  <1>8. \A i \in 0..n : g[i] \in View
    <2>1. \A i \in 1..n : g[i - 1] \in View => g[i] \in View
      BY <1>7, ApplyTxType, Zenon
    <2> QED
      BY <1>1, <1>7, <2>1, StaysIn, Zenon
  <1>9. g \in [0..n -> View]
    <2>1. g = [i \in 0..n |-> g[i]]
      BY <1>5, Zenon
    <2> QED
      BY <1>8, <2>1, Zenon
  <1> QED
    BY <1>7, <1>9, Zenon DEF g, n

(* A block turns a view into a view.                                        *)
LEMMA RollforwardType ==
    ASSUME NEW view \in View, NEW b \in Block PROVE RollforwardBlock(view, b) \in View
  <1>1. Len(Txs[b]) \in 0..Len(Txs[b])
    BY Transactions
  <1> QED
    BY <1>1, StepsDef, Zenon DEF RollforwardBlock

-----------------------------------------------------------------------------
(* Induction over the tree of blocks.                                       *)
LEMMA TreeInduction ==
    ASSUME NEW P, Genesis \in P, \A b \in Block \ {Genesis} : Parent[b] \in P => b \in P
    PROVE  \A b \in Block : b \in P
  <1> DEFINE T == {b \in Block : b \notin P}
             H == {Height[b] : b \in T}
  <1> SUFFICES ASSUME T # {} PROVE FALSE
    OBVIOUS
  <1>1. H \in SUBSET Nat /\ H # {}
    <2>1. \A b \in Block : Height[b] \in Nat
      BY TreeAssumption, Zenon DEF TreeAssumption
    <2> QED
      BY <2>1
  <1>2. PICK h \in H : \A m \in H : h <= m
    BY <1>1, Least, Zenon
  <1>3. PICK b \in T : Height[b] = h
    BY <1>2
  <1>4. b \in Block \ {Genesis} /\ Parent[b] \notin P
    BY Zenon
  <1>a. Parent[b] \in Block /\ Height[b] = Height[Parent[b]] + 1
    BY <1>4, TreeAssumption, Zenon DEF TreeAssumption
  <1>5. Parent[b] \in T /\ Height[b] = Height[Parent[b]] + 1 /\ Height[Parent[b]] \in Nat
    BY <1>4, <1>a, TreeAssumption DEF TreeAssumption
  <1>6. h <= Height[Parent[b]]
    BY <1>2, <1>5
  <1> QED
    BY <1>3, <1>5, <1>6

(* A block and its parent.                                                  *)
LEMMA ParentOf ==
    ASSUME NEW b \in Block \ {Genesis}
    PROVE  /\ Parent[b] \in Block /\ Height[Parent[b]] \in Nat
           /\ Height[b] = Height[Parent[b]] + 1
           /\ Ancestors[b] = {b} \cup Ancestors[Parent[b]]
           /\ Parent[b] \in Ancestors[b] /\ Parent[b] \in Ancestors[Parent[b]]
  <1>1. Parent[b] \in Block /\ Height[Parent[b]] \in Nat /\ Height[b] = Height[Parent[b]] + 1
        /\ Ancestors[b] = {b} \cup Ancestors[Parent[b]]
    BY TreeAssumption, Zenon DEF TreeAssumption
  <1>2. Parent[b] \in Ancestors[Parent[b]]
    BY <1>1, OwnAncestor, Zenon
  <1> QED
    BY <1>1, <1>2, Zenon

(* The ancestors of a block.                                                *)
LEMMA AncestorOf ==
    ASSUME NEW b \in Block, NEW a \in Ancestors[b]
    PROVE  /\ a \in Block /\ a \in Ancestors[a] /\ Ancestors[a] \subseteq Ancestors[b]
           /\ Height[a] \in Nat /\ Height[b] \in Nat /\ Height[a] <= Height[b]
           /\ Height[a] = Height[b] => a = b
           /\ Genesis \in Ancestors[b]
  <1>1. a \in Block
    BY TreeAssumption, Zenon DEF TreeAssumption
  <1>2. Height[a] \in Nat /\ Height[b] \in Nat
    BY <1>1, TreeAssumption, Zenon DEF TreeAssumption
  <1>3. /\ Ancestors[a] \subseteq Ancestors[b] /\ Height[a] <= Height[b]
        /\ Height[a] = Height[b] => a = b
        /\ Genesis \in Ancestors[b]
    BY TreeAssumption, Zenon DEF TreeAssumption
  <1> QED
    BY <1>1, <1>2, <1>3, OwnAncestor, Zenon

(* A chain has one block at each height.                                    *)
LEMMA OneAtEachHeight ==
    ASSUME NEW b \in Block
    PROVE  /\ \A a, c \in Ancestors[b] : Height[a] = Height[c] => a = c
           /\ \A h \in 0..Height[b] : \E a \in Ancestors[b] : Height[a] = h
  <1> DEFINE P == {d \in Block :
                     /\ \A a, c \in Ancestors[d] : Height[a] = Height[c] => a = c
                     /\ \A h \in 0..Height[d] : \E a \in Ancestors[d] : Height[a] = h}
  <1>1. Genesis \in P
    <2>1. Genesis \in Block /\ Ancestors[Genesis] = {Genesis} /\ Height[Genesis] = 0
      BY TreeAssumption, Zenon DEF TreeAssumption
    <2> QED
      BY <2>1
  <1>2. ASSUME NEW d \in Block \ {Genesis}, Parent[d] \in P PROVE d \in P
    <2>1. ASSUME NEW a \in Ancestors[d], NEW c \in Ancestors[d], Height[a] = Height[c]
          PROVE  a = c
      <3>1. \A e \in Ancestors[Parent[d]] : Height[e] \in Nat /\ Height[e] < Height[d]
        BY ParentOf, AncestorOf
      <3>2. Height[d] \in Nat
        BY ParentOf
      <3>3. CASE a = d \/ c = d
        BY <2>1, <3>1, <3>2, <3>3, ParentOf
      <3>4. CASE a # d /\ c # d
        <4>1. a \in Ancestors[Parent[d]] /\ c \in Ancestors[Parent[d]]
          BY <3>4, ParentOf
        <4> QED
          BY <1>2, <2>1, <4>1, Zenon
      <3> QED
        BY <3>3, <3>4
    <2>2. ASSUME NEW h \in 0..Height[d] PROVE \E a \in Ancestors[d] : Height[a] = h
      <3>1. CASE h = Height[d]
        BY <3>1, OwnAncestor, Zenon
      <3>2. CASE h # Height[d]
        <4>1. h \in 0..Height[Parent[d]]
          BY <3>2, ParentOf
        <4>2. \E a \in Ancestors[Parent[d]] : Height[a] = h
          BY <1>2, <4>1, Zenon
        <4> QED
          BY <4>2, ParentOf, Zenon
      <3> QED
        BY <3>1, <3>2
    <2> QED
      BY <2>1, <2>2, Zenon
  <1> HIDE DEF P
  <1>3. b \in P
    BY <1>1, <1>2, TreeInduction, Zenon
  <1> QED
    BY <1>3, Zenon DEF P

(* Two branches have a last common block.                                   *)
LEMMA Fork ==
    ASSUME NEW a \in Block, NEW b \in Block
    PROVE  \E c \in Block : Ancestors[a] \cap Ancestors[b] = Ancestors[c]
  <1> DEFINE P == {d \in Block : \E c \in Block : Ancestors[d] \cap Ancestors[b] = Ancestors[c]}
  <1>1. ASSUME NEW d \in Ancestors[b] PROVE d \in P
    <2>1. d \in Block /\ Ancestors[d] \cap Ancestors[b] = Ancestors[d]
      BY AncestorOf
    <2> QED
      BY <2>1, Zenon
  <1>2. Genesis \in P
    BY <1>1, TreeAssumption, Zenon DEF TreeAssumption
  <1>3. ASSUME NEW d \in Block \ {Genesis}, Parent[d] \in P PROVE d \in P
    <2>1. CASE d \in Ancestors[b]
      BY <1>1, <2>1, Zenon
    <2>2. CASE d \notin Ancestors[b]
      <3>1. Ancestors[d] \cap Ancestors[b] = Ancestors[Parent[d]] \cap Ancestors[b]
        BY <2>2, ParentOf
      <3> QED
        BY <1>3, <3>1
    <2> QED
      BY <2>1, <2>2, Zenon
  <1> HIDE DEF P
  <1>4. a \in P
    BY <1>2, <1>3, TreeInduction, Zenon
  <1> QED
    BY <1>4, Zenon DEF P

(* The number of blocks of a branch after one of its blocks.                *)
LEMMA Branch ==
    ASSUME NEW b \in Block, NEW c \in Ancestors[b]
    PROVE  /\ IsFiniteSet(Ancestors[b] \ Ancestors[c])
           /\ Cardinality(Ancestors[b] \ Ancestors[c]) = Height[b] - Height[c]
  <1>0. c \in Block /\ c \in Ancestors[c]
    BY AncestorOf, Zenon
  <1> DEFINE P == {d \in Block : c \in Ancestors[d] =>
                      /\ IsFiniteSet(Ancestors[d] \ Ancestors[c])
                      /\ Cardinality(Ancestors[d] \ Ancestors[c]) = Height[d] - Height[c]}
  <1>1. c \in P
    <2>1. Ancestors[c] \ Ancestors[c] = {} /\ Height[c] - Height[c] = 0
      BY <1>0, AncestorOf
    <2> QED
      BY <1>0, <2>1, FS_EmptySet, Zenon
  <1>2. Genesis \in P
    <2>1. Genesis \in Block /\ Ancestors[Genesis] = {Genesis}
      BY TreeAssumption, Zenon DEF TreeAssumption
    <2> QED
      BY <1>1, <2>1, Zenon
  <1>3. ASSUME NEW d \in Block \ {Genesis}, Parent[d] \in P PROVE d \in P
    <2> SUFFICES ASSUME d # c, c \in Ancestors[d] PROVE d \in P
      BY <1>1, Zenon
    <2> DEFINE S == Ancestors[Parent[d]] \ Ancestors[c]
    <2>1. c \in Ancestors[Parent[d]]
      BY ParentOf, Zenon
    <2>2. IsFiniteSet(S) /\ Cardinality(S) = Height[Parent[d]] - Height[c]
      BY <1>3, <2>1, Zenon
    <2>3. \A e \in Ancestors[Parent[d]] : Height[e] \in Nat /\ Height[e] < Height[d]
      BY ParentOf, AncestorOf
    <2>4. d \notin Ancestors[Parent[d]] /\ Ancestors[c] \subseteq Ancestors[Parent[d]]
      BY <2>1, <2>3, ParentOf, AncestorOf
    <2>5. Ancestors[d] \ Ancestors[c] = S \cup {d} /\ d \notin S
      BY <2>4, ParentOf
    <2> HIDE DEF S
    <2>6. IsFiniteSet(S \cup {d}) /\ Cardinality(S \cup {d}) = Cardinality(S) + 1
      BY <2>2, <2>5, FS_AddElement, Zenon
    <2>7. Height[Parent[d]] - Height[c] + 1 = Height[d] - Height[c]
      BY <2>1, <2>3, ParentOf
    <2> QED
      BY <2>2, <2>5, <2>6, <2>7
  <1> HIDE DEF P
  <1>4. b \in P
    BY <1>2, <1>3, TreeInduction, Zenon
  <1> QED
    BY <1>4, Zenon DEF P

(* AtHeight finds the block of a branch at a height.                        *)
LEMMA BlockAtHeight ==
    ASSUME NEW b \in Block, NEW c \in Ancestors[b], NEW h \in (Height[c] + 1)..Height[b]
    PROVE  /\ AtHeight(Ancestors[b] \ Ancestors[c], h) \in Ancestors[b] \ {Genesis}
           /\ Height[AtHeight(Ancestors[b] \ Ancestors[c], h)] = h
  <1>1. c \in Block /\ Height[c] \in Nat /\ Height[b] \in Nat /\ Genesis \in Ancestors[c]
    BY AncestorOf
  <1>2. h \in 0..Height[b] /\ h > Height[c]
    BY <1>1
  <1>3. PICK a \in Ancestors[b] : Height[a] = h
    BY <1>2, OneAtEachHeight, Zenon
  <1>4. a \notin Ancestors[c]
    BY <1>1, <1>2, <1>3, AncestorOf
  <1>5. /\ AtHeight(Ancestors[b] \ Ancestors[c], h) \in Ancestors[b] \ Ancestors[c]
        /\ Height[AtHeight(Ancestors[b] \ Ancestors[c], h)] = h
    BY <1>3, <1>4, Zenon DEF AtHeight
  <1> QED
    BY <1>1, <1>5, Zenon

(* No height exceeds the number of blocks.                                  *)
LEMMA HeightBound ==
    ASSUME NEW b \in Block PROVE Height[b] \in 0..Cardinality(Block) /\ Cardinality(Block) \in Nat
  <1>1. Genesis \in Ancestors[b] /\ Height[Genesis] = 0 /\ Height[b] \in Nat
        /\ Ancestors[b] \subseteq Block /\ IsFiniteSet(Block)
    BY TreeAssumption, Zenon DEF TreeAssumption
  <1>2. Cardinality(Ancestors[b] \ Ancestors[Genesis]) = Height[b] - 0
    BY <1>1, Branch, Zenon
  <1>3. Cardinality(Ancestors[b] \ Ancestors[Genesis]) <= Cardinality(Block)
    BY <1>1, FS_Subset
  <1>4. Cardinality(Block) \in Nat
    BY <1>1, FS_CardinalityType, Zenon
  <1> QED
    BY <1>1, <1>2, <1>3, <1>4

(* No coins at all.                                                         *)
LEMMA NoCoinsType == NoCoins \in View
  BY DEF NoCoins, View

(* There is a solution to the recursion of CoinsOf: the blocks of height 1, *)
(* 2, ... are given their coins one height after another.                   *)
LEMMA CoinsExist ==
    \E g : g = [b \in Block |-> IF b = Genesis THEN NoCoins ELSE RollforwardBlock(g[Parent[b]], b)]
  <1> DEFINE H == Cardinality(Block)
             S == [Block -> View]
             Grow(g, i) == [b \in Block |-> IF Height[b] = i THEN RollforwardBlock(g[Parent[b]], b)
                                                             ELSE g[b]]
             step == [i \in 1..H |-> [g \in S |-> Grow(g, i)]]
             v == [b \in Block |-> NoCoins]
  <1>0. Genesis \in Block /\ Height[Genesis] = 0
    BY TreeAssumption, Zenon DEF TreeAssumption
  <1>1. H \in Nat /\ \A b \in Block : Height[b] \in 0..H
    <2>1. \A b \in Block : Height[b] \in 0..Cardinality(Block) /\ Cardinality(Block) \in Nat
      BY HeightBound, Zenon
    <2> QED
      BY <1>0, <2>1, Zenon
  <1>2. v \in S
    BY NoCoinsType, Zenon
  <1> HIDE DEF H
  <1>3. \A i \in 1..H : \A b \in Block : Height[b] = i => b \in Block \ {Genesis}
    BY <1>0, <1>1
  <1>4. step \in [1..H -> [S -> S]]
    <2>1. ASSUME NEW i \in 1..H, NEW g \in S PROVE Grow(g, i) \in S
      <3>1. ASSUME NEW b \in Block
            PROVE  (IF Height[b] = i THEN RollforwardBlock(g[Parent[b]], b) ELSE g[b]) \in View
        <4>1. CASE Height[b] = i
          BY <1>3, <4>1, ParentOf, RollforwardType, Zenon
        <4>2. CASE Height[b] # i
          BY <4>2, Zenon
        <4> QED
          BY <4>1, <4>2, Zenon
      <3> QED
        BY <3>1, Zenon
    <2> HIDE DEF Grow, S
    <2> QED
      BY <2>1, Zenon
  <1>5. PICK f : Iteration(f, S, H, v, step)
    <2> HIDE DEF S, step, v
    <2> QED
      BY <1>1, <1>2, <1>4, Iterate, Zenon
  <1>6. f \in [0..H -> S] /\ f[0] = v /\ \A i \in 1..H : f[i] = step[i][f[i - 1]]
    BY <1>5, Zenon DEF Iteration
  <1>7. \A i \in 1..H : i - 1 \in 0..H
    BY <1>1
  <1>8. \A i \in 1..H : f[i] = Grow(f[i - 1], i)
    <2> HIDE DEF S, Grow
    <2> QED
      BY <1>6, <1>7, Zenon
  <1>9. \A i \in 1..H : \A b \in Block :
           f[i][b] = IF Height[b] = i THEN RollforwardBlock(f[i - 1][Parent[b]], b) ELSE f[i - 1][b]
    <2> TAKE i \in 1..H
    <2>1. f[i] = Grow(f[i - 1], i)
      BY <1>8, Zenon
    <2>2. \A b \in Block : Grow(f[i - 1], i)[b]
                 = IF Height[b] = i THEN RollforwardBlock(f[i - 1][Parent[b]], b) ELSE f[i - 1][b]
      BY Zenon
    <2> HIDE DEF Grow
    <2> QED
      BY <2>1, <2>2, Zenon
  <1> HIDE DEF S, Grow, step
  <1>10. \A j \in 0..H : \A b \in Block : Height[b] <= j => f[j][b] = f[Height[b]][b]
    <2> DEFINE P == {j \in 0..H : \A b \in Block : Height[b] <= j => f[j][b] = f[Height[b]][b]}
    <2>1. 0 \in P
      <3>1. \A b \in Block : Height[b] <= 0 => Height[b] = 0
        BY <1>1
      <3>2. 0 \in 0..H
        BY <1>1
      <3> QED
        BY <3>1, <3>2, Zenon
    <2>2. ASSUME NEW j \in 1..H, j - 1 \in P PROVE j \in P
      <3>1. ASSUME NEW b \in Block, Height[b] <= j PROVE f[j][b] = f[Height[b]][b]
        <4>1. CASE Height[b] = j
          BY <4>1, Zenon
        <4>2. CASE Height[b] # j
          <5>1. Height[b] <= j - 1
            BY <1>1, <3>1, <4>2
          <5>2. f[j - 1][b] = f[Height[b]][b]
            BY <2>2, <5>1, Zenon
          <5> QED
            BY <1>9, <4>2, <5>2, Zenon
        <4> QED
          BY <4>1, <4>2, Zenon
      <3>2. j \in 0..H
        BY <1>1
      <3>3. \A b \in Block : Height[b] <= j => f[j][b] = f[Height[b]][b]
        BY <3>1, Zenon
      <3> QED
        BY <3>2, <3>3, Zenon
    <2> HIDE DEF P
    <2>3. \A j \in 0..H : j \in P
      BY <1>1, <2>1, <2>2, UpTo, Zenon
    <2> QED
      BY <2>3, Zenon DEF P
  <1> DEFINE g == f[H]
             Def == [b \in Block |-> IF b = Genesis THEN NoCoins
                                     ELSE RollforwardBlock(g[Parent[b]], b)]
  <1>11. \A b \in Block : g[b] = f[Height[b]][b]
    <2>1. H \in 0..H /\ \A b \in Block : Height[b] <= H
      BY <1>1
    <2> QED
      BY <1>10, <2>1, Zenon
  <1>12. g \in [Block -> View]
    <2>1. H \in 0..H
      BY <1>1
    <2> QED
      BY <1>6, <2>1, Zenon DEF S
  <1> HIDE DEF g
  <1>13. ASSUME NEW b \in Block PROVE g[b] = Def[b]
    <2>1. CASE b = Genesis
      BY <1>0, <1>6, <1>11, <2>1, Zenon
    <2>2. CASE b # Genesis
      <3>1. Parent[b] \in Block /\ Height[b] \in 1..H /\ Height[Parent[b]] = Height[b] - 1
        BY <1>1, <2>2, ParentOf
      <3>2. f[Height[b]][b] = RollforwardBlock(f[Height[b] - 1][Parent[b]], b)
        BY <1>9, <3>1, Zenon
      <3>3. g[Parent[b]] = f[Height[b] - 1][Parent[b]]
        <4>1. g[Parent[b]] = f[Height[Parent[b]]][Parent[b]]
          BY <1>11, <3>1, Zenon
        <4> QED
          BY <3>1, <4>1, Zenon
      <3> QED
        BY <1>11, <2>2, <3>2, <3>3, Zenon
    <2> QED
      BY <2>1, <2>2, Zenon
  <1>14. g = [b \in Block |-> g[b]] /\ Def = [b \in Block |-> Def[b]]
    BY <1>12, Zenon
  <1>15. g = Def
    BY <1>13, <1>14
  <1> QED
    BY <1>15, Zenon

(* The coins of a chain are those of its parent, changed by its last block. *)
LEMMA CoinsOfDef ==
    /\ CoinsOf \in [Block -> View]
    /\ CoinsOf[Genesis] = NoCoins
    /\ \A b \in Block \ {Genesis} : CoinsOf[b] = RollforwardBlock(CoinsOf[Parent[b]], b)
  <1> DEFINE Def(g) == [b \in Block |-> IF b = Genesis THEN NoCoins
                                        ELSE RollforwardBlock(g[Parent[b]], b)]
  <1>1. CoinsOf = CHOOSE g : g = Def(g)
    BY Zenon DEF CoinsOf
  <1>2. \E g : g = Def(g)
    BY CoinsExist, Zenon
  <1>3. CoinsOf = Def(CoinsOf)
    BY <1>1, <1>2, Zenon
  <1>4. Genesis \in Block
    BY TreeAssumption, Zenon DEF TreeAssumption
  <1>5. CoinsOf[Genesis] = NoCoins
    BY <1>3, <1>4, Zenon
  <1>6. \A b \in Block \ {Genesis} : CoinsOf[b] = RollforwardBlock(CoinsOf[Parent[b]], b)
    BY <1>3, Zenon
  <1> DEFINE P == {b \in Block : CoinsOf[b] \in View}
  <1>7. Genesis \in P
    BY <1>4, <1>5, NoCoinsType, Zenon
  <1>8. \A b \in Block \ {Genesis} : Parent[b] \in P => b \in P
    BY <1>6, RollforwardType, Zenon
  <1> HIDE DEF P
  <1>9. \A b \in Block : b \in P
    BY <1>7, <1>8, TreeInduction, Zenon
  <1>10. CoinsOf = [b \in Block |-> CoinsOf[b]]
    BY <1>3, Zenon
  <1>11. CoinsOf \in [Block -> View]
    BY <1>9, <1>10, Zenon DEF P
  <1> QED
    BY <1>5, <1>6, <1>11, Zenon

-----------------------------------------------------------------------------
(* A view that an interrupted flush may leave: some outpoints are as in a,  *)
(* the others as in c.                                                      *)
Mixed(view, a, c) == view \in View /\ \A o \in Outpoint : view[o] = a[o] \/ view[o] = c[o]

(* A mixture of a view with itself is that view.                            *)
LEMMA MixedWithItself ==
    ASSUME NEW a \in View, NEW view, Mixed(view, a, a) PROVE view = a
  BY DEF Mixed, View

(* The coins before and after each transaction of a block on its branch.    *)
LEMMA CoinsAlong ==
    ASSUME NEW b \in Block \ {Genesis}
    PROVE  /\ CoinsOf[Parent[b]] \in View /\ CoinsOf[b] \in View
           /\ UndoCoins(b) \in [0..Len(Txs[b]) -> View]
           /\ UndoCoins(b)[0] = CoinsOf[Parent[b]]
           /\ UndoCoins(b)[Len(Txs[b])] = CoinsOf[b]
           /\ \A i \in 1..Len(Txs[b]) :
                 UndoCoins(b)[i] = ApplyTx(UndoCoins(b)[i - 1], b, Txs[b][i])
  <1>1. Parent[b] \in Block
    BY ParentOf, Zenon
  <1>2. CoinsOf[Parent[b]] \in View /\ CoinsOf[b] \in View
    BY <1>1, CoinsOfDef, Zenon
  <1>3. CoinsOf[b] = RollforwardBlock(CoinsOf[Parent[b]], b)
    BY CoinsOfDef, Zenon
  <1> QED
    BY <1>2, <1>3, StepsDef, Zenon DEF UndoCoins, RollforwardBlock

(* RollforwardBlock repairs a mixed view by one block, whatever the         *)
(* interrupted flush had already written of it.                             *)
LEMMA ForwardMixed ==
    ASSUME NEW b \in Block \ {Genesis}, NEW N, NEW view, Mixed(view, CoinsOf[Parent[b]], N)
    PROVE  Mixed(RollforwardBlock(view, b), CoinsOf[b], N)
  <1> DEFINE n == Len(Txs[b])
             A == UndoCoins(b)
             B == Steps(view, b)
             P == {i \in 0..n : \A o \in Outpoint : B[i][o] = A[i][o] \/ B[i][o] = N[o]}
  <1>1. n \in Nat
    BY Transactions, Zenon
  <1>2. view \in View
    BY Zenon DEF Mixed
  <1>3. /\ A \in [0..n -> View] /\ A[0] = CoinsOf[Parent[b]] /\ A[n] = CoinsOf[b]
        /\ \A i \in 1..n : A[i] = ApplyTx(A[i - 1], b, Txs[b][i])
    BY CoinsAlong, Zenon
  <1>4. /\ B \in [0..n -> View] /\ B[0] = view
        /\ \A i \in 1..n : B[i] = ApplyTx(B[i - 1], b, Txs[b][i])
    BY <1>2, StepsDef, Zenon
  <1>5. RollforwardBlock(view, b) = B[n]
    BY Zenon DEF RollforwardBlock
  <1> HIDE DEF A, B, n
  <1>6. 0 \in P
    <2>1. 0 \in 0..n
      BY <1>1
    <2> QED
      BY <1>3, <1>4, <2>1, Zenon DEF Mixed
  <1>7. ASSUME NEW i \in 1..n, i - 1 \in P PROVE i \in P
    <2>1. i \in 0..n
      BY <1>1
    <2>2. A[i] = ApplyTx(A[i - 1], b, Txs[b][i]) /\ B[i] = ApplyTx(B[i - 1], b, Txs[b][i])
      BY <1>3, <1>4, Zenon
    <2>3. \A o \in Outpoint : B[i][o] = A[i][o] \/ B[i][o] = N[o]
      <3> TAKE o \in Outpoint
      <3>1. B[i - 1][o] = A[i - 1][o] \/ B[i - 1][o] = N[o]
        BY <1>7, Zenon
      <3>2. \A w : ApplyTx(w, b, Txs[b][i])[o] =
                     IF o \in Txs[b][i].out THEN b ELSE IF o \in Txs[b][i].in THEN Spent ELSE w[o]
        BY Zenon DEF ApplyTx
      <3> QED
        BY <2>2, <3>1, <3>2, Zenon
    <2> QED
      BY <2>1, <2>3, Zenon
  <1> HIDE DEF P
  <1>8. n \in 0..n
    BY <1>1
  <1>9. n \in P
    BY <1>1, <1>6, <1>7, <1>8, UpTo, Zenon
  <1> QED
    <2>1. \A o \in Outpoint : B[n][o] = A[n][o] \/ B[n][o] = N[o]
      BY <1>9, Zenon DEF P
    <2>2. B[n] \in View
      BY <1>4, <1>8, Zenon
    <2> QED
      BY <1>3, <1>5, <2>1, <2>2 DEF Mixed

(* Undoing a transaction turns a view into a view.                          *)
LEMMA UndoTxType ==
    ASSUME NEW view \in View, NEW spent \in View, NEW tx PROVE UndoTx(view, tx, spent) \in View
  BY DEF UndoTx, View

(* The recursion of DisconnectBlock.                                        *)
LEMMA DisconnectDef ==
    ASSUME NEW view \in View, NEW b \in Block \ {Genesis}
    PROVE  \E g \in [0..Len(Txs[b]) -> View] :
              /\ g[0] = view
              /\ \A i \in 1..Len(Txs[b]) :
                    g[i] = UndoTx(g[i - 1], Txs[b][Len(Txs[b]) + 1 - i],
                                  UndoCoins(b)[Len(Txs[b]) - i])
              /\ DisconnectBlock(view, b) = g[Len(Txs[b])]
  <1> DEFINE n == Len(Txs[b])
             A == UndoCoins(b)
             Def(f) == [i \in 0..n |-> IF i = 0 THEN view
                                       ELSE UndoTx(f[i - 1], Txs[b][n + 1 - i], A[n - i])]
             step == [i \in 1..n |-> [w \in View |-> UndoTx(w, Txs[b][n + 1 - i], A[n - i])]]
             g == CHOOSE f : f = Def(f)
  <1>1. n \in Nat
    BY Transactions, Zenon
  <1>2. \A i \in 1..n : A[n - i] \in View
    <2>1. \A i \in 1..n : n - i \in 0..n
      BY <1>1
    <2> QED
      BY <2>1, CoinsAlong, Zenon
  <1>3. DisconnectBlock(view, b) = g[n]
    BY Zenon DEF DisconnectBlock
  <1> HIDE DEF n, g, A
  <1>4. step \in [1..n -> [View -> View]]
    BY <1>2, UndoTxType, Zenon
  <1>5. \E f : f = Def(f)
    <2> HIDE DEF step
    <2>0. PICK f : Iteration(f, View, n, view, step)
      BY <1>1, <1>4, Iterate, Zenon
    <2>1. f \in [0..n -> View] /\ f[0] = view /\ \A i \in 1..n : f[i] = step[i][f[i - 1]]
      BY <2>0, Zenon DEF Iteration
    <2>2. \A i \in 1..n : i - 1 \in 0..n
      BY <1>1
    <2>3. \A i \in 1..n : f[i] = UndoTx(f[i - 1], Txs[b][n + 1 - i], A[n - i])
      BY <2>1, <2>2, Zenon DEF step
    <2>4. \A i \in 0..n : i # 0 => i \in 1..n
      BY <1>1
    <2>5. \A i \in 0..n : f[i] = Def(f)[i]
      BY <2>1, <2>3, <2>4, Zenon
    <2>6. f = [i \in 0..n |-> f[i]] /\ Def(f) = [i \in 0..n |-> Def(f)[i]]
      BY <2>1, Zenon
    <2>7. f = Def(f)
      BY <2>5, <2>6, Zenon
    <2> QED
      BY <2>7, Zenon
  <1>6. g = Def(g)
    BY <1>5, Zenon DEF g
  <1>7. 0 \in 0..n /\ \A i \in 1..n : i \in 0..n /\ i # 0
    BY <1>1
  <1>8. g[0] = view /\ \A i \in 1..n : g[i] = UndoTx(g[i - 1], Txs[b][n + 1 - i], A[n - i])
    <2>1. \A i \in 0..n : g[i] = IF i = 0 THEN view
                                 ELSE UndoTx(g[i - 1], Txs[b][n + 1 - i], A[n - i])
      BY <1>6, Zenon
    <2> QED
      BY <1>7, <2>1, Zenon
  <1>9. \A i \in 0..n : g[i] \in View
    <2>1. ASSUME NEW i \in 1..n, g[i - 1] \in View PROVE g[i] \in View
      <3>1. g[i] = UndoTx(g[i - 1], Txs[b][n + 1 - i], A[n - i]) /\ A[n - i] \in View
        BY <1>2, <1>8, Zenon
      <3>2. UndoTx(g[i - 1], Txs[b][n + 1 - i], A[n - i]) \in View
        BY <2>1, <3>1, UndoTxType, Zenon
      <3> QED
        BY <3>1, <3>2, Zenon
    <2> QED
      BY <1>1, <1>8, <2>1, StaysIn, Zenon
  <1>10. g \in [0..n -> View]
    <2>1. g = [i \in 0..n |-> g[i]]
      BY <1>6, Zenon
    <2> QED
      BY <1>9, <2>1, Zenon
  <1> QED
    BY <1>3, <1>8, <1>10, Zenon DEF n, A

(* DisconnectBlock takes a mixed view back by one block: an outpoint that   *)
(* the block touches gets its coin from the undo data, or is spent, which   *)
(* is what it was before.                                                   *)
LEMMA BackMixed ==
    ASSUME NEW b \in Block \ {Genesis}, NEW N, NEW view, Mixed(view, CoinsOf[b], N)
    PROVE  Mixed(DisconnectBlock(view, b), CoinsOf[Parent[b]], N)
  <1> DEFINE n == Len(Txs[b])
             A == UndoCoins(b)
  <1>1. n \in Nat /\ b \in Block
    BY Transactions, Zenon
  <1>2. view \in View
    BY Zenon DEF Mixed
  <1>3. /\ A \in [0..n -> View] /\ A[0] = CoinsOf[Parent[b]] /\ A[n] = CoinsOf[b]
        /\ \A i \in 1..n : A[i] = ApplyTx(A[i - 1], b, Txs[b][i])
    BY CoinsAlong, Zenon
  <1>4. \A i \in 1..n : \A o \in Txs[b][i].out \ Txs[b][i].in : A[i - 1][o] = Spent
    BY NoOverwrite, Zenon DEF NoOverwrite
  <1>5. PICK B \in [0..n -> View] :
               /\ B[0] = view
               /\ \A i \in 1..n : B[i] = UndoTx(B[i - 1], Txs[b][n + 1 - i], A[n - i])
               /\ DisconnectBlock(view, b) = B[n]
    BY <1>2, DisconnectDef, Zenon
  <1> HIDE DEF A, n
  <1> DEFINE P == {i \in 0..n : \A o \in Outpoint : B[i][o] = A[n - i][o] \/ B[i][o] = N[o]}
  <1>6. 0 \in P
    <2>1. 0 \in 0..n /\ n - 0 = n
      BY <1>1
    <2> QED
      BY <1>3, <1>5, <2>1, Zenon DEF Mixed
  <1>7. ASSUME NEW i \in 1..n, i - 1 \in P PROVE i \in P
    <2> DEFINE k == n + 1 - i
    <2>1. i \in 0..n /\ k \in 1..n /\ n - i = k - 1 /\ n - (i - 1) = k
      BY <1>1
    <2> HIDE DEF k
    <2>2. A[k] = ApplyTx(A[k - 1], b, Txs[b][k]) /\ B[i] = UndoTx(B[i - 1], Txs[b][k], A[k - 1])
      BY <1>3, <1>5, <2>1, Zenon DEF k
    <2>3. \A o \in Outpoint : B[i][o] = A[n - i][o] \/ B[i][o] = N[o]
      <3> TAKE o \in Outpoint
      <3>1. B[i - 1][o] = A[k][o] \/ B[i - 1][o] = N[o]
        BY <1>7, <2>1
      <3>2. A[k][o] = IF o \in Txs[b][k].out THEN b
                      ELSE IF o \in Txs[b][k].in THEN Spent ELSE A[k - 1][o]
        BY <2>2, Zenon DEF ApplyTx
      <3>3. B[i][o] = IF o \in Txs[b][k].in THEN A[k - 1][o]
                      ELSE IF o \in Txs[b][k].out THEN Spent ELSE B[i - 1][o]
        BY <2>2, Zenon DEF UndoTx
      <3>4. o \in Txs[b][k].out /\ o \notin Txs[b][k].in => A[k - 1][o] = Spent
        BY <1>4, <2>1, Zenon
      <3>5. B[i][o] = A[k - 1][o] \/ B[i][o] = N[o]
        BY <3>1, <3>2, <3>3, <3>4, Zenon
      <3> QED
        BY <2>1, <3>5, Zenon
    <2> QED
      BY <2>1, <2>3, Zenon
  <1> HIDE DEF P
  <1>8. n \in 0..n /\ n - n = 0
    BY <1>1
  <1>9. n \in P
    BY <1>1, <1>6, <1>7, <1>8, UpTo, Zenon
  <1> QED
    <2>1. \A o \in Outpoint : B[n][o] = A[0][o] \/ B[n][o] = N[o]
      BY <1>8, <1>9, Zenon DEF P
    <2>2. B[n] \in View
      BY <1>5, <1>8, Zenon
    <2> QED
      BY <1>3, <1>5, <2>1, <2>2 DEF Mixed

(* DisconnectBlock undoes what ConnectBlock did.                            *)
LEMMA DisconnectUndoes ==
    ASSUME NEW b \in Block \ {Genesis}
    PROVE  DisconnectBlock(CoinsOf[b], b) = CoinsOf[Parent[b]]
  <1>1. CoinsOf[Parent[b]] \in View /\ CoinsOf[b] \in View
    BY CoinsAlong, Zenon
  <1>2. Mixed(CoinsOf[b], CoinsOf[b], CoinsOf[Parent[b]])
    BY <1>1, Zenon DEF Mixed
  <1>3. Mixed(DisconnectBlock(CoinsOf[b], b), CoinsOf[Parent[b]], CoinsOf[Parent[b]])
    BY <1>2, BackMixed, Zenon
  <1> QED
    BY <1>1, <1>3, MixedWithItself, Zenon

(* DisconnectBlock turns a view into a view.                                *)
LEMMA DisconnectType ==
    ASSUME NEW view \in View, NEW b \in Block \ {Genesis} PROVE DisconnectBlock(view, b) \in View
  <1>1. Len(Txs[b]) \in 0..Len(Txs[b])
    BY Transactions
  <1>2. PICK g \in [0..Len(Txs[b]) -> View] : DisconnectBlock(view, b) = g[Len(Txs[b])]
    BY DisconnectDef
  <1> QED
    BY <1>1, <1>2, Zenon

(* The blocks of the old branch are undone, down to the fork c.            *)
LEMMA RolledBackMixed ==
    ASSUME NEW old, NEW new, NEW c, old \in Block, c \in Ancestors[old],
           Rollback(old, new) = Ancestors[old] \ Ancestors[c],
           NEW N, NEW view, Mixed(view, CoinsOf[old], N)
    PROVE  Mixed(RolledBack(view, old, new), CoinsOf[c], N)
  <1> DEFINE blocks == Rollback(old, new)
             n == Cardinality(blocks)
             h(i) == Height[old] + 1 - i
             x(i) == AtHeight(blocks, h(i))
             Def(f) == [i \in 0..n |-> IF i = 0 THEN view ELSE DisconnectBlock(f[i - 1], x(i))]
             step == [i \in 1..n |-> [w \in View |-> DisconnectBlock(w, x(i))]]
             g == CHOOSE f : f = Def(f)
  <1>0. view \in View /\ c \in Block
    BY AncestorOf, Zenon DEF Mixed
  <1>1. RolledBack(view, old, new) = g[n]
    BY Zenon DEF RolledBack
  <1>2. /\ n \in Nat /\ n = Height[old] - Height[c]
        /\ Height[old] \in Nat /\ Height[c] \in Nat
    <2>1. Height[old] \in Nat /\ Height[c] \in Nat /\ Height[c] <= Height[old]
      BY AncestorOf, Zenon
    <2>2. n = Height[old] - Height[c]
      BY Branch, Zenon
    <2> QED
      BY <2>1, <2>2
  <1> HIDE DEF n, g
  <1>3. ASSUME NEW i \in 1..n
        PROVE  /\ x(i) \in Ancestors[old] /\ x(i) \in Block \ {Genesis}
               /\ Height[x(i)] = Height[old] + 1 - i
    <2> DEFINE y == AtHeight(Ancestors[old] \ Ancestors[c], h(i))
    <2>1. h(i) \in (Height[c] + 1)..Height[old]
      BY <1>2
    <2> HIDE DEF h
    <2>2. x(i) = y
      BY Zenon
    <2>3. y \in Ancestors[old] \ {Genesis} /\ Height[y] = h(i)
      BY <2>1, BlockAtHeight
    <2> HIDE DEF x, y
    <2>4. x(i) \in Ancestors[old] /\ x(i) \in Block \ {Genesis} /\ Height[x(i)] = h(i)
      BY <2>2, <2>3, AncestorOf, Zenon
    <2> QED
      BY <2>4, Zenon DEF h
  <1> HIDE DEF x, blocks
  <1>4. step \in [1..n -> [View -> View]]
    BY <1>3, DisconnectType, Zenon
  <1>5. \E f : f = Def(f)
    <2> HIDE DEF step
    <2>0. PICK f : Iteration(f, View, n, view, step)
      BY <1>0, <1>2, <1>4, Iterate, Zenon
    <2>1. f \in [0..n -> View] /\ f[0] = view /\ \A i \in 1..n : f[i] = step[i][f[i - 1]]
      BY <2>0, Zenon DEF Iteration
    <2>2. \A i \in 1..n : i - 1 \in 0..n
      BY <1>2
    <2>3. \A i \in 1..n : f[i] = DisconnectBlock(f[i - 1], x(i))
      BY <2>1, <2>2, Zenon DEF step
    <2>4. \A i \in 0..n : i # 0 => i \in 1..n
      BY <1>2
    <2>5. \A i \in 0..n : f[i] = Def(f)[i]
      BY <2>1, <2>3, <2>4, Zenon
    <2>6. f = [i \in 0..n |-> f[i]] /\ Def(f) = [i \in 0..n |-> Def(f)[i]]
      BY <2>1, Zenon
    <2>7. f = Def(f)
      BY <2>5, <2>6, Zenon
    <2> QED
      BY <2>7, Zenon
  <1>6. g = Def(g)
    BY <1>5, Zenon DEF g
  <1>7. 0 \in 0..n /\ n \in 0..n /\ \A i \in 1..n : i \in 0..n /\ i # 0
    BY <1>2
  <1>8. g[0] = view /\ \A i \in 1..n : g[i] = DisconnectBlock(g[i - 1], x(i))
    <2>1. \A i \in 0..n : g[i] = IF i = 0 THEN view ELSE DisconnectBlock(g[i - 1], x(i))
      BY <1>6, Zenon
    <2> QED
      BY <1>7, <2>1, Zenon
  <1> DEFINE P == {i \in 0..n : \A y \in Ancestors[old] :
                      Height[y] = Height[old] - i => Mixed(g[i], CoinsOf[y], N)}
  <1>9. 0 \in P
    <2>1. ASSUME NEW y \in Ancestors[old], Height[y] = Height[old] - 0 PROVE y = old
      <3>1. Height[y] = Height[old]
        BY <1>2, <2>1
      <3> QED
        BY <3>1, AncestorOf, Zenon
    <2> QED
      BY <1>7, <1>8, <2>1, Zenon
  <1>10. ASSUME NEW i \in 1..n, i - 1 \in P PROVE i \in P
    <2>1. /\ Parent[x(i)] \in Ancestors[old] /\ x(i) \in Ancestors[old]
          /\ Height[Parent[x(i)]] = Height[x(i)] - 1 /\ Height[x(i)] = Height[old] + 1 - i
      <3>1. /\ x(i) \in Ancestors[old] /\ x(i) \in Block \ {Genesis}
            /\ Height[x(i)] = Height[old] + 1 - i
        BY <1>3, Zenon
      <3>2. Parent[x(i)] \in Ancestors[x(i)] /\ Ancestors[x(i)] \subseteq Ancestors[old]
        BY <3>1, ParentOf, AncestorOf, Zenon
      <3>3. Height[Parent[x(i)]] = Height[x(i)] - 1
        BY <3>1, ParentOf
      <3> QED
        BY <3>1, <3>2, <3>3, Zenon
    <2>2. ASSUME NEW y \in Ancestors[old], Height[y] = Height[old] - i
          PROVE  Mixed(g[i], CoinsOf[y], N)
      <3>1. Height[Parent[x(i)]] = Height[y] /\ Height[x(i)] = Height[old] - (i - 1)
        BY <1>2, <2>1, <2>2
      <3>2. y = Parent[x(i)]
        BY <2>1, <3>1, OneAtEachHeight, Zenon
      <3>3. Mixed(g[i - 1], CoinsOf[x(i)], N)
        BY <1>10, <2>1, <3>1, Zenon
      <3>4. Mixed(DisconnectBlock(g[i - 1], x(i)), CoinsOf[Parent[x(i)]], N)
        BY <1>3, <3>3, BackMixed, Zenon
      <3> QED
        BY <1>8, <3>2, <3>4, Zenon
    <2>3. \A y \in Ancestors[old] : Height[y] = Height[old] - i => Mixed(g[i], CoinsOf[y], N)
      BY <2>2, Zenon
    <2> QED
      BY <1>7, <2>3, Zenon
  <1> HIDE DEF P
  <1>11. n \in P
    BY <1>2, <1>7, <1>9, <1>10, UpTo, Zenon
  <1> QED
    <2>1. Height[c] = Height[old] - n
      BY <1>2
    <2> QED
      BY <1>1, <1>11, <2>1, Zenon DEF P

(* The blocks of the new branch are applied, from the fork c on.            *)
LEMMA RolledForwardMixed ==
    ASSUME NEW old, NEW new, NEW c, new \in Block, c \in Ancestors[new],
           Rollforward(old, new) = Ancestors[new] \ Ancestors[c],
           NEW N, NEW view, Mixed(view, CoinsOf[c], N)
    PROVE  Mixed(RolledForward(view, old, new), CoinsOf[new], N)
  <1> DEFINE blocks == Rollforward(old, new)
             n == Cardinality(blocks)
             h(i) == Height[new] - n + i
             x(i) == AtHeight(blocks, h(i))
             Def(f) == [i \in 0..n |-> IF i = 0 THEN view ELSE RollforwardBlock(f[i - 1], x(i))]
             step == [i \in 1..n |-> [w \in View |-> RollforwardBlock(w, x(i))]]
             g == CHOOSE f : f = Def(f)
  <1>0. view \in View /\ c \in Block
    BY AncestorOf, Zenon DEF Mixed
  <1>1. RolledForward(view, old, new) = g[n]
    BY Zenon DEF RolledForward
  <1>2. /\ n \in Nat /\ n = Height[new] - Height[c]
        /\ Height[new] \in Nat /\ Height[c] \in Nat
    <2>1. Height[new] \in Nat /\ Height[c] \in Nat /\ Height[c] <= Height[new]
      BY AncestorOf, Zenon
    <2>2. n = Height[new] - Height[c]
      BY Branch, Zenon
    <2> QED
      BY <2>1, <2>2
  <1> HIDE DEF n, g
  <1>3. ASSUME NEW i \in 1..n
        PROVE  /\ x(i) \in Ancestors[new] /\ x(i) \in Block \ {Genesis}
               /\ Height[x(i)] = Height[new] - n + i
    <2> DEFINE y == AtHeight(Ancestors[new] \ Ancestors[c], h(i))
    <2>1. h(i) \in (Height[c] + 1)..Height[new]
      BY <1>2
    <2> HIDE DEF h
    <2>2. x(i) = y
      BY Zenon
    <2>3. y \in Ancestors[new] \ {Genesis} /\ Height[y] = h(i)
      BY <2>1, BlockAtHeight
    <2> HIDE DEF x, y
    <2>4. x(i) \in Ancestors[new] /\ x(i) \in Block \ {Genesis} /\ Height[x(i)] = h(i)
      BY <2>2, <2>3, AncestorOf, Zenon
    <2> QED
      BY <2>4, Zenon DEF h
  <1> HIDE DEF x, blocks
  <1>4. step \in [1..n -> [View -> View]]
    BY <1>3, RollforwardType, Zenon
  <1>5. \E f : f = Def(f)
    <2> HIDE DEF step
    <2>0. PICK f : Iteration(f, View, n, view, step)
      BY <1>0, <1>2, <1>4, Iterate, Zenon
    <2>1. f \in [0..n -> View] /\ f[0] = view /\ \A i \in 1..n : f[i] = step[i][f[i - 1]]
      BY <2>0, Zenon DEF Iteration
    <2>2. \A i \in 1..n : i - 1 \in 0..n
      BY <1>2
    <2>3. \A i \in 1..n : f[i] = RollforwardBlock(f[i - 1], x(i))
      BY <2>1, <2>2, Zenon DEF step
    <2>4. \A i \in 0..n : i # 0 => i \in 1..n
      BY <1>2
    <2>5. \A i \in 0..n : f[i] = Def(f)[i]
      BY <2>1, <2>3, <2>4, Zenon
    <2>6. f = [i \in 0..n |-> f[i]] /\ Def(f) = [i \in 0..n |-> Def(f)[i]]
      BY <2>1, Zenon
    <2>7. f = Def(f)
      BY <2>5, <2>6, Zenon
    <2> QED
      BY <2>7, Zenon
  <1>6. g = Def(g)
    BY <1>5, Zenon DEF g
  <1>7. 0 \in 0..n /\ n \in 0..n /\ \A i \in 1..n : i \in 0..n /\ i # 0
    BY <1>2
  <1>8. g[0] = view /\ \A i \in 1..n : g[i] = RollforwardBlock(g[i - 1], x(i))
    <2>1. \A i \in 0..n : g[i] = IF i = 0 THEN view ELSE RollforwardBlock(g[i - 1], x(i))
      BY <1>6, Zenon
    <2> QED
      BY <1>7, <2>1, Zenon
  <1> DEFINE P == {i \in 0..n : \A y \in Ancestors[new] :
                      Height[y] = Height[new] - n + i => Mixed(g[i], CoinsOf[y], N)}
  <1>9. 0 \in P
    <2>1. ASSUME NEW y \in Ancestors[new], Height[y] = Height[new] - n + 0 PROVE y = c
      <3>1. Height[y] = Height[c]
        BY <1>2, <2>1
      <3> QED
        BY <3>1, OneAtEachHeight, Zenon
    <2> QED
      BY <1>7, <1>8, <2>1, Zenon
  <1>10. ASSUME NEW i \in 1..n, i - 1 \in P PROVE i \in P
    <2>1. /\ Parent[x(i)] \in Ancestors[new] /\ x(i) \in Ancestors[new]
          /\ Height[Parent[x(i)]] = Height[x(i)] - 1 /\ Height[x(i)] = Height[new] - n + i
      <3>1. /\ x(i) \in Ancestors[new] /\ x(i) \in Block \ {Genesis}
            /\ Height[x(i)] = Height[new] - n + i
        BY <1>3, Zenon
      <3>2. Parent[x(i)] \in Ancestors[x(i)] /\ Ancestors[x(i)] \subseteq Ancestors[new]
        BY <3>1, ParentOf, AncestorOf, Zenon
      <3>3. Height[Parent[x(i)]] = Height[x(i)] - 1
        BY <3>1, ParentOf
      <3> QED
        BY <3>1, <3>2, <3>3, Zenon
    <2>2. ASSUME NEW y \in Ancestors[new], Height[y] = Height[new] - n + i
          PROVE  Mixed(g[i], CoinsOf[y], N)
      <3>0. Height[x(i)] = Height[y]
        BY <2>1, <2>2, Zenon
      <3>1. Height[x(i)] = Height[y] /\ Height[Parent[x(i)]] = Height[new] - n + (i - 1)
        BY <1>2, <2>1, <3>0
      <3>2. y = x(i)
        BY <2>1, <3>1, OneAtEachHeight, Zenon
      <3>3. Mixed(g[i - 1], CoinsOf[Parent[x(i)]], N)
        BY <1>10, <2>1, <3>1, Zenon
      <3>4. Mixed(RollforwardBlock(g[i - 1], x(i)), CoinsOf[x(i)], N)
        BY <1>3, <3>3, ForwardMixed, Zenon
      <3> QED
        BY <1>8, <3>2, <3>4, Zenon
    <2>3. \A y \in Ancestors[new] : Height[y] = Height[new] - n + i => Mixed(g[i], CoinsOf[y], N)
      BY <2>2, Zenon
    <2> QED
      BY <1>7, <2>3, Zenon
  <1> HIDE DEF P
  <1>11. n \in P
    BY <1>2, <1>7, <1>9, <1>10, UpTo, Zenon
  <1> QED
    <2>1. Height[new] = Height[new] - n + n /\ new \in Ancestors[new]
      BY <1>2, OwnAncestor
    <2> QED
      BY <1>1, <1>11, <2>1, Zenon DEF P

-----------------------------------------------------------------------------
(* The coins a database without a best block stands for are none.           *)
CoinsAt(b) == IF b = NoBlock THEN NoCoins ELSE CoinsOf[b]

(* ReplayBlocks turns what an interrupted flush left into the coins of the  *)
(* new tip.                                                                 *)
LEMMA ReplayRestores ==
    ASSUME NEW new \in Block, NEW old \in Block \cup {NoBlock}, NEW view,
           Mixed(view, CoinsAt(old), CoinsOf[new])
    PROVE  RolledForward(RolledBack(view, old, new), old, new) = CoinsOf[new]
  <1>0. Genesis \in Ancestors[new] /\ Ancestors[Genesis] = {Genesis} /\ NoBlock \notin Block
    BY TreeAssumption, Zenon DEF TreeAssumption
  <1>1. CoinsOf[new] \in View
    BY CoinsOfDef, Zenon
  <1> SUFFICES \E c \in Ancestors[new] :
                  /\ Mixed(RolledBack(view, old, new), CoinsOf[c], CoinsOf[new])
                  /\ Rollforward(old, new) = Ancestors[new] \ Ancestors[c]
    <2>1. PICK c \in Ancestors[new] :
                  /\ Mixed(RolledBack(view, old, new), CoinsOf[c], CoinsOf[new])
                  /\ Rollforward(old, new) = Ancestors[new] \ Ancestors[c]
      OBVIOUS
    <2>2. Mixed(RolledForward(RolledBack(view, old, new), old, new), CoinsOf[new], CoinsOf[new])
      BY <2>1, RolledForwardMixed, Zenon
    <2> QED
      BY <1>1, <2>2, MixedWithItself, Zenon
  <1>2. CASE old = NoBlock
    <2> DEFINE blocks == Rollback(old, new)
               g(n) == CHOOSE f : f = [i \in 0..n |-> IF i = 0 THEN view
                         ELSE DisconnectBlock(f[i - 1], AtHeight(blocks, Height[old] + 1 - i))]
    <2>1. RolledBack(view, old, new) = g(Cardinality(blocks))[Cardinality(blocks)]
      BY Zenon DEF RolledBack
    <2>2. Cardinality(blocks) = 0
      BY <1>2, FS_EmptySet, Zenon DEF Rollback
    <2>3. g(0)[0] = view
      <3> DEFINE Def(f) == [i \in 0..0 |-> IF i = 0 THEN view
                         ELSE DisconnectBlock(f[i - 1], AtHeight(blocks, Height[old] + 1 - i))]
                 v == [i \in 0..0 |-> view]
      <3>1. 0 \in 0..0 /\ \A i \in 0..0 : i = 0
        OBVIOUS
      <3>2. \A f : Def(f) = v
        BY <3>1, Zenon
      <3> HIDE DEF Def
      <3>3. v = Def(v)
        BY <3>2, Zenon
      <3>4. g(0) = Def(g(0))
        BY <3>3, Zenon DEF Def
      <3>5. g(0) = v
        BY <3>2, <3>4, Zenon
      <3> HIDE DEF g
      <3> QED
        BY <3>1, <3>5, Zenon
    <2> HIDE DEF g
    <2>4. RolledBack(view, old, new) = view
      BY <2>1, <2>2, <2>3, Zenon
    <2>5. CoinsAt(old) = CoinsOf[Genesis]
      BY <1>2, CoinsOfDef, Zenon DEF CoinsAt
    <2>6. Rollforward(old, new) = Ancestors[new] \ Ancestors[Genesis]
      BY <1>0, <1>2, Zenon DEF Rollforward
    <2> QED
      BY <1>0, <2>4, <2>5, <2>6, Zenon
  <1>3. CASE old \in Block
    <2>1. PICK c \in Block : Ancestors[old] \cap Ancestors[new] = Ancestors[c]
      BY <1>3, Fork, Zenon
    <2>2. c \in Ancestors[old] /\ c \in Ancestors[new]
      BY <2>1, OwnAncestor
    <2>3. Rollback(old, new) = Ancestors[old] \ Ancestors[c]
      BY <1>0, <1>3, <2>1 DEF Rollback
    <2>4. Rollforward(old, new) = Ancestors[new] \ Ancestors[c]
      BY <1>0, <1>3, <2>1 DEF Rollforward
    <2>5. Mixed(view, CoinsOf[old], CoinsOf[new])
      BY <1>0, <1>3, Zenon DEF CoinsAt
    <2>6. Mixed(RolledBack(view, old, new), CoinsOf[c], CoinsOf[new])
      BY <1>3, <2>2, <2>3, <2>5, RolledBackMixed, Zenon
    <2> QED
      BY <2>2, <2>4, <2>6, Zenon
  <1> QED
    BY <1>2, <1>3, Zenon

-----------------------------------------------------------------------------
(* A coin database holds the coins of its best block, or what a flush       *)
(* between its two heads has made of them so far.                           *)
CoinsDb(d, b, h) ==
    /\ d \in View
    /\ h = <<>> => d = CoinsAt(b)
    /\ h # <<>> => b = NoBlock /\ Mixed(d, CoinsAt(h[2]), CoinsOf[h[1]])

(* The coin database is in order, so is what a power failure leaves of it,  *)
(* and the cache of a running node holds the coins of the tip.              *)
CoinsOK ==
    /\ CoinsDb(db, best, heads)
    /\ CoinsDb(stable[1], stable[2], stable[3])
    /\ pc \in {"run", "flush"} => coins = CoinsOf[tip]
    /\ coins \in View /\ tip \in Block
    /\ have \subseteq Block /\ undo \subseteq Block /\ diskUndo \subseteq Block

(* What is on disk stays correct when nothing is written.                   *)
LEMMA DiskUnchanged ==
    ASSUME CoinsOK, UNCHANGED coinsdb, UNCHANGED stable
    PROVE  CoinsDb(db, best, heads)' /\ CoinsDb(stable[1], stable[2], stable[3])'
  BY Zenon DEF CoinsOK, CoinsDb, CoinsAt, coinsdb

(* ConnectTip applies the block to the coins of its parent.                 *)
LEMMA ConnectTipCoins ==
    ASSUME IInv, CoinsOK, NEW b \in Block, ConnectTip(b) PROVE CoinsOK'
  <1>1. CoinsDb(db, best, heads)' /\ CoinsDb(stable[1], stable[2], stable[3])'
    BY DiskUnchanged DEF ConnectTip, disk
  <1>2. b \in Block \ {Genesis} /\ Parent[b] = tip /\ coins = CoinsOf[tip]
    BY DEF ConnectTip, CoinsOK
  <1>3. coins' = CoinsOf[b]
    BY <1>2, CoinsOfDef DEF ConnectTip
  <1>4. CoinsOf[b] \in View
    BY CoinsOfDef, Zenon
  <1>5. tip' = b /\ have' = have /\ undo' = undo \cup {b} /\ diskUndo' = diskUndo
    BY DEF ConnectTip, disk, index
  <1> QED
    BY <1>1, <1>3, <1>4, <1>5 DEF CoinsOK

(* DisconnectTip: the undo data restore the coins of the parent.            *)
LEMMA DisconnectTipCoins ==
    ASSUME IInv, CoinsOK, DisconnectTip PROVE CoinsOK'
  <1>1. CoinsDb(db, best, heads)' /\ CoinsDb(stable[1], stable[2], stable[3])'
    BY DiskUnchanged DEF DisconnectTip, disk
  <1>2. tip \in Block \ {Genesis} /\ coins = CoinsOf[tip]
    BY DEF DisconnectTip, CoinsOK
  <1>3. coins' = CoinsOf[Parent[tip]] /\ tip' = Parent[tip]
    BY <1>2, DisconnectUndoes DEF DisconnectTip
  <1>4. Parent[tip] \in Block /\ CoinsOf[Parent[tip]] \in View
    BY <1>2, ParentOf, CoinsAlong, Zenon
  <1>5. have' = have /\ undo' = undo /\ diskUndo' = diskUndo
    BY DEF DisconnectTip, disk, index
  <1> QED
    BY <1>1, <1>3, <1>4, <1>5 DEF CoinsOK

(* A batch of BatchWrite leaves each outpoint as it was or as it is to be.  *)
LEMMA WritePartialBatchCoins ==
    ASSUME IInv, CoinsOK, WritePartialBatch PROVE CoinsOK'
  <1>0. pc = "flush" /\ coins = CoinsOf[tip] /\ coins \in View /\ db \in View
    BY Zenon DEF WritePartialBatch, CoinsOK, CoinsDb
  <1>1. heads = <<>> \/ heads[1] = tip
    BY <1>0 DEF IInv, PhaseOK
  <1>2. Mixed(db, CoinsAt(OldTip), coins)
    <2>1. CASE heads = <<>>
      <3>1. OldTip = best /\ db = CoinsAt(best)
        BY <2>1 DEF OldTip, CoinsOK, CoinsDb
      <3> QED
        BY <1>0, <3>1, Zenon DEF Mixed
    <2>2. CASE heads # <<>>
      <3>1. best = NoBlock /\ Mixed(db, CoinsAt(heads[2]), CoinsOf[heads[1]])
        BY <2>2, Zenon DEF CoinsOK, CoinsDb
      <3>2. OldTip = heads[2]
        BY <2>2, <3>1, Zenon DEF OldTip
      <3> QED
        BY <1>0, <1>1, <2>2, <3>1, <3>2, Zenon
    <2> QED
      BY <2>1, <2>2, Zenon
  <1>3. \A o \in Outpoint : db'[o] = coins[o] \/ db'[o] = db[o]
    BY Zenon DEF WritePartialBatch
  <1>4. db' \in View
    BY <1>0 DEF WritePartialBatch, View
  <1>5. Mixed(db', CoinsAt(OldTip), coins)
    BY <1>2, <1>3, <1>4 DEF Mixed
  <1>6. best' = NoBlock /\ heads' # <<>> /\ heads'[1] = tip /\ heads'[2] = OldTip
    BY DEF WritePartialBatch
  <1>7. CoinsDb(db', best', heads')
    BY <1>0, <1>4, <1>5, <1>6, Zenon DEF CoinsDb
  <1>8. CoinsDb(stable[1], stable[2], stable[3])'
    BY Zenon DEF WritePartialBatch, CoinsOK, CoinsDb, CoinsAt
  <1> QED
    BY <1>7, <1>8, Zenon DEF WritePartialBatch, CoinsOK, memory, index

(* The last batch writes what is left, and names the tip.                   *)
LEMMA WriteFinalBatchCoins ==
    ASSUME IInv, CoinsOK, WriteFinalBatch PROVE CoinsOK'
  <1>0. coins = CoinsOf[tip] /\ coins \in View /\ tip \in Block /\ NoBlock \notin Block
    BY TreeAssumption DEF WriteFinalBatch, CoinsOK, TreeAssumption
  <1>1. db' = coins /\ best' = tip /\ heads' = <<>>
    BY DEF WriteFinalBatch
  <1>2. CoinsDb(db', best', heads')
    BY <1>0, <1>1, Zenon DEF CoinsDb, CoinsAt
  <1>3. CoinsDb(stable[1], stable[2], stable[3])'
    BY Zenon DEF WriteFinalBatch, CoinsOK, CoinsDb, CoinsAt
  <1> QED
    BY <1>2, <1>3 DEF WriteFinalBatch, CoinsOK, memory, index

(* A crash leaves the coins on disk, a power failure those on the medium.   *)
LEMMA StopCoins ==
    ASSUME IInv, CoinsOK, Crash \/ PowerFailure PROVE CoinsOK'
  <1>1. CoinsDb(db, best, heads)' /\ CoinsDb(stable[1], stable[2], stable[3])'
    <2>1. CASE Crash
      BY <2>1, DiskUnchanged DEF Crash, disk
    <2>2. CASE PowerFailure
      BY <2>2, Zenon DEF PowerFailure, CoinsOK, CoinsDb, CoinsAt
    <2> QED
      BY <2>1, <2>2
  <1>2. /\ pc' = "down" /\ have' = {} /\ undo' = {} /\ tip' = Genesis /\ coins' = NoCoins
        /\ diskUndo' = diskUndo
    BY DEF Crash, PowerFailure, Stop, disk, index
  <1>3. Genesis \in Block
    BY TreeAssumption, Zenon DEF TreeAssumption
  <1> QED
    BY <1>1, <1>2, <1>3, NoCoinsType, Zenon DEF CoinsOK

(* Startup, with or without a flush to replay.                              *)
LEMMA RestartCoins ==
    ASSUME IInv, CoinsOK, Restart PROVE CoinsOK'
  <1>1. CoinsDb(db, best, heads)' /\ CoinsDb(stable[1], stable[2], stable[3])'
    BY DiskUnchanged DEF Restart, disk
  <1>2. Genesis \in Block /\ NoBlock \notin Block
    BY TreeAssumption, Zenon DEF TreeAssumption
  <1>3. have' \subseteq Block /\ undo' \subseteq Block /\ diskUndo' \subseteq Block
    BY <1>2, Zenon DEF Restart, disk, index, CoinsOK, IInv, DiskOK
  <1>4. tip' \in Block /\ coins' = CoinsOf[tip']
    <2>1. CASE heads = <<>>
      <3>1. tip' = (IF best = NoBlock THEN Genesis ELSE best) /\ coins' = db
        BY <2>1 DEF Restart
      <3>2. db = CoinsAt(best) /\ (best = NoBlock \/ best \in Block)
        BY <2>1, Zenon DEF CoinsOK, CoinsDb, IInv, DiskOK, CoveredDb, Covered
      <3> QED
        BY <1>2, <3>1, <3>2, CoinsOfDef DEF CoinsAt
    <2>2. CASE heads # <<>>
      <3>1. CanReplay(heads[2], heads[1]) /\ heads[1] \in Block
        BY <2>2, ReplayPossible, Zenon DEF Covered
      <3>2. /\ tip' = heads[1]
            /\ coins' = RolledForward(RolledBack(db, heads[2], heads[1]), heads[2], heads[1])
        BY <2>2, <3>1, Zenon DEF Restart
      <3>3. heads[2] \in Block \cup {NoBlock}
        <4>1. PICK new, old : heads = <<new, old>> /\ (old = NoBlock \/ Covered(old))
          BY <2>2, Zenon DEF IInv, DiskOK, CoveredDb
        <4> QED
          BY <4>1 DEF Covered
      <3>4. Mixed(db, CoinsAt(heads[2]), CoinsOf[heads[1]])
        BY <2>2, Zenon DEF CoinsOK, CoinsDb
      <3> QED
        BY <3>1, <3>2, <3>3, <3>4, ReplayRestores, Zenon
    <2> QED
      BY <2>1, <2>2, Zenon
  <1>5. coins' \in View
    BY <1>4, CoinsOfDef, Zenon
  <1> QED
    BY <1>1, <1>3, <1>4, <1>5 DEF CoinsOK

(* The coins are right in memory, on disk and on the medium, after every    *)
(* step.                                                                    *)
THEOREM CoinsInvariant == Spec => []CoinsOK
  <1>1. Init => CoinsOK
    <2> SUFFICES ASSUME Init PROVE CoinsOK
      OBVIOUS
    <2>1. Genesis \in Block /\ NoBlock \notin Block
      BY TreeAssumption, Zenon DEF TreeAssumption
    <2>2. CoinsDb(NoCoins, NoBlock, <<>>)
      BY NoCoinsType, Zenon DEF CoinsDb, CoinsAt
    <2>3. /\ db = NoCoins /\ best = NoBlock /\ heads = <<>>
          /\ stable[1] = NoCoins /\ stable[2] = NoBlock /\ stable[3] = <<>>
      BY DEF Init, coinsdb
    <2>4. coins = CoinsOf[tip] /\ coins \in View
      BY CoinsOfDef, NoCoinsType DEF Init
    <2> QED
      BY <2>1, <2>2, <2>3, <2>4, Zenon DEF Init, CoinsOK
  <1>2. IInv /\ CoinsOK /\ [Next]_vars => CoinsOK'
    <2> SUFFICES ASSUME IInv, CoinsOK, [Next]_vars PROVE CoinsOK'
      OBVIOUS
    <2>1. CASE UNCHANGED vars
      BY <2>1, DiskUnchanged DEF vars, disk, index, memory, CoinsOK
    <2>2. ASSUME NEW b \in Block, AcceptBlock(b) PROVE CoinsOK'
      BY <2>2, DiskUnchanged, Zenon DEF AcceptBlock, disk, index, CoinsOK
    <2>3. CASE FlushIndex
      BY <2>3, DiskUnchanged DEF FlushIndex, memory, CoinsOK
    <2>4. CASE WriteBack
      <3>1. /\ CoinsDb(db, best, heads)'
            /\ stable' = <<db, best, heads>> /\ UNCHANGED <<db, best, heads>>
        BY <2>4, Zenon DEF WriteBack, coinsdb, CoinsOK, CoinsDb, CoinsAt
      <3>2. CoinsDb(stable[1], stable[2], stable[3])'
        BY <3>1
      <3> QED
        BY <2>4, <3>1, <3>2 DEF WriteBack, index, memory, CoinsOK
    <2> QED
      BY <2>1, <2>2, <2>3, <2>4, ConnectTipCoins, DisconnectTipCoins, WritePartialBatchCoins,
         WriteFinalBatchCoins, StopCoins, RestartCoins DEF Next
  <1> QED
    BY <1>1, <1>2, Simulation, PTL DEF Spec

(* However often the node crashes, the coins it works with are those of its *)
(* tip.                                                                     *)
THEOREM CoinsAlwaysMatchTip == Spec => []CoinsMatchTip
  <1>1. CoinsOK => CoinsMatchTip
    BY DEF CoinsOK, CoinsMatchTip
  <1> QED
    BY <1>1, CoinsInvariant, PTL

(* A coin database that names a best block holds exactly its coins.         *)
THEOREM DiskAlwaysMatchesBest == Spec => []DiskMatchesBest
  <1>1. CoinsOK => DiskMatchesBest
    BY Zenon DEF CoinsOK, CoinsDb, CoinsAt, DiskMatchesBest
  <1> QED
    BY <1>1, CoinsInvariant, PTL

(* The chain state keeps its type, in memory and on disk.                   *)
THEOREM TypeCorrect == Spec => []TypeOK
  <1>1. IInv /\ CoinsOK => TypeOK
    <2> SUFFICES ASSUME IInv, CoinsOK PROVE TypeOK
      OBVIOUS
    <2>1. /\ best \in Block \cup {NoBlock} /\ stable[2] \in Block \cup {NoBlock}
          /\ heads = <<>> \/ heads \in Block \X (Block \cup {NoBlock})
      <3>1. (best = NoBlock \/ Covered(best)) /\ (stable[2] = NoBlock \/ Covered(stable[2]))
        BY Zenon DEF IInv, DiskOK, CoveredDb
      <3>2. \/ heads = <<>>
            \/ \E new, old : heads = <<new, old>> /\ Covered(new) /\ (old = NoBlock \/ Covered(old))
        BY Zenon DEF IInv, DiskOK, CoveredDb
      <3>3. heads = <<>> \/ heads \in Block \X (Block \cup {NoBlock})
        <4> SUFFICES ASSUME heads # <<>> PROVE heads \in Block \X (Block \cup {NoBlock})
          OBVIOUS
        <4>1. PICK new, old : /\ heads = <<new, old>> /\ Covered(new)
                              /\ old = NoBlock \/ Covered(old)
          BY <3>2, Zenon
        <4>2. new \in Block /\ old \in Block \cup {NoBlock}
          BY <4>1, Zenon DEF Covered
        <4> QED
          BY <4>1, <4>2
      <3> QED
        BY <3>1, <3>3, Zenon DEF Covered
    <2>2. diskHave \subseteq Block /\ pc \in {"run", "flush", "down", "failed"}
      BY DEF IInv, DiskOK, PhaseOK
    <2> QED
      BY <2>1, <2>2, Zenon DEF CoinsOK, CoinsDb, View, TypeOK
  <1> QED
    BY <1>1, Simulation, CoinsInvariant, PTL
=============================================================================
