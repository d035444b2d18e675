------------------------------ MODULE Recovery ------------------------------
(***************************************************************************)
(* The chain state on disk and its recovery after a crash: the order in     *)
(* which FlushStateToDisk writes the block index and the coins, the partial *)
(* batches of CCoinsViewDB::BatchWrite, and ReplayBlocks at startup.        *)
(*                                                                          *)
(* A coin is the block that created it (its height is part of it), so a     *)
(* transaction that two branches confirm makes two different coins of the   *)
(* same outpoint.  The block files and the index are synced when they are   *)
(* written; the batches of coins are not.  So a crash of the process keeps  *)
(* the batches written so far, and a power failure keeps some prefix of     *)
(* them: `stable` is the last state of the coin database on the medium.     *)
(***************************************************************************)
EXTENDS BlockTree, Sequences

CONSTANTS Outpoint, Spent,
          Txs      \* the transactions of a block, with the outpoints they spend and make

ASSUME TxsAssumption ==
    /\ Spent \notin Block
    /\ \A b \in Block : Txs[b] \in Seq([in : SUBSET Outpoint, out : SUBSET Outpoint])
    /\ Txs[Genesis] = <<>>

VARIABLES
    diskHave, diskUndo,   \* the blocks whose data, and undo data, the index on disk knows
    db, best, heads,      \* the coins on disk, DB_BEST_BLOCK and DB_HEAD_BLOCKS
    stable,               \* the last <<db, best, heads>> that survives a power failure
    have, undo,           \* the same as diskHave and diskUndo, in memory
    tip, coins,           \* the tip and what pcoinsTip answers
    pc                    \* "run", "flush" (in BatchWrite), "down" or "failed"

index == <<diskHave, diskUndo>>
coinsdb == <<db, best, heads>>
disk == <<index, coinsdb, stable>>
memory == <<have, undo, tip, coins>>
vars == <<disk, memory, pc>>

NoCoins == [o \in Outpoint |-> Spent]

(* One type invariant.                                                      *)
TypeOK ==
    /\ diskHave \subseteq Block /\ diskUndo \subseteq Block
    /\ have \subseteq Block /\ undo \subseteq Block
    /\ db \in [Outpoint -> Block \cup {Spent}] /\ coins \in [Outpoint -> Block \cup {Spent}]
    /\ best \in Block \cup {NoBlock}
    /\ heads = <<>> \/ heads \in Block \X (Block \cup {NoBlock})
    /\ tip \in Block
    /\ stable[2] \in Block \cup {NoBlock}
    /\ pc \in {"run", "flush", "down", "failed"}

(* A new data directory.                                                    *)
Init ==
    /\ diskHave = {} /\ diskUndo = {}
    /\ db = NoCoins /\ best = NoBlock /\ heads = <<>>
    /\ stable = coinsdb
    /\ have = {Genesis} /\ undo = {}
    /\ tip = Genesis /\ coins = NoCoins
    /\ pc = "run"

-----------------------------------------------------------------------------
(* The coins after 0, 1, ... transactions of a block: the inputs are spent, *)
(* then the outputs are added, whether they were there or not.              *)
ApplyTx(view, b, tx) ==
    [o \in Outpoint |-> IF o \in tx.out THEN b ELSE IF o \in tx.in THEN Spent ELSE view[o]]

Steps(view, b) ==
    LET after[i \in 0..Len(Txs[b])] == IF i = 0 THEN view ELSE ApplyTx(after[i - 1], b, Txs[b][i])
    IN  after

RollforwardBlock(view, b) == Steps(view, b)[Len(Txs[b])]

(* The coins of the chain that ends in a block.                             *)
CoinsOf ==
    LET of[b \in Block] == IF b = Genesis THEN NoCoins ELSE RollforwardBlock(of[Parent[b]], b)
    IN  of

(* The undo data that ConnectBlock wrote for a block: the coins before each *)
(* of its transactions.                                                     *)
UndoCoins(b) == Steps(CoinsOf[Parent[b]], b)

(* A transaction that is confirmed makes new outpoints only.  ConnectBlock  *)
(* does not look (fEnforceBIP30 is false for a block that has a hash): the  *)
(* id of a transaction is the hash of its inputs, or of its height when it  *)
(* is a coinbase, and can come back only after all its outputs were spent.  *)
ASSUME NoOverwrite ==
    \A b \in Block \ {Genesis} : \A i \in 1..Len(Txs[b]) :
        \A o \in Txs[b][i].out \ Txs[b][i].in : UndoCoins(b)[i - 1][o] = Spent

(* DisconnectBlock: from the last transaction to the first, the outputs are *)
(* spent and the inputs are put back.                                       *)
UndoTx(view, tx, spentCoins) ==
    [o \in Outpoint |-> IF o \in tx.in THEN spentCoins[o]
                        ELSE IF o \in tx.out THEN Spent ELSE view[o]]

DisconnectBlock(view, b) ==
    LET n == Len(Txs[b])
        before[i \in 0..n] ==
            IF i = 0 THEN view
            ELSE UndoTx(before[i - 1], Txs[b][n + 1 - i], UndoCoins(b)[n - i])
    IN  before[n]

-----------------------------------------------------------------------------
(* The running node.                                                        *)
AcceptBlock(b) ==
    /\ pc = "run"
    /\ b \notin have /\ Parent[b] \in have
    /\ have' = have \cup {b}
    /\ UNCHANGED <<disk, undo, tip, coins, pc>>

ConnectTip(b) ==
    /\ pc = "run"
    /\ b \in have /\ b # Genesis /\ Parent[b] = tip
    /\ coins' = RollforwardBlock(coins, b)
    /\ undo' = undo \cup {b}
    /\ tip' = b
    /\ UNCHANGED <<disk, have, pc>>

DisconnectTip ==
    /\ pc = "run"
    /\ tip # Genesis
    /\ coins' = DisconnectBlock(coins, tip)
    /\ tip' = Parent[tip]
    /\ UNCHANGED <<disk, have, undo, pc>>

(* (The coins go out although the index is not written.)                    *)
CoinsFirst ==
    /\ pc = "run"
    /\ pc' = "flush"
    /\ UNCHANGED <<disk, memory>>

(* FlushStateToDisk: block and undo files and the index are written first;  *)
(* a full flush goes on with the coins.                                     *)
FlushIndex ==
    /\ pc = "run"
    /\ diskHave' = have /\ diskUndo' = undo
    /\ pc' \in {"run", "flush"}
    /\ UNCHANGED <<coinsdb, stable, memory>>

(* BatchWrite: the dirty coins go out in batches, in any order.  The first  *)
(* marks the transition, the last one ends it.                              *)
OldTip == IF best # NoBlock THEN best ELSE IF heads # <<>> THEN heads[2] ELSE NoBlock

DirtyCoins == {o \in Outpoint : coins[o] # db[o]}

(* (DB_BEST_BLOCK is not erased.)                                           *)
BestKept ==
    /\ pc = "flush"
    /\ \E written \in SUBSET DirtyCoins :
         db' = [o \in Outpoint |-> IF o \in written THEN coins[o] ELSE db[o]]
    /\ heads' = <<tip, OldTip>>
    /\ UNCHANGED <<index, best, stable, memory, pc>>

(* (The heads are in the wrong order.)                                      *)
SwappedHeads ==
    /\ pc = "flush"
    /\ \E written \in SUBSET DirtyCoins :
         db' = [o \in Outpoint |-> IF o \in written THEN coins[o] ELSE db[o]]
    /\ best' = NoBlock /\ heads' = <<OldTip, tip>>
    /\ UNCHANGED <<index, stable, memory, pc>>

WritePartialBatch ==
    /\ pc = "flush"
    /\ \E written \in SUBSET DirtyCoins :
         db' = [o \in Outpoint |-> IF o \in written THEN coins[o] ELSE db[o]]
    /\ best' = NoBlock /\ heads' = <<tip, OldTip>>
    /\ UNCHANGED <<index, stable, memory, pc>>

(* (The best block is not updated.)                                         *)
StaleBest ==
    /\ pc = "flush"
    /\ db' = coins
    /\ best' = OldTip /\ heads' = <<>>
    /\ pc' = "run"
    /\ UNCHANGED <<index, stable, memory>>

WriteFinalBatch ==
    /\ pc = "flush"
    /\ db' = coins
    /\ best' = tip /\ heads' = <<>>
    /\ pc' = "run"
    /\ UNCHANGED <<index, stable, memory>>

(* What was in memory is gone.                                              *)
Stop ==
    /\ pc \in {"run", "flush"}
    /\ pc' = "down"
    /\ have' = {} /\ undo' = {} /\ tip' = Genesis /\ coins' = NoCoins

Crash == Stop /\ UNCHANGED disk

PowerFailure ==
    /\ Stop
    /\ db' = stable[1] /\ best' = stable[2] /\ heads' = stable[3]
    /\ UNCHANGED <<index, stable>>

(* LevelDB's log reaches the medium.                                        *)
WriteBack ==
    /\ stable' = coinsdb
    /\ UNCHANGED <<index, coinsdb, memory, pc>>

-----------------------------------------------------------------------------
(* ReplayBlocks: the blocks of the old tip alone are undone from the        *)
(* highest on, those of the new tip alone are applied from the lowest on.   *)
(* The old tip is null when the very first flush was cut short.             *)
Rollback(old, new) == IF old = NoBlock THEN {} ELSE Ancestors[old] \ Ancestors[new]

Rollforward(old, new) == Ancestors[new] \ (IF old = NoBlock THEN {Genesis} ELSE Ancestors[old])

AtHeight(blocks, h) == CHOOSE b \in blocks : Height[b] = h

(* (The blocks of the old branch stay applied.)                             *)
NoRollback(view, old, new) == view

RolledBack(view, old, new) ==
    LET blocks == Rollback(old, new)
        down[i \in 0..Cardinality(blocks)] ==
            IF i = 0 THEN view
            ELSE DisconnectBlock(down[i - 1], AtHeight(blocks, Height[old] + 1 - i))
    IN  down[Cardinality(blocks)]

RolledForward(view, old, new) ==
    LET blocks == Rollforward(old, new)
        n == Cardinality(blocks)
        up[i \in 0..n] ==
            IF i = 0 THEN view
            ELSE RollforwardBlock(up[i - 1], AtHeight(blocks, Height[new] - n + i))
    IN  up[n]

CanReplay(old, new) ==
    /\ new \in diskHave
    /\ old = NoBlock \/ old \in diskHave
    /\ Rollback(old, new) \subseteq diskHave \cap diskUndo
    /\ Rollforward(old, new) \subseteq diskHave

(* (What was replayed is not flushed.)                                      *)
RestartUnflushed ==
    /\ pc = "down"
    /\ have' = diskHave \cup {Genesis} /\ undo' = diskUndo
    /\ pc' = "run"
    /\ IF heads = <<>>
       THEN tip' = (IF best = NoBlock THEN Genesis ELSE best) /\ coins' = db
       ELSE /\ coins' = RolledForward(RolledBack(db, heads[2], heads[1]), heads[2], heads[1])
            /\ tip' = heads[1]
    /\ UNCHANGED disk

(* Startup: the index is loaded, an interrupted flush is replayed, and the  *)
(* tip is the best block of the coins.  ReplayBlocks ends with a flush.     *)
Restart ==
    /\ pc = "down"
    /\ have' = diskHave \cup {Genesis} /\ undo' = diskUndo
    /\ \/ /\ heads = <<>>
          /\ tip' = IF best = NoBlock THEN Genesis ELSE best
          /\ coins' = db
          /\ pc' = IF tip' \in have' THEN "run" ELSE "failed"
       \/ /\ heads # <<>>
          /\ IF CanReplay(heads[2], heads[1])
             THEN /\ coins' = RolledForward(RolledBack(db, heads[2], heads[1]), heads[2], heads[1])
                  /\ tip' = heads[1]
                  /\ pc' = "flush"
             ELSE UNCHANGED <<tip, coins>> /\ pc' = "failed"
    /\ UNCHANGED disk

Next ==
    \/ \E b \in Block : AcceptBlock(b) \/ ConnectTip(b)
    \/ DisconnectTip \/ FlushIndex \/ WritePartialBatch \/ WriteFinalBatch
    \/ Crash \/ PowerFailure \/ WriteBack \/ Restart

Spec == Init /\ [][Next]_vars

-----------------------------------------------------------------------------
(* However often the node crashes, during a flush, during a reorganisation  *)
(* or while it replays, the coins it works with are those of its tip.       *)
CoinsMatchTip == pc \in {"run", "flush"} => coins = CoinsOf[tip]

(* A coin database that names a best block holds the coins of that block,   *)
(* and no other.                                                            *)
DiskMatchesBest == best # NoBlock => heads = <<>> /\ db = CoinsOf[best]

(* Startup never meets "reorganization to unknown block requested" or       *)
(* missing block or undo data: "This can only be done if the blocks / block *)
(* index write was also done".                                              *)
NeverStuck == pc # "failed"

(* assert(old_heads[0] == hashBlock) in BatchWrite.                         *)
FlushesToHead == pc = "flush" /\ heads # <<>> => heads[1] = tip

(* The commit point of a flush is its first batch: from then on a crash     *)
(* leads to the new tip, before it to the old one, and a power failure to   *)
(* a tip that was committed before.                                         *)
Committed(b, h) == IF h # <<>> THEN h[1] ELSE IF b = NoBlock THEN Genesis ELSE b

Store == INSTANCE DurableTip WITH
             tip <- IF pc = "down" THEN Committed(best, heads) ELSE tip,
             written <- Committed(best, heads),
             synced <- Committed(stable[2], stable[3])

ImplementsDurableTip == Store!Spec
=============================================================================
