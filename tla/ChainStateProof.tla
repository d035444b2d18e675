-------------------------- MODULE ChainStateProof --------------------------
(***************************************************************************)
(* Safety of ChainState for every block tree, every verdict and every set   *)
(* of operator's requests: the invariant IndInv is inductive, and the       *)
(* checked invariants that need no bound on the requests follow from it.    *)
(***************************************************************************)
EXTENDS ChainState, TLAPS

(* What the entries of the block index say fits together: ancestors are     *)
(* known, only known blocks are marked, and the genesis block never is.     *)
IndexInv ==
    /\ \A b \in Index : Ancestors[b] \subseteq Index
    /\ StoredIffReceived
    /\ Failed \subseteq Index \ {Genesis}
    /\ FailedBlocksMarked

(* Linked blocks are stored and so are their ancestors; a block waits in    *)
(* the deque only for its own turn.                                         *)
LinkInv ==
    /\ Genesis \in linked
    /\ linked \subseteq data
    /\ \A b \in linked : Ancestors[b] \subseteq linked
    /\ candidates \subseteq linked
    /\ Genesis \in candidates
    /\ unlinked \subseteq data
    /\ queue \subseteq data
    /\ \A b \in queue : b # Genesis /\ Parent[b] \in linked

(* The active chain and the chain to pindexMostWork are linked, although    *)
(* pindexMostWork is kept while cs_main is not held.                        *)
ThreadInv ==
    /\ tip \in linked
    /\ mostWork \in linked \cup {NoBlock}
    /\ pc = "step" => mostWork # NoBlock

IndInv == TypeOK /\ IndexInv /\ LinkInv /\ ThreadInv

(* A block is among its ancestors, and so is its parent.                    *)
LEMMA AncestorsFacts ==
    /\ \A b \in Block : b \in Ancestors[b] /\ Ancestors[b] \subseteq Block
    /\ \A b \in Block \ {Genesis} : Parent[b] \in Block /\ Parent[b] \in Ancestors[b]
    /\ \A b \in Block : Genesis \in Ancestors[b] /\ ~(Height[Genesis] > Height[b])
    /\ \A b \in Block : Parent[b] \in Block => b # Genesis
<1>1. \A b \in Block : b \in Ancestors[b] /\ Ancestors[b] \subseteq Block
  <2> TAKE b \in Block
  <2>1. Ancestors[b] \subseteq Block
    BY TreeAssumption, Zenon DEF TreeAssumption
  <2>2. CASE b = Genesis
    BY <2>1, <2>2, TreeAssumption, Zenon DEF TreeAssumption
  <2>3. CASE b # Genesis
    BY <2>1, <2>3, TreeAssumption DEF TreeAssumption
  <2> QED BY <2>2, <2>3, Zenon
<1>2. \A b \in Block \ {Genesis} : Parent[b] \in Block /\ Parent[b] \in Ancestors[b]
  BY <1>1, TreeAssumption DEF TreeAssumption
<1>3. \A b \in Block : Genesis \in Ancestors[b] /\ ~(Height[Genesis] > Height[b])
  BY TreeAssumption DEF TreeAssumption
<1>4. \A b \in Block : Parent[b] \in Block => b # Genesis
  BY TreeAssumption, Zenon DEF TreeAssumption
<1> QED BY <1>1, <1>2, <1>3, <1>4, Zenon

(* The walk from the fork up to pindexMostWork finds its next block.        *)
LEMMA NextTowardsFacts ==
    ASSUME NEW d \in Block, NEW b \in Ancestors[d], b # d
    PROVE  /\ NextTowards(b, d) \in Ancestors[d]
           /\ Parent[NextTowards(b, d)] = b
<1>1. \E c \in Ancestors[d] : Parent[c] = b
  BY TreeAssumption, Zenon DEF TreeAssumption
<1> QED BY <1>1, Zenon DEF NextTowards

(* The state the node starts in satisfies the invariant.                    *)
LEMMA InitInd == Init => IndInv
<1> SUFFICES ASSUME Init PROVE IndInv
  BY Zenon
<1> USE AncestorsFacts, TreeAssumption, ChainStateAssumption DEF TreeAssumption, ChainStateAssumption
<1>1. TypeOK
  <2>1. connected \in BOOLEAN /\ wanted \in BOOLEAN
    BY Zenon DEF Init
  <2>2. /\ valid \in [Block -> {0, BLOCK_VALID_TREE, BLOCK_VALID_TRANSACTIONS, BLOCK_VALID_SCRIPTS}]
        /\ sequenceId \in [Block -> Int]
    BY DEF Init, BLOCK_VALID_TREE, BLOCK_VALID_TRANSACTIONS, BLOCK_VALID_SCRIPTS
  <2> QED BY <2>1, <2>2 DEF Init, TypeOK
<1>2. IndexInv
  BY DEF Init, IndexInv, Index, Failed, StoredIffReceived, FailedBlocksMarked,
         BLOCK_VALID_TRANSACTIONS
<1>3. LinkInv
  BY Zenon DEF Init, LinkInv
<1>4. ThreadInv
  BY Zenon DEF Init, ThreadInv
<1> QED BY <1>1, <1>2, <1>3, <1>4, Zenon DEF IndInv

(* The parts of the invariant that an action leaves alone.                  *)
LEMMA IndexFrame ==
    IndexInv /\ UNCHANGED <<valid, data, failedValid, failedChild, failedBlocks>> => IndexInv'
BY Zenon DEF IndexInv, Index, Failed, StoredIffReceived, FailedBlocksMarked

(* What links blocks and files candidates only depends on these variables.  *)
LEMMA LinkFrame ==
    LinkInv /\ UNCHANGED <<data, linked, candidates, unlinked, queue>> => LinkInv'
BY Zenon DEF LinkInv

(* Linked blocks are in the block index.                                    *)
LEMMA LinkedKnown ==
    ASSUME IndInv
    PROVE  linked \subseteq Index
<1>1. linked \subseteq data /\ data = {b \in Block : valid[b] >= BLOCK_VALID_TRANSACTIONS}
  BY Zenon DEF IndInv, IndexInv, LinkInv, StoredIffReceived
<1> QED BY <1>1 DEF Index, BLOCK_VALID_TRANSACTIONS

(* A header that is let through joins the index under a known parent.       *)
LEMMA HeaderFacts ==
    ASSUME IndInv, NEW b \in Block \ {Genesis}, HeaderKnown(b) \/ HeaderNew(b)
    PROVE  /\ b \notin Failed
           /\ Ancestors[b] \subseteq Index \cup {b}
<1>1. b \notin Failed
  BY Zenon DEF IndInv, IndexInv, HeaderKnown, HeaderNew
<1>2. CASE HeaderKnown(b)
  BY <1>1, <1>2, Zenon DEF IndInv, IndexInv, HeaderKnown
<1>3. CASE HeaderNew(b)
  <2>1. Ancestors[Parent[b]] \subseteq Index
    BY <1>3, Zenon DEF IndInv, IndexInv, HeaderNew
  <2>2. Ancestors[b] = {b} \cup Ancestors[Parent[b]]
    BY TreeAssumption, Zenon DEF TreeAssumption
  <2> QED BY <1>1, <2>1, <2>2, Zenon
<1> QED BY <1>2, <1>3, Zenon

(* Filing a header keeps what the index says consistent.                    *)
LEMMA AddToBlockIndexInd ==
    ASSUME IndInv, NEW b \in Block \ {Genesis}, HeaderKnown(b) \/ HeaderNew(b),
           AddToBlockIndex(b), UNCHANGED <<data, failedChild, failedBlocks>>,
           failedValid' = failedValid \/ failedValid' = failedValid \cup {b}
    PROVE  /\ valid' \in [Block -> {0, BLOCK_VALID_TREE, BLOCK_VALID_TRANSACTIONS,
                                    BLOCK_VALID_SCRIPTS}]
           /\ bestHeader' \in Block
           /\ IndexInv'
<1> USE DEF BLOCK_VALID_TREE, BLOCK_VALID_TRANSACTIONS, BLOCK_VALID_SCRIPTS
<1>1. /\ valid' \in [Block -> {0, BLOCK_VALID_TREE, BLOCK_VALID_TRANSACTIONS,
                              BLOCK_VALID_SCRIPTS}]
      /\ bestHeader' \in Block
  BY Zenon DEF IndInv, TypeOK, AddToBlockIndex
<1>2. Index' = Index \cup {b}
  BY <1>1 DEF IndInv, TypeOK, AddToBlockIndex, Index
<1>3. \A c \in Index' : Ancestors[c] \subseteq Index'
  BY <1>2, HeaderFacts, Zenon DEF IndInv, IndexInv
<1>4. StoredIffReceived'
  BY <1>1 DEF IndInv, TypeOK, IndexInv, AddToBlockIndex, StoredIffReceived, Index
<1>5. Failed' \subseteq Index' \ {Genesis}
  BY <1>2, Zenon DEF IndInv, IndexInv, Failed
<1>6. FailedBlocksMarked'
  BY Zenon DEF IndInv, IndexInv, FailedBlocksMarked
<1> QED BY <1>1, <1>3, <1>4, <1>5, <1>6, Zenon DEF IndexInv

(* AcceptBlockHeader on a new header preserves the invariant.               *)
LEMMA AcceptHeaderInd ==
    ASSUME IndInv, NEW b \in Block \ {Genesis}, AcceptHeader(b)
    PROVE  IndInv'
<1>1. /\ valid' \in [Block -> {0, BLOCK_VALID_TREE, BLOCK_VALID_TRANSACTIONS,
                              BLOCK_VALID_SCRIPTS}]
      /\ bestHeader' \in Block
      /\ IndexInv'
  BY AddToBlockIndexInd, Zenon DEF AcceptHeader
<1>2. TypeOK'
  BY <1>1, Zenon DEF IndInv, TypeOK, AcceptHeader, counters, thread, round
<1>3. LinkInv'
  BY LinkFrame, Zenon DEF IndInv, AcceptHeader
<1>4. ThreadInv'
  BY Zenon DEF IndInv, ThreadInv, AcceptHeader, thread
<1> QED BY <1>1, <1>2, <1>3, <1>4, Zenon DEF IndInv

(* The marks AcceptBlockHeader leaves between a failed block and a refused  *)
(* header go to known blocks other than the genesis block.                  *)
LEMMA RejectHeaderInd ==
    ASSUME IndInv, NEW b \in Block \ {Genesis}, RejectHeader(b)
    PROVE  IndInv'
<1>1. PICK f \in FailedAncestors(b) :
         failedChild' = failedChild \cup {a \in Ancestors[Parent[b]] : Height[a] > Height[f]}
  BY Zenon DEF RejectHeader
<1>2. Parent[b] \in Block /\ f \in Block
  BY AncestorsFacts, Zenon DEF IndInv, TypeOK, FailedAncestors
<1>3. failedChild' \subseteq Block
  BY <1>1, <1>2, AncestorsFacts, Zenon DEF IndInv, TypeOK
<1>4. TypeOK'
  BY <1>1, <1>3, Zenon DEF IndInv, TypeOK, RejectHeader, chain, counters, thread, round
<1>5. IndexInv'
  <2>1. Ancestors[Parent[b]] \subseteq Index
    BY Zenon DEF IndInv, IndexInv, RejectHeader
  <2>2. Failed' \subseteq Index \ {Genesis}
    BY <1>1, <1>2, <2>1, AncestorsFacts, Zenon DEF IndInv, IndexInv, Failed, RejectHeader
  <2> QED BY <2>2, Zenon DEF IndInv, IndexInv, RejectHeader, chain, Index, StoredIffReceived,
                      FailedBlocksMarked
<1>6. LinkInv'
  BY LinkFrame, Zenon DEF IndInv, RejectHeader, chain
<1>7. ThreadInv'
  BY Zenon DEF IndInv, ThreadInv, RejectHeader, chain, thread
<1> QED BY <1>4, <1>5, <1>6, <1>7, Zenon DEF IndInv

(* Storing a block raises its level with its data.                          *)
LEMMA ReceivedInd ==
    ASSUME IndInv, NEW b \in Block \ {Genesis}, HeaderKnown(b) \/ HeaderNew(b), queue = {},
           ReceivedBlockTransactions(b),
           UNCHANGED <<failedValid, failedChild, failedBlocks, linked, candidates>>
    PROVE  /\ valid' \in [Block -> {0, BLOCK_VALID_TREE, BLOCK_VALID_TRANSACTIONS,
                                    BLOCK_VALID_SCRIPTS}]
           /\ IndexInv'
           /\ LinkInv'
<1> USE DEF BLOCK_VALID_TREE, BLOCK_VALID_TRANSACTIONS, BLOCK_VALID_SCRIPTS
<1>1. /\ b \notin Failed
      /\ Ancestors[b] \subseteq Index \cup {b}
  BY HeaderFacts, Zenon
<1>2. valid' \in [Block -> {0, BLOCK_VALID_TREE, BLOCK_VALID_TRANSACTIONS,
                            BLOCK_VALID_SCRIPTS}]
  BY Zenon DEF IndInv, TypeOK, ReceivedBlockTransactions, LevelOnReceipt, RaiseValidity
<1>3. valid'[b] >= BLOCK_VALID_TRANSACTIONS /\ \A c \in Block \ {b} : valid'[c] = valid[c]
  BY <1>1 DEF IndInv, TypeOK, ReceivedBlockTransactions, LevelOnReceipt, RaiseValidity
<1>4. Index' = Index \cup {b}
  BY <1>2, <1>3 DEF IndInv, TypeOK, Index
<1>5. IndexInv'
  <2>1. \A c \in Index' : Ancestors[c] \subseteq Index'
    BY <1>1, <1>4, Zenon DEF IndInv, IndexInv
  <2>2. StoredIffReceived'
    BY <1>3, Zenon DEF IndInv, TypeOK, IndexInv, StoredIffReceived, ReceivedBlockTransactions
  <2> QED BY <2>1, <2>2, <1>4, Zenon DEF IndInv, IndexInv, Failed, FailedBlocksMarked
<1>6. LinkInv'
  BY Zenon DEF IndInv, LinkInv, ReceivedBlockTransactions, FileUnlinked
<1> QED BY <1>2, <1>5, <1>6, Zenon

(* AcceptBlock preserves the invariant: whether it skips the block, refuses *)
(* it or stores it.                                                         *)
LEMMA AcceptBlockInd ==
    ASSUME IndInv, NEW b \in Block \ {Genesis}, NEW fRequested \in BOOLEAN,
           NEW fCheckPoS \in BOOLEAN, AcceptBlock(b, fRequested, fCheckPoS)
    PROVE  IndInv'
<1>1. /\ HeaderKnown(b) \/ HeaderNew(b)
      /\ queue = {}
      /\ UNCHANGED <<failedChild, failedBlocks, linked, candidates>>
      /\ wanted' \in BOOLEAN
  BY Zenon DEF IndInv, TypeOK, AcceptBlock, MainFree
<1>2. ThreadInv'
  BY Zenon DEF IndInv, ThreadInv, AcceptBlock, thread
<1>3. CASE AddToBlockIndex(b) /\ UNCHANGED <<data, unlinked, queue>>
           /\ (failedValid' = failedValid \/ failedValid' = failedValid \cup {b})
  <2>1. /\ valid' \in [Block -> {0, BLOCK_VALID_TREE, BLOCK_VALID_TRANSACTIONS,
                                BLOCK_VALID_SCRIPTS}]
        /\ bestHeader' \in Block
        /\ IndexInv'
    BY <1>1, <1>3, AddToBlockIndexInd, Zenon
  <2>2. TypeOK'
    BY <1>1, <1>3, <2>1 DEF IndInv, TypeOK, AcceptBlock, counters, thread, round
  <2>3. LinkInv'
    BY <1>1, <1>3, LinkFrame, Zenon DEF IndInv
  <2> QED BY <1>2, <2>1, <2>2, <2>3, Zenon DEF IndInv
<1>4. CASE /\ ReceivedBlockTransactions(b)
           /\ bestHeader' = IF b \notin Index /\ MoreTrust(b, bestHeader) THEN b ELSE bestHeader
           /\ UNCHANGED failedValid
  <2>1. /\ valid' \in [Block -> {0, BLOCK_VALID_TREE, BLOCK_VALID_TRANSACTIONS,
                                BLOCK_VALID_SCRIPTS}]
        /\ IndexInv'
        /\ LinkInv'
    BY <1>1, <1>4, ReceivedInd, Zenon
  <2>2. /\ data' \subseteq Block
        /\ unlinked' \subseteq Block
        /\ queue' \subseteq Block
        /\ bestHeader' \in Block
    BY <1>4, Zenon DEF IndInv, TypeOK, ReceivedBlockTransactions, FileUnlinked
  <2>3. TypeOK'
    BY <1>1, <1>4, <2>1, <2>2, Zenon DEF IndInv, TypeOK, AcceptBlock, counters, thread, round
  <2> QED BY <1>2, <2>1, <2>3, Zenon DEF IndInv
<1> QED BY <1>3, <1>4, Zenon DEF AcceptBlock

(* ReceivedBlockTransactions links a block only after its parent.           *)
LEMMA LinkNextInd ==
    ASSUME IndInv, NEW b \in Block, LinkNext(b)
    PROVE  IndInv'
<1>1. TypeOK'
  <2>1. /\ candidates' \subseteq Block
        /\ unlinked' \subseteq Block
        /\ queue' \subseteq Block
        /\ linked' \subseteq Block
        /\ sequenceId' \in [Block -> Int]
        /\ nextId' \in Nat
    BY DEF IndInv, TypeOK, LinkNext, WaitingFor
  <2> QED BY <2>1, Zenon DEF IndInv, TypeOK, LinkNext, thread, round
<1>2. IndexInv'
  BY IndexFrame, Zenon DEF IndInv, LinkNext
<1>3. LinkInv'
  <2>1. b # Genesis /\ Parent[b] \in linked /\ b \in data
    BY Zenon DEF IndInv, LinkInv, LinkNext
  <2>2. Ancestors[b] = {b} \cup Ancestors[Parent[b]]
    BY <2>1, TreeAssumption, Zenon DEF TreeAssumption
  <2>3. \A c \in linked' : Ancestors[c] \subseteq linked'
    BY <2>1, <2>2, Zenon DEF IndInv, LinkInv, LinkNext
  <2>4. \A c \in queue' : c # Genesis /\ Parent[c] \in linked'
    BY AncestorsFacts, Zenon DEF IndInv, TypeOK, LinkInv, LinkNext, WaitingFor
  <2>5. candidates' \subseteq linked' /\ Genesis \in candidates'
    BY Zenon DEF IndInv, LinkInv, LinkNext
  <2> QED BY <2>1, <2>3, <2>4, <2>5, Zenon DEF IndInv, LinkInv, LinkNext, WaitingFor
<1>4. ThreadInv'
  BY Zenon DEF IndInv, ThreadInv, LinkNext, thread
<1> QED BY <1>1, <1>2, <1>3, <1>4, Zenon DEF IndInv

(* The steps of ActivateBestChain that only move the thread along.          *)
LEMMA ThreadStepsInd ==
    ASSUME IndInv,
           \/ RequestActivation \/ Start \/ LockMain \/ NothingToDo \/ BeginStep
           \/ EndStep \/ TestProgress \/ UnlockMain
    PROVE  IndInv'
<1> USE DEF IndInv, TypeOK, ThreadInv, index, chain, counters, thread, round
<1>1. UNCHANGED <<index, chain, counters, queue>>
  BY Zenon DEF RequestActivation, Start, LockMain, NothingToDo, BeginStep, EndStep, TestProgress,
         UnlockMain
<1>2. IndexInv' /\ LinkInv'
  BY <1>1, IndexFrame, LinkFrame, Zenon
<1>3. CASE RequestActivation \/ Start \/ LockMain \/ NothingToDo
  BY <1>1, <1>2, <1>3, Zenon DEF RequestActivation, Start, LockMain, NothingToDo
<1>4. CASE BeginStep \/ EndStep \/ TestProgress
  BY <1>1, <1>2, <1>4, Zenon DEF BeginStep, EndStep, TestProgress
<1>5. CASE UnlockMain
  BY <1>1, <1>2, <1>5, Zenon DEF UnlockMain, LeaveRound
<1> QED BY <1>3, <1>4, <1>5, Zenon

(* FindMostWorkChain never drops the genesis block, for the walk down from a*)
(* candidate stops at the active chain, and it returns a linked block.      *)
LEMMA FindMostWorkChainInd ==
    ASSUME IndInv, FindMostWorkChain
    PROVE  IndInv'
<1>1. PICK c \in Block : /\ IsBestCandidate(c)
                         /\ UseCandidate(c) \/ \E t \in Unusable(c) : DropCandidate(c, t)
  BY Zenon DEF FindMostWorkChain
<1>2. c \in candidates /\ c \in linked
  BY <1>1, Zenon DEF IsBestCandidate, IndInv, LinkInv
<1>3. CASE UseCandidate(c)
  <2>1. TypeOK'
    BY <1>3, Zenon DEF IndInv, TypeOK, FindMostWorkChain, UseCandidate, counters, round
  <2>2. IndexInv' /\ LinkInv'
    BY <1>3, IndexFrame, LinkFrame, Zenon DEF IndInv, FindMostWorkChain, UseCandidate
  <2>3. ThreadInv'
    BY <1>2, <1>3, Zenon DEF IndInv, ThreadInv, FindMostWorkChain, UseCandidate
  <2> QED BY <2>1, <2>2, <2>3, Zenon DEF IndInv
<1>4. ASSUME NEW t \in Unusable(c), DropCandidate(c, t)
      PROVE  IndInv'
  <2> DEFINE above == AboveFailed(c, t)
  <2>1. above \subseteq linked /\ above \subseteq Block /\ Genesis \notin above /\ t # Genesis
    <3>1. above \subseteq Ancestors[c] /\ t \in Ancestors[c] /\ t \in Block
      BY AncestorsFacts, Zenon DEF AboveFailed, Unusable
    <3>2. Genesis \notin above
      BY <3>1, AncestorsFacts, Zenon DEF AboveFailed
    <3>3. t # Genesis
      BY AncestorsFacts DEF Unusable, ActiveChain, IndInv, TypeOK
    <3> QED BY <1>2, <3>1, <3>2, <3>3, AncestorsFacts, Zenon DEF IndInv, LinkInv
  <2>2. /\ failedChild' = IF t \in Failed THEN failedChild \cup above ELSE failedChild
        /\ unsaved' = IF t \in Failed THEN unsaved \cup (above \ Failed) ELSE unsaved
        /\ unlinked' = IF t \in Failed THEN unlinked ELSE unlinked \cup above
        /\ candidates' = candidates \ (above \cup {t})
        /\ bestInvalid' \in Block \cup {NoBlock}
        /\ mostWork' = mostWork
    BY <1>4, Zenon DEF DropCandidate, InvalidChainFound, IndInv, TypeOK
  <2> HIDE DEF above
  <2>3. above \subseteq data /\ above \subseteq Index
    <3>1. above \subseteq data
      BY <2>1, Zenon DEF IndInv, LinkInv
    <3>2. data \subseteq Index
      BY DEF IndInv, IndexInv, StoredIffReceived, Index, BLOCK_VALID_TRANSACTIONS
    <3> QED BY <3>1, <3>2, Zenon
  <2>4. TypeOK'
    <3>1. failedChild' \subseteq Block /\ unsaved' \subseteq failedChild'
      BY <2>1, <2>2, Zenon DEF IndInv, TypeOK, Failed
    <3>2. unlinked' \subseteq Block /\ candidates' \subseteq Block
      BY <2>1, <2>2, Zenon DEF IndInv, TypeOK
    <3> QED BY <2>2, <3>1, <3>2, Zenon DEF IndInv, TypeOK, FindMostWorkChain, counters, round
  <2>5. IndexInv'
    <3>1. Failed' \subseteq Index \ {Genesis}
      BY <2>1, <2>2, <2>3, Zenon DEF IndInv, IndexInv, Failed, FindMostWorkChain
    <3> QED BY <3>1, Zenon DEF IndInv, IndexInv, FindMostWorkChain, Index, StoredIffReceived,
                        FailedBlocksMarked
  <2>6. LinkInv'
    BY <2>1, <2>2, <2>3, Zenon DEF IndInv, LinkInv, FindMostWorkChain
  <2>7. ThreadInv'
    BY <2>2, Zenon DEF IndInv, ThreadInv, FindMostWorkChain
  <2> QED BY <2>4, <2>5, <2>6, <2>7, Zenon DEF IndInv
<1> QED BY <1>1, <1>3, <1>4, Zenon

(* DisconnectTip is not called on the genesis block: it is below every      *)
(* pindexMostWork.                                                          *)
LEMMA DisconnectTipInd ==
    ASSUME IndInv, DisconnectTip
    PROVE  IndInv'
<1>1. tip \in Block \ {Genesis}
  BY AncestorsFacts DEF IndInv, TypeOK, ThreadInv, DisconnectTip
<1>2. tip' \in Block /\ tip' \in linked
  BY <1>1, AncestorsFacts, Zenon DEF IndInv, LinkInv, ThreadInv, DisconnectTip
<1>3. TypeOK'
  BY <1>2, Zenon DEF IndInv, TypeOK, DisconnectTip, index, counters, thread, round
<1>4. IndexInv' /\ LinkInv'
  BY IndexFrame, LinkFrame, Zenon DEF IndInv, DisconnectTip, index
<1>5. ThreadInv'
  BY <1>2, Zenon DEF IndInv, ThreadInv, DisconnectTip, index, thread
<1> QED BY <1>3, <1>4, <1>5, Zenon DEF IndInv

(* The loop of ActivateBestChainStep connects a linked block or marks a block*)
(* that is not the genesis block.                                           *)
LEMMA ConnectNextInd ==
    ASSUME IndInv, ConnectNext
    PROVE  IndInv'
<1> DEFINE b == NextTowards(tip, mostWork)
<1>1. mostWork \in Block /\ mostWork \in linked
  BY Zenon DEF IndInv, TypeOK, ThreadInv, ConnectNext
<1>2. b \in Ancestors[mostWork] /\ Parent[b] = tip
  BY <1>1, NextTowardsFacts, Zenon DEF ConnectNext
<1>3. /\ b \in Block \ {Genesis}
      /\ b \in linked
      /\ b \in data
      /\ valid[b] >= BLOCK_VALID_TRANSACTIONS
  <2>1. b \in Block /\ b \in linked /\ b \in data
    BY <1>1, <1>2, AncestorsFacts, Zenon DEF IndInv, LinkInv
  <2>2. b # Genesis
    BY <1>2, <2>1, AncestorsFacts, Zenon DEF IndInv, TypeOK
  <2> QED BY <2>1, <2>2, Zenon DEF IndInv, IndexInv, StoredIffReceived
<1>4. ConnectTip(b) \/ InvalidBlockFound(b) \/ CorruptBlockFound(b) \/ SystemError(b)
  BY Zenon DEF ConnectNext
<1>5. UNCHANGED <<data, failedChild, unsaved, linked, sequenceId, address, unlinked, bestHeader,
                  counters, queue, wanted>>
  BY Zenon DEF ConnectNext
<1> HIDE DEF b
<1>6. CASE ConnectTip(b)
  <2>1. /\ valid' \in [Block -> {0, BLOCK_VALID_TREE, BLOCK_VALID_TRANSACTIONS,
                                BLOCK_VALID_SCRIPTS}]
        /\ Index' = Index
        /\ StoredIffReceived'
    BY <1>3, <1>5, <1>6 DEF IndInv, TypeOK, IndexInv, ConnectTip, RaiseValidity, Index,
       StoredIffReceived, BLOCK_VALID_TREE, BLOCK_VALID_TRANSACTIONS, BLOCK_VALID_SCRIPTS
  <2>2. TypeOK'
    BY <1>3, <1>5, <1>6, <2>1, Zenon DEF IndInv, TypeOK, ConnectTip, counters, round
  <2>3. IndexInv'
    BY <1>5, <1>6, <2>1, Zenon DEF IndInv, IndexInv, ConnectTip, Failed, FailedBlocksMarked
  <2>4. LinkInv'
    BY <1>5, <1>6, LinkFrame, Zenon DEF IndInv, ConnectTip
  <2>5. ThreadInv'
    BY <1>1, <1>3, <1>5, <1>6, Zenon DEF IndInv, ThreadInv, TypeOK, ConnectTip, ConnectNext
  <2> QED BY <2>2, <2>3, <2>4, <2>5, Zenon DEF IndInv
<1>7. CASE InvalidBlockFound(b)
  <2>1. TypeOK'
    BY <1>3, <1>5, <1>7, Zenon DEF IndInv, TypeOK, InvalidBlockFound, InvalidChainFound, counters,
                            round
  <2>2. IndexInv'
    <3>1. b \in Index
      BY <1>3 DEF Index, BLOCK_VALID_TRANSACTIONS
    <3> QED BY <1>3, <1>5, <1>7, <3>1, Zenon DEF IndInv, IndexInv, InvalidBlockFound, Failed, Index,
                                          StoredIffReceived, FailedBlocksMarked
  <2>3. LinkInv'
    BY <1>3, <1>5, <1>7, Zenon DEF IndInv, LinkInv, InvalidBlockFound
  <2>4. ThreadInv'
    BY <1>5, <1>7, Zenon DEF IndInv, ThreadInv, InvalidBlockFound
  <2> QED BY <2>1, <2>2, <2>3, <2>4, Zenon DEF IndInv
<1>8. CASE CorruptBlockFound(b) \/ SystemError(b)
  <2>1. UNCHANGED <<valid, failedValid, failedBlocks, candidates, bestInvalid, tip>>
        /\ mostWork' = NoBlock /\ pc' \in {"test", "idle"}
    BY <1>8, Zenon DEF CorruptBlockFound, SystemError
  <2>2. TypeOK'
    BY <1>5, <1>8, <2>1, Zenon DEF IndInv, TypeOK, CorruptBlockFound, SystemError, LeaveRound,
                            counters, round
  <2>3. IndexInv' /\ LinkInv'
    BY <1>5, <2>1, IndexFrame, LinkFrame, Zenon DEF IndInv
  <2>4. ThreadInv'
    BY <1>5, <2>1, Zenon DEF IndInv, ThreadInv
  <2> QED BY <2>2, <2>3, <2>4, Zenon DEF IndInv
<1> QED BY <1>4, <1>6, <1>7, <1>8, Zenon

(* PreciousBlock takes its block out of the candidates and puts it back only*)
(* if it is linked; the genesis block is put back.                          *)
LEMMA PreciousBlockInd ==
    ASSUME IndInv, NEW b \in Block, PreciousBlock(b)
    PROVE  IndInv'
<1>1. /\ sequenceId' \in [Block -> Int]
      /\ reverseId' \in Int
      /\ lastPrecious' \in Nat
      /\ candidates' \subseteq Block
  <2> DEFINE id == IF ChainTrust[tip] > lastPrecious THEN -1 ELSE reverseId
  <2>1. id \in Int
    BY DEF IndInv, TypeOK
  <2>2. sequenceId' \in [Block -> Int]
    BY <2>1, Zenon DEF IndInv, TypeOK, PreciousBlock
  <2>3. reverseId' \in Int
    BY <2>1 DEF PreciousBlock
  <2>4. lastPrecious' \in Nat
    <3>1. tip \in Block
      BY Zenon DEF IndInv, TypeOK
    <3>2. ChainTrust[tip] \in Nat
      BY <3>1, TreeAssumption, Zenon DEF TreeAssumption
    <3>3. lastPrecious' = ChainTrust[tip]
      BY DEF PreciousBlock
    <3> QED BY <3>2, <3>3, Zenon
  <2>5. candidates' \subseteq Block
    BY Zenon DEF IndInv, TypeOK, PreciousBlock, Reinserted
  <2> QED BY <2>2, <2>3, <2>4, <2>5, Zenon
<1>2. TypeOK'
  BY <1>1, Zenon DEF IndInv, TypeOK, PreciousBlock, thread, round
<1>3. IndexInv'
  BY IndexFrame, Zenon DEF IndInv, PreciousBlock
<1>4. LinkInv'
  <2>1. b = Genesis => IsValid(b, BLOCK_VALID_TRANSACTIONS) /\ b \in linked
    BY Zenon DEF IndInv, IndexInv, LinkInv, IsValid, StoredIffReceived
  <2>2. candidates' \subseteq linked /\ Genesis \in candidates'
    BY <2>1, Zenon DEF IndInv, LinkInv, PreciousBlock, Reinserted
  <2> QED BY <2>2, Zenon DEF IndInv, LinkInv, PreciousBlock
<1>5. ThreadInv'
  BY Zenon DEF IndInv, ThreadInv, PreciousBlock, thread
<1> QED BY <1>2, <1>3, <1>4, <1>5, Zenon DEF IndInv

(* InvalidateBlock leaves the genesis block a candidate and adds only linked*)
(* blocks.                                                                  *)
LEMMA InvalidateBlockInd ==
    ASSUME IndInv, NEW b \in Block, InvalidateBlock(b)
    PROVE  IndInv'
<1> DEFINE active == b \in ActiveChain
           top == IF active THEN Parent[b] ELSE tip
           walked == IF active THEN {a \in ActiveChain : Height[a] > Height[b]} ELSE {}
           bad == walked \cup {b}
           good == NoWorse(top, Failed \cup bad)
<1>1. /\ b \in Index \ {Genesis}
      /\ tip' = top
      /\ failedChild' = failedChild \cup walked
      /\ failedValid' = failedValid \cup {b}
      /\ failedBlocks' = failedBlocks \cup {b}
      /\ candidates' = (candidates \ bad) \cup good
      /\ bestInvalid' = InvalidChainFound(b)
      /\ wanted' = TRUE
      /\ UNCHANGED <<valid, data, unsaved, linked, sequenceId, address, unlinked, bestHeader,
                     counters, queue, thread>>
  BY Zenon DEF InvalidateBlock
<1>2. ActiveChain \subseteq linked /\ ActiveChain \subseteq Block /\ ActiveChain \subseteq Index
  <2>1. ActiveChain \subseteq linked /\ ActiveChain \subseteq Block
    BY AncestorsFacts, Zenon DEF IndInv, TypeOK, LinkInv, ThreadInv, ActiveChain
  <2>2. linked \subseteq Index
    BY LinkedKnown, Zenon
  <2> QED BY <2>1, <2>2, Zenon
<1>3. top \in linked /\ top \in Block
  BY <1>1, <1>2, AncestorsFacts, Zenon DEF IndInv, TypeOK, LinkInv, ThreadInv
<1>4. walked \subseteq Index /\ walked \subseteq Block /\ Genesis \notin walked
  BY <1>2, AncestorsFacts, Zenon
<1>5. good \subseteq linked
  BY Zenon DEF NoWorse
<1> HIDE DEF active, top, walked, bad, good
<1>6. TypeOK'
  <2>1. failedChild' \subseteq Block /\ unsaved' \subseteq failedChild' /\ failedValid' \subseteq Block
        /\ failedBlocks' \subseteq Block
    BY <1>1, <1>4, Zenon DEF IndInv, TypeOK
  <2>2. candidates' \subseteq Block /\ bestInvalid' \in Block \cup {NoBlock} /\ tip' \in Block
    BY <1>1, <1>3, <1>5, Zenon DEF IndInv, TypeOK, InvalidChainFound
  <2> QED BY <1>1, <2>1, <2>2, Zenon DEF IndInv, TypeOK, counters, thread, round
<1>7. IndexInv'
  <2>1. Failed' \subseteq Index \ {Genesis}
    BY <1>1, <1>4, Zenon DEF IndInv, IndexInv, Failed
  <2> QED BY <1>1, <2>1, Zenon DEF IndInv, IndexInv, Index, StoredIffReceived, FailedBlocksMarked
<1>8. LinkInv'
  <2>1. Genesis \notin bad
    BY <1>1, <1>4, Zenon DEF bad
  <2> QED BY <1>1, <1>5, <2>1, Zenon DEF IndInv, LinkInv
<1>9. ThreadInv'
  BY <1>1, <1>3, Zenon DEF IndInv, ThreadInv, thread
<1> QED BY <1>6, <1>7, <1>8, <1>9, Zenon DEF IndInv

(* ResetBlockFailureFlags clears a block's marks and its entry of           *)
(* g_failed_blocks together.                                                *)
LEMMA ResetBlockFailureFlagsInd ==
    ASSUME IndInv, NEW b \in Block, ResetBlockFailureFlags(b)
    PROVE  IndInv'
<1> DEFINE reset == {d \in Index \cap Descendants(b) : ~IsValid(d, BLOCK_VALID_TRANSACTIONS)}
                    \cup (Ancestors[b] \cap Failed)
<1>1. /\ failedValid' = failedValid \ reset
      /\ failedChild' = failedChild \ reset
      /\ unsaved' = unsaved \ reset
      /\ failedBlocks' = failedBlocks \ reset
  BY Zenon DEF ResetBlockFailureFlags, FailedBlocksLess
<1> HIDE DEF reset
<1>2. candidates \subseteq candidates' /\ candidates' \subseteq linked
  BY Zenon DEF ResetBlockFailureFlags, IndInv, LinkInv
<1>3. TypeOK'
  <2>1. bestInvalid' \in Block \cup {NoBlock} /\ wanted' = TRUE
    BY Zenon DEF ResetBlockFailureFlags, IndInv, TypeOK
  <2>2. unsaved' \subseteq failedChild' /\ candidates' \subseteq Block
    BY <1>1, <1>2, Zenon DEF IndInv, TypeOK
  <2> QED BY <1>1, <2>1, <2>2, Zenon DEF ResetBlockFailureFlags, IndInv, TypeOK, counters, thread, round
<1>4. IndexInv'
  BY <1>1, Zenon DEF ResetBlockFailureFlags, IndInv, IndexInv, Index, Failed, StoredIffReceived,
              FailedBlocksMarked
<1>5. LinkInv'
  BY <1>2, Zenon DEF ResetBlockFailureFlags, IndInv, LinkInv
<1>6. ThreadInv'
  BY Zenon DEF ResetBlockFailureFlags, IndInv, ThreadInv, thread
<1> QED BY <1>3, <1>4, <1>5, <1>6, Zenon DEF IndInv

(* LoadBlockIndex rebuilds nChainTx and the candidates from the stored levels*)
(* and data alone.                                                          *)
LEMMA RestartInd ==
    ASSUME IndInv, Restart
    PROVE  IndInv'
<1>1. PICK lost \in SUBSET unsaved : LoadBlockIndex(lost)
  BY Zenon DEF Restart
<1> DEFINE bad == InheritFailure(failedValid \cup (failedChild \ lost))
<1>2. /\ failedChild' = (failedChild \ lost) \cup (bad \ failedValid)
      /\ linked' = WholeChains
      /\ unlinked' = data \ WholeChains
      /\ candidates' = {b \in WholeChains \ bad : valid[b] >= BLOCK_VALID_TRANSACTIONS}
      /\ sequenceId' = [b \in Block |-> 0]
      /\ unsaved' = {}
      /\ bestInvalid' \in bad \cup {NoBlock}
      /\ bestHeader' \in Index
      /\ UNCHANGED <<valid, data, failedValid>>
  BY <1>1, Zenon DEF LoadBlockIndex
<1>3. bad \subseteq Index \ {Genesis}
  BY TreeAssumption DEF IndInv, IndexInv, InheritFailure, Failed, TreeAssumption
<1>4. data \subseteq Index /\ Index \subseteq Block
  BY DEF IndInv, IndexInv, StoredIffReceived, Index, BLOCK_VALID_TRANSACTIONS
<1>5. linked \subseteq WholeChains
  BY <1>4, Zenon DEF IndInv, LinkInv, WholeChains
<1>6. /\ WholeChains \subseteq data
      /\ \A b \in WholeChains : Ancestors[b] \subseteq WholeChains
  <2>1. WholeChains \subseteq data
    BY <1>4, AncestorsFacts, Zenon DEF WholeChains
  <2>2. ASSUME NEW b \in WholeChains, NEW a \in Ancestors[b]
        PROVE  a \in WholeChains
    <3>1. b \in Block /\ Ancestors[b] \subseteq data
      BY <1>4, Zenon DEF WholeChains
    <3>2. Ancestors[a] \subseteq Ancestors[b]
      BY <3>1, TreeAssumption, Zenon DEF TreeAssumption
    <3> QED BY <1>4, <3>1, <3>2, Zenon DEF WholeChains
  <2> QED BY <2>1, <2>2, Zenon
<1>7. Genesis \in candidates'
  <2>1. Genesis \in WholeChains /\ valid[Genesis] >= BLOCK_VALID_TRANSACTIONS
    BY <1>5, Zenon DEF IndInv, LinkInv, IndexInv, StoredIffReceived
  <2> QED BY <1>2, <1>3, <2>1, Zenon
<1> HIDE DEF bad
<1>8. TypeOK'
  <2>1. sequenceId' \in [Block -> Int]
    BY <1>2
  <2>2. /\ failedChild' \subseteq Block /\ linked' \subseteq Block /\ unlinked' \subseteq Block
        /\ candidates' \subseteq Block /\ bestInvalid' \in Block \cup {NoBlock}
        /\ bestHeader' \in Block
    BY <1>2, <1>3, <1>4, <1>6, Zenon DEF IndInv, TypeOK
  <2> QED BY <1>2, <2>1, <2>2 DEF IndInv, TypeOK, Restart, round
<1>9. IndexInv'
  <2>1. Failed' \subseteq Index \ {Genesis}
    BY <1>2, <1>3, Zenon DEF IndInv, IndexInv, Failed
  <2> QED BY <1>2, <2>1, Zenon DEF IndInv, IndexInv, Index, StoredIffReceived, FailedBlocksMarked, Restart
<1>10. LinkInv'
  <2>1. queue' = {}
    BY Zenon DEF Restart, MainFree
  <2> QED BY <1>2, <1>5, <1>6, <1>7, <2>1, Zenon DEF IndInv, LinkInv
<1>11. ThreadInv'
  BY <1>2, <1>5, Zenon DEF IndInv, ThreadInv, Restart
<1> QED BY <1>8, <1>9, <1>10, <1>11, Zenon DEF IndInv

(* Every step of the specification preserves the invariant.                 *)
LEMMA NextInd == IndInv /\ [Next]_vars => IndInv'
<1> SUFFICES ASSUME IndInv, [Next]_vars PROVE IndInv'
  BY Zenon
<1>1. CASE Peers
  BY <1>1, AcceptHeaderInd, RejectHeaderInd, AcceptBlockInd, Zenon DEF Peers, ProcessNewBlock
<1>2. CASE Link
  BY <1>2, LinkNextInd, Zenon DEF Link
<1>3. CASE RequestActivation \/ ActivateBestChain
  BY <1>3, ThreadStepsInd, FindMostWorkChainInd, DisconnectTipInd, ConnectNextInd, Zenon
     DEF ActivateBestChain
<1>4. CASE Operator
  BY <1>4, PreciousBlockInd, InvalidateBlockInd, ResetBlockFailureFlagsInd, AcceptBlockInd,
     RestartInd, Zenon DEF Operator, LoadExternalBlock
<1>5. CASE UNCHANGED vars
  <2>1. IndexInv' /\ LinkInv'
    BY <1>5, IndexFrame, LinkFrame, Zenon DEF IndInv, vars, index, chain
  <2>2. TypeOK' /\ ThreadInv'
    BY <1>5 DEF IndInv, TypeOK, ThreadInv, vars, index, chain, counters, thread, round
  <2> QED BY <2>1, <2>2, Zenon DEF IndInv
<1> QED BY <1>1, <1>2, <1>3, <1>4, <1>5, Zenon DEF Next

(* IndInv holds in every reachable state.                                   *)
THEOREM Inductive == Spec => []IndInv
BY InitInd, NextInd, PTL DEF Spec

(* The variables keep their types.                                          *)
THEOREM TypeCorrect == Spec => []TypeOK
<1>1. IndInv => TypeOK
  BY Zenon DEF IndInv
<1> QED BY <1>1, Inductive, PTL

(* FindMostWorkChain never meets a candidate with an unlinked or missing    *)
(* ancestor, whatever peers, imports, restarts and the operator do.         *)
THEOREM CandidatesAlwaysLinked == Spec => []CandidatesLinked
<1>1. IndInv => CandidatesLinked
  BY Zenon DEF IndInv, LinkInv, CandidatesLinked
<1> QED BY <1>1, Inductive, PTL

(* FindMostWorkChain never runs out of candidates.                          *)
THEOREM AlwaysACandidate == Spec => []GenesisCandidate
<1>1. IndInv => GenesisCandidate
  BY Zenon DEF IndInv, LinkInv, GenesisCandidate
<1> QED BY <1>1, Inductive, PTL

(* The assertion of AcceptBlockHeader on g_failed_blocks never fails.       *)
THEOREM FailedBlocksAlwaysMarked == Spec => []FailedBlocksMarked
<1>1. IndInv => FailedBlocksMarked
  BY Zenon DEF IndInv, IndexInv
<1> QED BY <1>1, Inductive, PTL

(* A block's level says whether its data is stored.                         *)
THEOREM AlwaysStoredIffReceived == Spec => []StoredIffReceived
<1>1. IndInv => StoredIffReceived
  BY Zenon DEF IndInv, IndexInv
<1> QED BY <1>1, Inductive, PTL
=============================================================================
