----------------------------- MODULE ChainState -----------------------------
(***************************************************************************)
(* CChainState of validation.cpp: how a node files the headers and blocks   *)
(* it receives and how ActivateBestChain moves the active chain to the best *)
(* of them.  Every operation runs under cs_main.  ActivateBestChain holds   *)
(* m_cs_chainstate for its whole run but gives up cs_main between two       *)
(* rounds, so its cached pindexMostWork can go stale; its loops are         *)
(* modelled one iteration per action, the other operations are atomic.      *)
(***************************************************************************)
EXTENDS BlockTree

CONSTANTS
    Verdict,            \* what validating the block finds, see Verdicts
    Addresses,          \* the ways CBlockIndex objects may lie in memory
    Operations,         \* the operator's requests an instance allows
    MinBlocksToKeep,    \* MIN_BLOCKS_TO_KEEP
    MinimumChainWork,   \* nMinimumChainWork
    MinSequenceId       \* std::numeric_limits<int32_t>::min()

Verdicts == {"ok",          \* valid
             "badContext",  \* CheckBlock or ContextualCheckBlock fails
             "badStake",    \* the kernel hash misses its target
             "noKernel",    \* the kernel's transaction is not indexed
             "badConnect",  \* ConnectBlock finds a consensus violation
             "corrupt"}     \* valid, but its copy on disk no longer passes CheckBlock

AllOperations == {"invalidate", "reconsider", "precious", "import", "restart"}

ASSUME ChainStateAssumption ==
    /\ Verdict \in [Block -> Verdicts]
    /\ Verdict[Genesis] = "ok"
    /\ Addresses \subseteq [Block -> Nat]
    /\ Addresses # {}
    /\ \A f \in Addresses : \A a, b \in Block : f[a] = f[b] => a = b
    /\ Operations \subseteq AllOperations
    /\ MinBlocksToKeep \in Nat
    /\ MinimumChainWork \in Nat
    /\ MinSequenceId \in Int
    /\ MinSequenceId < 0

VARIABLES
    \* the block index (mapBlockIndex and the fields of its entries)
    valid,         \* nStatus & BLOCK_VALID_MASK, 0 for a header not known
    data,          \* BLOCK_HAVE_DATA, equally nTx > 0
    failedValid,   \* BLOCK_FAILED_VALID
    failedChild,   \* BLOCK_FAILED_CHILD
    unsaved,       \* those FindMostWorkChain set without setDirtyBlockIndex
    linked,        \* nChainTx > 0
    sequenceId,    \* nSequenceId
    address,       \* where the entry lies: the comparator's last resort
    \* the chain state
    candidates,    \* setBlockIndexCandidates
    unlinked,      \* mapBlocksUnlinked: the pairs (pprev, block), by block
    failedBlocks,  \* g_failed_blocks
    tip,           \* chainActive.Tip()
    bestHeader,    \* pindexBestHeader
    bestInvalid,   \* pindexBestInvalid
    nextId,        \* nBlockSequenceId
    reverseId,     \* nBlockReverseSequenceId
    lastPrecious,  \* nLastPreciousChainwork
    \* AcceptBlock's thread: the deque of ReceivedBlockTransactions
    queue,
    \* the thread that holds m_cs_chainstate, and its locals
    pc, mostWork, startingTip, oldTip, connected,
    \* a thread is about to call ActivateBestChain
    wanted

index == <<valid, data, failedValid, failedChild, unsaved, linked, sequenceId, address>>
chain == <<candidates, unlinked, failedBlocks, tip, bestHeader, bestInvalid>>
counters == <<nextId, reverseId, lastPrecious>>
round == <<startingTip, oldTip, connected>>
thread == <<pc, mostWork, round>>
vars == <<index, chain, counters, queue, thread, wanted>>

BLOCK_VALID_TREE == 2
BLOCK_VALID_TRANSACTIONS == 3
BLOCK_VALID_SCRIPTS == 5

(***************************************************************************)
(* Reading the block index                                                 *)
(***************************************************************************)
Index == {b \in Block : valid[b] # 0}
Failed == failedValid \cup failedChild
ActiveChain == Ancestors[tip]

IsValid(b, nUpTo) == b \notin Failed /\ valid[b] >= nUpTo

RaiseValidityByOne(b, nUpTo) ==
    IF b \notin Failed /\ valid[b] < nUpTo THEN valid[b] + 1 ELSE valid[b]

RaiseValidity(b, nUpTo) ==
    IF b \notin Failed /\ valid[b] < nUpTo THEN nUpTo ELSE valid[b]

(* CBlockIndexWorkComparator under the sequence ids id: a sorts before b,   *)
(* that is, a is the worse tip.                                             *)
WorseBy(id, a, b) ==
    \/ ChainTrust[a] < ChainTrust[b]
    \/ ChainTrust[a] = ChainTrust[b] /\ id[a] > id[b]
    \/ ChainTrust[a] = ChainTrust[b] /\ id[a] = id[b] /\ address[a] > address[b]

Worse(a, b) == WorseBy(sequenceId, a, b)

MoreTrust(a, b) == b = NoBlock \/ ChainTrust[a] > ChainTrust[b]

(* InvalidChainFound keeps the invalid block with the most trust.           *)
InvalidChainFound(b) == IF MoreTrust(b, bestInvalid) THEN b ELSE bestInvalid

MainFree == pc \in {"idle", "lock"} /\ queue = {}

(***************************************************************************)
(* Headers                                                                 *)
(***************************************************************************)

(* AcceptBlockHeader lets the header of b through: it is known and not      *)
(* marked failed, or it is new, its parent is not failed and no block of    *)
(* g_failed_blocks is among its ancestors.                                  *)
HeaderKnown(b) == b \in Index /\ b \notin Failed

FailedAncestors(b) ==
    IF IsValid(Parent[b], BLOCK_VALID_SCRIPTS) THEN {}
    ELSE failedBlocks \cap Ancestors[Parent[b]]

HeaderNew(b) ==
    /\ b \notin Index
    /\ Parent[b] \in Index
    /\ Parent[b] \notin Failed
    /\ FailedAncestors(b) = {}

AddToBlockIndex(b) ==
    /\ valid' = [valid EXCEPT ![b] = IF b \in Index THEN @ ELSE BLOCK_VALID_TREE]
    /\ bestHeader' = IF b \notin Index /\ MoreTrust(b, bestHeader) THEN b ELSE bestHeader

(* ProcessNewBlockHeaders, for one header of its vector.                    *)
AcceptHeader(b) ==
    /\ MainFree
    /\ HeaderNew(b)
    /\ AddToBlockIndex(b)
    /\ UNCHANGED <<data, failedValid, failedChild, unsaved, linked, sequenceId, address, candidates,
                   unlinked, failedBlocks, tip, bestInvalid, counters, queue, thread, wanted>>

(* A new header below a block of g_failed_blocks is refused, and the blocks *)
(* between that block and the header are marked.                            *)
RejectHeader(b) ==
    /\ MainFree
    /\ b \notin Index
    /\ Parent[b] \in Index
    /\ Parent[b] \notin Failed
    /\ \E f \in FailedAncestors(b) :
          failedChild' = failedChild \cup {a \in Ancestors[Parent[b]] : Height[a] > Height[f]}
    /\ UNCHANGED <<valid, data, failedValid, unsaved, linked, sequenceId, address, chain,
                   counters, queue, thread, wanted>>

(***************************************************************************)
(* Blocks                                                                  *)
(***************************************************************************)

(* With fCheckPoS, AcceptBlock refuses a block whose parent it has not      *)
(* checked itself.                                                          *)
ParentChecked(b, fCheckPoS) ==
    fCheckPoS => IsValid(Parent[b], BLOCK_VALID_TRANSACTIONS)

(* A block not asked for is stored only if it could become the tip.         *)
WorthStoring(b) ==
    /\ ChainTrust[b] >= ChainTrust[tip]
    /\ Height[b] <= Height[tip] + MinBlocksToKeep
    /\ ChainTrust[b] >= MinimumChainWork

Stores(b, fRequested, fCheckPoS) ==
    /\ ParentChecked(b, fCheckPoS)
    /\ b \notin data
    /\ fRequested \/ WorthStoring(b)

RefusedOnArrival(b, fCheckPoS) ==
    \/ Verdict[b] = "badContext"
    \/ fCheckPoS /\ Verdict[b] \in {"badStake", "noKernel"}

LevelOnReceipt(b) == RaiseValidity(b, BLOCK_VALID_TRANSACTIONS)

FileUnderTip(b) == IF Parent[b] = tip THEN unlinked \cup {b} ELSE unlinked

FileUnlinked(b) ==
    IF IsValid(Parent[b], BLOCK_VALID_TREE) THEN unlinked \cup {b} ELSE unlinked

(* The block is filed under its parent when the parent's transactions are   *)
(* not all there; otherwise it starts the queue of blocks to link.          *)
ReceivedBlockTransactions(b) ==
    /\ data' = data \cup {b}
    /\ valid' = [valid EXCEPT ![b] = LevelOnReceipt(b)]
    /\ IF Parent[b] \in linked
       THEN queue' = {b} /\ UNCHANGED unlinked
       ELSE unlinked' = FileUnlinked(b) /\ UNCHANGED queue

(* AcceptBlock after its header went through: the block is not stored, or   *)
(* it is refused and marked, or it is stored.                               *)
AcceptBlock(b, fRequested, fCheckPoS) ==
    /\ MainFree
    /\ HeaderKnown(b) \/ HeaderNew(b)
    /\ \/ /\ ~Stores(b, fRequested, fCheckPoS)
          /\ AddToBlockIndex(b)
          /\ wanted' = (wanted \/ ParentChecked(b, fCheckPoS))
          /\ UNCHANGED <<data, failedValid, unlinked, queue>>
       \/ /\ Stores(b, fRequested, fCheckPoS)
          /\ RefusedOnArrival(b, fCheckPoS)
          /\ AddToBlockIndex(b)
          /\ failedValid' = failedValid \cup {b}
          /\ UNCHANGED <<data, unlinked, queue, wanted>>
       \/ /\ Stores(b, fRequested, fCheckPoS)
          /\ ~RefusedOnArrival(b, fCheckPoS)
          /\ ReceivedBlockTransactions(b)
          /\ bestHeader' = IF b \notin Index /\ MoreTrust(b, bestHeader) THEN b ELSE bestHeader
          /\ wanted' = TRUE
          /\ UNCHANGED failedValid
    /\ UNCHANGED <<failedChild, unsaved, linked, sequenceId, address, candidates, failedBlocks,
                   tip, bestInvalid, counters, thread>>

(* ProcessNewBlock: a block from a peer, asked for or not, from submitblock *)
(* or from the node's own minter.                                           *)
ProcessNewBlock(b) == \E fRequested \in BOOLEAN : AcceptBlock(b, fRequested, TRUE)

(* LoadExternalBlockFile: a block from a file, its stake not checked yet.   *)
(* The import thread calls ActivateBestChain when it is through; a block    *)
(* that comes before its parent is kept and accepted after it.              *)
LoadExternalBlock(b) == "import" \in Operations /\ AcceptBlock(b, TRUE, FALSE)

WaitingFor(b) == {c \in unlinked : Parent[c] = b}

ExtendsTip(id, b) == Parent[b] = tip

GoodEnough(id, b) == ~WorseBy(id, b, tip)

(* One round of the loop of ReceivedBlockTransactions: b is linked, becomes *)
(* a candidate if it does not sort before the tip, and the blocks filed     *)
(* under it follow.  The deque is served level by level.                    *)
LinkNext(b) ==
    LET id == [sequenceId EXCEPT ![b] = nextId]
    IN  /\ b \in queue
        /\ \A c \in queue : Height[b] <= Height[c]
        /\ linked' = linked \cup {b}
        /\ sequenceId' = id
        /\ nextId' = nextId + 1
        /\ candidates' = IF GoodEnough(id, b) THEN candidates \cup {b} ELSE candidates
        /\ unlinked' = unlinked \ WaitingFor(b)
        /\ queue' = (queue \ {b}) \cup WaitingFor(b)
        /\ UNCHANGED <<valid, data, failedValid, failedChild, unsaved, address, failedBlocks,
                       tip, bestHeader, bestInvalid, reverseId, lastPrecious, thread, wanted>>

(***************************************************************************)
(* ActivateBestChain                                                       *)
(***************************************************************************)

(* Callers outside this file: the message handlers of net_processing.cpp    *)
(* and the end of the import thread of init.cpp.                            *)
RequestActivation ==
    /\ ~wanted
    /\ wanted' = TRUE
    /\ UNCHANGED <<index, chain, counters, queue, thread>>

(* The locals of a round go out of scope when it gives up cs_main.          *)
LeaveRound ==
    /\ startingTip' = NoBlock
    /\ oldTip' = NoBlock
    /\ connected' = FALSE

(* The caller takes m_cs_chainstate.                                        *)
Start ==
    /\ pc = "idle"
    /\ wanted
    /\ pc' = "lock"
    /\ wanted' = FALSE
    /\ UNCHANGED <<index, chain, counters, queue, mostWork, round>>

LockMain ==
    /\ pc = "lock"
    /\ queue = {}
    /\ pc' = "find"
    /\ startingTip' = tip
    /\ connected' = FALSE
    /\ UNCHANGED <<index, chain, counters, queue, mostWork, oldTip, wanted>>

(* The last element of setBlockIndexCandidates.  The set holds the genesis  *)
(* block from LoadGenesisBlock on (theorem AlwaysACandidate), so the return *)
(* of nullptr is not modelled.                                              *)
IsBestCandidate(c) == c \in candidates /\ \A d \in candidates : ~Worse(c, d)

Unusable(c) == {a \in Ancestors[c] \ ActiveChain : a \in Failed \/ a \notin data}

UseCandidate(c) ==
    /\ Unusable(c) = {}
    /\ mostWork' = c
    /\ UNCHANGED <<failedChild, unsaved, candidates, unlinked, bestInvalid>>

AllButFailed(c, t) == Ancestors[c] \ {t}

(* The part of the candidate's chain that FindMostWorkChain walks again.    *)
AboveFailed(c, t) == {a \in Ancestors[c] : Height[a] > Height[t]}

(* t is the block the walk down from the candidate stops at; the blocks     *)
(* above it leave the set with it.                                          *)
DropCandidate(c, t) ==
    LET above == AboveFailed(c, t)
    IN  /\ \A u \in Unusable(c) : Height[u] <= Height[t]
        /\ candidates' = candidates \ (above \cup {t})
        /\ failedChild' = IF t \in Failed THEN failedChild \cup above ELSE failedChild
        /\ unsaved' = IF t \in Failed THEN unsaved \cup (above \ Failed) ELSE unsaved
        /\ unlinked' = IF t \in Failed THEN unlinked ELSE unlinked \cup above
        /\ bestInvalid' = IF t \in Failed THEN InvalidChainFound(c) ELSE bestInvalid
        /\ UNCHANGED mostWork

(* One round of the loop of FindMostWorkChain.                              *)
FindMostWorkChain ==
    /\ pc = "find"
    /\ mostWork = NoBlock
    /\ \E c \in Block :
          /\ IsBestCandidate(c)
          /\ \/ UseCandidate(c)
             \/ \E t \in Unusable(c) : DropCandidate(c, t)
    /\ UNCHANGED <<valid, data, failedValid, linked, sequenceId, address, failedBlocks, tip,
                   bestHeader, counters, queue, pc, round, wanted>>

NothingToDo ==
    /\ pc = "find"
    /\ mostWork = tip
    /\ pc' = "unlock"
    /\ UNCHANGED <<index, chain, counters, queue, mostWork, round, wanted>>

(* Entry of ActivateBestChainStep.                                          *)
BeginStep ==
    /\ pc = "find"
    /\ mostWork \notin {NoBlock, tip}
    /\ pc' = "step"
    /\ oldTip' = tip
    /\ UNCHANGED <<index, chain, counters, queue, mostWork, startingTip, connected, wanted>>

DisconnectTip ==
    /\ pc = "step"
    /\ tip \notin Ancestors[mostWork]
    /\ tip' = Parent[tip]
    /\ UNCHANGED <<index, candidates, unlinked, failedBlocks, bestHeader, bestInvalid,
                   counters, queue, thread, wanted>>

(* ActivateBestChainStep returns as soon as the tip beats the one it began  *)
(* with, or at pindexMostWork.                                              *)
StepDone(b) == b = mostWork \/ ChainTrust[b] > ChainTrust[oldTip]

(* A corrupt copy does no harm while ProcessNewBlock still holds the block: *)
(* it is then not read from disk, if it is pindexMostWork.                  *)
ConnectTip(b) ==
    /\ Verdict[b] = "ok" \/ (Verdict[b] = "corrupt" /\ b = mostWork)
    /\ valid' = [valid EXCEPT ![b] = RaiseValidity(b, BLOCK_VALID_SCRIPTS)]
    /\ tip' = b
    /\ pc' = IF StepDone(b) THEN "test" ELSE "step"
    /\ UNCHANGED <<failedValid, failedBlocks, candidates, bestInvalid, mostWork, round>>

NothingMarked(b) ==
    /\ Verdict[b] \in {"badStake", "badConnect"}
    /\ mostWork' = NoBlock
    /\ pc' = "test"
    /\ UNCHANGED <<valid, failedValid, failedBlocks, candidates, bestInvalid, tip, round>>

(* ConnectBlock refuses b: InvalidBlockFound marks it, and the cached       *)
(* pindexMostWork is wiped.  InvalidChainFound on vpindexToConnect.back(),  *)
(* an ancestor of b or b itself, then changes nothing, for b has more trust.*)
InvalidBlockFound(b) ==
    /\ Verdict[b] \in {"badStake", "badConnect"}
    /\ failedValid' = failedValid \cup {b}
    /\ failedBlocks' = failedBlocks \cup {b}
    /\ candidates' = candidates \ {b}
    /\ bestInvalid' = InvalidChainFound(b)
    /\ mostWork' = NoBlock
    /\ pc' = "test"
    /\ UNCHANGED <<valid, tip, round>>

(* CheckBlock fails with CorruptionPossible: nothing is marked.             *)
CorruptBlockFound(b) ==
    /\ Verdict[b] = "corrupt"
    /\ mostWork' = NoBlock
    /\ pc' = "test"
    /\ UNCHANGED <<valid, failedValid, failedBlocks, candidates, bestInvalid, tip, round>>

(* CheckProofOfStake returns an error that is not a verdict on the block,   *)
(* and ActivateBestChain returns false where it stands.                     *)
SystemError(b) ==
    /\ Verdict[b] = "noKernel"
    /\ mostWork' = NoBlock
    /\ pc' = "idle"
    /\ LeaveRound
    /\ UNCHANGED <<valid, failedValid, failedBlocks, candidates, bestInvalid, tip>>

ConnectNext ==
    /\ pc = "step"
    /\ tip \in Ancestors[mostWork]
    /\ tip # mostWork
    /\ LET b == NextTowards(tip, mostWork)
       IN  ConnectTip(b) \/ InvalidBlockFound(b) \/ CorruptBlockFound(b) \/ SystemError(b)
    /\ UNCHANGED <<data, failedChild, unsaved, linked, sequenceId, address, unlinked, bestHeader,
                   counters, queue, wanted>>

(* The step ends where it led: after a disconnection down to an ancestor of *)
(* the old tip there is nothing to connect.                                 *)
EndStep ==
    /\ pc = "step"
    /\ tip = mostWork
    /\ pc' = "test"
    /\ UNCHANGED <<index, chain, counters, queue, mostWork, round, wanted>>

AnyTipWillDo == TRUE

(* The condition of the inner loop.                                         *)
MadeProgress == ~Worse(tip, startingTip)

(* The inner loop tests after pindexNewTip has been set.                    *)
TestProgress ==
    /\ pc = "test"
    /\ connected' = TRUE
    /\ pc' = IF MadeProgress THEN "unlock" ELSE "find"
    /\ UNCHANGED <<index, chain, counters, queue, mostWork, startingTip, oldTip, wanted>>

OneRoundOnly == FALSE

(* The condition of the outer loop.  The tip is still pindexNewTip, and     *)
(* both sides are locals of the thread when they are compared.              *)
MoreRounds == connected /\ tip # mostWork

(* cs_main is given up.                                                     *)
UnlockMain ==
    /\ pc = "unlock"
    /\ IF MoreRounds
       THEN pc' = "lock" /\ UNCHANGED mostWork
       ELSE pc' = "idle" /\ mostWork' = NoBlock
    /\ LeaveRound
    /\ UNCHANGED <<index, chain, counters, queue, wanted>>

(***************************************************************************)
(* The operator's requests                                                 *)
(***************************************************************************)

Reinserted(b) ==
    IF IsValid(b, BLOCK_VALID_TRANSACTIONS) /\ b \in linked
    THEN candidates \cup {b} ELSE candidates \ {b}

(* preciousblock: b wins the ties among the tips of its trust.              *)
PreciousBlock(b) ==
    LET id == IF ChainTrust[tip] > lastPrecious THEN -1 ELSE reverseId
    IN  /\ "precious" \in Operations
        /\ MainFree
        /\ b \in Index
        /\ ChainTrust[b] >= ChainTrust[tip]
        /\ lastPrecious' = ChainTrust[tip]
        /\ sequenceId' = [sequenceId EXCEPT ![b] = id]
        /\ reverseId' = IF id > MinSequenceId THEN id - 1 ELSE id
        /\ candidates' = Reinserted(b)
        /\ wanted' = TRUE
        /\ UNCHANGED <<valid, data, failedValid, failedChild, unsaved, linked, address,
                       unlinked, failedBlocks, tip, bestHeader, bestInvalid, nextId, queue, thread>>

NoWorseHeaders(top, bad) == {d \in Index \ bad : ~Worse(d, top)}

(* The blocks InvalidateBlock adds to the candidates for the new tip top.   *)
NoWorse(top, bad) ==
    {d \in linked \ bad : valid[d] >= BLOCK_VALID_TRANSACTIONS /\ ~Worse(d, top)}

(* invalidateblock: the blocks from b on leave the active chain, b and      *)
(* those that did are marked, and every valid block at least as good as the *)
(* new tip becomes a candidate.                                             *)
InvalidateBlock(b) ==
    LET active == b \in ActiveChain
        top == IF active THEN Parent[b] ELSE tip
        walked == IF active THEN {a \in ActiveChain : Height[a] > Height[b]} ELSE {}
        bad == walked \cup {b}
    IN  /\ "invalidate" \in Operations
        /\ MainFree
        /\ b \in Index \ {Genesis}
        /\ tip' = top
        /\ failedChild' = failedChild \cup walked
        /\ failedValid' = failedValid \cup {b}
        /\ failedBlocks' = failedBlocks \cup {b}
        /\ candidates' = (candidates \ bad) \cup NoWorse(top, Failed \cup bad)
        /\ bestInvalid' = InvalidChainFound(b)
        /\ wanted' = TRUE
        /\ UNCHANGED <<valid, data, unsaved, linked, sequenceId, address, unlinked, bestHeader,
                       counters, queue, thread>>

StillFailed(reset) == failedBlocks

FailedBlocksLess(reset) == failedBlocks \ reset

(* reconsiderblock: b, its descendants and its ancestors lose their marks,  *)
(* but only b and its descendants become candidates again.                  *)
ResetBlockFailureFlags(b) ==
    LET below == {d \in Index \cap Descendants(b) : ~IsValid(d, BLOCK_VALID_TRANSACTIONS)}
        reset == below \cup (Ancestors[b] \cap Failed)
    IN  /\ "reconsider" \in Operations
        /\ MainFree
        /\ b \in Index
        /\ failedValid' = failedValid \ reset
        /\ failedChild' = failedChild \ reset
        /\ unsaved' = unsaved \ reset
        /\ failedBlocks' = FailedBlocksLess(reset)
        /\ candidates' = candidates \cup {d \in below \cap linked :
                              valid[d] >= BLOCK_VALID_TRANSACTIONS /\ Worse(tip, d)}
        /\ bestInvalid' = IF bestInvalid \in below THEN NoBlock ELSE bestInvalid
        /\ wanted' = TRUE
        /\ UNCHANGED <<valid, data, linked, sequenceId, address, unlinked, tip, bestHeader,
                       counters, queue, thread>>

FailureFromBelow(marked) == {b \in Index : Descendants(b) \cap marked # {}}

(* The failure marks LoadBlockIndex derives from the marks read from disk,  *)
(* walking the entries by height.                                           *)
InheritFailure(marked) == {b \in Index : Ancestors[b] \cap marked # {}}

StoredBlocks == data

(* The blocks LoadBlockIndex gives a nChainTx.                              *)
WholeChains == {b \in Index : Ancestors[b] \subseteq data}

(* A clean shutdown and start: Shutdown flushes the dirty entries,          *)
(* LoadBlockIndex rebuilds what is not stored and LoadChainTip finds the    *)
(* tip again.  A mark that was not dirty is lost unless its entry was       *)
(* written for another reason.  ActivateBestChain stops for a shutdown      *)
(* between two rounds, where its pc is "lock".                              *)
LoadBlockIndex(lost) ==
    LET bad == InheritFailure(failedValid \cup (failedChild \ lost))
    IN  /\ failedChild' = (failedChild \ lost) \cup (bad \ failedValid)
        /\ linked' = WholeChains
        /\ unlinked' = data \ WholeChains
        /\ candidates' = {b \in WholeChains \ bad : valid[b] >= BLOCK_VALID_TRANSACTIONS}
        /\ sequenceId' = [b \in Block |-> 0]
        /\ unsaved' = {}
        /\ bestInvalid' \in IF bad = {} THEN {NoBlock}
                            ELSE {b \in bad : \A c \in bad : ChainTrust[c] <= ChainTrust[b]}
        /\ bestHeader' \in {b \in Index \ bad : \A c \in Index \ bad :
                               \/ ChainTrust[c] < ChainTrust[b]
                               \/ ChainTrust[c] = ChainTrust[b] /\ address'[c] >= address'[b]}
        /\ UNCHANGED <<valid, data, failedValid>>

Restart ==
    /\ "restart" \in Operations
    /\ MainFree
    /\ address' \in Addresses
    /\ \E lost \in SUBSET unsaved : LoadBlockIndex(lost)
    /\ failedBlocks' = {}
    /\ nextId' = 1
    /\ reverseId' = -1
    /\ lastPrecious' = 0
    /\ pc' = "idle"
    /\ mostWork' = NoBlock
    /\ wanted' = TRUE
    /\ UNCHANGED <<tip, queue, round>>

(***************************************************************************)
(* The specification                                                       *)
(***************************************************************************)

(* The genesis block has been accepted and connected.                       *)
Init ==
    /\ valid = [b \in Block |-> IF b = Genesis THEN BLOCK_VALID_TRANSACTIONS ELSE 0]
    /\ data = {Genesis}
    /\ failedValid = {}
    /\ failedChild = {}
    /\ unsaved = {}
    /\ linked = {Genesis}
    /\ sequenceId = [b \in Block |-> IF b = Genesis THEN 1 ELSE 0]
    /\ address \in Addresses
    /\ candidates = {Genesis}
    /\ unlinked = {}
    /\ failedBlocks = {}
    /\ tip = Genesis
    /\ bestHeader = Genesis
    /\ bestInvalid = NoBlock
    /\ nextId = 2
    /\ reverseId = -1
    /\ lastPrecious = 0
    /\ queue = {}
    /\ pc = "idle"
    /\ mostWork = NoBlock
    /\ startingTip = NoBlock
    /\ oldTip = NoBlock
    /\ connected = FALSE
    /\ wanted = FALSE

ActivateBestChain ==
    \/ Start
    \/ LockMain
    \/ FindMostWorkChain
    \/ NothingToDo
    \/ BeginStep
    \/ DisconnectTip
    \/ ConnectNext
    \/ EndStep
    \/ TestProgress
    \/ UnlockMain

Peers ==
    \E b \in Block \ {Genesis} : AcceptHeader(b) \/ RejectHeader(b) \/ ProcessNewBlock(b)

Link == \E b \in Block : LinkNext(b)

Operator ==
    \/ \E b \in Block : PreciousBlock(b) \/ InvalidateBlock(b) \/ ResetBlockFailureFlags(b)
    \/ \E b \in Block \ {Genesis} : LoadExternalBlock(b)
    \/ Restart

Next == Peers \/ Link \/ RequestActivation \/ ActivateBestChain \/ Operator

(* The threads that hold a lock go on running, and a caller that is about   *)
(* to activate the best chain does.                                         *)
Spec == Init /\ [][Next]_vars /\ WF_vars(Link) /\ WF_vars(ActivateBestChain)

(***************************************************************************)
(* Properties                                                              *)
(***************************************************************************)

(* The types of the block index and the chain state.  A header is at least  *)
(* BLOCK_VALID_TREE, and validity goes up only to the levels that           *)
(* AddToBlockIndex, ReceivedBlockTransactions and ConnectBlock name.        *)
TypeOK ==
    /\ valid \in [Block -> {0, BLOCK_VALID_TREE, BLOCK_VALID_TRANSACTIONS, BLOCK_VALID_SCRIPTS}]
    /\ data \subseteq Block
    /\ failedValid \subseteq Block
    /\ failedChild \subseteq Block
    /\ unsaved \subseteq failedChild
    /\ linked \subseteq Block
    /\ sequenceId \in [Block -> Int]
    /\ address \in Addresses
    /\ candidates \subseteq Block
    /\ unlinked \subseteq Block
    /\ failedBlocks \subseteq Block
    /\ tip \in Block
    /\ bestHeader \in Block
    /\ bestInvalid \in Block \cup {NoBlock}
    /\ nextId \in Nat
    /\ reverseId \in Int
    /\ lastPrecious \in Nat
    /\ queue \subseteq Block
    /\ pc \in {"idle", "lock", "find", "step", "test", "unlock"}
    /\ mostWork \in Block \cup {NoBlock}
    /\ startingTip \in Block \cup {NoBlock}
    /\ oldTip \in Block \cup {NoBlock}
    /\ connected \in BOOLEAN
    /\ wanted \in BOOLEAN

(* The chain to a candidate can be connected: every block on it has been    *)
(* linked and its data is stored, so that the assertion of FindMostWorkChain*)
(* holds and its missing-data branch is never taken.                        *)
CandidatesLinked == \A c \in candidates : Ancestors[c] \subseteq linked \cap data

(* The assertion of AcceptBlockHeader on g_failed_blocks.                   *)
FailedBlocksMarked == failedBlocks \subseteq failedValid

(* No block of the active chain is marked failed: FindMostWorkChain stops   *)
(* its walk at the active chain for this reason.                            *)
ActiveChainValid == ActiveChain \cap Failed = {}

(* A mark always has a cause: the failed mask is set only on the            *)
(* descendants of a block that failed itself (CheckBlockIndex).             *)
FailureHasCause == \A b \in Failed : Ancestors[b] \cap failedValid # {}

(* nChainTx is set exactly on the blocks all of whose ancestors have been   *)
(* received (CheckBlockIndex).                                              *)
LinkedIffProcessed == MainFree => linked = {b \in Index : Ancestors[b] \subseteq data}

(* A block that is good enough to be the tip is never forgotten: it is a    *)
(* candidate once its ancestors have all been received, whatever the order  *)
(* they came in (CheckBlockIndex).                                          *)
CandidatesComplete ==
    MainFree => \A b \in Index : /\ Ancestors[b] \subseteq data
                                 /\ Ancestors[b] \cap failedValid = {}
                                 /\ ~Worse(b, tip)
                                 => b \in candidates

(* A stored block waits in mapBlocksUnlinked for a missing ancestor, and    *)
(* only then (CheckBlockIndex).                                             *)
UnlinkedExact ==
    MainFree => \A b \in Index \ {Genesis} :
        /\ (b \in data /\ ~(Ancestors[b] \subseteq data) /\ Ancestors[b] \cap failedValid = {})
              => b \in unlinked
        /\ b \in unlinked => b \in data /\ ~(Ancestors[b] \subseteq data)

(* A block has reached BLOCK_VALID_TRANSACTIONS exactly when its data is    *)
(* stored, whatever marks came and went in between (CheckBlockIndex).       *)
StoredIffReceived == data = {b \in Block : valid[b] >= BLOCK_VALID_TRANSACTIONS}

(* FindMostWorkChain always has a candidate to return, the genesis block at *)
(* worst, although InvalidateBlock and failed blocks keep removing others.  *)
GenesisCandidate == Genesis \in candidates

(* Scripts are checked in chain order (CheckBlockIndex).                    *)
ScriptsInOrder ==
    \A b \in Block : valid[b] = BLOCK_VALID_SCRIPTS =>
        \A a \in Ancestors[b] \ {Genesis} : valid[a] = BLOCK_VALID_SCRIPTS

(* ActivateBestChain gives up cs_main only with a tip that is no worse than *)
(* the valid one it found, whatever it had to disconnect on the way.        *)
ForwardProgress ==
    pc = "unlock" /\ Ancestors[startingTip] \cap Failed = {} => ~Worse(tip, startingTip)

(* ActivateBestChain returns.                                               *)
ActivationEnds == (pc = "lock") ~> (pc = "idle")

(* A valid block whose ancestors are valid and have all arrived is followed *)
(* by a tip with at least its trust.                                        *)
BestChainActivated ==
    \A b \in Block : (\A a \in Ancestors[b] : a \in data /\ Verdict[a] = "ok")
                        ~> (ChainTrust[tip] >= ChainTrust[b])
=============================================================================
