--------------------------- MODULE BlockDownload ----------------------------
(***************************************************************************)
(* The download of blocks (net_processing.cpp): which block is asked of     *)
(* which peer, what becomes of the answers, and what a peer that goes away  *)
(* leaves behind.                                                           *)
(*                                                                          *)
(* The message handler thread runs one handler at a time.  A handler        *)
(* releases cs_main around ProcessNewBlock, so a step is a critical section;*)
(* in between the socket thread finalizes nodes and the RPC thread submits  *)
(* blocks.  (The two critical sections of ProcessNewBlock, in which a block *)
(* is stored and connected, are one step: what may come between them does   *)
(* not depend on whether the block is connected yet.)  Peers send what they *)
(* like.  Every request is made with the block's index entry, so each block *)
(* in flight has a validated header.                                        *)
(***************************************************************************)
EXTENDS BlockTree, Sequences

CONSTANTS
    Peer, NoPeer,
    Valid,         \* the blocks that ConnectBlock accepts after valid ones
    Refused,       \* the blocks that AcceptBlock does not store
    Mutated,       \* the blocks of which a copy with other transactions goes round
    Local,         \* the blocks that are submitted to this node
    Honest,        \* the peers that announce Target and answer every request
    Target,        \* the best chain of valid blocks ends here
    MaxInTransit,  \* MAX_BLOCKS_IN_TRANSIT_PER_PEER
    Window,        \* BLOCK_DOWNLOAD_WINDOW
    CompactDepth   \* how far above the tip a compact block is of use (2)

ASSUME DownloadAssumption ==
    /\ NoPeer \notin Peer /\ IsFiniteSet(Peer) /\ Honest \subseteq Peer
    /\ Genesis \in Valid /\ Valid \subseteq Block /\ Refused \subseteq Block \ Valid
    /\ Local \subseteq Block \ {Genesis}
    /\ Target \in Block /\ Ancestors[Target] \subseteq Valid \ Mutated
    /\ MaxInTransit \in Nat \ {0} /\ Window \in Nat \ {0} /\ CompactDepth \in Nat

VARIABLES
    status,   \* per block: "none", "header", "transactions" (stored), "failed",
              \* "invalid" (stored and failed)
    tip,      \* chainActive.Tip()
    down,     \* the download state: mapBlocksInFlight and its counterparts per peer
    conn,     \* per peer: "none", "up", "closing" (fDisconnect)
    best,     \* pindexBestKnownBlock
    common,   \* pindexLastCommonBlock
    mapBlocksWait,        \* by previous block, the block that waits for it
    pindexLastAccepted,
    handler,  \* the handler that runs, the block it processes, and the one its message brought
    owed      \* the requests that wait at an honest peer for its answer

vars == <<status, tip, down, conn, best, common, mapBlocksWait, pindexLastAccepted, handler, owed>>

Idle == [at |-> "idle", peer |-> NoPeer, block |-> NoBlock, own |-> NoBlock,
         forced |-> FALSE, next |-> "idle"]

(* mapBlocksInFlight and the parts of CNodeState that go with it.           *)
DownloadState ==
    [from : [Block -> Peer \cup {NoPeer}],  \* mapBlocksInFlight
     list : [Peer -> Seq(Block)],           \* vBlocksInFlight
     count : [Peer -> Nat],                 \* nBlocksInFlight
     peers : Nat,                           \* nPeersWithValidatedDownloads
     partial : SUBSET Block,                \* those with a partialBlock
     stalling : SUBSET Peer]                \* nStallingSince # 0

(* One type invariant.                                                      *)
TypeOK ==
    /\ status \in [Block -> {"none", "header", "transactions", "failed", "invalid"}]
    /\ tip \in Block
    /\ down \in DownloadState
    /\ conn \in [Peer -> {"none", "up", "closing"}]
    /\ best \in [Peer -> Block \cup {NoBlock}] /\ common \in [Peer -> Block \cup {NoBlock}]
    /\ mapBlocksWait \in [Block -> Block \cup {NoBlock}]
    /\ pindexLastAccepted \in Block \cup {NoBlock}
    /\ handler \in [at : {"idle", "loop", "process", "mark"}, peer : Peer \cup {NoPeer},
                    block : Block \cup {NoBlock}, own : Block \cup {NoBlock}, forced : BOOLEAN,
                    next : {"idle", "loop", "mark"}]
    /\ owed \in [Honest -> Seq(Block)]

Init ==
    /\ status = [b \in Block |-> IF b = Genesis THEN "transactions" ELSE "none"]
    /\ tip = Genesis
    /\ down = [from |-> [b \in Block |-> NoPeer], list |-> [p \in Peer |-> <<>>],
               count |-> [p \in Peer |-> 0], peers |-> 0, partial |-> {}, stalling |-> {}]
    /\ conn = [p \in Peer |-> "none"]
    /\ best = [p \in Peer |-> NoBlock] /\ common = [p \in Peer |-> NoBlock]
    /\ mapBlocksWait = [b \in Block |-> NoBlock]
    /\ pindexLastAccepted = NoBlock
    /\ handler = Idle
    /\ owed = [p \in Honest |-> <<>>]

-----------------------------------------------------------------------------
InFlight(b) == down.from[b] # NoPeer

(* vBlocksInFlight.erase.                                                   *)
Erase(list, b) ==
    LET i == CHOOSE j \in DOMAIN list : list[j] = b
    IN  [j \in 1..(Len(list) - 1) |-> IF j < i THEN list[j] ELSE list[j + 1]]

(* (The number of peers with downloads is left alone.)                      *)
ReceivedUncounted(d, b) ==
    IF d.from[b] = NoPeer THEN d
    ELSE LET p == d.from[b] IN
         [d EXCEPT !.from[b] = NoPeer,
                   !.list[p] = Erase(@, b),
                   !.count[p] = @ - 1,
                   !.partial = @ \ {b},
                   !.stalling = @ \ {p}]

MarkBlockAsReceived(d, b) ==
    IF d.from[b] = NoPeer THEN d
    ELSE LET p == d.from[b] IN
         [d EXCEPT !.from[b] = NoPeer,
                   !.list[p] = Erase(@, b),
                   !.count[p] = @ - 1,
                   !.peers = IF d.count[p] = 1 THEN @ - 1 ELSE @,
                   !.partial = @ \ {b},
                   !.stalling = @ \ {p}]

MarkBlockAsInFlight(d, p, b) ==
    IF d.from[b] = p THEN d
    ELSE LET e == MarkBlockAsReceived(d, b) IN
         [e EXCEPT !.from[b] = p,
                   !.list[p] = Append(@, b),
                   !.count[p] = @ + 1,
                   !.peers = IF e.count[p] = 0 THEN @ + 1 ELSE @]

(* (Without a look at the room the peer has.)                               *)
AsManyAsThereAre(p, blocks) == Len(blocks)

(* Blocks are requested in the order of a sequence while the peer has room. *)
Requested(p, blocks) ==
    LET room == MaxInTransit - down.count[p]
    IN  IF Len(blocks) <= room THEN Len(blocks) ELSE room

(* MarkBlockAsInFlight for n blocks that are in flight from nobody, and the *)
(* getdata message for them.                                                *)
Request(p, blocks) ==
    LET n == Requested(p, blocks)
        asked == SubSeq(blocks, 1, n)
    IN  /\ down' = [down EXCEPT
                      !.from = [b \in Block |-> IF \E i \in 1..n : blocks[i] = b THEN p ELSE @[b]],
                      !.list[p] = @ \o asked,
                      !.count[p] = @ + n,
                      !.peers = IF down.count[p] = 0 /\ n > 0 THEN @ + 1 ELSE @]
        /\ owed' = [q \in Honest |-> IF q = p THEN owed[q] \o asked ELSE owed[q]]

(* The sequences of a set of blocks with the lowest first: one, for blocks  *)
(* of a branch.                                                             *)
Ascending(blocks) ==
    {s \in [1..Cardinality(blocks) -> blocks] :
        \A i, j \in DOMAIN s : i < j => Height[s[i]] < Height[s[j]]}

(* UpdateBlockAvailability for a block whose header is known.               *)
Availability(p, b) ==
    IF best[p] = NoBlock \/ ChainTrust[b] >= ChainTrust[best[p]] THEN [best EXCEPT ![p] = b]
    ELSE best

ActiveChain == Ancestors[tip]

AncestorAt(b, h) == CHOOSE a \in Ancestors[b] : Height[a] = h

-----------------------------------------------------------------------------
(* Connections.                                                             *)
InitializeNode(p) ==
    /\ conn[p] = "none"
    /\ conn' = [conn EXCEPT ![p] = "up"]
    /\ UNCHANGED <<status, tip, down, best, common, mapBlocksWait, pindexLastAccepted, handler, owed>>

(* The peer hangs up.  What is known of its chain is not looked at any more.*)
Disconnect(p) ==
    /\ conn[p] = "up"
    /\ conn' = [conn EXCEPT ![p] = "closing"]
    /\ best' = [best EXCEPT ![p] = NoBlock] /\ common' = [common EXCEPT ![p] = NoBlock]
    /\ UNCHANGED <<status, tip, down, mapBlocksWait, pindexLastAccepted, handler, owed>>

(* (A peer without downloads is taken off the count, too.)                  *)
ForgottenTwice(p) ==
    [down EXCEPT !.from = [b \in Block |-> IF @[b] = p THEN NoPeer ELSE @[b]],
                 !.list[p] = <<>>, !.count[p] = 0,
                 !.peers = @ - 1,
                 !.partial = {b \in @ : down.from[b] # p},
                 !.stalling = @ \ {p}]

(* FinalizeNode, which the socket thread calls once no handler holds a      *)
(* reference to the node.                                                   *)
Forgotten(p) ==
    [down EXCEPT !.from = [b \in Block |-> IF @[b] = p THEN NoPeer ELSE @[b]],
                 !.list[p] = <<>>, !.count[p] = 0,
                 !.peers = IF down.count[p] # 0 THEN @ - 1 ELSE @,
                 !.partial = {b \in @ : down.from[b] # p},
                 !.stalling = @ \ {p}]

FinalizeNode(p) ==
    /\ conn[p] = "closing" /\ handler.peer # p
    /\ conn' = [conn EXCEPT ![p] = "none"]
    /\ down' = Forgotten(p)
    /\ owed' = [q \in Honest |-> IF q = p THEN <<>> ELSE owed[q]]
    /\ UNCHANGED <<status, tip, best, common, mapBlocksWait, pindexLastAccepted, handler>>

Ready(p) == conn[p] = "up" /\ handler = Idle

-----------------------------------------------------------------------------
(* BLOCK_HAVE_DATA and BLOCK_FAILED_MASK.                                   *)
HaveData(b) == status[b] \in {"transactions", "invalid"}

Failed(b) == status[b] \in {"failed", "invalid"}

(* BLOCK_FAILED_VALID or BLOCK_FAILED_CHILD is set for some blocks.         *)
WithFailed(s, blocks) ==
    [c \in Block |-> IF c \notin blocks THEN s[c]
                     ELSE IF s[c] \in {"transactions", "invalid"} THEN "invalid" ELSE "failed"]

(* The blocks up to b that build on one of g_failed_blocks: on a block that *)
(* was stored and could not be connected.                                   *)
Doomed(b) == {a \in Ancestors[b] : \E f \in Ancestors[a] : status[f] = "invalid"}

(* A header is refused for its own mark, or when it is new, for that of its *)
(* parent or for a block further below that could not be connected (but not *)
(* for one that AcceptBlock refused).                                       *)
HeaderRefused(b) ==
    \/ Failed(b)
    \/ status[b] = "none" /\ (Failed(Parent[b]) \/ Doomed(Parent[b]) # {})

(* The block index after AcceptBlockHeader: a header that is refused for a  *)
(* block further below leaves its mark on the blocks in between.            *)
AcceptBlockHeader(b) ==
    IF status[b] # "none" \/ Failed(Parent[b]) THEN status
    ELSE IF Doomed(Parent[b]) # {} THEN WithFailed(status, Doomed(Parent[b]))
    ELSE [status EXCEPT ![b] = "header"]

(* ProcessHeadersMessage for headers that end in b, with or without a       *)
(* direct fetch.  The message has b and what the node lacks below it.       *)
Unknown(b) == {c \in Ancestors[b] : status[c] = "none"}

Headers(b) == [c \in Block |-> IF c \in Unknown(b) THEN "header" ELSE status[c]]

Missing(b) == {c \in Ancestors[b] \ ActiveChain : ~HaveData(c) /\ ~InFlight(c)}

(* The walk back from b reached the active chain before it gave up.         *)
DirectFetch(b) ==
    /\ ChainTrust[tip] <= ChainTrust[b]
    /\ \/ Cardinality(Missing(b)) <= MaxInTransit
       \/ /\ Cardinality(Missing(b)) = MaxInTransit + 1
          /\ \E c \in Missing(b) : /\ \A d \in Missing(b) : Height[c] <= Height[d]
                                   /\ Parent[c] \in ActiveChain

AcceptHeaders(p, b) ==
    /\ \A c \in Unknown(b) \cup {b} : ~HeaderRefused(c)
    /\ status' = Headers(b)
    /\ best' = Availability(p, b)
    /\ \/ UNCHANGED <<down, owed>>
       \/ DirectFetch(b) /\ \E blocks \in Ascending(Missing(b)) : Request(p, blocks)
    /\ UNCHANGED <<tip, conn, common, mapBlocksWait, pindexLastAccepted, handler>>

ProcessHeadersMessage(p, b) ==
    /\ Ready(p)
    /\ AcceptHeaders(p, b)

(* A header, of a headers or a compact block message, that is refused and   *)
(* leaves marks.  (The peer is banned: Disconnect.)                         *)
RefuseHeader(p, b) ==
    /\ Ready(p)
    /\ b # Genesis /\ status[Parent[b]] # "none" /\ HeaderRefused(b)
    /\ status' = AcceptBlockHeader(b)
    /\ UNCHANGED <<tip, down, conn, best, common, mapBlocksWait, pindexLastAccepted, handler, owed>>

-----------------------------------------------------------------------------
LastCommonAncestor(a, b) ==
    CHOOSE c \in Ancestors[a] \cap Ancestors[b] :
        \A d \in Ancestors[a] \cap Ancestors[b] : Height[d] <= Height[c]

(* The peer has something interesting.                                      *)
Interesting(p) == best[p] # NoBlock /\ ChainTrust[best[p]] >= ChainTrust[tip]

LastCommon(p) ==
    LET guess == IF common[p] # NoBlock THEN common[p]
                 ELSE IF Height[best[p]] < Height[tip] THEN AncestorAt(tip, Height[best[p]])
                 ELSE tip
    IN  LastCommonAncestor(guess, best[p])

(* FindNextBlocksToDownload walks from the last common block towards the    *)
(* peer's best block, up to one block beyond the window, and stops at a     *)
(* block that failed.                                                       *)
WindowEnd(last) == Height[last] + Window

Walk(p, last) ==
    {b \in Ancestors[best[p]] :
        /\ Height[b] > Height[last] /\ Height[b] <= WindowEnd(last) + 1
        /\ \A a \in Ancestors[b] : Height[a] > Height[last] => ~Failed(a)}

Free(p, last) == {b \in Walk(p, last) : ~HaveData(b) /\ ~InFlight(b)}

(* The blocks to ask for.                                                   *)
ToDownload(p, last) == {b \in Free(p, last) : Height[b] <= WindowEnd(last)}

(* The walk moves the last common block up to the last one that is stored.  *)
NewLastCommon(p, last) ==
    LET passed == {last} \cup {b \in Walk(p, last) : HaveData(b)}
    IN  CHOOSE b \in passed : \A c \in passed : Height[c] <= Height[b]

(* The peer that holds up the window: the one with the lowest block that is *)
(* in flight, when the only block to ask for is beyond the window.          *)
Staller(p, last) ==
    {q \in Peer \ {p} :
        /\ Free(p, last) # {} /\ ToDownload(p, last) = {}
        /\ \E b \in Walk(p, last) :
             /\ down.from[b] = q
             /\ \A c \in Walk(p, last) : InFlight(c) => Height[b] <= Height[c]}

(* The getdata part of SendMessages.                                        *)
SendMessages(p) ==
    /\ Ready(p)
    /\ down.count[p] < MaxInTransit
    /\ Interesting(p)
    /\ \E last \in {LastCommon(p)} :
         /\ common' = [common EXCEPT ![p] = NewLastCommon(p, last)]
         /\ IF down.count[p] = 0 /\ Staller(p, last) # {}
            THEN down' = [down EXCEPT !.stalling = @ \cup Staller(p, last)] /\ owed' = owed
            ELSE \E blocks \in Ascending(ToDownload(p, last)) : Request(p, blocks)
    /\ UNCHANGED <<status, tip, conn, best, mapBlocksWait, pindexLastAccepted, handler>>

(* The timeouts of SendMessages.  The download timeout is about the block   *)
(* at the front of the queue.                                               *)
StallTimeout(p) ==
    /\ Ready(p) /\ p \in down.stalling
    /\ Disconnect(p)

(* (Off by one: the last block in flight never times out.)                  *)
TimeoutUnlessLast(p, b) ==
    /\ Ready(p) /\ Len(down.list[p]) > 1 /\ Head(down.list[p]) = b
    /\ Disconnect(p)

DownloadTimeout(p, b) ==
    /\ Ready(p) /\ down.list[p] # <<>> /\ Head(down.list[p]) = b
    /\ Disconnect(p)

-----------------------------------------------------------------------------
(* BLOCK: a block that was asked for, or that connects, is filed under its  *)
(* predecessor.                                                             *)
Welcome(b) ==
    /\ b # Genesis /\ status[Parent[b]] # "none"
    /\ InFlight(b) \/ status[Parent[b]] = "transactions"

BlockMessage(p, b) ==
    /\ Ready(p) /\ Welcome(b)
    /\ mapBlocksWait' = [mapBlocksWait EXCEPT ![Parent[b]] = b]
    /\ pindexLastAccepted' = IF pindexLastAccepted = NoBlock THEN tip ELSE pindexLastAccepted
    /\ handler' = [at |-> "loop", peer |-> p, block |-> NoBlock, own |-> b, forced |-> FALSE, next |-> "idle"]
    /\ UNCHANGED <<status, tip, down, conn, best, common>>

Waiting == {prev \in Block : mapBlocksWait[prev] # NoBlock}

(* A waiting block goes to ProcessNewBlock.                                 *)
Select(prev) ==
    LET b == mapBlocksWait[prev] IN
    /\ mapBlocksWait' = [mapBlocksWait EXCEPT ![prev] = NoBlock]
    /\ down' = MarkBlockAsReceived(down, b)
    /\ handler' = [handler EXCEPT !.at = "process", !.block = b, !.forced = InFlight(b), !.next = "loop"]
    /\ UNCHANGED <<status, tip, conn, best, common, pindexLastAccepted, owed>>

SelectNext ==
    /\ handler.at = "loop"
    /\ pindexLastAccepted \in Waiting
    /\ Select(pindexLastAccepted)

SelectByScan(prev) ==
    /\ handler.at = "loop"
    /\ pindexLastAccepted \notin Waiting
    /\ prev \in Waiting /\ status[prev] = "transactions"
    /\ Select(prev)

(* A block whose predecessor failed, or that has waited for a minute.  The  *)
(* block of this very message is not that old.                              *)
DropWaiting(prev) ==
    /\ handler.at = "loop"
    /\ pindexLastAccepted \notin Waiting
    /\ prev \in Waiting
    /\ Failed(prev) \/ mapBlocksWait[prev] # handler.own
    /\ mapBlocksWait' = [mapBlocksWait EXCEPT ![prev] = NoBlock]
    /\ down' = MarkBlockAsReceived(down, mapBlocksWait[prev])
    /\ UNCHANGED <<status, tip, conn, best, common, pindexLastAccepted, handler, owed>>

(* The scan finds nothing to do.                                            *)
LoopEnds ==
    /\ handler.at = "loop"
    /\ pindexLastAccepted \notin Waiting
    /\ \A prev \in Waiting : status[prev] = "header"
    /\ handler' = Idle
    /\ UNCHANGED <<status, tip, down, conn, best, common, mapBlocksWait, pindexLastAccepted, owed>>

(* AcceptBlock: whether it succeeds, and the block index after it.          *)
AcceptBlock(b, forced) ==
    LET known == AcceptBlockHeader(b) IN
    IF HeaderRefused(b) \/ status[Parent[b]] # "transactions" THEN [ok |-> FALSE, status |-> known]
    ELSE IF HaveData(b) \/ (~forced /\ ChainTrust[b] < ChainTrust[tip]) THEN [ok |-> TRUE, status |-> known]
    ELSE IF b \in Refused THEN [ok |-> FALSE, status |-> [status EXCEPT ![b] = "failed"]]
    ELSE [ok |-> TRUE, status |-> [status EXCEPT ![b] = "transactions"]]

(* A copy with other transactions does not get past CheckBlock.             *)
Outcome(b, forced) ==
    {AcceptBlock(b, forced)} \cup {out \in {[ok |-> FALSE, status |-> status]} : b \in Mutated}

(* ActivateBestChain once block b may have been stored: it becomes the tip, *)
(* or one of its branch cannot be connected, and from there on it fails.    *)
ActivateBestChain(out, b) ==
    LET better == out.ok /\ out.status[b] = "transactions" /\ ChainTrust[b] > ChainTrust[tip]
        bad == {c \in Ancestors[b] : ~(Ancestors[c] \subseteq Valid)}
    IN  /\ tip' = IF better /\ bad = {} THEN b ELSE tip
        /\ status' = IF better THEN WithFailed(out.status, bad) ELSE out.status

ProcessNewBlock ==
    LET b == handler.block IN
    /\ handler.at = "process"
    /\ \E out \in Outcome(b, handler.forced) :
         /\ ActivateBestChain(out, b)
         /\ pindexLastAccepted' = IF handler.next # "loop" THEN pindexLastAccepted
                                  ELSE IF out.ok THEN b ELSE NoBlock
    /\ handler' = CASE handler.next = "idle" -> Idle
                    [] handler.next = "loop" -> [handler EXCEPT !.at = "loop", !.block = NoBlock, !.forced = FALSE]
                    [] handler.next = "mark" -> [handler EXCEPT !.at = "mark"]
    /\ UNCHANGED <<down, conn, best, common, mapBlocksWait, owed>>

(* submitblock, generatetoaddress and the minter: the block is processed as *)
(* if requested, and the download state is not looked at.                   *)
SubmitBlock(b) ==
    /\ status[Parent[b]] # "none" /\ ~HaveData(b) /\ ~Failed(b)
    /\ ActivateBestChain(AcceptBlock(b, TRUE), b)
    /\ UNCHANGED <<down, conn, best, common, mapBlocksWait, pindexLastAccepted, handler, owed>>

-----------------------------------------------------------------------------
(* Compact blocks.  The outcome of putting one together from the mempool,   *)
(* or from the transactions of a BLOCKTXN message: "invalid", "missing"     *)
(* (transactions or the whole block are asked for), "read".                 *)
Outcomes == {"invalid", "missing", "read"}

Reconstruct(d, p, b, outcome) ==
    /\ down' = IF outcome = "missing" THEN d ELSE MarkBlockAsReceived(d, b)
    /\ handler' = IF outcome = "read"
                  THEN [at |-> "process", peer |-> p, block |-> b, own |-> NoBlock, forced |-> TRUE, next |-> "idle"]
                  ELSE Idle

(* The block is worth having: not stored, and better than the tip.          *)
Wanted(b) == ~HaveData(b) /\ ChainTrust[b] > ChainTrust[tip]

CompactBlock(p, b) ==
    /\ Ready(p)
    /\ b # Genesis /\ status[Parent[b]] # "none" /\ ~HeaderRefused(b)
    /\ status' = AcceptBlockHeader(b)
    /\ best' = Availability(p, b)
    /\ \/ UNCHANGED <<down, handler>>   \* not wanted, or too early for direct fetches
       \/ /\ Wanted(b) /\ Height[b] <= Height[tip] + CompactDepth
          /\ \/ ~InFlight(b) /\ down.count[p] < MaxInTransit
             \/ down.from[b] = p /\ b \notin down.partial
          /\ \E outcome \in Outcomes :
               Reconstruct([MarkBlockAsInFlight(down, p, b) EXCEPT !.partial = @ \cup {b}], p, b, outcome)
       \/ /\ Wanted(b) /\ Height[b] <= Height[tip] + CompactDepth
          /\ IF InFlight(b) THEN down.from[b] # p ELSE down.count[p] >= MaxInTransit
          /\ handler' = [at |-> "process", peer |-> p, block |-> b, own |-> NoBlock, forced |-> TRUE, next |-> "mark"]
          /\ down' = down
    /\ UNCHANGED <<tip, conn, common, mapBlocksWait, pindexLastAccepted, owed>>

(* A compact block that is far above the tip is treated as a header.        *)
FarCompactBlock(p, b) ==
    /\ Ready(p)
    /\ b # Genesis /\ status[Parent[b]] # "none" /\ ~HeaderRefused(b)
    /\ Wanted(b) /\ ~InFlight(b) /\ Height[b] > Height[tip] + CompactDepth
    /\ AcceptHeaders(p, b)

BlockTxn(p, b) ==
    /\ Ready(p)
    /\ down.from[b] = p /\ b \in down.partial
    /\ \E outcome \in Outcomes : Reconstruct(down, p, b, outcome)
    /\ UNCHANGED <<status, tip, conn, best, common, mapBlocksWait, pindexLastAccepted, owed>>

(* (The request to the other peer is left standing.)                        *)
UnmarkedReconstruction ==
    /\ handler.at = "mark"
    /\ handler' = Idle
    /\ UNCHANGED <<status, tip, down, conn, best, common, mapBlocksWait, pindexLastAccepted, owed>>

(* After an optimistic reconstruction the block is no longer in flight from *)
(* the other peer if it is valid: IsValid(BLOCK_VALID_TRANSACTIONS).        *)
MarkReconstructed ==
    /\ handler.at = "mark"
    /\ down' = IF status[handler.block] = "transactions" THEN MarkBlockAsReceived(down, handler.block)
               ELSE down
    /\ handler' = Idle
    /\ UNCHANGED <<status, tip, conn, best, common, mapBlocksWait, pindexLastAccepted, owed>>

-----------------------------------------------------------------------------
Handle ==
    \/ SelectNext \/ LoopEnds \/ ProcessNewBlock \/ MarkReconstructed
    \/ \E prev \in Block : SelectByScan(prev) \/ DropWaiting(prev)

(* What any peer may do.                                                    *)
AnyPeer(p) ==
    \/ Disconnect(p)
    \/ \E b \in Block :
         \/ ProcessHeadersMessage(p, b)
         \/ RefuseHeader(p, b)
         \/ BlockMessage(p, b) /\ UNCHANGED owed
         \/ CompactBlock(p, b)
         \/ FarCompactBlock(p, b)
         \/ BlockTxn(p, b)

(* An honest peer answers each request once, in their order.                *)
Answer(p) ==
    /\ Ready(p) /\ owed[p] # <<>>
    /\ owed' = [owed EXCEPT ![p] = Tail(@)]
    /\ \/ BlockMessage(p, Head(owed[p]))
       \/ /\ ~Welcome(Head(owed[p]))
          /\ UNCHANGED <<status, tip, down, conn, best, common, mapBlocksWait, pindexLastAccepted, handler>>

HonestPeer(p) == ProcessHeadersMessage(p, Target) \/ Answer(p)

(* An honest peer answers before the node gives up on it.                   *)
GivesUp(p) ==
    /\ p \in Honest => owed[p] = <<>>
    /\ StallTimeout(p) \/ \E b \in Block : DownloadTimeout(p, b)

Node(p) == InitializeNode(p) \/ FinalizeNode(p) \/ SendMessages(p) \/ GivesUp(p)

Next ==
    \/ Handle
    \/ \E b \in Local : SubmitBlock(b)
    \/ \E p \in Peer : Node(p)
    \/ \E p \in Honest : HonestPeer(p)
    \/ \E p \in Peer \ Honest : AnyPeer(p)

(* The threads run: a handler is finished, a node that is closing is        *)
(* finalized, and the message handler comes round to every peer.            *)
Threads ==
    /\ WF_vars(Handle)
    /\ \A p \in Honest : WF_vars(FinalizeNode(p)) /\ WF_vars(SendMessages(p)) /\ WF_vars(GivesUp(p))

(* An honest peer connects again, announces its chain and answers.          *)
Honesty ==
    \A p \in Honest :
        WF_vars(InitializeNode(p)) /\ WF_vars(ProcessHeadersMessage(p, Target)) /\ WF_vars(Answer(p))

Spec == Init /\ [][Next]_vars /\ Threads /\ Honesty

-----------------------------------------------------------------------------
(* mapBlocksInFlight, the queues and counters of the peers and the number   *)
(* of peers with downloads agree, whatever peers send and whenever they go; *)
(* the asserts in FinalizeNode follow.                                      *)
Exact(d) ==
    /\ \A p \in Peer, b \in Block : d.from[b] = p <=> \E i \in DOMAIN d.list[p] : d.list[p][i] = b
    /\ \A p \in Peer : \A i, j \in DOMAIN d.list[p] : d.list[p][i] = d.list[p][j] => i = j
    /\ \A p \in Peer : d.count[p] = Len(d.list[p])
    /\ d.peers = Cardinality({p \in Peer : d.list[p] # <<>>})

InFlightExact ==
    /\ Exact(down)
    /\ \A p \in Peer : conn[p] = "none" => down.list[p] = <<>>

(* A peer is never asked for more than MAX_BLOCKS_IN_TRANSIT_PER_PEER.      *)
TransitLimit == \A p \in Peer : Len(down.list[p]) <= MaxInTransit

(* A block that a peer brought, and that is stored and valid, is no longer  *)
(* in flight once its handler is done, whichever message it came in and     *)
(* whoever had been asked for it: it is not downloaded twice, and no peer   *)
(* is blamed for it.  (Two kinds of stored blocks may stay in flight until  *)
(* the peer answers or times out: one that was put together from a compact  *)
(* block and then failed to connect, and one that was submitted locally.)   *)
StoredNotInFlight ==
    \A b \in Block \ Local : status[b] = "transactions" /\ InFlight(b) =>
        handler.at = "mark" /\ handler.block = b

(* Only a peer with a block in flight is held to be stalling.               *)
StallersHaveBlocks == \A p \in down.stalling : down.list[p] # <<>>

(* Whatever the other peers sent, withheld or overwrote in mapBlocksWait,   *)
(* once they are gone an honest peer is enough to get the best chain.       *)
DownloadCompletes ==
    (Honest # {} /\ <>[](\A p \in Peer \ Honest : conn[p] = "none")) => <>[](tip = Target)
=============================================================================
