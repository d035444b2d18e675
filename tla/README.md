# TLA+ verification of the Oblivion node

Oblivion is a proof-of-stake/proof-of-work node derived from Bitcoin Core 0.16
and Peercoin. This directory holds TLA+ models of its parts, the TLC
configurations that check them on small instances, and theorems that TLAPS
proves for every value of the constants. Paths below are relative to
`src/src/`.

## 1. The system and its parts

| part | code | model |
|---|---|---|
| block index and chain selection | `validation.cpp` (`CChainState`), `chain.h` | `BlockTree`, `ChainState`; `ChainStateProof`, `ChainValidityProof` |
| consensus rules, stake kernel | `validation.cpp`, `kernel.cpp` | outcomes only: the constant `Verdict` of `ChainState` |
| coins cache | `coins.cpp` | `Coins` (the promise), `CoinsCache`; `CoinsCacheProof` |
| chain state on disk, crash recovery | `txdb.cpp`, `FlushStateToDisk`, `ReplayBlocks` | `DurableTip` (the promise), `Recovery`; `RecoveryProof` |
| script check queue | `checkqueue.h` | `CheckQueue`; `CheckQueueProof` |
| scheduler, validation interface | `scheduler.cpp`, `validationinterface.cpp`, `Shutdown` | `CallbackQueue`; `CallbackQueueProof` |
| block download | `net_processing.cpp` | `BlockDownload`; `BlockDownloadProof` |
| synchronised checkpoints | `checkpointsync.cpp` | `SyncCheckpoint`; `SyncCheckpointProof` |

The other parts are in section 6, with the reason for each. `PROJECT.json` lists
all of them, the lines each definition stands for, and the hazards of the code at
the line where each of them bites.

How the parts interact: peers, the import thread, `submitblock` and the minter
hand blocks to `CChainState`, which files them in the block index and then calls
`ActivateBestChain` (`ChainState`). Which block is asked of which peer, and what
waits in memory for its predecessor, is `BlockDownload`. `ActivateBestChain`
connects and disconnects blocks one at a time: their scripts go through the check
queue (`CheckQueue`), their coins through a view over `pcoinsTip` (`CoinsCache`),
their notifications through the scheduler (`CallbackQueue`). From time to time the
caches are flushed (`Recovery`). Checkpoint messages are handled, and pending
checkpoints accepted, as blocks arrive (`SyncCheckpoint`). The operator can
interfere with `preciousblock`, `invalidateblock` and `reconsiderblock`.

## 2. Modules

**`BlockTree`** is the tree of headers: parent, ancestors, height and trust as
constant functions. Its assumption `TreeAssumption` is the shape that
`AddToBlockIndex` gives the tree (height and ancestors come from the parent,
trust grows along a chain).

**`ChainState`** is `CChainState`. Its state is the block index
(`nStatus` split into `valid`, `data`, `failedValid`, `failedChild`; `nChainTx` as
`linked`; `nSequenceId`; the address of the entry, on which the comparator falls
back), the sets `setBlockIndexCandidates`, `mapBlocksUnlinked` and
`g_failed_blocks`, the tip, the two best-block pointers, the counters, and the
locals of the thread inside `ActivateBestChain`.

| action | code |
|---|---|
| `AcceptHeader`, `RejectHeader` | `ProcessNewBlockHeaders`, `AcceptBlockHeader` |
| `ProcessNewBlock`, `LoadExternalBlock` | `ProcessNewBlock`, `LoadExternalBlockFile`, both through `AcceptBlock` |
| `LinkNext` | one turn of the loop of `ReceivedBlockTransactions` |
| `Start`, `LockMain`, `UnlockMain`, `TestProgress` | the two loops of `ActivateBestChain` |
| `FindMostWorkChain` | one turn of its loop |
| `BeginStep`, `DisconnectTip`, `ConnectNext`, `EndStep` | `ActivateBestChainStep` |
| `PreciousBlock`, `InvalidateBlock`, `ResetBlockFailureFlags` | the operator's requests, with the `ActivateBestChain` that follows each |
| `Restart` | clean shutdown, `LoadBlockIndex`, `LoadChainTip` |
| `RequestActivation` | callers of `ActivateBestChain` in other files |

Atomicity follows the locks. Every operation holds `cs_main`; while the linking
loop runs (`queue` is not empty) or the activating thread is inside a round,
nothing else happens, which is `MainFree`. `ActivateBestChain` holds
`m_cs_chainstate` throughout but releases `cs_main` between two rounds
(`pc = "lock"`), and there every other operation may interleave.

What validating a block finds is the constant `Verdict`: `badContext` is refused on
arrival; `badStake` is refused on arrival from a peer and when connected after an
import, which does not check stake; `badConnect` fails in `ConnectBlock`;
`noKernel` makes `CheckProofOfStake` return an error that is not a verdict;
`corrupt` is a valid block whose copy on disk no longer passes `CheckBlock`; it can
still be connected while it is `pindexMostWork`, from the copy `ProcessNewBlock`
holds in memory.

Abstractions: validity is the level and the two failure bits; notifications,
logging, the mempool, undo data and pruning (this code base does not prune) are
left out. A failing disk ends the process and is not modelled. The operator does
not invalidate the genesis block, which would leave the node without a tip.
The peer temperature of `ProcessNewBlockHeaders` and the table of seen stakes of
`ProcessNewBlock` do not influence the chain state and are left out.
`Verdict` does not depend on the order of arrival; two places where the code does
(`ContextualCheckBlock` reads `nPOWBlockHeight` of a parent that may not be
connected, `CheckProofOfStake` reads the transaction index) are listed as hazards.
On a restart, `bestInvalid` is any of the invalid blocks with the most trust, where
the code takes the first of them by height and address.

**`CheckQueue`** is `CCheckQueue` with `CCheckQueueControl`. A step is one critical
section of the queue's mutex or the execution of a batch outside it. `Settle` is
the part of `Loop` behind the clean-up: the thread goes to sleep, returns, or takes
a batch. Condition variables are modelled from their use: a notification wakes one
or all of the threads that wait, a thread may wake for no reason, and a worker may
be interrupted in a wait. A check is its result. The thread that is the master is not
interrupted here.

**`CoinsCache`** is two `CCoinsViewCache`s over a database: `pcoinsTip`, and the view
a block is connected or disconnected in. An entry has its coin and its flags. One
action per operation of the class; `possible_overwrite` is passed as the callers
pass it. **`Coins`** is what they promise: three plain maps, where changes reach the
next one as a whole. `CoinsCache` is shown to implement `Coins` by mapping each
cache to what it answers (`Views`).

**`Recovery`** is the order of the writes: `FlushIndex` is the synced write of block
files and index in `FlushStateToDisk`, `WritePartialBatch` and `WriteFinalBatch` are the
batches of `CCoinsViewDB::BatchWrite`, and `Restart` is `LoadBlockIndex` with
`ReplayBlocks`, of which the flush can be interrupted again. A coin is the block
that made it, so that a transaction confirmed on two branches makes different
coins of one outpoint. No transaction makes an output that is still unspent
(`NoOverwrite`, section 4). LevelDB is external: a batch is atomic, a crash of the
process keeps the batches written, a power failure keeps some prefix of them
(`stable`, `WriteBack`). **`DurableTip`** is the promise: the chain state is that of
one block and changes atomically; a crash goes back to the last flush.

**`CallbackQueue`** is the path of a validation callback: `AddToProcessQueue`,
`MaybeScheduleProcessQueue` (`Check`, `Schedule`, `Notify`), the loop of
`serviceQueue` (`Top`, `Take`), `ProcessQueue` with its RAII release (`Process`,
`Callback`, `Release`), `SyncWithValidationInterfaceQueue`, and the end in `Shutdown`:
interrupt, join, a last `FlushStateToDisk`, `EmptyQueue`. All tasks are due at once.
An interruption arrives at a wait, as in the code. `Shutdown` joins the message handler
and the RPC threads first, so that these posters are idle when it interrupts the
thread group. `ThreadImport` and `ThreadStakeMinter` (`Group`) are in that group
themselves: they may be anywhere then, and end at their next interruption point
(`Exit`). They come to `SyncWithValidationInterfaceQueue` through `ActivateBestChain`, when
more than `PendingLimit` callbacks are pending; its wait is not an interruption point.

**`BlockDownload`** is the download state of `net_processing.cpp`: `mapBlocksInFlight`,
the queue and the counter of each peer, `nPeersWithValidatedDownloads`, partially
downloaded blocks, stalling peers, and this code base's own `mapBlocksWait` with
`pindexLastAccepted`.

| action | code |
|---|---|
| `InitializeNode`, `FinalizeNode`, `Disconnect` | connections come and go |
| `ProcessHeadersMessage` | headers, with the direct fetch |
| `SendMessages` | `FindNextBlocksToDownload` and the request, or the mark of a staller |
| `StallTimeout`, `DownloadTimeout` | the disconnections in `SendMessages` |
| `BlockMessage`, `SelectNext`, `SelectByScan`, `DropWaiting`, `LoopEnds` | BLOCK: a block is filed under its predecessor, then as many as possible are processed |
| `CompactBlock`, `FarCompactBlock`, `BlockTxn`, `MarkReconstructed` | CMPCTBLOCK, BLOCKTXN |
| `ProcessNewBlock` | the call that follows, with `cs_main` released before it: `CheckBlock`, `AcceptBlock`, `ActivateBestChain` |
| `RefuseHeader` | a header, also of a compact block, that `AcceptBlockHeader` refuses with marks on the blocks below it |
| `SubmitBlock` | `submitblock`, `generatetoaddress`, the minter |

Honest peers (external) announce the chain of `Target` and answer each request;
other peers announce, send, withhold, repeat and leave as they like. Time is
abstract: a timeout may strike whenever its condition can hold, except that an
honest peer answers before the node gives up on it, and that the block of a
message does not grow a minute old while the message is handled. The witness
flags and `nMinimumChainWork`, which all blocks here exceed, are left out, and so is
`fTooFarAhead`, 288 blocks being more than an instance has.

What becomes of a block is said by constants. `AcceptBlock` stores all blocks but
those of `Refused`; `ConnectBlock` accepts those of `Valid`. A stored block that fails to
connect becomes `"invalid"`, with its descendants on the branch that was tried, and
headers above it are refused. Of a block in `Mutated` a copy with other transactions
goes round, which `CheckBlock` refuses without a mark. `Local` blocks are also submitted
to this node by RPC or found by the minter, which store them without a look at the
download state. Storing and connecting a block are one step.

**`SyncCheckpoint`** is a network of nodes: a master sends checkpoints, the others
process, keep as pending, accept with the block they wait for, and relay. The master
sends from two threads, its operator's RPC thread and the message handler that has
processed a block; `ProcessSyncCheckpoint` is under a lock and the relay behind it
is not (`Process`, `RelayCheckpoint`), so that another checkpoint may be accepted in
between. Links are FIFO and what is on a link is lost with it. A connection goes
through its handshake: with the peer's VERSION the node sends the checkpoint message
it has (`Version`); `ForEachNode` reaches the peer only after its VERACK (`Verack`). A
node learns headers and blocks in any order the tree allows. Every start, also the
master's, writes the genesis block over the stored checkpoint (`init.cpp:1323`), which
is `Restart`. `issued` and `dropped` are history: the checkpoints the master has accepted,
and those that some node has let go of. The code is compiled under
`ENABLE_CHECKPOINTS`.

Each `MC...` module defines an instance. Operators named in `PROJECT.json` under
`mutants` (`AllButFailed`, `OneRoundOnly`, ...) are deliberately wrong versions of
the definition that follows them; they are not part of the specification and serve
to show that each property can fail.

## 3. What the runs check

| run | instance | what it shows |
|---|---|---|
| `peers` | branch `a1 a2 a3` with the most trust, failing at `a2`, against `b1`; peers, imports, `preciousblock` | `ActivateBestChain` returns (`ActivationEnds`), the best valid chain that arrived becomes active (`BestChainActivated`), no failed block is in the active chain (`ActiveChainValid`), `cs_main` is never released on a tip worse than the valid one the round began with (`ForwardProgress`), and no block that could be the tip is forgotten (`CandidatesComplete`) |
| `restart` | branches `a1 a2`, `b1 b2` and `c1`: `a2` corrupt on disk, `b2` without kernel, `c1` with bad stake; two orders of addresses; imports and restarts | `LinkedIffProcessed`, `UnlinkedExact`, `FailureHasCause` across any number of restarts, with the marks that were never written lost or kept |
| `operator` | a fork above `a1` whose one side goes on to `a3`, refused on arrival; imports, `invalidateblock`, `reconsiderblock` at any point | every candidate can be connected from what is stored (`CandidatesLinked`); the assertion on `g_failed_blocks` holds (`FailedBlocksMarked`) |
| `stale_most_work` | `invalidateblock` only | violated: `ActiveChainValid` |
| `lost_progress` | `invalidateblock` and `reconsiderblock` | violated: `ForwardProgress` |
| `corrupt` | peers only, `a2` corrupt on disk | violated: `ActivationEnds` |
| `checkqueue` | 2 workers, 2 masters, 4 checks of which one fails, batches of 2 | `nTodo` stands for the checks that are left (`TodoExact`); `Wait` returns (`WaitReturns`) the verdict of its own block (`VerdictExact`) and leaves nothing behind (`NothingLeft`) |
| `coins` | 2 outpoints and an unspendable one, 2 coins, 2 block hashes | the caches implement plain maps (`ImplementsViews`); the flags are truthful (`FlagsTruthful`); no `logic_error` is thrown (`NoLogicError`) |
| `recovery` | a fork of two blocks against two, one transaction in both, an output spent in its own block | after a crash at any write the coins are those of the tip (`CoinsMatchTip`, `DiskMatchesBest`); recovery always finds what it needs (`NeverStuck`); the `assert` of `BatchWrite` holds (`FlushesToHead`); the whole implements `DurableTip` |
| `callbacks` | 2 service threads, an RPC thread, the minter, 3 callbacks, a shutdown at any time | one callback at a time (`Serial`), in order (`InOrder`), none forgotten (`NotForgotten`) or dropped (`NothingDropped`); waits and shutdowns end, with one deadlock as the only exception (`SyncReturns`, `EveryCallbackRuns`, `ShutdownEnds`) |
| `blockdownload` | an honest and another peer; siblings `a2`, `b2`, the latter fails to connect, is also submitted locally and has a refused block above it; one block in transit, a window of one | the books agree (`InFlightExact`), within the limit of a peer (`TransitLimit`); no stored and valid block of a peer's stays in flight (`StoredNotInFlight`); once the other peer is gone the chain is downloaded (`DownloadCompletes`) |
| `checkpoint` | a master and a node; a chain of two blocks and a fork; one fault, a broken link or a restart of either | unless the master contradicts itself after a restart, checkpoints are on one chain (`CheckpointsAgree`), without false warnings (`NoFalseWarning`), and reach everyone but for two races (`CheckpointsSpread`); they move forwards (`OnlyDescendants`) |

A few simpler invariants are not repeated in the runs because section 4 proves them for
every instance: `ScriptsInOrder`, `StoredIffReceived`, `GenesisCandidate`,
`CountersExact`, `NoLostWakeup`, `StallersHaveBlocks`, and `TypeOK` of `CheckQueue`,
`CoinsCache`, `CallbackQueue` and `SyncCheckpoint`.

### Fairness

* `ChainState`: weak fairness of the linking loop and of the thread in
  `ActivateBestChain`. Both only wait for locks whose holders go on running, and a
  caller that is about to activate the chain does. Peers, imports and the operator
  owe nothing.
* `CheckQueue`: weak fairness of `Loop` for each thread. The mutex is held for a
  moment at a time and checks terminate. A wait ends only if someone ends it, so
  `WaitReturns` depends on the notifications; spurious wake-ups are not counted on.
* `CallbackQueue`: weak fairness of each thread that is not blocked; callbacks
  return; a thread of the group that has been interrupted comes to an interruption
  point, as its loop has one. Nobody is obliged to post or to shut down.
* `BlockDownload`: handlers finish, and the nodes of honest peers are finalized when
  closing and come round in the message handler, as in its loop; an honest peer reconnects,
  announces and answers. Nothing is assumed of other peers; `DownloadCompletes` is
  about the time after they are gone, because a peer that is connected can go on
  announcing and withholding.
* `SyncCheckpoint`: blocks reach every node, a thread that has accepted a checkpoint
  relays it, messages on a link are handled, broken links are made again. The number
  of faults is bounded by `MaxFaults`. Nobody is obliged to send a checkpoint.
* `CoinsCache` and `Recovery` have safety properties only and no fairness.

### Bounds

The instances of `ChainState` have four or five blocks besides the genesis block at
most: enough for two branches that overtake each other, a failure below the best
candidate, a candidate above a failed block, and a block that waits for an
ancestor. Every order and number of arrivals, restarts and requests is explored.
`MinBlocksToKeep` and `MinimumChainWork` are 1, so that both tests of an unrequested
block refuse some block; `MinSequenceId` is chosen so that the reverse counter
saturates. The operator's requests are split over several runs, because together
they exceed what TLC explores in minutes. Liveness is checked without restarts,
since a node that is restarted for ever activates nothing.

`CheckQueue`: two masters, so that one block follows another; a batch limit that is
reached. `Recovery`: a reorganisation with blocks on both sides, and a transaction
on both, is the case in which a replay meets coins of either branch. `CallbackQueue`:
`MaxCallbacks` bounds the callbacks posted; three let one run, one wait and one be
posted, and with `PendingLimit` 0 the minter waits behind a single one, so that the
deadlock occurs. The properties also hold with `PendingLimit` 1 and four callbacks
(254,299 states). `BlockDownload`: `MaxInTransit` and `Window` are 1, so that the limit,
the end of the window and a staller all occur with two peers. What `StoredNotInFlight`
excepts does happen: in the run a submitted block stays in flight, valid or not, and
with two peers neither of which is honest so does a reconstructed block that fails to
connect. The properties also hold on a tree with one block more above `b3`, where a
refused header marks blocks further below (1,029,864 states). `SyncCheckpoint`: the fork
lets the operator send conflicting checkpoints, and a restarted master does accept
one on the other branch. The properties also hold with two faults (406,759 states) and
with three nodes in a line and one fault (1,020,170 states). The proofs of section 4
have none of these bounds, except that `MaxCallbacks` and `MaxFaults` are some number.

### Where the code and its own statements disagree

* `stale_most_work`: the cached `pindexMostWork` is followed after
  `invalidateblock` marked a block on the way, between two rounds. The failed
  block becomes part of the active chain, of which `FindMostWorkChain` says "we
  know all blocks in it are valid already". (With a third block on such a chain,
  `ScriptsInOrder` fails too: a failed block is connected without its level being
  raised.)
* `lost_progress`: `reconsiderblock` on a descendant clears the marks of its
  ancestors, but makes only the descendants candidates again. If the
  descendant then fails, the node leaves the valid ancestor for a worse tip,
  where the comment demands "forward progress".
* `corrupt`: a failure with `CorruptionPossible` marks nothing, so
  `FindMostWorkChain` returns the same block for ever and the function, whose
  "result is either failure or an activated best chain", does not return.

The same models show smaller disagreements with the assertions of
`CheckBlockIndex` (off by default) when the operator's requests are added to the
other instances: with `invalidate` and `reconsider`, `FailureHasCause` fails
(`reconsiderblock` on one child leaves its sibling marked) and so does
`CandidatesComplete` (the cause of `lost_progress`); with `import` as well,
`UnlinkedExact` fails (a block stored under a failed parent is never filed). And
`setBlockIndexCandidates` is never pruned, so that it keeps blocks worse than the
tip, contrary to the comment on it.

The models also show behaviour that contradicts no statement in the code but that
a reader should know:

* a sibling overwrites the block that waits for the same predecessor in
  `mapBlocksWait`; the request stands until a timeout disconnects a peer that has
  answered. Blocks that wait are looked at only when the next BLOCK message comes;
* a child of a block that is only a header may be processed, refused and lost
  when that block is `pindexLastAccepted`;
* a block that is put together from a compact block while it is in flight from
  another peer, and that is stored and then fails to connect, stays in flight, since
  `IsValid` is tested after the attempt; and so does a requested block that is submitted
  locally. The request ends with the peer's answer or its timeout;
* a checkpoint message for an unknown block replaces the pending one, and an older
  message that is accepted clears a newer pending one. A late relay can bring
  the older message after the newer one, because relaying is outside the lock;
* `ForEachNode` skips a peer whose VERACK has not come. A checkpoint accepted after the
  node answered the peer's VERSION and before that is not sent to the peer at all.
  These two are the exceptions (`dropped`) of `CheckpointsSpread`, which fails without
  them;
* a master that is restarted has the genesis block as its checkpoint and accepts one
  on any branch. If that is another branch than before, nodes that still hold the
  old one refuse it and warn. This is the exception `MasterConsistent`, without which
  `CheckpointsAgree` and `NoFalseWarning` fail;
* a thread of the thread group (import, minter) that is inside
  `SyncWithValidationInterfaceQueue`, called by `ActivateBestChain` (`validation.cpp:2401`),
  when `interrupt_all` ends the service threads waits for ever, and `Shutdown` waits in
  `join_all` for it. This is `Deadlocked`, which is reached in the `callbacks` run;
  `SyncReturns`, `EveryCallbackRuns` and `ShutdownEnds` say that nothing else hangs, and
  `DeadlockIsFinal` (section 4) that nobody resolves it.

## 4. What is proved

All theorems hold for every finite block tree that satisfies `TreeAssumption`, and
for all constants that satisfy the named assumptions of the module.

**Chain state, every operation allowed** (`ChainStateProof`)

| theorem | says |
|---|---|
| `Inductive` | `Spec => []IndInv` |
| `TypeCorrect` | `Spec => []TypeOK` |
| `CandidatesAlwaysLinked` | the assertion of `FindMostWorkChain` never fails, and its missing-data branch is never taken |
| `AlwaysACandidate` | the genesis block stays a candidate, so `FindMostWorkChain` never returns `nullptr` |
| `FailedBlocksAlwaysMarked` | the assertion of `AcceptBlockHeader` never fails |
| `AlwaysStoredIffReceived` | `BLOCK_VALID_TRANSACTIONS` and stored data come together |

None of these is inductive alone. `IndInv` adds: ancestors of known headers are
known, only known blocks other than the genesis block are marked
(`IndexInv`); linked blocks are stored and closed under ancestors, candidates are
linked, and what waits in the deque has a linked parent (`LinkInv`); the tip and
the cached `pindexMostWork` are linked although the latter outlives the lock
(`ThreadInv`). The genesis block stays a candidate because the walk of
`FindMostWorkChain` stops at the active chain, which contains it. There is one
lemma per action; `NextInd` joins them.

**Chain state, with part of the operations** (`ChainValidityProof`, on top of `IndInv`)

| theorem | says | assumes |
|---|---|---|
| `ChainsAlwaysValid`, `ActiveChainAlwaysValid` | `[]ActiveChainValid` | no `invalidateblock` |
| `ScriptsAlwaysInOrder` | `[]ScriptsInOrder` | no `invalidateblock` |
| `FailureAlwaysHasCause` | `[]FailureHasCause` | no `reconsiderblock` |
| `BlocksAlwaysWait`, `LinkedAlwaysExact`, `UnlinkedAlwaysExact` | `[]LinkedIffProcessed`, `[]UnlinkedExact` | neither (`MarksStay`) |
| `RoundsInvariant`, `AlwaysForward`, `CandidatesAlwaysComplete` | `[]ForwardProgress`, `[]CandidatesComplete` | `MarksStay`, and no block without kernel (`NoSystemError`) |

The assumptions are those the code needs: `invalidateblock` may mark a block below
the cached `pindexMostWork` (`stale_most_work`); `reconsiderblock` removes a mark but
leaves marks derived from it (`lost_progress`); a kernel that is not indexed makes
`ActivateBestChain` return with a lower tip. `ValidChains` says that neither the tip's
chain nor that of `pindexMostWork` holds a failed block. `WaitingInv` says where each
stored block that is not linked waits. `RoundInv` and `CompleteInv` follow a round of
`ActivateBestChain`: candidates are measured by the tip the round found, that tip
stays valid, and what the round heads for is no worse; so when everything better
fails, the tip it found is still a candidate.

**The other components**

| module | theorems | argument |
|---|---|---|
| `CheckQueueProof` | `QueueCountsExact`, `WaitVerdict`, `WaitLeavesNothing` | every check is in exactly one place, the queue or one thread's batch (`Places`), and a failure is in `fOk`, in `fAllOk` or still outstanding (`Results`) |
| `CoinsCacheProof` | `CachesImplementViews` (refinement of `Coins`), `FlagsAlwaysTruthful`, `NeverALogicError` | what each pair of flags says about the layer below (`Sound`); FRESH is only ever on an unspent dirty entry above no coin |
| `RecoveryProof` | `RecoveryImplementsDurableTip` (refinement), `StartupNeverStuck`, `FlushesAlwaysToHead`, `TypeCorrect`, and the coins (below): `CoinsAlwaysMatchTip`, `DiskAlwaysMatchesBest` | every tip the coin database names, now or after a power failure, has its data and undo data in the index on disk (`DiskOK`); the first batch is the commit point |
| `CallbackQueueProof` | `CallbacksSerial`, `CallbacksInOrder`, `NothingForgotten`, `ShutdownDropsNothing`, `DeadlockIsFinal` | a pending callback has a running one, a task, or a thread about to schedule; service threads and the posters of the group have exited before the queue is emptied; with the service threads gone only `Shutdown` could run a callback, and it waits in `JoinAll` |
| `SyncCheckpointProof` | `NodesAgree`, `NeverAFalseWarning`, `NeverBackwards` | everything nodes hold, threads are about to relay and links carry is in `issued`; until the master restarts, `issued` is on the chain of the master's checkpoint, which only grows; after that `MasterConsistent` is what the first two theorems assume |
| `BlockDownloadProof` | `DownloadStateExact`, `RequestsBounded`, `NothingDownloadedTwice`, `TypeCorrect` | the download state is exact after every helper (`Sane`), nothing is in flight from a peer that is gone (`Closed`), and a block on its way to `ProcessNewBlock` is out of flight (`Processing`); no operation on the block index stores another block than the one it is given (`OnlyStores`); two branches have a highest common block, so the last common block always exists (`LastCommonAncestorOf`, `Pointers`) |

`DownloadStateExact` implies the assertions at the end of `FinalizeNode`.

**The coins across crashes** (`RecoveryProof`, second half). `CoinsAlwaysMatchTip` and
`DiskAlwaysMatchesBest` say that no crash, power failure or interrupted replay leaves
coins that are not those of the block the database or the node stands at. The
inductive invariant is `CoinsOK`. Its core is `Mixed`: once the first batch of a flush
is written, each outpoint on disk is either as at the old head or as at the new one,
and nothing is known about which. The argument:

1. `CoinsOf`, `Steps` and `DisconnectBlock` are recursive functions; `Iterate` shows that
   such a definition has a solution, and `CoinsOfDef`, `StepsDef`, `DisconnectDef` are the
   equations that follow.
2. `BackMixed`: undoing a block, transaction by transaction, in a view mixed from the
   coins after it and some other view `c` gives one mixed from the coins before it and `c`,
   since an outpoint the block touches is set to its value before the block and any
   other has the same value on both sides. `ForwardMixed` is the same for a block
   that is applied.
3. `RolledBackMixed` and `RolledForwardMixed` carry this along the two branches from the
   fork (`Fork`, `Branch`). What is mixed at the fork on the old side is a mixture of the
   fork's coins and the new head's; at the end of the new branch both sides are the
   same view, and a mixture of a view with itself is that view (`ReplayRestores`).

The proof needs one assumption beyond the types, `NoOverwrite`: a transaction makes no
output that is unspent before it. Without it undoing a block would not restore the
coin it overwrote. `ConnectBlock` does not test this (`fEnforceBIP30` is false for every
block that has a hash); it holds because a transaction id commits to the inputs, and
that of a coinbase to its height ("bad-cb-height"). TLC evaluates the assumption on the
instance of the `recovery` run.

**Induction.** The induction theorems of the library take an operator as parameter,
which the provers cannot instantiate, so induction is done over sets. Every nonempty
set of naturals has a smallest member (`SmallestMember` in `ChainValidityProof`, `Least` in
`RecoveryProof` and `BlockDownloadProof`, from `WFMin` of `WellFoundedInduction`); hence a set that
contains the genesis block and with every block its children contains all blocks
(`TreeInduction`), and a set that contains 0 and is closed under successors up to n
contains 0..n (`UpTo`). `OneChain`, `TrustGrows`, `LinkedOnceServed`, `OneAtEachHeight`, `Fork` and all
facts about the coins are proved this way.

Only model-checked: the liveness properties (`ActivationEnds`, `BestChainActivated`,
`WaitReturns`, `SyncReturns`, `EveryCallbackRuns`, `ShutdownEnds`, `CheckpointsSpread`,
`DownloadCompletes`), because fairness and `ENABLED` are out of the prover's reach. Every
safety property and refinement that a run checks is also a theorem.

## 5. Running

    tlc -workers 2 -config MCPeers.cfg MCChainState
    tlc -workers 2 -config MCCallbackQueue.cfg CallbackQueue
    tlapm ChainStateProof.tla

| run | distinct states | time |
|---|---|---|
| `peers` | 72,404 | 1 min |
| `restart` | 391,501 | 1.5 min |
| `operator` | 208,528 | 1 min |
| `checkqueue` | 38,802 | 16 s |
| `coins` | 85,218 | 30 s |
| `recovery` | 380,931 | 40 s |
| `callbacks` | 91,417 | 50 s |
| `blockdownload` | 447,518 | 2.5 min |
| `checkpoint` | 78,405 | 40 s |

The three runs that end in a violation take seconds. The proofs take a few minutes
each, those of `RecoveryProof` and `BlockDownloadProof` up to a quarter of an hour.

## 6. Not modelled, and why

* **Mempool.** Acceptance, eviction and the return of transactions after a
  reorganisation depend on fees, sizes and ancestor limits. An abstraction that
  drops them decides the outcomes by itself; one that keeps them restates the
  code.
* **Consensus rules, difficulty, trust, stake arithmetic.** Sequential tests and
  256-bit arithmetic without shared state. Their outcomes are `Verdict` and
  `ChainTrust`. Not expressed: that `ContextualCheckBlock` reads a field of the parent
  that is set when the parent is connected.
* **`RewindBlockIndex`, `VerifyDB`, `-reindex`, database upgrades.** They run once, at
  start, before any other thread. `RewindBlockIndex` changes something only in a
  data directory written without witness support.
* **Pruning** is not in this code base. **Failing disks** end the process.
* **Minter and miner.** A block of theirs enters through `ProcessNewBlock`; template
  and kernel search read the chain state under `cs_main`.
* **Transactions, addresses, serving and scoring of peers** in `net_processing.cpp`,
  **connections**, **address manager**: I/O and randomised tables that none of
  the modelled parts reads.
* **Scheduler**: tasks for a later time, periodic tasks, `CScheduler::stop`; the threads
  of `-gen`, which nobody joins.
* **Check queue**: an interruption of the thread that is the master.
* **Block download**: copies with other transactions of the blocks that lead to `Target`
  (`DownloadAssumption`), and steps between storing a block and connecting it.
* **Checkpoints**: keys and signatures; that `checkpointMessage` and
  `hashCheckpointKnown` are read and written by several threads without a common lock;
  more than one RPC thread.
* **Wallet, RPC, REST, GUI, ZeroMQ, alerts, network time**: clients of the modelled
  parts, or presentation. The RPC calls that change the chain state are modelled.
* **Scripts, keys, encodings, vendored libraries**: sequential code over byte
  strings, or third-party.
