--------------------------- MODULE SyncCheckpoint ---------------------------
(***************************************************************************)
(* Synchronized checkpoints (checkpointsync.cpp): one node, the checkpoint  *)
(* master, signs block hashes, and the nodes pass the messages on.  Links   *)
(* come and go, nodes learn of blocks at their own pace, and nodes restart, *)
(* the master too.                                                          *)
(*                                                                          *)
(* A message is the hash it carries; only the master's pass CheckSignature. *)
(* Messages are handled by the net thread of a node; the master's operator  *)
(* uses an rpc thread.  A checkpoint is processed under                     *)
(* cs_hashSyncCheckpoint and relayed after the lock is released.  The only  *)
(* hardened checkpoint of chainparams.cpp is the genesis block, so that     *)
(* ResetSyncCheckpoint sets what a start of the node has already set.       *)
(***************************************************************************)
EXTENDS BlockTree, Sequences

CONSTANTS
    Node,
    Master,      \* the node that was given -checkpointkey
    Link,        \* the pairs of nodes that may be connected, in both directions
    Start,       \* the blocks a node has at the beginning
    MaxFaults    \* bound: how often a link breaks or a node restarts

ASSUME NetworkAssumption ==
    /\ Master \in Node /\ IsFiniteSet(Node)
    /\ Link \subseteq Node \X Node
    /\ \A l \in Link : <<l[2], l[1]>> \in Link
    /\ Start \in [Node -> SUBSET Block] /\ \A n \in Node : Genesis \in Start[n]
    /\ MaxFaults \in Nat

VARIABLES
    mapBlockIndex,              \* per node: the headers it knows
    stored,                     \* per node: the blocks AcceptBlock has stored
    hashSyncCheckpoint,
    hashPendingCheckpoint,
    checkpointMessagePending,   \* NoBlock: the null message
    checkpointMessage,
    hashInvalidCheckpoint,
    link,                       \* per link <<n, m>>: how far n is with its connection to m
    relaying,                   \* per thread: the checkpoint it has accepted and not relayed yet
    hashCheckpointKnown,        \* per link: what n has sent to m last
    channel,                    \* per link: the checkpoint messages on their way
    faults,                     \* how many there were so far
    restarted,                  \* the nodes that have restarted
    issued,                     \* history: the checkpoints the master has accepted
    dropped                     \* history: the checkpoints some node has let go of

node == <<hashSyncCheckpoint, hashPendingCheckpoint, checkpointMessagePending, checkpointMessage,
          hashInvalidCheckpoint>>
sent == <<hashCheckpointKnown, channel>>
history == <<restarted, issued, dropped>>
vars == <<mapBlockIndex, stored, node, link, relaying, sent, faults, history>>

Hash == Block \cup {NoBlock}
Thread == Node \X {"net", "rpc"}

(* One type invariant.                                                      *)
TypeOK ==
    /\ mapBlockIndex \in [Node -> SUBSET Block] /\ stored \in [Node -> SUBSET Block]
    /\ hashSyncCheckpoint \in [Node -> Block]
    /\ hashPendingCheckpoint \in [Node -> Hash] /\ checkpointMessagePending \in [Node -> Hash]
    /\ checkpointMessage \in [Node -> Hash] /\ hashInvalidCheckpoint \in [Node -> Hash]
    /\ link \in [Link -> {"down", "version", "up"}]
    /\ relaying \in [Thread -> Hash]
    /\ hashCheckpointKnown \in [Link -> Hash]
    /\ channel \in [Link -> Seq(Block)]
    /\ faults \in 0..MaxFaults /\ restarted \subseteq Node
    /\ issued \subseteq Block /\ dropped \subseteq Block

Init ==
    /\ mapBlockIndex = Start /\ stored = Start
    /\ hashSyncCheckpoint = [n \in Node |-> Genesis]
    /\ hashPendingCheckpoint = [n \in Node |-> NoBlock]
    /\ checkpointMessagePending = [n \in Node |-> NoBlock]
    /\ checkpointMessage = [n \in Node |-> NoBlock]
    /\ hashInvalidCheckpoint = [n \in Node |-> NoBlock]
    /\ link = [l \in Link |-> "down"]
    /\ relaying = [t \in Thread |-> NoBlock]
    /\ hashCheckpointKnown = [l \in Link |-> NoBlock]
    /\ channel = [l \in Link |-> <<>>]
    /\ faults = 0 /\ restarted = {} /\ issued = {} /\ dropped = {}

-----------------------------------------------------------------------------
(* (Any higher block is taken for a descendant.)                            *)
ValidateHeight(n, h) ==
    LET current == hashSyncCheckpoint[n] IN
    IF Height[h] <= Height[current]
    THEN IF h \in Ancestors[current] THEN "older" ELSE "conflict"
    ELSE "valid"

(* (An older checkpoint is not traced back to.)                             *)
ValidateEqual(n, h) ==
    LET current == hashSyncCheckpoint[n] IN
    IF Height[h] <= Height[current]
    THEN IF h = current THEN "older" ELSE "conflict"
    ELSE IF current \in Ancestors[h] THEN "valid" ELSE "conflict"

(* ValidateSyncCheckpoint for a block of the index.                         *)
ValidateSyncCheckpoint(n, h) ==
    LET current == hashSyncCheckpoint[n] IN
    IF Height[h] <= Height[current]
    THEN IF h \in Ancestors[current] THEN "older" ELSE "conflict"
    ELSE IF current \in Ancestors[h] THEN "valid" ELSE "conflict"

(* RelayTo for a set of links.                                              *)
Relay(ls, h) ==
    /\ hashCheckpointKnown' = [l \in Link |-> IF l \in ls THEN h ELSE hashCheckpointKnown[l]]
    /\ channel' = [l \in Link |-> IF l \in ls /\ hashCheckpointKnown[l] # h
                                  THEN Append(channel[l], h) ELSE channel[l]]

(* ForEachNode: the peers from which the VERACK has come.                   *)
LinksOf(n) == {l \in Link : l[1] = n /\ link[l] = "up"}

(* Peers that have been sent another checkpoint with the VERSION and are    *)
(* skipped by ForEachNode.                                                  *)
Skips(n, h) == \E l \in Link : l[1] = n /\ link[l] = "version" /\ hashCheckpointKnown[l] # h

Warn(n, h) == hashInvalidCheckpoint' = [hashInvalidCheckpoint EXCEPT ![n] = h]

(* The pending checkpoint and its message are cleared.                      *)
ClearPending(n) ==
    /\ hashPendingCheckpoint' = [hashPendingCheckpoint EXCEPT ![n] = NoBlock]
    /\ checkpointMessagePending' = [checkpointMessagePending EXCEPT ![n] = NoBlock]

(* A valid checkpoint is written and becomes the current one.               *)
WriteSyncCheckpoint(n, h, message) ==
    /\ hashSyncCheckpoint' = [hashSyncCheckpoint EXCEPT ![n] = h]
    /\ checkpointMessage' = [checkpointMessage EXCEPT ![n] = message]
    /\ ClearPending(n)
    /\ hashInvalidCheckpoint' = hashInvalidCheckpoint

RelayToAll(n, h) ==
    /\ Relay(LinksOf(n), h)
    /\ dropped' = IF Skips(n, h) THEN dropped \cup {h} ELSE dropped

(* What was pending is given up for h.                                      *)
Drop(pending, h) == dropped' = dropped \cup ({pending} \ {h, NoBlock})

Issue(n, h) == issued' = IF n = Master THEN issued \cup {h} ELSE issued

-----------------------------------------------------------------------------
(* (The pending checkpoint is never looked at again.)                       *)
PendingForever(n, index) == UNCHANGED <<node, sent, issued, dropped>>

(* The end of AcceptBlock, with the new block in the index.  The relay is   *)
(* under the lock here.                                                     *)
AcceptPendingSyncCheckpoint(n, index) ==
    LET h == hashPendingCheckpoint[n]
        message == checkpointMessagePending[n]
        verdict == ValidateSyncCheckpoint(n, h)
    IN  \/ /\ h = NoBlock \/ h \notin index
           /\ UNCHANGED <<node, sent, issued, dropped>>
        \/ /\ h \in index /\ verdict = "valid"
           /\ WriteSyncCheckpoint(n, h, message)
           /\ Issue(n, h)
           /\ IF message = NoBlock THEN UNCHANGED <<sent, dropped>>
              ELSE RelayToAll(n, message)
        \/ /\ h \in index /\ verdict # "valid"
           /\ ClearPending(n)
           /\ IF verdict = "conflict" THEN Warn(n, h) ELSE UNCHANGED hashInvalidCheckpoint
           /\ UNCHANGED <<hashSyncCheckpoint, checkpointMessage, sent, issued, dropped>>

AcceptBlock(n, b) ==
    /\ b \notin stored[n] /\ b # Genesis /\ Parent[b] \in stored[n]
    /\ stored' = [stored EXCEPT ![n] = @ \cup {b}]
    /\ mapBlockIndex' = [mapBlockIndex EXCEPT ![n] = @ \cup {b}]
    /\ AcceptPendingSyncCheckpoint(n, mapBlockIndex'[n])
    /\ UNCHANGED <<link, relaying, faults, restarted>>

(* A header arrives before its block.                                       *)
AcceptBlockHeader(n, b) ==
    /\ b \notin mapBlockIndex[n] /\ b # Genesis /\ Parent[b] \in mapBlockIndex[n]
    /\ mapBlockIndex' = [mapBlockIndex EXCEPT ![n] = @ \cup {b}]
    /\ UNCHANGED <<stored, node, link, relaying, sent, faults, history>>

(* What was pending goes, whatever takes its place.                         *)
ProcessSyncCheckpoint(n, h) ==
    LET verdict == ValidateSyncCheckpoint(n, h)
    IN  \/ /\ h \notin mapBlockIndex[n]
           /\ hashPendingCheckpoint' = [hashPendingCheckpoint EXCEPT ![n] = h]
           /\ checkpointMessagePending' = [checkpointMessagePending EXCEPT ![n] = h]
           /\ Drop(hashPendingCheckpoint[n], h)
           /\ UNCHANGED <<hashSyncCheckpoint, checkpointMessage, hashInvalidCheckpoint, issued>>
        \/ /\ h \in mapBlockIndex[n] /\ verdict = "valid"
           /\ WriteSyncCheckpoint(n, h, h)
           /\ Issue(n, h)
           /\ Drop(hashPendingCheckpoint[n], h)
        \/ /\ h \in mapBlockIndex[n] /\ verdict # "valid"
           /\ IF verdict = "conflict" THEN Warn(n, h) ELSE UNCHANGED hashInvalidCheckpoint
           /\ UNCHANGED <<hashSyncCheckpoint, checkpointMessage, hashPendingCheckpoint,
                          checkpointMessagePending, issued, dropped>>

Accepts(n, h) == h \in mapBlockIndex[n] /\ ValidateSyncCheckpoint(n, h) = "valid"

Idle(t) == relaying[t] = NoBlock

(* The caller of ProcessSyncCheckpoint goes on to relay what was accepted.  *)
Process(t, h) ==
    /\ Idle(t)
    /\ ProcessSyncCheckpoint(t[1], h)
    /\ relaying' = [relaying EXCEPT ![t] = IF Accepts(t[1], h) THEN h ELSE NoBlock]

RelayCheckpoint(t) ==
    /\ ~Idle(t)
    /\ RelayToAll(t[1], relaying[t])
    /\ relaying' = [relaying EXCEPT ![t] = NoBlock]
    /\ UNCHANGED <<mapBlockIndex, stored, node, link, faults, restarted, issued>>

(* (The master relays what it refuses.)                                     *)
SendUnprocessed(t, h) ==
    /\ Idle(t)
    /\ ProcessSyncCheckpoint(t[1], h)
    /\ Relay(LinksOf(t[1]), h)
    /\ UNCHANGED <<mapBlockIndex, stored, link, relaying, faults, restarted>>

(* SendSyncCheckpoint: the hash that AutoSelectSyncCheckpoint finds when a  *)
(* block is connected, or the one the operator gives.                       *)
SendSyncCheckpoint(t, h) ==
    /\ Process(t, h)
    /\ UNCHANGED <<mapBlockIndex, stored, link, sent, faults, restarted>>

Reverse(l) == <<l[2], l[1]>>
NetThread(n) == <<n, "net">>

(* The CHECKPOINT message at the other end of a link.                       *)
ReceiveCheckpoint(l) ==
    /\ channel[l] # <<>> /\ link[Reverse(l)] = "up"
    /\ Process(NetThread(l[2]), Head(channel[l]))
    /\ channel' = [channel EXCEPT ![l] = Tail(@)]
    /\ UNCHANGED <<mapBlockIndex, stored, link, hashCheckpointKnown, faults, restarted>>

-----------------------------------------------------------------------------
(* The peer's VERSION on a new connection: the node sends its VERACK and    *)
(* the checkpoint message it has.                                           *)
Version(l) ==
    /\ link[l] = "down" /\ Idle(NetThread(l[1]))
    /\ link' = [link EXCEPT ![l] = "version"]
    /\ IF checkpointMessage[l[1]] = NoBlock THEN UNCHANGED sent
       ELSE Relay({l}, checkpointMessage[l[1]])
    /\ UNCHANGED <<mapBlockIndex, stored, node, relaying, faults, history>>

(* The peer's VERACK, sent when the peer had the node's VERSION.            *)
Verack(l) ==
    /\ link[l] = "version" /\ link[Reverse(l)] # "down" /\ Idle(NetThread(l[1]))
    /\ link' = [link EXCEPT ![l] = "up"]
    /\ UNCHANGED <<mapBlockIndex, stored, node, relaying, sent, faults, history>>

(* Messages on a link that breaks are lost.                                 *)
Break(ls) ==
    /\ link' = [l \in Link |-> IF l \in ls THEN "down" ELSE link[l]]
    /\ hashCheckpointKnown' = [l \in Link |-> IF l \in ls THEN NoBlock ELSE hashCheckpointKnown[l]]
    /\ channel' = [l \in Link |-> IF l \in ls THEN <<>> ELSE channel[l]]
    /\ faults < MaxFaults /\ faults' = faults + 1

Disconnect(l) ==
    /\ link[l] # "down"
    /\ Break({l, Reverse(l)})
    /\ UNCHANGED <<mapBlockIndex, stored, node, relaying, history>>

(* A node starts again: AppInitMain writes the genesis block over the       *)
(* checkpoint that LoadBlockIndexDB has read.                               *)
Restart(n) ==
    /\ Break({l \in Link : n \in {l[1], l[2]}})
    /\ hashSyncCheckpoint' = [hashSyncCheckpoint EXCEPT ![n] = Genesis]
    /\ ClearPending(n)
    /\ checkpointMessage' = [checkpointMessage EXCEPT ![n] = NoBlock]
    /\ Warn(n, NoBlock)
    /\ relaying' = [t \in Thread |-> IF t[1] = n THEN NoBlock ELSE relaying[t]]
    /\ restarted' = restarted \cup {n}
    /\ UNCHANGED <<mapBlockIndex, stored, issued, dropped>>

Next ==
    \/ \E n \in Node, b \in Block : AcceptBlock(n, b) \/ AcceptBlockHeader(n, b)
    \/ \E t \in {Master} \X {"net", "rpc"}, h \in Block : SendSyncCheckpoint(t, h)
    \/ \E t \in Thread : RelayCheckpoint(t)
    \/ \E l \in Link : ReceiveCheckpoint(l) \/ Version(l) \/ Verack(l) \/ Disconnect(l)
    \/ \E n \in Node : Restart(n)

(* Blocks arrive, threads go on, messages are handled, broken links are     *)
(* made again.                                                              *)
Fairness ==
    /\ \A n \in Node : WF_vars(\E b \in Block : AcceptBlock(n, b))
    /\ \A t \in Thread : WF_vars(RelayCheckpoint(t))
    /\ \A l \in Link : WF_vars(ReceiveCheckpoint(l)) /\ WF_vars(Version(l) \/ Verack(l))

Spec == Init /\ [][Next]_vars /\ Fairness

-----------------------------------------------------------------------------
OnOneChain(a, b) == a \in Ancestors[b] \/ b \in Ancestors[a]

(* The master has not contradicted itself.  It cannot as long as it runs;   *)
(* after a restart nothing but its operator keeps it from doing so.         *)
MasterConsistent == Master \notin restarted \/ \A a, b \in issued : OnOneChain(a, b)

(* The checkpoints of any two nodes are on one chain, in whatever order and *)
(* at whatever time they arrive and whatever the master's operator tries to *)
(* send, unless the master was restarted (WriteSyncCheckpoint of the        *)
(* genesis block in AppInitMain) and then accepted a checkpoint on another  *)
(* branch than before.                                                      *)
CheckpointsAgree ==
    MasterConsistent => \A n, m \in Node : OnOneChain(hashSyncCheckpoint[n], hashSyncCheckpoint[m])

(* A mistake of the operator is found out at the master: no other node      *)
(* warns of an inconsistent checkpoint (hashInvalidCheckpoint), with the    *)
(* same exception.                                                          *)
NoFalseWarning ==
    MasterConsistent => \A n \in Node \ {Master} : hashInvalidCheckpoint[n] = NoBlock

(* Only a descendant of the current checkpoint takes its place, as long as  *)
(* the node runs.                                                           *)
MovesForward ==
    \A n \in Node : hashSyncCheckpoint[n] \in Ancestors[hashSyncCheckpoint'[n]] \/ Restart(n)

OnlyDescendants == [][MovesForward]_vars

(* Once the faults end, every node comes to the checkpoint of every other   *)
(* one, also after restarts, unless that checkpoint was dropped on the way: *)
(* ForEachNode skipped a peer between its VERSION and its VERACK, or        *)
(* another message took the place of the pending one.                       *)
CheckpointsSpread ==
    <>[](MasterConsistent =>
            \A n, m \in Node : hashSyncCheckpoint[n] \in Ancestors[hashSyncCheckpoint[m]] \cup dropped)
=============================================================================
