------------------------ MODULE SyncCheckpointProof -------------------------
(***************************************************************************)
(* Proofs about SyncCheckpoint, for any tree of blocks, any network and any *)
(* number of faults.  The invariant says that everything a node other than  *)
(* the master holds, and everything on a link, is a checkpoint the master   *)
(* has accepted; and that these are all on the chain of the master's        *)
(* current checkpoint until the master restarts.                            *)
(***************************************************************************)
EXTENDS SyncCheckpoint, WellFoundedInduction, TLAPS

OneBranch == \A a, b \in issued : OnOneChain(a, b)

NodesOK ==
    /\ hashSyncCheckpoint \in [Node -> Block]
    /\ hashPendingCheckpoint \in [Node -> Hash] /\ checkpointMessagePending \in [Node -> Hash]
    /\ checkpointMessage \in [Node -> Hash] /\ hashInvalidCheckpoint \in [Node -> Hash]
    /\ issued \subseteq Block /\ dropped \subseteq Block /\ restarted \subseteq Node
    /\ \A n \in Node : hashSyncCheckpoint[n] \in issued \cup {Genesis}
    /\ \A n \in Node \ {Master} : hashPendingCheckpoint[n] \in issued \cup {NoBlock}
    /\ \A n \in Node : checkpointMessagePending[n] = hashPendingCheckpoint[n]
    /\ \A n \in Node : checkpointMessage[n] \in issued \cup {NoBlock}
    /\ Master \notin restarted => issued \subseteq Ancestors[hashSyncCheckpoint[Master]]
    /\ OneBranch => \A n \in Node \ {Master} : hashInvalidCheckpoint[n] = NoBlock

RelaysOK ==
    /\ relaying \in [Thread -> Hash]
    /\ \A t \in Thread : relaying[t] \in issued \cup {NoBlock}

LinksOK ==
    /\ hashCheckpointKnown \in [Link -> Hash] /\ channel \in [Link -> Seq(Block)]
    /\ \A l \in Link : channel[l] \in Seq(issued)

RestOK ==
    /\ mapBlockIndex \in [Node -> SUBSET Block] /\ stored \in [Node -> SUBSET Block]
    /\ link \in [Link -> {"down", "version", "up"}]
    /\ faults \in 0..MaxFaults

IInv == NodesOK /\ RelaysOK /\ LinksOK /\ RestOK

-----------------------------------------------------------------------------
(* A sequence over a set is a sequence over a larger set.                   *)
LEMMA SeqMonotone ==
    ASSUME NEW S, NEW T, S \subseteq T, NEW s \in Seq(S)
    PROVE  s \in Seq(T)
  OBVIOUS

(* The shape of the tree: ancestors are blocks, a block is its own ancestor,*)
(* and the relation is transitive.                                          *)
LEMMA Tree ==
    /\ \A b \in Block : Ancestors[b] \subseteq Block /\ Genesis \in Ancestors[b] /\ b \in Ancestors[b]
    /\ \A b \in Block : \A a \in Ancestors[b] : Ancestors[a] \subseteq Ancestors[b]
    /\ \A b \in Block : \A a \in Ancestors[b] : Height[a] <= Height[b] /\ (Height[a] = Height[b] => a = b)
    /\ Genesis \in Block /\ NoBlock \notin Block /\ Height \in [Block -> Nat]
  BY TreeAssumption DEF TreeAssumption

(* A nonempty set of numbers has a smallest member: the form in which the  *)
(* induction on heights is used.                                            *)
LEMMA SmallestMember ==
    ASSUME NEW T, T \subseteq Nat, T # {}
    PROVE  \E m \in T : \A k \in T : m <= k
<1> DEFINE R == OpToRel(<, Nat)
<1>1. IsWellFoundedOn(R, Nat)
  BY NatLessThanWellFounded, Zenon
<1>2. \A x, y \in Nat : y < x => <<y, x>> \in R
  BY Zenon DEF OpToRel
<1> HIDE DEF R
<1>3. PICK x \in T : \A y \in T : ~(<<y, x>> \in R)
  BY <1>1, WFMin, Zenon
<1>4. ASSUME NEW k \in T PROVE x <= k
  <2>1. x \in Nat /\ k \in Nat
    BY Zenon
  <2>2. ~(k < x)
    BY <1>2, <1>3, <2>1, Zenon
  <2> QED BY <2>1, <2>2
<1> QED BY <1>4, Zenon

(* A block has one chain below it: of two of its ancestors the lower one is *)
(* an ancestor of the higher one.                                           *)
LEMMA OneChain ==
    ASSUME NEW b \in Block, NEW a \in Ancestors[b], NEW c \in Ancestors[b],
           Height[a] <= Height[c]
    PROVE  a \in Ancestors[c]
<1> DEFINE Forked(d) == \E x, y \in Ancestors[d] : Height[x] <= Height[y] /\ x \notin Ancestors[y]
           T == {Height[d] : d \in {e \in Block : Forked(e)}}
<1> SUFFICES ASSUME Forked(b) PROVE FALSE
  BY Zenon
<1>1. T \subseteq Nat /\ T # {}
  BY TreeAssumption DEF TreeAssumption
<1>2. PICK m \in T : \A k \in T : m <= k
  <2> HIDE DEF T
  <2> QED BY <1>1, SmallestMember, Zenon
<1>3. PICK d \in Block : Forked(d) /\ Height[d] = m
  BY <1>2, Zenon
<1>4. PICK x \in Ancestors[d], y \in Ancestors[d] : Height[x] <= Height[y] /\ x \notin Ancestors[y]
  BY <1>3, Zenon
<1>5. x \in Block /\ y \in Block /\ y # d
  BY <1>4, Tree, Zenon
<1>6. d # Genesis
  BY <1>4, <1>5, TreeAssumption, Zenon DEF TreeAssumption
<1>7. x # d
  BY <1>4, <1>5, TreeAssumption DEF TreeAssumption
<1>8. x \in Ancestors[Parent[d]] /\ y \in Ancestors[Parent[d]] /\ Parent[d] \in Block
      /\ Height[Parent[d]] < Height[d]
  BY <1>5, <1>6, <1>7, TreeAssumption DEF TreeAssumption
<1>9. Height[Parent[d]] \in T
  BY <1>4, <1>8, Zenon
<1> HIDE DEF T
<1>10. m <= Height[Parent[d]] /\ Height[Parent[d]] \in Nat /\ Height[d] \in Nat
  BY <1>1, <1>2, <1>9, TreeAssumption, Zenon DEF TreeAssumption
<1> QED BY <1>3, <1>8, <1>10

(* pprev leads down one chain: of two ancestors of a block, one is an       *)
(* ancestor of the other.                                                   *)
LEMMA Comparable ==
    \A b \in Block : \A a, c \in Ancestors[b] : a \in Ancestors[c] \/ c \in Ancestors[a]
<1> SUFFICES ASSUME NEW b \in Block, NEW a \in Ancestors[b], NEW c \in Ancestors[b]
             PROVE  a \in Ancestors[c] \/ c \in Ancestors[a]
  BY Zenon
<1>1. Height[a] \in Nat /\ Height[c] \in Nat
  BY Tree, Zenon
<1>2. CASE Height[a] <= Height[c]
  BY <1>2, OneChain, Zenon
<1>3. CASE Height[c] <= Height[a]
  BY <1>3, OneChain, Zenon
<1> QED BY <1>1, <1>2, <1>3

(* Of two blocks on one chain the lower is an ancestor of the higher, so a  *)
(* checkpoint on one chain with the current one is not in conflict with it. *)
LEMMA NoConflictOnAChain ==
    ASSUME NodesOK, NEW n \in Node, NEW h \in Block, OnOneChain(h, hashSyncCheckpoint[n])
    PROVE  ValidateSyncCheckpoint(n, h) # "conflict"
  <1> DEFINE c == hashSyncCheckpoint[n]
  <1>1. c \in Block /\ Height[h] \in Nat /\ Height[c] \in Nat
    BY Tree, Zenon DEF NodesOK
  <1>2. h \in Ancestors[c] \/ c \in Ancestors[h]
    BY Zenon DEF OnOneChain
  <1>3. CASE h \in Ancestors[c]
    <2>1. Height[h] <= Height[c]
      BY <1>1, <1>3, Tree, Zenon
    <2> QED BY <1>3, <2>1, Zenon DEF ValidateSyncCheckpoint
  <1>4. CASE c \in Ancestors[h]
    <2>1. CASE Height[h] <= Height[c]
      <3>1. Height[c] <= Height[h] /\ (Height[c] = Height[h] => c = h)
        BY <1>1, <1>4, Tree, Zenon
      <3>2. c = h
        BY <1>1, <2>1, <3>1
      <3> QED BY <1>1, <2>1, <3>2, Tree, Zenon DEF ValidateSyncCheckpoint
    <2>2. CASE ~(Height[h] <= Height[c])
      BY <1>4, <2>2, Zenon DEF ValidateSyncCheckpoint
    <2> QED BY <2>1, <2>2, Zenon
  <1> QED BY <1>2, <1>3, <1>4, Zenon

(* A valid checkpoint is a descendant of the current one.                   *)
LEMMA ValidDescends ==
    ASSUME NEW n \in Node, NEW h \in Block, ValidateSyncCheckpoint(n, h) = "valid"
    PROVE  hashSyncCheckpoint[n] \in Ancestors[h]
  BY Zenon DEF ValidateSyncCheckpoint

(* A node that holds checkpoints of one branch finds no conflict in another *)
(* one of that branch.                                                      *)
LEMMA NoConflictOnOneBranch ==
    ASSUME NodesOK, OneBranch, NEW n \in Node, NEW h \in issued
    PROVE  ValidateSyncCheckpoint(n, h) # "conflict"
  <1>1. h \in Block /\ hashSyncCheckpoint[n] \in issued \cup {Genesis}
    BY Zenon DEF NodesOK
  <1>2. OnOneChain(h, hashSyncCheckpoint[n])
    BY <1>1, Tree, Zenon DEF OneBranch, OnOneChain
  <1> QED BY <1>1, <1>2, NoConflictOnAChain, Zenon

-----------------------------------------------------------------------------
(* All nodes start at the genesis block.                                    *)
LEMMA InitEstablishes == Init => IInv
  <1> SUFFICES ASSUME Init PROVE IInv
    BY Zenon
  <1>1. NodesOK
    BY Tree, NetworkAssumption DEF Init, NodesOK, NetworkAssumption, Hash
  <1>2. RelaysOK
    BY Zenon DEF Init, RelaysOK, Hash
  <1>3. LinksOK
    BY DEF Init, LinksOK, Hash
  <1>4. RestOK
    BY NetworkAssumption DEF Init, RestOK, NetworkAssumption
  <1> QED BY <1>1, <1>2, <1>3, <1>4, Zenon DEF IInv

(* A node accepts a valid checkpoint, which is one of the master's or is    *)
(* accepted by the master itself.                                           *)
LEMMA WriteKeeps ==
    ASSUME NodesOK, NEW n \in Node, NEW h \in Block, n # Master => h \in issued,
           ValidateSyncCheckpoint(n, h) = "valid", WriteSyncCheckpoint(n, h, h), Issue(n, h),
           dropped' \subseteq Block, restarted' = restarted
    PROVE  NodesOK' /\ issued \subseteq issued' /\ h \in issued'
  <1>0. /\ hashSyncCheckpoint' = [hashSyncCheckpoint EXCEPT ![n] = h]
        /\ checkpointMessage' = [checkpointMessage EXCEPT ![n] = h]
        /\ hashPendingCheckpoint' = [hashPendingCheckpoint EXCEPT ![n] = NoBlock]
        /\ checkpointMessagePending' = [checkpointMessagePending EXCEPT ![n] = NoBlock]
        /\ hashInvalidCheckpoint' = hashInvalidCheckpoint
    BY Zenon DEF WriteSyncCheckpoint, ClearPending
  <1>1. issued \subseteq issued' /\ h \in issued' /\ issued' \subseteq Block /\ issued' \subseteq issued \cup {h}
    BY Zenon DEF Issue, NodesOK
  <1>2. Master \in Node
    BY NetworkAssumption, Zenon DEF NetworkAssumption
  <1>3. Master \notin restarted' => issued' \subseteq Ancestors[hashSyncCheckpoint'[Master]]
    <2>1. CASE n = Master
      <3>1. hashSyncCheckpoint'[Master] = h /\ hashSyncCheckpoint[Master] \in Block
        BY <1>0, <1>2, <2>1, Zenon DEF NodesOK
      <3>2. hashSyncCheckpoint[Master] \in Ancestors[h]
        BY <2>1, ValidDescends, Zenon
      <3>3. Ancestors[hashSyncCheckpoint[Master]] \subseteq Ancestors[h] /\ h \in Ancestors[h]
        BY <3>2, Tree, Zenon
      <3> QED BY <1>1, <3>1, <3>3, Zenon DEF NodesOK
    <2>2. CASE n # Master
      BY <1>0, <1>2, <2>2, Zenon DEF NodesOK, Issue
    <2> QED BY <2>1, <2>2, Zenon
  <1>4. OneBranch' => \A m \in Node \ {Master} : hashInvalidCheckpoint'[m] = NoBlock
    BY <1>0, <1>1, Zenon DEF NodesOK, OneBranch, OnOneChain
  <1>5. /\ hashSyncCheckpoint' \in [Node -> Block]
        /\ hashPendingCheckpoint' \in [Node -> Hash] /\ checkpointMessagePending' \in [Node -> Hash]
        /\ checkpointMessage' \in [Node -> Hash] /\ hashInvalidCheckpoint' \in [Node -> Hash]
    BY <1>0, Zenon DEF NodesOK, Hash
  <1>6. /\ \A m \in Node : hashSyncCheckpoint'[m] \in issued' \cup {Genesis}
        /\ \A m \in Node \ {Master} : hashPendingCheckpoint'[m] \in issued' \cup {NoBlock}
        /\ \A m \in Node : checkpointMessagePending'[m] = hashPendingCheckpoint'[m]
        /\ \A m \in Node : checkpointMessage'[m] \in issued' \cup {NoBlock}
    BY <1>0, <1>1, Zenon DEF NodesOK
  <1> QED BY <1>1, <1>3, <1>4, <1>5, <1>6, Zenon DEF NodesOK

(* A node refuses a checkpoint: only the master finds a conflict, as long   *)
(* as there is one branch.                                                  *)
LEMMA RefuseKeeps ==
    ASSUME NodesOK, NEW n \in Node, NEW h \in Block, n # Master => h \in issued,
           IF ValidateSyncCheckpoint(n, h) = "conflict" THEN Warn(n, h)
           ELSE UNCHANGED hashInvalidCheckpoint,
           issued' = issued
    PROVE  /\ hashInvalidCheckpoint' \in [Node -> Hash]
           /\ OneBranch' => \A m \in Node \ {Master} : hashInvalidCheckpoint'[m] = NoBlock
  <1>1. OneBranch' <=> OneBranch
    BY Zenon DEF OneBranch, OnOneChain
  <1>2. CASE ValidateSyncCheckpoint(n, h) = "conflict"
    <2>1. hashInvalidCheckpoint' = [hashInvalidCheckpoint EXCEPT ![n] = h]
      BY <1>2, Zenon DEF Warn
    <2>2. OneBranch => n = Master
      BY <1>2, NoConflictOnOneBranch, Zenon
    <2> QED BY <1>1, <2>1, <2>2, Zenon DEF NodesOK, Hash
  <1>3. CASE ValidateSyncCheckpoint(n, h) # "conflict"
    BY <1>1, <1>3, Zenon DEF NodesOK
  <1> QED BY <1>2, <1>3, Zenon

(* ProcessSyncCheckpoint at a node, for a checkpoint of the master's or one *)
(* that the master itself is asked to send.                                 *)
LEMMA ProcessKeeps ==
    ASSUME NodesOK, NEW n \in Node, NEW h \in Block, n # Master => h \in issued,
           ProcessSyncCheckpoint(n, h), restarted' = restarted
    PROVE  NodesOK' /\ issued \subseteq issued' /\ (Accepts(n, h) => h \in issued')
  <1>0. hashPendingCheckpoint[n] \in Block \cup {NoBlock}
    BY Zenon DEF NodesOK, Hash
  <1>1. CASE h \notin mapBlockIndex[n]
    <2>1. /\ hashPendingCheckpoint' = [hashPendingCheckpoint EXCEPT ![n] = h]
          /\ checkpointMessagePending' = [checkpointMessagePending EXCEPT ![n] = h]
          /\ Drop(hashPendingCheckpoint[n], h)
          /\ UNCHANGED <<hashSyncCheckpoint, checkpointMessage, hashInvalidCheckpoint, issued>>
      BY <1>1, Zenon DEF ProcessSyncCheckpoint
    <2>2. dropped' \subseteq Block
      BY <1>0, <2>1, Zenon DEF Drop, NodesOK
    <2>3. OneBranch' <=> OneBranch
      BY <2>1, Zenon DEF OneBranch, OnOneChain
    <2>4. NodesOK'
      BY <2>1, <2>2, <2>3, Zenon DEF NodesOK, Hash
    <2> QED BY <1>1, <2>1, <2>4, Zenon DEF Accepts
  <1>2. CASE h \in mapBlockIndex[n] /\ ValidateSyncCheckpoint(n, h) = "valid"
    <2>1. WriteSyncCheckpoint(n, h, h) /\ Issue(n, h) /\ Drop(hashPendingCheckpoint[n], h)
      BY <1>2, Zenon DEF ProcessSyncCheckpoint
    <2>2. dropped' \subseteq Block
      BY <1>0, <2>1, Zenon DEF Drop, NodesOK
    <2> QED BY <1>2, <2>1, <2>2, WriteKeeps, Zenon
  <1>3. CASE h \in mapBlockIndex[n] /\ ValidateSyncCheckpoint(n, h) # "valid"
    <2>1. /\ UNCHANGED <<hashSyncCheckpoint, checkpointMessage, hashPendingCheckpoint,
                         checkpointMessagePending, issued, dropped>>
          /\ IF ValidateSyncCheckpoint(n, h) = "conflict" THEN Warn(n, h)
             ELSE UNCHANGED hashInvalidCheckpoint
      BY <1>3, Zenon DEF ProcessSyncCheckpoint
    <2>2. /\ hashInvalidCheckpoint' \in [Node -> Hash]
          /\ OneBranch' => \A m \in Node \ {Master} : hashInvalidCheckpoint'[m] = NoBlock
      BY <2>1, RefuseKeeps, Zenon
    <2>3. NodesOK'
      BY <2>1, <2>2, Zenon DEF NodesOK
    <2> QED BY <1>3, <2>1, <2>3, Zenon DEF Accepts
  <1> QED BY <1>1, <1>2, <1>3, Zenon

(* Links that carry the master's checkpoints still do after a relay of one. *)
LEMMA RelayKeeps ==
    ASSUME LinksOK, issued \subseteq issued', issued' \subseteq Block, NEW h \in issued', NEW ls, Relay(ls, h)
    PROVE  LinksOK'
  <1>1. hashCheckpointKnown' \in [Link -> Hash]
    BY Zenon DEF Relay, LinksOK, Hash
  <1>2. \A l \in Link : channel'[l] \in Seq(issued')
    <2> SUFFICES ASSUME NEW l \in Link PROVE channel'[l] \in Seq(issued')
      BY Zenon
    <2>1. channel[l] \in Seq(issued')
      BY SeqMonotone, Zenon DEF LinksOK
    <2>2. Append(channel[l], h) \in Seq(issued')
      BY <2>1
    <2> QED BY <2>1, <2>2, Zenon DEF Relay
  <1>3. \A l \in Link : channel'[l] \in Seq(Block)
    BY <1>2, SeqMonotone, Zenon
  <1>4. channel' \in [Link -> Seq(Block)]
    BY <1>3, Zenon DEF Relay
  <1> QED BY <1>1, <1>2, <1>4, Zenon DEF LinksOK

(* Links that a step leaves alone.                                          *)
LEMMA LinksKept ==
    ASSUME LinksOK, issued \subseteq issued', UNCHANGED sent
    PROVE  LinksOK'
  BY SeqMonotone, Zenon DEF LinksOK, sent

(* Threads that a step leaves alone.                                        *)
LEMMA RelaysKept ==
    ASSUME RelaysOK, issued \subseteq issued', UNCHANGED relaying
    PROVE  RelaysOK'
  BY Zenon DEF RelaysOK

-----------------------------------------------------------------------------
(* One lemma per action.  A pending checkpoint is one of the master's, or   *)
(* the master has it.                                                       *)
LEMMA AcceptPendingKeeps ==
    ASSUME IInv, NEW n \in Node, NEW index \in SUBSET Block, AcceptPendingSyncCheckpoint(n, index),
           restarted' = restarted
    PROVE  NodesOK' /\ LinksOK' /\ issued \subseteq issued'
  <1> DEFINE h == hashPendingCheckpoint[n]
  <1>0. /\ NodesOK /\ LinksOK /\ checkpointMessagePending[n] = h /\ NoBlock \notin index
        /\ n # Master => h \in issued \cup {NoBlock}
    BY Tree, Zenon DEF IInv, NodesOK
  <1>1. CASE UNCHANGED <<node, sent, issued, dropped>>
    <2>1. UNCHANGED <<hashSyncCheckpoint, hashPendingCheckpoint, checkpointMessagePending,
                      checkpointMessage, hashInvalidCheckpoint, issued, dropped>>
      BY <1>1, Zenon DEF node
    <2>2. OneBranch' <=> OneBranch
      BY <2>1, Zenon DEF OneBranch, OnOneChain
    <2>3. NodesOK'
      BY <1>0, <2>1, <2>2, Zenon DEF NodesOK
    <2>4. UNCHANGED sent /\ issued \subseteq issued'
      BY <1>1, Zenon
    <2> QED BY <1>0, <2>3, <2>4, LinksKept, Zenon
  <1>2. CASE /\ h \in index /\ ValidateSyncCheckpoint(n, h) = "valid"
             /\ WriteSyncCheckpoint(n, h, h) /\ Issue(n, h)
             /\ IF h = NoBlock THEN UNCHANGED <<sent, dropped>> ELSE RelayToAll(n, h)
    <2>1. h \in Block /\ h # NoBlock /\ (n # Master => h \in issued)
      BY <1>0, <1>2, Zenon
    <2>2. Relay(LinksOf(n), h) /\ dropped' \subseteq Block
      BY <1>0, <1>2, <2>1, Zenon DEF RelayToAll, NodesOK
    <2>3. NodesOK' /\ issued \subseteq issued' /\ h \in issued'
      BY <1>0, <1>2, <2>1, <2>2, WriteKeeps, Zenon
    <2>4. issued' \subseteq Block
      BY <2>3, Zenon DEF NodesOK
    <2>5. LinksOK'
      BY <1>0, <2>2, <2>3, <2>4, RelayKeeps, Zenon
    <2> QED BY <2>3, <2>5, Zenon
  <1>3. CASE /\ h \in index /\ ValidateSyncCheckpoint(n, h) # "valid"
             /\ ClearPending(n)
             /\ IF ValidateSyncCheckpoint(n, h) = "conflict" THEN Warn(n, h)
                ELSE UNCHANGED hashInvalidCheckpoint
             /\ UNCHANGED <<hashSyncCheckpoint, checkpointMessage, sent, issued, dropped>>
    <2>1. UNCHANGED <<hashSyncCheckpoint, checkpointMessage, issued, dropped>> /\ UNCHANGED sent
      BY <1>3, Zenon
    <2>2. h \in Block /\ (n # Master => h \in issued)
      BY <1>0, <1>3, Zenon
    <2>3. /\ hashInvalidCheckpoint' \in [Node -> Hash]
          /\ OneBranch' => \A m \in Node \ {Master} : hashInvalidCheckpoint'[m] = NoBlock
      BY <1>0, <1>3, <2>1, <2>2, RefuseKeeps, Zenon
    <2>4. /\ hashPendingCheckpoint' = [hashPendingCheckpoint EXCEPT ![n] = NoBlock]
          /\ checkpointMessagePending' = [checkpointMessagePending EXCEPT ![n] = NoBlock]
      BY <1>3, Zenon DEF ClearPending
    <2>5. NodesOK'
      BY <1>0, <2>1, <2>3, <2>4, Zenon DEF NodesOK, Hash
    <2>6. issued \subseteq issued'
      BY <2>1, Zenon
    <2> QED BY <1>0, <2>1, <2>5, <2>6, LinksKept, Zenon
  <1> QED BY <1>0, <1>1, <1>2, <1>3, Zenon DEF AcceptPendingSyncCheckpoint

(* AcceptBlock ends with AcceptPendingSyncCheckpoint.                       *)
LEMMA AcceptBlockKeeps ==
    ASSUME IInv, NEW n \in Node, NEW b \in Block, AcceptBlock(n, b)
    PROVE  IInv'
  <1>1. RestOK'
    BY Zenon DEF AcceptBlock, IInv, RestOK
  <1>2. mapBlockIndex'[n] \in SUBSET Block
    BY <1>1, Zenon DEF RestOK
  <1>3. AcceptPendingSyncCheckpoint(n, mapBlockIndex'[n]) /\ restarted' = restarted
        /\ UNCHANGED relaying
    BY Zenon DEF AcceptBlock
  <1>4. NodesOK' /\ LinksOK' /\ issued \subseteq issued'
    BY <1>2, <1>3, AcceptPendingKeeps, Zenon
  <1>5. RelaysOK'
    BY <1>3, <1>4, RelaysKept, Zenon DEF IInv
  <1> QED BY <1>1, <1>4, <1>5, Zenon DEF IInv

(* Steps that touch no checkpoint, no thread and no message.                *)
LEMMA NothingHeldChanges ==
    ASSUME IInv, UNCHANGED <<node, relaying, sent, history>>, RestOK'
    PROVE  IInv'
  <1>1. UNCHANGED <<hashSyncCheckpoint, hashPendingCheckpoint, checkpointMessagePending,
                    checkpointMessage, hashInvalidCheckpoint, relaying, hashCheckpointKnown, channel,
                    restarted, issued, dropped>>
    BY Zenon DEF node, sent, history
  <1>2. OneBranch' <=> OneBranch
    BY <1>1, Zenon DEF OneBranch, OnOneChain
  <1> QED BY <1>1, <1>2, Zenon DEF IInv, NodesOK, RelaysOK, LinksOK

(* A header changes no checkpoint.                                          *)
LEMMA HeaderKeeps ==
    ASSUME IInv, NEW n \in Node, NEW b \in Block, AcceptBlockHeader(n, b)
    PROVE  IInv'
  <1>1. UNCHANGED <<node, relaying, sent, history>> /\ RestOK'
    BY Zenon DEF AcceptBlockHeader, IInv, RestOK
  <1> QED BY <1>1, NothingHeldChanges, Zenon

(* The caller of ProcessSyncCheckpoint is left with a checkpoint that the   *)
(* master has accepted, or with none.                                       *)
LEMMA ProcessInThreadKeeps ==
    ASSUME IInv, NEW t \in Thread, NEW h \in Block, t[1] # Master => h \in issued,
           Process(t, h), restarted' = restarted
    PROVE  NodesOK' /\ RelaysOK' /\ issued \subseteq issued'
  <1>1. t[1] \in Node
    BY DEF Thread
  <1>2. /\ ProcessSyncCheckpoint(t[1], h)
        /\ relaying' = [relaying EXCEPT ![t] = IF Accepts(t[1], h) THEN h ELSE NoBlock]
    BY Zenon DEF Process
  <1>3. NodesOK' /\ issued \subseteq issued' /\ (Accepts(t[1], h) => h \in issued')
    BY <1>1, <1>2, ProcessKeeps, Zenon DEF IInv
  <1>4. RelaysOK'
    BY <1>2, <1>3, Zenon DEF IInv, RelaysOK, Hash
  <1> QED BY <1>3, <1>4, Zenon

(* SendSyncCheckpoint: what the master accepts is issued, and only that is  *)
(* relayed.                                                                 *)
LEMMA SendKeeps ==
    ASSUME IInv, NEW t \in {Master} \X {"net", "rpc"}, NEW h \in Block, SendSyncCheckpoint(t, h)
    PROVE  IInv'
  <1>1. t \in Thread /\ t[1] = Master
    BY NetworkAssumption DEF Thread, NetworkAssumption
  <1>2. Process(t, h) /\ UNCHANGED <<mapBlockIndex, stored, link, faults, restarted>> /\ UNCHANGED sent
    BY Zenon DEF SendSyncCheckpoint
  <1>3. NodesOK' /\ RelaysOK' /\ issued \subseteq issued'
    BY <1>1, <1>2, ProcessInThreadKeeps, Zenon
  <1>4. LinksOK'
    BY <1>2, <1>3, LinksKept, Zenon DEF IInv
  <1>5. RestOK'
    BY <1>2, Zenon DEF IInv, RestOK
  <1> QED BY <1>3, <1>4, <1>5, Zenon DEF IInv

(* A thread relays a checkpoint of the master's.                            *)
LEMMA RelayCheckpointKeeps ==
    ASSUME IInv, NEW t \in Thread, RelayCheckpoint(t)
    PROVE  IInv'
  <1>1. /\ relaying[t] # NoBlock /\ Relay(LinksOf(t[1]), relaying[t])
        /\ relaying' = [relaying EXCEPT ![t] = NoBlock]
        /\ dropped' = IF Skips(t[1], relaying[t]) THEN dropped \cup {relaying[t]} ELSE dropped
        /\ UNCHANGED <<mapBlockIndex, stored, link, faults, restarted, issued>> /\ UNCHANGED node
    BY Zenon DEF RelayCheckpoint, RelayToAll, Idle
  <1>2. relaying[t] \in issued /\ issued \subseteq Block
    BY <1>1, Zenon DEF IInv, RelaysOK, NodesOK
  <1>3. LinksOK'
    BY <1>1, <1>2, RelayKeeps, Zenon DEF IInv
  <1>4. RelaysOK'
    BY <1>1, Zenon DEF IInv, RelaysOK, Hash
  <1>5. NodesOK'
    <2>1. UNCHANGED <<hashSyncCheckpoint, hashPendingCheckpoint, checkpointMessagePending,
                      checkpointMessage, hashInvalidCheckpoint, issued, restarted>>
      BY <1>1, Zenon DEF node
    <2>2. dropped' \subseteq Block
      BY <1>1, <1>2, Zenon DEF IInv, NodesOK
    <2>3. OneBranch' <=> OneBranch
      BY <2>1, Zenon DEF OneBranch, OnOneChain
    <2> QED BY <2>1, <2>2, <2>3, Zenon DEF IInv, NodesOK
  <1>6. RestOK'
    BY <1>1, Zenon DEF IInv, RestOK
  <1> QED BY <1>3, <1>4, <1>5, <1>6, Zenon DEF IInv

(* A CHECKPOINT message carries a checkpoint of the master's.               *)
LEMMA ReceiveKeeps ==
    ASSUME IInv, NEW l \in Link, ReceiveCheckpoint(l)
    PROVE  IInv'
  <1> DEFINE h == Head(channel[l])
  <1>1. /\ channel[l] # <<>> /\ Process(NetThread(l[2]), h)
        /\ channel' = [channel EXCEPT ![l] = Tail(channel[l])]
        /\ UNCHANGED <<mapBlockIndex, stored, link, hashCheckpointKnown, faults, restarted>>
    BY Zenon DEF ReceiveCheckpoint
  <1>2. l[2] \in Node
    BY NetworkAssumption, Zenon DEF NetworkAssumption
  <1>3. NetThread(l[2]) \in Thread
    BY <1>2 DEF NetThread, Thread
  <1>4. channel[l] \in Seq(issued) /\ channel[l] \in Seq(Block) /\ issued \subseteq Block
    BY Zenon DEF IInv, LinksOK, NodesOK
  <1>5. h \in issued /\ Tail(channel[l]) \in Seq(issued) /\ Tail(channel[l]) \in Seq(Block)
    BY <1>1, <1>4
  <1> HIDE DEF h
  <1>6. NodesOK' /\ RelaysOK' /\ issued \subseteq issued'
    BY <1>1, <1>3, <1>4, <1>5, ProcessInThreadKeeps, Zenon
  <1>7. LinksOK'
    <2>1. \A k \in Link : channel'[k] \in Seq(issued)
      BY <1>1, <1>5, Zenon DEF IInv, LinksOK
    <2>2. \A k \in Link : channel'[k] \in Seq(issued')
      BY <1>6, <2>1, SeqMonotone, Zenon
    <2>3. channel' \in [Link -> Seq(Block)]
      BY <1>1, <1>5, Zenon DEF IInv, LinksOK
    <2> QED BY <1>1, <2>2, <2>3, Zenon DEF IInv, LinksOK
  <1>8. RestOK'
    BY <1>1, Zenon DEF IInv, RestOK
  <1> QED BY <1>6, <1>7, <1>8, Zenon DEF IInv

(* On VERSION a node sends a message it has accepted.                       *)
LEMMA VersionKeeps ==
    ASSUME IInv, NEW l \in Link, Version(l)
    PROVE  IInv'
  <1>1. /\ UNCHANGED <<mapBlockIndex, stored, relaying, faults>> /\ UNCHANGED node /\ UNCHANGED history
        /\ link' = [link EXCEPT ![l] = "version"]
        /\ IF checkpointMessage[l[1]] = NoBlock THEN UNCHANGED sent
           ELSE Relay({l}, checkpointMessage[l[1]])
    BY Zenon DEF Version
  <1>2. UNCHANGED <<hashSyncCheckpoint, hashPendingCheckpoint, checkpointMessagePending,
                    checkpointMessage, hashInvalidCheckpoint, restarted, issued, dropped>>
    BY <1>1, Zenon DEF node, history
  <1>3. NodesOK'
    <2>1. OneBranch' <=> OneBranch
      BY <1>2, Zenon DEF OneBranch, OnOneChain
    <2> QED BY <1>2, <2>1, Zenon DEF IInv, NodesOK
  <1>4. l[1] \in Node
    BY NetworkAssumption, Zenon DEF NetworkAssumption
  <1>5. checkpointMessage[l[1]] # NoBlock => checkpointMessage[l[1]] \in issued
    BY <1>4, Zenon DEF IInv, NodesOK
  <1>6. LinksOK'
    <2>1. CASE checkpointMessage[l[1]] = NoBlock
      BY <1>1, <1>2, <2>1, LinksKept, Zenon DEF IInv
    <2>2. CASE checkpointMessage[l[1]] # NoBlock
      BY <1>1, <1>2, <1>5, <2>2, RelayKeeps, Zenon DEF IInv, NodesOK
    <2> QED BY <2>1, <2>2, Zenon
  <1>7. RelaysOK' /\ RestOK'
    BY <1>1, <1>2, Zenon DEF IInv, RelaysOK, RestOK
  <1> QED BY <1>3, <1>6, <1>7, Zenon DEF IInv

(* VERACK only lets a peer take part in relays.                             *)
LEMMA VerackKeeps ==
    ASSUME IInv, NEW l \in Link, Verack(l)
    PROVE  IInv'
  <1>1. UNCHANGED <<node, relaying, sent, history>> /\ RestOK'
    BY Zenon DEF Verack, IInv, RestOK
  <1> QED BY <1>1, NothingHeldChanges, Zenon

(* A broken link carries nothing.                                           *)
LEMMA BreakKeeps ==
    ASSUME IInv, NEW ls, Break(ls), issued' = issued, UNCHANGED <<mapBlockIndex, stored>>
    PROVE  LinksOK' /\ RestOK'
  <1>1. hashCheckpointKnown' \in [Link -> Hash]
    BY Zenon DEF Break, IInv, LinksOK, Hash
  <1>2. \A l \in Link : channel'[l] \in Seq(issued)
    BY DEF Break, IInv, LinksOK
  <1>3. channel' \in [Link -> Seq(Block)]
    BY DEF Break, IInv, LinksOK
  <1>4. faults' \in 0..MaxFaults
    BY NetworkAssumption DEF Break, IInv, RestOK, NetworkAssumption
  <1>5. link' \in [Link -> {"down", "version", "up"}]
    BY Zenon DEF Break, IInv, RestOK
  <1> QED BY <1>1, <1>2, <1>3, <1>4, <1>5, Zenon DEF IInv, LinksOK, RestOK

(* Messages are lost with their link.                                       *)
LEMMA DisconnectKeeps ==
    ASSUME IInv, NEW l \in Link, Disconnect(l)
    PROVE  IInv'
  <1>1. /\ Break({l, Reverse(l)}) /\ UNCHANGED <<mapBlockIndex, stored, relaying>>
        /\ UNCHANGED node /\ UNCHANGED history
    BY Zenon DEF Disconnect
  <1>2. UNCHANGED <<hashSyncCheckpoint, hashPendingCheckpoint, checkpointMessagePending,
                    checkpointMessage, hashInvalidCheckpoint, restarted, issued, dropped>>
    BY <1>1, Zenon DEF node, history
  <1>3. LinksOK' /\ RestOK'
    BY <1>1, <1>2, BreakKeeps, Zenon
  <1>4. OneBranch' <=> OneBranch
    BY <1>2, Zenon DEF OneBranch, OnOneChain
  <1>5. NodesOK'
    BY <1>2, <1>4, Zenon DEF IInv, NodesOK
  <1> QED BY <1>1, <1>2, <1>3, <1>5, Zenon DEF IInv, RelaysOK

(* A node that restarts is back at the genesis block.  When it is the       *)
(* master, nothing is claimed of its chain any more.                        *)
LEMMA RestartKeeps ==
    ASSUME IInv, NEW n \in Node, Restart(n)
    PROVE  IInv'
  <1>1. /\ Break({l \in Link : n \in {l[1], l[2]}})
        /\ hashSyncCheckpoint' = [hashSyncCheckpoint EXCEPT ![n] = Genesis]
        /\ hashPendingCheckpoint' = [hashPendingCheckpoint EXCEPT ![n] = NoBlock]
        /\ checkpointMessagePending' = [checkpointMessagePending EXCEPT ![n] = NoBlock]
        /\ checkpointMessage' = [checkpointMessage EXCEPT ![n] = NoBlock]
        /\ hashInvalidCheckpoint' = [hashInvalidCheckpoint EXCEPT ![n] = NoBlock]
        /\ relaying' = [t \in Thread |-> IF t[1] = n THEN NoBlock ELSE relaying[t]]
        /\ restarted' = restarted \cup {n} /\ UNCHANGED <<mapBlockIndex, stored, issued, dropped>>
    BY Zenon DEF Restart, ClearPending, Warn
  <1>2. Genesis \in Block /\ Master \in Node
    BY Tree, NetworkAssumption, Zenon DEF NetworkAssumption
  <1>3. LinksOK' /\ RestOK'
    BY <1>1, BreakKeeps, Zenon
  <1>4. RelaysOK'
    BY <1>1, Zenon DEF IInv, RelaysOK, Hash
  <1>5. OneBranch' <=> OneBranch
    BY <1>1, Zenon DEF OneBranch, OnOneChain
  <1>6. Master \notin restarted' => issued' \subseteq Ancestors[hashSyncCheckpoint'[Master]]
    BY <1>1, <1>2, Zenon DEF IInv, NodesOK
  <1>7. NodesOK'
    BY <1>1, <1>2, <1>5, <1>6, Zenon DEF IInv, NodesOK, Hash
  <1> QED BY <1>3, <1>4, <1>7, Zenon DEF IInv

-----------------------------------------------------------------------------
(* The invariant holds in every reachable state: what nodes hold, threads   *)
(* relay and links carry was accepted by the master (ProcessSyncCheckpoint, *)
(* AcceptPendingSyncCheckpoint, RelayTo), and is on the chain of the        *)
(* master's checkpoint until AppInitMain resets that.                       *)
THEOREM Invariance == Spec => []IInv
  <1>1. Init => IInv
    BY InitEstablishes, Zenon
  <1>2. IInv /\ [Next]_vars => IInv'
    <2> SUFFICES ASSUME IInv, [Next]_vars PROVE IInv'
      BY Zenon
    <2>1. CASE \E n \in Node, b \in Block : AcceptBlock(n, b) \/ AcceptBlockHeader(n, b)
      BY <2>1, AcceptBlockKeeps, HeaderKeeps, Zenon
    <2>2. CASE \E t \in {Master} \X {"net", "rpc"}, h \in Block : SendSyncCheckpoint(t, h)
      BY <2>2, SendKeeps, Zenon
    <2>3. CASE \E t \in Thread : RelayCheckpoint(t)
      BY <2>3, RelayCheckpointKeeps, Zenon
    <2>4. CASE \E l \in Link : ReceiveCheckpoint(l) \/ Version(l) \/ Verack(l) \/ Disconnect(l)
      BY <2>4, ReceiveKeeps, VersionKeeps, VerackKeeps, DisconnectKeeps, Zenon
    <2>5. CASE \E n \in Node : Restart(n)
      BY <2>5, RestartKeeps, Zenon
    <2>6. CASE UNCHANGED vars
      <3>1. UNCHANGED <<node, relaying, sent, history>> /\ RestOK'
        BY <2>6, Zenon DEF vars, IInv, RestOK
      <3> QED BY <3>1, NothingHeldChanges, Zenon
    <2> QED BY <2>1, <2>2, <2>3, <2>4, <2>5, <2>6, Zenon DEF Next
  <1> QED BY <1>1, <1>2, PTL DEF Spec

(* A master that has not restarted has issued checkpoints of one branch.    *)
LEMMA ConsistentMaster ==
    ASSUME IInv, MasterConsistent PROVE OneBranch
  <1>1. CASE Master \notin restarted
    <2>1. hashSyncCheckpoint[Master] \in Block /\ issued \subseteq Ancestors[hashSyncCheckpoint[Master]]
      BY <1>1, NetworkAssumption, Zenon DEF IInv, NodesOK, NetworkAssumption
    <2> QED BY <2>1, Comparable, Zenon DEF OneBranch, OnOneChain
  <1>2. CASE Master \in restarted
    BY <1>2, Zenon DEF MasterConsistent, OneBranch
  <1> QED BY <1>1, <1>2, Zenon

(* The checkpoints of any two nodes are on one chain, unless the master has *)
(* restarted and contradicted itself.                                       *)
THEOREM NodesAgree == Spec => []CheckpointsAgree
  <1>1. IInv => CheckpointsAgree
    <2> SUFFICES ASSUME IInv, MasterConsistent, NEW n \in Node, NEW m \in Node
                 PROVE  OnOneChain(hashSyncCheckpoint[n], hashSyncCheckpoint[m])
      BY Zenon DEF CheckpointsAgree
    <2>1. OneBranch
      BY ConsistentMaster, Zenon
    <2>2. /\ hashSyncCheckpoint[n] \in issued \cup {Genesis} /\ hashSyncCheckpoint[n] \in Block
          /\ hashSyncCheckpoint[m] \in issued \cup {Genesis} /\ hashSyncCheckpoint[m] \in Block
      BY Zenon DEF IInv, NodesOK
    <2> QED BY <2>1, <2>2, Tree, Zenon DEF OneBranch, OnOneChain
  <1> QED BY <1>1, Invariance, PTL

(* No node but the master warns of an inconsistent checkpoint               *)
(* (hashInvalidCheckpoint stays zero), with the same exception.             *)
THEOREM NeverAFalseWarning == Spec => []NoFalseWarning
  <1>1. IInv => NoFalseWarning
    BY ConsistentMaster, Zenon DEF IInv, NodesOK, NoFalseWarning
  <1> QED BY <1>1, Invariance, PTL

(* While a node runs, only a descendant takes the place of its checkpoint   *)
(* (ValidateSyncCheckpoint before every WriteSyncCheckpoint).               *)
THEOREM NeverBackwards == Spec => OnlyDescendants
  <1>1. IInv /\ [Next]_vars => [MovesForward]_vars
    <2> SUFFICES ASSUME IInv, Next PROVE MovesForward
      BY Zenon
    <2>0. NodesOK /\ \A n \in Node : hashSyncCheckpoint[n] \in Ancestors[hashSyncCheckpoint[n]]
      BY Tree, Zenon DEF IInv, NodesOK
    <2>1. ASSUME NEW n \in Node, NEW h \in Block, ProcessSyncCheckpoint(n, h) PROVE MovesForward
      <3>1. CASE hashSyncCheckpoint' = hashSyncCheckpoint
        BY <2>0, <3>1, Zenon DEF MovesForward
      <3>2. CASE ValidateSyncCheckpoint(n, h) = "valid" /\ WriteSyncCheckpoint(n, h, h)
        BY <2>0, <3>2, ValidDescends, Zenon DEF WriteSyncCheckpoint, NodesOK, MovesForward
      <3> QED BY <2>1, <3>1, <3>2, Zenon DEF ProcessSyncCheckpoint
    <2>2. ASSUME NEW n \in Node, NEW b \in Block, AcceptBlock(n, b) PROVE MovesForward
      <3> DEFINE h == hashPendingCheckpoint[n]
      <3>1. mapBlockIndex'[n] \subseteq Block /\ AcceptPendingSyncCheckpoint(n, mapBlockIndex'[n])
        BY <2>2, Zenon DEF AcceptBlock, IInv, RestOK
      <3>2. CASE hashSyncCheckpoint' = hashSyncCheckpoint
        BY <2>0, <3>2, Zenon DEF MovesForward
      <3>3. CASE /\ h \in Block /\ ValidateSyncCheckpoint(n, h) = "valid"
                 /\ WriteSyncCheckpoint(n, h, checkpointMessagePending[n])
        BY <2>0, <3>3, ValidDescends, Zenon DEF WriteSyncCheckpoint, NodesOK, MovesForward
      <3> QED BY <3>1, <3>2, <3>3, Zenon DEF AcceptPendingSyncCheckpoint, node
    <2>3. ASSUME NEW l \in Link, ReceiveCheckpoint(l) PROVE MovesForward
      <3>1. l[2] \in Node
        BY NetworkAssumption, Zenon DEF NetworkAssumption
      <3>2. channel[l] # <<>> /\ channel[l] \in Seq(Block)
        BY <2>3, Zenon DEF ReceiveCheckpoint, IInv, LinksOK
      <3>3. Head(channel[l]) \in Block
        BY <3>2
      <3>4. NetThread(l[2])[1] = l[2]
        BY DEF NetThread
      <3>5. ProcessSyncCheckpoint(l[2], Head(channel[l]))
        BY <2>3, <3>4, Zenon DEF ReceiveCheckpoint, Process
      <3> QED BY <2>1, <3>1, <3>3, <3>5, Zenon
    <2>4. ASSUME NEW t \in {Master} \X {"net", "rpc"}, NEW h \in Block, SendSyncCheckpoint(t, h)
          PROVE  MovesForward
      <3>1. t[1] \in Node
        BY NetworkAssumption DEF NetworkAssumption
      <3> QED BY <2>1, <2>4, <3>1, Zenon DEF SendSyncCheckpoint, Process
    <2>5. ASSUME NEW n \in Node, Restart(n) PROVE MovesForward
      <3>1. hashSyncCheckpoint' = [hashSyncCheckpoint EXCEPT ![n] = Genesis]
        BY <2>5, Zenon DEF Restart
      <3>2. \A m \in Node : m # n => hashSyncCheckpoint'[m] = hashSyncCheckpoint[m]
        BY <2>0, <3>1, Zenon DEF NodesOK
      <3> QED BY <2>0, <2>5, <3>2, Zenon DEF MovesForward
    <2>6. ASSUME hashSyncCheckpoint' = hashSyncCheckpoint PROVE MovesForward
      BY <2>0, <2>6, Zenon DEF MovesForward
    <2>7. ASSUME NEW n \in Node, NEW b \in Block, AcceptBlockHeader(n, b)
          PROVE hashSyncCheckpoint' = hashSyncCheckpoint
      BY <2>7, Zenon DEF AcceptBlockHeader, node
    <2>8. ASSUME NEW l \in Link, Version(l) \/ Verack(l) \/ Disconnect(l)
          PROVE hashSyncCheckpoint' = hashSyncCheckpoint
      BY <2>8, Zenon DEF Version, Verack, Disconnect, node
    <2>9. ASSUME NEW t \in Thread, RelayCheckpoint(t)
          PROVE hashSyncCheckpoint' = hashSyncCheckpoint
      BY <2>9, Zenon DEF RelayCheckpoint, node
    <2>10. CASE \E n \in Node, b \in Block : AcceptBlock(n, b) \/ AcceptBlockHeader(n, b)
      BY <2>2, <2>6, <2>7, <2>10, Zenon
    <2>11. CASE \E l \in Link : ReceiveCheckpoint(l) \/ Version(l) \/ Verack(l) \/ Disconnect(l)
      BY <2>3, <2>6, <2>8, <2>11, Zenon
    <2>12. CASE \E t \in Thread : RelayCheckpoint(t)
      BY <2>6, <2>9, <2>12, Zenon
    <2> QED BY <2>4, <2>5, <2>10, <2>11, <2>12, Zenon DEF Next
  <1> QED BY <1>1, Invariance, PTL DEF Spec, OnlyDescendants
=============================================================================
