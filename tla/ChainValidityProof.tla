------------------------- MODULE ChainValidityProof -------------------------
(***************************************************************************)
(* What the marks and levels of the block index say of the active chain,    *)
(* for every block tree and every verdict.  The theorems name the requests  *)
(* of the operator they exclude: InvalidateBlock may mark a block below the *)
(* cached pindexMostWork, and ResetBlockFailureFlags takes a mark away and  *)
(* leaves those that came from it.                                          *)
(***************************************************************************)
EXTENDS ChainStateProof, WellFoundedInduction

(* Neither the active chain nor the chain the thread is about to connect    *)
(* holds a block that is marked failed.                                     *)
ValidChains ==
    /\ ActiveChainValid
    /\ mostWork # NoBlock => Ancestors[mostWork] \cap Failed = {}

(* A block of the active chain has had its scripts checked, and no block    *)
(* has before its ancestors.                                                *)
ScriptsChecked ==
    /\ \A a \in ActiveChain \ {Genesis} : valid[a] = BLOCK_VALID_SCRIPTS
    /\ ScriptsInOrder

(* A nonempty set of numbers has a smallest member: the form in which the  *)
(* induction on heights is used.                                            *)
LEMMA SmallestMember ==
    ASSUME NEW T, T \subseteq Nat, T # {}
    PROVE  \E m \in T : \A k \in T : m <= k
<1> DEFINE R == OpToRel(<, Nat)
<1>1. IsWellFoundedOn(R, Nat)
  BY NatLessThanWellFounded, Zenon
<1>2. \A x, y \in Nat : y < x => <<y, x>> \in R
  BY Zenon DEF OpToRel
<1> HIDE DEF R
<1>3. PICK x \in T : \A y \in T : ~(<<y, x>> \in R)
  BY <1>1, WFMin, Zenon
<1>4. ASSUME NEW k \in T PROVE x <= k
  <2>1. x \in Nat /\ k \in Nat
    BY Zenon
  <2>2. ~(k < x)
    BY <1>2, <1>3, <2>1, Zenon
  <2> QED BY <2>1, <2>2
<1> QED BY <1>4, Zenon

(* A block has one chain below it: of two of its ancestors the lower one is *)
(* an ancestor of the higher one.                                           *)
LEMMA OneChain ==
    ASSUME NEW b \in Block, NEW a \in Ancestors[b], NEW c \in Ancestors[b],
           Height[a] <= Height[c]
    PROVE  a \in Ancestors[c]
<1> DEFINE Forked(d) == \E x, y \in Ancestors[d] : Height[x] <= Height[y] /\ x \notin Ancestors[y]
           T == {Height[d] : d \in {e \in Block : Forked(e)}}
<1> SUFFICES ASSUME Forked(b) PROVE FALSE
  BY Zenon
<1>1. T \subseteq Nat /\ T # {}
  BY TreeAssumption DEF TreeAssumption
<1>2. PICK m \in T : \A k \in T : m <= k
  <2> HIDE DEF T
  <2> QED BY <1>1, SmallestMember, Zenon
<1>3. PICK d \in Block : Forked(d) /\ Height[d] = m
  BY <1>2, Zenon
<1>4. PICK x \in Ancestors[d], y \in Ancestors[d] : Height[x] <= Height[y] /\ x \notin Ancestors[y]
  BY <1>3, Zenon
<1>5. x \in Block /\ y \in Block /\ y # d
  BY <1>4, AncestorsFacts, Zenon
<1>6. d # Genesis
  BY <1>4, <1>5, TreeAssumption, Zenon DEF TreeAssumption
<1>7. x # d
  BY <1>4, <1>5, TreeAssumption DEF TreeAssumption
<1>8. x \in Ancestors[Parent[d]] /\ y \in Ancestors[Parent[d]] /\ Parent[d] \in Block
      /\ Height[Parent[d]] < Height[d]
  BY <1>5, <1>6, <1>7, TreeAssumption DEF TreeAssumption
<1>9. Height[Parent[d]] \in T
  BY <1>4, <1>8, Zenon
<1> HIDE DEF T
<1>10. m <= Height[Parent[d]] /\ Height[Parent[d]] \in Nat /\ Height[d] \in Nat
  BY <1>1, <1>2, <1>9, TreeAssumption, Zenon DEF TreeAssumption
<1> QED BY <1>3, <1>8, <1>10

(* Marking a block that is not stored, or one above a failed block, does    *)
(* not touch a linked chain without failed blocks.                          *)
LEMMA MarksAreElsewhere ==
    ASSUME IndInv, ValidChains, tip' = tip, mostWork' \in {mostWork, NoBlock},
           \A a \in Failed' \ Failed : a \notin data \/ Ancestors[a] \cap Failed # {}
    PROVE  ValidChains'
<1>1. ASSUME NEW d \in linked, Ancestors[d] \cap Failed = {}
      PROVE  Ancestors[d] \cap Failed' = {}
  <2>1. d \in Block /\ Ancestors[d] \subseteq data
    BY Zenon DEF IndInv, TypeOK, LinkInv
  <2>2. \A a \in Ancestors[d] : Ancestors[a] \subseteq Ancestors[d]
    BY <2>1, TreeAssumption, Zenon DEF TreeAssumption
  <2> QED BY <1>1, <2>1, <2>2, Zenon
<1>2. Ancestors[tip] \cap Failed' = {}
  BY <1>1, Zenon DEF IndInv, ThreadInv, ValidChains, ActiveChainValid, ActiveChain
<1>3. mostWork # NoBlock => Ancestors[mostWork] \cap Failed' = {}
  BY <1>1, Zenon DEF IndInv, ThreadInv, ValidChains
<1> QED BY <1>2, <1>3, Zenon DEF ValidChains, ActiveChainValid, ActiveChain

(* The blocks of a chain above one of its failed blocks descend from it.    *)
LEMMA AboveAFailedBlock ==
    ASSUME NEW c \in Block, NEW t \in Ancestors[c], t \in Failed,
           NEW a \in Ancestors[c], Height[a] > Height[t]
    PROVE  Ancestors[a] \cap Failed # {}
<1>1. a \in Block /\ t \in Block
  BY AncestorsFacts, Zenon
<1>2. Height[t] <= Height[a]
  BY <1>1, TreeAssumption DEF TreeAssumption
<1>3. t \in Ancestors[a]
  BY <1>2, OneChain, Zenon
<1> QED BY <1>3, Zenon

(* AcceptBlockHeader marks only blocks above one of g_failed_blocks.        *)
LEMMA RejectHeaderMarks ==
    ASSUME IndInv, NEW b \in Block \ {Genesis}, RejectHeader(b)
    PROVE  /\ failedValid' = failedValid
           /\ \A a \in Failed' \ Failed : Ancestors[a] \cap Failed # {}
<1>1. PICK f \in FailedAncestors(b) :
         failedChild' = failedChild \cup {a \in Ancestors[Parent[b]] : Height[a] > Height[f]}
  BY Zenon DEF RejectHeader
<1>2. Parent[b] \in Block
  BY AncestorsFacts, Zenon
<1>3. f \in Ancestors[Parent[b]] /\ f \in Failed
  BY Zenon DEF FailedAncestors, IndInv, IndexInv, FailedBlocksMarked, Failed
<1>4. failedValid' = failedValid
  BY Zenon DEF RejectHeader
<1>5. ASSUME NEW a \in Failed' \ Failed
      PROVE  Ancestors[a] \cap Failed # {}
  <2>1. a \in Ancestors[Parent[b]] /\ Height[a] > Height[f]
    BY <1>1, <1>4, Zenon DEF Failed
  <2> QED BY <1>2, <1>3, <2>1, AboveAFailedBlock, Zenon
<1> QED BY <1>4, <1>5, Zenon

(* FindMostWorkChain marks only the blocks above the failed one it stops at.*)
LEMMA FindMostWorkChainMarks ==
    ASSUME IndInv, FindMostWorkChain
    PROVE  /\ failedValid' = failedValid
           /\ \A a \in Failed' \ Failed : Ancestors[a] \cap Failed # {}
<1>1. failedValid' = failedValid
  BY Zenon DEF FindMostWorkChain
<1>2. PICK c \in Block : UseCandidate(c) \/ \E t \in Unusable(c) : DropCandidate(c, t)
  BY Zenon DEF FindMostWorkChain
<1>3. CASE UseCandidate(c)
  BY <1>1, <1>3, Zenon DEF UseCandidate, Failed
<1>4. ASSUME NEW t \in Unusable(c), DropCandidate(c, t), NEW a \in Failed' \ Failed
      PROVE  Ancestors[a] \cap Failed # {}
  <2>1. t \in Failed /\ a \in AboveFailed(c, t)
    BY <1>1, <1>4, Zenon DEF DropCandidate, Failed
  <2>2. t \in Ancestors[c] /\ a \in Ancestors[c] /\ Height[a] > Height[t]
    BY <2>1, Zenon DEF Unusable, AboveFailed
  <2> QED BY <2>1, <2>2, AboveAFailedBlock, Zenon
<1> QED BY <1>1, <1>2, <1>3, <1>4, Zenon

(* LoadBlockIndex marks only the descendants of marked blocks.              *)
LEMMA RestartMarks ==
    ASSUME IndInv, Restart
    PROVE  /\ failedValid' = failedValid
           /\ \A a \in Failed' \ Failed : Ancestors[a] \cap Failed # {}
<1>1. PICK lost \in SUBSET unsaved : LoadBlockIndex(lost)
  BY Zenon DEF Restart
<1> DEFINE marked == failedValid \cup (failedChild \ lost)
<1>2. /\ failedChild' = (failedChild \ lost) \cup (InheritFailure(marked) \ failedValid)
      /\ failedValid' = failedValid
  BY <1>1, Zenon DEF LoadBlockIndex
<1>3. marked \subseteq Failed
  BY Zenon DEF Failed
<1>4. \A a \in InheritFailure(marked) : Ancestors[a] \cap marked # {}
  BY Zenon DEF InheritFailure
<1> HIDE DEF marked
<1> QED BY <1>2, <1>3, <1>4, Zenon DEF Failed

(* The block ActivateBestChainStep connects next lies on the chain to       *)
(* pindexMostWork, right above the tip.                                     *)
LEMMA ConnectedBlock ==
    ASSUME IndInv, ConnectNext
    PROVE  LET b == NextTowards(tip, mostWork)
           IN  /\ mostWork \in Block
               /\ b \in Ancestors[mostWork]
               /\ b \in Block \ {Genesis}
               /\ b \in data
               /\ Parent[b] = tip
               /\ Ancestors[b] = {b} \cup Ancestors[tip]
               /\ Ancestors[b] \subseteq Ancestors[mostWork]
<1> DEFINE b == NextTowards(tip, mostWork)
<1>1. mostWork \in Block /\ mostWork \in linked
  BY Zenon DEF IndInv, TypeOK, ThreadInv, ConnectNext
<1>2. b \in Ancestors[mostWork] /\ Parent[b] = tip
  BY <1>1, NextTowardsFacts, Zenon DEF ConnectNext
<1> HIDE DEF b
<1>3. b \in Block \ {Genesis} /\ b \in data
  BY <1>1, <1>2, AncestorsFacts, Zenon DEF IndInv, TypeOK, LinkInv
<1>4. Ancestors[b] = {b} \cup Ancestors[tip] /\ Ancestors[b] \subseteq Ancestors[mostWork]
  BY <1>1, <1>2, <1>3, TreeAssumption, Zenon DEF TreeAssumption
<1> QED BY <1>1, <1>2, <1>3, <1>4, Zenon DEF b

(* Filing headers, linking blocks and moving the thread along leave the     *)
(* marks and the tip alone, and pindexMostWork unless it is wiped.          *)
LEMMA QuietSteps ==
    ASSUME \/ \E b \in Block : AcceptHeader(b) \/ LinkNext(b) \/ PreciousBlock(b)
           \/ RequestActivation \/ Start \/ LockMain \/ NothingToDo \/ BeginStep
           \/ EndStep \/ TestProgress \/ UnlockMain
           \/ UNCHANGED vars
    PROVE  /\ UNCHANGED <<failedValid, failedChild, tip>>
           /\ mostWork' \in {mostWork, NoBlock}
<1> USE DEF index, chain, thread, round
<1>1. CASE \E b \in Block : AcceptHeader(b) \/ LinkNext(b) \/ PreciousBlock(b)
  BY <1>1, Zenon DEF AcceptHeader, LinkNext, PreciousBlock
<1>2. CASE RequestActivation \/ Start \/ LockMain \/ NothingToDo
  BY <1>2, Zenon DEF RequestActivation, Start, LockMain, NothingToDo
<1>3. CASE BeginStep \/ EndStep \/ TestProgress \/ UnlockMain
  BY <1>3, Zenon DEF BeginStep, EndStep, TestProgress, UnlockMain
<1>4. CASE UNCHANGED vars
  BY <1>4, Zenon DEF vars
<1> QED BY <1>1, <1>2, <1>3, <1>4, Zenon

(* AcceptBlock marks only the block it was given, which is not stored.      *)
LEMMA AcceptBlockMarks ==
    ASSUME NEW b \in Block, NEW fRequested \in BOOLEAN, NEW fCheckPoS \in BOOLEAN,
           AcceptBlock(b, fRequested, fCheckPoS)
    PROVE  /\ UNCHANGED <<failedChild, tip, mostWork>>
           /\ \/ failedValid' = failedValid
              \/ failedValid' = failedValid \cup {b} /\ b \notin data
BY Zenon DEF AcceptBlock, Stores, thread

(* ActivateBestChainStep connects a block that is not marked, and the block *)
(* it marks is above the tip, with pindexMostWork wiped.                    *)
LEMMA ConnectNextValid ==
    ASSUME IndInv, ValidChains, ConnectNext
    PROVE  ValidChains'
<1> DEFINE b == NextTowards(tip, mostWork)
<1>1. /\ mostWork \in Block
      /\ b \in Ancestors[mostWork]
      /\ b \in Block \ {Genesis}
      /\ Parent[b] = tip
      /\ Ancestors[b] \subseteq Ancestors[mostWork]
  BY ConnectedBlock, Zenon
<1>2. ConnectTip(b) \/ InvalidBlockFound(b) \/ CorruptBlockFound(b) \/ SystemError(b)
  BY Zenon DEF ConnectNext
<1>3. failedChild' = failedChild
  BY Zenon DEF ConnectNext
<1>4. b \notin Ancestors[tip]
  <2>1. tip \in Block /\ Height[b] = Height[tip] + 1 /\ Height[tip] \in Nat
    BY <1>1, TreeAssumption DEF TreeAssumption, IndInv, TypeOK
  <2>2. \A a \in Ancestors[tip] : Height[a] <= Height[tip]
    BY <2>1, TreeAssumption, Zenon DEF TreeAssumption
  <2> HIDE DEF b
  <2> QED BY <2>1, <2>2
<1> HIDE DEF b
<1>5. mostWork # NoBlock
  BY <1>1, TreeAssumption, Zenon DEF TreeAssumption
<1> USE DEF ValidChains, ActiveChainValid, ActiveChain, Failed
<1>6. CASE ConnectTip(b)
  BY <1>1, <1>3, <1>5, <1>6, Zenon DEF ConnectTip
<1>7. CASE InvalidBlockFound(b)
  BY <1>3, <1>4, <1>7, Zenon DEF InvalidBlockFound
<1>8. CASE CorruptBlockFound(b) \/ SystemError(b)
  BY <1>3, <1>8, Zenon DEF CorruptBlockFound, SystemError
<1> QED BY <1>2, <1>6, <1>7, <1>8, Zenon

(* FindMostWorkChain returns a candidate whose chain was walked down to the *)
(* active chain without meeting a failed block.                             *)
LEMMA FindMostWorkChainValid ==
    ASSUME IndInv, ValidChains, FindMostWorkChain
    PROVE  ValidChains'
<1>1. tip' = tip /\ failedValid' = failedValid
  BY Zenon DEF FindMostWorkChain
<1>2. PICK c \in Block : UseCandidate(c) \/ \E t \in Unusable(c) : DropCandidate(c, t)
  BY Zenon DEF FindMostWorkChain
<1>3. CASE UseCandidate(c)
  <2>1. mostWork' = c /\ Failed' = Failed
    BY <1>1, <1>3, Zenon DEF UseCandidate, Failed
  <2>2. Ancestors[c] \cap Failed = {}
    BY <1>3, Zenon DEF UseCandidate, Unusable, ValidChains, ActiveChainValid
  <2> QED BY <1>1, <2>1, <2>2, Zenon DEF ValidChains, ActiveChainValid, ActiveChain
<1>4. CASE \E t \in Unusable(c) : DropCandidate(c, t)
  <2>1. mostWork' = mostWork
    BY <1>4, Zenon DEF DropCandidate
  <2> QED BY <1>1, <2>1, MarksAreElsewhere, FindMostWorkChainMarks, Zenon
<1> QED BY <1>2, <1>3, <1>4, Zenon

(* DisconnectTip leaves the chain below the tip.                            *)
LEMMA TipToParent ==
    ASSUME IndInv, DisconnectTip
    PROVE  /\ Ancestors[tip'] \subseteq Ancestors[tip]
           /\ UNCHANGED <<valid, failedValid, failedChild, mostWork>>
<1>1. tip \in Block \ {Genesis} /\ tip' = Parent[tip]
  BY AncestorsFacts DEF IndInv, TypeOK, ThreadInv, DisconnectTip
<1>2. Ancestors[tip'] \subseteq Ancestors[tip]
  BY <1>1, TreeAssumption, Zenon DEF TreeAssumption
<1> QED BY <1>2, Zenon DEF DisconnectTip, index, thread

(* Unless blocks are invalidated by hand, every step preserves ValidChains. *)
LEMMA NextValid ==
    ASSUME "invalidate" \notin Operations, IndInv, ValidChains, [Next]_vars
    PROVE  ValidChains'
<1>1. CASE \/ \E b \in Block : AcceptHeader(b) \/ LinkNext(b) \/ PreciousBlock(b)
           \/ RequestActivation \/ Start \/ LockMain \/ NothingToDo \/ BeginStep
           \/ EndStep \/ TestProgress \/ UnlockMain
           \/ UNCHANGED vars
  <2>1. Failed' = Failed
    BY <1>1, QuietSteps, Zenon DEF Failed
  <2> QED BY <1>1, <2>1, QuietSteps, MarksAreElsewhere, Zenon
<1>2. ASSUME NEW b \in Block \ {Genesis}, RejectHeader(b)
      PROVE  ValidChains'
  <2>1. tip' = tip /\ mostWork' = mostWork
    BY <1>2, Zenon DEF RejectHeader, chain, thread
  <2> QED BY <1>2, <2>1, RejectHeaderMarks, MarksAreElsewhere, Zenon
<1>3. ASSUME NEW b \in Block \ {Genesis}, NEW fRequested \in BOOLEAN, NEW fCheckPoS \in BOOLEAN,
             AcceptBlock(b, fRequested, fCheckPoS)
      PROVE  ValidChains'
  <2>1. \A a \in Failed' \ Failed : a \notin data
    BY <1>3, AcceptBlockMarks, Zenon DEF Failed
  <2> QED BY <1>3, <2>1, AcceptBlockMarks, MarksAreElsewhere, Zenon
<1>4. CASE DisconnectTip
  BY <1>4, TipToParent, Zenon DEF ValidChains, ActiveChainValid, ActiveChain, Failed
<1>5. ASSUME NEW b \in Block, ResetBlockFailureFlags(b)
      PROVE  ValidChains'
  <2>1. Failed' \subseteq Failed /\ tip' = tip /\ mostWork' = mostWork
    BY <1>5, Zenon DEF ResetBlockFailureFlags, Failed, thread
  <2> QED BY <2>1, Zenon DEF ValidChains, ActiveChainValid, ActiveChain
<1>6. CASE Restart
  <2>1. tip' = tip /\ mostWork' = NoBlock
    BY <1>6, Zenon DEF Restart
  <2> QED BY <1>6, <2>1, RestartMarks, MarksAreElsewhere, Zenon
<1>7. CASE Peers
  BY <1>1, <1>2, <1>3, <1>7, Zenon DEF Peers, ProcessNewBlock
<1>8. CASE Link
  BY <1>1, <1>8, Zenon DEF Link
<1>9. CASE ActivateBestChain
  BY <1>1, <1>4, <1>9, ConnectNextValid, FindMostWorkChainValid, Zenon DEF ActivateBestChain
<1>10. CASE Operator
  BY <1>1, <1>3, <1>5, <1>6, <1>10, Zenon DEF Operator, LoadExternalBlock, InvalidateBlock
<1> QED BY <1>1, <1>7, <1>8, <1>9, <1>10, Zenon DEF Next

(* The chains of the tip and of pindexMostWork hold no failed block.        *)
THEOREM ChainsAlwaysValid ==
    ASSUME "invalidate" \notin Operations
    PROVE  Spec => []ValidChains
<1>1. Init => ValidChains
  BY Zenon DEF Init, ValidChains, ActiveChainValid, Failed
<1>2. IndInv /\ ValidChains /\ [Next]_vars => ValidChains'
  BY NextValid, Zenon
<1> QED BY <1>1, <1>2, Inductive, PTL DEF Spec

(* As long as no block is invalidated by hand, the active chain holds no    *)
(* block that is marked failed, whatever peers, imports, reconsidered and   *)
(* precious blocks and restarts do: FindMostWorkChain may stop its walk at  *)
(* the active chain.                                                        *)
THEOREM ActiveChainAlwaysValid ==
    ASSUME "invalidate" \notin Operations
    PROVE  Spec => []ActiveChainValid
<1>1. ValidChains => ActiveChainValid
  BY Zenon DEF ValidChains
<1> QED BY <1>1, ChainsAlwaysValid, PTL

(* A step that takes no block to or from BLOCK_VALID_SCRIPTS and adds none  *)
(* to the active chain keeps the scripts checked in order.                  *)
LEMMA SameScripts ==
    ASSUME ScriptsChecked, Ancestors[tip'] \subseteq Ancestors[tip], tip \in Block,
           \A a \in Block : valid'[a] = BLOCK_VALID_SCRIPTS <=> valid[a] = BLOCK_VALID_SCRIPTS
    PROVE  ScriptsChecked'
<1>1. \A b \in Block : Ancestors[b] \subseteq Block
  BY AncestorsFacts, Zenon
<1> QED BY <1>1, Zenon DEF ScriptsChecked, ScriptsInOrder, ActiveChain

(* AddToBlockIndex and ReceivedBlockTransactions raise a block whose data   *)
(* is missing, and to a level below BLOCK_VALID_SCRIPTS.                    *)
LEMMA LevelsBelowScripts ==
    ASSUME IndInv, NEW b \in Block \ {Genesis}, NEW fRequested \in BOOLEAN,
           NEW fCheckPoS \in BOOLEAN,
           AcceptHeader(b) \/ AcceptBlock(b, fRequested, fCheckPoS)
    PROVE  \A a \in Block : valid'[a] = BLOCK_VALID_SCRIPTS <=> valid[a] = BLOCK_VALID_SCRIPTS
<1> USE DEF BLOCK_VALID_TREE, BLOCK_VALID_TRANSACTIONS, BLOCK_VALID_SCRIPTS
<1>1. CASE AddToBlockIndex(b)
  BY <1>1 DEF AddToBlockIndex, Index, IndInv, TypeOK
<1>2. CASE ReceivedBlockTransactions(b) /\ b \notin data
  <2>1. ~(valid[b] >= BLOCK_VALID_TRANSACTIONS)
    BY <1>2, Zenon DEF IndInv, IndexInv, StoredIffReceived
  <2> QED BY <1>2, <2>1 DEF ReceivedBlockTransactions, LevelOnReceipt, RaiseValidity, IndInv, TypeOK
<1> QED BY <1>1, <1>2, Zenon DEF AcceptHeader, AcceptBlock, Stores

(* ConnectTip takes the block above the tip to BLOCK_VALID_SCRIPTS, for it  *)
(* is not marked.                                                           *)
LEMMA ConnectNextScripts ==
    ASSUME IndInv, ValidChains, ScriptsChecked, ConnectNext
    PROVE  ScriptsChecked'
<1> DEFINE b == NextTowards(tip, mostWork)
<1>1. /\ mostWork \in Block
      /\ b \in Ancestors[mostWork]
      /\ b \in Block \ {Genesis}
      /\ Ancestors[b] = {b} \cup Ancestors[tip]
  BY ConnectedBlock, Zenon
<1>2. ConnectTip(b) \/ InvalidBlockFound(b) \/ CorruptBlockFound(b) \/ SystemError(b)
  BY Zenon DEF ConnectNext
<1> HIDE DEF b
<1>3. b \notin Failed
  BY <1>1, TreeAssumption, Zenon DEF TreeAssumption, ValidChains
<1>4. CASE ConnectTip(b)
  <2>1. tip' = b /\ valid'[b] = BLOCK_VALID_SCRIPTS /\ \A a \in Block \ {b} : valid'[a] = valid[a]
    BY <1>1, <1>3, <1>4 DEF ConnectTip, RaiseValidity, IndInv, TypeOK, BLOCK_VALID_TREE,
                            BLOCK_VALID_TRANSACTIONS, BLOCK_VALID_SCRIPTS
  <2>2. \A a \in Ancestors[b] \ {Genesis} : valid'[a] = BLOCK_VALID_SCRIPTS
    BY <1>1, <2>1, AncestorsFacts, Zenon DEF ScriptsChecked, ActiveChain
  <2>3. ScriptsInOrder'
    BY <2>1, <2>2, AncestorsFacts, Zenon DEF ScriptsChecked, ScriptsInOrder
  <2> QED BY <2>1, <2>2, <2>3, Zenon DEF ScriptsChecked, ActiveChain
<1>5. CASE InvalidBlockFound(b) \/ CorruptBlockFound(b) \/ SystemError(b)
  <2>1. tip' = tip /\ valid' = valid
    BY <1>5, Zenon DEF InvalidBlockFound, CorruptBlockFound, SystemError
  <2> QED BY <2>1, SameScripts, Zenon DEF IndInv, TypeOK
<1> QED BY <1>2, <1>4, <1>5, Zenon

(* The other steps leave the levels alone and add nothing to the chain.     *)
LEMMA LevelsAlone ==
    ASSUME IndInv,
           \/ \E b \in Block : RejectHeader(b) \/ LinkNext(b) \/ PreciousBlock(b)
                               \/ ResetBlockFailureFlags(b)
           \/ RequestActivation \/ Start \/ LockMain \/ NothingToDo \/ BeginStep
           \/ EndStep \/ TestProgress \/ UnlockMain \/ FindMostWorkChain \/ DisconnectTip
           \/ Restart
           \/ UNCHANGED vars
    PROVE  valid' = valid /\ Ancestors[tip'] \subseteq Ancestors[tip]
<1> USE DEF index, chain
<1>1. CASE \E b \in Block : RejectHeader(b) \/ LinkNext(b) \/ PreciousBlock(b)
                            \/ ResetBlockFailureFlags(b)
  BY <1>1, Zenon DEF RejectHeader, LinkNext, PreciousBlock, ResetBlockFailureFlags
<1>2. CASE RequestActivation \/ Start \/ LockMain \/ NothingToDo
  BY <1>2, Zenon DEF RequestActivation, Start, LockMain, NothingToDo
<1>3. CASE BeginStep \/ EndStep \/ TestProgress \/ UnlockMain
  BY <1>3, Zenon DEF BeginStep, EndStep, TestProgress, UnlockMain
<1>4. CASE FindMostWorkChain
  BY <1>4, Zenon DEF FindMostWorkChain
<1>5. CASE DisconnectTip
  BY <1>5, TipToParent, Zenon
<1>6. CASE Restart
  BY <1>6, Zenon DEF Restart, LoadBlockIndex
<1>7. CASE UNCHANGED vars
  BY <1>7, Zenon DEF vars
<1> QED BY <1>1, <1>2, <1>3, <1>4, <1>5, <1>6, <1>7, Zenon

(* Unless blocks are invalidated by hand, every step keeps scripts in order.*)
LEMMA NextScripts ==
    ASSUME "invalidate" \notin Operations, IndInv, ValidChains, ScriptsChecked, [Next]_vars
    PROVE  ScriptsChecked'
<1>1. CASE \/ \E b \in Block : RejectHeader(b) \/ LinkNext(b) \/ PreciousBlock(b)
                               \/ ResetBlockFailureFlags(b)
           \/ RequestActivation \/ Start \/ LockMain \/ NothingToDo \/ BeginStep
           \/ EndStep \/ TestProgress \/ UnlockMain \/ FindMostWorkChain \/ DisconnectTip
           \/ Restart
           \/ UNCHANGED vars
  BY <1>1, LevelsAlone, SameScripts, Zenon DEF IndInv, TypeOK
<1>2. ASSUME NEW b \in Block \ {Genesis}, NEW fRequested \in BOOLEAN, NEW fCheckPoS \in BOOLEAN,
             AcceptHeader(b) \/ AcceptBlock(b, fRequested, fCheckPoS)
      PROVE  ScriptsChecked'
  <2>1. tip' = tip
    BY <1>2, Zenon DEF AcceptHeader, AcceptBlock
  <2> QED BY <1>2, <2>1, LevelsBelowScripts, SameScripts, Zenon DEF IndInv, TypeOK
<1>3. CASE Peers
  BY <1>1, <1>2, <1>3, Zenon DEF Peers, ProcessNewBlock
<1>4. CASE Link
  BY <1>1, <1>4, Zenon DEF Link
<1>5. CASE ActivateBestChain
  BY <1>1, <1>5, ConnectNextScripts, Zenon DEF ActivateBestChain
<1>6. CASE Operator
  BY <1>1, <1>2, <1>6, Zenon DEF Operator, LoadExternalBlock, InvalidateBlock
<1> QED BY <1>1, <1>3, <1>4, <1>5, <1>6, Zenon DEF Next

(* As long as no block is invalidated by hand, no block is at               *)
(* BLOCK_VALID_SCRIPTS before its ancestors: ConnectTip runs up a chain     *)
(* without failed blocks, so RaiseValidity never returns early.             *)
THEOREM ScriptsAlwaysInOrder ==
    ASSUME "invalidate" \notin Operations
    PROVE  Spec => []ScriptsInOrder
<1>1. Init => ScriptsChecked
  BY TreeAssumption DEF Init, ScriptsChecked, ScriptsInOrder, ActiveChain, TreeAssumption,
                        BLOCK_VALID_TRANSACTIONS, BLOCK_VALID_SCRIPTS
<1>2. IndInv /\ ValidChains /\ ScriptsChecked /\ [Next]_vars => ScriptsChecked'
  BY NextScripts, Zenon
<1>3. ScriptsChecked => ScriptsInOrder
  BY Zenon DEF ScriptsChecked
<1> QED BY <1>1, <1>2, <1>3, Inductive, ChainsAlwaysValid, PTL DEF Spec

(* A mark set above a marked block, or on or above a block that failed      *)
(* itself, has a cause.                                                     *)
LEMMA MarksHaveCause ==
    ASSUME IndInv, FailureHasCause, Failed' \subseteq Block, failedValid \subseteq failedValid',
           \A a \in Failed' \ Failed : Ancestors[a] \cap (Failed \cup failedValid') # {}
    PROVE  FailureHasCause'
<1> SUFFICES ASSUME NEW a \in Failed'
             PROVE  Ancestors[a] \cap failedValid' # {}
  BY Zenon DEF FailureHasCause
<1>1. CASE a \in Failed
  BY <1>1, Zenon DEF FailureHasCause
<1>2. CASE a \notin Failed
  <2>1. PICK d \in Ancestors[a] : d \in Failed \cup failedValid'
    BY <1>2, Zenon
  <2>2. Ancestors[d] \subseteq Ancestors[a]
    BY TreeAssumption, Zenon DEF TreeAssumption
  <2>3. CASE d \in Failed
    BY <2>2, <2>3, Zenon DEF FailureHasCause
  <2>4. CASE d \in failedValid'
    BY <2>4, Zenon
  <2> QED BY <2>1, <2>3, <2>4, Zenon
<1> QED BY <1>1, <1>2, Zenon

(* InvalidateBlock marks its block as failed itself, and the blocks above   *)
(* it that leave the active chain.                                          *)
LEMMA InvalidateBlockMarks ==
    ASSUME IndInv, NEW b \in Block, InvalidateBlock(b)
    PROVE  /\ failedValid \subseteq failedValid'
           /\ \A a \in Failed' \ Failed : Ancestors[a] \cap failedValid' # {}
<1>1. /\ failedValid' = failedValid \cup {b}
      /\ failedChild' = failedChild \cup (IF b \in ActiveChain
                                          THEN {a \in ActiveChain : Height[a] > Height[b]} ELSE {})
  BY Zenon DEF InvalidateBlock
<1>2. tip \in Block /\ ActiveChain \subseteq Block
  BY AncestorsFacts, Zenon DEF IndInv, TypeOK, ActiveChain
<1>3. ASSUME NEW a \in Failed' \ Failed
      PROVE  b \in Ancestors[a]
  <2>1. CASE a = b
    BY <2>1, AncestorsFacts, Zenon
  <2>2. CASE b \in ActiveChain /\ a \in ActiveChain /\ Height[a] > Height[b]
    <3>1. Height[b] <= Height[a]
      BY <1>2, <2>2, TreeAssumption DEF TreeAssumption
    <3> QED BY <1>2, <2>2, <3>1, OneChain, Zenon DEF ActiveChain
  <2> QED BY <1>1, <2>1, <2>2, Zenon DEF Failed
<1> QED BY <1>1, <1>3, Zenon

(* Unless blocks are reconsidered, every step keeps a cause for every mark. *)
LEMMA NextCause ==
    ASSUME "reconsider" \notin Operations, IndInv, FailureHasCause, [Next]_vars
    PROVE  FailureHasCause'
<1>0. Failed' \subseteq Block
  <2>1. IndInv'
    BY NextInd, Zenon
  <2> QED BY <2>1, Zenon DEF IndInv, TypeOK, Failed
<1>1. CASE \/ \E b \in Block : AcceptHeader(b) \/ LinkNext(b) \/ PreciousBlock(b)
           \/ RequestActivation \/ Start \/ LockMain \/ NothingToDo \/ BeginStep
           \/ EndStep \/ TestProgress \/ UnlockMain
           \/ UNCHANGED vars
  BY <1>1, QuietSteps, Zenon DEF FailureHasCause, Failed
<1>2. ASSUME NEW b \in Block \ {Genesis}, RejectHeader(b)
      PROVE  FailureHasCause'
  BY <1>0, <1>2, RejectHeaderMarks, MarksHaveCause, Zenon
<1>3. ASSUME NEW b \in Block \ {Genesis}, NEW fRequested \in BOOLEAN, NEW fCheckPoS \in BOOLEAN,
             AcceptBlock(b, fRequested, fCheckPoS)
      PROVE  FailureHasCause'
  <2>1. failedValid \subseteq failedValid' /\ Failed' \ Failed \subseteq failedValid'
    BY <1>3, AcceptBlockMarks, Zenon DEF Failed
  <2> QED BY <1>0, <2>1, AncestorsFacts, MarksHaveCause, Zenon
<1>4. CASE DisconnectTip
  BY <1>4, TipToParent, Zenon DEF FailureHasCause, Failed
<1>5. CASE FindMostWorkChain
  BY <1>0, <1>5, FindMostWorkChainMarks, MarksHaveCause, Zenon
<1>6. CASE ConnectNext
  <2>1. failedValid \subseteq failedValid' /\ failedChild' = failedChild
    BY <1>6, Zenon DEF ConnectNext, ConnectTip, InvalidBlockFound, CorruptBlockFound, SystemError
  <2>2. Failed' \ Failed \subseteq failedValid'
    BY <2>1, Zenon DEF Failed
  <2> QED BY <1>0, <2>1, <2>2, AncestorsFacts, MarksHaveCause, Zenon
<1>7. ASSUME NEW b \in Block, InvalidateBlock(b)
      PROVE  FailureHasCause'
  BY <1>0, <1>7, InvalidateBlockMarks, MarksHaveCause, Zenon
<1>8. CASE Restart
  BY <1>0, <1>8, RestartMarks, MarksHaveCause, Zenon
<1>9. CASE Peers
  BY <1>1, <1>2, <1>3, <1>9, Zenon DEF Peers, ProcessNewBlock
<1>10. CASE Link
  BY <1>1, <1>10, Zenon DEF Link
<1>11. CASE ActivateBestChain
  BY <1>1, <1>4, <1>5, <1>6, <1>11, Zenon DEF ActivateBestChain
<1>12. CASE Operator
  BY <1>1, <1>3, <1>7, <1>8, <1>12, Zenon DEF Operator, LoadExternalBlock, ResetBlockFailureFlags
<1> QED BY <1>1, <1>9, <1>10, <1>11, <1>12, Zenon DEF Next

(* As long as no block is reconsidered, a block is marked only if it or one *)
(* of its ancestors failed itself, although FindMostWorkChain's marks may   *)
(* be lost in a restart and are derived again.                              *)
THEOREM FailureAlwaysHasCause ==
    ASSUME "reconsider" \notin Operations
    PROVE  Spec => []FailureHasCause
<1>1. Init => FailureHasCause
  BY Zenon DEF Init, FailureHasCause, Failed
<1>2. IndInv /\ FailureHasCause /\ [Next]_vars => FailureHasCause'
  BY NextCause, Zenon
<1> QED BY <1>1, <1>2, Inductive, PTL DEF Spec

(* The operator neither invalidates nor reconsiders a block.                *)
MarksStay == Operations \cap {"invalidate", "reconsider"} = {}

(* Where a stored block that is not linked waits: in the deque if its       *)
(* parent is linked, and otherwise in mapBlocksUnlinked unless its parent   *)
(* is marked.  A marked block that is not linked will not be, for there is  *)
(* a marked block below it whose data is missing and is no longer accepted. *)
WaitingInv ==
    /\ \A b \in data \ linked :
          IF Parent[b] \in linked THEN b \in queue ELSE b \in unlinked \/ Parent[b] \in Failed
    /\ \A b \in unlinked : Parent[b] \notin linked
    /\ \A b \in Failed \ linked : \E a \in Ancestors[b] : a \in Failed /\ a \notin data
    /\ failedBlocks \subseteq linked
    /\ unsaved \subseteq linked

(* Once the deque is empty, a block is linked if its ancestors are stored:  *)
(* the lowest one that is not would be waiting in the deque.                *)
LEMMA LinkedOnceServed ==
    ASSUME IndInv, WaitingInv, queue = {}
    PROVE  linked = WholeChains
<1>1. linked \subseteq WholeChains
  BY DEF IndInv, IndexInv, LinkInv, WholeChains, Index, StoredIffReceived,
         BLOCK_VALID_TRANSACTIONS, TypeOK
<1>2. ASSUME NEW b \in WholeChains \ linked
      PROVE  FALSE
  <2> DEFINE T == {Height[d] : d \in WholeChains \ linked}
  <2>1. WholeChains \subseteq Block
    BY Zenon DEF WholeChains, Index
  <2>2. T \subseteq Nat /\ T # {}
    BY <1>2, <2>1, TreeAssumption DEF TreeAssumption
  <2>3. PICK m \in T : \A k \in T : m <= k
    <3> HIDE DEF T
    <3> QED BY <2>2, SmallestMember, Zenon
  <2>4. PICK d \in WholeChains \ linked : Height[d] = m
    BY <2>3, Zenon
  <2>5. d \in Block /\ d # Genesis /\ d \in data /\ Ancestors[d] \subseteq data
    BY <2>1, <2>4, AncestorsFacts, Zenon DEF WholeChains, IndInv, LinkInv
  <2>6. Parent[d] \notin linked
    BY <2>4, <2>5, Zenon DEF WaitingInv
  <2>7. Parent[d] \in WholeChains
    <3>1. Parent[d] \in Index
      BY <2>4, <2>5, AncestorsFacts, Zenon DEF WholeChains, IndInv, IndexInv
    <3>2. Ancestors[Parent[d]] \subseteq data
      BY <2>5, TreeAssumption DEF TreeAssumption
    <3> QED BY <3>1, <3>2, Zenon DEF WholeChains
  <2>8. Height[Parent[d]] \in T
    BY <2>6, <2>7, Zenon
  <2> HIDE DEF T
  <2>9. Height[d] = Height[Parent[d]] + 1 /\ Height[Parent[d]] \in Nat /\ Height[d] \in Nat
    BY <2>5, TreeAssumption DEF TreeAssumption
  <2> QED BY <2>3, <2>4, <2>8, <2>9
<1> QED BY <1>1, <1>2, Zenon

(* Marks on linked blocks, or above a missing block that is marked too, let *)
(* the blocks wait where they are.                                          *)
LEMMA WaitingFrame ==
    ASSUME WaitingInv, UNCHANGED <<data, linked, queue, unlinked>>, Failed \subseteq Failed',
           \A b \in (Failed' \ Failed) \ linked :
              \E a \in Ancestors[b] : a \in Failed' /\ a \notin data,
           failedBlocks' \subseteq linked, unsaved' \subseteq linked
    PROVE  WaitingInv'
<1>1. \A b \in data' \ linked' :
         IF Parent[b] \in linked' THEN b \in queue' ELSE b \in unlinked' \/ Parent[b] \in Failed'
  BY Zenon DEF WaitingInv
<1>2. \A b \in Failed' \ linked' : \E a \in Ancestors[b] : a \in Failed' /\ a \notin data'
  BY Zenon DEF WaitingInv
<1> QED BY <1>1, <1>2, Zenon DEF WaitingInv

(* A block that is marked above a linked one has a missing ancestor between *)
(* the two, unless it is linked itself.                                     *)
LEMMA MissingBetween ==
    ASSUME IndInv, linked = WholeChains, NEW b \in Index, b \notin linked,
           NEW f \in Ancestors[b], f \in linked
    PROVE  \E a \in Ancestors[b] : a \notin data /\ f \in Ancestors[a] /\ Height[a] > Height[f]
<1>1. b \in Block /\ f \in Block
  BY AncestorsFacts, Zenon DEF Index
<1>2. PICK a \in Ancestors[b] : a \notin data
  BY Zenon DEF WholeChains
<1>3. a \in Block /\ a \notin Ancestors[f]
  BY <1>1, <1>2, AncestorsFacts, Zenon DEF IndInv, LinkInv
<1>4. Height[a] > Height[f]
  <2>1. ~(Height[a] <= Height[f])
    BY <1>1, <1>2, <1>3, OneChain, Zenon
  <2> QED BY <1>1, <1>3, <2>1, TreeAssumption DEF TreeAssumption
<1>5. f \in Ancestors[a]
  <2>1. Height[f] <= Height[a]
    BY <1>1, <1>3, <1>4, TreeAssumption DEF TreeAssumption
  <2> QED BY <1>1, <1>2, <2>1, OneChain, Zenon
<1> QED BY <1>2, <1>4, <1>5, Zenon

(* A stored block starts the deque or is filed under its parent.            *)
LEMMA AcceptBlockWaiting ==
    ASSUME IndInv, WaitingInv, NEW b \in Block \ {Genesis}, NEW fRequested \in BOOLEAN,
           NEW fCheckPoS \in BOOLEAN, AcceptBlock(b, fRequested, fCheckPoS)
    PROVE  WaitingInv'
<1>1. /\ UNCHANGED <<failedChild, unsaved, linked, failedBlocks>>
      /\ queue = {}
  BY Zenon DEF AcceptBlock, MainFree
<1>2. /\ b \notin Failed
      /\ Ancestors[b] \subseteq Index \cup {b}
  BY HeaderFacts, Zenon DEF AcceptBlock
<1>3. Parent[b] \in Block /\ Parent[b] \in Index
  <2>1. Parent[b] \in Ancestors[b] /\ Parent[b] \in Block
    BY AncestorsFacts, Zenon
  <2>2. Parent[b] # b
    BY TreeAssumption DEF TreeAssumption
  <2> QED BY <1>2, <2>1, <2>2, Zenon
<1>4. CASE UNCHANGED <<data, unlinked, queue>>
  <2>1. Failed \subseteq Failed' /\ Failed' \ Failed \subseteq {b} \ data
    BY <1>1, AcceptBlockMarks, Zenon DEF Failed
  <2> QED BY <1>1, <1>4, <2>1, AncestorsFacts, WaitingFrame, Zenon DEF WaitingInv
<1>5. CASE ReceivedBlockTransactions(b) /\ UNCHANGED failedValid
  <2>1. Failed' = Failed /\ data' = data \cup {b}
    BY <1>1, <1>5, Zenon DEF Failed, ReceivedBlockTransactions
  <2>2. /\ Parent[b] \in linked => queue' = {b} /\ unlinked' = unlinked
        /\ Parent[b] \notin linked => unlinked' = FileUnlinked(b) /\ queue' = queue
    BY <1>5, Zenon DEF ReceivedBlockTransactions
  <2>3. Parent[b] \in Failed \/ FileUnlinked(b) = unlinked \cup {b}
    BY <1>3 DEF FileUnlinked, IsValid, Index, IndInv, TypeOK, BLOCK_VALID_TREE,
                BLOCK_VALID_TRANSACTIONS, BLOCK_VALID_SCRIPTS
  <2>4. FileUnlinked(b) \in {unlinked, unlinked \cup {b}}
    BY Zenon DEF FileUnlinked
  <2>5. \A c \in data' \ linked' :
           IF Parent[c] \in linked' THEN c \in queue' ELSE c \in unlinked' \/ Parent[c] \in Failed'
    <3> TAKE c \in data' \ linked'
    <3>1. CASE c = b
      BY <1>1, <2>1, <2>2, <2>3, <3>1, Zenon
    <3>2. CASE c \in data
      <4>1. IF Parent[c] \in linked THEN c \in queue ELSE c \in unlinked \/ Parent[c] \in Failed
        BY <1>1, <3>2, Zenon DEF WaitingInv
      <4> QED BY <1>1, <2>1, <2>2, <2>4, <4>1, Zenon
    <3> QED BY <2>1, <3>1, <3>2, Zenon
  <2>6. \A c \in unlinked' : Parent[c] \notin linked'
    BY <1>1, <2>2, <2>4, Zenon DEF WaitingInv
  <2>7. \A c \in Failed' \ linked' : \E a \in Ancestors[c] : a \in Failed' /\ a \notin data'
    BY <1>1, <1>2, <2>1, Zenon DEF WaitingInv
  <2> QED BY <1>1, <2>5, <2>6, <2>7, Zenon DEF WaitingInv
<1> QED BY <1>4, <1>5, Zenon DEF AcceptBlock, ReceivedBlockTransactions

(* ReceivedBlockTransactions moves the blocks filed under the one it links  *)
(* to its deque; none was left out, for a block whose ancestors are stored  *)
(* is linked or not marked.                                                 *)
LEMMA LinkNextWaiting ==
    ASSUME IndInv, WaitingInv, NEW b \in Block, LinkNext(b)
    PROVE  WaitingInv'
<1>1. /\ b \in queue
      /\ linked' = linked \cup {b}
      /\ unlinked' = unlinked \ WaitingFor(b)
      /\ queue' = (queue \ {b}) \cup WaitingFor(b)
      /\ UNCHANGED <<data, failedValid, failedChild, unsaved, failedBlocks>>
  BY Zenon DEF LinkNext
<1>2. Failed' = Failed
  BY <1>1, Zenon DEF Failed
<1>3. b \in data /\ Ancestors[b] \subseteq data
  <2>1. b # Genesis /\ Parent[b] \in linked /\ b \in data
    BY <1>1, Zenon DEF IndInv, LinkInv
  <2>2. Ancestors[Parent[b]] \subseteq data
    BY <2>1, Zenon DEF IndInv, LinkInv
  <2>3. Ancestors[b] = {b} \cup Ancestors[Parent[b]]
    BY <2>1, TreeAssumption, Zenon DEF TreeAssumption
  <2> QED BY <2>1, <2>2, <2>3, Zenon
<1>4. b \in Failed => b \in linked
  BY <1>3, Zenon DEF WaitingInv
<1>5. \A c \in data' \ linked' :
         IF Parent[c] \in linked' THEN c \in queue' ELSE c \in unlinked' \/ Parent[c] \in Failed'
  <2> TAKE c \in data' \ linked'
  <2>1. c \in data \ linked /\ c # b
    BY <1>1, Zenon
  <2>2. IF Parent[c] \in linked THEN c \in queue ELSE c \in unlinked \/ Parent[c] \in Failed
    BY <2>1, Zenon DEF WaitingInv
  <2>3. CASE Parent[c] \in linked
    BY <1>1, <2>1, <2>2, <2>3, Zenon
  <2>4. CASE Parent[c] \notin linked /\ Parent[c] = b
    BY <1>1, <1>4, <2>2, <2>4, Zenon DEF WaitingFor
  <2>5. CASE Parent[c] \notin linked /\ Parent[c] # b
    BY <1>1, <1>2, <2>2, <2>5, Zenon DEF WaitingFor
  <2> QED BY <2>3, <2>4, <2>5, Zenon
<1>6. \A c \in unlinked' : Parent[c] \notin linked'
  BY <1>1, Zenon DEF WaitingInv, WaitingFor
<1>7. \A c \in Failed' \ linked' : \E a \in Ancestors[c] : a \in Failed' /\ a \notin data'
  BY <1>1, <1>2, Zenon DEF WaitingInv
<1> QED BY <1>1, <1>5, <1>6, <1>7, Zenon DEF WaitingInv

(* AcceptBlockHeader marks the blocks above a linked one, the missing ones  *)
(* among them.                                                              *)
LEMMA RejectHeaderWaiting ==
    ASSUME IndInv, WaitingInv, NEW b \in Block \ {Genesis}, RejectHeader(b)
    PROVE  WaitingInv'
<1>1. PICK f \in FailedAncestors(b) :
         failedChild' = failedChild \cup {a \in Ancestors[Parent[b]] : Height[a] > Height[f]}
  BY Zenon DEF RejectHeader
<1>2. /\ UNCHANGED <<data, failedValid, linked, queue, unlinked, failedBlocks, unsaved>>
      /\ queue = {}
      /\ Parent[b] \in Index
  BY Zenon DEF RejectHeader, MainFree, chain
<1>3. Parent[b] \in Block /\ f \in Ancestors[Parent[b]] /\ f \in linked /\ f \in Block
  BY <1>2, AncestorsFacts, Zenon DEF FailedAncestors, WaitingInv, Index
<1>4. linked = WholeChains
  BY <1>2, LinkedOnceServed, Zenon
<1>5. ASSUME NEW c \in (Failed' \ Failed) \ linked
      PROVE  \E a \in Ancestors[c] : a \in Failed' /\ a \notin data
  <2>1. c \in Ancestors[Parent[b]] /\ Height[c] > Height[f]
    BY <1>1, <1>2, Zenon DEF Failed
  <2>2. c \in Index /\ c \in Block
    BY <1>2, <2>1, Zenon DEF IndInv, IndexInv, Index
  <2>3. f \in Ancestors[c]
    <3>1. Height[f] <= Height[c]
      BY <1>3, <2>1, <2>2, TreeAssumption DEF TreeAssumption
    <3> QED BY <1>3, <2>1, <3>1, OneChain, Zenon
  <2>4. PICK a \in Ancestors[c] : a \notin data /\ Height[a] > Height[f]
    BY <1>3, <1>4, <2>2, <2>3, MissingBetween, Zenon
  <2>5. a \in Ancestors[Parent[b]]
    BY <1>3, <2>1, TreeAssumption, Zenon DEF TreeAssumption
  <2> QED BY <1>1, <2>4, <2>5, Zenon DEF Failed
<1>6. Failed \subseteq Failed' /\ failedBlocks' \subseteq linked /\ unsaved' \subseteq linked
  BY <1>1, <1>2, Zenon DEF Failed, WaitingInv
<1> QED BY <1>2, <1>5, <1>6, WaitingFrame, Zenon

(* LoadBlockIndex files every stored block that it does not link, and marks *)
(* what is above a marked block, the missing ones included.                 *)
LEMMA RestartWaiting ==
    ASSUME IndInv, WaitingInv, Restart
    PROVE  WaitingInv'
<1>1. PICK lost \in SUBSET unsaved : LoadBlockIndex(lost)
  BY Zenon DEF Restart
<1> DEFINE marked == failedValid \cup (failedChild \ lost)
<1>2. /\ failedChild' = (failedChild \ lost) \cup (InheritFailure(marked) \ failedValid)
      /\ linked' = WholeChains
      /\ unlinked' = data \ WholeChains
      /\ unsaved' = {}
      /\ UNCHANGED <<data, failedValid>>
  BY <1>1, Zenon DEF LoadBlockIndex
<1>3. queue = {} /\ queue' = {} /\ failedBlocks' = {}
  BY Zenon DEF Restart, MainFree
<1>4. linked = WholeChains
  BY <1>3, LinkedOnceServed, Zenon
<1>5. marked \subseteq Failed /\ Failed \subseteq marked \cup linked /\ marked \subseteq Failed'
  BY <1>2, Zenon DEF Failed, WaitingInv
<1>6. /\ InheritFailure(marked) \subseteq Failed'
      /\ Failed' \subseteq marked \cup InheritFailure(marked)
  BY <1>2, Zenon DEF Failed
<1> HIDE DEF marked
<1>7. ASSUME NEW c \in Failed' \ linked'
      PROVE  \E a \in Ancestors[c] : a \in Failed' /\ a \notin data
  <2>1. c \in Index /\ c \in Block /\ c \notin linked
    BY <1>2, <1>4, <1>5, <1>6, Zenon DEF IndInv, IndexInv, InheritFailure, Index
  <2>2. PICK f \in Ancestors[c] : f \in marked
    BY <1>6, <2>1, AncestorsFacts, Zenon DEF InheritFailure
  <2>3. CASE f \in linked
    <3>1. PICK a \in Ancestors[c] : a \notin data /\ f \in Ancestors[a]
      BY <1>4, <2>1, <2>3, MissingBetween, Zenon
    <3>2. a \in InheritFailure(marked)
      BY <2>1, <2>2, <3>1, Zenon DEF InheritFailure, IndInv, IndexInv
    <3> QED BY <1>6, <3>1, <3>2, Zenon
  <2>4. CASE f \notin linked
    <3>1. PICK a \in Ancestors[f] : a \in Failed /\ a \notin data
      BY <1>5, <2>2, <2>4, Zenon DEF WaitingInv
    <3>2. a \in marked
      BY <1>5, <3>1, Zenon DEF IndInv, LinkInv
    <3>3. a \in Ancestors[c]
      BY <2>1, <3>1, TreeAssumption, Zenon DEF TreeAssumption
    <3> QED BY <1>5, <3>1, <3>2, <3>3, Zenon
  <2> QED BY <2>3, <2>4, Zenon
<1>8. ASSUME NEW c \in data' \ linked'
      PROVE  Parent[c] \notin linked' /\ c \in unlinked'
  BY <1>2, <1>3, <1>4, Zenon DEF WaitingInv
<1> QED BY <1>2, <1>3, <1>7, <1>8, Zenon DEF WaitingInv

(* The blocks wait where they should after every step.                      *)
LEMMA NextWaiting ==
    ASSUME MarksStay, IndInv, WaitingInv, [Next]_vars
    PROVE  WaitingInv'
<1>1. CASE \/ \E b \in Block : AcceptHeader(b) \/ PreciousBlock(b)
           \/ RequestActivation \/ Start \/ LockMain \/ NothingToDo \/ BeginStep
           \/ EndStep \/ TestProgress \/ UnlockMain \/ DisconnectTip
           \/ UNCHANGED vars
  <2>1. UNCHANGED <<data, linked, queue, unlinked, failedValid, failedChild, failedBlocks, unsaved>>
    <3> USE DEF index, chain
    <3>1. CASE \E b \in Block : AcceptHeader(b) \/ PreciousBlock(b)
      BY <3>1, Zenon DEF AcceptHeader, PreciousBlock
    <3>2. CASE RequestActivation \/ Start \/ LockMain \/ NothingToDo \/ BeginStep
      BY <3>2, Zenon DEF RequestActivation, Start, LockMain, NothingToDo, BeginStep
    <3>3. CASE EndStep \/ TestProgress \/ UnlockMain \/ DisconnectTip
      BY <3>3, Zenon DEF EndStep, TestProgress, UnlockMain, DisconnectTip
    <3>4. CASE UNCHANGED vars
      BY <3>4, Zenon DEF vars
    <3> QED BY <1>1, <3>1, <3>2, <3>3, <3>4, Zenon
  <2> QED BY <2>1, Zenon DEF WaitingInv, Failed
<1>2. CASE FindMostWorkChain
  <2>1. PICK c \in Block : /\ IsBestCandidate(c)
                           /\ UseCandidate(c) \/ \E t \in Unusable(c) : DropCandidate(c, t)
    BY <1>2, Zenon DEF FindMostWorkChain
  <2>2. Ancestors[c] \subseteq linked /\ linked \subseteq data
    BY <2>1, Zenon DEF IsBestCandidate, IndInv, LinkInv
  <2>3. UNCHANGED <<data, linked, queue, failedValid, failedBlocks>>
    BY <1>2, Zenon DEF FindMostWorkChain
  <2>4. CASE UseCandidate(c)
    BY <2>3, <2>4, Zenon DEF UseCandidate, WaitingInv, Failed
  <2>5. ASSUME NEW t \in Unusable(c), DropCandidate(c, t)
        PROVE  WaitingInv'
    <3>1. t \in Failed /\ AboveFailed(c, t) \subseteq linked
      BY <2>2, Zenon DEF Unusable, AboveFailed
    <3>2. /\ failedChild' = failedChild \cup AboveFailed(c, t)
          /\ unsaved' = unsaved \cup (AboveFailed(c, t) \ Failed)
          /\ unlinked' = unlinked
      BY <2>5, <3>1, Zenon DEF DropCandidate
    <3>3. Failed \subseteq Failed' /\ Failed' \ Failed \subseteq linked
      BY <2>3, <3>1, <3>2, Zenon DEF Failed
    <3>4. failedBlocks' \subseteq linked /\ unsaved' \subseteq linked
      BY <2>3, <3>1, <3>2, Zenon DEF WaitingInv
    <3> QED BY <2>3, <3>2, <3>3, <3>4, WaitingFrame, Zenon
  <2> QED BY <2>1, <2>4, <2>5, Zenon
<1>3. CASE ConnectNext
  <2> DEFINE b == NextTowards(tip, mostWork)
  <2>1. b \in linked
    BY <1>3, ConnectedBlock, Zenon DEF ConnectNext, IndInv, LinkInv, ThreadInv, TypeOK
  <2>2. /\ failedValid' \in {failedValid, failedValid \cup {b}}
        /\ failedBlocks' \in {failedBlocks, failedBlocks \cup {b}}
        /\ UNCHANGED <<data, failedChild, unsaved, linked, unlinked, queue>>
    BY <1>3, Zenon DEF ConnectNext, ConnectTip, InvalidBlockFound, CorruptBlockFound, SystemError
  <2> HIDE DEF b
  <2>3. Failed \subseteq Failed' /\ Failed' \ Failed \subseteq linked
    BY <2>1, <2>2, Zenon DEF Failed
  <2> QED BY <2>1, <2>2, <2>3, WaitingFrame, Zenon DEF WaitingInv
<1>4. CASE Peers
  BY <1>1, <1>4, RejectHeaderWaiting, AcceptBlockWaiting, Zenon DEF Peers, ProcessNewBlock
<1>5. CASE Link
  BY <1>5, LinkNextWaiting, Zenon DEF Link
<1>6. CASE ActivateBestChain
  BY <1>1, <1>2, <1>3, <1>6, Zenon DEF ActivateBestChain
<1>7. CASE Operator
  BY <1>1, <1>7, AcceptBlockWaiting, RestartWaiting, Zenon
     DEF MarksStay, Operator, LoadExternalBlock, InvalidateBlock, ResetBlockFailureFlags
<1> QED BY <1>1, <1>4, <1>5, <1>6, <1>7, Zenon DEF Next

(* WaitingInv holds in every reachable state.                               *)
THEOREM BlocksAlwaysWait ==
    ASSUME MarksStay
    PROVE  Spec => []WaitingInv
<1>1. Init => WaitingInv
  BY TreeAssumption, Zenon DEF Init, WaitingInv, Failed, TreeAssumption
<1>2. IndInv /\ WaitingInv /\ [Next]_vars => WaitingInv'
  BY NextWaiting, Zenon
<1> QED BY <1>1, <1>2, Inductive, PTL DEF Spec

(* Whatever the order blocks and headers arrive in, and across restarts,    *)
(* nChainTx is set exactly on the blocks all of whose ancestors have been   *)
(* received, unless the operator invalidates or reconsiders blocks.         *)
THEOREM LinkedAlwaysExact ==
    ASSUME MarksStay
    PROVE  Spec => []LinkedIffProcessed
<1>1. IndInv /\ WaitingInv => LinkedIffProcessed
  BY LinkedOnceServed, Zenon DEF LinkedIffProcessed, MainFree, WholeChains
<1> QED BY <1>1, Inductive, BlocksAlwaysWait, PTL

(* A stored block waits in mapBlocksUnlinked for a missing ancestor and only*)
(* then, unless the operator invalidates or reconsiders blocks.             *)
THEOREM UnlinkedAlwaysExact ==
    ASSUME MarksStay
    PROVE  Spec => []UnlinkedExact
<1>1. ASSUME IndInv, WaitingInv, FailureHasCause
      PROVE  UnlinkedExact
  <2> SUFFICES ASSUME MainFree, NEW b \in Index \ {Genesis}
               PROVE  /\ (/\ b \in data
                          /\ ~(Ancestors[b] \subseteq data)
                          /\ Ancestors[b] \cap failedValid = {}) => b \in unlinked
                      /\ b \in unlinked => b \in data /\ ~(Ancestors[b] \subseteq data)
    BY Zenon DEF UnlinkedExact
  <2>1. linked = WholeChains /\ queue = {}
    BY <1>1, LinkedOnceServed, Zenon DEF MainFree
  <2>2. b \in Block /\ Ancestors[b] = {b} \cup Ancestors[Parent[b]]
    BY TreeAssumption, Zenon DEF TreeAssumption, Index
  <2>3. ASSUME b \in data, ~(Ancestors[b] \subseteq data), Ancestors[b] \cap failedValid = {}
        PROVE  b \in unlinked
    <3>1. b \notin linked
      BY <2>1, <2>3, Zenon DEF WholeChains
    <3>2. Parent[b] \notin Failed
      BY <1>1, <2>2, <2>3, Zenon DEF FailureHasCause
    <3> QED BY <1>1, <2>1, <2>3, <3>1, <3>2, Zenon DEF WaitingInv
  <2>4. ASSUME b \in unlinked
        PROVE  b \in data /\ ~(Ancestors[b] \subseteq data)
    <3>1. b \in data /\ Parent[b] \notin WholeChains
      BY <1>1, <2>1, <2>4, Zenon DEF IndInv, LinkInv, WaitingInv
    <3>2. Parent[b] \in Index
      BY <1>1, <2>2, AncestorsFacts, Zenon DEF IndInv, IndexInv
    <3> QED BY <2>2, <3>1, <3>2, Zenon DEF WholeChains
  <2> QED BY <2>3, <2>4, Zenon
<1>2. "reconsider" \notin Operations
  BY Zenon DEF MarksStay
<1> QED BY <1>1, <1>2, Inductive, BlocksAlwaysWait, FailureAlwaysHasCause, PTL

(* No block makes ConnectBlock return an error that is not a verdict.       *)
NoSystemError == \A b \in Block : Verdict[b] # "noKernel"

(* ActivateBestChain holds cs_main.                                         *)
InRound == pc \notin {"idle", "lock"}

(* The tip the candidates are measured by: within a round, the tip that the *)
(* round found.                                                             *)
Reference == IF InRound THEN startingTip ELSE tip

(* ConnectBlock has no objection to the blocks of the chain to b.           *)
Connectable(b) == \A a \in Ancestors[b] : Verdict[a] \in {"ok", "corrupt"}

(* What a round of ActivateBestChain keeps: the tip it found stays valid,   *)
(* the chain it heads for is no worse, and nor is the tip it leaves.  A     *)
(* pindexMostWork that is kept between two rounds has more trust than the   *)
(* tip, so that preciousblock cannot turn the order of the two around.      *)
RoundInv ==
    /\ Connectable(tip)
    /\ queue \cap linked = {}
    /\ InRound => /\ queue = {}
                  /\ startingTip \in linked
                  /\ Connectable(startingTip)
                  /\ Ancestors[startingTip] \cap Failed = {}
    /\ pc = "idle" => mostWork = NoBlock
    /\ mostWork # NoBlock => IF InRound THEN ~Worse(mostWork, startingTip)
                             ELSE ChainTrust[mostWork] > ChainTrust[tip]
    /\ pc \in {"test", "unlock"} /\ mostWork # NoBlock => tip \in Ancestors[mostWork]
    /\ pc = "unlock" => ~Worse(tip, startingTip)

(* A linked block without failed blocks below it is a candidate if it is no *)
(* worse than the reference, or if PreciousBlock once preferred it.         *)
CompleteInv ==
    /\ reverseId < 0
    /\ \A b \in linked :
          Ancestors[b] \cap Failed = {} /\ (sequenceId[b] < 0 \/ ~Worse(b, Reference))
             => b \in candidates

(* CBlockIndexWorkComparator is a strict order, and of two tips that are    *)
(* told apart by a third one the order is known.                            *)
LEMMA WorseIsAnOrder ==
    ASSUME IndInv, NEW a \in Block, NEW b \in Block, NEW c \in Block
    PROVE  /\ ~Worse(a, a)
           /\ Worse(a, c) /\ ~Worse(b, c) => Worse(a, b)
           /\ ChainTrust[a] > ChainTrust[b] => ~Worse(a, b)
<1>1. /\ sequenceId[a] \in Int /\ sequenceId[b] \in Int /\ sequenceId[c] \in Int
      /\ address[a] \in Nat /\ address[b] \in Nat /\ address[c] \in Nat
      /\ ChainTrust[a] \in Nat /\ ChainTrust[b] \in Nat /\ ChainTrust[c] \in Nat
  BY TreeAssumption, ChainStateAssumption DEF IndInv, TypeOK, TreeAssumption, ChainStateAssumption
<1> QED BY <1>1 DEF Worse, WorseBy

(* A block has more trust than those below it.                              *)
LEMMA TrustGrows ==
    ASSUME NEW b \in Block, NEW a \in Ancestors[b], a # b
    PROVE  ChainTrust[a] < ChainTrust[b]
<1> DEFINE Flat(d) == \E x \in Ancestors[d] : x # d /\ ~(ChainTrust[x] < ChainTrust[d])
           T == {Height[d] : d \in {e \in Block : Flat(e)}}
<1> SUFFICES ASSUME Flat(b) PROVE FALSE
  BY Zenon
<1>1. T \subseteq Nat /\ T # {}
  BY TreeAssumption DEF TreeAssumption
<1>2. PICK m \in T : \A k \in T : m <= k
  <2> HIDE DEF Flat, T
  <2> QED BY <1>1, SmallestMember, Zenon
<1>3. PICK d \in Block : Flat(d) /\ Height[d] = m
  BY <1>2, Zenon
<1>4. PICK x \in Ancestors[d] : x # d /\ ~(ChainTrust[x] < ChainTrust[d])
  BY <1>3, Zenon
<1>5. d # Genesis
  BY <1>4, TreeAssumption, Zenon DEF TreeAssumption
<1>6. /\ x \in Ancestors[Parent[d]]
      /\ Parent[d] \in Block
      /\ Height[Parent[d]] < Height[d]
      /\ ChainTrust[Parent[d]] < ChainTrust[d]
  BY <1>4, <1>5, TreeAssumption DEF TreeAssumption
<1>7. /\ ChainTrust[x] \in Nat /\ ChainTrust[d] \in Nat /\ ChainTrust[Parent[d]] \in Nat
      /\ Height[Parent[d]] \in Nat /\ Height[d] \in Nat
  <2> HIDE DEF Flat, T
  <2>1. ChainTrust \in [Block -> Nat] /\ Height \in [Block -> Nat]
    BY TreeAssumption, Zenon DEF TreeAssumption
  <2> QED BY <1>4, <1>6, <2>1, AncestorsFacts, Zenon
<1>8. x # Parent[d] /\ ~(ChainTrust[x] < ChainTrust[Parent[d]])
  <2> HIDE DEF Flat, T
  <2>1. x # Parent[d]
    BY <1>4, <1>6, Zenon
  <2>2. ~(ChainTrust[x] < ChainTrust[Parent[d]])
    BY <1>4, <1>6, <1>7
  <2> QED BY <2>1, <2>2, Zenon
<1>9. Height[Parent[d]] \in T
  BY <1>6, <1>8, Zenon
<1> HIDE DEF Flat, T
<1>10. Height[d] <= Height[Parent[d]]
  BY <1>2, <1>3, <1>9, Zenon
<1> QED BY <1>6, <1>7, <1>10

(* Between the rounds marks may be added, and nothing else that counts      *)
(* moves.                                                                   *)
LEMMA BetweenRounds ==
    ASSUME RoundInv, CompleteInv, ~InRound, Failed \subseteq Failed',
           UNCHANGED <<linked, candidates, sequenceId, address, tip, reverseId, pc, mostWork>>,
           queue' \cap linked = {}
    PROVE  RoundInv' /\ CompleteInv'
<1>1. ~InRound'
  BY Zenon DEF InRound
<1>2. RoundInv'
  BY <1>1, Zenon DEF RoundInv, Connectable, InRound
<1>3. CompleteInv'
  BY <1>1, Zenon DEF CompleteInv, Reference, Worse, WorseBy
<1> QED BY <1>2, <1>3, Zenon

(* Headers and blocks come in between the rounds.                           *)
LEMMA ArrivalsRound ==
    ASSUME IndInv, RoundInv, CompleteInv, NEW b \in Block \ {Genesis},
           \/ AcceptHeader(b) \/ RejectHeader(b)
           \/ \E fRequested, fCheckPoS \in BOOLEAN : AcceptBlock(b, fRequested, fCheckPoS)
    PROVE  RoundInv' /\ CompleteInv'
<1>1. CASE AcceptHeader(b) \/ RejectHeader(b)
  <2>1. /\ Failed \subseteq Failed' /\ ~InRound
        /\ UNCHANGED <<linked, candidates, sequenceId, address, tip, reverseId, pc, mostWork, queue>>
    BY <1>1, Zenon DEF AcceptHeader, RejectHeader, MainFree, InRound, Failed, chain, counters, thread
  <2> QED BY <2>1, BetweenRounds, Zenon DEF RoundInv
<1>2. ASSUME NEW fRequested \in BOOLEAN, NEW fCheckPoS \in BOOLEAN,
             AcceptBlock(b, fRequested, fCheckPoS)
      PROVE  RoundInv' /\ CompleteInv'
  <2>1. /\ ~InRound
        /\ UNCHANGED <<linked, candidates, sequenceId, address, tip, reverseId, pc, mostWork>>
    BY <1>2, Zenon DEF AcceptBlock, MainFree, InRound, counters, thread
  <2>2. Failed \subseteq Failed'
    BY <1>2, AcceptBlockMarks, Zenon DEF Failed
  <2>3. queue' = queue \/ (queue' = {b} /\ b \notin data)
    BY <1>2, Zenon DEF AcceptBlock, ReceivedBlockTransactions, Stores
  <2>4. queue' \cap linked = {}
    BY <2>3, Zenon DEF RoundInv, IndInv, LinkInv
  <2> QED BY <2>1, <2>2, <2>4, BetweenRounds, Zenon
<1> QED BY <1>1, <1>2, Zenon

(* A block that is linked joins the candidates if it is good enough.        *)
LEMMA LinkNextRound ==
    ASSUME IndInv, WaitingInv, RoundInv, CompleteInv, NEW b \in Block, LinkNext(b)
    PROVE  RoundInv' /\ CompleteInv'
<1>1. /\ b \in queue
      /\ linked' = linked \cup {b}
      /\ sequenceId' = [sequenceId EXCEPT ![b] = nextId]
      /\ candidates' = IF GoodEnough(sequenceId', b) THEN candidates \cup {b} ELSE candidates
      /\ queue' = (queue \ {b}) \cup WaitingFor(b)
      /\ UNCHANGED <<failedValid, failedChild, address, tip, reverseId, pc, mostWork>>
  BY Zenon DEF LinkNext, thread
<1>2. ~InRound /\ ~InRound'
  BY <1>1, Zenon DEF RoundInv, InRound
<1>3. b \notin linked /\ b # tip
  BY <1>1, Zenon DEF RoundInv, IndInv, ThreadInv
<1>4. Failed' = Failed
  BY <1>1, Zenon DEF Failed
<1>5. queue' \cap linked' = {}
  <2>1. ASSUME NEW c \in WaitingFor(b)
        PROVE  c \notin linked'
    <3>1. c \in unlinked /\ Parent[c] = b /\ c \in Block
      BY Zenon DEF WaitingFor, IndInv, TypeOK
    <3>2. c # Genesis /\ c # b
      BY <3>1, TreeAssumption DEF TreeAssumption
    <3>3. c \notin linked
      BY <1>3, <3>1, <3>2, AncestorsFacts, Zenon DEF IndInv, LinkInv
    <3> QED BY <1>1, <3>2, <3>3, Zenon
  <2> QED BY <1>1, <2>1, Zenon DEF RoundInv
<1>6. RoundInv'
  BY <1>1, <1>2, <1>5, Zenon DEF RoundInv, Connectable, InRound
<1>7. CompleteInv'
  <2>1. ASSUME NEW c \in linked', Ancestors[c] \cap Failed' = {},
               sequenceId'[c] < 0 \/ ~Worse(c, Reference)'
        PROVE  c \in candidates'
    <3>1. Reference' = tip /\ Reference = tip
      BY <1>1, <1>2, Zenon DEF Reference
    <3>2. CASE c = b
      <4>1. sequenceId'[b] = nextId /\ ~(sequenceId'[b] < 0)
        BY <1>1 DEF IndInv, TypeOK
      <4>2. ~WorseBy(sequenceId', b, tip)
        BY <1>1, <2>1, <3>1, <3>2, <4>1, Zenon DEF Worse, WorseBy
      <4> QED BY <1>1, <3>2, <4>2, Zenon DEF GoodEnough
    <3>3. CASE c # b
      <4>1. c \in linked /\ c \in Block /\ sequenceId'[c] = sequenceId[c]
            /\ sequenceId'[tip] = sequenceId[tip]
        BY <1>1, <1>3, <3>3, Zenon DEF IndInv, TypeOK
      <4>2. sequenceId[c] < 0 \/ ~Worse(c, Reference)
        BY <1>1, <2>1, <3>1, <4>1, Zenon DEF Worse, WorseBy
      <4> QED BY <1>1, <1>4, <2>1, <4>1, <4>2, Zenon DEF CompleteInv
    <3> QED BY <3>2, <3>3, Zenon
  <2> QED BY <1>1, <2>1, Zenon DEF CompleteInv
<1> QED BY <1>6, <1>7, Zenon

(* PreciousBlock gives its block a negative sequence id and makes it a      *)
(* candidate; the tip gets only better when it is the tip's turn.           *)
LEMMA PreciousBlockRound ==
    ASSUME IndInv, RoundInv, CompleteInv, NEW b \in Block, PreciousBlock(b)
    PROVE  RoundInv' /\ CompleteInv'
<1> DEFINE id == IF ChainTrust[tip] > lastPrecious THEN -1 ELSE reverseId
<1>1. /\ ~InRound /\ ~InRound'
      /\ sequenceId' = [sequenceId EXCEPT ![b] = id]
      /\ reverseId' = IF id > MinSequenceId THEN id - 1 ELSE id
      /\ candidates' = Reinserted(b)
      /\ UNCHANGED <<failedValid, failedChild, linked, address, tip, queue, pc, mostWork>>
  BY Zenon DEF PreciousBlock, MainFree, InRound, thread
<1>2. id \in Int /\ id < 0
  BY DEF IndInv, TypeOK, CompleteInv
<1> HIDE DEF id
<1>3. reverseId' < 0
  BY <1>1, <1>2, ChainStateAssumption DEF ChainStateAssumption
<1>4. RoundInv'
  BY <1>1, Zenon DEF RoundInv, Connectable, InRound
<1>5. Failed' = Failed
  BY <1>1, Zenon DEF Failed
<1>6. ASSUME NEW c \in linked', Ancestors[c] \cap Failed' = {},
             sequenceId'[c] < 0 \/ ~Worse(c, Reference)'
      PROVE  c \in candidates'
  <2>1. Reference' = tip /\ Reference = tip
    BY <1>1, Zenon DEF Reference
  <2>2. c \in Block /\ c \in linked /\ tip \in Block
    BY <1>1, Zenon DEF IndInv, TypeOK
  <2>3. CASE c = b
    <3>1. b \notin Failed
      BY <1>5, <1>6, <2>2, <2>3, AncestorsFacts, Zenon
    <3>2. valid[b] >= BLOCK_VALID_TRANSACTIONS
      BY <2>2, <2>3, Zenon DEF IndInv, IndexInv, LinkInv, StoredIffReceived
    <3> QED BY <1>1, <2>2, <2>3, <3>1, <3>2, Zenon DEF Reinserted, IsValid
  <2>4. CASE c # b
    <3>1. sequenceId'[c] = sequenceId[c]
      BY <1>1, <2>2, <2>4, Zenon DEF IndInv, TypeOK
    <3>2. sequenceId[c] < 0 \/ ~Worse(c, tip)
      <4>1. CASE tip # b
        <5>1. sequenceId'[tip] = sequenceId[tip]
          BY <1>1, <2>2, <4>1, Zenon DEF IndInv, TypeOK
        <5> QED BY <1>1, <1>6, <2>1, <3>1, <5>1, Zenon DEF Worse, WorseBy
      <4>2. CASE tip = b /\ ~(sequenceId[c] < 0)
        <5>1. sequenceId'[tip] = id /\ sequenceId[c] \in Int
          BY <1>1, <2>2, <4>2, Zenon DEF IndInv, TypeOK
        <5>2. ~(ChainTrust[c] < ChainTrust[tip]) /\ ~(ChainTrust[c] = ChainTrust[tip])
          <6>1. ~Worse(c, tip)'
            BY <1>1, <1>6, <2>1, <3>1, <4>2, Zenon
          <6>2. sequenceId'[c] > sequenceId'[tip]
            BY <1>2, <3>1, <4>2, <5>1
          <6> QED BY <1>1, <6>1, <6>2, Zenon DEF Worse, WorseBy
        <5> QED BY <5>2, Zenon DEF Worse, WorseBy
      <4> QED BY <4>1, <4>2, Zenon
    <3>3. c \in candidates
      BY <1>5, <1>6, <2>1, <2>2, <3>2, Zenon DEF CompleteInv
    <3> QED BY <1>1, <2>4, <3>3, Zenon DEF Reinserted
  <2> QED BY <2>3, <2>4, Zenon
<1>7. CompleteInv'
  BY <1>3, <1>6, Zenon DEF CompleteInv
<1> QED BY <1>4, <1>7, Zenon

(* A restart makes every whole chain without failed blocks a candidate.     *)
LEMMA RestartRound ==
    ASSUME IndInv, RoundInv, Restart
    PROVE  RoundInv' /\ CompleteInv'
<1>1. PICK lost \in SUBSET unsaved : LoadBlockIndex(lost)
  BY Zenon DEF Restart
<1> DEFINE bad == InheritFailure(failedValid \cup (failedChild \ lost))
<1>2. /\ failedChild' = (failedChild \ lost) \cup (bad \ failedValid)
      /\ linked' = WholeChains
      /\ candidates' = {b \in WholeChains \ bad : valid[b] >= BLOCK_VALID_TRANSACTIONS}
      /\ UNCHANGED <<data, failedValid>>
  BY <1>1, Zenon DEF LoadBlockIndex
<1>3. /\ pc' = "idle" /\ mostWork' = NoBlock /\ reverseId' = -1 /\ tip' = tip
      /\ queue' = {}
  BY Zenon DEF Restart, MainFree
<1>4. RoundInv'
  BY <1>3, Zenon DEF RoundInv, Connectable, InRound
<1>5. bad \subseteq Failed'
  BY <1>2, Zenon DEF Failed
<1> HIDE DEF bad
<1>6. ASSUME NEW b \in linked', Ancestors[b] \cap Failed' = {}
      PROVE  b \in candidates'
  <2>1. b \in Block /\ b \in WholeChains /\ Ancestors[b] \subseteq data
    BY <1>2, <1>6, Zenon DEF WholeChains, Index
  <2>2. b \in Ancestors[b]
    BY <2>1, AncestorsFacts, Zenon
  <2>3. valid[b] >= BLOCK_VALID_TRANSACTIONS
    BY <2>1, <2>2, Zenon DEF IndInv, IndexInv, StoredIffReceived
  <2> QED BY <1>2, <1>5, <1>6, <2>1, <2>2, <2>3, Zenon
<1>7. CompleteInv'
  BY <1>3, <1>6 DEF CompleteInv
<1> QED BY <1>4, <1>7, Zenon

(* The steps of ActivateBestChain that only move the thread along: a round  *)
(* begins with the tip as its reference and ends with one that is no worse. *)
LEMMA ThreadStepsRound ==
    ASSUME IndInv, RoundInv, CompleteInv,
           \/ RequestActivation \/ Start \/ LockMain \/ NothingToDo \/ BeginStep
           \/ EndStep \/ TestProgress \/ UnlockMain
           \/ UNCHANGED vars,
           ValidChains
    PROVE  RoundInv' /\ CompleteInv'
<1>1. UNCHANGED <<failedValid, failedChild, linked, sequenceId, address, candidates, tip,
                  reverseId, queue>>
  BY Zenon DEF RequestActivation, Start, LockMain, NothingToDo, BeginStep, EndStep, TestProgress,
         UnlockMain, vars, index, chain, counters
<1>2. tip \in Block /\ tip \in linked /\ (mostWork # NoBlock => mostWork \in Block)
  BY Zenon DEF IndInv, TypeOK, ThreadInv
<1>3. CASE RequestActivation \/ UNCHANGED vars
  <2>1. UNCHANGED <<pc, mostWork, startingTip>>
    BY <1>3, Zenon DEF RequestActivation, vars, thread, round
  <2> QED BY <1>1, <2>1, Zenon DEF RoundInv, CompleteInv, InRound, Reference, Connectable, Failed, Worse,
                            WorseBy
<1>4. CASE Start
  <2>1. ~InRound /\ ~InRound' /\ mostWork = NoBlock /\ mostWork' = NoBlock /\ pc' = "lock"
    BY <1>4, Zenon DEF Start, RoundInv, InRound
  <2> QED BY <1>1, <2>1, Zenon DEF RoundInv, CompleteInv, Reference, Connectable, Failed, Worse, WorseBy
<1>5. CASE LockMain
  <2>1. ~InRound /\ InRound' /\ mostWork' = mostWork /\ pc' = "find" /\ startingTip' = tip
        /\ queue = {}
    BY <1>5, Zenon DEF LockMain, InRound
  <2>2. mostWork # NoBlock => ~Worse(mostWork, tip)
    BY <1>2, <2>1, WorseIsAnOrder, Zenon DEF RoundInv
  <2>3. RoundInv'
    BY <1>1, <1>2, <2>1, <2>2, Zenon DEF RoundInv, ValidChains, ActiveChainValid, ActiveChain, Connectable,
                                  Failed, Worse, WorseBy
  <2>4. CompleteInv'
    BY <1>1, <2>1, Zenon DEF CompleteInv, Reference, Failed, Worse, WorseBy
  <2> QED BY <2>3, <2>4, Zenon
<1>6. CASE NothingToDo \/ BeginStep \/ EndStep \/ TestProgress
  <2>1. InRound /\ InRound' /\ UNCHANGED <<mostWork, startingTip>>
    BY <1>6, Zenon DEF NothingToDo, BeginStep, EndStep, TestProgress, InRound, round
  <2>2. CompleteInv'
    BY <1>1, <2>1, Zenon DEF CompleteInv, Reference, Failed, Worse, WorseBy
  <2>3. pc' \in {"test", "unlock"} /\ mostWork # NoBlock => tip \in Ancestors[mostWork]
    BY <1>2, <1>6, AncestorsFacts, Zenon DEF NothingToDo, BeginStep, EndStep, TestProgress, RoundInv
  <2>4. pc' = "unlock" => ~Worse(tip, startingTip)
    <3>1. CASE NothingToDo
      <4>1. mostWork = tip /\ tip # NoBlock
        BY <1>2, <3>1, TreeAssumption, Zenon DEF NothingToDo, TreeAssumption
      <4> QED BY <2>1, <4>1, Zenon DEF RoundInv
    <3>2. CASE BeginStep \/ EndStep
      BY <3>2, Zenon DEF BeginStep, EndStep
    <3>3. CASE TestProgress
      BY <1>2, <3>3, Zenon DEF TestProgress, MadeProgress, RoundInv
    <3> QED BY <1>6, <3>1, <3>2, <3>3, Zenon
  <2>5. pc' # "idle"
    BY <2>1, Zenon DEF InRound
  <2>6. RoundInv'
    BY <1>1, <2>1, <2>3, <2>4, <2>5, Zenon DEF RoundInv, Connectable, Failed, Worse, WorseBy
  <2> QED BY <2>2, <2>6, Zenon
<1>7. CASE UnlockMain
  <2>1. /\ InRound /\ ~InRound' /\ pc' \in {"idle", "lock"}
        /\ pc = "unlock"
        /\ pc' = "idle" => mostWork' = NoBlock
        /\ mostWork' # NoBlock => mostWork' = mostWork /\ tip # mostWork
    BY <1>7, Zenon DEF UnlockMain, MoreRounds, InRound
  <2>2. mostWork' # NoBlock => ChainTrust[mostWork] > ChainTrust[tip]
    <3>1. mostWork' # NoBlock => ChainTrust[tip] < ChainTrust[mostWork]
      BY <1>2, <2>1, TrustGrows, Zenon DEF RoundInv
    <3> QED BY <1>2, <2>1, <3>1, TreeAssumption, Zenon DEF TreeAssumption
  <2>3. RoundInv'
    BY <1>1, <2>1, <2>2, Zenon DEF RoundInv, Connectable
  <2>4. ASSUME NEW b \in linked, ~Worse(b, tip)
        PROVE  ~Worse(b, startingTip)
    BY <1>2, <2>1, <2>4, WorseIsAnOrder, Zenon DEF RoundInv, IndInv, TypeOK
  <2>5. CompleteInv'
    <3>1. Reference' = tip /\ Reference = startingTip
      BY <1>1, <2>1, Zenon DEF Reference
    <3> QED BY <1>1, <2>4, <3>1, Zenon DEF CompleteInv, Failed, Worse, WorseBy
  <2> QED BY <2>3, <2>5, Zenon
<1> QED BY <1>3, <1>4, <1>5, <1>6, <1>7, Zenon

(* FindMostWorkChain finds the tip of the round among the candidates, so    *)
(* that what it returns is no worse; what it drops is marked.               *)
LEMMA FindMostWorkChainRound ==
    ASSUME IndInv, RoundInv, CompleteInv, FindMostWorkChain
    PROVE  RoundInv' /\ CompleteInv'
<1>1. /\ InRound /\ InRound' /\ pc = "find" /\ mostWork = NoBlock
      /\ UNCHANGED <<data, failedValid, linked, sequenceId, address, tip, reverseId, queue, pc,
                     startingTip>>
  BY Zenon DEF FindMostWorkChain, InRound, counters, round
<1>2. PICK c \in Block : /\ IsBestCandidate(c)
                         /\ UseCandidate(c) \/ \E t \in Unusable(c) : DropCandidate(c, t)
  BY Zenon DEF FindMostWorkChain
<1>3. startingTip \in linked /\ startingTip \in Block /\ Ancestors[startingTip] \cap Failed = {}
  BY <1>1, Zenon DEF RoundInv, IndInv, TypeOK
<1>4. CASE UseCandidate(c)
  <2>1. mostWork' = c /\ UNCHANGED <<failedChild, candidates>>
    BY <1>4, Zenon DEF UseCandidate
  <2>2. startingTip \in candidates
    BY <1>1, <1>3, WorseIsAnOrder, Zenon DEF CompleteInv, Reference
  <2>3. ~Worse(c, startingTip)
    BY <1>2, <2>2, Zenon DEF IsBestCandidate
  <2>4. RoundInv'
    BY <1>1, <2>1, <2>3, Zenon DEF RoundInv, Connectable, Failed, Worse, WorseBy
  <2>5. CompleteInv'
    BY <1>1, <2>1, Zenon DEF CompleteInv, Reference, Failed, Worse, WorseBy
  <2> QED BY <2>4, <2>5, Zenon
<1>5. ASSUME NEW t \in Unusable(c), DropCandidate(c, t)
      PROVE  RoundInv' /\ CompleteInv'
  <2>1. t \in Failed
    BY <1>2, Zenon DEF Unusable, IsBestCandidate, IndInv, LinkInv
  <2>2. /\ candidates' = candidates \ (AboveFailed(c, t) \cup {t})
        /\ failedChild' = failedChild \cup AboveFailed(c, t)
        /\ mostWork' = NoBlock
    BY <1>1, <1>5, <2>1, Zenon DEF DropCandidate
  <2>3. Failed \subseteq Failed' /\ AboveFailed(c, t) \cup {t} \subseteq Failed'
    BY <1>1, <2>1, <2>2, Zenon DEF Failed
  <2>4. Ancestors[startingTip] \cap Failed' = {}
    <3>1. \A a \in Ancestors[startingTip] : Ancestors[a] \subseteq Ancestors[startingTip]
      BY <1>3, TreeAssumption, Zenon DEF TreeAssumption
    <3> QED BY <1>3, <3>1, FindMostWorkChainMarks, Zenon
  <2>5. RoundInv'
    BY <1>1, <2>2, <2>4, Zenon DEF RoundInv, Connectable
  <2>6. ASSUME NEW b \in linked, Ancestors[b] \cap Failed' = {},
               sequenceId[b] < 0 \/ ~Worse(b, Reference)
        PROVE  b \in candidates'
    <3>1. b \in candidates
      BY <2>3, <2>6, Zenon DEF CompleteInv
    <3>2. b \in Ancestors[b]
      BY AncestorsFacts, Zenon DEF IndInv, TypeOK
    <3> QED BY <2>2, <2>3, <2>6, <3>1, <3>2, Zenon
  <2>7. CompleteInv'
    BY <1>1, <2>6, Zenon DEF CompleteInv, Reference, Worse, WorseBy
  <2> QED BY <2>5, <2>7, Zenon
<1> QED BY <1>2, <1>4, <1>5, Zenon

(* A disconnection leaves the reference of the round where it is.           *)
LEMMA DisconnectTipRound ==
    ASSUME IndInv, RoundInv, CompleteInv, DisconnectTip
    PROVE  RoundInv' /\ CompleteInv'
<1>1. /\ InRound /\ InRound' /\ pc' = "step"
      /\ UNCHANGED <<failedValid, failedChild, linked, sequenceId, address, candidates, reverseId,
                     queue, mostWork, startingTip>>
  BY Zenon DEF DisconnectTip, InRound, index, counters, thread, round
<1>2. Ancestors[tip'] \subseteq Ancestors[tip]
  BY TipToParent, Zenon
<1>3. RoundInv'
  BY <1>1, <1>2, Zenon DEF RoundInv, Connectable, Failed, Worse, WorseBy
<1>4. CompleteInv'
  BY <1>1, Zenon DEF CompleteInv, Reference, Failed, Worse, WorseBy
<1> QED BY <1>3, <1>4, Zenon

(* Connecting a block, or marking it, leaves the tip that the round found   *)
(* valid: ConnectBlock had no objection to it.                              *)
LEMMA ConnectNextRound ==
    ASSUME NoSystemError, IndInv, RoundInv, CompleteInv, ConnectNext
    PROVE  RoundInv' /\ CompleteInv'
<1> DEFINE b == NextTowards(tip, mostWork)
<1>1. /\ mostWork \in Block
      /\ b \in Ancestors[mostWork]
      /\ b \in Block \ {Genesis}
      /\ Ancestors[b] = {b} \cup Ancestors[tip]
  BY ConnectedBlock, Zenon
<1>2. ConnectTip(b) \/ InvalidBlockFound(b) \/ CorruptBlockFound(b)
  BY <1>1, Zenon DEF ConnectNext, SystemError, NoSystemError
<1>3. /\ InRound
      /\ UNCHANGED <<failedChild, linked, sequenceId, address, reverseId, queue>>
  BY Zenon DEF ConnectNext, InRound, counters
<1> HIDE DEF b
<1>4. CASE ConnectTip(b)
  <2>1. /\ Verdict[b] \in {"ok", "corrupt"} /\ tip' = b /\ pc' \in {"test", "step"}
        /\ UNCHANGED <<failedValid, candidates, mostWork, startingTip>>
    BY <1>4, Zenon DEF ConnectTip, round
  <2>2. Connectable(b)
    BY <1>1, <2>1, Zenon DEF RoundInv, Connectable
  <2>3. InRound'
    BY <2>1, Zenon DEF InRound
  <2>4. RoundInv'
    BY <1>1, <1>3, <2>1, <2>2, <2>3, Zenon DEF RoundInv, Connectable, Failed, Worse, WorseBy
  <2>5. CompleteInv'
    BY <1>3, <2>1, <2>3, Zenon DEF CompleteInv, Reference, Failed, Worse, WorseBy
  <2> QED BY <2>4, <2>5, Zenon
<1>5. CASE InvalidBlockFound(b)
  <2>1. /\ Verdict[b] \in {"badStake", "badConnect"} /\ pc' = "test" /\ mostWork' = NoBlock
        /\ failedValid' = failedValid \cup {b}
        /\ candidates' = candidates \ {b}
        /\ UNCHANGED <<tip, startingTip>>
    BY <1>5, Zenon DEF InvalidBlockFound, round
  <2>2. Failed' = Failed \cup {b} /\ InRound'
    BY <1>3, <2>1, Zenon DEF Failed, InRound
  <2>3. b \notin Ancestors[startingTip]
    BY <1>3, <2>1, Zenon DEF RoundInv, Connectable
  <2>4. RoundInv'
    BY <1>3, <2>1, <2>2, <2>3, Zenon DEF RoundInv, Connectable
  <2>5. ASSUME NEW c \in linked, Ancestors[c] \cap Failed' = {},
               sequenceId[c] < 0 \/ ~Worse(c, Reference)
        PROVE  c \in candidates'
    <3>1. c \in candidates /\ c \in Ancestors[c]
      BY <2>2, <2>5, AncestorsFacts, Zenon DEF CompleteInv, IndInv, TypeOK
    <3> QED BY <2>1, <2>2, <2>5, <3>1, Zenon
  <2>6. CompleteInv'
    BY <1>3, <2>1, <2>2, <2>5, Zenon DEF CompleteInv, Reference, Worse, WorseBy
  <2> QED BY <2>4, <2>6, Zenon
<1>6. CASE CorruptBlockFound(b)
  <2>1. /\ pc' = "test" /\ mostWork' = NoBlock
        /\ UNCHANGED <<failedValid, candidates, tip, startingTip>>
    BY <1>6, Zenon DEF CorruptBlockFound, round
  <2>2. InRound'
    BY <2>1, Zenon DEF InRound
  <2>3. RoundInv'
    BY <1>3, <2>1, <2>2, Zenon DEF RoundInv, Connectable, Failed
  <2>4. CompleteInv'
    BY <1>3, <2>1, <2>2, Zenon DEF CompleteInv, Reference, Failed, Worse, WorseBy
  <2> QED BY <2>3, <2>4, Zenon
<1> QED BY <1>2, <1>4, <1>5, <1>6, Zenon

(* Every step keeps the promises of the round and the candidates complete.  *)
LEMMA NextRound ==
    ASSUME MarksStay, NoSystemError, IndInv, ValidChains, WaitingInv, RoundInv, CompleteInv,
           [Next]_vars
    PROVE  RoundInv' /\ CompleteInv'
<1>1. CASE Peers
  BY <1>1, ArrivalsRound, Zenon DEF Peers, ProcessNewBlock
<1>2. CASE Link
  BY <1>2, LinkNextRound, Zenon DEF Link
<1>3. CASE RequestActivation \/ ActivateBestChain \/ UNCHANGED vars
  BY <1>3, ThreadStepsRound, FindMostWorkChainRound, DisconnectTipRound, ConnectNextRound, Zenon
     DEF ActivateBestChain
<1>4. CASE Operator
  BY <1>4, ArrivalsRound, PreciousBlockRound, RestartRound, Zenon
     DEF MarksStay, Operator, LoadExternalBlock, InvalidateBlock, ResetBlockFailureFlags
<1> QED BY <1>1, <1>2, <1>3, <1>4, Zenon DEF Next

(* RoundInv and CompleteInv hold in every reachable state.                  *)
THEOREM RoundsInvariant ==
    ASSUME MarksStay, NoSystemError
    PROVE  Spec => [](RoundInv /\ CompleteInv)
<1>1. Init => RoundInv /\ CompleteInv
  <2> SUFFICES ASSUME Init PROVE RoundInv /\ CompleteInv
    BY Zenon
  <2>1. RoundInv
    BY TreeAssumption, ChainStateAssumption, Zenon
       DEF Init, RoundInv, Connectable, InRound, TreeAssumption, ChainStateAssumption
  <2>2. CompleteInv
    <3>1. linked = {Genesis} /\ candidates = {Genesis}
      BY Zenon DEF Init
    <3>2. reverseId < 0
      BY DEF Init
    <3> QED BY <3>1, <3>2, Zenon DEF CompleteInv
  <2> QED BY <2>1, <2>2, Zenon
<1>2. /\ IndInv /\ ValidChains /\ WaitingInv /\ RoundInv /\ CompleteInv /\ [Next]_vars
      => RoundInv' /\ CompleteInv'
  BY NextRound, Zenon
<1>3. "invalidate" \notin Operations
  BY Zenon DEF MarksStay
<1> QED BY <1>1, <1>2, <1>3, Inductive, ChainsAlwaysValid, BlocksAlwaysWait, PTL DEF Spec

(* ActivateBestChain never gives up cs_main with a tip that is worse than   *)
(* the one it found, whatever it disconnected on the way and however many   *)
(* blocks failed, as long as the operator sets and clears no marks and no   *)
(* kernel's transaction is missing.                                         *)
THEOREM AlwaysForward ==
    ASSUME MarksStay, NoSystemError
    PROVE  Spec => []ForwardProgress
<1>1. RoundInv /\ CompleteInv => ForwardProgress
  BY Zenon DEF RoundInv, ForwardProgress
<1> QED BY <1>1, RoundsInvariant, PTL

(* A block that is good enough to be the tip is never forgotten, under the  *)
(* same assumptions: it is a candidate once its ancestors have all arrived. *)
THEOREM CandidatesAlwaysComplete ==
    ASSUME MarksStay, NoSystemError
    PROVE  Spec => []CandidatesComplete
<1>1. ASSUME IndInv, WaitingInv, FailureHasCause, RoundInv, CompleteInv
      PROVE  CandidatesComplete
  <2> SUFFICES ASSUME MainFree, NEW b \in Index, Ancestors[b] \subseteq data,
                      Ancestors[b] \cap failedValid = {}, ~Worse(b, tip)
               PROVE  b \in candidates
    BY Zenon DEF CandidatesComplete
  <2>1. b \in Block /\ b \in linked
    BY <1>1, LinkedOnceServed, Zenon DEF MainFree, WholeChains, Index
  <2>2. Ancestors[b] \cap Failed = {}
    <3>1. \A a \in Ancestors[b] : Ancestors[a] \subseteq Ancestors[b]
      BY <2>1, TreeAssumption, Zenon DEF TreeAssumption
    <3> QED BY <1>1, <3>1, Zenon DEF FailureHasCause
  <2>3. Reference = tip
    BY Zenon DEF Reference, InRound, MainFree
  <2> QED BY <1>1, <2>1, <2>2, <2>3, Zenon DEF CompleteInv
<1>2. "reconsider" \notin Operations
  BY Zenon DEF MarksStay
<1> QED BY <1>1, <1>2, Inductive, BlocksAlwaysWait, FailureAlwaysHasCause, RoundsInvariant, PTL
=============================================================================
