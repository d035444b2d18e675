----------------------------- MODULE CoinsCache -----------------------------
(***************************************************************************)
(* The coin caches of coins.cpp: pcoinsTip over the coin database, and the  *)
(* CCoinsViewCache in which a block is connected or disconnected over       *)
(* pcoinsTip.  A cache maps an outpoint to an entry with a coin and the     *)
(* flags DIRTY (differs from the parent) and FRESH (the parent has no       *)
(* unspent coin).  Everything runs under cs_main, so pcoinsTip is used by   *)
(* itself only while no view is open above it.                              *)
(***************************************************************************)
CONSTANTS Outpoint,      \* COutPoint
          Coin,          \* the unspent coins
          Spent,         \* a Coin whose IsSpent() is true
          NotCached,     \* the coin of an outpoint without an entry
          Unspendable,   \* the outpoints whose script is provably unspendable
          Hash, Null     \* block hashes, and the hash whose IsNull() is true

ASSUME CoinsAssumption ==
    /\ Spent \notin Coin /\ NotCached \notin Coin /\ Spent # NotCached
    /\ Unspendable \subseteq Outpoint
    /\ Null \notin Hash

VARIABLES
    db, dbBest,      \* the coin database and its DB_BEST_BLOCK
    tip, tipHash,    \* cacheCoins and hashBlock of pcoinsTip
    view, viewHash,  \* cacheCoins and hashBlock of the view
    open,            \* a view exists
    thrown           \* a std::logic_error was thrown

vars == <<db, dbBest, tip, tipHash, view, viewHash, open, thrown>>

Entry == [coin : Coin \cup {Spent, NotCached}, flags : SUBSET {"DIRTY", "FRESH"}]
NoEntry == [coin |-> NotCached, flags |-> {}]
EmptyCache == [o \in Outpoint |-> NoEntry]

(* One type invariant.                                                      *)
TypeOK ==
    /\ db \in [Outpoint -> Coin \cup {Spent}] /\ dbBest \in Hash
    /\ tip \in [Outpoint -> Entry] /\ tipHash \in Hash \cup {Null}
    /\ view \in [Outpoint -> Entry] /\ viewHash \in Hash \cup {Null}
    /\ open \in BOOLEAN /\ thrown \in BOOLEAN

Init ==
    /\ db \in [Outpoint -> Coin \cup {Spent}] /\ dbBest \in Hash
    /\ \A o \in Unspendable : db[o] = Spent
    /\ tip = EmptyCache /\ tipHash = Null
    /\ view = EmptyCache /\ viewHash = Null
    /\ open = FALSE /\ thrown = FALSE

-----------------------------------------------------------------------------
Cached(cache, o) == cache[o].coin # NotCached

(* What GetCoin answers: the entry, or else what the parent answers.        *)
TipCoin(o) == IF Cached(tip, o) THEN tip[o].coin ELSE db[o]
ViewCoin(o) == IF Cached(view, o) THEN view[o].coin ELSE TipCoin(o)

TipBest == IF tipHash = Null THEN dbBest ELSE tipHash
ViewBest == IF viewHash = Null THEN TipBest ELSE viewHash

(* FetchCoin: an unspent coin of the parent is copied.  The parent's        *)
(* GetCoin never reports a spent coin, so the copy is never FRESH.          *)
FetchCoin(cache, o, parentCoin) ==
    IF Cached(cache, o) \/ parentCoin = Spent THEN cache
    ELSE [cache EXCEPT ![o] = [coin |-> parentCoin, flags |-> {}]]

(* (FRESH also for an entry that is DIRTY: the parent may hold the coin.)   *)
FreshWheneverNew(cache, o, c, possible_overwrite) ==
    LET fresh == ~possible_overwrite
    IN  [cache EXCEPT ![o] = [coin |-> c,
            flags |-> cache[o].flags \cup {"DIRTY"} \cup (IF fresh THEN {"FRESH"} ELSE {})]]

(* AddCoin: the cache it leaves.                                            *)
AddCoin(cache, o, c, possible_overwrite) ==
    LET fresh == ~possible_overwrite /\ "DIRTY" \notin cache[o].flags
    IN  [cache EXCEPT ![o] = [coin |-> c,
            flags |-> cache[o].flags \cup {"DIRTY"} \cup (IF fresh THEN {"FRESH"} ELSE {})]]

(* (Also for a caller that allows overwriting.)                             *)
ThrowsOnOverwrite(cache, o, possible_overwrite) == cache[o].coin \in Coin

AddThrows(cache, o, possible_overwrite) ==
    ~possible_overwrite /\ cache[o].coin \in Coin

(* SpendCoin on a cache that FetchCoin has been called on.                  *)
SpendCoin(cache, o) ==
    IF ~Cached(cache, o) THEN cache
    ELSE IF "FRESH" \in cache[o].flags THEN [cache EXCEPT ![o] = NoEntry]
    ELSE [cache EXCEPT ![o] = [coin |-> Spent, flags |-> @.flags \cup {"DIRTY"}]]

(* BatchWrite: what a child's entry does to ours.                           *)
WriteThrows(ours, theirs) ==
    /\ "DIRTY" \in theirs.flags /\ ours.coin \in Coin
    /\ "FRESH" \in theirs.flags

WriteEntry(ours, theirs) ==
    IF "DIRTY" \notin theirs.flags THEN ours
    ELSE IF ours.coin = NotCached
         THEN IF "FRESH" \in theirs.flags /\ theirs.coin = Spent THEN NoEntry
              ELSE [coin |-> theirs.coin, flags |-> {"DIRTY"} \cup (theirs.flags \cap {"FRESH"})]
    ELSE IF "FRESH" \in ours.flags /\ theirs.coin = Spent THEN NoEntry
    ELSE [coin |-> theirs.coin, flags |-> ours.flags \cup {"DIRTY"}]

-----------------------------------------------------------------------------
(* The view: made for a block, read and changed, and flushed or dropped.    *)
OpenView ==
    /\ ~open
    /\ open' = TRUE
    /\ UNCHANGED <<db, dbBest, tip, tipHash, view, viewHash, thrown>>

(* HaveCoin, AccessCoin and GetCoin of the view; a miss goes through both.  *)
ViewFetch(o) ==
    /\ open
    /\ tip' = IF Cached(view, o) THEN tip ELSE FetchCoin(tip, o, db[o])
    /\ view' = FetchCoin(view, o, TipCoin(o))
    /\ UNCHANGED <<db, dbBest, tipHash, viewHash, open, thrown>>

(* AddCoin.  The callers pass possible_overwrite unless they know that the  *)
(* outpoint has no unspent coin.                                            *)
ViewAdd(o, c, possible_overwrite) ==
    /\ open
    /\ possible_overwrite \/ ViewCoin(o) = Spent
    /\ IF o \in Unspendable THEN UNCHANGED <<view, thrown>>
       ELSE IF AddThrows(view, o, possible_overwrite)
       THEN thrown' = TRUE /\ view' = view
       ELSE view' = AddCoin(view, o, c, possible_overwrite) /\ thrown' = thrown
    /\ UNCHANGED <<db, dbBest, tip, tipHash, viewHash, open>>

ViewSpend(o) ==
    /\ open
    /\ tip' = IF Cached(view, o) THEN tip ELSE FetchCoin(tip, o, db[o])
    /\ view' = SpendCoin(FetchCoin(view, o, TipCoin(o)), o)
    /\ UNCHANGED <<db, dbBest, tipHash, viewHash, open, thrown>>

SetBestBlock(h) ==
    /\ open
    /\ viewHash' = h
    /\ UNCHANGED <<db, dbBest, tip, tipHash, view, open, thrown>>

(* Flush: BatchWrite of pcoinsTip.  ConnectBlock and DisconnectBlock have   *)
(* called SetBestBlock before.                                              *)
ViewFlush ==
    /\ open /\ viewHash # Null
    /\ IF \E o \in Outpoint : WriteThrows(tip[o], view[o])
       THEN thrown' = TRUE /\ UNCHANGED <<tip, tipHash>>
       ELSE /\ tip' = [o \in Outpoint |-> WriteEntry(tip[o], view[o])]
            /\ tipHash' = viewHash
            /\ thrown' = thrown
    /\ view' = EmptyCache /\ viewHash' = Null /\ open' = FALSE
    /\ UNCHANGED <<db, dbBest>>

DropView ==
    /\ open
    /\ view' = EmptyCache /\ viewHash' = Null /\ open' = FALSE
    /\ UNCHANGED <<db, dbBest, tip, tipHash, thrown>>

-----------------------------------------------------------------------------
(* pcoinsTip by itself: reads, Uncache, GetBestBlock and Flush to disk.     *)
TipFetch(o) ==
    /\ ~open
    /\ tip' = FetchCoin(tip, o, db[o])
    /\ UNCHANGED <<db, dbBest, tipHash, view, viewHash, open, thrown>>

(* (Whatever the flags.)                                                    *)
UncacheAny(o) ==
    /\ ~open /\ Cached(tip, o)
    /\ tip' = [tip EXCEPT ![o] = NoEntry]
    /\ UNCHANGED <<db, dbBest, tipHash, view, viewHash, open, thrown>>

Uncache(o) ==
    /\ ~open /\ Cached(tip, o) /\ tip[o].flags = {}
    /\ tip' = [tip EXCEPT ![o] = NoEntry]
    /\ UNCHANGED <<db, dbBest, tipHash, view, viewHash, open, thrown>>

(* LoadChainTip has called GetBestBlock, so the hash that Flush passes on   *)
(* is not null.                                                             *)
TipFlush ==
    /\ ~open
    /\ db' = [o \in Outpoint |-> IF "DIRTY" \in tip[o].flags THEN tip[o].coin ELSE db[o]]
    /\ dbBest' = TipBest /\ tipHash' = TipBest
    /\ tip' = EmptyCache
    /\ UNCHANGED <<view, viewHash, open, thrown>>

Next ==
    \/ OpenView \/ ViewFlush \/ DropView \/ TipFlush
    \/ \E o \in Outpoint :
         \/ ViewFetch(o) \/ ViewSpend(o) \/ TipFetch(o) \/ Uncache(o)
         \/ \E c \in Coin, possible_overwrite \in BOOLEAN : ViewAdd(o, c, possible_overwrite)
    \/ \E h \in Hash : SetBestBlock(h)

Spec == Init /\ [][Next]_vars

-----------------------------------------------------------------------------
(* The caches are invisible: reads, copies, FRESH entries that are erased   *)
(* without a trace and partial flushes of two levels behave as three plain  *)
(* maps that are copied as a whole.                                         *)
Views == INSTANCE Coins WITH tip <- [o \in Outpoint |-> TipCoin(o)], tipBest <- TipBest,
                             view <- [o \in Outpoint |-> ViewCoin(o)], viewBest <- ViewBest

ImplementsViews == Views!Spec

(* The logic errors of AddCoin ("Adding new coin that replaces non-pruned   *)
(* entry") and of BatchWrite ("FRESH flag misapplied to cache entry") are   *)
(* never thrown.                                                            *)
NoLogicError == ~thrown

(* FRESH means that the parent holds nothing: an entry that is FRESH may be *)
(* erased without telling the parent.  An entry that is not DIRTY is a copy *)
(* of what the parent says, so Uncache and Flush may forget it.             *)
FlagsTruthful ==
    \A o \in Outpoint :
        /\ "FRESH" \in tip[o].flags => db[o] = Spent
        /\ "FRESH" \in view[o].flags => TipCoin(o) = Spent
        /\ Cached(tip, o) /\ "DIRTY" \notin tip[o].flags => tip[o].coin = db[o]
        /\ Cached(view, o) /\ "DIRTY" \notin view[o].flags => view[o].coin = TipCoin(o)
=============================================================================
