--------------------------- MODULE CoinsCacheProof ---------------------------
(***************************************************************************)
(* Proofs about CoinsCache for any set of outpoints, coins and blocks: the  *)
(* flags are truthful, no logic error is thrown, and the caches implement   *)
(* the plain maps of Coins.                                                 *)
(***************************************************************************)
EXTENDS CoinsCache, TLAPS

(* What the entry e of a cache says when the parent answers below.          *)
Sound(e, below) ==
    /\ e.coin = NotCached => e.flags = {}
    /\ "FRESH" \in e.flags => below = Spent /\ e.coin \in Coin /\ "DIRTY" \in e.flags
    /\ e.coin # NotCached /\ "DIRTY" \notin e.flags => e.coin = below

IInv ==
    /\ TypeOK
    /\ \A o \in Outpoint : Sound(tip[o], db[o]) /\ Sound(view[o], TipCoin(o))
    /\ ~open => view = EmptyCache /\ viewHash = Null
    /\ thrown = FALSE

(* The entry of a map is what its owner answers.                            *)
LEMMA Answers ==
    ASSUME IInv, NEW o \in Outpoint
    PROVE  /\ db[o] \in Coin \cup {Spent} /\ TipCoin(o) \in Coin \cup {Spent}
           /\ ViewCoin(o) \in Coin \cup {Spent}
           /\ tip[o] \in Entry /\ view[o] \in Entry
  BY CoinsAssumption DEF IInv, TypeOK, TipCoin, ViewCoin, Cached, Entry, CoinsAssumption

(* What each operation on one entry keeps.                                  *)
LEMMA FetchSound ==
    ASSUME NEW cache \in [Outpoint -> Entry], NEW o \in Outpoint, NEW below \in Coin \cup {Spent},
           Sound(cache[o], below)
    PROVE  LET new == FetchCoin(cache, o, below)
           IN  /\ new \in [Outpoint -> Entry]
               /\ Sound(new[o], below)
               /\ \A p \in Outpoint : p # o => new[p] = cache[p]
               /\ (IF new[o].coin = NotCached THEN below ELSE new[o].coin) =
                  (IF cache[o].coin = NotCached THEN below ELSE cache[o].coin)
               /\ new[o].coin = NotCached => below = Spent
<1>1. CASE Cached(cache, o) \/ below = Spent
  BY <1>1 DEF FetchCoin, Cached
<1>2. CASE ~Cached(cache, o) /\ below # Spent
  <2>1. [coin |-> below, flags |-> {}] \in Entry
    BY DEF Entry
  <2> QED BY <1>2, <2>1, CoinsAssumption DEF FetchCoin, Cached, Sound, CoinsAssumption
<1> QED BY <1>1, <1>2

(* AddCoin: the entry is FRESH only if the parent has nothing.              *)
LEMMA AddSound ==
    ASSUME NEW cache \in [Outpoint -> Entry], NEW o \in Outpoint, NEW below \in Coin \cup {Spent},
           Sound(cache[o], below), NEW c \in Coin, NEW overwrite \in BOOLEAN,
           overwrite \/ (IF cache[o].coin = NotCached THEN below ELSE cache[o].coin) = Spent
    PROVE  LET new == AddCoin(cache, o, c, overwrite)
           IN  /\ new \in [Outpoint -> Entry]
               /\ Sound(new[o], below)
               /\ \A p \in Outpoint : p # o => new[p] = cache[p]
               /\ new[o].coin = c
               /\ ~AddThrows(cache, o, overwrite)
<1> DEFINE flags == cache[o].flags \cup {"DIRTY"}
                    \cup (IF ~overwrite /\ "DIRTY" \notin cache[o].flags THEN {"FRESH"} ELSE {})
<1>1. cache[o] \in Entry /\ cache[o].flags \in SUBSET {"DIRTY", "FRESH"}
  BY DEF Entry
<1>2. flags \in SUBSET {"DIRTY", "FRESH"} /\ "DIRTY" \in flags
  BY <1>1
<1>3. "FRESH" \in flags => below = Spent
  <2>1. CASE "FRESH" \in cache[o].flags
    BY <2>1 DEF Sound
  <2>2. CASE ~overwrite /\ "DIRTY" \notin cache[o].flags
    BY <2>2 DEF Sound
  <2> QED BY <2>1, <2>2
<1>4. AddCoin(cache, o, c, overwrite) = [cache EXCEPT ![o] = [coin |-> c, flags |-> flags]]
  BY DEF AddCoin
<1> HIDE DEF flags
<1>5. [coin |-> c, flags |-> flags] \in Entry
  BY <1>2 DEF Entry
<1>6. Sound([coin |-> c, flags |-> flags], below)
  BY <1>2, <1>3, CoinsAssumption DEF Sound, CoinsAssumption
<1>7. ~AddThrows(cache, o, overwrite)
  BY CoinsAssumption DEF AddThrows, CoinsAssumption
<1> QED BY <1>4, <1>5, <1>6, <1>7

(* SpendCoin: an entry that is FRESH may be erased, because the parent has  *)
(* nothing.                                                                 *)
LEMMA SpendSound ==
    ASSUME NEW cache \in [Outpoint -> Entry], NEW o \in Outpoint, NEW below \in Coin \cup {Spent},
           Sound(cache[o], below), cache[o].coin = NotCached => below = Spent
    PROVE  LET new == SpendCoin(cache, o)
           IN  /\ new \in [Outpoint -> Entry]
               /\ Sound(new[o], below)
               /\ \A p \in Outpoint : p # o => new[p] = cache[p]
               /\ (IF new[o].coin = NotCached THEN below ELSE new[o].coin) = Spent
<1>1. NoEntry \in Entry /\ NoEntry.coin = NotCached /\ NoEntry.flags = {}
  BY DEF NoEntry, Entry
<1>2. CASE ~Cached(cache, o)
  BY <1>2 DEF SpendCoin, Cached
<1>3. CASE Cached(cache, o) /\ "FRESH" \in cache[o].flags
  BY <1>1, <1>3 DEF SpendCoin, Sound
<1>4. CASE Cached(cache, o) /\ "FRESH" \notin cache[o].flags
  <2> DEFINE e == [coin |-> Spent, flags |-> cache[o].flags \cup {"DIRTY"}]
  <2>1. SpendCoin(cache, o) = [cache EXCEPT ![o] = e]
    BY <1>4 DEF SpendCoin
  <2>2. e \in Entry
    BY DEF Entry
  <2>3. Sound(e, below)
    BY <1>4, CoinsAssumption DEF Sound, CoinsAssumption
  <2>4. e.coin = Spent
    OBVIOUS
  <2> HIDE DEF e
  <2> QED BY <2>1, <2>2, <2>3, <2>4, CoinsAssumption DEF CoinsAssumption
<1> QED BY <1>2, <1>3, <1>4

(* BatchWrite of one entry: it throws nothing, the flags stay sound and our *)
(* answer becomes the child's.                                              *)
LEMMA WriteSound ==
    ASSUME NEW ours \in Entry, NEW theirs \in Entry, NEW below \in Coin \cup {Spent},
           Sound(ours, below), 
           Sound(theirs, IF ours.coin = NotCached THEN below ELSE ours.coin)
    PROVE  LET new == WriteEntry(ours, theirs)
               old == IF ours.coin = NotCached THEN below ELSE ours.coin
           IN  /\ new \in Entry
               /\ Sound(new, below)
               /\ (IF new.coin = NotCached THEN below ELSE new.coin) =
                  (IF theirs.coin = NotCached THEN old ELSE theirs.coin)
               /\ ~WriteThrows(ours, theirs)
<1> DEFINE old == IF ours.coin = NotCached THEN below ELSE ours.coin
<1>1. /\ ours.coin \in Coin \cup {Spent, NotCached} /\ ours.flags \in SUBSET {"DIRTY", "FRESH"}
      /\ theirs.coin \in Coin \cup {Spent, NotCached} /\ theirs.flags \in SUBSET {"DIRTY", "FRESH"}
  BY DEF Entry
<1>2. NoEntry \in Entry /\ NoEntry.coin = NotCached /\ NoEntry.flags = {}
  BY DEF NoEntry, Entry
<1>3. ~WriteThrows(ours, theirs)
  BY CoinsAssumption DEF WriteThrows, Sound, CoinsAssumption
<1>4. CASE "DIRTY" \notin theirs.flags
  BY <1>3, <1>4 DEF WriteEntry, Sound
<1>5. CASE "DIRTY" \in theirs.flags /\ ours.coin = NotCached
  <2> DEFINE e == [coin |-> theirs.coin, flags |-> {"DIRTY"} \cup (theirs.flags \cap {"FRESH"})]
  <2>1. theirs.coin # NotCached
    BY <1>5 DEF Sound
  <2>2. ~("FRESH" \in theirs.flags /\ theirs.coin = Spent)
    BY CoinsAssumption DEF Sound, CoinsAssumption
  <2>3. WriteEntry(ours, theirs) = e
    BY <1>5, <2>2 DEF WriteEntry
  <2>4. e \in Entry /\ e.coin = theirs.coin
    BY <1>1 DEF Entry
  <2>5. Sound(e, below)
    BY <1>5, <2>1, <2>2 DEF Sound
  <2> HIDE DEF e
  <2> QED BY <1>3, <2>1, <2>3, <2>4, <2>5
<1>6. CASE "DIRTY" \in theirs.flags /\ ours.coin # NotCached /\ "FRESH" \in ours.flags /\ theirs.coin = Spent
  <2>1. WriteEntry(ours, theirs) = NoEntry
    BY <1>6 DEF WriteEntry
  <2>2. below = Spent
    BY <1>6 DEF Sound
  <2> QED BY <1>2, <1>3, <1>6, <2>1, <2>2, CoinsAssumption DEF Sound, CoinsAssumption
<1>7. CASE /\ "DIRTY" \in theirs.flags /\ ours.coin # NotCached
           /\ ~("FRESH" \in ours.flags /\ theirs.coin = Spent)
  <2> DEFINE e == [coin |-> theirs.coin, flags |-> ours.flags \cup {"DIRTY"}]
  <2>1. theirs.coin # NotCached
    BY <1>7 DEF Sound
  <2>2. WriteEntry(ours, theirs) = e
    BY <1>7 DEF WriteEntry
  <2>3. e \in Entry /\ e.coin = theirs.coin
    BY <1>1 DEF Entry
  <2>4. Sound(e, below)
    BY <1>1, <1>7, <2>1 DEF Sound
  <2> HIDE DEF e
  <2> QED BY <1>3, <2>1, <2>2, <2>3, <2>4
<1> QED BY <1>4, <1>5, <1>6, <1>7

-----------------------------------------------------------------------------
(* Each action keeps the invariant and is a step of the plain maps.         *)
Simulates == IInv' /\ [Views!Next]_(Views!vars)

(* A read through both caches copies coins and changes no answer.           *)
LEMMA ReadKeeps ==
    ASSUME IInv, NEW o \in Outpoint, ViewFetch(o) \/ TipFetch(o) \/ ViewSpend(o)
    PROVE  /\ tip' = tip \/ tip' = FetchCoin(tip, o, db[o])
           /\ tip' \in [Outpoint -> Entry]
           /\ \A p \in Outpoint : Sound(tip'[p], db[p]) /\ TipCoin(p)' = TipCoin(p)
<1>1. tip' = tip \/ tip' = FetchCoin(tip, o, db[o])
  BY DEF ViewFetch, TipFetch, ViewSpend
<1>2. db' = db
  BY DEF ViewFetch, TipFetch, ViewSpend
<1>3. CASE tip' = tip
  BY <1>2, <1>3 DEF IInv, TypeOK, TipCoin, Cached
<1>4. CASE tip' = FetchCoin(tip, o, db[o])
  <2>1. tip \in [Outpoint -> Entry] /\ db[o] \in Coin \cup {Spent} /\ Sound(tip[o], db[o])
    BY Answers DEF IInv, TypeOK
  <2>2. /\ tip' \in [Outpoint -> Entry]
        /\ Sound(tip'[o], db[o])
        /\ \A p \in Outpoint : p # o => tip'[p] = tip[p]
        /\ (IF tip'[o].coin = NotCached THEN db[o] ELSE tip'[o].coin) =
           (IF tip[o].coin = NotCached THEN db[o] ELSE tip[o].coin)
    BY <1>4, <2>1, FetchSound
  <2>3. \A p \in Outpoint : Sound(tip'[p], db[p])
    BY <2>2 DEF IInv
  <2>4. \A p \in Outpoint : TipCoin(p)' = TipCoin(p)
    BY <2>2, <1>2 DEF TipCoin, Cached
  <2> QED BY <1>1, <2>2, <2>3, <2>4
<1> QED BY <1>1, <1>3, <1>4

(* A read is a stuttering step.                                             *)
LEMMA ViewFetchStep ==
    ASSUME IInv, NEW o \in Outpoint, ViewFetch(o)
    PROVE  Simulates
<1>1. /\ view \in [Outpoint -> Entry] /\ TipCoin(o) \in Coin \cup {Spent}
      /\ Sound(view[o], TipCoin(o)) /\ view' = FetchCoin(view, o, TipCoin(o))
      /\ db' = db /\ dbBest' = dbBest /\ tipHash' = tipHash /\ viewHash' = viewHash
      /\ open /\ open' = open /\ thrown' = thrown
  BY Answers, Zenon DEF IInv, TypeOK, ViewFetch
<1>2. /\ tip' \in [Outpoint -> Entry]
      /\ \A p \in Outpoint : Sound(tip'[p], db[p]) /\ TipCoin(p)' = TipCoin(p)
  BY ReadKeeps
<1>3. /\ view' \in [Outpoint -> Entry]
      /\ Sound(view'[o], TipCoin(o))
      /\ \A p \in Outpoint : p # o => view'[p] = view[p]
      /\ (IF view'[o].coin = NotCached THEN TipCoin(o) ELSE view'[o].coin) =
         (IF view[o].coin = NotCached THEN TipCoin(o) ELSE view[o].coin)
  BY <1>1, FetchSound
<1>4. IInv'
  BY <1>1, <1>2, <1>3 DEF IInv, TypeOK
<1>5. \A p \in Outpoint : ViewCoin(p)' = ViewCoin(p)
  BY <1>2, <1>3 DEF ViewCoin, Cached
<1>6. UNCHANGED Views!vars
  BY <1>1, <1>2, <1>5 DEF Views!vars, TipBest, ViewBest
<1> QED BY <1>4, <1>6 DEF Simulates

(* A read of pcoinsTip is a stuttering step of Coins.                       *)
LEMMA TipFetchStep ==
    ASSUME IInv, NEW o \in Outpoint, TipFetch(o)
    PROVE  Simulates
<1>1. /\ view' = view /\ db' = db /\ dbBest' = dbBest /\ tipHash' = tipHash
      /\ viewHash' = viewHash /\ open' = open /\ thrown' = thrown
  BY DEF TipFetch
<1>2. /\ tip' \in [Outpoint -> Entry]
      /\ \A p \in Outpoint : Sound(tip'[p], db[p]) /\ TipCoin(p)' = TipCoin(p)
  BY ReadKeeps
<1>3. IInv'
  BY <1>1, <1>2 DEF IInv, TypeOK
<1>4. \A p \in Outpoint : ViewCoin(p)' = ViewCoin(p)
  BY <1>1, <1>2 DEF ViewCoin, Cached
<1>5. UNCHANGED Views!vars
  BY <1>1, <1>2, <1>4 DEF Views!vars, TipBest, ViewBest
<1> QED BY <1>3, <1>5 DEF Simulates

(* SpendCoin of the view is a Spend of Coins.                               *)
LEMMA ViewSpendStep ==
    ASSUME IInv, NEW o \in Outpoint, ViewSpend(o)
    PROVE  Simulates
<1> DEFINE fetched == FetchCoin(view, o, TipCoin(o))
<1>1. /\ view \in [Outpoint -> Entry] /\ TipCoin(o) \in Coin \cup {Spent}
      /\ Sound(view[o], TipCoin(o)) /\ view' = SpendCoin(fetched, o)
      /\ db' = db /\ dbBest' = dbBest /\ tipHash' = tipHash /\ viewHash' = viewHash
      /\ open /\ open' = open /\ thrown' = thrown
  BY Answers, Zenon DEF IInv, TypeOK, ViewSpend
<1>2. /\ tip' \in [Outpoint -> Entry]
      /\ \A p \in Outpoint : Sound(tip'[p], db[p]) /\ TipCoin(p)' = TipCoin(p)
  BY ReadKeeps
<1>3. /\ fetched \in [Outpoint -> Entry]
      /\ Sound(fetched[o], TipCoin(o))
      /\ \A p \in Outpoint : p # o => fetched[p] = view[p]
      /\ fetched[o].coin = NotCached => TipCoin(o) = Spent
  BY <1>1, FetchSound
<1> HIDE DEF fetched
<1>4. /\ view' \in [Outpoint -> Entry]
      /\ Sound(view'[o], TipCoin(o))
      /\ \A p \in Outpoint : p # o => view'[p] = fetched[p]
      /\ (IF view'[o].coin = NotCached THEN TipCoin(o) ELSE view'[o].coin) = Spent
  BY <1>1, <1>3, SpendSound
<1>5. IInv'
  BY <1>1, <1>2, <1>3, <1>4 DEF IInv, TypeOK
<1>6. /\ ViewCoin(o)' = Spent
      /\ \A p \in Outpoint : p # o => ViewCoin(p)' = ViewCoin(p)
  BY <1>2, <1>3, <1>4 DEF ViewCoin, Cached
<1>7. Views!Spend(o)
  BY <1>1, <1>2, <1>6, Zenon DEF Views!Spend, TipBest, ViewBest
<1> QED BY <1>5, <1>7 DEF Simulates, Views!Next

(* AddCoin of the view is an Add of Coins, or a stuttering step for an      *)
(* unspendable output.                                                      *)
LEMMA ViewAddStep ==
    ASSUME IInv, NEW o \in Outpoint, NEW c \in Coin, NEW overwrite \in BOOLEAN,
           ViewAdd(o, c, overwrite)
    PROVE  Simulates
<1>1. /\ view \in [Outpoint -> Entry] /\ TipCoin(o) \in Coin \cup {Spent}
      /\ Sound(view[o], TipCoin(o))
      /\ db' = db /\ dbBest' = dbBest /\ tip' = tip /\ tipHash' = tipHash
      /\ viewHash' = viewHash /\ open /\ open' = open
      /\ overwrite \/ ViewCoin(o) = Spent
  BY Answers, Zenon DEF IInv, TypeOK, ViewAdd
<1>2. \A p \in Outpoint : TipCoin(p)' = TipCoin(p)
  BY <1>1 DEF TipCoin, Cached
<1>3. CASE o \in Unspendable
  <2>1. view' = view /\ thrown' = thrown
    BY <1>3 DEF ViewAdd
  <2>2. IInv'
    BY <1>1, <1>2, <2>1 DEF IInv, TypeOK
  <2>3. UNCHANGED Views!vars
    BY <1>1, <1>2, <2>1 DEF Views!vars, TipBest, ViewBest, ViewCoin, Cached
  <2> QED BY <2>2, <2>3 DEF Simulates
<1>4. CASE o \notin Unspendable
  <2> DEFINE new == AddCoin(view, o, c, overwrite)
  <2>1. overwrite \/ (IF view[o].coin = NotCached THEN TipCoin(o) ELSE view[o].coin) = Spent
    BY <1>1 DEF ViewCoin, Cached
  <2>2. /\ new \in [Outpoint -> Entry]
        /\ Sound(new[o], TipCoin(o))
        /\ \A p \in Outpoint : p # o => new[p] = view[p]
        /\ new[o].coin = c
        /\ ~AddThrows(view, o, overwrite)
    BY <1>1, <2>1, AddSound
  <2>3. view' = new /\ thrown' = thrown
    BY <1>4, <2>2 DEF ViewAdd
  <2> HIDE DEF new
  <2>4. IInv'
    BY <1>1, <1>2, <2>2, <2>3 DEF IInv, TypeOK
  <2>5. /\ ViewCoin(o)' = c
        /\ \A p \in Outpoint : p # o => ViewCoin(p)' = ViewCoin(p)
    BY <1>2, <2>2, <2>3, CoinsAssumption DEF ViewCoin, Cached, CoinsAssumption
  <2>6. Views!Add(o, c)
    BY <1>1, <1>2, <2>5, Zenon DEF Views!Add, TipBest, ViewBest
  <2> QED BY <2>4, <2>6 DEF Simulates, Views!Next
<1> QED BY <1>3, <1>4

(* Uncache forgets a copy and is a stuttering step of Coins.                *)
LEMMA UncacheStep ==
    ASSUME IInv, NEW o \in Outpoint, Uncache(o)
    PROVE  Simulates
<1>1. /\ view' = view /\ db' = db /\ dbBest' = dbBest /\ tipHash' = tipHash
      /\ viewHash' = viewHash /\ open' = open /\ thrown' = thrown
      /\ tip' = [tip EXCEPT ![o] = NoEntry] /\ tip[o].coin # NotCached /\ tip[o].flags = {}
  BY DEF Uncache, Cached
<1>2. NoEntry \in Entry /\ NoEntry.coin = NotCached /\ NoEntry.flags = {}
  BY DEF NoEntry, Entry
<1>3. /\ tip' \in [Outpoint -> Entry] /\ tip'[o] = NoEntry
      /\ \A p \in Outpoint : p # o => tip'[p] = tip[p]
  BY <1>1, <1>2 DEF IInv, TypeOK
<1>4. \A p \in Outpoint : Sound(tip'[p], db[p])
  BY <1>2, <1>3 DEF IInv, Sound
<1>5. tip[o].coin = db[o]
  BY <1>1 DEF IInv, Sound
<1>6. \A p \in Outpoint : TipCoin(p)' = TipCoin(p)
  BY <1>1, <1>2, <1>3, <1>5 DEF TipCoin, Cached
<1>7. IInv'
  BY <1>1, <1>3, <1>4, <1>6 DEF IInv, TypeOK
<1>8. \A p \in Outpoint : ViewCoin(p)' = ViewCoin(p)
  BY <1>1, <1>6 DEF ViewCoin, Cached
<1>9. UNCHANGED Views!vars
  BY <1>1, <1>6, <1>8 DEF Views!vars, TipBest, ViewBest
<1> QED BY <1>7, <1>9 DEF Simulates

(* An empty cache says what its parent says.                                *)
LEMMA EmptyCacheSays ==
    /\ EmptyCache \in [Outpoint -> Entry]
    /\ \A o \in Outpoint : /\ EmptyCache[o].coin = NotCached
                           /\ \A below : Sound(EmptyCache[o], below)
<1>1. NoEntry \in Entry /\ NoEntry.coin = NotCached /\ NoEntry.flags = {}
  BY DEF NoEntry, Entry
<1>2. \A below : Sound(NoEntry, below)
  BY <1>1 DEF Sound
<1> QED BY <1>1, <1>2 DEF EmptyCache

(* A view that is dropped is a Discard of Coins.                            *)
LEMMA DropViewStep ==
    ASSUME IInv, DropView
    PROVE  Simulates
<1>1. /\ view' = EmptyCache /\ viewHash' = Null /\ open' = FALSE /\ thrown' = thrown
      /\ db' = db /\ dbBest' = dbBest /\ tip' = tip /\ tipHash' = tipHash
  BY DEF DropView
<1>2. \A p \in Outpoint : TipCoin(p)' = TipCoin(p) /\ ViewCoin(p)' = TipCoin(p)
  BY <1>1, EmptyCacheSays DEF TipCoin, ViewCoin, Cached
<1>3. IInv'
  BY <1>1, <1>2, EmptyCacheSays, Zenon DEF IInv, TypeOK
<1>4. Views!Discard
  BY <1>1, <1>2 DEF Views!Discard, TipBest, ViewBest
<1> QED BY <1>3, <1>4 DEF Simulates, Views!Next

(* Flush of the view into pcoinsTip is a Commit of Coins.                   *)
LEMMA ViewFlushStep ==
    ASSUME IInv, ViewFlush
    PROVE  Simulates
<1>1. \A o \in Outpoint :
          LET new == WriteEntry(tip[o], view[o])
          IN  /\ new \in Entry
              /\ Sound(new, db[o])
              /\ (IF new.coin = NotCached THEN db[o] ELSE new.coin) = ViewCoin(o)
              /\ ~WriteThrows(tip[o], view[o])
  <2> SUFFICES ASSUME NEW o \in Outpoint
               PROVE  LET new == WriteEntry(tip[o], view[o])
                      IN  /\ new \in Entry
                          /\ Sound(new, db[o])
                          /\ (IF new.coin = NotCached THEN db[o] ELSE new.coin) = ViewCoin(o)
                          /\ ~WriteThrows(tip[o], view[o])
    BY Zenon
  <2>1. /\ tip[o] \in Entry /\ view[o] \in Entry /\ db[o] \in Coin \cup {Spent}
        /\ Sound(tip[o], db[o])
        /\ Sound(view[o], IF tip[o].coin = NotCached THEN db[o] ELSE tip[o].coin)
    BY Answers, Zenon DEF IInv, TipCoin, Cached
  <2>2. ViewCoin(o) = IF view[o].coin = NotCached
                      THEN (IF tip[o].coin = NotCached THEN db[o] ELSE tip[o].coin)
                      ELSE view[o].coin
    BY DEF ViewCoin, TipCoin, Cached
  <2> QED BY <2>1, <2>2, WriteSound
<1>2. /\ tip' = [o \in Outpoint |-> WriteEntry(tip[o], view[o])]
      /\ tipHash' = viewHash /\ viewHash # Null /\ thrown' = thrown
      /\ view' = EmptyCache /\ viewHash' = Null /\ open' = FALSE
      /\ db' = db /\ dbBest' = dbBest
  BY <1>1 DEF ViewFlush
<1>3. \A o \in Outpoint : TipCoin(o)' = ViewCoin(o) /\ ViewCoin(o)' = ViewCoin(o)
  BY <1>1, <1>2, EmptyCacheSays DEF TipCoin, ViewCoin, Cached
<1>4. tip' \in [Outpoint -> Entry] /\ \A o \in Outpoint : Sound(tip'[o], db'[o])
  BY <1>1, <1>2
<1>5. IInv'
  BY <1>2, <1>4, EmptyCacheSays, Zenon DEF IInv, TypeOK
<1>6. Views!Commit
  BY <1>2, <1>3 DEF Views!Commit, TipBest, ViewBest
<1> QED BY <1>5, <1>6 DEF Simulates, Views!Next

(* Flush of pcoinsTip into the database is a Persist of Coins.              *)
LEMMA TipFlushStep ==
    ASSUME IInv, TipFlush
    PROVE  Simulates
<1>1. /\ db' = [o \in Outpoint |-> IF "DIRTY" \in tip[o].flags THEN tip[o].coin ELSE db[o]]
      /\ dbBest' = TipBest /\ tipHash' = TipBest /\ tip' = EmptyCache
      /\ view' = view /\ viewHash' = viewHash /\ open' = open /\ thrown' = thrown
      /\ view = EmptyCache /\ viewHash = Null
  BY DEF IInv, TipFlush
<1>2. \A o \in Outpoint : db'[o] = TipCoin(o)
  BY <1>1 DEF IInv, Sound, TipCoin, Cached
<1>3. \A o \in Outpoint : /\ TipCoin(o)' = TipCoin(o)
                          /\ ViewCoin(o) = TipCoin(o) /\ ViewCoin(o)' = TipCoin(o)
  BY <1>1, <1>2, EmptyCacheSays DEF TipCoin, ViewCoin, Cached
<1>4. TipBest \in Hash
  BY DEF IInv, TypeOK, TipBest
<1>5. db' \in [Outpoint -> Coin \cup {Spent}]
  BY <1>1, <1>2, Answers
<1>6. IInv'
  BY <1>1, <1>4, <1>5, EmptyCacheSays DEF IInv, TypeOK
<1>7. TipBest' = TipBest /\ ViewBest = TipBest /\ ViewBest' = TipBest
  BY <1>1 DEF TipBest, ViewBest
<1>8. db' = [o \in Outpoint |-> TipCoin(o)]
  BY <1>1, <1>2
<1>9. Views!Persist
  BY <1>1, <1>3, <1>7, <1>8 DEF Views!Persist
<1> QED BY <1>6, <1>9 DEF Simulates, Views!Next

(* A new view changes no answer; SetBestBlock is a SetBest of Coins.        *)
LEMMA OpenAndSetStep ==
    ASSUME IInv, OpenView \/ \E h \in Hash : SetBestBlock(h)
    PROVE  Simulates
<1>1. /\ db' = db /\ dbBest' = dbBest /\ tip' = tip /\ tipHash' = tipHash
      /\ view' = view /\ thrown' = thrown /\ open' = TRUE
  BY DEF OpenView, SetBestBlock, IInv, TypeOK
<1>2. viewHash' = viewHash \/ viewHash' \in Hash
  BY DEF OpenView, SetBestBlock
<1>3. \A o \in Outpoint : TipCoin(o)' = TipCoin(o) /\ ViewCoin(o)' = ViewCoin(o)
  BY <1>1 DEF TipCoin, ViewCoin, Cached
<1>4. IInv'
  BY <1>1, <1>2, <1>3 DEF IInv, TypeOK
<1>5. CASE viewHash' = viewHash
  <2>1. UNCHANGED Views!vars
    BY <1>1, <1>3, <1>5 DEF Views!vars, TipBest, ViewBest
  <2> QED BY <1>4, <2>1 DEF Simulates
<1>6. ASSUME NEW h \in Hash, viewHash' = h PROVE Simulates
  <2>1. Views!SetBest(h)
    BY <1>1, <1>3, <1>6, CoinsAssumption DEF Views!SetBest, TipBest, ViewBest, CoinsAssumption
  <2> QED BY <1>4, <2>1 DEF Simulates, Views!Next
<1> QED BY <1>2, <1>5, <1>6

-----------------------------------------------------------------------------
(* Empty caches answer what the database holds.                             *)
LEMMA InitKeeps == Init => IInv /\ Views!Init
<1> SUFFICES ASSUME Init PROVE IInv /\ Views!Init
  OBVIOUS
<1>1. \A o \in Outpoint : TipCoin(o) = db[o] /\ ViewCoin(o) = db[o]
  BY EmptyCacheSays, Zenon DEF Init, TipCoin, ViewCoin, Cached
<1>2. IInv
  BY EmptyCacheSays, Zenon DEF Init, IInv, TypeOK
<1>3. Views!Init
  BY <1>1 DEF Init, Views!Init, TipBest, ViewBest
<1> QED BY <1>2, <1>3

(* Every step keeps the invariant and is a step of Coins or stutters.       *)
LEMMA NextKeeps == IInv /\ [Next]_vars => Simulates
<1> SUFFICES ASSUME IInv, [Next]_vars PROVE Simulates
  OBVIOUS
<1>1. CASE Next
  BY <1>1, ViewFetchStep, TipFetchStep, ViewSpendStep, ViewAddStep, UncacheStep, DropViewStep,
     ViewFlushStep, TipFlushStep, OpenAndSetStep DEF Next
<1>2. CASE UNCHANGED vars
  <2>1. IInv'
    BY <1>2 DEF vars, IInv, TypeOK, TipCoin, Cached
  <2>2. UNCHANGED Views!vars
    BY <1>2 DEF vars, Views!vars, TipCoin, ViewCoin, Cached, TipBest, ViewBest
  <2> QED BY <2>1, <2>2 DEF Simulates
<1> QED BY <1>1, <1>2

(* The inductive invariant of the caches: the flags of CCoinsCacheEntry are *)
(* sound at both levels and nothing is thrown.                              *)
THEOREM Inductive == Spec => []IInv
<1>1. IInv /\ [Next]_vars => IInv'
  BY NextKeeps DEF Simulates
<1> QED BY <1>1, InitKeeps, PTL DEF Spec

(* The two levels of caches behave as the plain maps of Coins for every     *)
(* set of outpoints, coins and blocks.                                      *)
THEOREM CachesImplementViews == Spec => ImplementsViews
<1>1. IInv /\ [Next]_vars => [Views!Next]_(Views!vars)
  BY NextKeeps DEF Simulates
<1> QED BY <1>1, InitKeeps, Inductive, PTL DEF Spec, ImplementsViews, Views!Spec

(* A FRESH entry has nothing below it and a clean entry is a copy, at both  *)
(* levels, after any sequence of reads, changes and flushes.                *)
THEOREM FlagsAlwaysTruthful == Spec => []FlagsTruthful
<1>1. IInv => FlagsTruthful
  BY Zenon DEF IInv, Sound, FlagsTruthful, Cached
<1> QED BY <1>1, Inductive, PTL

(* AddCoin and BatchWrite never throw, provided the callers pass            *)
(* possible_overwrite as they must.                                         *)
THEOREM NeverALogicError == Spec => []NoLogicError
<1>1. IInv => NoLogicError
  BY DEF IInv, NoLogicError
<1> QED BY <1>1, Inductive, PTL

=============================================================================
