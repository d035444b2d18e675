------------------------ MODULE BlockDownloadProof --------------------------
(***************************************************************************)
(* Proofs about BlockDownload, for any tree of blocks, any number of peers  *)
(* and any limits.  The operations on the download state are shown first to *)
(* keep it in order; the invariant adds what the handlers rely on between   *)
(* their critical sections: a block that is being processed is no longer in *)
(* flight, except from the other peer of an optimistic reconstruction, and  *)
(* what is done to the block index only ever stores that block.             *)
(***************************************************************************)
EXTENDS BlockDownload, FiniteSetTheorems, SequenceTheorems, WellFoundedInduction, TLAPS

(* The download state is in order.                                          *)
Sane(d) ==
    /\ d \in DownloadState
    /\ Exact(d)
    /\ \A p \in d.stalling : d.list[p] # <<>>

Busy(list) == {p \in Peer : list[p] # <<>>}

-----------------------------------------------------------------------------
(* What the number of peers with downloads becomes when the queue of one    *)
(* peer changes.                                                            *)
LEMMA BusyCount ==
    ASSUME NEW l1 \in [Peer -> Seq(Block)], NEW l2 \in [Peer -> Seq(Block)], NEW p \in Peer,
           \A q \in Peer \ {p} : l2[q] = l1[q]
    PROVE  /\ Cardinality(Busy(l1)) \in Nat
           /\ Cardinality(Busy(l2)) =
                IF l1[p] = <<>> /\ l2[p] # <<>> THEN Cardinality(Busy(l1)) + 1
                ELSE IF l1[p] # <<>> /\ l2[p] = <<>> THEN Cardinality(Busy(l1)) - 1
                ELSE Cardinality(Busy(l1))
  <1>1. IsFiniteSet(Busy(l1))
    <2>1. Busy(l1) \in SUBSET Peer
      BY Zenon DEF Busy
    <2> QED BY <2>1, FS_Subset, DownloadAssumption, Zenon DEF DownloadAssumption
  <1>2. Cardinality(Busy(l1)) \in Nat
    BY <1>1, FS_CardinalityType, Zenon
  <1>3. CASE l1[p] = <<>> /\ l2[p] # <<>>
    <2>1. Busy(l2) = Busy(l1) \cup {p} /\ p \notin Busy(l1)
      BY <1>3, Zenon DEF Busy
    <2> QED BY <1>1, <1>2, <1>3, <2>1, FS_AddElement, Zenon
  <1>4. CASE l1[p] # <<>> /\ l2[p] = <<>>
    <2>1. Busy(l2) = Busy(l1) \ {p} /\ p \in Busy(l1)
      BY <1>4, Zenon DEF Busy
    <2> QED BY <1>1, <1>2, <1>4, <2>1, FS_RemoveElement, Zenon
  <1>5. CASE (l1[p] = <<>>) <=> (l2[p] = <<>>)
    <2>1. Busy(l2) = Busy(l1)
      BY <1>5, Zenon DEF Busy
    <2> QED BY <1>2, <1>5, <2>1, Zenon
  <1> QED BY <1>3, <1>4, <1>5, Zenon

(* Erase takes out one element and keeps the others.                        *)
LEMMA Erased ==
    ASSUME NEW s \in Seq(Block), NEW b \in Block,
           \E i \in DOMAIN s : s[i] = b,
           \A i, j \in DOMAIN s : s[i] = s[j] => i = j
    PROVE  /\ Erase(s, b) \in Seq(Block)
           /\ Len(Erase(s, b)) = Len(s) - 1
           /\ \A c \in Block : (\E i \in DOMAIN Erase(s, b) : Erase(s, b)[i] = c)
                                 <=> c # b /\ \E i \in DOMAIN s : s[i] = c
           /\ \A i, j \in DOMAIN Erase(s, b) : Erase(s, b)[i] = Erase(s, b)[j] => i = j
  <1> DEFINE k == CHOOSE j \in DOMAIN s : s[j] = b
             e == Erase(s, b)
  <1>1. k \in DOMAIN s /\ s[k] = b
    BY Zenon
  <1>2. DOMAIN s = 1..Len(s) /\ Len(s) \in Nat \ {0} /\ k \in 1..Len(s)
    BY <1>1
  <1>3. e = [j \in 1..(Len(s) - 1) |-> IF j < k THEN s[j] ELSE s[j + 1]]
    BY Zenon DEF Erase
  <1> HIDE DEF k, e
  <1>4. \A j \in 1..(Len(s) - 1) : (IF j < k THEN s[j] ELSE s[j + 1]) \in Block
    BY <1>2
  <1>5. e \in Seq(Block) /\ Len(e) = Len(s) - 1 /\ DOMAIN e = 1..(Len(s) - 1)
    BY <1>2, <1>3, <1>4
  <1>6. ASSUME NEW c \in Block
        PROVE  (\E i \in DOMAIN e : e[i] = c) <=> c # b /\ \E i \in DOMAIN s : s[i] = c
    <2>1. ASSUME NEW i \in DOMAIN e, e[i] = c
          PROVE  c # b /\ \E j \in DOMAIN s : s[j] = c
      <3>1. CASE i < k
        BY <1>1, <1>2, <1>3, <1>5, <2>1, <3>1
      <3>2. CASE ~(i < k)
        <4>1. i + 1 \in DOMAIN s /\ s[i + 1] = c /\ i + 1 # k
          BY <1>2, <1>3, <1>5, <2>1, <3>2
        <4> QED BY <1>1, <4>1, Zenon
      <3> QED BY <3>1, <3>2, Zenon
    <2>2. ASSUME NEW i \in DOMAIN s, s[i] = c, c # b
          PROVE  \E j \in DOMAIN e : e[j] = c
      <3>1. i # k
        BY <1>1, <2>2, Zenon
      <3>2. CASE i < k
        <4>1. i \in DOMAIN e /\ e[i] = c
          BY <1>2, <1>3, <1>5, <2>2, <3>2
        <4> QED BY <4>1, Zenon
      <3>3. CASE ~(i < k)
        <4>1. i - 1 \in DOMAIN e /\ ~(i - 1 < k) /\ (i - 1) + 1 = i
          BY <1>2, <1>5, <2>2, <3>1, <3>3
        <4>2. e[i - 1] = s[i]
          BY <1>3, <1>5, <4>1, Zenon
        <4> QED BY <2>2, <4>1, <4>2, Zenon
      <3> QED BY <3>2, <3>3, Zenon
    <2> QED BY <2>1, <2>2, Zenon
  <1>7. ASSUME NEW i \in DOMAIN e, NEW j \in DOMAIN e, e[i] = e[j]
        PROVE  i = j
    <2> DEFINE at(x) == IF x < k THEN x ELSE x + 1
    <2>1. at(i) \in DOMAIN s /\ at(j) \in DOMAIN s /\ e[i] = s[at(i)] /\ e[j] = s[at(j)]
      BY <1>2, <1>3, <1>5
    <2>2. at(i) = at(j)
      BY <1>7, <2>1, Zenon
    <2> QED BY <1>2, <1>5, <2>2
  <1> QED BY <1>5, <1>6, <1>7, Zenon DEF e

(* What a change to the queue of peer p has to do to the other fields.      *)
Loose ==
    [from : [Block -> Peer \cup {NoPeer}], list : [Peer -> Seq(Block)], count : [Peer -> Nat],
     peers : Int, partial : SUBSET Block, stalling : SUBSET Peer]

Follows(d, e, p) ==
    /\ e \in Loose
    /\ \A q \in Peer \ {p} : e.list[q] = d.list[q] /\ e.count[q] = d.count[q]
    /\ \A q \in Peer \ {p}, b \in Block : e.from[b] = q <=> d.from[b] = q
    /\ \A b \in Block : e.from[b] = p <=> \E i \in DOMAIN e.list[p] : e.list[p][i] = b
    /\ \A i, j \in DOMAIN e.list[p] : e.list[p][i] = e.list[p][j] => i = j
    /\ e.count[p] = Len(e.list[p])
    /\ e.peers = IF d.list[p] = <<>> /\ e.list[p] # <<>> THEN d.peers + 1
                 ELSE IF d.list[p] # <<>> /\ e.list[p] = <<>> THEN d.peers - 1
                 ELSE d.peers
    /\ e.stalling \subseteq d.stalling
    /\ p \in e.stalling => e.list[p] # <<>>

(* The download state is in order after such a change.                      *)
LEMMA StaysSane ==
    ASSUME NEW d, NEW e, NEW p \in Peer, Sane(d), Follows(d, e, p)
    PROVE  Sane(e)
  <1>1. d \in DownloadState /\ e \in Loose
    BY Zenon DEF Sane, Follows
  <1>2. /\ d.list \in [Peer -> Seq(Block)] /\ e.list \in [Peer -> Seq(Block)]
        /\ d.peers \in Nat /\ d.stalling \subseteq Peer
    BY <1>1, Zenon DEF DownloadState, Loose
  <1>3. e.peers = Cardinality(Busy(e.list)) /\ e.peers \in Nat
    <2> DEFINE l1 == d.list
               l2 == e.list
    <2>1. d.peers = Cardinality(Busy(l1))
      BY Zenon DEF Sane, Exact, Busy
    <2>2. l1 \in [Peer -> Seq(Block)] /\ l2 \in [Peer -> Seq(Block)] /\ \A q \in Peer \ {p} : l2[q] = l1[q]
      BY <1>2, Zenon DEF Follows
    <2>3. p \in Peer
      BY Zenon
    <2>4. e.peers = IF l1[p] = <<>> /\ l2[p] # <<>> THEN d.peers + 1
                    ELSE IF l1[p] # <<>> /\ l2[p] = <<>> THEN d.peers - 1
                    ELSE d.peers
      BY Zenon DEF Follows
    <2> HIDE DEF l1, l2
    <2>5. Cardinality(Busy(l2)) =
                IF l1[p] = <<>> /\ l2[p] # <<>> THEN Cardinality(Busy(l1)) + 1
                ELSE IF l1[p] # <<>> /\ l2[p] = <<>> THEN Cardinality(Busy(l1)) - 1
                ELSE Cardinality(Busy(l1))
      BY ONLY <2>2, <2>3, BusyCount, Zenon
    <2>6. Cardinality(Busy(l2)) \in Nat
      BY ONLY <2>2, <2>3, BusyCount, Zenon
    <2>7. e.peers = Cardinality(Busy(l2)) /\ e.peers \in Nat
      BY ONLY <2>1, <2>4, <2>5, <2>6
    <2> QED BY ONLY <2>7, Zenon DEF l2
  <1>4. e \in DownloadState
    BY <1>1, <1>3, Zenon DEF Loose, DownloadState
  <1>5. \A q \in Peer, b \in Block : e.from[b] = q <=> \E i \in DOMAIN e.list[q] : e.list[q][i] = b
    <2> TAKE q \in Peer, b \in Block
    <2>1. CASE q = p
      BY <2>1, Zenon DEF Follows
    <2>2. CASE q # p
      <3>1. d.from[b] = q <=> \E i \in DOMAIN d.list[q] : d.list[q][i] = b
        BY DEF Sane, Exact
      <3>2. e.list[q] = d.list[q] /\ (e.from[b] = q <=> d.from[b] = q)
        BY <2>2, Zenon DEF Follows
      <3> QED BY <3>1, <3>2, Zenon
    <2> QED BY <2>1, <2>2, Zenon
  <1>6. \A q \in Peer : \A i, j \in DOMAIN e.list[q] : e.list[q][i] = e.list[q][j] => i = j
    <2> TAKE q \in Peer
    <2>1. \A i, j \in DOMAIN d.list[q] : d.list[q][i] = d.list[q][j] => i = j
      BY Zenon DEF Sane, Exact
    <2> QED BY <2>1, Zenon DEF Follows
  <1>7. \A q \in Peer : e.count[q] = Len(e.list[q])
    BY Zenon DEF Follows, Sane, Exact
  <1>8. \A q \in e.stalling : e.list[q] # <<>>
    BY <1>2, Zenon DEF Follows, Sane
  <1>9. e.peers = Cardinality({q \in Peer : e.list[q] # <<>>})
    BY <1>3, Zenon DEF Busy
  <1>10. Exact(e)
    BY ONLY <1>5, <1>6, <1>7, <1>9, Zenon DEF Exact
  <1> QED BY ONLY <1>4, <1>8, <1>10, Zenon DEF Sane

(* MarkBlockAsReceived keeps the download state in order, and only the      *)
(* block it is about is no longer in flight.                                *)
LEMMA Received ==
    ASSUME NEW d, Sane(d), NEW b \in Block
    PROVE  LET e == MarkBlockAsReceived(d, b) IN
           /\ Sane(e)
           /\ e.from = [d.from EXCEPT ![b] = NoPeer]
           /\ \A q \in Peer : Len(e.list[q]) <= Len(d.list[q])
  <1>1. d \in DownloadState
    BY Zenon DEF Sane
  <1>2. /\ d.list \in [Peer -> Seq(Block)] /\ d.count \in [Peer -> Nat] /\ d.from \in [Block -> Peer \cup {NoPeer}]
        /\ d.peers \in Nat /\ d.stalling \subseteq Peer /\ d.partial \subseteq Block
    BY <1>1, Zenon DEF DownloadState
  <1>3. CASE d.from[b] = NoPeer
    <2>1. MarkBlockAsReceived(d, b) = d
      BY <1>3, Zenon DEF MarkBlockAsReceived
    <2>2. d.from = [d.from EXCEPT ![b] = NoPeer]
      BY <1>2, <1>3, Zenon
    <2>3. \A q \in Peer : Len(d.list[q]) <= Len(d.list[q])
      BY <1>2
    <2> QED BY <2>1, <2>2, <2>3, Zenon
  <1>4. CASE d.from[b] # NoPeer
    <2> DEFINE p == d.from[b]
               s == Erase(d.list[p], b)
               e == MarkBlockAsReceived(d, b)
               n == IF d.count[p] = 1 THEN d.peers - 1 ELSE d.peers
    <2>1. p \in Peer /\ d.list[p] \in Seq(Block)
      BY <1>2, <1>4, Zenon
    <2>2. \E i \in DOMAIN d.list[p] : d.list[p][i] = b
      BY <2>1 DEF Sane, Exact
    <2>3. \A i, j \in DOMAIN d.list[p] : d.list[p][i] = d.list[p][j] => i = j
      BY <2>1, Zenon DEF Sane, Exact
    <2>4. /\ s \in Seq(Block)
          /\ Len(s) = Len(d.list[p]) - 1
          /\ \A c \in Block : (\E i \in DOMAIN s : s[i] = c)
                                 <=> c # b /\ \E i \in DOMAIN d.list[p] : d.list[p][i] = c
          /\ \A i, j \in DOMAIN s : s[i] = s[j] => i = j
      <3> HIDE DEF p
      <3> QED BY <2>1, <2>2, <2>3, Erased, Zenon
    <2>5. d.count[p] = Len(d.list[p])
      BY <2>1, Zenon DEF Sane, Exact
    <2>6. e = [d EXCEPT !.from[b] = NoPeer, !.list[p] = s, !.count[p] = @ - 1,
                        !.peers = n, !.partial = @ \ {b}, !.stalling = @ \ {p}]
      BY <1>4, Zenon DEF MarkBlockAsReceived
    <2> HIDE DEF s, e, p
    <2>7. e = [from |-> [d.from EXCEPT ![b] = NoPeer], list |-> [d.list EXCEPT ![p] = s],
               count |-> [d.count EXCEPT ![p] = Len(s)], peers |-> n,
               partial |-> d.partial \ {b}, stalling |-> d.stalling \ {p}]
      <3>1. [d.count EXCEPT ![p] = d.count[p] - 1] = [d.count EXCEPT ![p] = Len(s)]
        BY <2>4, <2>5, Zenon
      <3> HIDE DEF n
      <3>2. d = [from |-> d.from, list |-> d.list, count |-> d.count, peers |-> d.peers,
                 partial |-> d.partial, stalling |-> d.stalling]
        BY <1>1, Zenon DEF DownloadState
      <3> QED BY <2>6, <3>1, <3>2, Zenon
    <2>8. \A c \in Block : [d.from EXCEPT ![b] = NoPeer][c] = p <=> \E i \in DOMAIN s : s[i] = c
      <3>1. \A c \in Block : d.from[c] = p <=> \E i \in DOMAIN d.list[p] : d.list[p][i] = c
        BY <2>1, Zenon DEF Sane, Exact
      <3> QED BY <1>2, <2>1, <2>4, <3>1, DownloadAssumption DEF DownloadAssumption
    <2>9. \A c \in Block, q \in Peer \ {p} : [d.from EXCEPT ![b] = NoPeer][c] = q <=> d.from[c] = q
      BY <1>2, DownloadAssumption, Zenon DEF p, DownloadAssumption
    <2>10. /\ d.list[p] # <<>>
           /\ d.count[p] = 1 <=> s = <<>>
      <3>1. Len(d.list[p]) \in Nat \ {0}
        BY <2>1, <2>2
      <3>2. s = <<>> <=> Len(s) = 0
        BY <2>4, EmptySeq, Zenon
      <3>3. d.list[p] # <<>>
        BY <3>1
      <3> QED BY <2>4, <2>5, <3>1, <3>2, <3>3
    <2>11. /\ e.from = [d.from EXCEPT ![b] = NoPeer] /\ e.list = [d.list EXCEPT ![p] = s]
           /\ e.count = [d.count EXCEPT ![p] = Len(s)] /\ e.peers = n
           /\ e.partial = d.partial \ {b} /\ e.stalling = d.stalling \ {p}
      BY <2>7, Zenon
    <2>12. Sane(e)
      <3>1. e \in Loose
        BY <1>2, <2>1, <2>4, <2>7 DEF Loose
      <3>2. e.list[p] = s /\ \A q \in Peer \ {p} : e.list[q] = d.list[q] /\ e.count[q] = d.count[q]
        BY <1>2, <2>1, <2>11, Zenon
      <3>3. e.peers = IF d.list[p] = <<>> /\ e.list[p] # <<>> THEN d.peers + 1
                      ELSE IF d.list[p] # <<>> /\ e.list[p] = <<>> THEN d.peers - 1
                      ELSE d.peers
        BY <2>10, <2>11, <3>2, Zenon
      <3>4. e.count[p] = Len(e.list[p])
        BY <1>2, <2>1, <2>11, <3>2, Zenon
      <3>5. \A q \in Peer \ {p}, c \in Block : e.from[c] = q <=> d.from[c] = q
        BY <2>9, <2>11
      <3>6. \A c \in Block : e.from[c] = p <=> \E i \in DOMAIN e.list[p] : e.list[p][i] = c
        BY <2>8, <2>11, <3>2
      <3>7. \A i, j \in DOMAIN e.list[p] : e.list[p][i] = e.list[p][j] => i = j
        BY <2>4, <3>2, Zenon
      <3>8. e.stalling \subseteq d.stalling /\ p \notin e.stalling
        BY <2>11, Zenon
      <3>9. Follows(d, e, p)
        BY ONLY <3>1, <3>2, <3>3, <3>4, <3>5, <3>6, <3>7, <3>8, Zenon DEF Follows
      <3> QED BY <2>1, <3>9, StaysSane, Zenon
    <2>13. \A q \in Peer : Len(e.list[q]) <= Len(d.list[q])
      BY <1>2, <2>1, <2>4, <2>11
    <2> QED BY <2>11, <2>12, <2>13, Zenon DEF e
  <1> QED BY <1>3, <1>4, Zenon

(* The fields of a download state that is in order.                         *)
LEMMA SaneTypes ==
    ASSUME NEW d, Sane(d)
    PROVE  /\ d.list \in [Peer -> Seq(Block)] /\ d.count \in [Peer -> Nat]
           /\ d.from \in [Block -> Peer \cup {NoPeer}]
           /\ d.peers \in Nat /\ d.stalling \subseteq Peer /\ d.partial \subseteq Block
           /\ d = [from |-> d.from, list |-> d.list, count |-> d.count, peers |-> d.peers,
                   partial |-> d.partial, stalling |-> d.stalling]
           /\ \A p \in Peer : d.count[p] = Len(d.list[p])
  <1>1. d \in DownloadState
    BY Zenon DEF Sane
  <1>2. \A p \in Peer : d.count[p] = Len(d.list[p])
    BY Zenon DEF Sane, Exact
  <1> QED BY <1>1, <1>2, Zenon DEF DownloadState

(* MarkBlockAsInFlight for n blocks that are in flight from nobody.         *)
Extended(d, p, s, n) ==
    [d EXCEPT !.from = [b \in Block |-> IF \E i \in 1..n : s[i] = b THEN p ELSE @[b]],
              !.list[p] = @ \o SubSeq(s, 1, n),
              !.count[p] = @ + n,
              !.peers = IF d.count[p] = 0 /\ n > 0 THEN @ + 1 ELSE @]

(* The start of a sequence at the end of another.                           *)
LEMMA Concatenated ==
    ASSUME NEW l \in Seq(Block), NEW s \in Seq(Block), NEW n \in 0..Len(s)
    PROVE  LET t == l \o SubSeq(s, 1, n) IN
           /\ t \in Seq(Block) /\ Len(t) = Len(l) + n
           /\ \A i \in 1..Len(l) : t[i] = l[i]
           /\ \A i \in (Len(l) + 1)..(Len(l) + n) : t[i] = s[i - Len(l)]
  <1> DEFINE u == SubSeq(s, 1, n)
  <1>1. u \in Seq(Block) /\ Len(u) = n /\ \A i \in 1..n : u[i] = s[i]
    OBVIOUS
  <1> HIDE DEF u
  <1>2. l \o u \in Seq(Block) /\ Len(l \o u) = Len(l) + n
    BY <1>1
  <1>3. \A i \in 1..Len(l) : (l \o u)[i] = l[i]
    BY <1>1
  <1>4. \A i \in (Len(l) + 1)..(Len(l) + n) : (l \o u)[i] = s[i - Len(l)]
    BY <1>1
  <1> QED BY <1>2, <1>3, <1>4, Zenon DEF u

(* Requests keep the download state in order.                               *)
LEMMA RequestsKeep ==
    ASSUME NEW d, Sane(d), NEW p \in Peer, NEW s \in Seq(Block), NEW n \in 0..Len(s),
           \A i, j \in DOMAIN s : s[i] = s[j] => i = j,
           \A i \in DOMAIN s : d.from[s[i]] = NoPeer
    PROVE  LET e == Extended(d, p, s, n) IN
           /\ Sane(e)
           /\ \A b \in Block : e.from[b] = IF \E i \in 1..n : s[i] = b THEN p ELSE d.from[b]
           /\ \A q \in Peer : Len(e.list[q]) = IF q = p THEN Len(d.list[q]) + n ELSE Len(d.list[q])
  <1> DEFINE l == d.list[p]
             t == l \o SubSeq(s, 1, n)
             f == [b \in Block |-> IF \E i \in 1..n : s[i] = b THEN p ELSE d.from[b]]
             m == IF d.count[p] = 0 /\ n > 0 THEN d.peers + 1 ELSE d.peers
             e == Extended(d, p, s, n)
  <1>1. l \in Seq(Block) /\ Len(l) \in Nat /\ n \in Nat /\ DOMAIN l = 1..Len(l) /\ d.count[p] = Len(l)
    BY SaneTypes
  <1>2. /\ t \in Seq(Block) /\ Len(t) = Len(l) + n
        /\ \A i \in 1..Len(l) : t[i] = l[i]
        /\ \A i \in (Len(l) + 1)..(Len(l) + n) : t[i] = s[i - Len(l)]
    <2> HIDE DEF l
    <2> QED BY <1>1, Concatenated, Zenon
  <1>3. e = [from |-> f, list |-> [d.list EXCEPT ![p] = t], count |-> [d.count EXCEPT ![p] = Len(t)],
             peers |-> m, partial |-> d.partial, stalling |-> d.stalling]
    <2>1. [d.count EXCEPT ![p] = d.count[p] + n] = [d.count EXCEPT ![p] = Len(t)]
      BY <1>1, <1>2, Zenon
    <2>2. e = [d EXCEPT !.from = f, !.list[p] = t, !.count[p] = @ + n, !.peers = m]
      BY Zenon DEF Extended
    <2>3. d = [from |-> d.from, list |-> d.list, count |-> d.count, peers |-> d.peers,
               partial |-> d.partial, stalling |-> d.stalling]
      BY SaneTypes, Zenon
    <2> HIDE DEF f, t, m, e
    <2> QED BY ONLY <2>1, <2>2, <2>3, Zenon
  <1>4. f \in [Block -> Peer \cup {NoPeer}] /\ m \in Nat
    BY SaneTypes
  <1>5. \A c \in Block : d.from[c] = p <=> \E i \in 1..Len(l) : l[i] = c
    BY <1>1 DEF Sane, Exact
  <1>6. \A i, j \in 1..Len(l) : l[i] = l[j] => i = j
    BY <1>1 DEF Sane, Exact
  <1>7. \A i \in 1..n : s[i] \in Block /\ d.from[s[i]] # p
    BY DownloadAssumption DEF DownloadAssumption
  <1>8. DOMAIN t = 1..(Len(l) + n)
    <2> HIDE DEF l, t
    <2> QED BY <1>1, <1>2
  <1>9. \A c \in Block : f[c] = p <=> \E i \in DOMAIN t : t[i] = c
    <2> HIDE DEF l, t
    <2> TAKE c \in Block
    <2>1. ASSUME NEW i \in 1..n, s[i] = c
          PROVE  \E j \in DOMAIN t : t[j] = c
      <3>1. Len(l) + i \in (Len(l) + 1)..(Len(l) + n) /\ (Len(l) + i) - Len(l) = i /\ Len(l) + i \in DOMAIN t
        BY <1>1, <1>8
      <3>2. t[Len(l) + i] = s[i]
        BY <1>2, <3>1, Zenon
      <3> QED BY <2>1, <3>1, <3>2, Zenon
    <2>2. ASSUME NEW i \in 1..Len(l), l[i] = c
          PROVE  \E j \in DOMAIN t : t[j] = c
      <3>1. i \in DOMAIN t
        BY <1>1, <1>8
      <3> QED BY <1>2, <2>2, <3>1, Zenon
    <2>3. ASSUME NEW j \in DOMAIN t, t[j] = c
          PROVE  (\E i \in 1..n : s[i] = c) \/ \E i \in 1..Len(l) : l[i] = c
      <3>1. CASE j \in 1..Len(l)
        BY <1>2, <2>3, <3>1, Zenon
      <3>2. CASE j \in (Len(l) + 1)..(Len(l) + n)
        <4>1. j - Len(l) \in 1..n /\ s[j - Len(l)] = c
          BY <1>1, <1>2, <2>3, <3>2
        <4> QED BY <4>1, Zenon
      <3> QED BY <1>1, <1>8, <3>1, <3>2
    <2>4. f[c] = p <=> (\E i \in 1..n : s[i] = c) \/ d.from[c] = p
      BY Zenon
    <2> QED BY <1>5, <2>1, <2>2, <2>3, <2>4, Zenon
  <1>10. \A i, j \in DOMAIN t : t[i] = t[j] => i = j
    <2> HIDE DEF l, t, f, m, e
    <2>1. \A i, j \in 1..n : s[i] = s[j] => i = j
      OBVIOUS
    <2>2. \A i \in 1..Len(l), j \in 1..n : l[i] # s[j]
      BY <1>5, <1>7, Zenon
    <2> SUFFICES ASSUME NEW i \in DOMAIN t, NEW j \in DOMAIN t, t[i] = t[j]
                 PROVE  i = j
      BY Zenon
    <2>3. CASE i \in 1..Len(l) /\ j \in 1..Len(l)
      BY <1>2, <1>6, <2>3, Zenon
    <2>4. CASE i \in 1..Len(l) /\ j \in (Len(l) + 1)..(Len(l) + n)
      <3>1. j - Len(l) \in 1..n
        BY <1>1, <2>4
      <3> QED BY <1>2, <2>2, <2>4, <3>1
    <2>5. CASE j \in 1..Len(l) /\ i \in (Len(l) + 1)..(Len(l) + n)
      <3>1. i - Len(l) \in 1..n
        BY <1>1, <2>5
      <3> QED BY <1>2, <2>2, <2>5, <3>1, Zenon
    <2>6. CASE i \in (Len(l) + 1)..(Len(l) + n) /\ j \in (Len(l) + 1)..(Len(l) + n)
      <3>1. i - Len(l) \in 1..n /\ j - Len(l) \in 1..n
        BY <1>1, <2>6
      <3>2. i - Len(l) = j - Len(l)
        BY <1>2, <2>1, <2>6, <3>1, Zenon
      <3> QED BY <1>1, <2>6, <3>2
    <2> QED BY <1>1, <1>8, <2>3, <2>4, <2>5, <2>6
  <1>11. (l = <<>> <=> Len(l) = 0) /\ (t = <<>> <=> Len(t) = 0)
    <2> HIDE DEF l, t
    <2> QED BY <1>1, <1>2, EmptySeq, Zenon
  <1> HIDE DEF t, f, m, e
  <1>12. /\ e.from = f /\ e.list = [d.list EXCEPT ![p] = t] /\ e.count = [d.count EXCEPT ![p] = Len(t)]
         /\ e.peers = m /\ e.partial = d.partial /\ e.stalling = d.stalling
    BY <1>3, Zenon
  <1>13. Sane(e)
    <2>1. e \in Loose
      BY <1>2, <1>3, <1>4, SaneTypes DEF Loose
    <2>2. e.list[p] = t /\ \A q \in Peer \ {p} : e.list[q] = d.list[q] /\ e.count[q] = d.count[q]
      BY <1>12, SaneTypes
    <2>3. e.peers = IF d.list[p] = <<>> /\ e.list[p] # <<>> THEN d.peers + 1
                    ELSE IF d.list[p] # <<>> /\ e.list[p] = <<>> THEN d.peers - 1
                    ELSE d.peers
      BY <1>1, <1>2, <1>11, <1>12, <2>2 DEF m
    <2>4. e.count[p] = Len(e.list[p])
      BY <1>12, <2>2, SaneTypes
    <2>5. \A q \in Peer \ {p}, c \in Block : e.from[c] = q <=> d.from[c] = q
      BY <1>12, DownloadAssumption DEF f, DownloadAssumption
    <2>6. \A c \in Block : e.from[c] = p <=> \E i \in DOMAIN e.list[p] : e.list[p][i] = c
      BY <1>9, <1>12, <2>2, Zenon
    <2>7. \A i, j \in DOMAIN e.list[p] : e.list[p][i] = e.list[p][j] => i = j
      BY <1>10, <2>2, Zenon
    <2>8. e.stalling \subseteq d.stalling /\ (p \in e.stalling => e.list[p] # <<>>)
      <3>1. p \in d.stalling => l # <<>>
        BY Zenon DEF Sane
      <3> QED BY <1>1, <1>2, <1>11, <1>12, <2>2, <3>1
    <2>9. Follows(d, e, p)
      BY ONLY <2>1, <2>2, <2>3, <2>4, <2>5, <2>6, <2>7, <2>8, Zenon DEF Follows
    <2> QED BY <2>9, StaysSane, Zenon
  <1>14. \A q \in Peer : Len(e.list[q]) = IF q = p THEN Len(d.list[q]) + n ELSE Len(d.list[q])
    BY <1>2, <1>12, SaneTypes
  <1>15. \A b \in Block : e.from[b] = IF \E i \in 1..n : s[i] = b THEN p ELSE d.from[b]
    BY <1>12, Zenon DEF f
  <1> QED BY <1>13, <1>14, <1>15, Zenon DEF e

(* MarkBlockAsInFlight keeps the download state in order, for a block that  *)
(* nobody else was asked for.                                               *)
LEMMA MarkedInFlight ==
    ASSUME NEW d, Sane(d), NEW p \in Peer, NEW b \in Block, d.from[b] \in {NoPeer, p}
    PROVE  LET e == MarkBlockAsInFlight(d, p, b) IN
           /\ Sane(e)
           /\ \A c \in Block : e.from[c] = IF c = b THEN p ELSE d.from[c]
           /\ \A q \in Peer : Len(e.list[q]) = IF q = p /\ d.from[b] = NoPeer
                                              THEN Len(d.list[q]) + 1 ELSE Len(d.list[q])
  <1> DEFINE e == MarkBlockAsInFlight(d, p, b)
  <1>0. NoPeer # p
    BY DownloadAssumption, Zenon DEF DownloadAssumption
  <1>1. CASE d.from[b] = p
    <2>1. e = d
      BY <1>1, Zenon DEF MarkBlockAsInFlight
    <2> HIDE DEF e
    <2> QED BY <1>0, <1>1, <2>1, Zenon DEF e
  <1>2. CASE d.from[b] = NoPeer
    <2> DEFINE s == <<b>>
    <2>1. s \in Seq(Block) /\ Len(s) = 1 /\ DOMAIN s = 1..1 /\ s[1] = b 
      OBVIOUS
    <2>2. e = [d EXCEPT !.from[b] = p, !.list[p] = Append(@, b), !.count[p] = @ + 1,
                        !.peers = IF d.count[p] = 0 THEN @ + 1 ELSE @]
      BY <1>0, <1>2, Zenon DEF MarkBlockAsInFlight, MarkBlockAsReceived
    <2>3. e = Extended(d, p, s, 1)
      <3>1. [d.from EXCEPT ![b] = p] = [c \in Block |-> IF \E i \in 1..1 : s[i] = c THEN p ELSE d.from[c]]
        <4>1. \A c \in Block : (\E i \in 1..1 : s[i] = c) <=> c = b
          BY <2>1
        <4>2. d.from \in [Block -> Peer \cup {NoPeer}]
          BY SaneTypes, Zenon
        <4> HIDE DEF s
        <4> QED BY <4>1, <4>2
      <3>2. Append(d.list[p], b) = d.list[p] \o SubSeq(s, 1, 1)
        <4>1. d.list[p] \in Seq(Block)
          BY SaneTypes, Zenon
        <4>2. SubSeq(s, 1, 1) = <<b>>
          <5>1. SubSeq(s, 1, Len(s)) = s
            BY ONLY <2>1, SubSeqFull, Zenon
          <5> QED BY <2>1, <5>1, Zenon
        <4>3. Append(d.list[p], b) = d.list[p] \o <<b>>
          BY <4>1, AppendIsConcat, Zenon
        <4> QED BY <4>2, <4>3, Zenon
      <3>3. (d.count[p] = 0) = (d.count[p] = 0 /\ 1 > 0)
        OBVIOUS
      <3>4. d = [from |-> d.from, list |-> d.list, count |-> d.count, peers |-> d.peers,
                 partial |-> d.partial, stalling |-> d.stalling]
        BY SaneTypes, Zenon
      <3> HIDE DEF s, e
      <3> DEFINE f == [c \in Block |-> IF \E i \in 1..1 : s[i] = c THEN p ELSE d.from[c]]
                 t == d.list[p] \o SubSeq(s, 1, 1)
                 m == IF d.count[p] = 0 THEN d.peers + 1 ELSE d.peers
      <3>5. e = [d EXCEPT !.from = f, !.list[p] = t, !.count[p] = @ + 1, !.peers = m]
        <4>1. e = [d EXCEPT !.from[b] = p, !.list[p] = Append(@, b), !.count[p] = @ + 1, !.peers = m]
          BY <2>2, Zenon
        <4>2. [d.from EXCEPT ![b] = p] = f /\ Append(d.list[p], b) = t
          BY <3>1, <3>2, Zenon
        <4> HIDE DEF f, t, m
        <4> QED BY ONLY <3>4, <4>1, <4>2, Zenon
      <3>6. Extended(d, p, s, 1) = [d EXCEPT !.from = f, !.list[p] = t, !.count[p] = @ + 1, !.peers = m]
        BY <3>3, Zenon DEF Extended
      <3> QED BY ONLY <3>5, <3>6, Zenon
    <2> HIDE DEF s, e
    <2>4. /\ s \in Seq(Block) /\ 1 \in 0..Len(s)
          /\ \A i, j \in DOMAIN s : s[i] = s[j] => i = j
          /\ \A i \in DOMAIN s : d.from[s[i]] = NoPeer
      BY <1>2, <2>1
    <2>5. /\ Sane(e)
          /\ \A c \in Block : e.from[c] = IF \E i \in 1..1 : s[i] = c THEN p ELSE d.from[c]
          /\ \A q \in Peer : Len(e.list[q]) = IF q = p THEN Len(d.list[q]) + 1 ELSE Len(d.list[q])
      BY <2>3, <2>4, RequestsKeep
    <2> QED BY <1>2, <2>1, <2>5 DEF e
  <1> QED BY <1>1, <1>2, Zenon

(* FinalizeNode keeps the download state in order, and nothing is in flight *)
(* from the peer.                                                           *)
LEMMA ForgottenKeeps ==
    ASSUME Sane(down), NEW p \in Peer
    PROVE  LET e == Forgotten(p) IN
           /\ Sane(e) /\ e.list[p] = <<>>
           /\ \A b \in Block : e.from[b] \in {NoPeer, down.from[b]}
           /\ \A q \in Peer \ {p} : e.list[q] = down.list[q]
  <1> DEFINE e == Forgotten(p)
             f == [b \in Block |-> IF down.from[b] = p THEN NoPeer ELSE down.from[b]]
             m == IF down.count[p] # 0 THEN down.peers - 1 ELSE down.peers
             x == {b \in down.partial : down.from[b] # p}
  <1>1. e = [down EXCEPT !.from = f, !.list[p] = <<>>, !.count[p] = 0, !.peers = m,
                         !.partial = x, !.stalling = @ \ {p}]
    BY Zenon DEF Forgotten
  <1>2. down = [from |-> down.from, list |-> down.list, count |-> down.count, peers |-> down.peers,
                partial |-> down.partial, stalling |-> down.stalling]
    BY SaneTypes, Zenon
  <1>3. f \in [Block -> Peer \cup {NoPeer}] /\ m \in Int /\ x \subseteq Block
    BY SaneTypes
  <1> HIDE DEF e, f, m, x
  <1>4. e = [from |-> f, list |-> [down.list EXCEPT ![p] = <<>>], count |-> [down.count EXCEPT ![p] = 0],
             peers |-> m, partial |-> x, stalling |-> down.stalling \ {p}]
    BY ONLY <1>1, <1>2, Zenon
  <1>5. /\ e.from = f /\ e.list = [down.list EXCEPT ![p] = <<>>] /\ e.count = [down.count EXCEPT ![p] = 0]
        /\ e.peers = m /\ e.partial = x /\ e.stalling = down.stalling \ {p}
    BY <1>4, Zenon
  <1>6. e.list[p] = <<>> /\ \A q \in Peer \ {p} : e.list[q] = down.list[q] /\ e.count[q] = down.count[q]
    BY <1>5, SaneTypes
  <1>7. Sane(e)
    <2>1. e \in Loose
      <3>1. <<>> \in Seq(Block)
        OBVIOUS
      <3> QED BY <1>3, <1>4, <3>1, SaneTypes, Zenon DEF Loose
    <2>2. e.peers = IF down.list[p] = <<>> /\ e.list[p] # <<>> THEN down.peers + 1
                    ELSE IF down.list[p] # <<>> /\ e.list[p] = <<>> THEN down.peers - 1
                    ELSE down.peers
      <3>1. down.count[p] = 0 <=> down.list[p] = <<>>
        <4>1. down.list[p] \in Seq(Block) /\ down.count[p] = Len(down.list[p])
          BY SaneTypes, Zenon
        <4> QED BY <4>1, EmptySeq, Zenon
      <3> QED BY <1>5, <1>6, <3>1, Zenon DEF m
    <2>3. e.count[p] = Len(e.list[p])
      BY <1>5, <1>6, SaneTypes
    <2>4. \A q \in Peer \ {p}, c \in Block : e.from[c] = q <=> down.from[c] = q
      BY <1>5, DownloadAssumption DEF f, DownloadAssumption
    <2>5. \A c \in Block : e.from[c] = p <=> \E i \in DOMAIN e.list[p] : e.list[p][i] = c
      BY <1>5, <1>6, DownloadAssumption DEF f, DownloadAssumption
    <2>6. \A i, j \in DOMAIN e.list[p] : e.list[p][i] = e.list[p][j] => i = j
      BY <1>6
    <2>7. e.stalling \subseteq down.stalling /\ p \notin e.stalling
      BY <1>5, Zenon
    <2>8. Follows(down, e, p)
      BY ONLY <1>6, <2>1, <2>2, <2>3, <2>4, <2>5, <2>6, <2>7, Zenon DEF Follows
    <2> QED BY <2>8, StaysSane, Zenon
  <1>8. \A b \in Block : e.from[b] \in {NoPeer, down.from[b]}
    BY <1>5, Zenon DEF f
  <1> QED BY <1>6, <1>7, <1>8, Zenon DEF e

-----------------------------------------------------------------------------
Status == {"none", "header", "transactions", "failed", "invalid"}

Types ==
    /\ status \in [Block -> Status]
    /\ conn \in [Peer -> {"none", "up", "closing"}]
    /\ best \in [Peer -> Block \cup {NoBlock}]
    /\ mapBlocksWait \in [Block -> Block \cup {NoBlock}]
    /\ handler \in [at : {"idle", "loop", "process", "mark"}, peer : Peer \cup {NoPeer},
                    block : Block \cup {NoBlock}, own : Block \cup {NoBlock}, forced : BOOLEAN,
                    next : {"idle", "loop", "mark"}]

(* Nothing is in flight from a peer that is not connected.                  *)
Closed == \A p \in Peer : conn[p] = "none" => down.list[p] = <<>>

(* What ProcessNewBlock is called with.                                     *)
Processing ==
    /\ handler.at \in {"process", "mark"} => handler.block \in Block
    /\ handler.at = "process" /\ handler.next # "mark" => ~InFlight(handler.block)

(* The inductive invariant.                                                 *)
IInv == Types /\ Sane(down) /\ Closed /\ TransitLimit /\ StoredNotInFlight /\ Processing

(* A failure mark stores no block.                                          *)
LEMMA FailedStoresNothing ==
    ASSUME NEW s \in [Block -> Status], NEW blocks
    PROVE  /\ WithFailed(s, blocks) \in [Block -> Status]
           /\ \A c \in Block : WithFailed(s, blocks)[c] = "transactions" => s[c] = "transactions"
  BY Zenon DEF WithFailed, Status

(* Neither does AcceptBlockHeader.                                          *)
LEMMA HeaderStoresNothing ==
    ASSUME Types, NEW b \in Block
    PROVE  /\ AcceptBlockHeader(b) \in [Block -> Status]
           /\ \A c \in Block : AcceptBlockHeader(b)[c] = "transactions" => status[c] = "transactions"
  <1>1. status \in [Block -> Status]
    BY Zenon DEF Types
  <1>2. [status EXCEPT ![b] = "header"] \in [Block -> Status]
    BY <1>1, Zenon DEF Status
  <1>3. \A c \in Block : [status EXCEPT ![b] = "header"][c] = "transactions" => status[c] = "transactions"
    BY <1>1, Zenon
  <1>4. CASE status[b] # "none" \/ Failed(Parent[b])
    BY <1>1, <1>4, Zenon DEF AcceptBlockHeader
  <1>5. CASE ~(status[b] # "none" \/ Failed(Parent[b])) /\ Doomed(Parent[b]) # {}
    BY <1>1, <1>5, FailedStoresNothing, Zenon DEF AcceptBlockHeader
  <1>6. CASE ~(status[b] # "none" \/ Failed(Parent[b])) /\ ~(Doomed(Parent[b]) # {})
    BY <1>2, <1>3, <1>6, Zenon DEF AcceptBlockHeader
  <1> QED BY <1>4, <1>5, <1>6, Zenon

(* AcceptBlock and ActivateBestChain store at most the block they are given.*)
LEMMA OnlyStores ==
    ASSUME Types, NEW b \in Block, NEW forced, NEW out \in Outcome(b, forced), ActivateBestChain(out, b)
    PROVE  /\ status' \in [Block -> Status]
           /\ \A c \in Block \ {b} : status'[c] = "transactions" => status[c] = "transactions"
  <1> DEFINE known == AcceptBlockHeader(b)
             a == AcceptBlock(b, forced)
             refused == [status EXCEPT ![b] = "failed"]
             stored == [status EXCEPT ![b] = "transactions"]
  <1>1. status \in [Block -> Status]
    BY Zenon DEF Types
  <1>2. /\ known \in [Block -> Status]
        /\ \A c \in Block \ {b} : known[c] = "transactions" => status[c] = "transactions"
    BY HeaderStoresNothing, Zenon
  <1>3. /\ refused \in [Block -> Status] /\ stored \in [Block -> Status]
        /\ \A c \in Block \ {b} : refused[c] = status[c] /\ stored[c] = status[c]
    BY <1>1, Zenon DEF Status
  <1>4. a.status \in {known, refused, stored}
    <2> HIDE DEF known, refused, stored
    <2> QED BY Zenon DEF AcceptBlock, known, refused, stored
  <1>5. out.status \in {known, refused, stored, status}
    <2>1. CASE out = a
      BY <1>4, <2>1, Zenon
    <2>2. CASE out = [ok |-> FALSE, status |-> status]
      <3>1. out.status = status
        BY <2>2, Zenon
      <3> QED BY <3>1, Zenon
    <2> HIDE DEF known, refused, stored
    <2> QED BY <2>1, <2>2, Zenon DEF Outcome
  <1> HIDE DEF known, refused, stored
  <1>6. /\ out.status \in [Block -> Status]
        /\ \A c \in Block \ {b} : out.status[c] = "transactions" => status[c] = "transactions"
    BY <1>1, <1>2, <1>3, <1>5, Zenon
  <1>7. PICK bad : status' \in {out.status, WithFailed(out.status, bad)}
    BY Zenon DEF ActivateBestChain
  <1>8. /\ WithFailed(out.status, bad) \in [Block -> Status]
        /\ \A c \in Block : WithFailed(out.status, bad)[c] = "transactions" => out.status[c] = "transactions"
    BY <1>6, FailedStoresNothing, Zenon
  <1> QED BY <1>6, <1>7, <1>8, Zenon

(* A sequence of Ascending has no block twice.                              *)
LEMMA AscendingDistinct ==
    ASSUME NEW B \in SUBSET Block, NEW s \in Ascending(B)
    PROVE  /\ s \in Seq(Block)
           /\ \A i \in DOMAIN s : s[i] \in B
           /\ \A i, j \in DOMAIN s : s[i] = s[j] => i = j
  <1>1. IsFiniteSet(B)
    BY FS_Subset, TreeAssumption, Zenon DEF TreeAssumption
  <1>2. Cardinality(B) \in Nat
    BY <1>1, FS_CardinalityType, Zenon
  <1>3. s \in [1..Cardinality(B) -> B] /\ \A i, j \in DOMAIN s : i < j => Height[s[i]] < Height[s[j]]
    BY Zenon DEF Ascending
  <1>4. s \in Seq(Block)
    BY <1>2, <1>3
  <1>5. ASSUME NEW i \in DOMAIN s, NEW j \in DOMAIN s, s[i] = s[j]
        PROVE  i = j
    <2>1. i \in Int /\ j \in Int /\ Height[s[i]] \in Nat /\ Height[s[j]] \in Nat
      <3>1. DOMAIN s = 1..Cardinality(B) /\ s[i] \in Block /\ s[j] \in Block
        BY <1>3, Zenon
      <3>2. Height \in [Block -> Nat]
        BY TreeAssumption, Zenon DEF TreeAssumption
      <3> QED BY <1>2, <3>1, <3>2
    <2>2. ~(i < j) /\ ~(j < i)
      BY <1>3, <1>5, <2>1
    <2> QED BY <2>1, <2>2
  <1> QED BY <1>3, <1>4, <1>5, Zenon

(* A getdata message for blocks that are not in flight.                     *)
LEMMA RequestStep ==
    ASSUME Sane(down), TransitLimit, NEW p \in Peer, NEW B \in SUBSET Block,
           \A b \in B : ~InFlight(b), NEW s \in Ascending(B), Request(p, s)
    PROVE  /\ Sane(down') /\ TransitLimit'
           /\ \A b \in Block : InFlight(b)' => InFlight(b) \/ b \in B
           /\ \A q \in Peer \ {p} : down.list[q] = <<>> => down'.list[q] = <<>>
  <1> DEFINE n == Requested(p, s)
             e == Extended(down, p, s, n)
  <1>1. /\ s \in Seq(Block) /\ Len(s) \in Nat
        /\ \A i \in DOMAIN s : s[i] \in B
        /\ \A i, j \in DOMAIN s : s[i] = s[j] => i = j
    BY AscendingDistinct
  <1>2. down.count[p] \in Nat /\ down.count[p] = Len(down.list[p]) /\ down.count[p] <= MaxInTransit
    BY SaneTypes, Zenon DEF TransitLimit
  <1>3. n \in 0..Len(s) /\ down.count[p] + n <= MaxInTransit
    <2> DEFINE k == down.count[p]
               len == Len(s)
    <2>1. k \in Nat /\ len \in Nat /\ k <= MaxInTransit /\ MaxInTransit \in Nat
      BY <1>1, <1>2, DownloadAssumption, Zenon DEF DownloadAssumption
    <2>2. n = IF len <= MaxInTransit - k THEN len ELSE MaxInTransit - k
      BY Zenon DEF Requested
    <2> HIDE DEF n, k, len
    <2>3. n \in 0..len /\ k + n <= MaxInTransit
      BY ONLY <2>1, <2>2
    <2> QED BY ONLY <2>3, Zenon DEF k, len
  <1>4. down' = e
    BY Zenon DEF Request, Extended
  <1>5. \A i \in DOMAIN s : down.from[s[i]] = NoPeer
    BY <1>1, Zenon DEF InFlight
  <1> HIDE DEF n
  <1>6. /\ Sane(e)
        /\ \A b \in Block : e.from[b] = IF \E i \in 1..n : s[i] = b THEN p ELSE down.from[b]
        /\ \A q \in Peer : Len(e.list[q]) = IF q = p THEN Len(down.list[q]) + n ELSE Len(down.list[q])
    <2> DEFINE d == down
    <2>1. /\ Sane(d) /\ p \in Peer /\ s \in Seq(Block) /\ n \in 0..Len(s)
          /\ \A i, j \in DOMAIN s : s[i] = s[j] => i = j
          /\ \A i \in DOMAIN s : d.from[s[i]] = NoPeer
      BY <1>1, <1>3, <1>5, Zenon
    <2> HIDE DEF d
    <2>2. /\ Sane(Extended(d, p, s, n))
          /\ \A b \in Block : Extended(d, p, s, n).from[b] = IF \E i \in 1..n : s[i] = b THEN p ELSE d.from[b]
          /\ \A q \in Peer : Len(Extended(d, p, s, n).list[q]) = IF q = p THEN Len(d.list[q]) + n ELSE Len(d.list[q])
      BY ONLY <2>1, RequestsKeep
    <2> QED BY ONLY <2>2, Zenon DEF d
  <1> HIDE DEF e
  <1>7. \A q \in Peer : Len(e.list[q]) <= MaxInTransit
    BY <1>2, <1>3, <1>6, Zenon DEF TransitLimit
  <1>8. \A b \in Block : e.from[b] # NoPeer => InFlight(b) \/ b \in B
    BY <1>1, <1>3, <1>6 DEF InFlight
  <1>9. \A q \in Peer \ {p} : down.list[q] = <<>> => e.list[q] = <<>>
    <2> TAKE q \in Peer \ {p}
    <2>1. Len(e.list[q]) = Len(down.list[q]) /\ e.list[q] \in Seq(Block) /\ down.list[q] \in Seq(Block)
      BY <1>6, SaneTypes
    <2> QED BY <2>1, EmptySeq, Zenon
  <1> QED BY <1>4, <1>6, <1>7, <1>8, <1>9, Zenon DEF TransitLimit, InFlight

(* MarkBlockAsReceived as a step.                                           *)
LEMMA ReceivedStep ==
    ASSUME Sane(down), TransitLimit, NEW b \in Block, down' = MarkBlockAsReceived(down, b)
    PROVE  /\ Sane(down') /\ TransitLimit'
           /\ \A c \in Block : InFlight(c)' <=> InFlight(c) /\ c # b
           /\ \A q \in Peer : down.list[q] = <<>> => down'.list[q] = <<>>
  <1> DEFINE e == MarkBlockAsReceived(down, b)
  <1>1. /\ Sane(e)
        /\ e.from = [down.from EXCEPT ![b] = NoPeer]
        /\ \A q \in Peer : Len(e.list[q]) <= Len(down.list[q])
    BY Received, Zenon
  <1> HIDE DEF e
  <1>2. \A q \in Peer : Len(e.list[q]) <= MaxInTransit
    <2> TAKE q \in Peer
    <2>1. Len(e.list[q]) \in Nat /\ Len(down.list[q]) \in Nat
      BY <1>1, SaneTypes
    <2> QED BY <1>1, <2>1, DownloadAssumption DEF TransitLimit, DownloadAssumption
  <1>3. \A c \in Block : e.from[c] # NoPeer <=> down.from[c] # NoPeer /\ c # b
    BY <1>1, SaneTypes
  <1>4. \A q \in Peer : down.list[q] = <<>> => e.list[q] = <<>>
    <2> TAKE q \in Peer
    <2>1. Len(e.list[q]) <= Len(down.list[q]) /\ e.list[q] \in Seq(Block) /\ down.list[q] \in Seq(Block)
      BY <1>1, SaneTypes, Zenon
    <2> QED BY <2>1, EmptySeq
  <1> QED BY <1>1, <1>2, <1>3, <1>4, Zenon DEF TransitLimit, InFlight, e

(* A node without peers: nothing is in flight.                              *)
LEMMA InitInvariant == Init => IInv
  <1> SUFFICES ASSUME Init PROVE IInv
    BY Zenon
  <1>1. Types
    BY TreeAssumption, Zenon DEF Init, Types, Status, Idle, TreeAssumption
  <1>2. /\ down.from = [b \in Block |-> NoPeer] /\ down.list = [p \in Peer |-> <<>>]
        /\ down.count = [p \in Peer |-> 0] /\ down.peers = 0 /\ down.partial = {} /\ down.stalling = {}
    BY Zenon DEF Init
  <1>3. down \in DownloadState
    <2>1. <<>> \in Seq(Block)
      OBVIOUS
    <2> QED BY <2>1, Zenon DEF Init, DownloadState
  <1>4. {p \in Peer : down.list[p] # <<>>} = {}
    BY <1>2, Zenon
  <1>5. Exact(down)
    <2>1. \A p \in Peer : down.list[p] = <<>> /\ down.count[p] = Len(down.list[p])
      BY <1>2
    <2>2. \A p \in Peer, b \in Block : down.from[b] # p
      BY <1>2, DownloadAssumption, Zenon DEF DownloadAssumption
    <2>3. \A p \in Peer : DOMAIN down.list[p] = {}
      BY <2>1
    <2>4. down.peers = Cardinality({p \in Peer : down.list[p] # <<>>})
      BY <1>2, <1>4, FS_EmptySet, Zenon
    <2> QED BY <2>1, <2>2, <2>3, <2>4, Zenon DEF Exact
  <1>6. Sane(down)
    BY <1>2, <1>3, <1>5, Zenon DEF Sane
  <1>7. Closed /\ TransitLimit
    BY <1>2, DownloadAssumption DEF Closed, TransitLimit, DownloadAssumption
  <1>8. StoredNotInFlight /\ Processing
    BY <1>2, Zenon DEF StoredNotInFlight, Processing, InFlight, Init, Idle
  <1> QED BY <1>1, <1>6, <1>7, <1>8, Zenon DEF IInv

-----------------------------------------------------------------------------
(* A peer connects or hangs up: its downloads are not touched yet.          *)
LEMMA ConnectionPreserves ==
    ASSUME IInv, NEW p \in Peer, InitializeNode(p) \/ Disconnect(p)
    PROVE  IInv'
  <1>1. /\ UNCHANGED <<status, down, mapBlocksWait, handler>>
        /\ best' \in {best, [best EXCEPT ![p] = NoBlock]}
        /\ \E c \in {"up", "closing"} : conn' = [conn EXCEPT ![p] = c]
    BY Zenon DEF InitializeNode, Disconnect
  <1>2. best' \in [Peer -> Block \cup {NoBlock}] /\ conn' \in [Peer -> {"none", "up", "closing"}]
    <2>1. best \in [Peer -> Block \cup {NoBlock}] /\ conn \in [Peer -> {"none", "up", "closing"}]
      BY Zenon DEF IInv, Types
    <2>2. best' \in [Peer -> Block \cup {NoBlock}]
      BY <1>1, <2>1
    <2>3. conn' \in [Peer -> {"none", "up", "closing"}]
      BY <1>1, <2>1
    <2> QED BY <2>2, <2>3
  <1>a. Types'
    BY <1>1, <1>2, Zenon DEF IInv, Types
  <1>b. Closed'
    BY <1>1 DEF IInv, Types, Closed
  <1>3. Sane(down)' /\ TransitLimit' /\ StoredNotInFlight' /\ Processing'
    BY <1>1, Zenon DEF IInv, TransitLimit, StoredNotInFlight, Processing, InFlight
  <1> QED BY <1>a, <1>b, <1>3, Zenon DEF IInv

(* FinalizeNode forgets the requests of its peer and no others, so the      *)
(* counters go to zero with the last peer.                                  *)
LEMMA FinalizeNodePreserves ==
    ASSUME IInv, NEW p \in Peer, FinalizeNode(p)
    PROVE  IInv'
  <1>1. /\ down' = Forgotten(p) /\ conn' = [conn EXCEPT ![p] = "none"] /\ best' = best
        /\ status' = status /\ mapBlocksWait' = mapBlocksWait /\ handler' = handler
    BY Zenon DEF FinalizeNode
  <1>2. Types'
    BY <1>1, Zenon DEF IInv, Types
  <1>3. /\ Sane(down') /\ down'.list[p] = <<>>
        /\ \A b \in Block : down'.from[b] \in {NoPeer, down.from[b]}
        /\ \A q \in Peer \ {p} : down'.list[q] = down.list[q]
    BY <1>1, ForgottenKeeps, Zenon DEF IInv
  <1>4. Closed'
    BY <1>1, <1>3 DEF IInv, Types, Closed
  <1>5. TransitLimit'
    <2>1. Len(<<>>) = 0 /\ 0 <= MaxInTransit
      BY DownloadAssumption DEF DownloadAssumption
    <2> QED BY <1>3, <2>1, Zenon DEF IInv, TransitLimit
  <1>6. StoredNotInFlight' /\ Processing'
    <2>1. \A b \in Block : InFlight(b)' => InFlight(b)
      BY <1>3, Zenon DEF InFlight
    <2> QED BY <1>1, <2>1, Zenon DEF IInv, StoredNotInFlight, Processing
  <1> QED BY <1>2, <1>3, <1>4, <1>5, <1>6, Zenon DEF IInv

(* Requests of an idle handler for blocks that are neither stored nor in    *)
(* flight.                                                                  *)
LEMMA RequestPreserves ==
    ASSUME IInv, NEW p \in Peer, Ready(p), NEW B \in SUBSET Block,
           \A b \in B : ~InFlight(b) /\ status[b] # "transactions",
           NEW s \in Ascending(B), Request(p, s),
           \A b \in Block : status'[b] = "transactions" => status[b] = "transactions",
           conn' = conn, handler' = handler
    PROVE  (Sane(down) /\ Closed /\ TransitLimit /\ StoredNotInFlight /\ Processing)'
  <1>1. /\ Sane(down') /\ TransitLimit'
        /\ \A b \in Block : InFlight(b)' => InFlight(b) \/ b \in B
        /\ \A q \in Peer \ {p} : down.list[q] = <<>> => down'.list[q] = <<>>
    BY RequestStep, Zenon DEF IInv
  <1>2. handler.at = "idle" /\ conn[p] = "up"
    BY Zenon DEF Ready, Idle
  <1>3. Closed'
    BY <1>1, <1>2, Zenon DEF IInv, Closed
  <1>4. StoredNotInFlight' /\ Processing'
    <2>1. \A b \in Block \ Local : status[b] = "transactions" => ~InFlight(b)
      BY <1>2, Zenon DEF IInv, StoredNotInFlight
    <2>2. \A b \in Block \ Local : status'[b] = "transactions" => ~InFlight(b)'
      BY <1>1, <2>1, Zenon
    <2> QED BY <1>2, <2>2, Zenon DEF StoredNotInFlight, Processing
  <1> QED BY <1>1, <1>3, <1>4, Zenon

(* The same when nothing is requested.                                      *)
LEMMA IdlePreserves ==
    ASSUME IInv, NEW p \in Peer, Ready(p), down' = down,
           \A b \in Block : status'[b] = "transactions" => status[b] = "transactions",
           conn' = conn, handler' = handler
    PROVE  (Sane(down) /\ Closed /\ TransitLimit /\ StoredNotInFlight /\ Processing)'
  BY Zenon DEF IInv, Closed, TransitLimit, StoredNotInFlight, Processing, InFlight

(* ProcessHeadersMessage: a direct fetch asks only for blocks that are      *)
(* neither stored nor in flight, as far as the peer has room.               *)
LEMMA AcceptHeadersPreserves ==
    ASSUME IInv, NEW p \in Peer, NEW b \in Block, Ready(p), AcceptHeaders(p, b)
    PROVE  IInv'
  <1>1. /\ status' = Headers(b) /\ best' = Availability(p, b)
        /\ conn' = conn /\ mapBlocksWait' = mapBlocksWait /\ handler' = handler
    BY Zenon DEF AcceptHeaders
  <1>2. Types'
    BY <1>1, Zenon DEF IInv, Types, Status, Headers, Availability
  <1>3. \A c \in Block : status'[c] = "transactions" => status[c] = "transactions"
    BY <1>1, Zenon DEF Headers
  <1>4. CASE down' = down
    BY <1>1, <1>2, <1>3, <1>4, IdlePreserves, Zenon DEF IInv
  <1>5. CASE \E blocks \in Ascending(Missing(b)) : Request(p, blocks)
    <2>1. PICK blocks \in Ascending(Missing(b)) : Request(p, blocks)
      BY <1>5, Zenon
    <2>2. Missing(b) \in SUBSET Block /\ \A c \in Missing(b) : ~InFlight(c) /\ status[c] # "transactions"
      BY TreeAssumption, Zenon DEF Missing, HaveData, TreeAssumption
    <2>3. (Sane(down) /\ Closed /\ TransitLimit /\ StoredNotInFlight /\ Processing)'
      BY <1>1, <1>3, <2>1, <2>2, RequestPreserves, Zenon
    <2> QED BY <1>2, <2>3, Zenon DEF IInv
  <1> QED BY <1>4, <1>5, Zenon DEF AcceptHeaders

(* SendMessages asks for free blocks within the window, or blames the peer  *)
(* that has the lowest one.                                                 *)
LEMMA SendMessagesPreserves ==
    ASSUME IInv, NEW p \in Peer, SendMessages(p)
    PROVE  IInv'
  <1>1. /\ Ready(p) /\ Interesting(p)
        /\ UNCHANGED <<status, conn, best, mapBlocksWait, handler>>
    BY Zenon DEF SendMessages
  <1>2. Types'
    BY <1>1, Zenon DEF IInv, Types
  <1>3. best[p] \in Block
    BY <1>1, Zenon DEF IInv, Types, Interesting
  <1> DEFINE last == LastCommon(p)
  <1> HIDE DEF last
  <1>4. CASE down' = [down EXCEPT !.stalling = @ \cup Staller(p, last)]
    <2>1. down = [from |-> down.from, list |-> down.list, count |-> down.count, peers |-> down.peers,
                  partial |-> down.partial, stalling |-> down.stalling]
      BY SaneTypes, Zenon DEF IInv
    <2>2. down' = [from |-> down.from, list |-> down.list, count |-> down.count, peers |-> down.peers,
                   partial |-> down.partial, stalling |-> down.stalling \cup Staller(p, last)]
      BY ONLY <1>4, <2>1, Zenon
    <2>3. /\ down'.from = down.from /\ down'.list = down.list /\ down'.count = down.count
          /\ down'.peers = down.peers /\ down'.stalling = down.stalling \cup Staller(p, last)
      BY ONLY <2>2, Zenon
    <2>4. \A q \in Staller(p, last) : q \in Peer /\ down.list[q] # <<>>
      <3> SUFFICES ASSUME NEW q \in Staller(p, last)
                   PROVE  q \in Peer /\ down.list[q] # <<>>
        BY Zenon
      <3>1. q \in Peer /\ \E b \in Walk(p, last) : down.from[b] = q
        BY Zenon DEF Staller
      <3>2. Walk(p, last) \subseteq Block
        BY <1>3, TreeAssumption, Zenon DEF Walk, TreeAssumption
      <3>3. PICK b \in Block : down.from[b] = q
        BY <3>1, <3>2, Zenon
      <3>4. \E i \in DOMAIN down.list[q] : down.list[q][i] = b
        BY <3>1, <3>3 DEF IInv, Sane, Exact
      <3> QED BY <3>1, <3>4
    <2>5. Sane(down')
      <3>1. down' \in DownloadState
        <4>1. Staller(p, last) \subseteq Peer
          BY <2>4, Zenon
        <4> QED BY <2>2, <4>1, SaneTypes, Zenon DEF DownloadState, IInv
      <3>2. Exact(down')
        <4>1. Exact(down)
          BY Zenon DEF IInv, Sane
        <4> QED BY ONLY <2>3, <4>1 DEF Exact
      <3>3. \A q \in down'.stalling : down'.list[q] # <<>>
        BY <2>3, <2>4, Zenon DEF IInv, Sane
      <3> QED BY <3>1, <3>2, <3>3, Zenon DEF Sane
    <2>6. Closed' /\ TransitLimit' /\ StoredNotInFlight' /\ Processing'
      BY <1>1, <2>3, Zenon DEF IInv, Closed, TransitLimit, StoredNotInFlight, Processing, InFlight
    <2> QED BY <1>2, <2>5, <2>6, Zenon DEF IInv
  <1>5. CASE \E blocks \in Ascending(ToDownload(p, last)) : Request(p, blocks)
    <2>1. PICK blocks \in Ascending(ToDownload(p, last)) : Request(p, blocks)
      BY <1>5, Zenon
    <2>2. /\ ToDownload(p, last) \in SUBSET Block
          /\ \A c \in ToDownload(p, last) : ~InFlight(c) /\ status[c] # "transactions"
      BY <1>3, TreeAssumption, Zenon DEF ToDownload, Free, Walk, HaveData, TreeAssumption
    <2>3. (Sane(down) /\ Closed /\ TransitLimit /\ StoredNotInFlight /\ Processing)'
      BY <1>1, <2>1, <2>2, RequestPreserves, Zenon
    <2> QED BY <1>2, <2>3, Zenon DEF IInv
  <1> QED BY <1>4, <1>5, Zenon DEF SendMessages, last

(* A BLOCK message files its block; the request stands until the block is   *)
(* taken out of mapBlocksWait.                                              *)
LEMMA BlockMessagePreserves ==
    ASSUME IInv, NEW p \in Peer, NEW b \in Block, BlockMessage(p, b)
    PROVE  IInv'
  <1>1. /\ Ready(p) /\ b # Genesis
        /\ mapBlocksWait' = [mapBlocksWait EXCEPT ![Parent[b]] = b]
        /\ handler' = [at |-> "loop", peer |-> p, block |-> NoBlock, own |-> b, forced |-> FALSE, next |-> "idle"]
        /\ status' = status /\ down' = down /\ conn' = conn /\ best' = best
    BY Zenon DEF BlockMessage, Welcome
  <1>2. Parent[b] \in Block
    BY <1>1, TreeAssumption, Zenon DEF TreeAssumption
  <1>3. Types'
    BY <1>1, <1>2, Zenon DEF IInv, Types
  <1>4. Sane(down)' /\ Closed' /\ TransitLimit'
    BY <1>1, Zenon DEF IInv, Closed, TransitLimit
  <1>5. StoredNotInFlight' /\ Processing'
    BY <1>1, Zenon DEF IInv, StoredNotInFlight, Processing, InFlight, Ready, Idle
  <1> QED BY <1>3, <1>4, <1>5, Zenon DEF IInv

(* A waiting block leaves mapBlocksWait and is no longer in flight.         *)
LEMMA SelectPreserves ==
    ASSUME IInv, NEW prev \in Waiting, handler.at = "loop", Select(prev)
    PROVE  IInv'
  <1> DEFINE b == mapBlocksWait[prev]
  <1>1. prev \in Block /\ b \in Block
    BY Zenon DEF Waiting, IInv, Types
  <1>2. /\ mapBlocksWait' = [mapBlocksWait EXCEPT ![prev] = NoBlock]
        /\ down' = MarkBlockAsReceived(down, b)
        /\ handler' = [handler EXCEPT !.at = "process", !.block = b, !.forced = InFlight(b), !.next = "loop"]
        /\ status' = status /\ conn' = conn /\ best' = best
    BY Zenon DEF Select
  <1> HIDE DEF b
  <1>3. /\ Sane(down') /\ TransitLimit'
        /\ \A c \in Block : InFlight(c)' <=> InFlight(c) /\ c # b
        /\ \A q \in Peer : down.list[q] = <<>> => down'.list[q] = <<>>
    BY <1>1, <1>2, ReceivedStep, Zenon DEF IInv
  <1>4. InFlight(b) \in BOOLEAN
    BY Zenon DEF InFlight
  <1>5. handler'.at = "process" /\ handler'.block = b /\ handler'.next = "loop"
    BY <1>2, Zenon DEF IInv, Types
  <1>6. Types'
    <2>1. handler' \in [at : {"idle", "loop", "process", "mark"}, peer : Peer \cup {NoPeer},
                        block : Block \cup {NoBlock}, own : Block \cup {NoBlock}, forced : BOOLEAN, next : {"idle", "loop", "mark"}]
      BY <1>1, <1>2, <1>4, Zenon DEF IInv, Types
    <2> QED BY <1>1, <1>2, <2>1, Zenon DEF IInv, Types
  <1>7. Closed'
    BY <1>2, <1>3, Zenon DEF IInv, Closed
  <1>8. StoredNotInFlight' /\ Processing'
    <2>1. \A c \in Block \ Local : status[c] = "transactions" => ~InFlight(c)
      BY Zenon DEF IInv, StoredNotInFlight
    <2> QED BY <1>1, <1>2, <1>3, <1>5, <2>1, Zenon DEF StoredNotInFlight, Processing
  <1> QED BY <1>3, <1>6, <1>7, <1>8, Zenon DEF IInv

(* A waiting block that is dropped is no longer in flight.                  *)
LEMMA DropWaitingPreserves ==
    ASSUME IInv, NEW prev \in Block, DropWaiting(prev)
    PROVE  IInv'
  <1> DEFINE b == mapBlocksWait[prev]
  <1>1. b \in Block
    BY Zenon DEF DropWaiting, Waiting, IInv, Types
  <1>2. /\ mapBlocksWait' = [mapBlocksWait EXCEPT ![prev] = NoBlock]
        /\ down' = MarkBlockAsReceived(down, b)
        /\ status' = status /\ conn' = conn /\ best' = best /\ handler' = handler
    BY Zenon DEF DropWaiting
  <1> HIDE DEF b
  <1>3. /\ Sane(down') /\ TransitLimit'
        /\ \A c \in Block : InFlight(c)' <=> InFlight(c) /\ c # b
        /\ \A q \in Peer : down.list[q] = <<>> => down'.list[q] = <<>>
    BY <1>1, <1>2, ReceivedStep, Zenon DEF IInv
  <1>4. Types' /\ Closed'
    BY <1>2, <1>3, Zenon DEF IInv, Types, Closed
  <1>5. StoredNotInFlight' /\ Processing'
    BY <1>2, <1>3, Zenon DEF IInv, StoredNotInFlight, Processing
  <1> QED BY <1>3, <1>4, <1>5, Zenon DEF IInv

(* The loop over the waiting blocks ends.                                   *)
LEMMA LoopEndsPreserves ==
    ASSUME IInv, LoopEnds
    PROVE  IInv'
  <1>1. handler.at = "loop" /\ handler' = Idle /\ UNCHANGED <<status, down, conn, best, mapBlocksWait>>
    BY Zenon DEF LoopEnds
  <1>2. Types'
    BY <1>1, Zenon DEF IInv, Types, Idle
  <1>3. Sane(down)' /\ Closed' /\ TransitLimit'
    BY <1>1, Zenon DEF IInv, Closed, TransitLimit
  <1>4. StoredNotInFlight' /\ Processing'
    BY <1>1, Zenon DEF IInv, StoredNotInFlight, Processing, InFlight, Idle
  <1> QED BY <1>2, <1>3, <1>4, Zenon DEF IInv

(* ProcessNewBlock stores only the handler's block, which                   *)
(* MarkBlockAsReceived has taken out of flight unless the handler still has *)
(* to.                                                                      *)
LEMMA ProcessNewBlockPreserves ==
    ASSUME IInv, ProcessNewBlock
    PROVE  IInv'
  <1> DEFINE b == handler.block
             H == [at : {"idle", "loop", "process", "mark"}, peer : Peer \cup {NoPeer},
                   block : Block \cup {NoBlock}, own : Block \cup {NoBlock}, forced : BOOLEAN,
                   next : {"idle", "loop", "mark"}]
  <1>1. handler.at = "process" /\ b \in Block
    BY Zenon DEF ProcessNewBlock, IInv, Processing
  <1>2. UNCHANGED <<down, conn, best, mapBlocksWait>>
    BY Zenon DEF ProcessNewBlock
  <1>3. /\ status' \in [Block -> Status]
        /\ \A c \in Block \ {b} : status'[c] = "transactions" => status[c] = "transactions"
    <2>1. PICK out \in Outcome(b, handler.forced) : ActivateBestChain(out, b)
      BY Zenon DEF ProcessNewBlock
    <2> HIDE DEF b
    <2> QED BY <1>1, <2>1, OnlyStores, Zenon DEF IInv
  <1>4. handler \in H /\ handler.next \in {"idle", "loop", "mark"}
    BY Zenon DEF IInv, Types
  <1>5. /\ handler' \in H
        /\ handler.next # "mark" => handler'.at \in {"idle", "loop"}
        /\ handler.next = "mark" => handler'.at = "mark" /\ handler'.block = b
    <2>1. CASE handler.next = "idle"
      <3>1. handler' = Idle
        BY <2>1 DEF ProcessNewBlock
      <3> QED BY <2>1, <3>1, Zenon DEF Idle
    <2>2. CASE handler.next = "loop"
      <3>1. handler' = [handler EXCEPT !.at = "loop", !.block = NoBlock, !.forced = FALSE]
        BY <2>2 DEF ProcessNewBlock
      <3> QED BY <1>4, <2>2, <3>1, Zenon
    <2>3. CASE handler.next = "mark"
      <3>1. handler' = [handler EXCEPT !.at = "mark"]
        BY <2>3 DEF ProcessNewBlock
      <3> QED BY <1>4, <2>3, <3>1, Zenon
    <2> QED BY <1>4, <2>1, <2>2, <2>3, Zenon
  <1>6. Types'
    BY <1>2, <1>3, <1>5, Zenon DEF IInv, Types
  <1>7. Sane(down)' /\ Closed' /\ TransitLimit'
    BY <1>2, Zenon DEF IInv, Closed, TransitLimit
  <1>8. \A c \in Block : InFlight(c)' <=> InFlight(c)
    BY <1>2, Zenon DEF InFlight
  <1>9. \A c \in Block \ Local : status[c] = "transactions" => ~InFlight(c)
    BY <1>1, Zenon DEF IInv, StoredNotInFlight
  <1> HIDE DEF H
  <1>10. CASE handler.next # "mark"
    <2>1. ~InFlight(b)
      BY <1>1, <1>10, Zenon DEF IInv, Processing
    <2>2. \A c \in Block \ Local : status'[c] = "transactions" => ~InFlight(c)'
      BY <1>3, <1>8, <1>9, <2>1, Zenon
    <2>3. StoredNotInFlight' /\ Processing'
      BY <1>5, <1>10, <2>2, Zenon DEF StoredNotInFlight, Processing
    <2> QED BY <1>6, <1>7, <2>3, Zenon DEF IInv
  <1>11. CASE handler.next = "mark"
    <2>1. \A c \in Block \ Local : status'[c] = "transactions" /\ c # b => ~InFlight(c)'
      BY <1>3, <1>8, <1>9, Zenon
    <2>2. StoredNotInFlight' /\ Processing'
      BY <1>1, <1>5, <1>11, <2>1, Zenon DEF StoredNotInFlight, Processing
    <2> QED BY <1>6, <1>7, <2>2, Zenon DEF IInv
  <1> QED BY <1>10, <1>11, Zenon

(* A block that is submitted locally stays in flight; no other is stored.   *)
LEMMA SubmitBlockPreserves ==
    ASSUME IInv, NEW b \in Local, SubmitBlock(b)
    PROVE  IInv'
  <1>1. b \in Block
    BY DownloadAssumption, Zenon DEF DownloadAssumption
  <1>2. UNCHANGED <<down, conn, best, mapBlocksWait, handler>>
    BY Zenon DEF SubmitBlock
  <1>3. /\ status' \in [Block -> Status]
        /\ \A c \in Block \ {b} : status'[c] = "transactions" => status[c] = "transactions"
    <2> DEFINE out == AcceptBlock(b, TRUE)
    <2>1. ActivateBestChain(out, b)
      BY Zenon DEF SubmitBlock
    <2>2. out \in Outcome(b, TRUE)
      BY Zenon DEF Outcome
    <2> HIDE DEF out
    <2> QED BY <1>1, <2>1, <2>2, OnlyStores, Zenon DEF IInv
  <1>4. Types'
    BY <1>2, <1>3, Zenon DEF IInv, Types
  <1>5. Sane(down)' /\ Closed' /\ TransitLimit' /\ Processing'
    BY <1>2, Zenon DEF IInv, Closed, TransitLimit, Processing, InFlight
  <1>6. StoredNotInFlight'
    <2>1. \A c \in Block \ Local : status'[c] = "transactions" => status[c] = "transactions"
      BY <1>3, Zenon
    <2> QED BY <1>2, <2>1, Zenon DEF IInv, StoredNotInFlight, InFlight
  <1> QED BY <1>4, <1>5, <1>6, Zenon DEF IInv

(* A refused header leaves at most failure marks.                           *)
LEMMA RefuseHeaderPreserves ==
    ASSUME IInv, NEW p \in Peer, NEW b \in Block, RefuseHeader(p, b)
    PROVE  IInv'
  <1>1. status' = AcceptBlockHeader(b) /\ UNCHANGED <<down, conn, best, mapBlocksWait, handler>>
    BY Zenon DEF RefuseHeader
  <1>2. /\ status' \in [Block -> Status]
        /\ \A c \in Block : status'[c] = "transactions" => status[c] = "transactions"
    BY <1>1, HeaderStoresNothing, Zenon DEF IInv
  <1>3. Types'
    BY <1>1, <1>2, Zenon DEF IInv, Types
  <1>4. Sane(down)' /\ Closed' /\ TransitLimit' /\ Processing'
    BY <1>1, Zenon DEF IInv, Closed, TransitLimit, Processing, InFlight
  <1>5. StoredNotInFlight'
    BY <1>1, <1>2, Zenon DEF IInv, StoredNotInFlight, InFlight
  <1> QED BY <1>3, <1>4, <1>5, Zenon DEF IInv

(* After an optimistic reconstruction the block is taken out of flight if   *)
(* it was stored.                                                           *)
LEMMA MarkReconstructedPreserves ==
    ASSUME IInv, MarkReconstructed
    PROVE  IInv'
  <1> DEFINE b == handler.block
  <1>1. handler.at = "mark" /\ b \in Block /\ handler' = Idle /\ UNCHANGED <<status, conn, best, mapBlocksWait>>
    BY Zenon DEF MarkReconstructed, IInv, Processing
  <1>2. Types'
    BY <1>1, Zenon DEF IInv, Types, Idle
  <1>3. handler'.at = "idle"
    BY <1>1, Zenon DEF Idle
  <1>4. CASE status[b] = "transactions"
    <2>1. down' = MarkBlockAsReceived(down, b)
      BY <1>4, Zenon DEF MarkReconstructed
    <2>2. /\ Sane(down') /\ TransitLimit'
          /\ \A c \in Block : InFlight(c)' <=> InFlight(c) /\ c # b
          /\ \A q \in Peer : down.list[q] = <<>> => down'.list[q] = <<>>
      <3> HIDE DEF b
      <3> QED BY <1>1, <2>1, ReceivedStep, Zenon DEF IInv
    <2>3. Closed'
      BY <1>1, <2>2, Zenon DEF IInv, Closed
    <2>4. StoredNotInFlight' /\ Processing'
      BY <1>1, <1>3, <2>2, Zenon DEF IInv, StoredNotInFlight, Processing
    <2> QED BY <1>2, <2>2, <2>3, <2>4, Zenon DEF IInv
  <1>5. CASE status[b] # "transactions"
    <2>1. down' = down
      BY <1>5, Zenon DEF MarkReconstructed
    <2>2. Sane(down)' /\ Closed' /\ TransitLimit'
      BY <1>1, <2>1, Zenon DEF IInv, Closed, TransitLimit
    <2>3. StoredNotInFlight' /\ Processing'
      BY <1>1, <1>3, <1>5, <2>1, Zenon DEF IInv, StoredNotInFlight, Processing, InFlight
    <2> QED BY <1>2, <2>2, <2>3, Zenon DEF IInv
  <1> QED BY <1>4, <1>5, Zenon

(* A compact block or its transactions, for a download state that has only  *)
(* block b added for peer p.                                                *)
LEMMA ReconstructPreserves ==
    ASSUME IInv, Types', NEW p \in Peer, Ready(p), NEW b \in Block,
           b \in Local \/ status[b] # "transactions",
           NEW d, Sane(d), NEW outcome \in Outcomes, Reconstruct(d, p, b, outcome),
           \A c \in Block \ {b} : d.from[c] = down.from[c],
           \A q \in Peer : Len(d.list[q]) <= MaxInTransit,
           \A q \in Peer \ {p} : Len(d.list[q]) = Len(down.list[q]),
           \A c \in Block : status'[c] = "transactions" => status[c] = "transactions",
           conn' = conn
    PROVE  IInv'
  <1>1. conn[p] = "up" /\ handler.at = "idle"
    BY Zenon DEF Ready, Idle
  <1>2. /\ Sane(down')
        /\ \A c \in Block \ {b} : down'.from[c] = down.from[c]
        /\ outcome # "missing" => down'.from[b] = NoPeer
        /\ \A q \in Peer : Len(down'.list[q]) <= Len(d.list[q])
    <2>1. CASE outcome = "missing"
      <3>1. down' = d
        BY <2>1, Zenon DEF Reconstruct
      <3>2. \A q \in Peer : Len(d.list[q]) <= Len(d.list[q])
        BY SaneTypes
      <3> QED BY <2>1, <3>1, <3>2, Zenon
    <2>2. CASE outcome # "missing"
      <3> DEFINE e == MarkBlockAsReceived(d, b)
      <3>1. down' = e
        BY <2>2, Zenon DEF Reconstruct
      <3>2. /\ Sane(e) /\ e.from = [d.from EXCEPT ![b] = NoPeer]
            /\ \A q \in Peer : Len(e.list[q]) <= Len(d.list[q])
        BY Received, Zenon
      <3> HIDE DEF e
      <3>3. e.from[b] = NoPeer /\ \A c \in Block \ {b} : e.from[c] = d.from[c]
        BY <3>2, SaneTypes
      <3> QED BY <3>1, <3>2, <3>3, Zenon
    <2> QED BY <2>1, <2>2, Zenon
  <1>3. \A q \in Peer : Len(down'.list[q]) \in Nat /\ Len(d.list[q]) \in Nat /\ Len(down.list[q]) \in Nat
    BY <1>2, SaneTypes DEF IInv
  <1>4. TransitLimit'
    BY <1>2, <1>3, DownloadAssumption DEF TransitLimit, DownloadAssumption
  <1>5. Closed'
    <2> SUFFICES ASSUME NEW q \in Peer, conn'[q] = "none"
                 PROVE  down'.list[q] = <<>>
      BY Zenon DEF Closed
    <2>1. q # p /\ down.list[q] = <<>>
      BY <1>1, Zenon DEF IInv, Closed
    <2>2. Len(down.list[q]) = 0
      BY <2>1, Zenon
    <2>3. Len(down'.list[q]) = 0
      BY <1>2, <1>3, <2>1, <2>2
    <2>4. down'.list[q] \in Seq(Block)
      BY <1>2, SaneTypes, Zenon
    <2> QED BY <2>3, <2>4, EmptySeq, Zenon
  <1>6. \A c \in Block \ Local : status'[c] = "transactions" => ~InFlight(c)'
    <2>1. \A c \in Block \ Local : status[c] = "transactions" => c # b /\ ~InFlight(c)
      BY <1>1, Zenon DEF IInv, StoredNotInFlight
    <2> QED BY <1>2, <2>1, Zenon DEF InFlight
  <1>7. Processing'
    <2>1. CASE outcome = "read"
      <3>1. handler' = [at |-> "process", peer |-> p, block |-> b, own |-> NoBlock, forced |-> TRUE, next |-> "idle"]
        BY <2>1, Zenon DEF Reconstruct
      <3> QED BY <1>2, <2>1, <3>1, Zenon DEF Processing, InFlight
    <2>2. CASE outcome # "read"
      <3>1. handler' = Idle
        BY <2>2, Zenon DEF Reconstruct
      <3> QED BY <3>1, Zenon DEF Processing, Idle
    <2> QED BY <2>1, <2>2, Zenon
  <1> QED BY <1>2, <1>4, <1>5, <1>6, <1>7, Zenon DEF IInv, StoredNotInFlight

(* The type of the handler after Reconstruct.                               *)
LEMMA ReconstructType ==
    ASSUME Types, NEW p \in Peer, NEW b \in Block, NEW d, NEW outcome, Reconstruct(d, p, b, outcome)
    PROVE  handler' \in [at : {"idle", "loop", "process", "mark"}, peer : Peer \cup {NoPeer},
                         block : Block \cup {NoBlock}, own : Block \cup {NoBlock}, forced : BOOLEAN, next : {"idle", "loop", "mark"}]
  BY Zenon DEF Reconstruct, Idle

(* BLOCKTXN: the block goes to ProcessNewBlock out of flight.               *)
LEMMA BlockTxnPreserves ==
    ASSUME IInv, NEW p \in Peer, NEW b \in Block, BlockTxn(p, b)
    PROVE  IInv'
  <1>1. PICK outcome \in Outcomes : Reconstruct(down, p, b, outcome)
    BY Zenon DEF BlockTxn
  <1>2. /\ Ready(p) /\ down.from[b] = p
        /\ status' = status /\ conn' = conn /\ best' = best /\ mapBlocksWait' = mapBlocksWait
    BY Zenon DEF BlockTxn
  <1>3. Types'
    <2>1. Types
      BY Zenon DEF IInv
    <2> QED BY <1>1, <1>2, <2>1, ReconstructType, Zenon DEF Types
  <1>4. b \in Local \/ status[b] # "transactions"
    BY <1>2, DownloadAssumption, Zenon DEF IInv, StoredNotInFlight, InFlight, Ready, Idle, DownloadAssumption
  <1>5. Sane(down) /\ \A q \in Peer : Len(down.list[q]) <= MaxInTransit
    BY Zenon DEF IInv, TransitLimit
  <1> QED BY <1>1, <1>2, <1>3, <1>4, <1>5, ReconstructPreserves, Zenon

(* CMPCTBLOCK in its three forms: ignored, downloaded, or reconstructed     *)
(* while another peer has it in flight.                                     *)
LEMMA CompactBlockPreserves ==
    ASSUME IInv, NEW p \in Peer, NEW b \in Block, CompactBlock(p, b)
    PROVE  IInv'
  <1>1. /\ Ready(p) /\ status' = AcceptBlockHeader(b) /\ best' = Availability(p, b)
        /\ conn' = conn /\ mapBlocksWait' = mapBlocksWait
    BY Zenon DEF CompactBlock
  <1>2. /\ status' \in [Block -> Status]
        /\ \A c \in Block : status'[c] = "transactions" => status[c] = "transactions"
    BY <1>1, HeaderStoresNothing, Zenon DEF IInv
  <1>3. status' \in [Block -> Status] /\ best' \in [Peer -> Block \cup {NoBlock}]
    BY <1>1, <1>2, Zenon DEF IInv, Types, Availability
  <1>4. CASE UNCHANGED <<down, handler>>
    <2>1. Types'
      BY <1>1, <1>3, <1>4, Zenon DEF IInv, Types
    <2>2. (Sane(down) /\ Closed /\ TransitLimit /\ StoredNotInFlight /\ Processing)'
      BY <1>1, <1>2, <1>4, IdlePreserves, Zenon
    <2> QED BY <2>1, <2>2, Zenon DEF IInv
  <1> DEFINE m == MarkBlockAsInFlight(down, p, b)
             d == [m EXCEPT !.partial = @ \cup {b}]
  <1>5. CASE /\ Wanted(b)
             /\ \/ ~InFlight(b) /\ down.count[p] < MaxInTransit
                \/ down.from[b] = p
             /\ \E outcome \in Outcomes : Reconstruct(d, p, b, outcome)
    <2>1. PICK outcome \in Outcomes : Reconstruct(d, p, b, outcome)
      BY <1>5, Zenon
    <2>2. status[b] # "transactions" /\ down.from[b] \in {NoPeer, p}
      BY <1>5, Zenon DEF Wanted, HaveData, InFlight
    <2>3. /\ Sane(m)
          /\ \A c \in Block : m.from[c] = IF c = b THEN p ELSE down.from[c]
          /\ \A q \in Peer : Len(m.list[q]) = IF q = p /\ down.from[b] = NoPeer
                                              THEN Len(down.list[q]) + 1 ELSE Len(down.list[q])
      BY <2>2, MarkedInFlight DEF IInv
    <2> HIDE DEF m
    <2>4. /\ d.from = m.from /\ d.list = m.list /\ d.count = m.count /\ d.peers = m.peers
          /\ d.stalling = m.stalling /\ d \in DownloadState
      <3>1. m = [from |-> m.from, list |-> m.list, count |-> m.count, peers |-> m.peers,
                 partial |-> m.partial, stalling |-> m.stalling]
        BY <2>3, SaneTypes, Zenon
      <3>2. d = [from |-> m.from, list |-> m.list, count |-> m.count, peers |-> m.peers,
                 partial |-> m.partial \cup {b}, stalling |-> m.stalling]
        BY ONLY <3>1
      <3>3. d \in DownloadState
        <4>1. m.partial \cup {b} \in SUBSET Block
          BY <2>3, SaneTypes, Zenon
        <4> QED BY <2>3, <3>2, <4>1, SaneTypes DEF DownloadState
      <3> HIDE DEF d
      <3> QED BY <3>2, <3>3, Zenon
    <2> HIDE DEF d
    <2>5. Sane(d)
      <3>1. Exact(m) /\ \A q \in m.stalling : m.list[q] # <<>>
        BY <2>3, Zenon DEF Sane
      <3>2. Exact(d)
        BY ONLY <2>4, <3>1 DEF Exact
      <3> QED BY <2>4, <3>1, <3>2, Zenon DEF Sane
    <2>6. \A c \in Block \ {b} : d.from[c] = down.from[c]
      BY <2>3, <2>4, Zenon
    <2>7. \A q \in Peer \ {p} : Len(d.list[q]) = Len(down.list[q])
      BY <2>3, <2>4, Zenon
    <2>8. \A q \in Peer : Len(d.list[q]) <= MaxInTransit
      <3> TAKE q \in Peer
      <3>1. Len(down.list[q]) \in Nat /\ down.count[q] = Len(down.list[q]) /\ Len(down.list[q]) <= MaxInTransit
        BY SaneTypes DEF IInv, TransitLimit
      <3>2. q = p /\ down.from[b] = NoPeer => down.count[q] < MaxInTransit
        BY <1>5, DownloadAssumption, Zenon DEF DownloadAssumption
      <3>3. MaxInTransit \in Nat
        BY DownloadAssumption, Zenon DEF DownloadAssumption
      <3> QED BY <2>3, <2>4, <3>1, <3>2, <3>3
    <2>9. Types'
      <3>1. Types
        BY Zenon DEF IInv
      <3> QED BY <1>1, <1>3, <2>1, <3>1, ReconstructType, Zenon DEF Types
    <2> QED BY <1>1, <1>2, <2>1, <2>2, <2>5, <2>6, <2>7, <2>8, <2>9, ReconstructPreserves, Zenon
  <1>6. CASE /\ Wanted(b) /\ down' = down
             /\ handler' = [at |-> "process", peer |-> p, block |-> b, own |-> NoBlock, forced |-> TRUE, next |-> "mark"]
    <2>1. Types'
      BY <1>1, <1>3, <1>6, Zenon DEF IInv, Types
    <2>2. Sane(down)' /\ Closed' /\ TransitLimit'
      BY <1>1, <1>6, Zenon DEF IInv, Closed, TransitLimit
    <2>3. \A c \in Block \ Local : status[c] = "transactions" => ~InFlight(c)
      BY <1>1, Zenon DEF IInv, StoredNotInFlight, Ready, Idle
    <2>4. StoredNotInFlight' /\ Processing'
      BY <1>2, <1>6, <2>3, Zenon DEF StoredNotInFlight, Processing, InFlight
    <2> QED BY <2>1, <2>2, <2>4, Zenon DEF IInv
  <1> QED BY <1>4, <1>5, <1>6, Zenon DEF CompactBlock

(* An honest peer's answer is a BLOCK message, or is not welcome and        *)
(* changes nothing.                                                         *)
LEMMA AnswerPreserves ==
    ASSUME IInv, NEW p \in Honest, Answer(p), owed \in [Honest -> Seq(Block)]
    PROVE  IInv'
  <1>1. p \in Peer /\ Head(owed[p]) \in Block
    BY DownloadAssumption DEF Answer, DownloadAssumption
  <1>2. CASE BlockMessage(p, Head(owed[p]))
    BY <1>1, <1>2, BlockMessagePreserves, Zenon
  <1>3. CASE UNCHANGED <<status, tip, down, conn, best, common, mapBlocksWait, pindexLastAccepted, handler>>
    BY <1>3, Zenon DEF IInv, Types, Closed, TransitLimit, StoredNotInFlight, Processing, InFlight
  <1> QED BY <1>2, <1>3, Zenon DEF Answer

-----------------------------------------------------------------------------
(* The requests at the honest peers are for blocks.                         *)
OwedBlocks == owed \in [Honest -> Seq(Block)]

(* What an honest peer owes are blocks: a request adds the blocks it asks   *)
(* for.                                                                     *)
LEMMA RequestOwes ==
    ASSUME IInv, OwedBlocks, NEW p \in Peer, NEW B \in SUBSET Block, NEW s \in Ascending(B), Request(p, s)
    PROVE  OwedBlocks'
  <1> DEFINE n == Requested(p, s)
             asked == SubSeq(s, 1, n)
  <1>1. s \in Seq(Block) /\ Len(s) \in Nat
    BY AscendingDistinct
  <1>2. n \in Int /\ n <= Len(s)
    <2>1. down.count[p] \in Nat /\ MaxInTransit \in Nat
      BY SaneTypes, DownloadAssumption, Zenon DEF IInv, DownloadAssumption
    <2> QED BY <1>1, <2>1 DEF Requested
  <1>3. asked \in Seq(Block)
    <2> HIDE DEF n
    <2> QED BY <1>1, <1>2
  <1>4. owed' = [q \in Honest |-> IF q = p THEN owed[q] \o asked ELSE owed[q]]
    BY Zenon DEF Request
  <1> HIDE DEF asked
  <1>5. \A q \in Honest : owed[q] \in Seq(Block) /\ owed[q] \o asked \in Seq(Block)
    BY <1>3 DEF OwedBlocks
  <1> QED BY <1>4, <1>5, Zenon DEF OwedBlocks

(* What an honest peer owes are blocks: the direct fetch.                   *)
LEMMA AcceptHeadersOwes ==
    ASSUME IInv, OwedBlocks, NEW p \in Peer, NEW b \in Block, AcceptHeaders(p, b)
    PROVE  OwedBlocks'
  <1>1. Missing(b) \in SUBSET Block
    BY TreeAssumption, Zenon DEF Missing, TreeAssumption
  <1>2. CASE owed' = owed
    BY <1>2, Zenon DEF OwedBlocks
  <1>3. CASE \E blocks \in Ascending(Missing(b)) : Request(p, blocks)
    BY <1>1, <1>3, RequestOwes, Zenon
  <1> QED BY <1>2, <1>3, Zenon DEF AcceptHeaders

(* What an honest peer owes are blocks: the getdata part of SendMessages.   *)
LEMMA SendMessagesOwes ==
    ASSUME IInv, OwedBlocks, NEW p \in Peer, SendMessages(p)
    PROVE  OwedBlocks'
  <1> DEFINE last == LastCommon(p)
  <1> HIDE DEF last
  <1>1. ToDownload(p, last) \in SUBSET Block
    <2>1. best[p] \in Block
      BY Zenon DEF SendMessages, Interesting, IInv, Types
    <2> QED BY <2>1, TreeAssumption, Zenon DEF ToDownload, Free, Walk, TreeAssumption
  <1>2. CASE owed' = owed
    BY <1>2, Zenon DEF OwedBlocks
  <1>3. CASE \E blocks \in Ascending(ToDownload(p, last)) : Request(p, blocks)
    BY <1>1, <1>3, RequestOwes, Zenon
  <1> QED BY <1>2, <1>3, Zenon DEF SendMessages, last

(* What an honest peer owes are blocks: an answer takes the first of them.  *)
LEMMA AnswerOwes ==
    ASSUME OwedBlocks, NEW p \in Honest, Answer(p)
    PROVE  OwedBlocks'
  <1>1. owed' = [owed EXCEPT ![p] = Tail(@)] /\ owed[p] # <<>> /\ owed[p] \in Seq(Block)
    BY Zenon DEF Answer, OwedBlocks
  <1>2. Tail(owed[p]) \in Seq(Block)
    BY <1>1
  <1> QED BY <1>1, <1>2, Zenon DEF OwedBlocks

Inv == IInv /\ OwedBlocks

(* The steps of a handler that is under way.                                *)
LEMMA HandleStep ==
    ASSUME Inv, Handle
    PROVE  Inv'
  <1>1. owed' = owed
    BY Zenon DEF Handle, SelectNext, SelectByScan, Select, LoopEnds, ProcessNewBlock, MarkReconstructed, DropWaiting
  <1>2. CASE SelectNext
    <2>1. pindexLastAccepted \in Waiting /\ handler.at = "loop" /\ Select(pindexLastAccepted)
      BY <1>2, Zenon DEF SelectNext
    <2> QED BY <1>1, <2>1, SelectPreserves, Zenon DEF Inv, OwedBlocks
  <1>3. CASE LoopEnds
    BY <1>1, <1>3, LoopEndsPreserves, Zenon DEF Inv, OwedBlocks
  <1>4. CASE ProcessNewBlock
    BY <1>1, <1>4, ProcessNewBlockPreserves, Zenon DEF Inv, OwedBlocks
  <1>5. CASE MarkReconstructed
    BY <1>1, <1>5, MarkReconstructedPreserves, Zenon DEF Inv, OwedBlocks
  <1>6. ASSUME NEW prev \in Block, SelectByScan(prev)
        PROVE  Inv'
    <2>1. prev \in Waiting /\ handler.at = "loop" /\ Select(prev)
      BY <1>6, Zenon DEF SelectByScan
    <2> QED BY <1>1, <2>1, SelectPreserves, Zenon DEF Inv, OwedBlocks
  <1>7. ASSUME NEW prev \in Block, DropWaiting(prev)
        PROVE  Inv'
    BY <1>1, <1>7, DropWaitingPreserves, Zenon DEF Inv, OwedBlocks
  <1> QED BY <1>2, <1>3, <1>4, <1>5, <1>6, <1>7, Zenon DEF Handle

(* The node's own steps for a peer: connection, requests and timeouts.      *)
LEMMA NodeStep ==
    ASSUME Inv, NEW p \in Peer, Node(p)
    PROVE  Inv'
  <1>1. CASE InitializeNode(p) \/ Disconnect(p)
    <2>1. owed' = owed
      BY <1>1, Zenon DEF InitializeNode, Disconnect
    <2> QED BY <1>1, <2>1, ConnectionPreserves, Zenon DEF Inv, OwedBlocks
  <1>2. CASE FinalizeNode(p)
    <2>1. owed' = [q \in Honest |-> IF q = p THEN <<>> ELSE owed[q]] /\ <<>> \in Seq(Block)
      BY <1>2 DEF FinalizeNode
    <2>2. OwedBlocks'
      BY <2>1, Zenon DEF Inv, OwedBlocks
    <2> QED BY <1>2, <2>2, FinalizeNodePreserves, Zenon DEF Inv
  <1>3. CASE SendMessages(p)
    BY <1>3, SendMessagesPreserves, SendMessagesOwes, Zenon DEF Inv
  <1> QED BY <1>1, <1>2, <1>3, Zenon DEF Node, GivesUp, StallTimeout, DownloadTimeout

(* Whatever a peer sends.                                                   *)
LEMMA PeerStep ==
    ASSUME Inv, NEW p \in Peer, AnyPeer(p)
    PROVE  Inv'
  <1>1. CASE Disconnect(p)
    BY <1>1, ConnectionPreserves, Zenon DEF Inv, OwedBlocks, Disconnect
  <1>2. ASSUME NEW b \in Block, ProcessHeadersMessage(p, b) \/ FarCompactBlock(p, b)
        PROVE  Inv'
    <2>1. Ready(p) /\ AcceptHeaders(p, b)
      BY <1>2, Zenon DEF ProcessHeadersMessage, FarCompactBlock
    <2> QED BY <2>1, AcceptHeadersPreserves, AcceptHeadersOwes, Zenon DEF Inv
  <1>a. ASSUME NEW b \in Block, RefuseHeader(p, b)
        PROVE  Inv'
    <2>1. owed' = owed
      BY <1>a, Zenon DEF RefuseHeader
    <2> QED BY <1>a, <2>1, RefuseHeaderPreserves, Zenon DEF Inv, OwedBlocks
  <1>3. ASSUME NEW b \in Block, BlockMessage(p, b) /\ UNCHANGED owed
        PROVE  Inv'
    BY <1>3, BlockMessagePreserves, Zenon DEF Inv, OwedBlocks
  <1>4. ASSUME NEW b \in Block, CompactBlock(p, b)
        PROVE  Inv'
    <2>1. owed' = owed
      BY <1>4, Zenon DEF CompactBlock
    <2> QED BY <1>4, <2>1, CompactBlockPreserves, Zenon DEF Inv, OwedBlocks
  <1>5. ASSUME NEW b \in Block, BlockTxn(p, b)
        PROVE  Inv'
    <2>1. owed' = owed
      BY <1>5, Zenon DEF BlockTxn
    <2> QED BY <1>5, <2>1, BlockTxnPreserves, Zenon DEF Inv, OwedBlocks
  <1> QED BY <1>1, <1>2, <1>a, <1>3, <1>4, <1>5, Zenon DEF AnyPeer

(* The invariant holds in every state of every behaviour, whatever peers do.*)
THEOREM Invariance == Spec => []Inv
  <1>1. Init => Inv
    <2>1. <<>> \in Seq(Block)
      OBVIOUS
    <2>2. Init => OwedBlocks
      BY <2>1, Zenon DEF Init, OwedBlocks
    <2> QED BY <2>2, InitInvariant, Zenon DEF Inv
  <1>2. Inv /\ [Next]_vars => Inv'
    <2> SUFFICES ASSUME Inv, [Next]_vars PROVE Inv'
      BY Zenon
    <2>1. CASE Handle
      BY <2>1, HandleStep, Zenon
    <2>a. ASSUME NEW b \in Local, SubmitBlock(b)
          PROVE  Inv'
      <3>1. owed' = owed
        BY <2>a, Zenon DEF SubmitBlock
      <3> QED BY <2>a, <3>1, SubmitBlockPreserves, Zenon DEF Inv, OwedBlocks
    <2>2. CASE \E p \in Peer : Node(p)
      BY <2>2, NodeStep, Zenon
    <2>3. ASSUME NEW p \in Honest, HonestPeer(p)
          PROVE  Inv'
      <3>1. p \in Peer /\ Target \in Block
        BY DownloadAssumption, Zenon DEF DownloadAssumption
      <3>2. CASE ProcessHeadersMessage(p, Target)
        BY <3>1, <3>2, AcceptHeadersPreserves, AcceptHeadersOwes, Zenon DEF Inv, ProcessHeadersMessage
      <3>3. CASE Answer(p)
        BY <3>3, AnswerPreserves, AnswerOwes, Zenon DEF Inv, OwedBlocks
      <3> QED BY <2>3, <3>2, <3>3, Zenon DEF HonestPeer
    <2>4. CASE \E p \in Peer \ Honest : AnyPeer(p)
      BY <2>4, PeerStep, Zenon
    <2>5. CASE UNCHANGED vars
      BY <2>5, Zenon DEF vars, Inv, OwedBlocks, IInv, Types, Closed, TransitLimit, StoredNotInFlight, Processing, InFlight
    <2> QED BY <2>1, <2>a, <2>2, <2>3, <2>4, <2>5, Zenon DEF Next
  <1> QED BY <1>1, <1>2, PTL DEF Spec

(* mapBlocksInFlight, vBlocksInFlight, nBlocksInFlight and                  *)
(* nPeersWithValidatedDownloads agree at all times, for any number of peers *)
(* that announce, send, withhold and leave as they like.                    *)
THEOREM DownloadStateExact == Spec => []InFlightExact
  <1>1. Inv => InFlightExact
    BY Zenon DEF Inv, IInv, Sane, Closed, InFlightExact
  <1> QED BY <1>1, Invariance, PTL

(* A peer is never asked for more blocks at once than the limit allows, and *)
(* a peer from which nothing is in flight is never taken for a staller.     *)
THEOREM RequestsBounded == Spec => [](TransitLimit /\ StallersHaveBlocks)
  <1>1. Inv => TransitLimit /\ StallersHaveBlocks
    BY Zenon DEF Inv, IInv, Sane, StallersHaveBlocks
  <1> QED BY <1>1, Invariance, PTL

(* A stored and valid block that was not submitted locally is not in flight *)
(* once its handler is done, whichever of the block, compact block and      *)
(* transaction messages brought it, and whoever had been asked for it.      *)
THEOREM NothingDownloadedTwice == Spec => []StoredNotInFlight
  <1>1. Inv => StoredNotInFlight
    BY Zenon DEF Inv, IInv
  <1> QED BY <1>1, Invariance, PTL

-----------------------------------------------------------------------------
(* A block is its own ancestor.                                             *)
LEMMA OwnAncestor == \A b \in Block : b \in Ancestors[b]
  BY TreeAssumption DEF TreeAssumption

(* A set of naturals that is not empty has a least element.                 *)
LEMMA Least ==
    ASSUME NEW T \in SUBSET Nat, T # {} PROVE \E n \in T : \A m \in T : n <= m
  <1> DEFINE R == OpToRel(<, Nat)
  <1>1. IsWellFoundedOn(R, Nat)
    BY NatLessThanWellFounded, Zenon
  <1>2. \A x, y \in Nat : x < y => <<x, y>> \in R
    BY Zenon DEF OpToRel
  <1> HIDE DEF R
  <1>3. PICK x \in T : \A y \in T : ~(<<y, x>> \in R)
    BY <1>1, WFMin, Zenon
  <1>4. \A y \in T : ~(y < x)
    BY <1>2, <1>3, Zenon
  <1> QED
    BY <1>4

(* Induction over the tree of blocks.                                       *)
LEMMA TreeInduction ==
    ASSUME NEW P, Genesis \in P, \A b \in Block \ {Genesis} : Parent[b] \in P => b \in P
    PROVE  \A b \in Block : b \in P
  <1> DEFINE T == {b \in Block : b \notin P}
             H == {Height[b] : b \in T}
  <1> SUFFICES ASSUME T # {} PROVE FALSE
    OBVIOUS
  <1>1. H \in SUBSET Nat /\ H # {}
    <2>1. \A b \in Block : Height[b] \in Nat
      BY TreeAssumption, Zenon DEF TreeAssumption
    <2> QED
      BY <2>1
  <1>2. PICK h \in H : \A m \in H : h <= m
    BY <1>1, Least, Zenon
  <1>3. PICK b \in T : Height[b] = h
    BY <1>2
  <1>4. b \in Block \ {Genesis} /\ Parent[b] \notin P
    BY Zenon
  <1>a. Parent[b] \in Block /\ Height[b] = Height[Parent[b]] + 1
    BY <1>4, TreeAssumption, Zenon DEF TreeAssumption
  <1>5. Parent[b] \in T /\ Height[b] = Height[Parent[b]] + 1 /\ Height[Parent[b]] \in Nat
    BY <1>4, <1>a, TreeAssumption DEF TreeAssumption
  <1>6. h <= Height[Parent[b]]
    BY <1>2, <1>5
  <1> QED
    BY <1>3, <1>5, <1>6

(* A block and its parent.                                                  *)
LEMMA ParentOf ==
    ASSUME NEW b \in Block \ {Genesis}
    PROVE  /\ Parent[b] \in Block /\ Height[Parent[b]] \in Nat
           /\ Height[b] = Height[Parent[b]] + 1
           /\ Ancestors[b] = {b} \cup Ancestors[Parent[b]]
           /\ Parent[b] \in Ancestors[b] /\ Parent[b] \in Ancestors[Parent[b]]
  <1>1. Parent[b] \in Block /\ Height[Parent[b]] \in Nat /\ Height[b] = Height[Parent[b]] + 1
        /\ Ancestors[b] = {b} \cup Ancestors[Parent[b]]
    BY TreeAssumption, Zenon DEF TreeAssumption
  <1>2. Parent[b] \in Ancestors[Parent[b]]
    BY <1>1, OwnAncestor, Zenon
  <1> QED
    BY <1>1, <1>2, Zenon

(* The ancestors of a block.                                                *)
LEMMA AncestorOf ==
    ASSUME NEW b \in Block, NEW a \in Ancestors[b]
    PROVE  /\ a \in Block /\ a \in Ancestors[a] /\ Ancestors[a] \subseteq Ancestors[b]
           /\ Height[a] \in Nat /\ Height[b] \in Nat /\ Height[a] <= Height[b]
           /\ Height[a] = Height[b] => a = b
           /\ Genesis \in Ancestors[b]
  <1>1. a \in Block
    BY TreeAssumption, Zenon DEF TreeAssumption
  <1>2. Height[a] \in Nat /\ Height[b] \in Nat
    BY <1>1, TreeAssumption, Zenon DEF TreeAssumption
  <1>3. /\ Ancestors[a] \subseteq Ancestors[b] /\ Height[a] <= Height[b]
        /\ Height[a] = Height[b] => a = b
        /\ Genesis \in Ancestors[b]
    BY TreeAssumption, Zenon DEF TreeAssumption
  <1> QED
    BY <1>1, <1>2, <1>3, OwnAncestor, Zenon

(* A chain has one block at each height.                                    *)
LEMMA OneAtEachHeight ==
    ASSUME NEW b \in Block
    PROVE  /\ \A a, c \in Ancestors[b] : Height[a] = Height[c] => a = c
           /\ \A h \in 0..Height[b] : \E a \in Ancestors[b] : Height[a] = h
  <1> DEFINE P == {d \in Block :
                     /\ \A a, c \in Ancestors[d] : Height[a] = Height[c] => a = c
                     /\ \A h \in 0..Height[d] : \E a \in Ancestors[d] : Height[a] = h}
  <1>1. Genesis \in P
    <2>1. Genesis \in Block /\ Ancestors[Genesis] = {Genesis} /\ Height[Genesis] = 0
      BY TreeAssumption, Zenon DEF TreeAssumption
    <2> QED
      BY <2>1
  <1>2. ASSUME NEW d \in Block \ {Genesis}, Parent[d] \in P PROVE d \in P
    <2>1. ASSUME NEW a \in Ancestors[d], NEW c \in Ancestors[d], Height[a] = Height[c]
          PROVE  a = c
      <3>1. \A e \in Ancestors[Parent[d]] : Height[e] \in Nat /\ Height[e] < Height[d]
        <4>1. /\ Parent[d] \in Block /\ Height[Parent[d]] \in Nat /\ Height[d] \in Nat
              /\ Height[Parent[d]] < Height[d]
          BY ParentOf
        <4>2. \A e \in Ancestors[Parent[d]] : Height[e] \in Nat /\ Height[e] <= Height[Parent[d]]
          BY <4>1, AncestorOf, Zenon
        <4> QED BY <4>1, <4>2
      <3>2. Height[d] \in Nat
        BY ParentOf
      <3>3. CASE a = d \/ c = d
        BY <2>1, <3>1, <3>2, <3>3, ParentOf
      <3>4. CASE a # d /\ c # d
        <4>1. a \in Ancestors[Parent[d]] /\ c \in Ancestors[Parent[d]]
          BY <3>4, ParentOf
        <4> QED
          BY <1>2, <2>1, <4>1, Zenon
      <3> QED
        BY <3>3, <3>4
    <2>2. ASSUME NEW h \in 0..Height[d] PROVE \E a \in Ancestors[d] : Height[a] = h
      <3>1. CASE h = Height[d]
        BY <3>1, OwnAncestor, Zenon
      <3>2. CASE h # Height[d]
        <4>1. h \in 0..Height[Parent[d]]
          BY <3>2, ParentOf
        <4>2. \E a \in Ancestors[Parent[d]] : Height[a] = h
          BY <1>2, <4>1, Zenon
        <4> QED
          BY <4>2, ParentOf, Zenon
      <3> QED
        BY <3>1, <3>2
    <2> QED
      BY <2>1, <2>2, Zenon
  <1> HIDE DEF P
  <1>3. b \in P
    BY <1>1, <1>2, TreeInduction, Zenon
  <1> QED
    BY <1>3, Zenon DEF P

(* Of the blocks up to some height there is a highest one.                  *)
LEMMA Highest ==
    ASSUME NEW S \in SUBSET Block, S # {}, NEW n \in Nat, \A b \in S : Height[b] <= n
    PROVE  \E b \in S : \A c \in S : Height[c] <= Height[b]
  <1> DEFINE T == {n - Height[b] : b \in S}
  <1>1. \A b \in S : Height[b] \in Nat
    BY TreeAssumption, Zenon DEF TreeAssumption
  <1>2. T \in SUBSET Nat /\ T # {}
    BY <1>1
  <1>3. PICK m \in T : \A k \in T : m <= k
    <2> HIDE DEF T
    <2> QED BY <1>2, Least, Zenon
  <1>4. PICK b \in S : m = n - Height[b]
    BY Zenon
  <1>5. \A c \in S : n - Height[b] <= n - Height[c]
    BY <1>3, <1>4, Zenon
  <1>6. \A c \in S : Height[c] <= Height[b]
    BY <1>1, <1>5
  <1> QED BY <1>6, Zenon

(* GetAncestor, up to the block's own height.                               *)
LEMMA AncestorAtHeight ==
    ASSUME NEW b \in Block, NEW h \in 0..Height[b]
    PROVE  AncestorAt(b, h) \in Ancestors[b] /\ Height[AncestorAt(b, h)] = h
  BY OneAtEachHeight, Zenon DEF AncestorAt

(* LastCommonAncestor is the highest block the two branches share.          *)
LEMMA LastCommonAncestorOf ==
    ASSUME NEW a \in Block, NEW b \in Block
    PROVE  /\ LastCommonAncestor(a, b) \in Ancestors[a] \cap Ancestors[b]
           /\ \A c \in Ancestors[a] \cap Ancestors[b] : Height[c] <= Height[LastCommonAncestor(a, b)]
  <1> DEFINE C == Ancestors[a] \cap Ancestors[b]
  <1>1. C \in SUBSET Block /\ C # {} /\ Height[a] \in Nat
    BY TreeAssumption DEF TreeAssumption
  <1>2. \A c \in C : Height[c] \in Nat /\ Height[c] <= Height[a]
    BY AncestorOf, Zenon
  <1>3. LastCommonAncestor(a, b) = CHOOSE c \in C : \A d \in C : Height[d] <= Height[c]
    BY Zenon DEF LastCommonAncestor
  <1> HIDE DEF C
  <1>4. \E c \in C : \A d \in C : Height[d] <= Height[c]
    BY <1>1, <1>2, Highest, Zenon
  <1>5. LastCommonAncestor(a, b) \in C /\ \A d \in C : Height[d] <= Height[LastCommonAncestor(a, b)]
    BY <1>3, <1>4, Zenon
  <1> QED BY <1>5, Zenon DEF C

(* What the walk of FindNextBlocksToDownload has for a last common block is *)
(* a block of the peer's branch, before the walk and after it.              *)
LEMMA LastCommonOf ==
    ASSUME tip \in Block, common \in [Peer -> Block \cup {NoBlock}], NEW p \in Peer, best[p] \in Block
    PROVE  /\ LastCommon(p) \in Ancestors[best[p]]
           /\ NewLastCommon(p, LastCommon(p)) \in Ancestors[best[p]]
  <1>1. LastCommon(p) \in Ancestors[best[p]]
    <2>1. CASE common[p] # NoBlock
      BY <2>1, LastCommonAncestorOf, Zenon DEF LastCommon
    <2>2. CASE common[p] = NoBlock /\ ~(Height[best[p]] < Height[tip])
      BY <2>2, LastCommonAncestorOf, Zenon DEF LastCommon
    <2>3. CASE common[p] = NoBlock /\ Height[best[p]] < Height[tip]
      <3>1. Height[best[p]] \in 0..Height[tip]
        BY <2>3, TreeAssumption DEF TreeAssumption
      <3>2. AncestorAt(tip, Height[best[p]]) \in Block
        BY <3>1, AncestorAtHeight, AncestorOf, Zenon
      <3> QED BY <2>3, <3>2, LastCommonAncestorOf, Zenon DEF LastCommon
    <2> QED BY <2>1, <2>2, <2>3, Zenon
  <1> DEFINE last == LastCommon(p)
             S == {last} \cup {c \in Walk(p, last) : HaveData(c)}
  <1>2. S \in SUBSET Ancestors[best[p]] /\ S # {}
    BY <1>1, Zenon DEF Walk
  <1>3. NewLastCommon(p, last) = CHOOSE b \in S : \A c \in S : Height[c] <= Height[b]
    BY Zenon DEF NewLastCommon
  <1> HIDE DEF S
  <1>4. S \in SUBSET Block /\ Height[best[p]] \in Nat /\ \A c \in S : Height[c] <= Height[best[p]]
    BY <1>2, AncestorOf, TreeAssumption, Zenon DEF TreeAssumption
  <1>5. \E b \in S : \A c \in S : Height[c] <= Height[b]
    BY <1>2, <1>4, Highest, Zenon
  <1>6. NewLastCommon(p, last) \in S
    BY <1>3, <1>5, Zenon
  <1> QED BY <1>1, <1>2, <1>6, Zenon

-----------------------------------------------------------------------------
(* The node's own pointers into the tree.                                   *)
Pointers ==
    /\ tip \in Block
    /\ common \in [Peer -> Block \cup {NoBlock}]
    /\ pindexLastAccepted \in Block \cup {NoBlock}

(* A handler under way moves the tip and pindexLastAccepted only to the     *)
(* block it processes.                                                      *)
LEMMA HandlePointers ==
    ASSUME Inv, Pointers, Handle
    PROVE  Pointers'
  <1>1. CASE ProcessNewBlock
    <2>1. handler.block \in Block
      BY <1>1, Zenon DEF ProcessNewBlock, Inv, IInv, Processing
    <2>2. /\ tip' \in {tip, handler.block} /\ common' = common
          /\ pindexLastAccepted' \in {pindexLastAccepted, handler.block, NoBlock}
      BY <1>1, Zenon DEF ProcessNewBlock, ActivateBestChain
    <2> QED BY <2>1, <2>2, Zenon DEF Pointers
  <1>2. CASE SelectNext \/ LoopEnds \/ MarkReconstructed \/ \E prev \in Block : SelectByScan(prev) \/ DropWaiting(prev)
    <2>1. UNCHANGED <<tip, common, pindexLastAccepted>>
      BY <1>2, Zenon DEF SelectNext, LoopEnds, MarkReconstructed, SelectByScan, DropWaiting, Select
    <2> QED BY <2>1, Zenon DEF Pointers
  <1> QED BY <1>1, <1>2, Zenon DEF Handle

(* SendMessages keeps a block of the peer's branch as the last common one.  *)
LEMMA NodePointers ==
    ASSUME Inv, Pointers, NEW p \in Peer, Node(p)
    PROVE  Pointers'
  <1>1. CASE SendMessages(p)
    <2>1. best[p] \in Block
      BY <1>1, Zenon DEF SendMessages, Interesting, Inv, IInv, Types
    <2>2. NewLastCommon(p, LastCommon(p)) \in Block
      BY <2>1, LastCommonOf, AncestorOf, Zenon DEF Pointers
    <2>3. /\ common' = [common EXCEPT ![p] = NewLastCommon(p, LastCommon(p))]
          /\ tip' = tip /\ pindexLastAccepted' = pindexLastAccepted
      BY <1>1, Zenon DEF SendMessages
    <2> QED BY <2>2, <2>3, Zenon DEF Pointers
  <1>2. CASE FinalizeNode(p)
    BY <1>2, Zenon DEF FinalizeNode, Pointers
  <1>3. CASE InitializeNode(p) \/ Disconnect(p)
    BY <1>3, Zenon DEF InitializeNode, Disconnect, Pointers
  <1> QED BY <1>1, <1>2, <1>3, Zenon DEF Node, GivesUp, StallTimeout, DownloadTimeout

(* A message sets at most pindexLastAccepted, to the tip.                   *)
LEMMA MessagePointers ==
    ASSUME Pointers, NEW p \in Peer, AnyPeer(p) \/ ProcessHeadersMessage(p, Target) \/ Answer(p)
    PROVE  Pointers'
  <1>1. /\ tip' = tip /\ common' \in {common, [common EXCEPT ![p] = NoBlock]}
        /\ pindexLastAccepted' \in {pindexLastAccepted, tip}
    <2>1. CASE AnyPeer(p)
      BY <2>1, Zenon DEF AnyPeer, Disconnect, ProcessHeadersMessage, AcceptHeaders, BlockMessage,
                         RefuseHeader, CompactBlock, FarCompactBlock, BlockTxn
    <2>2. CASE ProcessHeadersMessage(p, Target)
      BY <2>2, Zenon DEF ProcessHeadersMessage, AcceptHeaders
    <2>3. CASE Answer(p)
      BY <2>3, Zenon DEF Answer, BlockMessage
    <2> QED BY <2>1, <2>2, <2>3, Zenon
  <1> QED BY <1>1, Zenon DEF Pointers

(* The node's pointers into the tree are always blocks of the tree: in      *)
(* particular the last common block that FindNextBlocksToDownload starts    *)
(* from exists, however the peer's best block and the tip have moved since. *)
THEOREM TypeCorrect == Spec => []TypeOK
  <1>1. Init => Pointers
    <2>1. Genesis \in Block
      BY TreeAssumption, Zenon DEF TreeAssumption
    <2> QED BY <2>1, Zenon DEF Init, Pointers
  <1>2. Inv /\ Pointers /\ [Next]_vars => Pointers'
    <2> SUFFICES ASSUME Inv, Pointers, [Next]_vars PROVE Pointers'
      BY Zenon
    <2>1. CASE Handle
      BY <2>1, HandlePointers, Zenon
    <2>a. ASSUME NEW b \in Local, SubmitBlock(b)
          PROVE  Pointers'
      <3>1. b \in Block
        BY DownloadAssumption, Zenon DEF DownloadAssumption
      <3>2. tip' \in {tip, b} /\ common' = common /\ pindexLastAccepted' = pindexLastAccepted
        BY <2>a, Zenon DEF SubmitBlock, ActivateBestChain
      <3> QED BY <3>1, <3>2, Zenon DEF Pointers
    <2>2. CASE \E p \in Peer : Node(p)
      BY <2>2, NodePointers, Zenon
    <2>3. ASSUME NEW p \in Honest, HonestPeer(p)
          PROVE  Pointers'
      <3>1. p \in Peer
        BY DownloadAssumption, Zenon DEF DownloadAssumption
      <3> QED BY <2>3, <3>1, MessagePointers, Zenon DEF HonestPeer
    <2>4. CASE \E p \in Peer \ Honest : AnyPeer(p)
      BY <2>4, MessagePointers, Zenon
    <2>5. CASE UNCHANGED vars
      BY <2>5, Zenon DEF vars, Pointers
    <2> QED BY <2>1, <2>a, <2>2, <2>3, <2>4, <2>5, Zenon DEF Next
  <1>3. Inv /\ Pointers => TypeOK
    BY Zenon DEF Inv, OwedBlocks, IInv, Types, Status, Sane, Pointers, TypeOK
  <1> QED BY <1>1, <1>2, <1>3, Invariance, PTL DEF Spec
=============================================================================
