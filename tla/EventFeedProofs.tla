---------------------------- MODULE EventFeedProofs ----------------------------
(***************************************************************************)
(* Proofs about EventFeed, for any number of transactions, accounts and    *)
(* streams, any filter, page size and grace window.                        *)
(***************************************************************************)
EXTENDS EventFeed, FiniteSetTheorems, SequenceTheorems, WellFoundedInduction, TLAPS

-------------------------------------------------------------------------------
(* Lists of events.                                                        *)

\* A set of numbers with an upper bound has a greatest element.
LEMMA Greatest ==
    ASSUME NEW S, NEW f \in [S -> Nat], NEW bound \in Nat, S # {}, \A x \in S : f[x] <= bound
    PROVE  \E x \in S : \A y \in S : f[y] <= f[x]
<1> DEFINE T == {bound - f[x] : x \in S}
<1> DEFINE R == {ss \in Nat \X Nat : ss[1] < ss[2]}
<1>0. IsWellFoundedOn(R, Nat)
  BY NatLessThanWellFounded, Zenon DEF OpToRel
<1>1. T \subseteq Nat /\ T # {}
  OBVIOUS
<1> HIDE DEF R
<1>2. PICK m \in T : \A n \in T : ~ (<<n, m>> \in R)
  <2> HIDE DEF T
  <2> QED  BY <1>0, <1>1, WFMin, Zenon
<1>3. ASSUME NEW n \in T PROVE m <= n
  <2>1. n \in Nat /\ m \in Nat /\ ~ (<<n, m>> \in R)
    BY <1>1, <1>2
  <2> HIDE DEF T
  <2> QED  BY <2>1 DEF R
<1>4. PICK x \in S : m = bound - f[x]
  OBVIOUS
<1>5. \A y \in S : bound - f[y] \in T
  OBVIOUS
<1> HIDE DEF T
<1>6. ASSUME NEW y \in S PROVE f[y] <= f[x]
  <2>1. bound - f[x] <= bound - f[y]
    BY <1>3, <1>4, <1>5
  <2> QED  BY <2>1
<1> QED  BY <1>6

\* What a list holds.
LEMMA RangeOf ==
    ASSUME NEW S, NEW q \in Seq(S)
    PROVE  /\ Range(q) \subseteq S
           /\ \A i \in 1 .. Len(q) : q[i] \in Range(q)
           /\ \A x \in Range(q) : \E i \in 1 .. Len(q) : q[i] = x
           /\ q # <<>> => Len(q) \in 1 .. Len(q) /\ Last(q) \in Range(q) /\ Head(q) \in Range(q)
<1>1. q \in [1 .. Len(q) -> S] /\ Len(q) \in Nat
  OBVIOUS
<1>2. q # <<>> => Len(q) \in 1 .. Len(q) /\ 1 \in 1 .. Len(q)
  BY EmptySeq
<1>3. q # <<>> => Head(q) = q[1]
  OBVIOUS
<1> QED  BY <1>1, <1>2, <1>3 DEF Range, Last

\* Two lists one after the other.
LEMMA RangeOfConcat ==
    ASSUME NEW S, NEW p \in Seq(S), NEW q \in Seq(S)
    PROVE  p \o q \in Seq(S) /\ Range(p \o q) = Range(p) \cup Range(q)
<1>1. p \o q \in Seq(S) /\ Len(p \o q) = Len(p) + Len(q) /\ Len(p) \in Nat /\ Len(q) \in Nat
  OBVIOUS
<1>2. \A i \in 1 .. Len(p) : (p \o q)[i] = p[i] /\ i \in 1 .. Len(p \o q)
  BY <1>1
<1>3. \A i \in 1 .. Len(q) : (p \o q)[Len(p) + i] = q[i] /\ Len(p) + i \in 1 .. Len(p \o q)
  BY <1>1
<1>4. ASSUME NEW x \in Range(p \o q) PROVE x \in Range(p) \cup Range(q)
  <2>1. PICK i \in 1 .. Len(p \o q) : (p \o q)[i] = x
    BY <1>1, RangeOf
  <2>2. CASE i <= Len(p)
    <3>1. i \in 1 .. Len(p) /\ p[i] = x
      BY <1>1, <1>2, <2>1, <2>2
    <3> QED  BY <3>1, RangeOf
  <2>3. CASE ~ (i <= Len(p))
    <3>1. i - Len(p) \in 1 .. Len(q) /\ Len(p) + (i - Len(p)) = i
      BY <1>1, <2>1, <2>3
    <3>2. q[i - Len(p)] = x
      BY <1>3, <2>1, <3>1
    <3> QED  BY <3>1, <3>2, RangeOf
  <2> QED  BY <2>2, <2>3
<1>5. ASSUME NEW x \in Range(p) PROVE x \in Range(p \o q)
  <2>1. PICK i \in 1 .. Len(p) : p[i] = x
    BY RangeOf
  <2> QED  BY <1>1, <1>2, <2>1, RangeOf
<1>6. ASSUME NEW x \in Range(q) PROVE x \in Range(p \o q)
  <2>1. PICK i \in 1 .. Len(q) : q[i] = x
    BY RangeOf
  <2> QED  BY <1>1, <1>3, <2>1, RangeOf
<1> QED  BY <1>1, <1>4, <1>5, <1>6

\* Moving the first of one list to the end of another leaves their concatenation as it was.
LEMMA MoveHead ==
    ASSUME NEW S, NEW p \in Seq(S), NEW q \in Seq(S), q # <<>>
    PROVE  /\ Append(p, Head(q)) \in Seq(S) /\ Tail(q) \in Seq(S)
           /\ Append(p, Head(q)) \o Tail(q) = p \o q
<1>1. Append(p, Head(q)) \in Seq(S) /\ Tail(q) \in Seq(S) /\ Head(q) = q[1] /\ Len(q) \in Nat \ {0}
  BY EmptySeq
<1> DEFINE l == Append(p, Head(q)) \o Tail(q)
           r == p \o q
<1>2. l \in Seq(S) /\ r \in Seq(S) /\ Len(l) = Len(p) + Len(q) /\ Len(r) = Len(p) + Len(q) /\ Len(p) \in Nat
  BY <1>1
<1>3. ASSUME NEW i \in 1 .. Len(p) + Len(q) PROVE l[i] = r[i]
  <2>1. CASE i <= Len(p)
    BY <1>1, <1>2, <2>1
  <2>2. CASE i = Len(p) + 1
    BY <1>1, <1>2, <2>2
  <2>3. CASE i > Len(p) + 1
    <3>1. r[i] = q[i - Len(p)]
      BY <1>1, <1>2, <2>3
    <3>2. l[i] = Tail(q)[i - (Len(p) + 1)]
      BY <1>1, <1>2, <2>3
    <3>3. Tail(q)[i - (Len(p) + 1)] = q[i - Len(p)]
      BY <1>1, <1>2, <2>3
    <3> QED  BY <3>1, <3>2, <3>3
  <2> QED  BY <1>2, <2>1, <2>2, <2>3
<1> QED
  <2> HIDE DEF l, r
  <2>1. l = r
    BY <1>2, <1>3, SeqEqual
  <2> QED  BY <1>1, <2>1 DEF l, r

-------------------------------------------------------------------------------
(* Types.                                                                  *)

TypeInv == TypeOK /\ wire \in [Streams -> Seq(Txs)] /\ got \in [Streams -> Seq(Txs)]

LEMMA Counts ==
    /\ Cardinality(Txs) \in Nat /\ Cardinality(Streams) \in Nat
    /\ \A S \in SUBSET Txs : IsFiniteSet(S) /\ Cardinality(S) \in Nat /\ Cardinality(S) <= Cardinality(Txs)
    /\ \A S \in SUBSET Streams : IsFiniteSet(S) /\ Cardinality(S) \in Nat
  BY EventFeedAssumption, FS_CardinalityType, FS_Subset

\* A transaction's row has numbers in it.
LEMMA TxParts ==
    ASSUME TypeInv, NEW t \in Txs
    PROVE  /\ tx[t] \in Tx /\ tx[t].seq \in Nat /\ tx[t].seq <= Cardinality(Txs)
           /\ tx[t].created_at \in Nat /\ tx[t].ended_at \in Nat
           /\ now \in Nat /\ lastSeq \in Nat
  BY Counts, EventFeedAssumption DEF TypeInv, TypeOK, Tx

\* Where a list in the order of the numbers holds the greatest of them.
LEMMA LastIsGreatest ==
    ASSUME TypeInv, NEW q \in Seq(Txs), Increasing(q), q # <<>>
    PROVE  Last(q) \in Range(q) /\ \A u \in Range(q) : tx[u].seq <= tx[Last(q)].seq
<1>1. Last(q) \in Range(q) /\ Len(q) \in 1 .. Len(q) /\ Len(q) \in Nat /\ DOMAIN q = 1 .. Len(q)
  BY RangeOf
<1>2. ASSUME NEW u \in Range(q) PROVE tx[u].seq <= tx[Last(q)].seq
  <2>1. PICK i \in 1 .. Len(q) : q[i] = u
    BY RangeOf
  <2>2. CASE i = Len(q)
    <3>1. u = Last(q) /\ u \in Txs
      BY <2>1, <2>2, RangeOf DEF Last
    <3>2. tx[u].seq \in Nat
      BY <3>1, TxParts
    <3>3. tx[Last(q)].seq = tx[u].seq
      BY <3>1
    <3> QED  BY <3>2, <3>3
  <2>3. CASE i < Len(q)
    <3>1. tx[q[i]].seq < tx[q[Len(q)]].seq
      BY <1>1, <2>3 DEF Increasing
    <3>2. u \in Txs /\ Last(q) \in Txs
      BY <1>1, RangeOf
    <3> QED  BY <2>1, <3>1, <3>2, TxParts DEF Last
  <2>4. i = Len(q) \/ i < Len(q)
    <3>1. Len(q) \in Nat /\ i \in 1 .. Len(q)
      BY <1>1
    <3> QED  BY <3>1
  <2> QED  BY <2>2, <2>3, <2>4
<1> QED  BY <1>1, <1>2

\* What ORDER BY seq lists: all of the set, in the order of the numbers.
LEMMA ListOf ==
    ASSUME NEW S \in SUBSET Txs, NEW q \in BySeq(S)
    PROVE  q \in Seq(S) /\ q \in Seq(Txs) /\ Range(q) = S /\ Increasing(q)
<1>1. q \in [1 .. Cardinality(S) -> S] /\ Range(q) = S /\ Increasing(q)
  BY DEF BySeq
<1>2. Cardinality(S) \in Nat
  BY Counts
<1>3. q \in Seq(S)
  BY <1>1, <1>2
<1> QED  BY <1>1, <1>3, SeqMonotonic

\* What a poll reads: events of the account past the cursor and older than the grace window, in
\* the order of their numbers; none of those up to the last it read is left out.
LEMMA PageOf ==
    ASSUME TypeInv, NEW after \in Nat, NEW evs \in ListEventsAfterSeq(after)
    PROVE  /\ evs \in Seq(Txs) /\ Increasing(evs)
           /\ Range(evs) \subseteq {t \in Aged \cap Own : tx[t].seq > after}
           /\ evs # <<>> => \A t \in Aged \cap Own :
                 tx[t].seq > after /\ tx[t].seq <= tx[Last(evs)].seq => t \in Range(evs)
<1> DEFINE S == {t \in Aged \cap Own : tx[t].seq > after}
<1>1. S \in SUBSET Txs
  BY DEF Aged
<1>2. PICK q \in BySeq(S) : evs = Page(q)
  BY DEF ListEventsAfterSeq
<1>3. q \in Seq(S) /\ q \in Seq(Txs) /\ Range(q) = S /\ Increasing(q)
  BY <1>1, <1>2, ListOf
<1> DEFINE k == IF Len(q) < Lim THEN Len(q) ELSE Lim
<1>4. k \in Nat /\ k <= Len(q) /\ Len(q) \in Nat
  BY <1>3, EventFeedAssumption
<1>5. evs = SubSeq(q, 1, k)
  BY <1>2 DEF Page
<1> HIDE DEF S, k
<1>6. evs \in Seq(S) /\ Len(evs) = k /\ \A i \in 1 .. k : evs[i] = q[i]
  BY <1>3, <1>4, <1>5
<1>7. evs \in Seq(Txs) /\ Range(evs) \subseteq S
  BY <1>1, <1>6, SeqMonotonic, RangeOf
<1>8. DOMAIN evs = 1 .. k /\ DOMAIN q = 1 .. Len(q)
  BY <1>3, <1>6
<1>9. Increasing(evs)
  <2>1. \A i, j \in 1 .. k : i < j => tx[q[i]].seq < tx[q[j]].seq
    BY <1>3, <1>4, <1>8 DEF Increasing
  <2> QED  BY <1>6, <1>8, <2>1 DEF Increasing
<1>10. ASSUME evs # <<>>, NEW t \in S, tx[t].seq <= tx[Last(evs)].seq PROVE t \in Range(evs)
  <2>1. k \in 1 .. k /\ Last(evs) = q[k]
    BY <1>6, <1>10, EmptySeq DEF Last
  <2>2. PICK i \in 1 .. Len(q) : q[i] = t
    BY <1>3, RangeOf
  <2>3. i <= k
    <3> SUFFICES ASSUME k < i PROVE FALSE
      BY <1>4
    <3>1. tx[q[k]].seq < tx[q[i]].seq
      BY <1>3, <1>4, <1>8, <2>1 DEF Increasing
    <3>2. q[k] \in Txs /\ q[i] \in Txs
      BY <1>3, <1>4, <2>1, ElementOfSeq
    <3> QED  BY <1>10, <2>1, <2>2, <3>1, <3>2, TxParts
  <2> QED  BY <1>4, <1>6, <2>2, <2>3, RangeOf
<1> QED  BY <1>7, <1>9, <1>10 DEF S

\* The hub's counter is the number of open connections.
OpenStreams == {s \in Streams : stream[s].open}

LEMMA AcquireCounts ==
    ASSUME TypeInv, NEW s \in Streams, NEW cursor \in 0 .. Cardinality(Txs),
           ~stream[s].open, acquire, stream' = [stream EXCEPT ![s] = [open |-> TRUE, cursor |-> cursor]]
    PROVE  perUser' = Cardinality({c \in Streams : stream'[c].open}) /\ perUser' <= MaxConn
<1>1. {c \in Streams : stream'[c].open} = OpenStreams \cup {s} /\ s \notin OpenStreams
  BY DEF OpenStreams, TypeInv, TypeOK, Stream
<1>2. IsFiniteSet(OpenStreams) /\ Cardinality(OpenStreams) \in Nat /\ perUser = Cardinality(OpenStreams)
  BY Counts DEF OpenStreams, TypeInv, TypeOK
<1>3. Cardinality(OpenStreams \cup {s}) = Cardinality(OpenStreams) + 1
  BY <1>1, <1>2, FS_AddElement
<1>4. MaxConn \in Nat /\ perUser < MaxConn /\ perUser' = perUser + 1
  BY EventFeedAssumption DEF acquire
<1> DEFINE n == Cardinality(OpenStreams)
<1>5. Cardinality({c \in Streams : stream'[c].open}) = n + 1
  BY <1>1, <1>3
<1>6. n \in Nat /\ perUser = n
  BY <1>2
<1> HIDE DEF n
<1> QED  BY <1>4, <1>5, <1>6

LEMMA ReleaseCounts ==
    ASSUME TypeInv, NEW s \in Streams, stream[s].open, release,
           stream' = [stream EXCEPT ![s].open = FALSE]
    PROVE  perUser' = Cardinality({c \in Streams : stream'[c].open}) /\ perUser' <= MaxConn
<1>1. {c \in Streams : stream'[c].open} = OpenStreams \ {s} /\ s \in OpenStreams
  BY DEF OpenStreams, TypeInv, TypeOK, Stream
<1>2. IsFiniteSet(OpenStreams) /\ Cardinality(OpenStreams) \in Nat /\ perUser = Cardinality(OpenStreams)
  BY Counts DEF OpenStreams, TypeInv, TypeOK
<1>3. Cardinality(OpenStreams \ {s}) = Cardinality(OpenStreams) - 1
  BY <1>1, <1>2, FS_RemoveElement
<1>4. Cardinality(OpenStreams) # 0
  BY <1>1, <1>2, FS_EmptySet
<1>5. MaxConn \in Nat /\ perUser <= MaxConn
  BY EventFeedAssumption DEF TypeInv, TypeOK
<1> DEFINE n == Cardinality(OpenStreams)
<1>6. Cardinality({c \in Streams : stream'[c].open}) = n - 1
  BY <1>1, <1>3
<1>7. n \in Nat /\ n # 0 /\ perUser = n
  BY <1>2, <1>4
<1> HIDE DEF n
<1> QED  BY <1>5, <1>6, <1>7 DEF release

\* A stream that moves its cursor stays open.
LEMMA CursorMoves ==
    ASSUME TypeInv, NEW s \in Streams, NEW n \in 0 .. Cardinality(Txs),
           stream' = [stream EXCEPT ![s].cursor = n]
    PROVE  /\ stream' \in [Streams -> Stream]
           /\ \A c \in Streams : stream'[c].open = stream[c].open
           /\ {c \in Streams : stream'[c].open} = {c \in Streams : stream[c].open}
  BY DEF TypeInv, TypeOK, Stream

\* The head of the feed is the number of one of the events that are old enough, and no number of
\* theirs is greater.
LEMMA HeadOf ==
    ASSUME TypeInv
    PROVE  /\ MaxEventSeq \in 0 .. Cardinality(Txs)
           /\ \A u \in Aged : tx[u].seq <= MaxEventSeq
<1>1. CASE Aged = {}
  BY <1>1, Counts DEF MaxEventSeq
<1>2. CASE Aged # {}
  <2> DEFINE f == [t \in Aged |-> tx[t].seq]
  <2>1. Aged \subseteq Txs
    BY DEF Aged
  <2>2. f \in [Aged -> Nat] /\ \A t \in Aged : f[t] <= Cardinality(Txs)
    BY <2>1, TxParts
  <2>3. \E t \in Aged : \A u \in Aged : f[u] <= f[t]
    <3> HIDE DEF f
    <3> QED  BY <1>2, <2>2, Counts, Greatest
  <2>4. \E t \in Aged : \A u \in Aged : tx[u].seq <= tx[t].seq
    BY <2>3
  <2> DEFINE m == CHOOSE t \in Aged : \A u \in Aged : tx[u].seq <= tx[t].seq
  <2>5. m \in Aged /\ \A u \in Aged : tx[u].seq <= tx[m].seq
    BY <2>4
  <2>6. MaxEventSeq = tx[m].seq
    BY <1>2 DEF MaxEventSeq
  <2> HIDE DEF m
  <2>7. m \in Txs /\ tx[m].seq \in Nat /\ tx[m].seq <= Cardinality(Txs)
    BY <2>1, <2>5, TxParts
  <2> QED  BY <2>5, <2>6, <2>7, Counts
<1> QED  BY <1>1, <1>2

\* A stream starts at the number of an event or at 0.
LEMMA StartType ==
    ASSUME TypeInv, NEW s \in Streams, NEW failed, NEW head \in {MaxEventSeq, 0},
           NEW cursor \in Resume(s, head, failed)
    PROVE  cursor \in 0 .. Cardinality(Txs)
<1>1. head \in 0 .. Cardinality(Txs)
  BY HeadOf, Counts
<1>2. CASE got[s] = <<>>
  BY <1>1, <1>2 DEF Resume
<1>3. CASE got[s] # <<>>
  <2>1. Last(got[s]) \in Txs
    BY <1>3, RangeOf DEF TypeInv
  <2>2. Place(s) \in 0 .. Cardinality(Txs)
    BY <1>3, <2>1, TxParts, Counts DEF Place
  <2> QED  BY <1>1, <1>3, <2>2 DEF Resume
<1> QED  BY <1>2, <1>3

\* Numbers are drawn in turn: there are as many as events that drew one.
Numbered == {t \in Txs : tx[t].seq > 0}

LEMMA InsertCounts ==
    ASSUME TypeInv, lastSeq = Cardinality(Numbered), NEW t \in Txs, tx[t].seq = 0, InsertEvent(t)
    PROVE  /\ lastSeq' = lastSeq + 1 /\ lastSeq' = Cardinality(Numbered') /\ lastSeq' <= Cardinality(Txs)
           /\ tx' \in [Txs -> Tx]
           /\ tx'[t] = [tx[t] EXCEPT !.pc = "inserted", !.seq = lastSeq + 1]
           /\ \A u \in Txs \ {t} : tx'[u] = tx[u]
<1>1. lastSeq' = lastSeq + 1 /\ lastSeq \in Nat /\ tx \in [Txs -> Tx]
  BY TxParts DEF InsertEvent, TypeInv, TypeOK
<1>2. tx' = [tx EXCEPT ![t] = [tx[t] EXCEPT !.pc = "inserted", !.seq = lastSeq + 1]]
  BY <1>1 DEF InsertEvent
<1>3. tx'[t].seq = lastSeq + 1 /\ \A u \in Txs \ {t} : tx'[u] = tx[u]
  BY <1>1, <1>2 DEF Tx
<1>4. Numbered' = Numbered \cup {t} /\ t \notin Numbered /\ Numbered' \in SUBSET Txs
  BY <1>1, <1>3 DEF Numbered
<1>5. IsFiniteSet(Numbered)
  BY Counts DEF Numbered
<1>6. Cardinality(Numbered') = Cardinality(Numbered) + 1
  BY <1>4, <1>5, FS_AddElement
<1>7. lastSeq' = Cardinality(Numbered') /\ lastSeq' <= Cardinality(Txs)
  BY <1>1, <1>4, <1>6, Counts
<1>8. lastSeq + 1 \in 0 .. Cardinality(Txs)
  BY <1>1, <1>7, Counts
<1>9. [tx[t] EXCEPT !.pc = "inserted", !.seq = lastSeq + 1] \in Tx
  BY <1>1, <1>8 DEF Tx
<1> QED  BY <1>1, <1>2, <1>3, <1>7, <1>9

\* The numbers of the events are drawn one after the other and never given back.
NumbersInv ==
    /\ lastSeq = Cardinality(Numbered)
    /\ \A t \in Txs : tx[t].seq <= lastSeq
    /\ \A t \in Txs : tx[t].pc \in {"none", "open"} => tx[t].seq = 0
    /\ \A t \in Txs : tx[t].pc \in {"inserted", "committed", "purged"} => tx[t].seq > 0
    /\ \A t, u \in Txs : tx[t].seq > 0 /\ tx[t].seq = tx[u].seq => t = u

LEMMA InitType == Init => TypeInv /\ NumbersInv
<1> SUFFICES ASSUME Init PROVE TypeInv /\ NumbersInv
  OBVIOUS
<1>1. 0 \in 0 .. MaxNow /\ 0 \in 0 .. Cardinality(Txs) /\ 0 \in 0 .. MaxDrops /\ 0 <= MaxConn
  BY EventFeedAssumption, Counts
<1>2. tx \in [Txs -> Tx] /\ \A t \in Txs : tx[t].seq = 0 /\ tx[t].pc = "none"
  BY <1>1 DEF Init, Tx
<1>3. stream \in [Streams -> Stream] /\ {s \in Streams : stream[s].open} = {}
  BY <1>1 DEF Init, Stream
<1>4. Numbered = {}
  BY <1>2 DEF Numbered
<1>5. \A s \in Streams : Range(wire[s]) = {} /\ Range(got[s]) = {}
  BY DEF Init, Range
<1>6. wire \in [Streams -> Seq(Txs)] /\ got \in [Streams -> Seq(Txs)]
  BY DEF Init
<1>7. TypeInv
  BY <1>1, <1>2, <1>3, <1>5, <1>6, FS_EmptySet DEF Init, TypeInv, TypeOK
<1>8. NumbersInv
  BY <1>2, <1>4, FS_EmptySet DEF Init, NumbersInv
<1> QED  BY <1>7, <1>8

\* A step that changes one row and not its number.
LEMMA RowMoves ==
    ASSUME TypeInv, NEW t \in Txs, NEW row \in Tx, row.seq = tx[t].seq, tx' = [tx EXCEPT ![t] = row]
    PROVE  /\ tx' \in [Txs -> Tx] /\ tx'[t] = row /\ \A u \in Txs \ {t} : tx'[u] = tx[u]
           /\ Numbered' = Numbered
<1>1. tx' \in [Txs -> Tx] /\ tx'[t] = row /\ \A u \in Txs \ {t} : tx'[u] = tx[u]
  BY DEF TypeInv, TypeOK
<1>2. \A u \in Txs : tx'[u].seq = tx[u].seq
  BY <1>1
<1> QED  BY <1>1, <1>2 DEF Numbered

\* What each action of a mutation does to its row.
LEMMA BeginRow ==
    ASSUME TypeInv, NEW t \in Txs, Begin(t)
    PROVE  /\ tx' \in [Txs -> Tx] /\ Numbered' = Numbered
           /\ tx[t].pc = "none" /\ tx'[t].pc = "open" /\ tx'[t].created_at = now
           /\ tx'[t].ended_at = tx[t].ended_at /\ tx'[t].seq = tx[t].seq
           /\ \A u \in Txs \ {t} : tx'[u] = tx[u]
<1> DEFINE row == [tx[t] EXCEPT !.pc = "open", !.created_at = now]
<1>1. tx \in [Txs -> Tx] /\ now \in 0 .. MaxNow
  BY DEF TypeInv, TypeOK
<1>2. /\ row \in Tx /\ row.seq = tx[t].seq /\ row.pc = "open" /\ row.created_at = now
      /\ row.ended_at = tx[t].ended_at
  BY <1>1 DEF Tx
<1>3. tx' = [tx EXCEPT ![t] = row] /\ tx[t].pc = "none"
  BY <1>1 DEF Begin
<1> HIDE DEF row
<1> QED  BY <1>2, <1>3, RowMoves

LEMMA EndRow ==
    ASSUME TypeInv, NEW t \in Txs, End(t)
    PROVE  /\ tx' \in [Txs -> Tx] /\ Numbered' = Numbered
           /\ \/ tx[t].pc = "inserted" /\ tx'[t].pc = "committed"
              \/ Unended(t) /\ tx'[t].pc = "aborted"
           /\ tx'[t].created_at = tx[t].created_at /\ tx'[t].ended_at = now /\ tx'[t].seq = tx[t].seq
           /\ \A u \in Txs \ {t} : tx'[u] = tx[u]
<1>1. tx \in [Txs -> Tx] /\ now \in 0 .. MaxNow
  BY DEF TypeInv, TypeOK
<1>2. PICK pc \in {"committed", "aborted"} :
         /\ tx' = [tx EXCEPT ![t].pc = pc, ![t].ended_at = now]
         /\ \/ tx[t].pc = "inserted" /\ pc = "committed"
            \/ Unended(t) /\ pc = "aborted"
  BY DEF End, Unended
<1> DEFINE row == [tx[t] EXCEPT !.pc = pc, !.ended_at = now]
<1>3. /\ row \in Tx /\ row.seq = tx[t].seq /\ row.pc = pc /\ row.ended_at = now
      /\ row.created_at = tx[t].created_at
  BY <1>1 DEF Tx
<1>4. tx' = [tx EXCEPT ![t] = row]
  BY <1>1, <1>2
<1> HIDE DEF row
<1> QED  BY <1>2, <1>3, <1>4, RowMoves

LEMMA PurgeRow ==
    ASSUME TypeInv, NEW t \in Txs, PurgeOldEvents(t)
    PROVE  /\ tx' \in [Txs -> Tx] /\ Numbered' = Numbered
           /\ tx[t].pc = "committed" /\ tx'[t].pc = "purged" /\ tx[t].created_at < now - Retention
           /\ tx'[t].created_at = tx[t].created_at /\ tx'[t].ended_at = tx[t].ended_at
           /\ tx'[t].seq = tx[t].seq
           /\ \A u \in Txs \ {t} : tx'[u] = tx[u]
<1> DEFINE row == [tx[t] EXCEPT !.pc = "purged"]
<1>1. tx \in [Txs -> Tx]
  BY DEF TypeInv, TypeOK
<1>2. /\ row \in Tx /\ row.seq = tx[t].seq /\ row.pc = "purged" /\ row.ended_at = tx[t].ended_at
      /\ row.created_at = tx[t].created_at
  BY <1>1 DEF Tx
<1>3. tx' = [tx EXCEPT ![t] = row] /\ tx[t].pc = "committed" /\ tx[t].created_at < now - Retention
  BY <1>1 DEF PurgeOldEvents, Visible
<1> HIDE DEF row
<1> QED  BY <1>2, <1>3, RowMoves

\* What a poll does.
PollsWith(s, evs, sent) ==
    /\ evs # <<>> /\ Increasing(sent)
    /\ Last(evs) \in Range(evs)
    /\ \A u \in Range(evs) : u \in Aged \cap Own /\ tx[u].seq > stream[s].cursor /\ tx[u].seq <= tx[Last(evs)].seq
    /\ \A u \in Aged \cap Own : tx[u].seq > stream[s].cursor /\ tx[u].seq <= tx[Last(evs)].seq => u \in Range(evs)
    /\ Range(sent) = Range(evs) \cap Wants[s]
    /\ wire' = [wire EXCEPT ![s] = wire[s] \o sent]
    /\ stream' = [stream EXCEPT ![s].cursor = tx[Last(evs)].seq]
    /\ skipped' = [skipped EXCEPT ![s] =
                      skipped[s] \cup (Passed(s, stream[s].cursor, tx[Last(evs)].seq) \ Range(evs))]

LEMMA PollReads ==
    ASSUME TypeInv, NEW s \in Streams, Poll(s)
    PROVE  \E evs, sent \in Seq(Txs) : PollsWith(s, evs, sent)
<1>1. PICK evs \in ListEventsAfterSeq(stream[s].cursor) : \E sent \in BySeq(Range(evs) \cap Wants[s]) :
         /\ evs # <<>>
         /\ wire' = [wire EXCEPT ![s] = @ \o sent]
         /\ stream' = [stream EXCEPT ![s].cursor = tx[Last(evs)].seq]
         /\ skipped' = [skipped EXCEPT ![s] =
                           @ \cup (Passed(s, stream[s].cursor, tx[Last(evs)].seq) \ Range(evs))]
  BY DEF Poll
<1>2. PICK sent \in BySeq(Range(evs) \cap Wants[s]) :
         /\ evs # <<>>
         /\ wire' = [wire EXCEPT ![s] = @ \o sent]
         /\ stream' = [stream EXCEPT ![s].cursor = tx[Last(evs)].seq]
         /\ skipped' = [skipped EXCEPT ![s] =
                           @ \cup (Passed(s, stream[s].cursor, tx[Last(evs)].seq) \ Range(evs))]
  BY <1>1
<1>3. stream[s].cursor \in Nat
  BY Counts DEF TypeInv, TypeOK, Stream
<1>4. /\ evs \in Seq(Txs) /\ Increasing(evs)
      /\ Range(evs) \subseteq {t \in Aged \cap Own : tx[t].seq > stream[s].cursor}
      /\ \A t \in Aged \cap Own :
            tx[t].seq > stream[s].cursor /\ tx[t].seq <= tx[Last(evs)].seq => t \in Range(evs)
  BY <1>2, <1>3, PageOf
<1>5. Last(evs) \in Range(evs) /\ \A u \in Range(evs) : tx[u].seq <= tx[Last(evs)].seq
  BY <1>2, <1>4, LastIsGreatest
<1>6. Range(evs) \cap Wants[s] \in SUBSET Txs
  BY <1>4, RangeOf
<1>7. sent \in Seq(Txs) /\ Range(sent) = Range(evs) \cap Wants[s] /\ Increasing(sent)
  BY <1>6, ListOf
<1>8. wire' = [wire EXCEPT ![s] = wire[s] \o sent]
  BY <1>2 DEF TypeInv
<1>9. skipped' = [skipped EXCEPT ![s] =
                    skipped[s] \cup (Passed(s, stream[s].cursor, tx[Last(evs)].seq) \ Range(evs))]
  BY <1>2 DEF TypeInv, TypeOK
<1> QED  BY <1>2, <1>4, <1>5, <1>7, <1>8, <1>9 DEF PollsWith

\* How a stream starts.
StartsAt(s, failed, cursor) ==
    LET head == IF "MaxEventSeq" \in failed THEN 0 ELSE MaxEventSeq IN
    /\ cursor \in Resume(s, head, failed)
    /\ stream' = [stream EXCEPT ![s] = [open |-> TRUE, cursor |-> cursor]]
    /\ IF Unplaced(s, failed)
         THEN jumped' = [jumped EXCEPT ![s] = @ \cup Passed(s, Place(s), cursor)] /\ UNCHANGED skipped
         ELSE skipped' = [skipped EXCEPT ![s] = @ \cup Passed(s, Place(s), cursor)] /\ UNCHANGED jumped
    /\ rewound' = IF got[s] # <<>> /\ Unplaced(s, failed) /\ cursor = 0 /\ "MaxEventSeq" \in failed
                    THEN rewound \cup {s} ELSE rewound

LEMMA ConnectStarts ==
    ASSUME TypeInv, NEW s \in Streams, Connect(s)
    PROVE  /\ \E failed \in SUBSET {"MaxEventSeq", "GetEvent"} : \E cursor \in 0 .. Cardinality(Txs) :
                 StartsAt(s, failed, cursor)
           /\ drops' \in 0 .. MaxDrops
<1>1. PICK failed \in SUBSET {"MaxEventSeq", "GetEvent"} :
         LET head == IF "MaxEventSeq" \in failed THEN 0 ELSE MaxEventSeq IN
         /\ drops' = IF failed = {} THEN drops ELSE drops + 1
         /\ drops' <= MaxDrops
         /\ \E cursor \in Resume(s, head, failed) :
               LET passed == Passed(s, Place(s), cursor) IN
               /\ stream' = [stream EXCEPT ![s] = [open |-> TRUE, cursor |-> cursor]]
               /\ IF Unplaced(s, failed)
                    THEN jumped' = [jumped EXCEPT ![s] = @ \cup passed] /\ UNCHANGED skipped
                    ELSE skipped' = [skipped EXCEPT ![s] = @ \cup passed] /\ UNCHANGED jumped
               /\ rewound' = IF got[s] # <<>> /\ Unplaced(s, failed) /\ cursor = 0 /\ "MaxEventSeq" \in failed
                               THEN rewound \cup {s} ELSE rewound
  BY DEF Connect
<1> DEFINE head == IF "MaxEventSeq" \in failed THEN 0 ELSE MaxEventSeq
<1>2. PICK cursor \in Resume(s, head, failed) : StartsAt(s, failed, cursor)
  BY <1>1, Zenon DEF StartsAt
<1>3. head \in {MaxEventSeq, 0}
  OBVIOUS
<1>4. cursor \in 0 .. Cardinality(Txs)
  <2> HIDE DEF head
  <2> QED  BY <1>3, StartType
<1>5. drops' \in 0 .. MaxDrops
  BY <1>1, EventFeedAssumption DEF TypeInv, TypeOK
<1> QED  BY <1>2, <1>4, <1>5

\* The actions of a mutation leave the connections alone.
LEMMA MutationType ==
    ASSUME TypeInv, tx' \in [Txs -> Tx], now' \in 0 .. MaxNow, lastSeq' \in 0 .. Cardinality(Txs),
           UNCHANGED <<stream, perUser, wire, got, drops, skipped, jumped, rewound>>
    PROVE  TypeInv'
  BY DEF TypeInv, TypeOK

\* The actions of a connection leave the table alone.
LEMMA ConnectionNumbers == NumbersInv /\ UNCHANGED <<tx, lastSeq>> => NumbersInv'
  BY DEF NumbersInv, Numbered

LEMMA TypeStep == TypeInv /\ NumbersInv /\ [Next]_vars => TypeInv' /\ NumbersInv'
<1> SUFFICES ASSUME TypeInv, NumbersInv, [Next]_vars PROVE TypeInv' /\ NumbersInv'
  OBVIOUS
<1>1. CASE Tick
  <2>1. now' \in 0 .. MaxNow
    BY <1>1, EventFeedAssumption DEF Tick, TypeInv, TypeOK
  <2>2. tx' = tx /\ lastSeq' = lastSeq /\ UNCHANGED <<stream, perUser, wire, got, drops, skipped, jumped, rewound>>
    BY <1>1 DEF Tick
  <2>3. tx' \in [Txs -> Tx] /\ lastSeq' \in 0 .. Cardinality(Txs)
    BY <2>2 DEF TypeInv, TypeOK
  <2> QED  BY <2>1, <2>2, <2>3, MutationType, ConnectionNumbers
<1>2. ASSUME NEW t \in Txs, Begin(t) PROVE TypeInv' /\ NumbersInv'
  <2>1. /\ tx' \in [Txs -> Tx] /\ Numbered' = Numbered /\ tx'[t].pc = "open" /\ tx[t].pc = "none"
        /\ tx'[t].seq = tx[t].seq /\ \A u \in Txs \ {t} : tx'[u] = tx[u]
    BY <1>2, BeginRow
  <2>2. UNCHANGED <<now, lastSeq, stream, perUser, wire, got, drops, skipped, jumped, rewound>>
    BY <1>2 DEF Begin
  <2>3. now' \in 0 .. MaxNow /\ lastSeq' \in 0 .. Cardinality(Txs)
    BY <2>2 DEF TypeInv, TypeOK
  <2>4. TypeInv'
    BY <2>1, <2>2, <2>3, MutationType
  <2>5. NumbersInv'
    BY <2>1, <2>2 DEF NumbersInv
  <2> QED  BY <2>4, <2>5
<1>3. ASSUME NEW t \in Txs, InsertEvent(t) PROVE TypeInv' /\ NumbersInv'
  <2>1. tx[t].seq = 0 /\ lastSeq = Cardinality(Numbered) /\ tx[t].pc = "open"
    BY <1>3 DEF NumbersInv, InsertEvent
  <2>2. /\ lastSeq' = lastSeq + 1 /\ lastSeq' = Cardinality(Numbered') /\ lastSeq' <= Cardinality(Txs)
        /\ tx' \in [Txs -> Tx]
        /\ tx'[t] = [tx[t] EXCEPT !.pc = "inserted", !.seq = lastSeq + 1]
        /\ \A u \in Txs \ {t} : tx'[u] = tx[u]
    BY <1>3, <2>1, InsertCounts
  <2>3. now' = now /\ UNCHANGED <<stream, perUser, wire, got, drops, skipped, jumped, rewound>>
    BY <1>3 DEF InsertEvent
  <2>4. lastSeq \in Nat /\ \A u \in Txs : tx[u].seq \in Nat /\ tx[u] \in Tx
    BY TxParts
  <2>5. now' \in 0 .. MaxNow /\ lastSeq' \in 0 .. Cardinality(Txs)
    BY <2>2, <2>3, <2>4, Counts DEF TypeInv, TypeOK
  <2>6. TypeInv'
    BY <2>2, <2>3, <2>5, MutationType
  <2>7. tx'[t].pc = "inserted" /\ tx'[t].seq = lastSeq + 1
    BY <2>2, <2>4 DEF Tx
  <2>8. /\ \A u \in Txs : tx[u].seq \in Nat /\ tx[u].seq <= lastSeq
        /\ \A u \in Txs : tx'[u].seq = IF u = t THEN lastSeq + 1 ELSE tx[u].seq
    BY <2>2, <2>4, <2>7 DEF NumbersInv
  <2>9. \A u \in Txs : tx'[u].seq <= lastSeq'
    BY <2>2, <2>4, <2>8
  <2>10. ASSUME NEW u \in Txs, NEW v \in Txs, tx'[u].seq > 0, tx'[u].seq = tx'[v].seq PROVE u = v
    BY <2>4, <2>8, <2>10 DEF NumbersInv
  <2>11. \A u \in Txs : tx'[u].pc \in {"none", "open"} => tx'[u].seq = 0
    BY <2>2, <2>7 DEF NumbersInv
  <2>12. \A u \in Txs : tx'[u].pc \in {"inserted", "committed", "purged"} => tx'[u].seq > 0
    <3>1. lastSeq + 1 > 0
      BY <2>4
    <3>2. \A u \in Txs \ {t} : tx'[u] = tx[u]
      BY <2>2
    <3> QED  BY <2>7, <3>1, <3>2 DEF NumbersInv
  <2>13. NumbersInv'
    BY <2>2, <2>9, <2>10, <2>11, <2>12 DEF NumbersInv
  <2> QED  BY <2>6, <2>13
<1>4. ASSUME NEW t \in Txs, End(t) PROVE TypeInv' /\ NumbersInv'
  <2>1. /\ tx' \in [Txs -> Tx] /\ Numbered' = Numbered /\ tx'[t].seq = tx[t].seq
        /\ \/ tx[t].pc = "inserted" /\ tx'[t].pc = "committed"
           \/ tx'[t].pc = "aborted"
        /\ \A u \in Txs \ {t} : tx'[u] = tx[u]
    BY <1>4, EndRow
  <2>2. UNCHANGED <<now, lastSeq, stream, perUser, wire, got, drops, skipped, jumped, rewound>>
    BY <1>4 DEF End
  <2>3. now' \in 0 .. MaxNow /\ lastSeq' \in 0 .. Cardinality(Txs)
    BY <2>2 DEF TypeInv, TypeOK
  <2>4. TypeInv'
    BY <2>1, <2>2, <2>3, MutationType
  <2>5. NumbersInv'
    BY <2>1, <2>2 DEF NumbersInv
  <2> QED  BY <2>4, <2>5
<1>5. ASSUME NEW t \in Txs, PurgeOldEvents(t) PROVE TypeInv' /\ NumbersInv'
  <2>1. /\ tx' \in [Txs -> Tx] /\ Numbered' = Numbered /\ tx'[t].seq = tx[t].seq
        /\ tx[t].pc = "committed" /\ tx'[t].pc = "purged" /\ \A u \in Txs \ {t} : tx'[u] = tx[u]
    BY <1>5, PurgeRow
  <2>2. UNCHANGED <<now, lastSeq, stream, perUser, wire, got, drops, skipped, jumped, rewound>>
    BY <1>5 DEF PurgeOldEvents
  <2>3. now' \in 0 .. MaxNow /\ lastSeq' \in 0 .. Cardinality(Txs)
    BY <2>2 DEF TypeInv, TypeOK
  <2>4. TypeInv'
    BY <2>1, <2>2, <2>3, MutationType
  <2>5. NumbersInv'
    BY <2>1, <2>2 DEF NumbersInv
  <2> QED  BY <2>4, <2>5
<1>6. ASSUME NEW s \in Streams, Connect(s) PROVE TypeInv' /\ NumbersInv'
  <2>1. PICK failed \in SUBSET {"MaxEventSeq", "GetEvent"}, cursor \in 0 .. Cardinality(Txs) :
           StartsAt(s, failed, cursor)
    BY <1>6, ConnectStarts
  <2>2. stream' = [stream EXCEPT ![s] = [open |-> TRUE, cursor |-> cursor]]
    BY <2>1 DEF StartsAt
  <2>3. rewound' \subseteq Streams /\ drops' \in 0 .. MaxDrops
    BY <1>6, <2>1, ConnectStarts DEF StartsAt, TypeInv, TypeOK
  <2>4. perUser' = Cardinality({c \in Streams : stream'[c].open}) /\ perUser' <= MaxConn
    BY <1>6, <2>2, AcquireCounts DEF Connect
  <2>5. stream' \in [Streams -> Stream]
    BY <2>2 DEF TypeInv, TypeOK, Stream
  <2>6. wire' = [wire EXCEPT ![s] = <<>>] /\ UNCHANGED <<now, tx, lastSeq, got>>
    BY <1>6 DEF Connect
  <2>7. wire' \in [Streams -> Seq(Txs)] /\ \A c \in Streams : Range(wire'[c]) \subseteq Range(wire[c])
    BY <2>6 DEF TypeInv, Range
  <2>8. Passed(s, Place(s), cursor) \in SUBSET Txs
    BY EventFeedAssumption DEF Passed
  <2>9. skipped' \in [Streams -> SUBSET Txs] /\ jumped' \in [Streams -> SUBSET Txs]
    <3>1. PICK P \in SUBSET Txs : P = Passed(s, Place(s), cursor)
      BY <2>8
    <3>2. /\ skipped' = skipped \/ skipped' = [skipped EXCEPT ![s] = skipped[s] \cup P]
          /\ jumped' = jumped \/ jumped' = [jumped EXCEPT ![s] = jumped[s] \cup P]
      BY <2>1, <3>1 DEF StartsAt
    <3>3. skipped \in [Streams -> SUBSET Txs] /\ jumped \in [Streams -> SUBSET Txs]
      BY DEF TypeInv, TypeOK
    <3>4. skipped[s] \cup P \in SUBSET Txs /\ jumped[s] \cup P \in SUBSET Txs
      BY <3>1, <3>3
    <3> QED  BY <3>2, <3>3, <3>4
  <2> QED  BY <2>3, <2>4, <2>5, <2>6, <2>7, <2>9, ConnectionNumbers DEF TypeInv, TypeOK
<1>7. ASSUME NEW s \in Streams, Poll(s) PROVE TypeInv' /\ NumbersInv'
  <2>1. PICK evs, sent \in Seq(Txs) : PollsWith(s, evs, sent)
    BY <1>7, PollReads
  <2>2. Last(evs) \in Txs
    BY <2>1, RangeOf DEF PollsWith
  <2>3. tx[Last(evs)].seq \in 0 .. Cardinality(Txs)
    BY <2>2, TxParts, Counts
  <2>4. /\ stream' \in [Streams -> Stream]
        /\ {c \in Streams : stream'[c].open} = {c \in Streams : stream[c].open}
    BY <2>1, <2>3, CursorMoves DEF PollsWith
  <2>5. UNCHANGED <<now, tx, lastSeq, perUser, got, drops, jumped, rewound>>
    BY <1>7 DEF Poll
  <2>6. wire[s] \o sent \in Seq(Txs) /\ Range(wire[s] \o sent) \subseteq Wants[s]
    BY <2>1, RangeOfConcat DEF PollsWith, TypeInv, TypeOK
  <2>7. wire' = [wire EXCEPT ![s] = wire[s] \o sent]
    BY <2>1 DEF PollsWith
  <2>8. wire' \in [Streams -> Seq(Txs)] /\ \A c \in Streams : Range(wire'[c]) \subseteq Wants[c]
    BY <2>6, <2>7 DEF TypeInv, TypeOK
  <2>9. skipped' \in [Streams -> SUBSET Txs]
    <3>1. Passed(s, stream[s].cursor, tx[Last(evs)].seq) \in SUBSET Txs
      BY EventFeedAssumption DEF Passed
    <3> QED  BY <2>1, <3>1 DEF PollsWith, TypeInv, TypeOK
  <2>10. TypeInv'
    BY <2>4, <2>5, <2>8, <2>9 DEF TypeInv, TypeOK
  <2> QED  BY <2>5, <2>10, ConnectionNumbers
<1>8. ASSUME NEW s \in Streams, Read(s) PROVE TypeInv' /\ NumbersInv'
  <2>1. /\ wire[s] # <<>> /\ wire[s] \in Seq(Txs) /\ got[s] \in Seq(Txs)
        /\ got' = [got EXCEPT ![s] = Append(got[s], Head(wire[s]))]
        /\ wire' = [wire EXCEPT ![s] = Tail(wire[s])]
    BY <1>8 DEF Read, TypeInv
  <2>2. UNCHANGED <<now, tx, lastSeq, stream, perUser, drops, skipped, jumped, rewound>>
    BY <1>8 DEF Read
  <2>3. /\ Append(got[s], Head(wire[s])) \in Seq(Txs) /\ Tail(wire[s]) \in Seq(Txs)
        /\ Append(got[s], Head(wire[s])) \o Tail(wire[s]) = got[s] \o wire[s]
    BY <2>1, MoveHead
  <2>4. Range(got'[s]) \cup Range(wire'[s]) = Range(got[s]) \cup Range(wire[s])
    <3>1. got'[s] = Append(got[s], Head(wire[s])) /\ wire'[s] = Tail(wire[s])
      BY <2>1 DEF TypeInv
    <3>2. Range(got'[s] \o wire'[s]) = Range(got[s] \o wire[s])
      BY <2>3, <3>1
    <3>3. Range(got[s] \o wire[s]) = Range(got[s]) \cup Range(wire[s])
      BY <2>1, RangeOfConcat
    <3>4. got'[s] \in Seq(Txs) /\ wire'[s] \in Seq(Txs)
      BY <2>3, <3>1
    <3>5. Range(got'[s] \o wire'[s]) = Range(got'[s]) \cup Range(wire'[s])
      BY <3>4, RangeOfConcat
    <3> QED  BY <3>2, <3>3, <3>5
  <2>5. wire' \in [Streams -> Seq(Txs)] /\ got' \in [Streams -> Seq(Txs)]
    BY <2>1, <2>3 DEF TypeInv
  <2>6. \A c \in Streams : Range(got'[c]) \cup Range(wire'[c]) = Range(got[c]) \cup Range(wire[c])
    BY <2>1, <2>4 DEF TypeInv
  <2>7. \A c \in Streams : Range(wire'[c]) \cup Range(got'[c]) \subseteq Wants[c]
    BY <2>6 DEF TypeInv, TypeOK
  <2> QED  BY <2>2, <2>5, <2>7, ConnectionNumbers DEF TypeInv, TypeOK
<1>9. ASSUME NEW s \in Streams, Disconnect(s) PROVE TypeInv' /\ NumbersInv'
  <2>1. /\ stream[s].open /\ release /\ stream' = [stream EXCEPT ![s].open = FALSE]
        /\ wire' = [wire EXCEPT ![s] = <<>>] /\ drops < MaxDrops /\ drops' = drops + 1
        /\ UNCHANGED <<now, tx, lastSeq, got, skipped, jumped, rewound>>
    BY <1>9 DEF Disconnect
  <2>2. perUser' = Cardinality({c \in Streams : stream'[c].open}) /\ perUser' <= MaxConn
    BY <2>1, ReleaseCounts
  <2>3. drops' \in 0 .. MaxDrops /\ stream' \in [Streams -> Stream]
    <3>1. drops \in 0 .. MaxDrops /\ MaxDrops \in Nat /\ stream \in [Streams -> Stream]
      BY EventFeedAssumption DEF TypeInv, TypeOK
    <3>2. drops' \in 0 .. MaxDrops
      BY <2>1, <3>1
    <3>3. [stream[s] EXCEPT !.open = FALSE] \in Stream
      BY <3>1 DEF Stream
    <3>4. stream' = [stream EXCEPT ![s] = [stream[s] EXCEPT !.open = FALSE]]
      BY <2>1, <3>1
    <3> QED  BY <3>1, <3>2, <3>3, <3>4
  <2>4. wire' \in [Streams -> Seq(Txs)] /\ \A c \in Streams : Range(wire'[c]) \subseteq Range(wire[c])
    BY <2>1 DEF TypeInv, Range
  <2> QED  BY <2>1, <2>2, <2>3, <2>4, ConnectionNumbers DEF TypeInv, TypeOK
<1>10. CASE UNCHANGED vars
  BY <1>10 DEF vars, TypeInv, TypeOK, NumbersInv, Numbered
<1> QED  BY <1>1, <1>2, <1>3, <1>4, <1>5, <1>6, <1>7, <1>8, <1>9, <1>10 DEF Next

\* Every variable keeps its type, whatever transactions, connections and failures do; the hub's
\* counter is at all times the number of open streams and never past its limit.
THEOREM TypeCorrect == Spec => []TypeOK
<1>1. TypeInv /\ NumbersInv => TypeOK
  BY DEF TypeInv
<1> QED  BY <1>1, InitType, TypeStep, PTL DEF Spec

LEMMA TypeHolds == Spec => [](TypeInv /\ NumbersInv)
<1> QED  BY InitType, TypeStep, PTL DEF Spec

-------------------------------------------------------------------------------
(* Times.                                                                  *)

\* How far the order of the numbers may be from that of the times: the transaction of a smaller
\* number began before that of a greater one had drawn its own.
TimesInv ==
    /\ \A t \in Txs : tx[t].created_at <= now
    /\ \A t \in Txs : Unended(t) => now - tx[t].created_at <= LongestTx
    /\ \A t \in Txs : tx[t].pc \in {"committed", "aborted", "purged"} => tx[t].created_at <= tx[t].ended_at
    /\ \A t \in Txs : tx[t].pc = "purged" => tx[t].created_at < now - Retention
    /\ \A t, u \in Txs : 0 < tx[t].seq /\ tx[t].seq < tx[u].seq =>
          /\ tx[t].created_at <= tx[u].created_at + LongestTx
          /\ Unended(u) \/ tx[t].created_at <= tx[u].ended_at

LEMMA TimesInit == Init => TimesInv
<1> SUFFICES ASSUME Init PROVE TimesInv
  OBVIOUS
<1>1. \A t \in Txs : tx[t].seq = 0 /\ tx[t].pc = "none" /\ tx[t].created_at = 0 /\ now = 0
  BY DEF Init
<1> QED  BY <1>1 DEF TimesInv, Unended

\* A step that leaves the table alone.
LEMMA TimesFrame == TimesInv /\ UNCHANGED <<now, tx>> => TimesInv'
  BY DEF TimesInv, Unended

LEMMA TimesStep == TypeInv /\ NumbersInv /\ TimesInv /\ [Next]_vars => TimesInv'
<1> SUFFICES ASSUME TypeInv, NumbersInv, TimesInv, [Next]_vars PROVE TimesInv'
  OBVIOUS
<1> USE TxParts, EventFeedAssumption
<1>0. \A t \in Txs : /\ tx[t].seq \in Nat /\ tx[t].created_at \in Nat /\ tx[t].ended_at \in Nat
                     /\ now \in Nat /\ lastSeq \in Nat /\ LongestTx \in Nat /\ Retention \in Nat
  OBVIOUS
<1>1. CASE Tick
  <2>1. tx' = tx /\ now' = now + 1 /\ \A t \in Txs : Unended(t) => now - tx[t].created_at < LongestTx
    BY <1>1 DEF Tick
  <2>2. \A t \in Txs : Unended(t)' <=> Unended(t)
    BY <2>1 DEF Unended
  <2> QED  BY <1>0, <2>1, <2>2 DEF TimesInv
<1>2. ASSUME NEW t \in Txs, Begin(t) PROVE TimesInv'
  <2>1. /\ tx'[t].pc = "open" /\ tx'[t].created_at = now /\ tx'[t].seq = tx[t].seq /\ tx[t].pc = "none"
        /\ \A u \in Txs \ {t} : tx'[u] = tx[u]
    BY <1>2, BeginRow
  <2>2. now' = now /\ tx[t].seq = 0
    BY <1>2, <2>1 DEF Begin, NumbersInv
  <2>3. \A u \in Txs : tx'[u].created_at <= now'
    BY <1>0, <2>1, <2>2 DEF TimesInv
  <2>4. ASSUME NEW u \in Txs, Unended(u)' PROVE now' - tx'[u].created_at <= LongestTx
    BY <1>0, <2>1, <2>2, <2>4 DEF TimesInv, Unended
  <2>5. ASSUME NEW u \in Txs, NEW v \in Txs, 0 < tx'[u].seq, tx'[u].seq < tx'[v].seq
        PROVE  /\ tx'[u].created_at <= tx'[v].created_at + LongestTx
               /\ Unended(v)' \/ tx'[u].created_at <= tx'[v].ended_at
    <3>1. u # t /\ v # t
      BY <1>0, <2>1, <2>2, <2>5
    <3> QED  BY <2>1, <2>5, <3>1 DEF TimesInv, Unended
  <2> QED  BY <2>1, <2>2, <2>3, <2>4, <2>5 DEF TimesInv
<1>3. ASSUME NEW t \in Txs, InsertEvent(t) PROVE TimesInv'
  <2>1. tx[t].seq = 0 /\ lastSeq = Cardinality(Numbered) /\ tx[t].pc = "open"
    BY <1>3 DEF NumbersInv, InsertEvent
  <2>2. /\ tx'[t] = [tx[t] EXCEPT !.pc = "inserted", !.seq = lastSeq + 1]
        /\ \A u \in Txs \ {t} : tx'[u] = tx[u]
    BY <1>3, <2>1, InsertCounts
  <2>3. now' = now
    BY <1>3 DEF InsertEvent
  <2>4. tx'[t].pc = "inserted" /\ tx'[t].seq = lastSeq + 1 /\ tx'[t].created_at = tx[t].created_at
    BY <2>2 DEF Tx
  <2>5. \A u \in Txs : tx'[u].created_at = tx[u].created_at /\ (Unended(u)' <=> Unended(u))
    BY <2>1, <2>2, <2>4 DEF Unended
  <2>6. ASSUME NEW u \in Txs, NEW v \in Txs, 0 < tx'[u].seq, tx'[u].seq < tx'[v].seq
        PROVE  /\ tx'[u].created_at <= tx'[v].created_at + LongestTx
               /\ Unended(v)' \/ tx'[u].created_at <= tx'[v].ended_at
    <3>1. u # t
      <4> SUFFICES ASSUME u = t PROVE FALSE
        OBVIOUS
      <4>0. lastSeq \in Nat /\ tx'[t].seq = lastSeq + 1 /\ tx'[t].seq < tx'[v].seq
        BY <1>0, <2>4, <2>6
      <4>a. v # t
        BY <4>0
      <4>1. tx'[v].seq = tx[v].seq
        BY <2>2, <4>a
      <4>2. tx[v].seq <= lastSeq
        BY DEF NumbersInv
      <4> QED  BY <1>0, <4>0, <4>1, <4>2
    <3>2. CASE v = t
      <4>1. now - tx[t].created_at <= LongestTx /\ tx[u].created_at <= now
        BY <2>1 DEF TimesInv, Unended
      <4> QED  BY <1>0, <2>4, <2>5, <3>2, <4>1 DEF Unended
    <3>3. CASE v # t
      BY <2>2, <2>6, <3>1, <3>3 DEF TimesInv, Unended
    <3> QED  BY <3>2, <3>3
  <2> QED  BY <2>2, <2>3, <2>4, <2>5, <2>6 DEF TimesInv
<1>4. ASSUME NEW t \in Txs, End(t) PROVE TimesInv'
  <2>1. /\ tx'[t].created_at = tx[t].created_at /\ tx'[t].ended_at = now /\ tx'[t].seq = tx[t].seq
        /\ Unended(t) /\ tx'[t].pc \in {"committed", "aborted"}
        /\ \A u \in Txs \ {t} : tx'[u] = tx[u]
    BY <1>4, EndRow DEF Unended
  <2>2. now' = now
    BY <1>4 DEF End
  <2>3. \A u \in Txs : tx'[u].created_at = tx[u].created_at /\ tx'[u].seq = tx[u].seq
    BY <2>1
  <2>4. ASSUME NEW u \in Txs, NEW v \in Txs, 0 < tx'[u].seq, tx'[u].seq < tx'[v].seq
        PROVE  /\ tx'[u].created_at <= tx'[v].created_at + LongestTx
               /\ Unended(v)' \/ tx'[u].created_at <= tx'[v].ended_at
    <3>1. tx[u].created_at <= tx[v].created_at + LongestTx /\ tx[u].created_at <= now
      BY <2>3, <2>4 DEF TimesInv
    <3>2. CASE v = t
      BY <2>1, <2>3, <3>1, <3>2
    <3>3. CASE v # t
      BY <2>1, <2>3, <2>4, <3>1, <3>3 DEF TimesInv, Unended
    <3> QED  BY <3>2, <3>3
  <2>5. \A u \in Txs : Unended(u)' => now' - tx'[u].created_at <= LongestTx
    BY <2>1, <2>2 DEF TimesInv, Unended
  <2>6. \A u \in Txs : tx'[u].pc \in {"committed", "aborted", "purged"} => tx'[u].created_at <= tx'[u].ended_at
    BY <2>1, <2>2 DEF TimesInv
  <2> QED  BY <2>1, <2>2, <2>3, <2>4, <2>5, <2>6 DEF TimesInv
<1>5. ASSUME NEW t \in Txs, PurgeOldEvents(t) PROVE TimesInv'
  <2>1. /\ tx[t].pc = "committed" /\ tx'[t].pc = "purged" /\ tx[t].created_at < now - Retention
        /\ tx'[t].created_at = tx[t].created_at /\ tx'[t].ended_at = tx[t].ended_at
        /\ tx'[t].seq = tx[t].seq /\ \A u \in Txs \ {t} : tx'[u] = tx[u]
    BY <1>5, PurgeRow
  <2>2. now' = now
    BY <1>5 DEF PurgeOldEvents
  <2>3. \A u \in Txs : /\ tx'[u].created_at = tx[u].created_at /\ tx'[u].ended_at = tx[u].ended_at
                       /\ tx'[u].seq = tx[u].seq /\ (Unended(u)' <=> Unended(u))
    BY <2>1 DEF Unended
  <2>4. \A u \in Txs : tx'[u].pc \in {"committed", "aborted", "purged"} => tx[u].pc \in {"committed", "aborted", "purged"}
    BY <2>1
  <2> QED  BY <2>1, <2>2, <2>3, <2>4 DEF TimesInv
<1>6. ASSUME NEW s \in Streams, Connect(s) \/ Poll(s) \/ Read(s) \/ Disconnect(s) PROVE TimesInv'
  BY <1>6, TimesFrame DEF Connect, Poll, Read, Disconnect
<1>7. CASE UNCHANGED vars
  BY <1>7, TimesFrame DEF vars
<1> QED  BY <1>1, <1>2, <1>3, <1>4, <1>5, <1>6, <1>7 DEF Next

-------------------------------------------------------------------------------
(* Order.                                                                  *)

\* Lists in the order of the numbers, one after the other.
LEMMA IncreasingConcat ==
    ASSUME NEW p \in Seq(Txs), NEW q \in Seq(Txs), Increasing(p), Increasing(q),
           \A u \in Range(p), v \in Range(q) : tx[u].seq < tx[v].seq
    PROVE  Increasing(p \o q)
<1>1. /\ Len(p) \in Nat /\ Len(q) \in Nat /\ DOMAIN p = 1 .. Len(p) /\ DOMAIN q = 1 .. Len(q)
      /\ DOMAIN (p \o q) = 1 .. Len(p) + Len(q)
      /\ \A i \in 1 .. Len(p) + Len(q) : (p \o q)[i] = IF i <= Len(p) THEN p[i] ELSE q[i - Len(p)]
  OBVIOUS
<1>2. ASSUME NEW i \in 1 .. Len(p) + Len(q), NEW j \in 1 .. Len(p) + Len(q), i < j
      PROVE  tx[(p \o q)[i]].seq < tx[(p \o q)[j]].seq
  <2>1. CASE j <= Len(p)
    BY <1>1, <1>2, <2>1 DEF Increasing
  <2>2. CASE Len(p) < i
    <3>1. i - Len(p) \in DOMAIN q /\ j - Len(p) \in DOMAIN q /\ i - Len(p) < j - Len(p)
      BY <1>1, <1>2, <2>2
    <3>2. tx[q[i - Len(p)]].seq < tx[q[j - Len(p)]].seq
      BY <3>1 DEF Increasing
    <3> QED  BY <1>1, <1>2, <2>2, <3>2
  <2>3. CASE i <= Len(p) /\ Len(p) < j
    <3>1. i \in 1 .. Len(p) /\ j - Len(p) \in 1 .. Len(q)
      BY <1>1, <1>2, <2>3
    <3>2. p[i] \in Range(p) /\ q[j - Len(p)] \in Range(q)
      BY <3>1, RangeOf
    <3>3. (p \o q)[i] = p[i] /\ (p \o q)[j] = q[j - Len(p)]
      BY <1>1, <2>3
    <3> QED  BY <3>2, <3>3
  <2> QED  BY <1>1, <2>1, <2>2, <2>3
<1> QED  BY <1>1, <1>2 DEF Increasing

\* Three lists one after the other.
LEMMA JoinThree ==
    ASSUME NEW p \in Seq(Txs), NEW q \in Seq(Txs), NEW r \in Seq(Txs)
    PROVE  p \o (q \o r) = (p \o q) \o r
<1> DEFINE x == p \o (q \o r)
           y == (p \o q) \o r
<1>1. /\ Len(p) \in Nat /\ Len(q) \in Nat /\ Len(r) \in Nat
      /\ x \in Seq(Txs) /\ Len(x) = Len(p) + Len(q) + Len(r)
      /\ y \in Seq(Txs) /\ Len(y) = Len(p) + Len(q) + Len(r)
  OBVIOUS
<1>2. ASSUME NEW i \in 1 .. Len(p) + Len(q) + Len(r) PROVE x[i] = y[i]
  <2>1. CASE i <= Len(p)
    BY <1>1, <2>1
  <2>2. CASE Len(p) < i /\ i <= Len(p) + Len(q)
    BY <1>1, <2>2
  <2>3. CASE Len(p) + Len(q) < i
    BY <1>1, <2>3
  <2> QED  BY <1>1, <2>1, <2>2, <2>3
<1> HIDE DEF x, y
<1>3. x = y
  BY <1>1, <1>2, SeqEqual
<1> QED  BY <1>3 DEF x, y

\* The first of two such lists is one.
LEMMA IncreasingPrefix ==
    ASSUME NEW p \in Seq(Txs), NEW q \in Seq(Txs), Increasing(p \o q)
    PROVE  Increasing(p)
<1>1. /\ Len(p) \in Nat /\ Len(q) \in Nat /\ DOMAIN p = 1 .. Len(p)
      /\ DOMAIN (p \o q) = 1 .. Len(p) + Len(q)
      /\ \A i \in 1 .. Len(p) : (p \o q)[i] = p[i]
  OBVIOUS
<1>2. \A i \in 1 .. Len(p) : i \in DOMAIN (p \o q)
  BY <1>1
<1> QED  BY <1>1, <1>2 DEF Increasing

\* The order does not change while the numbers do not.
LEMMA IncreasingFrame ==
    ASSUME NEW q \in Seq(Txs), Increasing(q), \A u \in Range(q) : tx'[u].seq = tx[u].seq
    PROVE  \A i, j \in DOMAIN q : i < j => tx'[q[i]].seq < tx'[q[j]].seq
<1>1. DOMAIN q = 1 .. Len(q) /\ \A i \in 1 .. Len(q) : q[i] \in Range(q)
  BY RangeOf
<1> QED  BY <1>1 DEF Increasing

\* The events a client was sent.
Sent(s) == Range(got[s]) \cup Range(wire[s])

\* Where a stream stands: what its client was sent is committed, old and in order, and nothing that
\* the stream has still to read is older than that.
Placed(s) ==
    /\ \A u \in Txs : u \in Sent(s) => tx[u].pc \in {"committed", "purged"} /\ Old(u)
    /\ ~stream[s].open => wire[s] = <<>>
    /\ s \notin rewound => Increasing(got[s] \o wire[s])
    /\ s \notin rewound /\ stream[s].open =>
          \A t, u \in Txs : tx[t].pc \in {"inserted", "committed"} /\ tx[t].seq > stream[s].cursor /\ u \in Sent(s)
                            => tx[u].seq < tx[t].seq

OrderInv == \A s \in Streams : Placed(s)

LEMMA SentEvents ==
    ASSUME TypeInv, NEW s \in Streams
    PROVE  /\ got[s] \in Seq(Txs) /\ wire[s] \in Seq(Txs) /\ got[s] \o wire[s] \in Seq(Txs)
           /\ Sent(s) \subseteq Txs /\ Range(got[s] \o wire[s]) = Sent(s)
<1>1. got[s] \in Seq(Txs) /\ wire[s] \in Seq(Txs)
  BY DEF TypeInv
<1> QED  BY <1>1, RangeOf, RangeOfConcat DEF Sent

LEMMA OrderInit == Init => OrderInv
<1> SUFFICES ASSUME Init, NEW s \in Streams PROVE Placed(s)
  BY DEF OrderInv
<1>1. got[s] = <<>> /\ wire[s] = <<>> /\ Range(got[s]) = {} /\ Range(wire[s]) = {}
  BY DEF Init, Range
<1>2. DOMAIN (got[s] \o wire[s]) = {}
  BY <1>1
<1> QED  BY <1>1, <1>2 DEF Placed, Sent, Increasing

\* A step of a mutation: what was sent keeps its number, and what becomes readable is not older.
LEMMA OrderMutation ==
    ASSUME TypeInv, NumbersInv, OrderInv, UNCHANGED <<stream, wire, got, rewound>>,
           \A u \in Txs : tx[u].pc \in {"committed", "purged"} =>
              /\ tx'[u].pc \in {"committed", "purged"} /\ tx'[u].seq = tx[u].seq
              /\ tx'[u].created_at = tx[u].created_at
           ,
           now' \in Nat, now <= now',
           \A t \in Txs : tx'[t].pc \in {"inserted", "committed"} =>
              \/ tx[t].pc \in {"inserted", "committed"} /\ tx'[t].seq = tx[t].seq
              \/ tx'[t].seq = lastSeq + 1
    PROVE  OrderInv'
<1> SUFFICES ASSUME NEW s \in Streams PROVE Placed(s)'
  BY DEF OrderInv
<1>1. Placed(s)
  BY DEF OrderInv
<1>2. /\ got[s] \in Seq(Txs) /\ wire[s] \in Seq(Txs) /\ got[s] \o wire[s] \in Seq(Txs)
      /\ Sent(s) \subseteq Txs /\ Range(got[s] \o wire[s]) = Sent(s)
  BY SentEvents
<1>3. \A u \in Sent(s) : u \in Txs /\ tx'[u].pc \in {"committed", "purged"} /\ tx'[u].seq = tx[u].seq
  BY <1>1, <1>2 DEF Placed
<1>4. Sent(s)' = Sent(s)
  BY DEF Sent
<1>5. s \notin rewound' => Increasing(got[s] \o wire[s])'
  <2> SUFFICES ASSUME s \notin rewound PROVE Increasing(got[s] \o wire[s])'
    OBVIOUS
  <2> DEFINE q == got[s] \o wire[s]
  <2>1. q \in Seq(Txs) /\ Increasing(q) /\ \A u \in Range(q) : tx'[u].seq = tx[u].seq
    BY <1>1, <1>2, <1>3 DEF Placed
  <2>2. \A i, j \in DOMAIN q : i < j => tx'[q[i]].seq < tx'[q[j]].seq
    <3> HIDE DEF q
    <3> QED  BY <2>1, IncreasingFrame
  <2> QED  BY <2>2 DEF Increasing
<1>6. ASSUME s \notin rewound, stream[s].open, NEW t \in Txs, NEW u \in Txs,
             tx'[t].pc \in {"inserted", "committed"}, tx'[t].seq > stream[s].cursor, u \in Sent(s)
      PROVE  tx'[u].seq < tx'[t].seq
  <2>1. tx'[u].seq = tx[u].seq /\ tx[u].seq <= lastSeq /\ tx[u].seq \in Nat /\ lastSeq \in Nat
    BY <1>3, <1>6, TxParts DEF NumbersInv
  <2>2. CASE tx'[t].seq = lastSeq + 1
    BY <2>1, <2>2
  <2>3. CASE tx[t].pc \in {"inserted", "committed"} /\ tx'[t].seq = tx[t].seq
    BY <1>1, <1>6, <2>1, <2>3 DEF Placed
  <2> QED  BY <1>6, <2>2, <2>3
<1>7. ~stream'[s].open => wire'[s] = <<>>
  BY <1>1 DEF Placed
<1>8. ASSUME NEW u \in Txs, u \in Sent(s)' PROVE tx'[u].pc \in {"committed", "purged"} /\ Old(u)'
  <2>1. u \in Sent(s) /\ Old(u) /\ tx'[u].created_at = tx[u].created_at
    BY <1>1, <1>4, <1>8 DEF Placed
  <2>2. tx[u].created_at \in Nat /\ now \in Nat /\ Grace \in Nat
    BY TxParts, EventFeedAssumption
  <2> QED  BY <1>3, <2>1, <2>2 DEF Old
<1> QED  BY <1>4, <1>5, <1>6, <1>7, <1>8 DEF Placed

\* A step of a connection leaves the others where they are.
LEMMA OrderConnection ==
    ASSUME OrderInv, NEW s \in Streams, tx' = tx, now' = now, Placed(s)',
           \A c \in Streams \ {s} : /\ stream'[c] = stream[c] /\ wire'[c] = wire[c] /\ got'[c] = got[c]
                                    /\ c \in rewound => c \in rewound'
    PROVE  OrderInv'
<1> SUFFICES ASSUME NEW c \in Streams, c # s PROVE Placed(c)'
  BY DEF OrderInv
<1>1. Placed(c) /\ Sent(c)' = Sent(c)
  BY DEF OrderInv, Sent
<1>2. c \notin rewound' => Increasing(got[c] \o wire[c])'
  BY <1>1 DEF Placed, Increasing
<1>3. \A u \in Txs : Old(u)' <=> Old(u)
  BY DEF Old
<1> QED  BY <1>1, <1>2, <1>3 DEF Placed

\* A stream that starts again reads nothing older than what its client got: it starts after the
\* last event of those, or, when that one is not found, at the head of the feed.  The last event is
\* then not past the head, or is purged, and what is not visible there yet is younger than it.
LEMMA StartsAhead ==
    ASSUME TypeInv, NumbersInv, TimesInv, NEW s \in Streams, Placed(s),
           NEW failed \in SUBSET {"MaxEventSeq", "GetEvent"}, NEW cursor \in 0 .. Cardinality(Txs),
           StartsAt(s, failed, cursor), s \notin rewound',
           NEW t \in Txs, tx[t].pc \in {"inserted", "committed"}, tx[t].seq > cursor,
           NEW u \in Range(got[s])
    PROVE  tx[u].seq < tx[t].seq
<1>1. s \notin rewound
  BY DEF StartsAt
<1>2. got[s] \in Seq(Txs) /\ Increasing(got[s]) /\ got[s] # <<>>
  <2>1. got[s] \in Seq(Txs) /\ wire[s] \in Seq(Txs) /\ Increasing(got[s] \o wire[s])
    BY <1>1 DEF TypeInv, Placed
  <2>2. got[s] # <<>>
    BY DEF Range
  <2> QED  BY <2>1, <2>2, IncreasingPrefix
<1> DEFINE l == Last(got[s])
           head == IF "MaxEventSeq" \in failed THEN 0 ELSE MaxEventSeq
<1>3. l \in Range(got[s]) /\ tx[u].seq <= tx[l].seq
  BY <1>2, LastIsGreatest
<1>4. l \in Txs /\ u \in Txs /\ tx[l].pc \in {"committed", "purged"} /\ Old(l)
  BY <1>2, <1>3, RangeOf DEF Placed, Sent
<1>5. cursor \in Resume(s, head, failed)
  BY DEF StartsAt
<1>6. cursor = tx[l].seq \/ (Unplaced(s, failed) /\ cursor = head)
  BY <1>2, <1>5 DEF Resume, Place
<1>7. /\ tx[t].seq \in Nat /\ tx[u].seq \in Nat /\ tx[l].seq \in Nat
      /\ tx[t].created_at \in Nat /\ tx[l].created_at \in Nat /\ now \in Nat
  BY <1>4, TxParts
<1>8. CASE cursor = tx[l].seq
  BY <1>3, <1>7, <1>8
<1>9. CASE Unplaced(s, failed) /\ cursor = head
  <2>1. cursor = MaxEventSeq
    BY <1>1, <1>2, <1>9 DEF StartsAt
  <2> HIDE DEF l
  <2>2. CASE Visible(l)
    <3>1. l \in Aged
      BY <1>4, <2>2 DEF Aged
    <3>2. tx[l].seq <= MaxEventSeq /\ MaxEventSeq \in Nat
      BY <3>1, HeadOf, Counts
    <3> QED  BY <1>3, <1>7, <2>1, <3>2
  <2>3. CASE ~Visible(l)
    <3>1. tx[l].pc = "purged" /\ tx[l].created_at < now - Retention
      BY <1>4, <2>3 DEF TimesInv, Visible
    <3>2. t \notin Aged
      <4>1. MaxEventSeq \in 0 .. Cardinality(Txs) /\ \A v \in Aged : tx[v].seq <= MaxEventSeq
        BY HeadOf
      <4> QED  BY <1>7, <2>1, <4>1, Counts
    <3>3. tx[t].created_at >= now - LongestTx \/ tx[t].created_at >= now - Grace
      BY <1>7, <3>2, EventFeedAssumption DEF Aged, Old, Visible, TimesInv, Unended
    <3>4. tx[l].seq < tx[t].seq
      <4> SUFFICES ASSUME tx[t].seq <= tx[l].seq PROVE FALSE
        BY <1>7
      <4>1. t # l /\ tx[t].seq > 0 /\ tx[l].seq > 0
        BY <1>4, <3>1 DEF NumbersInv
      <4>2. tx[t].seq # tx[l].seq
        BY <1>4, <4>1 DEF NumbersInv
      <4>3. 0 < tx[t].seq /\ tx[t].seq < tx[l].seq
        BY <1>7, <4>1, <4>2
      <4>4. tx[t].created_at <= tx[l].created_at + LongestTx
        BY <1>4, <4>3 DEF TimesInv
      <4> QED  BY <1>7, <3>1, <3>3, <4>4, EventFeedAssumption
    <3> QED  BY <1>3, <1>7, <3>4
  <2> QED  BY <2>2, <2>3
<1> QED  BY <1>6, <1>8, <1>9

LEMMA OrderConnect ==
    ASSUME TypeInv, NumbersInv, TimesInv, OrderInv, NEW s \in Streams, Connect(s)
    PROVE  OrderInv'
<1>1. PICK failed \in SUBSET {"MaxEventSeq", "GetEvent"}, cursor \in 0 .. Cardinality(Txs) :
         StartsAt(s, failed, cursor)
  BY ConnectStarts
<1>2. /\ stream' = [stream EXCEPT ![s] = [open |-> TRUE, cursor |-> cursor]]
      /\ \A c \in Streams \ {s} : c \in rewound => c \in rewound'
      /\ s \in rewound => s \in rewound'
  BY <1>1 DEF StartsAt
<1>3. wire' = [wire EXCEPT ![s] = <<>>] /\ tx' = tx /\ now' = now /\ got' = got
  BY DEF Connect
<1>4. stream'[s] = [open |-> TRUE, cursor |-> cursor] /\ wire'[s] = <<>> /\ Range(wire'[s]) = {}
  BY <1>2, <1>3 DEF TypeInv, TypeOK, Range
<1>5. Sent(s)' = Range(got[s])
  BY <1>3, <1>4 DEF Sent
<1>6. Placed(s) /\ got[s] \in Seq(Txs) /\ wire[s] \in Seq(Txs)
  BY DEF OrderInv, TypeInv
<1>7. s \notin rewound' => Increasing(got[s] \o wire[s])'
  <2> SUFFICES ASSUME s \notin rewound' PROVE Increasing(got[s] \o wire[s])'
    OBVIOUS
  <2>1. Increasing(got[s] \o wire[s])
    BY <1>2, <1>6 DEF Placed
  <2>2. Increasing(got[s])
    BY <1>6, <2>1, IncreasingPrefix
  <2>3. got'[s] \o wire'[s] = got[s]
    BY <1>3, <1>4, <1>6, ConcatEmptySeq
  <2> QED  BY <1>3, <2>2, <2>3 DEF Increasing
<1>8. ASSUME s \notin rewound', NEW t \in Txs, NEW u \in Txs, tx[t].pc \in {"inserted", "committed"},
             tx[t].seq > cursor, u \in Range(got[s])
      PROVE  tx[u].seq < tx[t].seq
  BY <1>1, <1>6, <1>8, StartsAhead
<1>9. Placed(s)'
  <2>1. \A u \in Txs : u \in Sent(s)' => tx'[u].pc \in {"committed", "purged"} /\ Old(u)'
    BY <1>3, <1>5, <1>6 DEF Placed, Sent, Old
  <2> QED  BY <1>3, <1>4, <1>5, <1>7, <1>8, <2>1 DEF Placed
<1>10. \A c \in Streams \ {s} : stream'[c] = stream[c] /\ wire'[c] = wire[c] /\ got'[c] = got[c]
  BY <1>2, <1>3 DEF TypeInv, TypeOK
<1> QED  BY <1>2, <1>3, <1>9, <1>10, OrderConnection

LEMMA OrderPoll ==
    ASSUME TypeInv, NumbersInv, OrderInv, NEW s \in Streams, Poll(s)
    PROVE  OrderInv'
<1>1. PICK evs, sent \in Seq(Txs) : PollsWith(s, evs, sent)
  BY PollReads
<1>2. /\ Last(evs) \in Range(evs) /\ Increasing(sent)
      /\ \A u \in Range(evs) : u \in Aged \cap Own /\ tx[u].seq > stream[s].cursor /\ tx[u].seq <= tx[Last(evs)].seq
      /\ Range(sent) \subseteq Range(evs)
      /\ wire' = [wire EXCEPT ![s] = wire[s] \o sent]
      /\ stream' = [stream EXCEPT ![s].cursor = tx[Last(evs)].seq]
  BY <1>1 DEF PollsWith
<1>3. UNCHANGED <<now, tx, got, rewound>> /\ stream[s].open
  BY DEF Poll
<1>4. /\ stream'[s].cursor = tx[Last(evs)].seq /\ stream'[s].open /\ wire'[s] = wire[s] \o sent
      /\ \A c \in Streams \ {s} : stream'[c] = stream[c] /\ wire'[c] = wire[c] /\ got'[c] = got[c]
  BY <1>2, <1>3 DEF TypeInv, TypeOK, Stream
<1>5. /\ got[s] \in Seq(Txs) /\ wire[s] \in Seq(Txs) /\ got[s] \o wire[s] \in Seq(Txs)
      /\ Sent(s) \subseteq Txs /\ Range(got[s] \o wire[s]) = Sent(s) /\ Range(sent) \subseteq Txs
      /\ Range(evs) \subseteq Txs
  BY SentEvents, RangeOf
<1>6. Sent(s)' = Sent(s) \cup Range(sent)
  BY <1>3, <1>4, <1>5, RangeOfConcat DEF Sent
<1>7. Placed(s)
  BY DEF OrderInv
<1>8. \A u \in Range(evs) : tx[u].pc = "committed" /\ Old(u)
  BY <1>2 DEF Aged, Visible
<1>9. s \notin rewound' => Increasing(got[s] \o wire[s])'
  <2> SUFFICES ASSUME s \notin rewound PROVE Increasing(got[s] \o wire[s])'
    BY <1>3
  <2>1. \A u \in Sent(s), v \in Range(sent) : tx[u].seq < tx[v].seq
    BY <1>2, <1>3, <1>5, <1>7, <1>8 DEF Placed
  <2>2. Increasing((got[s] \o wire[s]) \o sent)
    BY <1>2, <1>5, <1>7, <2>1, IncreasingConcat DEF Placed
  <2>3. got'[s] \o wire'[s] = (got[s] \o wire[s]) \o sent
    <3>0. got[s] \in Seq(Txs) /\ wire[s] \in Seq(Txs) /\ sent \in Seq(Txs)
      BY <1>5
    <3>1. got[s] \o (wire[s] \o sent) = (got[s] \o wire[s]) \o sent
      BY <3>0, JoinThree
    <3> QED  BY <1>3, <1>4, <3>1
  <2> QED  BY <1>3, <2>2, <2>3 DEF Increasing
<1>10. ASSUME s \notin rewound, NEW t \in Txs, NEW u \in Txs, tx[t].pc \in {"inserted", "committed"},
              tx[t].seq > tx[Last(evs)].seq, u \in Sent(s) \cup Range(sent)
       PROVE  tx[u].seq < tx[t].seq
  <2>1. tx[t].seq \in Nat /\ tx[Last(evs)].seq \in Nat /\ tx[u].seq \in Nat /\ stream[s].cursor \in Nat
    BY <1>2, <1>5, TxParts, Counts DEF TypeInv, TypeOK, Stream
  <2>2. CASE u \in Range(sent)
    BY <1>2, <1>10, <2>1, <2>2
  <2>3. CASE u \in Sent(s)
    <3>1. tx[t].seq > stream[s].cursor
      BY <1>2, <1>10, <2>1
    <3> QED  BY <1>3, <1>7, <1>10, <2>3, <3>1 DEF Placed
  <2> QED  BY <1>10, <2>2, <2>3
<1>11. Placed(s)'
  <2>1. \A u \in Txs : u \in Sent(s)' => tx'[u].pc \in {"committed", "purged"} /\ Old(u)'
    BY <1>2, <1>3, <1>6, <1>7, <1>8 DEF Placed, Old
  <2> QED  BY <1>3, <1>4, <1>6, <1>9, <1>10, <2>1 DEF Placed
<1> QED  BY <1>3, <1>4, <1>11, OrderConnection

LEMMA OrderStep == TypeInv /\ NumbersInv /\ TimesInv /\ OrderInv /\ [Next]_vars => OrderInv'
<1> SUFFICES ASSUME TypeInv, NumbersInv, TimesInv, OrderInv, [Next]_vars PROVE OrderInv'
  OBVIOUS
<1>0. now \in Nat /\ now + 1 \in Nat /\ now <= now /\ now <= now + 1
  BY EventFeedAssumption DEF TypeInv, TypeOK
<1>1. CASE Tick
  BY <1>0, <1>1, OrderMutation DEF Tick
<1>2. ASSUME NEW t \in Txs, Begin(t) PROVE OrderInv'
  <2>1. tx'[t].pc = "open" /\ tx[t].pc = "none" /\ \A u \in Txs \ {t} : tx'[u] = tx[u]
    BY <1>2, BeginRow
  <2> QED  BY <1>0, <1>2, <2>1, OrderMutation DEF Begin
<1>3. ASSUME NEW t \in Txs, InsertEvent(t) PROVE OrderInv'
  <2>1. tx[t].seq = 0 /\ lastSeq = Cardinality(Numbered) /\ tx[t].pc = "open" /\ tx[t] \in Tx
    BY <1>3, TxParts DEF NumbersInv, InsertEvent
  <2>2. /\ tx'[t] = [tx[t] EXCEPT !.pc = "inserted", !.seq = lastSeq + 1]
        /\ \A u \in Txs \ {t} : tx'[u] = tx[u]
    BY <1>3, <2>1, InsertCounts
  <2>3. tx'[t].pc = "inserted" /\ tx'[t].seq = lastSeq + 1
    BY <2>1, <2>2 DEF Tx
  <2> QED  BY <1>0, <1>3, <2>1, <2>2, <2>3, OrderMutation DEF InsertEvent
<1>4. ASSUME NEW t \in Txs, End(t) PROVE OrderInv'
  <2>1. /\ \/ tx[t].pc = "inserted" /\ tx'[t].pc = "committed"
           \/ tx[t].pc \in {"open", "inserted"} /\ tx'[t].pc = "aborted"
        /\ tx'[t].seq = tx[t].seq /\ tx'[t].created_at = tx[t].created_at
        /\ \A u \in Txs \ {t} : tx'[u] = tx[u]
    BY <1>4, EndRow DEF Unended
  <2> QED  BY <1>0, <1>4, <2>1, OrderMutation DEF End
<1>5. ASSUME NEW t \in Txs, PurgeOldEvents(t) PROVE OrderInv'
  <2>1. /\ tx[t].pc = "committed" /\ tx'[t].pc = "purged" /\ tx'[t].seq = tx[t].seq
        /\ tx'[t].created_at = tx[t].created_at
        /\ \A u \in Txs \ {t} : tx'[u] = tx[u]
    BY <1>5, PurgeRow
  <2> QED  BY <1>0, <1>5, <2>1, OrderMutation DEF PurgeOldEvents
<1>6. ASSUME NEW s \in Streams, Connect(s) PROVE OrderInv'
  BY <1>6, OrderConnect
<1>7. ASSUME NEW s \in Streams, Poll(s) PROVE OrderInv'
  BY <1>7, OrderPoll
<1>8. ASSUME NEW s \in Streams, Read(s) PROVE OrderInv'
  <2>1. /\ wire[s] # <<>> /\ wire[s] \in Seq(Txs) /\ got[s] \in Seq(Txs) /\ stream[s].open
        /\ got' = [got EXCEPT ![s] = Append(got[s], Head(wire[s]))]
        /\ wire' = [wire EXCEPT ![s] = Tail(wire[s])]
        /\ UNCHANGED <<now, tx, stream, rewound>>
    BY <1>8 DEF Read, TypeInv
  <2>2. /\ Append(got[s], Head(wire[s])) \in Seq(Txs) /\ Tail(wire[s]) \in Seq(Txs)
        /\ Append(got[s], Head(wire[s])) \o Tail(wire[s]) = got[s] \o wire[s]
    BY <2>1, MoveHead
  <2>3. got'[s] = Append(got[s], Head(wire[s])) /\ wire'[s] = Tail(wire[s])
    BY <2>1 DEF TypeInv
  <2>4. got'[s] \o wire'[s] = got[s] \o wire[s]
    BY <2>2, <2>3
  <2>5. Range(got'[s] \o wire'[s]) = Range(got'[s]) \cup Range(wire'[s])
    <3>1. got'[s] \in Seq(Txs) /\ wire'[s] \in Seq(Txs)
      BY <2>2, <2>3
    <3> QED  BY <3>1, RangeOfConcat
  <2>6. Sent(s)' = Sent(s)
    BY <2>4, <2>5, SentEvents DEF Sent
  <2>7. Placed(s)
    BY DEF OrderInv
  <2>8. s \notin rewound' => Increasing(got[s] \o wire[s])'
    BY <2>1, <2>4, <2>7 DEF Placed, Increasing
  <2>9. Placed(s)'
    BY <2>1, <2>6, <2>7, <2>8 DEF Placed, Old
  <2>10. \A c \in Streams \ {s} : stream'[c] = stream[c] /\ wire'[c] = wire[c] /\ got'[c] = got[c]
    BY <2>1 DEF TypeInv, TypeOK
  <2> QED  BY <2>1, <2>9, <2>10, OrderConnection
<1>9. ASSUME NEW s \in Streams, Disconnect(s) PROVE OrderInv'
  <2>1. /\ stream' = [stream EXCEPT ![s].open = FALSE] /\ wire' = [wire EXCEPT ![s] = <<>>]
        /\ UNCHANGED <<now, tx, got, rewound>>
    BY <1>9 DEF Disconnect
  <2>2. ~stream'[s].open /\ wire'[s] = <<>> /\ Range(wire'[s]) = {}
    BY <2>1 DEF TypeInv, TypeOK, Stream, Range
  <2>3. Sent(s)' = Range(got[s])
    BY <2>1, <2>2 DEF Sent
  <2>4. Placed(s) /\ got[s] \in Seq(Txs) /\ wire[s] \in Seq(Txs)
    BY DEF OrderInv, TypeInv
  <2>5. s \notin rewound' => Increasing(got[s] \o wire[s])'
    <3> SUFFICES ASSUME s \notin rewound PROVE Increasing(got[s] \o wire[s])'
      BY <2>1
    <3>1. Increasing(got[s])
      BY <2>4, IncreasingPrefix DEF Placed
    <3>2. got'[s] \o wire'[s] = got[s]
      BY <2>1, <2>2, <2>4, ConcatEmptySeq
    <3> QED  BY <2>1, <3>1, <3>2 DEF Increasing
  <2>6. Placed(s)'
    BY <2>1, <2>2, <2>3, <2>4, <2>5 DEF Placed, Sent, Old
  <2>7. \A c \in Streams \ {s} : stream'[c] = stream[c] /\ wire'[c] = wire[c] /\ got'[c] = got[c]
    BY <2>1 DEF TypeInv, TypeOK
  <2> QED  BY <2>1, <2>6, <2>7, OrderConnection
<1>10. CASE UNCHANGED vars
  <2>1. UNCHANGED <<now, tx, stream, wire, got, rewound>>
    BY <1>10 DEF vars
  <2> QED  BY <1>0, <2>1, OrderMutation
<1> QED  BY <1>1, <1>2, <1>3, <1>4, <1>5, <1>6, <1>7, <1>8, <1>9, <1>10 DEF Next

LEMMA TimesHold == Spec => []TimesInv
<1> QED  BY TimesInit, TimesStep, TypeHolds, PTL DEF Spec

\* A client reads events in the order of their numbers and none twice, whatever is lost, purged or
\* refused on the way, unless it names its last event by an id that is not found while the head of
\* the feed cannot be read: for any number of transactions, streams and accounts.
THEOREM EventsInOrder == Spec => []InOrder
<1>1. OrderInv => InOrder
  BY DEF OrderInv, Placed, InOrder
<1> QED  BY <1>1, OrderInit, OrderStep, TypeHolds, TimesHold, PTL DEF Spec

-------------------------------------------------------------------------------
(* Skips.                                                                  *)

\* u is an event at which a cursor stopped that had passed t.
Overtaken(t, u) ==
    /\ tx[u].pc \in {"committed", "purged"} /\ tx[u].seq > tx[t].seq
    /\ Unended(t) \/ tx[u].created_at <= tx[t].ended_at
    /\ \/ tx[u].created_at < tx[t].created_at
       \/ (IF Unended(t) THEN now ELSE tx[t].ended_at) - tx[t].created_at > Grace

SkipInv ==
    \A s \in Streams : \A t \in skipped[s] : tx[t].pc # "none" /\ tx[t].seq > 0 /\ \E u \in Own : Overtaken(t, u)

LEMMA SkipInit == Init => SkipInv
  BY DEF Init, SkipInv

\* A step that moves no cursor: a number once drawn stays, an end once reached too, and a
\* transaction that is still open has been open for longer.
LEMMA SkipFrame ==
    ASSUME TypeInv, SkipInv, skipped' = skipped, now' \in Nat, now <= now',
           \A t \in Txs : tx[t].seq > 0 =>
              /\ tx'[t].seq = tx[t].seq /\ tx'[t].created_at = tx[t].created_at /\ tx'[t].pc # "none"
              /\ tx[t].pc \in {"committed", "purged"} => tx'[t].pc \in {"committed", "purged"}
              /\ ~Unended(t) => ~Unended(t)' /\ tx'[t].ended_at = tx[t].ended_at
              /\ Unended(t) /\ ~Unended(t)' => tx'[t].ended_at = now
           ,
           \A t \in Txs : tx[t].created_at <= now
    PROVE  SkipInv'
<1> SUFFICES ASSUME NEW s \in Streams, NEW t \in skipped[s]
             PROVE  (tx[t].pc # "none" /\ tx[t].seq > 0 /\ \E u \in Own : Overtaken(t, u))'
  BY DEF SkipInv
<1>1. t \in Txs
  BY DEF TypeInv, TypeOK
<1>2. tx[t].pc # "none" /\ tx[t].seq > 0 /\ \E u \in Own : Overtaken(t, u)
  BY DEF SkipInv
<1>3. PICK u \in Own : Overtaken(t, u)
  BY <1>2
<1> u \in Txs
  BY EventFeedAssumption
<1>4. /\ tx[t].seq \in Nat /\ tx[u].seq \in Nat /\ tx[t].created_at \in Nat /\ tx[u].created_at \in Nat
      /\ tx[t].ended_at \in Nat /\ now \in Nat /\ Grace \in Nat
  BY <1>1, TxParts, EventFeedAssumption
<1>5. tx[u].seq > 0
  BY <1>2, <1>3, <1>4 DEF Overtaken
<1>6. tx'[u].pc \in {"committed", "purged"} /\ tx'[u].seq = tx[u].seq /\ tx'[u].created_at = tx[u].created_at
  BY <1>3, <1>5 DEF Overtaken
<1>7. tx'[t].seq = tx[t].seq /\ tx'[t].created_at = tx[t].created_at /\ tx'[t].pc # "none"
  BY <1>1, <1>2
<1>8. ASSUME Unended(t), Unended(t)' PROVE Overtaken(t, u)'
  <2>1. \/ tx[u].created_at < tx[t].created_at
        \/ now - tx[t].created_at > Grace
    BY <1>3, <1>8 DEF Overtaken
  <2>2. \/ tx'[u].created_at < tx'[t].created_at
        \/ now' - tx'[t].created_at > Grace
    BY <1>4, <1>6, <1>7, <2>1
  <2>3. tx'[u].seq > tx'[t].seq
    BY <1>3, <1>6, <1>7 DEF Overtaken
  <2>4. tx'[u].pc \in {"committed", "purged"} /\ Unended(t)'
    BY <1>6, <1>8
  <2> QED  BY <2>2, <2>3, <2>4, Zenon DEF Overtaken
<1>9. ASSUME Unended(t), ~Unended(t)' PROVE Overtaken(t, u)'
  <2>1. tx'[t].ended_at = now /\ tx[u].created_at <= now
    BY <1>1, <1>2, <1>9
  <2> QED  BY <1>2, <1>3, <1>4, <1>6, <1>7, <1>9, <2>1 DEF Overtaken
<1>10. ASSUME ~Unended(t) PROVE Overtaken(t, u)'
  <2>1. ~Unended(t)' /\ tx'[t].ended_at = tx[t].ended_at
    BY <1>1, <1>2, <1>10
  <2> QED  BY <1>2, <1>3, <1>4, <1>6, <1>7, <1>10, <2>1 DEF Overtaken
<1>11. Overtaken(t, u)'
  BY <1>8, <1>9, <1>10
<1>12. tx'[t].seq > 0
  BY <1>2, <1>7
<1> QED  BY <1>7, <1>11, <1>12, Zenon

\* What a poll passes over was not old enough to be read, or not yet committed, and the last event
\* it read was: that one overtook it.
LEMMA SkipPoll ==
    ASSUME TypeInv, NumbersInv, TimesInv, SkipInv, NEW s \in Streams, Poll(s)
    PROVE  SkipInv'
<1>1. PICK evs, sent \in Seq(Txs) : PollsWith(s, evs, sent)
  BY PollReads
<1> DEFINE u == Last(evs)
<1>2. /\ u \in Range(evs) /\ u \in Aged /\ u \in Own /\ u \in Txs
      /\ \A t \in Aged \cap Own : tx[t].seq > stream[s].cursor /\ tx[t].seq <= tx[u].seq => t \in Range(evs)
      /\ skipped' = [skipped EXCEPT ![s] =
                        skipped[s] \cup (Passed(s, stream[s].cursor, tx[u].seq) \ Range(evs))]
  BY <1>1 DEF PollsWith, Aged
<1>3. tx' = tx /\ now' = now
  BY DEF Poll
<1> HIDE DEF u
<1>4. ASSUME NEW t \in Passed(s, stream[s].cursor, tx[u].seq) \ Range(evs)
      PROVE  tx[t].pc # "none" /\ tx[t].seq > 0 /\ Overtaken(t, u)
  <2>1. /\ t \in Wants[s] /\ tx[t].pc \in {"inserted", "committed"} /\ tx[t].seq <= tx[u].seq
        /\ tx[t].seq > stream[s].cursor /\ t \notin Range(evs)
    BY DEF Passed
  <2>2. t \in Txs /\ t \in Own /\ t # u
    BY <1>2, <2>1, EventFeedAssumption
  <2>3. t \notin Aged
    BY <1>2, <2>1, <2>2
  <2>4. /\ tx[t].seq \in Nat /\ tx[u].seq \in Nat /\ tx[t].created_at \in Nat /\ tx[u].created_at \in Nat
        /\ tx[t].ended_at \in Nat /\ now \in Nat /\ Grace \in Nat
    BY <1>2, <2>2, TxParts, EventFeedAssumption
  <2>5. tx[t].seq > 0 /\ tx[t].seq # tx[u].seq
    BY <1>2, <2>1, <2>2 DEF NumbersInv
  <2>6. tx[u].pc = "committed" /\ tx[u].created_at < now - Grace /\ tx[t].seq < tx[u].seq
    BY <1>2, <2>1, <2>4, <2>5 DEF Aged, Visible, Old
  <2>7. CASE tx[t].pc = "inserted"
    <3>1. Unended(t)
      BY <2>7 DEF Unended
    <3>2. tx[u].created_at < tx[t].created_at \/ now - tx[t].created_at > Grace
      BY <2>4, <2>6
    <3> QED  BY <2>4, <2>5, <2>6, <2>7, <3>1, <3>2 DEF Overtaken
  <2>8. CASE tx[t].pc = "committed"
    <3>1. tx[t].created_at >= now - Grace
      BY <2>2, <2>3, <2>4, <2>8 DEF Aged, Visible, Old
    <3>2. tx[t].created_at <= tx[t].ended_at
      BY <2>2, <2>8 DEF TimesInv
    <3> QED  BY <2>4, <2>5, <2>6, <2>8, <3>1, <3>2 DEF Overtaken
  <2> QED  BY <2>1, <2>7, <2>8
<1>5. ASSUME NEW c \in Streams, NEW t \in skipped'[c]
      PROVE  tx[t].pc # "none" /\ tx[t].seq > 0 /\ \E v \in Own : Overtaken(t, v)
  <2>1. t \in skipped[c] \/ t \in Passed(s, stream[s].cursor, tx[u].seq) \ Range(evs)
    BY <1>2 DEF TypeInv, TypeOK
  <2> QED  BY <1>2, <1>4, <2>1 DEF SkipInv
<1>6. \A t, v : Overtaken(t, v)' <=> Overtaken(t, v)
  BY <1>3 DEF Overtaken, Unended
<1> QED  BY <1>3, <1>5, <1>6 DEF SkipInv

\* A stream whose place is known starts there, and passes nothing.
LEMMA SkipConnect ==
    ASSUME TypeInv, NumbersInv, NEW s \in Streams, Connect(s)
    PROVE  skipped' = skipped
<1>1. PICK failed \in SUBSET {"MaxEventSeq", "GetEvent"}, cursor \in 0 .. Cardinality(Txs) :
         StartsAt(s, failed, cursor)
  BY ConnectStarts
<1>2. CASE Unplaced(s, failed)
  BY <1>1, <1>2 DEF StartsAt
<1>3. CASE ~Unplaced(s, failed)
  <2>1. cursor = Place(s)
    BY <1>1, <1>3 DEF StartsAt, Resume
  <2>2. skipped' = [skipped EXCEPT ![s] = @ \cup Passed(s, Place(s), cursor)]
    BY <1>1, <1>3 DEF StartsAt
  <2>3. ASSUME NEW t \in Passed(s, Place(s), cursor) PROVE FALSE
    <3>1. t \in Txs /\ tx[t].seq <= cursor /\ tx[t].seq > cursor
      BY <2>1, EventFeedAssumption DEF Passed
    <3>2. tx[t].seq \in Nat /\ cursor \in Nat
      BY <3>1, TxParts, Counts
    <3> QED  BY <3>1, <3>2
  <2> QED  BY <2>2, <2>3 DEF TypeInv, TypeOK
<1> QED  BY <1>2, <1>3

LEMMA SkipStep == TypeInv /\ NumbersInv /\ TimesInv /\ SkipInv /\ [Next]_vars => SkipInv'
<1> SUFFICES ASSUME TypeInv, NumbersInv, TimesInv, SkipInv, [Next]_vars PROVE SkipInv'
  OBVIOUS
<1>0. now \in Nat /\ now <= now /\ \A t \in Txs : tx[t].created_at <= now
  BY EventFeedAssumption DEF TypeInv, TypeOK, TimesInv
<1>1. CASE Tick
  <2>1. tx' = tx /\ now' = now + 1 /\ skipped' = skipped /\ \A t \in Txs : Unended(t)' <=> Unended(t)
    BY <1>1 DEF Tick, Unended
  <2>2. now' \in Nat /\ now <= now'
    BY <1>0, <2>1
  <2>3. \A t \in Txs : tx[t].seq > 0 => tx[t].pc # "none"
    BY TxParts DEF NumbersInv
  <2> QED  BY <1>0, <2>1, <2>2, <2>3, SkipFrame
<1>2. \A t \in Txs : tx[t].seq > 0 => tx[t].pc # "none" /\ tx[t].pc # "open"
  BY TxParts DEF NumbersInv
<1>3. ASSUME NEW t \in Txs, Begin(t) PROVE SkipInv'
  <2>1. tx[t].pc = "none" /\ \A u \in Txs \ {t} : tx'[u] = tx[u]
    BY <1>3, BeginRow
  <2>2. now' = now /\ skipped' = skipped
    BY <1>3 DEF Begin
  <2>3. \A u \in Txs : tx[u].seq > 0 => tx'[u] = tx[u] /\ (Unended(u)' <=> Unended(u))
    BY <1>2, <2>1 DEF Unended
  <2> QED  BY <1>0, <1>2, <2>2, <2>3, SkipFrame
<1>4. ASSUME NEW t \in Txs, InsertEvent(t) PROVE SkipInv'
  <2>1. tx[t].seq = 0 /\ lastSeq = Cardinality(Numbered) /\ tx[t].pc = "open"
    BY <1>4 DEF NumbersInv, InsertEvent
  <2>2. \A u \in Txs \ {t} : tx'[u] = tx[u]
    BY <1>4, <2>1, InsertCounts
  <2>3. now' = now /\ skipped' = skipped
    BY <1>4 DEF InsertEvent
  <2>4. \A u \in Txs : tx[u].seq > 0 => tx'[u] = tx[u] /\ (Unended(u)' <=> Unended(u))
    BY <1>2, <2>1, <2>2 DEF Unended
  <2> QED  BY <1>0, <1>2, <2>3, <2>4, SkipFrame
<1>5. ASSUME NEW t \in Txs, End(t) PROVE SkipInv'
  <2>1. /\ Unended(t) /\ tx'[t].pc \in {"committed", "aborted"} /\ tx'[t].ended_at = now
        /\ tx'[t].created_at = tx[t].created_at /\ tx'[t].seq = tx[t].seq
        /\ \A u \in Txs \ {t} : tx'[u] = tx[u]
    BY <1>5, EndRow DEF Unended
  <2>2. now' = now /\ skipped' = skipped
    BY <1>5 DEF End
  <2>3. \A u \in Txs \ {t} : Unended(u)' <=> Unended(u)
    BY <2>1 DEF Unended
  <2>4. tx[t].pc \in {"open", "inserted"}
    BY <2>1 DEF Unended
  <2> QED  BY <1>0, <1>2, <2>1, <2>2, <2>3, <2>4, SkipFrame
<1>6. ASSUME NEW t \in Txs, PurgeOldEvents(t) PROVE SkipInv'
  <2>1. /\ tx[t].pc = "committed" /\ tx'[t].pc = "purged" /\ tx'[t].ended_at = tx[t].ended_at
        /\ tx'[t].created_at = tx[t].created_at /\ tx'[t].seq = tx[t].seq
        /\ \A u \in Txs \ {t} : tx'[u] = tx[u]
    BY <1>6, PurgeRow
  <2>2. now' = now /\ skipped' = skipped
    BY <1>6 DEF PurgeOldEvents
  <2>3. \A u \in Txs : Unended(u)' <=> Unended(u)
    BY <2>1 DEF Unended
  <2> QED  BY <1>0, <1>2, <2>1, <2>2, <2>3, SkipFrame
<1>7. ASSUME NEW s \in Streams, Poll(s) PROVE SkipInv'
  BY <1>7, SkipPoll
<1>8. ASSUME tx' = tx, now' = now, skipped' = skipped PROVE SkipInv'
  BY <1>8 DEF SkipInv, Overtaken, Unended
<1>9. ASSUME NEW s \in Streams, Connect(s) \/ Read(s) \/ Disconnect(s) PROVE SkipInv'
  BY <1>8, <1>9, SkipConnect DEF Connect, Read, Disconnect
<1>10. CASE UNCHANGED vars
  BY <1>8, <1>10 DEF vars
<1> QED  BY <1>1, <1>3, <1>4, <1>5, <1>6, <1>7, <1>9, <1>10 DEF Next

LEMMA SkipExplains == TypeInv /\ NumbersInv /\ TimesInv /\ SkipInv => SkipsExplained
<1> SUFFICES ASSUME TypeInv, NumbersInv, TimesInv, SkipInv, NEW s \in Streams, NEW t \in skipped[s]
             PROVE  \E u \in Own \ {t} :
                       /\ tx[u].seq > tx[t].seq
                       /\ Unended(t) \/ Overlapped(t, u)
                       /\ \/ tx[u].created_at < tx[t].created_at
                          \/ (IF Unended(t) THEN now ELSE tx[t].ended_at) - tx[t].created_at > Grace
  BY DEF SkipsExplained
<1>1. t \in Txs /\ tx[t].seq > 0
  BY DEF TypeInv, TypeOK, SkipInv
<1>2. PICK u \in Own : Overtaken(t, u)
  BY DEF SkipInv
<1> u \in Txs
  BY EventFeedAssumption
<1>3. /\ tx[u].seq > tx[t].seq /\ tx[t].seq \in Nat /\ tx[u].seq \in Nat
      /\ tx[u].pc \in {"committed", "purged"}
  BY <1>1, <1>2, TxParts DEF Overtaken
<1>4. u # t
  BY <1>3
<1>5. tx[t].created_at <= tx[u].ended_at
  BY <1>1, <1>3 DEF TimesInv, Unended
<1> QED  BY <1>2, <1>3, <1>4, <1>5 DEF Overtaken, Overlapped

\* The only events that polling, or resuming at a known place, passes over are those of a
\* transaction that overlapped another of the same account and either began after it or outran the
\* grace window.
THEOREM SkipsAreExplained == Spec => []SkipsExplained
<1> QED  BY SkipInit, SkipStep, SkipExplains, TypeHolds, TimesHold, PTL DEF Spec

================================================================================
