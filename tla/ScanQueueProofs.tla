----------------------------- MODULE ScanQueueProofs -----------------------------
(***************************************************************************)
(* Proofs about ScanQueue, for any sessions, users, batches and backoff.   *)
(***************************************************************************)
EXTENDS ScanQueue, SequenceTheorems, TLAPS

\* A pass of the scanner.
Passes == [pc : {"idle", "next", "fetch", "mark", "settle"}, mode : {"sessions", "accounts"},
           claimed : SUBSET Sids, seen : [Sids -> 0 .. Steps + 1], holds : SUBSET Sids,
           todo : SUBSET Users, user : Users \cup {Nobody}, token : Tokens \cup {NoToken},
           result : {"none", "ok", "transient", "permanent"}]

RowsInv == row \in [Sids -> Entry]

\* The accounts in `order' are accounts, connected, and there once each; those scanned within
\* the hour are among them.
OrderInv ==
    /\ order \in Seq(Users)
    /\ token \in [Users -> Tokens \cup {NoToken}]
    /\ fresh \subseteq {order[i] : i \in DOMAIN order}
    /\ \A i \in DOMAIN order : /\ token[order[i]] # NoToken
                               /\ \A j \in DOMAIN order : order[j] = order[i] => i = j

\* What a pass claimed is there, and from the client it opened to the outcome it has a user.
PassInv ==
    /\ scan \in Passes
    /\ scan.holds \subseteq scan.claimed
    /\ scan.pc \in {"fetch", "mark", "settle"} => scan.user \in Users

\* The sessions of each kind are sessions, and only what is on GitHub is attached.
SetsInv ==
    /\ covered \subseteq Sids /\ recent \subseteq Sids
    /\ pushed \subseteq Sids /\ attached \subseteq pushed
    /\ rejected \subseteq Tokens
    /\ asked \subseteq Sids

TypeInv == RowsInv /\ OrderInv /\ PassInv /\ SetsInv

-------------------------------------------------------------------------------
(* The order of the accounts.                                              *)

LEMMA OrderFacts ==
    ASSUME OrderInv
    PROVE  /\ Len(order) \in Nat /\ DOMAIN order = 1 .. Len(order)
           /\ \A i \in 1 .. Len(order) : order[i] \in Users
  BY LenProperties, ElementOfSeq DEF OrderInv

LEMMA Below ==
    ASSUME NEW n \in Nat, NEW i \in 1 .. n, i # n
    PROVE  i + 1 <= n
  OBVIOUS

\* Taking an account out leaves the others, once each.
LEMMA WithoutFacts ==
    ASSUME OrderInv, NEW u
    PROVE  /\ Without(u) \in Seq(Users)
           /\ \A i \in DOMAIN Without(u) : Without(u)[i] # u
           /\ \A i \in DOMAIN Without(u) : \E k \in DOMAIN order : Without(u)[i] = order[k]
           /\ \A i, j \in DOMAIN Without(u) : Without(u)[i] = Without(u)[j] => i = j
           /\ \A k \in DOMAIN order : order[k] # u => \E i \in DOMAIN Without(u) : Without(u)[i] = order[k]
<1>0. /\ order \in Seq(Users) /\ Len(order) \in Nat /\ DOMAIN order = 1 .. Len(order)
      /\ \A i \in 1 .. Len(order) : order[i] \in Users
      /\ \A i, j \in 1 .. Len(order) : order[j] = order[i] => i = j
  BY OrderFacts DEF OrderInv
<1>1. CASE ~\E i \in DOMAIN order : order[i] = u
  <2>1. Without(u) = order
    BY <1>1 DEF Without
  <2> QED  BY <1>0, <1>1, <2>1
<1>2. CASE \E i \in DOMAIN order : order[i] = u
  <2> DEFINE n == CHOOSE i \in DOMAIN order : order[i] = u
             front == SubSeq(order, 1, n - 1)
             back  == SubSeq(order, n + 1, Len(order))
  <2>1. n \in 1 .. Len(order) /\ order[n] = u
    BY <1>0, <1>2
  <2>2. Without(u) = front \o back
    BY <1>2 DEF Without
  <2> HIDE DEF n
  <2>3. /\ front \in Seq(Users) /\ Len(front) = n - 1
        /\ \A i \in 1 .. n - 1 : front[i] = order[i]
    <3>1. \A i \in 1 .. n - 1 : order[i] \in Users
      BY <1>0, <2>1
    <3>2. 1 \in Int /\ n - 1 \in Int /\ (n - 1) - 1 + 1 = n - 1
      BY <2>1
    <3>3. /\ front \in Seq(Users)
          /\ Len(front) = IF 1 <= n - 1 THEN (n - 1) - 1 + 1 ELSE 0
          /\ \A i \in 1 .. (n - 1) - 1 + 1 : front[i] = order[1 + i - 1]
      BY <3>1, <3>2, SubSeqProperties
    <3> QED  BY <1>0, <2>1, <3>2, <3>3
  <2>4. /\ back \in Seq(Users) /\ Len(back) = Len(order) - n
        /\ \A i \in 1 .. Len(order) - n : back[i] = order[n + i]
    <3>1. \A i \in n + 1 .. Len(order) : order[i] \in Users
      BY <1>0, <2>1
    <3>2. n + 1 \in Int /\ Len(order) \in Int
      BY <1>0, <2>1
    <3>3. /\ back \in Seq(Users)
          /\ Len(back) = IF n + 1 <= Len(order) THEN Len(order) - (n + 1) + 1 ELSE 0
          /\ \A i \in 1 .. Len(order) - (n + 1) + 1 : back[i] = order[n + 1 + i - 1]
      BY <3>1, <3>2, SubSeqProperties
    <3>4. Len(order) - (n + 1) + 1 = Len(order) - n
      BY <1>0, <2>1
    <3>5. Len(back) = Len(order) - n
      <4>1. CASE n = Len(order)
        <5>1. ~(n + 1 <= Len(order)) /\ Len(order) - n = 0
          BY <1>0, <4>1
        <5> QED  BY <3>3, <5>1
      <4>2. CASE n # Len(order)
        <5>1. n + 1 <= Len(order)
          BY <1>0, <2>1, <4>2, Below
        <5> QED  BY <3>3, <3>4, <5>1
      <4> QED  BY <4>1, <4>2
    <3>6. \A i \in 1 .. Len(order) - n : back[i] = order[n + i]
      <4> SUFFICES ASSUME NEW i \in 1 .. Len(order) - n PROVE back[i] = order[n + i]
        OBVIOUS
      <4>1. n + 1 + i - 1 = n + i
        BY <2>1
      <4> QED  BY <3>3, <3>4, <4>1
    <3> QED  BY <3>3, <3>5, <3>6
  <2> HIDE DEF front, back
  <2> DEFINE rest == Without(u)
  <2>5. /\ rest \in Seq(Users) /\ Len(rest) = Len(order) - 1
        /\ \A i \in 1 .. Len(order) - 1 : rest[i] = IF i < n THEN order[i] ELSE order[i + 1]
    <3>1. /\ front \o back \in Seq(Users)
          /\ Len(front \o back) = Len(front) + Len(back)
          /\ \A i \in 1 .. Len(front) + Len(back) :
                (front \o back)[i] = IF i <= Len(front) THEN front[i] ELSE back[i - Len(front)]
      BY <2>3, <2>4, ConcatProperties
    <3>2. Len(front) + Len(back) = Len(order) - 1
      BY <1>0, <2>1, <2>3, <2>4
    <3>3. ASSUME NEW i \in 1 .. Len(order) - 1
          PROVE  (front \o back)[i] = IF i < n THEN order[i] ELSE order[i + 1]
      <4>1. CASE i < n
        BY <1>0, <2>1, <2>3, <3>1, <3>2, <4>1
      <4>2. CASE ~(i < n)
        <5>1. i - (n - 1) \in 1 .. Len(order) - n
          BY <1>0, <2>1, <4>2
        <5>2. back[i - (n - 1)] = order[n + (i - (n - 1))]
          BY <2>4, <5>1
        <5>3. n + (i - (n - 1)) = i + 1
          BY <2>1
        <5>4. (front \o back)[i] = back[i - (n - 1)]
          BY <1>0, <2>1, <2>3, <3>1, <3>2, <4>2
        <5> QED  BY <4>2, <5>2, <5>3, <5>4
      <4> QED  BY <4>1, <4>2
    <3> QED  BY <2>2, <3>1, <3>2, <3>3
  <2>6. DOMAIN rest = 1 .. Len(order) - 1
    BY <2>5, LenProperties
  <2> HIDE DEF rest
  <2>7. \A i \in DOMAIN rest : \E k \in 1 .. Len(order) : k # n /\ rest[i] = order[k]
    <3> SUFFICES ASSUME NEW i \in 1 .. Len(order) - 1
                 PROVE  \E k \in 1 .. Len(order) : k # n /\ rest[i] = order[k]
      BY <2>6
    <3>1. CASE i < n
      BY <1>0, <2>1, <2>5, <3>1
    <3>2. CASE ~(i < n)
      <4>1. i + 1 \in 1 .. Len(order) /\ i + 1 # n
        BY <1>0, <2>1, <3>2
      <4> QED  BY <2>5, <3>2, <4>1
    <3> QED  BY <3>1, <3>2
  <2>8. \A i \in DOMAIN rest : rest[i] # u
    BY <1>0, <2>1, <2>7
  <2>9. ASSUME NEW i \in DOMAIN rest, NEW j \in DOMAIN rest, rest[i] = rest[j]
        PROVE  i = j
    <3> DEFINE a == IF i < n THEN i ELSE i + 1
               b == IF j < n THEN j ELSE j + 1
    <3>1. a \in 1 .. Len(order) /\ b \in 1 .. Len(order)
      BY <1>0, <2>1, <2>6, <2>9
    <3>2. order[a] = order[b]
      BY <2>5, <2>6, <2>9
    <3>3. a = b
      BY <1>0, <3>1, <3>2
    <3> QED  BY <1>0, <2>1, <2>6, <2>9, <3>3
  <2>10. ASSUME NEW k \in DOMAIN order, order[k] # u
         PROVE  \E i \in DOMAIN rest : rest[i] = order[k]
    <3>1. k \in 1 .. Len(order) /\ k # n
      BY <1>0, <2>1, <2>10
    <3>2. CASE k < n
      <4>1. k \in 1 .. Len(order) - 1
        BY <1>0, <2>1, <3>1, <3>2
      <4> QED  BY <2>5, <2>6, <3>2, <4>1
    <3>3. CASE k > n
      <4>1. k - 1 \in 1 .. Len(order) - 1 /\ ~(k - 1 < n) /\ (k - 1) + 1 = k
        BY <1>0, <2>1, <3>1, <3>3
      <4> QED  BY <2>5, <2>6, <4>1
    <3> QED  BY <1>0, <2>1, <3>1, <3>2, <3>3
  <2>11. \A i \in DOMAIN rest : \E k \in DOMAIN order : rest[i] = order[k]
    BY <1>0, <2>7
  <2>12. rest \in Seq(Users)
    BY <2>5
  <2> QED  BY <2>8, <2>9, <2>10, <2>11, <2>12 DEF rest
<1> QED  BY <1>1, <1>2

\* A scan that touches a connected account puts it last.
LEMMA TouchOrder ==
    ASSUME OrderInv, NEW u \in Users, Touch(u), token' = token
    PROVE  OrderInv'
<1>1. CASE token[u] = NoToken
  BY <1>1 DEF Touch, OrderInv
<1>2. CASE token[u] # NoToken
  <2> DEFINE rest == Without(u)
  <2>1. /\ rest \in Seq(Users)
        /\ \A i \in DOMAIN rest : rest[i] # u
        /\ \A i \in DOMAIN rest : \E k \in DOMAIN order : rest[i] = order[k]
        /\ \A i, j \in DOMAIN rest : rest[i] = rest[j] => i = j
        /\ \A k \in DOMAIN order : order[k] # u => \E i \in DOMAIN rest : rest[i] = order[k]
    BY WithoutFacts
  <2>2. order' = Append(rest, u) /\ fresh' = fresh \cup {u}
    BY <1>2 DEF Touch
  <2> HIDE DEF rest
  <2>3. Len(rest) \in Nat /\ DOMAIN rest = 1 .. Len(rest)
    BY <2>1, LenProperties
  <2>4. /\ order' \in Seq(Users) /\ DOMAIN order' = 1 .. Len(rest) + 1
        /\ order'[Len(rest) + 1] = u
        /\ \A i \in 1 .. Len(rest) : order'[i] = rest[i]
    BY <2>1, <2>2, <2>3
  <2>5. fresh' \subseteq {order'[i] : i \in DOMAIN order'}
    <3> SUFFICES ASSUME NEW v \in fresh' PROVE \E i \in DOMAIN order' : order'[i] = v
      OBVIOUS
    <3>1. CASE v = u
      BY <2>3, <2>4, <3>1
    <3>2. CASE v # u
      <4>1. PICK k \in DOMAIN order : order[k] = v
        BY <2>2, <3>2 DEF OrderInv
      <4>2. PICK i \in DOMAIN rest : rest[i] = v
        BY <2>1, <3>2, <4>1
      <4> QED  BY <2>3, <2>4, <4>2
    <3> QED  BY <3>1, <3>2
  <2>6. \A i \in DOMAIN order' : token[order'[i]] # NoToken
    <3> SUFFICES ASSUME NEW i \in DOMAIN order' PROVE token[order'[i]] # NoToken
      OBVIOUS
    <3>1. CASE i = Len(rest) + 1
      BY <1>2, <2>4, <3>1
    <3>2. CASE i # Len(rest) + 1
      <4>1. i \in DOMAIN rest /\ order'[i] = rest[i]
        BY <2>3, <2>4, <3>2
      <4>2. PICK k \in DOMAIN order : rest[i] = order[k]
        BY <2>1, <4>1
      <4> QED  BY <4>1, <4>2 DEF OrderInv
    <3> QED  BY <3>1, <3>2
  <2>7. \A i, j \in DOMAIN order' : order'[j] = order'[i] => i = j
    BY <2>1, <2>3, <2>4
  <2> QED  BY <2>4, <2>5, <2>6, <2>7 DEF OrderInv
<1> QED  BY <1>1, <1>2

\* A connection that is deleted takes its account out of the order.
LEMMA DisconnectOrder ==
    ASSUME OrderInv, NEW u \in Users, DisconnectGitHub(u)
    PROVE  OrderInv'
<1> DEFINE rest == Without(u)
<1>1. /\ rest \in Seq(Users)
      /\ \A i \in DOMAIN rest : rest[i] # u
      /\ \A i \in DOMAIN rest : \E k \in DOMAIN order : rest[i] = order[k]
      /\ \A i, j \in DOMAIN rest : rest[i] = rest[j] => i = j
      /\ \A k \in DOMAIN order : order[k] # u => \E i \in DOMAIN rest : rest[i] = order[k]
  BY WithoutFacts
<1>2. order' = rest /\ fresh' = fresh \ {u} /\ token' = [token EXCEPT ![u] = NoToken]
  BY DEF DisconnectGitHub
<1> HIDE DEF rest
<1>3. token' \in [Users -> Tokens \cup {NoToken}] /\ \A v \in Users : v # u => token'[v] = token[v]
  BY <1>2 DEF OrderInv
<1>4. \A i \in DOMAIN rest : rest[i] \in Users
  BY <1>1, LenProperties, ElementOfSeq
<1>5. fresh' \subseteq {rest[i] : i \in DOMAIN rest}
  <2> SUFFICES ASSUME NEW v \in fresh' PROVE \E i \in DOMAIN rest : rest[i] = v
    OBVIOUS
  <2>1. PICK k \in DOMAIN order : order[k] = v
    BY <1>2 DEF OrderInv
  <2> QED  BY <1>1, <1>2, <2>1
<1>6. \A i \in DOMAIN rest : token'[rest[i]] # NoToken
  <2> SUFFICES ASSUME NEW i \in DOMAIN rest PROVE token'[rest[i]] # NoToken
    OBVIOUS
  <2>1. PICK k \in DOMAIN order : rest[i] = order[k]
    BY <1>1
  <2> QED  BY <1>1, <1>3, <1>4, <2>1 DEF OrderInv
<1> QED  BY <1>1, <1>2, <1>3, <1>5, <1>6 DEF OrderInv

\* A step that touches no connection and takes nothing but scan times away.
LEMMA SameOrder ==
    ASSUME OrderInv, order' = order, token' = token, fresh' \subseteq fresh
    PROVE  OrderInv'
  BY DEF OrderInv

-------------------------------------------------------------------------------
(* The rows.                                                               *)

LEMMA PhaseEntry ==
    ASSUME NEW e \in Entry, NEW phase \in {"running", "ended", "deleted"}
    PROVE  [e EXCEPT !.phase = phase] \in Entry
  BY DEF Entry

LEMMA OutcomeEntry ==
    ASSUME NEW e \in Entry, NEW sync \in {"pending", "ok", "error", "skipped"},
           NEW attempts \in 0 .. Steps + 1, NEW next_at \in {"null", "later", "passed"}
    PROVE  [e EXCEPT !.sync = sync, !.attempts = attempts, !.next_at = next_at] \in Entry
  BY DEF Entry

LEMMA ZeroAttempts == 0 \in 0 .. Steps + 1
  BY ScanQueueAssumption

LEMMA MarkedEntry ==
    ASSUME NEW e \in Entry
    PROVE  Marked(e) \in Entry
  BY OutcomeEntry, ZeroAttempts DEF Marked

\* A step that writes the row of one session.
LEMMA OneRow ==
    ASSUME RowsInv, NEW s \in Sids, NEW e \in Entry, row' = [row EXCEPT ![s] = e]
    PROVE  RowsInv'
  BY DEF RowsInv

LEMMA CountedOnce ==
    ASSUME NEW n \in 0 .. Steps + 1
    PROVE  OneMore(n) \in 0 .. Steps + 1
  BY ScanQueueAssumption DEF OneMore

LEMMA SettleRow ==
    ASSUME RowsInv, NEW s \in Sids, Settle(s)
    PROVE  RowsInv'
<1>1. row[s] \in Entry /\ row \in [Sids -> Entry]
  BY DEF RowsInv
<1>2. CASE scan.result = "ok"
  <2> DEFINE e == [row[s] EXCEPT !.sync = "ok", !.attempts = 0, !.next_at = "null"]
  <2>1. e \in Entry
    BY <1>1, OutcomeEntry, ZeroAttempts
  <2>2. row' = [row EXCEPT ![s] = e]
    BY <1>1, <1>2 DEF Settle, SetSessionSyncOK
  <2> HIDE DEF e
  <2> QED  BY <2>1, <2>2, OneRow
<1>3. CASE scan.result # "ok"
  <2> DEFINE last == scan.seen[s] >= Steps
             sync == IF last THEN "error" ELSE "pending"
             next_at == IF last THEN "null" ELSE "later"
             e == [row[s] EXCEPT !.sync = sync, !.attempts = OneMore(row[s].attempts),
                                 !.next_at = next_at]
  <2>1. OneMore(row[s].attempts) \in 0 .. Steps + 1
    BY <1>1, CountedOnce DEF Entry
  <2>2. e \in Entry
    <3>1. sync \in {"pending", "ok", "error", "skipped"} /\ next_at \in {"null", "later", "passed"}
      OBVIOUS
    <3> HIDE DEF sync, next_at
    <3> QED  BY <1>1, <2>1, <3>1, OutcomeEntry
  <2>3. row' = [row EXCEPT ![s] = e]
    BY <1>1, <1>3 DEF Settle, SetFailure, last
  <2> HIDE DEF e
  <2> QED  BY <2>2, <2>3, OneRow
<1> QED  BY <1>2, <1>3

-------------------------------------------------------------------------------
(* The pass.                                                               *)

\* Beginning a pass, and giving one up.
LEMMA NoScanPass == NoScan \in Passes /\ NoScan.pc = "idle" /\ NoScan.holds = {} /\ NoScan.claimed = {}
  BY ScanQueueAssumption DEF NoScan, Passes

LEMMA ClaimPass ==
    ASSUME RowsInv, PassInv, Claim
    PROVE  PassInv'
<1>1. PICK c \in SUBSET Due :
        scan' = [NoScan EXCEPT !.pc = "next", !.claimed = c, !.holds = c \cap covered,
                               !.seen = [s \in Sids |-> IF s \in c THEN row[s].attempts ELSE 0],
                               !.todo = {Owner[s] : s \in c}]
  BY DEF Claim
<1>2. c \subseteq Sids
  BY DEF Due
<1> DEFINE seen == [s \in Sids |-> IF s \in c THEN row[s].attempts ELSE 0]
           todo == {Owner[s] : s \in c}
<1>3. seen \in [Sids -> 0 .. Steps + 1]
  BY ScanQueueAssumption DEF RowsInv, Entry
<1>4. todo \subseteq Users
  BY <1>2, ScanQueueAssumption
<1> HIDE DEF seen, todo
<1>5. /\ scan' = [NoScan EXCEPT !.pc = "next", !.claimed = c, !.holds = c \cap covered,
                                !.seen = seen, !.todo = todo]
  BY <1>1 DEF seen, todo
<1>6. scan' \in Passes
  BY <1>2, <1>3, <1>4, <1>5, NoScanPass DEF Passes
<1>7. scan'.pc = "next" /\ scan'.claimed = c /\ scan'.holds = c \cap covered
  BY <1>5 DEF NoScan
<1> QED  BY <1>6, <1>7 DEF PassInv

LEMMA OpenPass ==
    ASSUME PassInv, OrderInv, OpenClient
    PROVE  PassInv'
<1>1. PICK u \in scan.todo :
        scan' = [scan EXCEPT !.todo = @ \ {u}, !.user = u, !.token = token[u],
                    !.pc = IF token[u] \in Tokens \ Unreadable THEN "fetch"
                           ELSE IF scan.mode = "sessions" THEN "settle" ELSE "next",
                    !.result = "ok"]
  BY DEF OpenClient
<1>2. u \in Users /\ token[u] \in Tokens \cup {NoToken} /\ scan.todo \ {u} \subseteq Users
  BY DEF PassInv, Passes, OrderInv
<1>3. PICK pc, k, todo : /\ pc \in {"fetch", "settle", "next"} /\ k \in Tokens \cup {NoToken}
                         /\ todo \in SUBSET Users
                         /\ scan' = [scan EXCEPT !.todo = todo, !.user = u, !.token = k,
                                                 !.pc = pc, !.result = "ok"]
  BY <1>1, <1>2 DEF PassInv, Passes
<1>4. scan' \in Passes /\ scan'.holds = scan.holds /\ scan'.claimed = scan.claimed /\ scan'.user = u
  BY <1>2, <1>3 DEF PassInv, Passes
<1> QED  BY <1>2, <1>4 DEF PassInv

\* Going on with the same user, or to the next.
LEMMA OnwardPass ==
    ASSUME PassInv, NEW pc \in {"next", "mark", "settle"},
           NEW result \in {"none", "ok", "transient", "permanent"},
           scan.pc \in {"fetch", "mark", "settle"},
           scan' = [scan EXCEPT !.pc = pc, !.result = result]
    PROVE  PassInv'
<1>1. /\ scan' \in Passes /\ scan'.holds = scan.holds /\ scan'.claimed = scan.claimed
      /\ scan'.user = scan.user
  BY DEF PassInv, Passes
<1> QED  BY <1>1 DEF PassInv

LEMMA SettlePass ==
    ASSUME PassInv, NEW s \in Sids, Settle(s)
    PROVE  PassInv'
<1> DEFINE seen == [scan.seen EXCEPT ![s] = 0]
<1>1. scan' = [scan EXCEPT !.claimed = @ \ {s}, !.seen = seen, !.holds = @ \ {s}]
  BY DEF Settle, PassInv, Passes
<1>2. seen \in [Sids -> 0 .. Steps + 1]
  BY ScanQueueAssumption DEF PassInv, Passes
<1> HIDE DEF seen
<1>3. /\ scan' \in Passes /\ scan'.holds = scan.holds \ {s}
      /\ scan'.claimed = scan.claimed \ {s} /\ scan'.user = scan.user
  BY <1>1, <1>2 DEF PassInv, Passes
<1>4. scan.user \in Users
  BY DEF Settle, At, PassInv
<1> QED  BY <1>3, <1>4 DEF PassInv

LEMMA ParkPass ==
    ASSUME PassInv, Park
    PROVE  PassInv'
<1> DEFINE seen == [s \in Sids |-> IF s \in Mine THEN 0 ELSE scan.seen[s]]
<1>1. scan' = [scan EXCEPT !.claimed = @ \ Mine, !.holds = @ \ Mine, !.result = "ok", !.seen = seen]
  BY DEF Park, PassInv, Passes
<1>2. seen \in [Sids -> 0 .. Steps + 1]
  BY ScanQueueAssumption DEF PassInv, Passes
<1> HIDE DEF seen
<1>3. /\ scan' \in Passes /\ scan'.holds = scan.holds \ Mine
      /\ scan'.claimed = scan.claimed \ Mine /\ scan'.user = scan.user
  BY <1>1, <1>2 DEF PassInv, Passes
<1>4. scan.user \in Users
  BY DEF Park, At, PassInv
<1> QED  BY <1>3, <1>4 DEF PassInv

LEMMA AccountsPass ==
    ASSUME PassInv, OrderInv, ClaimAccounts
    PROVE  PassInv'
<1>1. PICK c \in SUBSET Unscanned :
        scan' = [NoScan EXCEPT !.pc = "next", !.mode = "accounts",
                     !.todo = c \cup Stale(ConnectionBatch - Cardinality(c))]
  BY DEF ClaimAccounts
<1> DEFINE todo == c \cup Stale(ConnectionBatch - Cardinality(c))
<1>2. todo \subseteq Users
  BY OrderFacts DEF Stale, Unscanned
<1> HIDE DEF todo
<1>3. scan' = [NoScan EXCEPT !.pc = "next", !.mode = "accounts", !.todo = todo]
  BY <1>1 DEF todo
<1>4. scan' \in Passes
  BY <1>2, <1>3, NoScanPass DEF Passes
<1>5. scan'.pc = "next" /\ scan'.claimed = {} /\ scan'.holds = {}
  BY <1>3 DEF NoScan
<1> QED  BY <1>4, <1>5 DEF PassInv


-------------------------------------------------------------------------------
(* The steps.                                                              *)

\* A client that ends, edits, reopens, rescans or deletes a session.
LEMMA SessionSteps ==
    ASSUME TypeInv, NEW s \in Sids,
           \/ StopSession(s) \/ UpdateSession(s) \/ Reopen(s) \/ RescanSession(s) \/ DeleteSession(s)
    PROVE  TypeInv'
<1>1. /\ row[s] \in Entry /\ Marked(row[s]) \in Entry
      /\ [Marked(row[s]) EXCEPT !.phase = "ended"] \in Entry
      /\ [Marked(row[s]) EXCEPT !.phase = "running"] \in Entry
      /\ [row[s] EXCEPT !.phase = "deleted"] \in Entry
  BY MarkedEntry, PhaseEntry DEF TypeInv, RowsInv
<1>2. PICK e \in Entry : row' = [row EXCEPT ![s] = e]
  BY <1>1 DEF StopSession, UpdateSession, Reopen, RescanSession, DeleteSession
<1>3. RowsInv'
  BY <1>2, OneRow DEF TypeInv
<1>4. UNCHANGED <<order, token, fresh, recent, pushed, rejected, scan>>
  BY DEF StopSession, UpdateSession, Reopen, RescanSession, DeleteSession, clock, github
<1>5. OrderInv'
  BY <1>4, SameOrder DEF TypeInv
<1>6. PassInv'
  BY <1>4 DEF TypeInv, PassInv
<1>7. covered' \subseteq Sids /\ asked' \subseteq Sids /\ attached' \subseteq attached
  BY DEF TypeInv, SetsInv, StopSession, UpdateSession, Reopen, RescanSession, DeleteSession
<1>8. SetsInv'
  BY <1>4, <1>7 DEF TypeInv, SetsInv
<1> QED  BY <1>3, <1>5, <1>6, <1>8 DEF TypeInv

\* A client that connects an account or disconnects it: the order follows the connections.
LEMMA ConnectionSteps ==
    ASSUME TypeInv, NEW u \in Users, ConnectGitHub(u) \/ DisconnectGitHub(u)
    PROVE  TypeInv'
<1>1. UNCHANGED <<row, covered, recent, pushed, rejected, attached, scan, asked>>
  BY DEF ConnectGitHub, DisconnectGitHub, clock, github
<1>2. RowsInv' /\ PassInv' /\ SetsInv'
  BY <1>1 DEF TypeInv, RowsInv, PassInv, SetsInv
<1>3. OrderInv'
  <2>1. CASE DisconnectGitHub(u)
    BY <2>1, DisconnectOrder DEF TypeInv
  <2>2. CASE ConnectGitHub(u)
    <3>1. PICK k \in Tokens : token' = [token EXCEPT ![u] = k]
      BY <2>2 DEF ConnectGitHub
    <3>2. order' = order /\ fresh' = fresh
      BY <2>2 DEF ConnectGitHub, clock
    <3>3. k # NoToken
      BY ScanQueueAssumption
    <3>4. \A v \in Users : token[v] # NoToken => token'[v] # NoToken
      BY <3>1, <3>3 DEF TypeInv, OrderInv
    <3>5. \A i \in DOMAIN order : order[i] \in Users
      BY OrderFacts DEF TypeInv
    <3>6. token' \in [Users -> Tokens \cup {NoToken}]
      BY <3>1 DEF TypeInv, OrderInv
    <3> QED  BY <3>2, <3>4, <3>5, <3>6 DEF TypeInv, OrderInv
  <2> QED  BY <2>1, <2>2
<1> QED  BY <1>2, <1>3 DEF TypeInv

\* Commits pushed, tokens revoked and time that passes.
LEMMA WorldSteps ==
    ASSUME TypeInv, World
    PROVE  TypeInv'
<1>1. UNCHANGED <<covered, attached, token, order, scan, asked>>
  BY DEF World, Push, BackoffPasses, WeekPasses, Revoke, HourPasses
<1>2. /\ recent' \subseteq recent /\ fresh' \subseteq fresh
      /\ pushed \subseteq pushed' /\ pushed' \subseteq Sids /\ rejected' \subseteq Tokens
  BY DEF World, Push, BackoffPasses, WeekPasses, Revoke, HourPasses, clock, github, TypeInv, SetsInv
<1>3. RowsInv'
  <2>1. CASE row' = row
    BY <2>1 DEF TypeInv, RowsInv
  <2>2. ASSUME NEW s \in Sids, BackoffPasses(s)
        PROVE  RowsInv'
    <3> DEFINE e == [row[s] EXCEPT !.next_at = "passed"]
    <3>1. e \in Entry
      BY DEF TypeInv, RowsInv, Entry
    <3>2. row' = [row EXCEPT ![s] = e]
      BY <2>2 DEF BackoffPasses
    <3> HIDE DEF e
    <3> QED  BY <3>1, <3>2, OneRow DEF TypeInv
  <2> QED  BY <2>1, <2>2 DEF World, Push, WeekPasses, Revoke, HourPasses
<1>4. OrderInv' /\ PassInv'
  BY <1>1, <1>2, SameOrder DEF TypeInv, PassInv
<1>5. SetsInv'
  BY <1>1, <1>2 DEF TypeInv, SetsInv
<1> QED  BY <1>3, <1>4, <1>5 DEF TypeInv

\* The rows a step of the scanner leaves.
LEMMA ScannerRows ==
    ASSUME TypeInv, Pass \/ RequeueRecentSessions \/ Restart
    PROVE  RowsInv'
<1>1. CASE row' = row
  BY <1>1 DEF TypeInv, RowsInv
<1>2. ASSUME NEW s \in Sids, Settle(s) PROVE RowsInv'
  BY <1>2, SettleRow DEF TypeInv
<1>3. ASSUME Park \/ RequeueRecentSessions PROVE RowsInv'
  <2>1. ASSUME NEW s \in Sids
        PROVE  /\ row[s] \in Entry
               /\ [row[s] EXCEPT !.sync = "skipped", !.next_at = "null"] \in Entry
               /\ [row[s] EXCEPT !.sync = "pending", !.next_at = "null"] \in Entry
    BY DEF TypeInv, RowsInv, Entry
  <2>2. CASE Park
    <3>1. \A s \in Sids : row'[s] \in Entry
      BY <2>1, <2>2 DEF Park
    <3> QED  BY <2>2, <3>1 DEF Park, RowsInv
  <2>3. CASE RequeueRecentSessions
    <3>1. \A s \in Sids : row'[s] \in Entry
      BY <2>1, <2>3 DEF RequeueRecentSessions
    <3> QED  BY <2>3, <3>1 DEF RequeueRecentSessions, RowsInv
  <2> QED  BY <1>3, <2>2, <2>3
<1> QED
  BY <1>1, <1>2, <1>3 DEF Pass, Claim, OpenClient, FetchAll, FetchFails, MarkScan, NextUser,
        ClaimAccounts, EndPass, Restart

\* Only the end of a scan writes the order, and not for an account that is gone.
LEMMA ScannerOrder ==
    ASSUME TypeInv, Pass \/ RequeueRecentSessions \/ Restart
    PROVE  OrderInv'
<1>1. CASE UNCHANGED <<order, token, fresh>>
  BY <1>1, SameOrder DEF TypeInv
<1>2. CASE MarkScan
  <2>1. token' = token
    BY <1>2 DEF MarkScan
  <2>2. scan.user \in Users
    BY <1>2 DEF MarkScan, At, TypeInv, PassInv
  <2>3. CASE scan.result = "ok"
    BY <1>2, <2>1, <2>2, <2>3, TouchOrder DEF MarkScan, TypeInv
  <2>4. CASE scan.result # "ok"
    BY <1>2, <2>1, <2>4, SameOrder DEF MarkScan, TypeInv
  <2> QED  BY <2>3, <2>4
<1> QED
  BY <1>1, <1>2 DEF Pass, Claim, OpenClient, FetchAll, FetchFails, Settle, Park, NextUser,
        ClaimAccounts, EndPass, RequeueRecentSessions, Restart, clock

\* The pass a step of the scanner leaves.
LEMMA ScannerPass ==
    ASSUME TypeInv, Pass \/ RequeueRecentSessions \/ Restart
    PROVE  PassInv'
<1>0. RowsInv /\ OrderInv /\ PassInv /\ scan \in Passes
  BY DEF TypeInv, PassInv
<1>1. CASE Claim
  BY <1>0, <1>1, ClaimPass
<1>2. CASE OpenClient
  BY <1>0, <1>2, OpenPass
<1>3. CASE FetchAll \/ FetchFails
  <2>1. PICK result \in {"none", "ok", "transient", "permanent"} :
          scan' = [scan EXCEPT !.pc = "mark", !.result = result]
    BY <1>3 DEF FetchAll, FetchFails
  <2>2. scan.pc = "fetch"
    BY <1>3 DEF FetchAll, FetchFails, At
  <2> QED  BY <1>0, <2>1, <2>2, OnwardPass
<1>4. CASE MarkScan
  <2>1. PICK pc \in {"next", "mark", "settle"} : scan' = [scan EXCEPT !.pc = pc]
    BY <1>4 DEF MarkScan
  <2>2. scan' = [scan EXCEPT !.pc = pc, !.result = scan.result]
    BY <1>0, <2>1 DEF Passes
  <2>3. scan.pc = "mark" /\ scan.result \in {"none", "ok", "transient", "permanent"}
    BY <1>0, <1>4 DEF MarkScan, At, Passes
  <2> QED  BY <1>0, <2>2, <2>3, OnwardPass
<1>5. ASSUME NEW s \in Sids, Settle(s) PROVE PassInv'
  BY <1>0, <1>5, SettlePass
<1>6. CASE Park
  BY <1>0, <1>6, ParkPass
<1>7. CASE NextUser
  <2>1. scan' = [scan EXCEPT !.pc = "next", !.result = scan.result]
    BY <1>0, <1>7 DEF NextUser, Passes
  <2>2. scan.pc = "settle" /\ scan.result \in {"none", "ok", "transient", "permanent"}
    BY <1>0, <1>7 DEF NextUser, At, Passes
  <2> QED  BY <1>0, <2>1, <2>2, OnwardPass
<1>8. CASE ClaimAccounts
  BY <1>0, <1>8, AccountsPass
<1>9. CASE EndPass \/ Restart
  <2>1. scan' = NoScan
    BY <1>9 DEF EndPass, Restart
  <2> QED  BY <2>1, NoScanPass DEF PassInv
<1>10. CASE RequeueRecentSessions
  BY <1>0, <1>10 DEF RequeueRecentSessions, PassInv
<1> QED  BY <1>1, <1>2, <1>3, <1>4, <1>5, <1>6, <1>7, <1>8, <1>9, <1>10 DEF Pass

\* What a scan attaches is on GitHub; what a claim or a restart asks again are sessions.
LEMMA ScannerSets ==
    ASSUME TypeInv, Pass \/ RequeueRecentSessions \/ Restart
    PROVE  SetsInv'
<1>1. UNCHANGED <<covered, recent, pushed, rejected>>
  BY DEF Pass, Claim, OpenClient, FetchAll, FetchFails, MarkScan, Settle, Park, NextUser,
        ClaimAccounts, EndPass, RequeueRecentSessions, Restart, clock, github
<1>2. Covering(InWindow) \subseteq pushed
  BY DEF Covering, InWindow
<1>3. attached' \subseteq attached \cup Covering(InWindow)
  BY DEF Pass, Claim, OpenClient, FetchAll, FetchFails, MarkScan, Settle, Park, NextUser,
        ClaimAccounts, EndPass, RequeueRecentSessions, Restart
<1>4. asked' \subseteq asked \cup scan.claimed
  BY DEF Pass, Claim, OpenClient, FetchAll, FetchFails, MarkScan, Settle, Park, NextUser,
        ClaimAccounts, EndPass, RequeueRecentSessions, Restart
<1>5. scan.claimed \subseteq Sids
  BY DEF TypeInv, PassInv, Passes
<1> HIDE DEF Covering
<1> QED  BY <1>1, <1>2, <1>3, <1>4, <1>5 DEF TypeInv, SetsInv

-------------------------------------------------------------------------------
LEMMA TypeInit == Init => TypeInv
<1> SUFFICES ASSUME Init PROVE TypeInv
  OBVIOUS
<1>1. Born \in Entry
  BY ZeroAttempts DEF Born, Entry
<1>2. RowsInv
  BY <1>1 DEF Init, RowsInv
<1>3. OrderInv
  <2>1. order = <<>> /\ order \in Seq(Users) /\ DOMAIN order = {}
    BY EmptySeq DEF Init
  <2> QED  BY <2>1 DEF Init, OrderInv
<1>4. PassInv
  BY NoScanPass DEF Init, PassInv
<1>5. SetsInv
  BY DEF Init, SetsInv
<1> QED  BY <1>2, <1>3, <1>4, <1>5 DEF TypeInv

LEMMA TypeStep == TypeInv /\ [Next]_vars => TypeInv'
<1> SUFFICES ASSUME TypeInv, [Next]_vars PROVE TypeInv'
  OBVIOUS
<1>1. CASE Client
  BY <1>1, SessionSteps, ConnectionSteps DEF Client
<1>2. CASE World
  BY <1>2, WorldSteps
<1>3. CASE Pass \/ RequeueRecentSessions \/ Restart
  BY <1>3, ScannerRows, ScannerOrder, ScannerPass, ScannerSets DEF TypeInv
<1>4. CASE UNCHANGED vars
  BY <1>4 DEF vars, TypeInv, RowsInv, OrderInv, PassInv, SetsInv
<1> QED  BY <1>1, <1>2, <1>3, <1>4 DEF Next

LEMMA TypeHolds == TypeInv => TypeOK
<1> SUFFICES ASSUME TypeInv PROVE TypeOK
  OBVIOUS
<1>1. /\ \A i \in DOMAIN order : token[order[i]] # NoToken
      /\ \A i, j \in DOMAIN order : order[j] = order[i] => i = j
  BY DEF TypeInv, OrderInv
<1>2. scan.claimed \subseteq Sids
  BY DEF TypeInv, PassInv, Passes
<1> QED  BY <1>1, <1>2 DEF TypeInv, RowsInv, OrderInv, PassInv, SetsInv, TypeOK

\* The rows, the connections and the pass stay what they should be whatever users, GitHub and
\* the clock do between the statements of a pass: an account disconnected while it is scanned
\* is not brought back by the end of the scan, an account is in the order of the scans once,
\* and what was scanned within the hour is in it.
THEOREM TypeCorrect == Spec => []TypeOK
  BY TypeInit, TypeStep, TypeHolds, PTL DEF Spec

-------------------------------------------------------------------------------
(* Why a session is given up.                                              *)

\* A session nobody asked for since it was claimed is as it was when it was claimed, so what
\* the pass counts by is what its row says.
Cause(s) ==
    (row[s].phase = "ended" /\ s \notin asked) =>
        /\ row[s].sync = "error" => row[s].attempts > Steps
        /\ s \in scan.claimed => row[s].sync = "pending" /\ row[s].attempts = scan.seen[s]

CauseInv == \A s \in Sids : Cause(s)

\* A step that does not write these columns, asks for no less and claims no more.
LEMMA SameCause ==
    ASSUME NEW s \in Sids, Cause(s),
           row'[s].phase = row[s].phase, row'[s].sync = row[s].sync, row'[s].attempts = row[s].attempts,
           asked \subseteq asked',
           s \in scan'.claimed => s \in scan.claimed /\ scan'.seen[s] = scan.seen[s]
    PROVE  Cause(s)'
  BY DEF Cause

\* Whoever ends a session, edits it or rescans it asks for it; a session that is reopened or
\* deleted is not ended.
LEMMA SessionCause ==
    ASSUME TypeInv, CauseInv, NEW t \in Sids,
           \/ StopSession(t) \/ UpdateSession(t) \/ Reopen(t) \/ RescanSession(t) \/ DeleteSession(t)
    PROVE  CauseInv'
<1> SUFFICES ASSUME NEW s \in Sids PROVE Cause(s)'
  BY DEF CauseInv
<1>0. row[t] \in Entry /\ DOMAIN row = Sids /\ Cause(s)
  BY DEF TypeInv, RowsInv, CauseInv
<1>1. CASE s = t
  <2>1. t \in asked' \/ row'[t].phase # "ended"
    BY <1>0 DEF StopSession, UpdateSession, Reopen, RescanSession, DeleteSession, Marked, Entry
  <2> QED  BY <1>1, <2>1 DEF Cause
<1>2. CASE s # t
  <2>1. row'[s] = row[s] /\ asked \subseteq asked' /\ scan' = scan
    BY <1>0, <1>2 DEF StopSession, UpdateSession, Reopen, RescanSession, DeleteSession
  <2> QED  BY <1>0, <2>1, SameCause
<1> QED  BY <1>1, <1>2

\* What is neither a session's request nor the scanner's leaves these columns alone.
LEMMA WorldCause ==
    ASSUME TypeInv, CauseInv,
           World \/ UNCHANGED vars \/ \E u \in Users : ConnectGitHub(u) \/ DisconnectGitHub(u)
    PROVE  CauseInv'
<1> SUFFICES ASSUME NEW s \in Sids PROVE Cause(s)'
  BY DEF CauseInv
<1>1. asked' = asked /\ scan' = scan
  BY DEF World, Push, BackoffPasses, WeekPasses, Revoke, HourPasses, ConnectGitHub, DisconnectGitHub, vars
<1>2. /\ row'[s].phase = row[s].phase /\ row'[s].sync = row[s].sync
      /\ row'[s].attempts = row[s].attempts
  <2>1. CASE row' = row
    BY <2>1
  <2>2. ASSUME NEW t \in Sids, BackoffPasses(t)
        PROVE  /\ row'[s].phase = row[s].phase /\ row'[s].sync = row[s].sync
               /\ row'[s].attempts = row[s].attempts
    <3>1. row[t] \in Entry /\ DOMAIN row = Sids /\ row' = [row EXCEPT ![t].next_at = "passed"]
      BY <2>2 DEF BackoffPasses, TypeInv, RowsInv
    <3> QED  BY <3>1 DEF Entry
  <2> QED
    BY <2>1, <2>2 DEF World, Push, WeekPasses, Revoke, HourPasses, ConnectGitHub, DisconnectGitHub, vars
<1>3. Cause(s)
  BY DEF CauseInv
<1> QED  BY <1>1, <1>2, <1>3, SameCause

\* A pass counts by the rows it claims as they are then.
LEMMA ClaimCause ==
    ASSUME TypeInv, CauseInv, Claim
    PROVE  CauseInv'
<1> SUFFICES ASSUME NEW s \in Sids PROVE Cause(s)'
  BY DEF CauseInv
<1>1. PICK c \in SUBSET Due :
        /\ scan' = [NoScan EXCEPT !.pc = "next", !.claimed = c, !.holds = c \cap covered,
                                  !.seen = [t \in Sids |-> IF t \in c THEN row[t].attempts ELSE 0],
                                  !.todo = {Owner[t] : t \in c}]
        /\ asked' = asked \ c
  BY DEF Claim
<1>2. row' = row
  BY DEF Claim
<1>3. scan'.claimed = c /\ (s \in c => scan'.seen[s] = row[s].attempts)
  BY <1>1 DEF NoScan
<1>4. s \in c => row[s].sync = "pending"
  BY DEF Due
<1> QED  BY <1>1, <1>2, <1>3, <1>4 DEF CauseInv, Cause

\* The outcome of a session nobody asked for meanwhile counts by what its row says.
LEMMA SettleCause ==
    ASSUME TypeInv, CauseInv, NEW t \in Sids, Settle(t)
    PROVE  CauseInv'
<1> SUFFICES ASSUME NEW s \in Sids PROVE Cause(s)'
  BY DEF CauseInv
<1>0. /\ row[t] \in Entry /\ DOMAIN row = Sids /\ scan \in Passes
      /\ Cause(s) /\ t \in scan.claimed /\ asked' = asked
  BY DEF TypeInv, RowsInv, PassInv, CauseInv, Settle, Mine
<1>1. /\ scan'.claimed = scan.claimed \ {t}
      /\ s # t => scan'.seen[s] = scan.seen[s]
  BY <1>0 DEF Settle, Passes
<1>2. CASE s # t
  <2>1. row'[s] = row[s]
    BY <1>0, <1>2 DEF Settle, SetSessionSyncOK, SetFailure
  <2> QED  BY <1>0, <1>1, <1>2, <2>1, SameCause
<1>3. CASE s = t
  <2>1. CASE scan.result = "ok"
    <3>1. row'[t].sync = "ok"
      BY <1>0, <2>1 DEF Settle, SetSessionSyncOK, Entry
    <3> QED  BY <1>1, <1>3, <3>1 DEF Cause
  <2>2. CASE scan.result # "ok"
    <3>1. /\ row'[t].sync = IF scan.seen[t] >= Steps THEN "error" ELSE "pending"
          /\ row'[t].attempts = OneMore(row[t].attempts)
          /\ row'[t].phase = row[t].phase
      BY <1>0, <2>2 DEF Settle, SetFailure, Entry
    <3>2. scan.seen[t] \in Nat /\ Steps \in Nat
      BY <1>0, ScanQueueAssumption DEF Passes
    <3>3. scan.seen[t] >= Steps => OneMore(scan.seen[t]) > Steps
      BY <3>2 DEF OneMore
    <3> QED  BY <1>0, <1>1, <1>3, <3>1, <3>3 DEF Cause
  <2> QED  BY <2>1, <2>2
<1> QED  BY <1>2, <1>3

\* What is parked is not given up, and what the pass keeps is another user's.
LEMMA ParkCause ==
    ASSUME TypeInv, CauseInv, Park
    PROVE  CauseInv'
<1> SUFFICES ASSUME NEW s \in Sids PROVE Cause(s)'
  BY DEF CauseInv
<1>0. row[s] \in Entry /\ scan \in Passes /\ Cause(s) /\ asked' = asked
  BY DEF TypeInv, RowsInv, PassInv, CauseInv, Park
<1>1. /\ scan'.claimed = scan.claimed \ Mine
      /\ s \notin Mine => scan'.seen[s] = scan.seen[s]
  BY <1>0 DEF Park, Passes
<1>2. CASE s \in Parked
  <2>1. row'[s].sync = "skipped"
    BY <1>0, <1>2 DEF Park, Entry
  <2>2. s \in scan.claimed => s \in Mine
    BY <1>2 DEF Parked, Mine
  <2> QED  BY <1>1, <2>1, <2>2 DEF Cause
<1>3. CASE s \notin Parked
  <2>1. row'[s] = row[s]
    BY <1>3 DEF Park
  <2> QED  BY <1>0, <1>1, <2>1, SameCause
<1> QED  BY <1>2, <1>3

\* Between passes nothing is claimed, and what is requeued keeps its count.
LEMMA RequeueCause ==
    ASSUME TypeInv, CauseInv, RequeueRecentSessions
    PROVE  CauseInv'
<1> SUFFICES ASSUME NEW s \in Sids PROVE Cause(s)'
  BY DEF CauseInv
<1>0. row[s] \in Entry /\ Cause(s) /\ asked' = asked /\ scan' = scan
  BY DEF TypeInv, RowsInv, CauseInv, RequeueRecentSessions
<1>1. CASE s \in Requeued
  <2>1. row'[s].sync = "pending" /\ row'[s].attempts = row[s].attempts /\ row'[s].phase = row[s].phase
    BY <1>0, <1>1 DEF RequeueRecentSessions, Entry
  <2>2. row[s].sync # "pending"
    BY <1>1 DEF Requeued
  <2> QED  BY <1>0, <2>1, <2>2 DEF Cause
<1>2. CASE s \notin Requeued
  <2>1. row'[s] = row[s]
    BY <1>2 DEF RequeueRecentSessions
  <2> QED  BY <1>0, <2>1, SameCause
<1> QED  BY <1>1, <1>2

\* The rest of a pass writes no row, and a pass that ends, however it ends, claims nothing.
LEMMA OtherCause ==
    ASSUME TypeInv, CauseInv,
           \/ OpenClient \/ FetchAll \/ FetchFails \/ MarkScan
           \/ NextUser \/ ClaimAccounts \/ EndPass \/ Restart
    PROVE  CauseInv'
<1> SUFFICES ASSUME NEW s \in Sids PROVE Cause(s)'
  BY DEF CauseInv
<1>0. scan \in Passes /\ Cause(s)
  BY DEF TypeInv, PassInv, CauseInv
<1>1. row' = row /\ asked \subseteq asked'
  BY DEF OpenClient, FetchAll, FetchFails, MarkScan, NextUser, ClaimAccounts, EndPass, Restart
<1>2. CASE OpenClient \/ FetchAll \/ FetchFails \/ MarkScan \/ NextUser
  <2>1. scan'.claimed = scan.claimed /\ scan'.seen = scan.seen
    BY <1>0, <1>2 DEF OpenClient, FetchAll, FetchFails, MarkScan, NextUser, Passes
  <2> QED  BY <1>0, <1>1, <2>1, SameCause
<1>3. CASE ClaimAccounts \/ EndPass \/ Restart
  <2>1. scan'.claimed = {}
    BY <1>3, NoScanPass DEF ClaimAccounts, EndPass, Restart, NoScan
  <2> QED  BY <1>0, <1>1, <2>1, SameCause
<1> QED  BY <1>2, <1>3

LEMMA CauseInit == Init => CauseInv
  BY DEF Init, Born, CauseInv, Cause

LEMMA CauseStep == TypeInv /\ CauseInv /\ [Next]_vars => CauseInv'
<1> SUFFICES ASSUME TypeInv, CauseInv, [Next]_vars PROVE CauseInv'
  OBVIOUS
<1>1. CASE Client
  BY <1>1, SessionCause, WorldCause DEF Client
<1>2. CASE World \/ UNCHANGED vars
  BY <1>2, WorldCause
<1>3. CASE Pass
  BY <1>3, ClaimCause, SettleCause, ParkCause, OtherCause DEF Pass
<1>4. CASE RequeueRecentSessions \/ Restart
  BY <1>4, RequeueCause, OtherCause
<1> QED  BY <1>1, <1>2, <1>3, <1>4 DEF Next

LEMMA CauseHolds == CauseInv => GivenUpTried
  BY DEF CauseInv, Cause, GivenUpTried

\* A session is given up for a cause: over any number of passes, restarts, edits and rescans,
\* an ended session has sync 'error' only after a scan failed past every step of the backoff,
\* or because it was asked for again while the scan that gave it up was under way.
THEOREM GivenUpForCause == Spec => []GivenUpTried
<1>1. Init => TypeInv /\ CauseInv
  BY TypeInit, CauseInit
<1>2. TypeInv /\ CauseInv /\ [Next]_vars => (TypeInv /\ CauseInv)'
  BY TypeStep, CauseStep
<1> QED  BY <1>1, <1>2, CauseHolds, PTL DEF Spec

=============================================================================
