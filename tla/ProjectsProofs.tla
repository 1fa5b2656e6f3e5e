------------------------------- MODULE ProjectsProofs -------------------------------
(***************************************************************************)
(* Proofs about Projects, for any number of projects, names, repositories, *)
(* keys and concurrent requests.                                           *)
(***************************************************************************)
EXTENDS Projects, FiniteSetTheorems, TLAPS

-------------------------------------------------------------------------------
(* The invariants.                                                         *)

\* What a request holds at the step it has got to: only a POST has a key, the calls about a
\* project name it, a cut past its reading has the project it read, and only DeleteProject
\* gets to the steps of its own.
Fits(q) ==
    /\ q \in Request
    /\ q.key # None => q.call.op \in Posts
    /\ q.call.op \in Calls \ {"CreateProject", "SplitSession", "DeleteSession"} => q.call.p \in ProjectIds
    /\ q.call.op = "SplitSession" /\ q.pc = "write" => q.from \in ProjectIds
    /\ q.call.op = "LinkRepo" => q.call.repo \in Repos
    /\ q.pc \in {"count", "archive", "delete", "emit"} => q.call.op = "DeleteProject"
    /\ q.pc \in {"lookup", "store"} => q.key # None

History == [untold : SUBSET ProjectIds, ran : [Keys -> Nat], lost : SUBSET Keys,
            overlapped : SUBSET Keys]

\* The unique index: a name names one project that is not deleted.
OneOfAName ==
    \A p, q \in ProjectIds : Live(p) /\ Live(q) /\ projects[p].name = projects[q].name => p = q

RequestsFit == req \in [Reqs -> Request] /\ \A r \in Reqs : Fits(req[r])

TypeInv ==
    /\ projects \in [ProjectIds -> Project] /\ links \subseteq ProjectIds \X Repos
    /\ sessions \in Seq(Session) /\ feed \in Seq(Event)
    /\ keys \in [Keys -> Stored] /\ past \in History
    /\ RequestsFit /\ OneOfAName

\* A deletion goes ahead only when it has counted no session.
NoneSeen == \A r \in Reqs : req[r].pc = "delete" => req[r].seen = {}

StrandInv == NoneSeen /\ NoSessionStranded

\* The requests with a key that run, and those whose answer waits to be stored.
Running(k) == {r \in Reqs : req[r].key = k /\ req[r].pc \notin {"lookup", "store"}}
Storing(k) == {r \in Reqs : req[r].key = k /\ req[r].pc = "store"}

\* Of a key whose answers are all kept: an answer given is stored or about to be; unless two
\* requests overlapped, one is past its lookup, and none has been answered while it runs.
Kept(k) ==
    k \notin past.lost =>
        /\ past.ran[k] > 0 => keys[k] # NoKey \/ Storing(k) # {}
        /\ k \notin past.overlapped =>
             /\ past.ran[k] <= 1
             /\ \A q, r \in InFlight(k) : q = r
             /\ Running(k) # {} => past.ran[k] = 0

KeysInv == \A k \in Keys : Kept(k)

-------------------------------------------------------------------------------
(* The requests and the middleware around them.                            *)

\* An idle request holds nothing.
LEMMA IdleFits ==
    /\ Fits(Idle) /\ Idle.key = None /\ Idle.pc = "" /\ Idle.seen = {} /\ Idle.call = NoCall
    /\ NoProject \in Project /\ NoCall \in Call /\ NoKey \in Stored
<1>1. NoCall \in Call /\ NoProject \in Project
  BY DEF NoCall, Call, NoProject, Project
<1>2. Idle \in Request
  BY <1>1 DEF Idle, Request, Answer
<1>3. NoKey \in Stored
  BY <1>1 DEF NoKey, Stored, Answer
<1> QED  BY <1>1, <1>2, <1>3 DEF Fits, Idle, NoCall, Calls

\* A request that moves leaves the others where they are.
LEMMA OneMoves ==
    ASSUME RequestsFit, NEW r \in Reqs, NEW q, Fits(q), req' = [req EXCEPT ![r] = q]
    PROVE  /\ RequestsFit'
           /\ req'[r] = q
           /\ \A o \in Reqs \ {r} : req'[o] = req[o]
<1>1. q \in Request
  BY DEF Fits
<1>2. req' \in [Reqs -> Request] /\ req'[r] = q /\ \A o \in Reqs \ {r} : req'[o] = req[o]
  BY <1>1 DEF RequestsFit
<1>3. \A o \in Reqs : Fits(req'[o])
  BY <1>2 DEF RequestsFit
<1>4. \A o \in Reqs : Fits(req[o])'
  BY <1>3 DEF Fits
<1> QED  BY <1>2, <1>4 DEF RequestsFit

MovesTo(r, pc, seen, row) ==
    req' = [req EXCEPT ![r] = [req[r] EXCEPT !.pc = pc, !.seen = seen, !.row = row]]

\* A step from one place of a handler to another keeps the key and the call.
LEMMA GotoEffect ==
    ASSUME RequestsFit, NEW r \in Reqs, NEW pc, NEW seen \in SUBSET Nat, NEW row \in Project,
           pc \in {"run", "write", "count", "archive", "delete", "emit", "relist"},
           pc \in {"count", "archive", "delete", "emit"} => req[r].call.op = "DeleteProject",
           pc = "write" => req[r].call.op # "SplitSession",
           MovesTo(r, pc, seen, row)
    PROVE  /\ RequestsFit'
           /\ \A o \in Reqs \ {r} : req'[o] = req[o]
           /\ req'[r].pc = pc /\ req'[r].key = req[r].key /\ req'[r].call = req[r].call
           /\ req'[r].seen = seen /\ req'[r].row = row
<1> DEFINE q == [req[r] EXCEPT !.pc = pc, !.seen = seen, !.row = row]
<1>1. req[r] \in Request /\ Fits(req[r])
  BY DEF RequestsFit
<1>2. /\ q \in Request
      /\ q.pc = pc /\ q.key = req[r].key /\ q.call = req[r].call /\ q.seen = seen /\ q.row = row
  BY <1>1 DEF Request
<1> HIDE DEF q
<1>3. Fits(q)
  BY <1>1, <1>2 DEF Fits
<1>4. req' = [req EXCEPT ![r] = q]
  BY DEF q, MovesTo
<1> QED  BY <1>2, <1>3, <1>4, OneMoves

\* An answer ends the request, or leaves it to store what it answered.
LEMMA ReplyEffect ==
    ASSUME RequestsFit, NEW r \in Reqs, NEW status \in Answer, Reply(r, status)
    PROVE  /\ RequestsFit'
           /\ \A o \in Reqs \ {r} : req'[o] = req[o]
           /\ req[r].key = None \/ status = 500 => req'[r] = Idle
           /\ req[r].key # None /\ status # 500 => req'[r].pc = "store" /\ req'[r].key = req[r].key
           /\ req'[r].pc \in {"", "store"}
<1>1. req[r] \in Request /\ Fits(req[r])
  BY DEF RequestsFit
<1>2. status < 500 <=> status # 500
  BY DEF Answer
<1>3. CASE req[r].key = None \/ status = 500
  <2>1. req' = [req EXCEPT ![r] = Idle]
    BY <1>2, <1>3, <1>1 DEF Reply, RequestsFit
  <2>2. RequestsFit' /\ req'[r] = Idle /\ \A o \in Reqs \ {r} : req'[o] = req[o]
    BY <2>1, IdleFits, OneMoves
  <2>3. Idle.pc = ""
    BY IdleFits
  <2> QED  BY <1>3, <2>2, <2>3
<1>4. CASE req[r].key # None /\ status # 500
  <2> DEFINE q == [req[r] EXCEPT !.pc = "store", !.status = status, !.row = NoProject, !.seen = {}]
  <2>1. /\ q \in Request
        /\ q.pc = "store" /\ q.key = req[r].key /\ q.call = req[r].call
    BY <1>1, IdleFits DEF Request
  <2>2. req' = [req EXCEPT ![r] = q]
    BY <1>2, <1>4, <1>1 DEF Reply, RequestsFit
  <2> HIDE DEF q
  <2>3. Fits(q)
    BY <1>1, <1>4, <2>1 DEF Fits
  <2>4. RequestsFit' /\ req'[r] = q /\ \A o \in Reqs \ {r} : req'[o] = req[o]
    BY <2>2, <2>3, OneMoves
  <2> QED  BY <1>4, <2>1, <2>4
<1> QED  BY <1>3, <1>4

\* What is remembered of an answer.
LEMMA RanEffect ==
    ASSUME past \in History, RequestsFit, NEW r \in Reqs, NEW status, past' = Ran(r, status)
    PROVE  /\ past' \in History
           /\ past'.untold = past.untold /\ past'.overlapped = past.overlapped
           /\ req[r].key = None => past' = past
           /\ req[r].key # None /\ status = 500 =>
                /\ past'.lost = past.lost \cup {req[r].key} /\ past'.ran = past.ran
           /\ req[r].key # None /\ status # 500 =>
                /\ past'.lost = past.lost
                /\ past'.ran[req[r].key] = past.ran[req[r].key] + 1
                /\ \A k \in Keys \ {req[r].key} : past'.ran[k] = past.ran[k]
<1>1. req[r].key \in Keys \cup {None}
  BY DEF RequestsFit, Request
<1>2. CASE req[r].key = None
  BY <1>2 DEF Ran
<1>3. CASE req[r].key # None /\ status = 500
  BY <1>1, <1>3 DEF Ran, History
<1>4. CASE req[r].key # None /\ status # 500
  <2> DEFINE ran == [past.ran EXCEPT ![req[r].key] = @ + 1]
  <2>1. past' = [past EXCEPT !.ran = ran]
    BY <1>4 DEF Ran, History
  <2>2. ran \in [Keys -> Nat] /\ ran[req[r].key] = past.ran[req[r].key] + 1
    BY <1>1, <1>4 DEF History
  <2>3. \A k \in Keys \ {req[r].key} : ran[k] = past.ran[k]
    BY DEF History
  <2> HIDE DEF ran
  <2> QED  BY <1>4, <2>1, <2>2, <2>3 DEF History
<1> QED  BY <1>2, <1>3, <1>4

\* The tables stay as they are.
LEMMA SameTables ==
    ASSUME TypeInv, domain' = domain, keys' = keys, RequestsFit', past' \in History
    PROVE  TypeInv'
<1> QED  BY DEF TypeInv, domain, OneOfAName, Live

\* A list that grows by one.
LEMMA Grows ==
    ASSUME NEW S, NEW q \in Seq(S), NEW e \in S, NEW p, p = Append(q, e)
    PROVE  /\ p \in Seq(S) /\ Len(p) = Len(q) + 1 /\ Len(q) \in Nat
           /\ DOMAIN q = 1 .. Len(q) /\ DOMAIN p = 1 .. Len(p)
           /\ \A i \in DOMAIN q : i \in DOMAIN p /\ p[i] = q[i]
           /\ p[Len(p)] = e
           /\ \A i \in DOMAIN p : i = Len(p) \/ i \in DOMAIN q
<1> QED  OBVIOUS

-------------------------------------------------------------------------------
(* Types.                                                                  *)

LEMMA TypeInit == Init => TypeInv
<1> SUFFICES ASSUME Init PROVE TypeInv
  OBVIOUS
<1>1. projects \in [ProjectIds -> Project]
  <2>1. [state |-> "live", name |-> DefaultName, archived |-> FALSE] \in Project
    BY ProjectsAssumption DEF Project
  <2> QED  BY <2>1, IdleFits DEF Init
<1>2. links \subseteq ProjectIds \X Repos /\ sessions \in Seq(Session) /\ feed \in Seq(Event)
  BY DEF Init
<1>3. keys \in [Keys -> Stored] /\ RequestsFit
  BY IdleFits, ZenonT(40) DEF Init, RequestsFit, Fits
<1>4. past \in History
  BY DEF Init, History
<1>5. OneOfAName
  <2>1. \A p \in ProjectIds : Live(p) => p = Default
    BY DEF Init, Live, NoProject
  <2> QED  BY <2>1 DEF OneOfAName
<1> QED  BY <1>1, <1>2, <1>3, <1>4, <1>5 DEF TypeInv

\* A call comes with what its handler needs.
LEMMA ArriveEffect ==
    ASSUME TypeInv, NEW r \in Reqs, Arrive(r)
    PROVE  /\ RequestsFit'
           /\ \A o \in Reqs \ {r} : req'[o] = req[o]
           /\ req[r] = Idle
           /\ req'[r].pc \in {"run", "lookup"} /\ (req'[r].pc = "run" => req'[r].key = None)
           /\ domain' = domain /\ keys' = keys /\ past' = past
<1>1. ASSUME NEW call \in Call, NEW k \in Keys \cup {None}, Receive(r, call, k),
             call.op \in Calls,
             call.op \in Calls \ {"CreateProject", "SplitSession", "DeleteSession"} => call.p \in ProjectIds,
             call.op = "LinkRepo" => call.repo \in Repos
      PROVE  /\ RequestsFit'
             /\ \A o \in Reqs \ {r} : req'[o] = req[o]
             /\ req[r] = Idle
             /\ req'[r].pc \in {"run", "lookup"} /\ (req'[r].pc = "run" => req'[r].key = None)
             /\ domain' = domain /\ keys' = keys /\ past' = past
  <2> DEFINE q == [Idle EXCEPT !.call = call, !.key = k, !.pc = IF k = None THEN "run" ELSE "lookup"]
  <2>1. /\ q \in Request
        /\ q.call = call /\ q.key = k /\ q.pc = IF k = None THEN "run" ELSE "lookup"
    BY IdleFits, ZenonT(40) DEF Request, Fits, Idle
  <2>2. req' = [req EXCEPT ![r] = q] /\ (k # None => call.op \in Posts)
    BY <1>1 DEF Receive
  <2> HIDE DEF q
  <2>3. Fits(q)
    BY <1>1, <2>1, <2>2 DEF Fits
  <2>4. RequestsFit' /\ req'[r] = q /\ \A o \in Reqs \ {r} : req'[o] = req[o]
    BY <2>2, <2>3, OneMoves DEF TypeInv
  <2> QED  BY <1>1, <2>1, <2>4 DEF Receive
<1>2. PICK k \in Keys \cup {None} :
        \/ \E n \in Names : \/ Receive(r, [NoCall EXCEPT !.op = "CreateProject", !.name = n], k)
                            \/ \E p \in ProjectIds :
                                 Receive(r, [NoCall EXCEPT !.op = "UpdateProject", !.p = p, !.name = n], k)
        \/ \E p \in ProjectIds :
             \/ \E op \in {"DeleteProject", "StartSession"} :
                  Receive(r, [NoCall EXCEPT !.op = op, !.p = p], k)
             \/ \E s \in DOMAIN sessions :
                  Receive(r, [NoCall EXCEPT !.op = "UpdateSession", !.p = p, !.s = s], k)
             \/ \E op \in {"LinkRepo", "UnlinkRepo"}, f \in Repos :
                  Receive(r, [NoCall EXCEPT !.op = op, !.p = p, !.repo = f], k)
        \/ \E op \in {"SplitSession", "DeleteSession"}, s \in DOMAIN sessions :
             Receive(r, [NoCall EXCEPT !.op = op, !.s = s], k)
  BY DEF Arrive
<1>0. \A s \in DOMAIN sessions : s \in Nat
  BY DEF TypeInv
<1> HIDE DEF Receive
<1>3. CASE \E n \in Names : Receive(r, [NoCall EXCEPT !.op = "CreateProject", !.name = n], k)
  <2>1. PICK n \in Names : Receive(r, [NoCall EXCEPT !.op = "CreateProject", !.name = n], k)
    BY <1>3
  <2> DEFINE call == [NoCall EXCEPT !.op = "CreateProject", !.name = n]
  <2>2. call \in Call /\ call.op = "CreateProject"
    BY DEF Call, NoCall, Calls
  <2>3. Receive(r, call, k)
    BY <2>1
  <2> HIDE DEF call
  <2> QED  BY <2>2, <2>3, <1>1 DEF Calls
<1>4. CASE \E n \in Names, p \in ProjectIds :
             Receive(r, [NoCall EXCEPT !.op = "UpdateProject", !.p = p, !.name = n], k)
  <2>1. PICK n \in Names, p \in ProjectIds :
               Receive(r, [NoCall EXCEPT !.op = "UpdateProject", !.p = p, !.name = n], k)
    BY <1>4
  <2> DEFINE call == [NoCall EXCEPT !.op = "UpdateProject", !.p = p, !.name = n]
  <2>2. call \in Call /\ call.op = "UpdateProject" /\ call.p = p
    BY DEF Call, NoCall, Calls
  <2>3. Receive(r, call, k)
    BY <2>1
  <2> HIDE DEF call
  <2> QED  BY <2>2, <2>3, <1>1 DEF Calls
<1>5. CASE \E p \in ProjectIds, op \in {"DeleteProject", "StartSession"} :
             Receive(r, [NoCall EXCEPT !.op = op, !.p = p], k)
  <2>1. PICK p \in ProjectIds, op \in {"DeleteProject", "StartSession"} :
               Receive(r, [NoCall EXCEPT !.op = op, !.p = p], k)
    BY <1>5
  <2> DEFINE call == [NoCall EXCEPT !.op = op, !.p = p]
  <2>2. call \in Call /\ call.op = op /\ call.p = p
    BY DEF Call, NoCall, Calls
  <2>3. Receive(r, call, k)
    BY <2>1
  <2> HIDE DEF call
  <2> QED  BY <2>2, <2>3, <1>1 DEF Calls
<1>6. CASE \E p \in ProjectIds, op \in {"LinkRepo", "UnlinkRepo"}, f \in Repos :
             Receive(r, [NoCall EXCEPT !.op = op, !.p = p, !.repo = f], k)
  <2>1. PICK p \in ProjectIds, op \in {"LinkRepo", "UnlinkRepo"}, f \in Repos :
               Receive(r, [NoCall EXCEPT !.op = op, !.p = p, !.repo = f], k)
    BY <1>6
  <2> DEFINE call == [NoCall EXCEPT !.op = op, !.p = p, !.repo = f]
  <2>2. call \in Call /\ call.op = op /\ call.p = p /\ call.repo = f
    BY DEF Call, NoCall, Calls
  <2>3. Receive(r, call, k)
    BY <2>1
  <2> HIDE DEF call
  <2> QED  BY <2>2, <2>3, <1>1 DEF Calls
<1>7. CASE \E p \in ProjectIds, s \in DOMAIN sessions :
             Receive(r, [NoCall EXCEPT !.op = "UpdateSession", !.p = p, !.s = s], k)
  <2>1. PICK p \in ProjectIds, s \in DOMAIN sessions :
               Receive(r, [NoCall EXCEPT !.op = "UpdateSession", !.p = p, !.s = s], k)
    BY <1>7
  <2> DEFINE call == [NoCall EXCEPT !.op = "UpdateSession", !.p = p, !.s = s]
  <2>2. call \in Call /\ call.op = "UpdateSession" /\ call.p = p
    BY <1>0 DEF Call, NoCall, Calls
  <2>3. Receive(r, call, k)
    BY <2>1
  <2> HIDE DEF call
  <2> QED  BY <2>2, <2>3, <1>1 DEF Calls
<1>8. CASE \E op \in {"SplitSession", "DeleteSession"}, s \in DOMAIN sessions :
             Receive(r, [NoCall EXCEPT !.op = op, !.s = s], k)
  <2>1. PICK op \in {"SplitSession", "DeleteSession"}, s \in DOMAIN sessions :
               Receive(r, [NoCall EXCEPT !.op = op, !.s = s], k)
    BY <1>8
  <2> DEFINE call == [NoCall EXCEPT !.op = op, !.s = s]
  <2>2. call \in Call /\ call.op = op
    BY <1>0 DEF Call, NoCall, Calls
  <2>3. Receive(r, call, k)
    BY <2>1
  <2> HIDE DEF call
  <2> QED  BY <2>2, <2>3, <1>1 DEF Calls
<1> QED  BY <1>2, <1>3, <1>4, <1>5, <1>6, <1>7, <1>8, Zenon

\* A key met, missed, or not looked up.
LEMMA LookupEffect ==
    ASSUME TypeInv, NEW r \in Reqs, GetIdempotencyKey(r)
    PROVE  /\ RequestsFit' /\ past' \in History
           /\ \A o \in Reqs \ {r} : req'[o] = req[o]
           /\ domain' = domain /\ keys' = keys /\ req[r].pc = "lookup"
           /\ past'.untold = past.untold /\ past'.ran = past.ran /\ past'.lost = past.lost
           /\ \/ req'[r] = Idle /\ past' = past
              \/ /\ req'[r].pc = "run" /\ req'[r].key = req[r].key /\ keys[req[r].key] = NoKey
                 /\ IF InFlight(req[r].key) # {} THEN past'.overlapped = past.overlapped \cup {req[r].key}
                                                 ELSE past' = past
              \/ req'[r].pc = "run" /\ req'[r].key = None /\ past' = past
<1>1. RequestsFit /\ past \in History /\ req[r] \in Request /\ Fits(req[r])
  BY DEF TypeInv, RequestsFit
<1>2. req[r].pc = "lookup" /\ domain' = domain /\ keys' = keys
  BY DEF GetIdempotencyKey, domain
<1>3. CASE req' = [req EXCEPT ![r] = Idle] /\ past' = past
  <2>1. RequestsFit' /\ req'[r] = Idle /\ \A o \in Reqs \ {r} : req'[o] = req[o]
    BY <1>1, <1>3, IdleFits, OneMoves
  <2> QED  BY <1>1, <1>2, <1>3, <2>1
<1>4. CASE /\ keys[req[r].key] = NoKey /\ Goto(r, "run")
           /\ past' = IF InFlight(req[r].key) # {}
                        THEN [past EXCEPT !.overlapped = @ \cup {req[r].key}] ELSE past
  <2>1. MovesTo(r, "run", req[r].seen, req[r].row)
    BY <1>1, <1>4 DEF Goto, Request, RequestsFit, MovesTo
  <2>2. req[r].seen \in SUBSET Nat /\ req[r].row \in Project /\ req[r].key \in Keys
    BY <1>1, <1>2 DEF Request, Fits
  <2>3. /\ RequestsFit' /\ \A o \in Reqs \ {r} : req'[o] = req[o]
        /\ req'[r].pc = "run" /\ req'[r].key = req[r].key
    BY <1>1, <2>1, <2>2, GotoEffect
  <2>4. /\ past' \in History /\ past'.untold = past.untold /\ past'.ran = past.ran /\ past'.lost = past.lost
        /\ IF InFlight(req[r].key) # {} THEN past'.overlapped = past.overlapped \cup {req[r].key}
                                        ELSE past' = past
    BY <1>1, <1>4, <2>2 DEF History
  <2> QED  BY <1>2, <1>4, <2>3, <2>4
<1>5. CASE req' = [req EXCEPT ![r].pc = "run", ![r].key = None] /\ past' = past
  <2> DEFINE q == [req[r] EXCEPT !.pc = "run", !.key = None]
  <2>1. q \in Request /\ q.pc = "run" /\ q.key = None /\ q.call = req[r].call
    BY <1>1 DEF Request
  <2>2. req' = [req EXCEPT ![r] = q]
    BY <1>1, <1>5 DEF RequestsFit
  <2> HIDE DEF q
  <2>3. Fits(q)
    BY <1>1, <2>1 DEF Fits
  <2>4. RequestsFit' /\ req'[r] = q /\ \A o \in Reqs \ {r} : req'[o] = req[o]
    BY <1>1, <2>2, <2>3, OneMoves
  <2> QED  BY <1>1, <1>2, <1>5, <2>1, <2>4
<1> QED  BY <1>3, <1>4, <1>5 DEF GetIdempotencyKey

\* An answer and what is remembered of it.
LEMMA AnsweredEffect ==
    ASSUME TypeInv, NEW r \in Reqs, NEW status \in Answer, Answered(r, status)
    PROVE  RequestsFit' /\ past' \in History /\ past'.untold = past.untold
<1>1. RequestsFit /\ past \in History
  BY DEF TypeInv
<1>2. RequestsFit'
  BY <1>1, ReplyEffect DEF Answered
<1>3. past' \in History /\ past'.untold = past.untold
  BY <1>1, RanEffect DEF Answered
<1> QED  BY <1>2, <1>3

\* An answer that is stored or not.
LEMMA StoreEffect ==
    ASSUME TypeInv, NEW r \in Reqs, CreateIdempotencyKey(r)
    PROVE  /\ RequestsFit' /\ past' \in History /\ keys' \in [Keys -> Stored]
           /\ req[r].pc = "store" /\ req[r].key \in Keys
           /\ req'[r] = Idle /\ \A o \in Reqs \ {r} : req'[o] = req[o]
           /\ domain' = domain
           /\ past'.untold = past.untold /\ past'.ran = past.ran /\ past'.overlapped = past.overlapped
           /\ \A k \in Keys \ {req[r].key} : keys'[k] = keys[k]
           /\ \/ past' = past /\ keys'[req[r].key] # NoKey
              \/ past'.lost = past.lost \cup {req[r].key} /\ keys' = keys
<1>1. /\ RequestsFit /\ past \in History /\ req[r] \in Request /\ Fits(req[r])
      /\ keys \in [Keys -> Stored]
  BY DEF TypeInv, RequestsFit
<1>2. /\ req[r].pc = "store" /\ req[r].key \in Keys /\ domain' = domain
      /\ req' = [req EXCEPT ![r] = Idle]
  BY <1>1 DEF CreateIdempotencyKey, domain, Fits, Request
<1>3. RequestsFit' /\ req'[r] = Idle /\ \A o \in Reqs \ {r} : req'[o] = req[o]
  BY <1>1, <1>2, IdleFits, OneMoves
<1>4. CASE /\ keys' = IF keys[req[r].key] = NoKey
                        THEN [keys EXCEPT ![req[r].key] = [call |-> req[r].call, status |-> req[r].status]]
                        ELSE keys
           /\ past' = past
  <2> DEFINE e == [call |-> req[r].call, status |-> req[r].status]
  <2>1. e \in Stored
    BY <1>1 DEF Request, Stored
  <2>2. e # NoKey
    <3>1. req[r].call.op \in Posts
      BY <1>1, <1>2, ProjectsAssumption DEF Fits
    <3>2. e.call.op # NoKey.call.op
      BY <3>1 DEF NoKey, NoCall, Posts
    <3> QED  BY <3>2
  <2>3. keys' = IF keys[req[r].key] = NoKey THEN [keys EXCEPT ![req[r].key] = e] ELSE keys
    BY <1>4
  <2> HIDE DEF e
  <2>4. /\ keys' \in [Keys -> Stored] /\ keys'[req[r].key] # NoKey
        /\ \A k \in Keys \ {req[r].key} : keys'[k] = keys[k]
    BY <1>1, <1>2, <2>1, <2>2, <2>3
  <2> QED  BY <1>1, <1>2, <1>3, <1>4, <2>4
<1>5. CASE keys' = keys /\ past' = [past EXCEPT !.lost = @ \cup {req[r].key}]
  <2>1. /\ past' \in History /\ past'.lost = past.lost \cup {req[r].key}
        /\ past'.untold = past.untold /\ past'.ran = past.ran /\ past'.overlapped = past.overlapped
    BY <1>1, <1>2, <1>5 DEF History
  <2> QED  BY <1>1, <1>2, <1>3, <1>5, <2>1
<1> QED  BY <1>4, <1>5 DEF CreateIdempotencyKey

\* A key that is 24 hours old.
LEMMA ExpireEffect ==
    ASSUME TypeInv, NEW k \in Keys, DeleteExpiredIdempotencyKeys(k)
    PROVE  /\ keys' \in [Keys -> Stored] /\ past' \in History /\ req' = req /\ domain' = domain
           /\ past'.untold = past.untold /\ past'.ran = past.ran /\ past'.overlapped = past.overlapped
           /\ past'.lost = past.lost \cup {k} /\ \A o \in Keys \ {k} : keys'[o] = keys[o]
<1>1. keys \in [Keys -> Stored] /\ past \in History
  BY DEF TypeInv
<1>2. /\ past' \in History /\ past'.lost = past.lost \cup {k}
      /\ past'.untold = past.untold /\ past'.ran = past.ran /\ past'.overlapped = past.overlapped
  BY <1>1 DEF DeleteExpiredIdempotencyKeys, History
<1>3. keys' \in [Keys -> Stored] /\ \A o \in Keys \ {k} : keys'[o] = keys[o]
  BY <1>1, IdleFits DEF DeleteExpiredIdempotencyKeys
<1> QED  BY <1>2, <1>3 DEF DeleteExpiredIdempotencyKeys, domain

\* A process that starts again.
LEMMA RestartEffect ==
    ASSUME TypeInv, Restart
    PROVE  /\ RequestsFit' /\ past' \in History /\ domain' = domain /\ keys' = keys
           /\ \A r \in Reqs : req'[r] = Idle
           /\ past'.ran = past.ran /\ past'.overlapped = past.overlapped
           /\ past'.untold = past.untold \cup {req[r].call.p : r \in {q \in Reqs : req[q].pc = "emit"}}
           /\ past'.lost = past.lost \cup
                {req[r].key : r \in {q \in Reqs : req[q].key # None /\ req[q].pc # "lookup"}}
<1> DEFINE told == {req[r].call.p : r \in {q \in Reqs : req[q].pc = "emit"}}
<1> DEFINE gone == {req[r].key : r \in {q \in Reqs : req[q].key # None /\ req[q].pc # "lookup"}}
<1>1. past \in History /\ \A r \in Reqs : req[r] \in Request /\ Fits(req[r])
  BY DEF TypeInv, RequestsFit
<1>2. told \subseteq ProjectIds
  BY <1>1 DEF Fits, Calls
<1>3. gone \subseteq Keys
  BY <1>1 DEF Request
<1>4. past' = [past EXCEPT !.untold = @ \cup told, !.lost = @ \cup gone]
  BY DEF Restart
<1>5. /\ past' \in History /\ past'.untold = past.untold \cup told /\ past'.lost = past.lost \cup gone
      /\ past'.ran = past.ran /\ past'.overlapped = past.overlapped
  <2> HIDE DEF told, gone
  <2> QED  BY <1>1, <1>2, <1>3, <1>4 DEF History
<1>6. req' = [r \in Reqs |-> Idle]
  BY DEF Restart
<1>7. RequestsFit' /\ \A r \in Reqs : req'[r] = Idle
  <2>1. \A r \in Reqs : req'[r] = Idle
    BY <1>6
  <2>2. \A r \in Reqs : Fits(req[r])'
    BY <2>1, IdleFits DEF Fits
  <2> QED  BY <1>6, <2>1, <2>2, IdleFits DEF RequestsFit, Fits
<1> QED  BY <1>5, <1>7 DEF Restart, domain

\* A project is created under a name that nobody has, or refused.
LEMMA CreateProjectEffect ==
    ASSUME TypeInv, NEW r \in Reqs, CreateProject(r)
    PROVE  /\ TypeInv' /\ links' = links /\ sessions' = sessions /\ keys' = keys
           /\ req[r].pc = "run" /\ past'.untold = past.untold
           /\ \E status \in Answer : Answered(r, status)
           /\ \/ projects' = projects /\ feed' = feed
              \/ \E p \in ProjectIds :
                   /\ projects[p].state = "none" /\ projects'[p].state = "live"
                   /\ \A o \in ProjectIds \ {p} : projects'[o] = projects[o]
                   /\ Tell("created", p, projects'[p])
<1>1. /\ projects \in [ProjectIds -> Project] /\ feed \in Seq(Event) /\ req[r] \in Request
      /\ req[r].pc = "run" /\ OneOfAName
  BY DEF TypeInv, RequestsFit, CreateProject, At
<1>2. CASE Answered(r, 409) /\ projects' = projects /\ feed' = feed
  <2>1. 409 \in Answer
    BY DEF Answer
  <2>2. RequestsFit' /\ past' \in History /\ past'.untold = past.untold
    BY <1>2, <2>1, AnsweredEffect
  <2>3. domain' = domain /\ keys' = keys
    BY <1>2 DEF CreateProject, domain
  <2>4. TypeInv'
    BY <2>2, <2>3, SameTables
  <2> QED  BY <1>1, <1>2, <2>1, <2>2, <2>4 DEF CreateProject
<1>3. CASE \E p \in ProjectIds :
             /\ projects[p].state = "none" /\ Named(req[r].call.name) = {}
             /\ projects' = [projects EXCEPT ![p] =
                               [state |-> "live", name |-> req[r].call.name, archived |-> FALSE]]
             /\ Tell("created", p, projects'[p])
             /\ Answered(r, 201)
  <2> DEFINE row == [state |-> "live", name |-> req[r].call.name, archived |-> FALSE]
  <2>1. PICK p \in ProjectIds :
             /\ projects[p].state = "none" /\ Named(req[r].call.name) = {}
             /\ projects' = [projects EXCEPT ![p] = row]
             /\ Tell("created", p, projects'[p])
             /\ Answered(r, 201)
    BY <1>3
  <2>2. row \in Project /\ row.state = "live" /\ row.name = req[r].call.name
    BY <1>1 DEF Project, Request, Call
  <2> HIDE DEF row
  <2>3. /\ projects' \in [ProjectIds -> Project] /\ projects'[p] = row
        /\ \A o \in ProjectIds \ {p} : projects'[o] = projects[o]
    BY <1>1, <2>1, <2>2
  <2>4. 201 \in Answer
    BY DEF Answer
  <2>5. RequestsFit' /\ past' \in History /\ past'.untold = past.untold
    BY <2>1, <2>4, AnsweredEffect
  <2>6. feed' \in Seq(Event)
    <3>1. [type |-> "created", p |-> p, row |-> projects'[p]] \in Event
      BY <2>2, <2>3 DEF Event
    <3> QED  BY <1>1, <2>1, <3>1 DEF Tell
  <2>7. OneOfAName'
    <3>1. \A o \in ProjectIds \ {p} : Live(o)' => Live(o) /\ projects'[o].name # row.name
      BY <2>1, <2>2, <2>3 DEF Live, Named
    <3> QED  BY <1>1, <2>2, <2>3, <3>1 DEF OneOfAName, Live
  <2>8. links' = links /\ sessions' = sessions /\ keys' = keys
    BY DEF CreateProject
  <2>9. TypeInv'
    BY <2>3, <2>5, <2>6, <2>7, <2>8 DEF TypeInv
  <2> QED  BY <1>1, <2>1, <2>2, <2>3, <2>4, <2>5, <2>8, <2>9
<1> QED  BY <1>2, <1>3 DEF CreateProject

\* A step within a handler, and one that ends it with an answer.
Goes(r, pcs) ==
    /\ req[r].pc \notin {"lookup", "store", "emit"} /\ req'[r].pc \in pcs /\ req'[r].key = req[r].key
    /\ req'[r].call = req[r].call /\ past' = past
    /\ \A o \in Reqs \ {r} : req'[o] = req[o]
Ends(r) ==
    /\ req[r].pc \notin {"lookup", "store", "emit"}
    /\ \E status \in Answer : Answered(r, status)

\* The project is there, or the answer is 404.
LEMMA AuthorizeEffect ==
    ASSUME TypeInv, NEW r \in Reqs, authorizeProject(r)
    PROVE  /\ TypeInv' /\ domain' = domain /\ keys' = keys /\ past'.untold = past.untold
           /\ Ends(r) \/ Goes(r, {"write", "count"})
<1>1. /\ RequestsFit /\ past \in History /\ req[r] \in Request /\ req[r].pc = "run"
      /\ domain' = domain /\ keys' = keys
  BY DEF TypeInv, RequestsFit, authorizeProject, domain
<1>2. CASE Answered(r, 404)
  <2>1. 404 \in Answer
    BY DEF Answer
  <2>2. RequestsFit' /\ past' \in History /\ past'.untold = past.untold
    BY <1>2, <2>1, AnsweredEffect
  <2>3. Ends(r)
    BY <1>1, <1>2, <2>1 DEF Ends
  <2> QED  BY <1>1, <2>2, <2>3, SameTables
<1>3. ASSUME NEW pc, pc = IF req[r].call.op = "DeleteProject" THEN "count" ELSE "write",
             req' = [req EXCEPT ![r].pc = pc], past' = past
      PROVE  TypeInv' /\ Goes(r, {"write", "count"})
  <2>1. MovesTo(r, pc, req[r].seen, req[r].row)
    BY <1>1, <1>3 DEF Request, RequestsFit, MovesTo
  <2>2. /\ req[r].seen \in SUBSET Nat /\ req[r].row \in Project
        /\ pc \in {"run", "write", "count", "archive", "delete", "emit", "relist"}
        /\ pc \in {"count", "archive", "delete", "emit"} => req[r].call.op = "DeleteProject"
        /\ pc = "write" => req[r].call.op # "SplitSession"
    BY <1>1, <1>3 DEF Request, authorizeProject
  <2>3. /\ RequestsFit' /\ \A o \in Reqs \ {r} : req'[o] = req[o]
        /\ req'[r].pc = pc /\ req'[r].key = req[r].key /\ req'[r].call = req[r].call
    BY <1>1, <2>1, <2>2, GotoEffect, SMTT(30)
  <2>4. Goes(r, {"write", "count"})
    BY <1>1, <1>3, <2>3 DEF Goes
  <2> QED  BY <1>1, <1>3, <2>3, <2>4, SameTables
<1>4. Answered(r, 404) \/ /\ past' = past
                          /\ \E pc : /\ pc = IF req[r].call.op = "DeleteProject" THEN "count" ELSE "write"
                                     /\ req' = [req EXCEPT ![r].pc = pc]
  BY DEF authorizeProject, Goto
<1> QED  BY <1>1, <1>2, <1>3, <1>4

\* A name goes to a project unless another one has it.
LEMMA UpdateProjectEffect ==
    ASSUME TypeInv, NEW r \in Reqs, UpdateProject(r)
    PROVE  /\ TypeInv' /\ links' = links /\ sessions' = sessions /\ keys' = keys
           /\ req[r].pc = "write"
           /\ \/ Ends(r) /\ domain' = domain /\ past'.untold = past.untold
              \/ /\ req[r].key = None /\ Reply(r, 200)
                 /\ past'.ran = past.ran /\ past'.lost = past.lost /\ past'.overlapped = past.overlapped
                 /\ \E p \in ProjectIds :
                      /\ past'.untold = past.untold \ {p} /\ Live(p) /\ Live(p)'
                      /\ \A o \in ProjectIds \ {p} : projects'[o] = projects[o]
                      /\ Tell("updated", p, projects'[p])
<1>1. /\ projects \in [ProjectIds -> Project] /\ feed \in Seq(Event) /\ req[r] \in Request
      /\ Fits(req[r]) /\ RequestsFit /\ past \in History
      /\ req[r].pc = "write" /\ req[r].call.op = "UpdateProject" /\ OneOfAName
      /\ links' = links /\ sessions' = sessions /\ keys' = keys
  BY DEF TypeInv, RequestsFit, UpdateProject, At
<1>2. CASE Answered(r, IF Live(req[r].call.p) THEN 409 ELSE 404) /\ projects' = projects /\ feed' = feed
  <2>1. PICK status \in Answer : Answered(r, status)
    BY <1>2 DEF Answer
  <2>2. RequestsFit' /\ past' \in History /\ past'.untold = past.untold
    BY <2>1, AnsweredEffect
  <2>3. domain' = domain
    BY <1>1, <1>2 DEF domain
  <2>4. Ends(r)
    BY <1>1, <2>1 DEF Ends
  <2> QED  BY <1>1, <2>2, <2>3, <2>4, SameTables
<1>3. CASE /\ Live(req[r].call.p) /\ Named(req[r].call.name) \ {req[r].call.p} = {}
           /\ projects' = [projects EXCEPT ![req[r].call.p].name = req[r].call.name]
           /\ Tell("updated", req[r].call.p, projects'[req[r].call.p])
           /\ Reply(r, 200) /\ past' = [past EXCEPT !.untold = @ \ {req[r].call.p}]
  <2> DEFINE row == [projects[req[r].call.p] EXCEPT !.name = req[r].call.name]
  <2>1. PICK p \in ProjectIds : p = req[r].call.p
    BY <1>1 DEF Fits, Calls
  <2>2. row \in Project /\ row.name = req[r].call.name /\ row.state = projects[p].state
    BY <1>1, <2>1 DEF Project, Request, Call
  <2>3. projects' = [projects EXCEPT ![p] = row]
    BY <1>1, <1>3, <2>1
  <2> HIDE DEF row
  <2>4. /\ projects' \in [ProjectIds -> Project] /\ projects'[p] = row
        /\ \A o \in ProjectIds \ {p} : projects'[o] = projects[o]
    BY <1>1, <2>2, <2>3
  <2>5. Live(p) /\ Live(p)'
    BY <1>3, <2>1, <2>2, <2>4 DEF Live
  <2>6. req[r].key = None
    BY <1>1 DEF Fits, Posts
  <2>7. RequestsFit'
    <3>1. 200 \in Answer
      BY DEF Answer
    <3> QED  BY <1>1, <1>3, <3>1, ReplyEffect
  <2>8. /\ past' \in History /\ past'.untold = past.untold \ {p} /\ past'.ran = past.ran
        /\ past'.lost = past.lost /\ past'.overlapped = past.overlapped
    BY <1>1, <1>3, <2>1 DEF History
  <2>9. feed' \in Seq(Event)
    <3>1. [type |-> "updated", p |-> p, row |-> projects'[p]] \in Event
      BY <2>2, <2>4 DEF Event
    <3> QED  BY <1>1, <1>3, <2>1, <3>1 DEF Tell
  <2>10. OneOfAName'
    <3>1. \A o \in ProjectIds \ {p} : Live(o)' => Live(o) /\ projects'[o].name # row.name
      BY <1>3, <2>1, <2>2, <2>4 DEF Live, Named
    <3> QED  BY <1>1, <2>2, <2>4, <3>1 DEF OneOfAName, Live
  <2>11. TypeInv'
    BY <1>1, <2>4, <2>7, <2>8, <2>9, <2>10 DEF TypeInv
  <2> QED  BY <1>1, <1>3, <2>1, <2>4, <2>5, <2>6, <2>8, <2>11
<1> QED  BY <1>2, <1>3 DEF UpdateProject

\* What the count of the sessions on a project says.
LEMMA NoneCounted ==
    ASSUME TypeInv, NEW p, ~(CountSessionsForProject(p) > 0)
    PROVE  Booked(p) = {}
<1>1. Booked(p) \subseteq 1 .. Len(sessions)
  BY DEF Booked, TypeInv
<1>2. IsFiniteSet(Booked(p))
  <2>1. Len(sessions) \in Nat
    BY DEF TypeInv
  <2>2. IsFiniteSet(1 .. Len(sessions))
    BY <2>1, FS_Interval
  <2> QED  BY <1>1, <2>2, FS_Subset
<1>3. Cardinality(Booked(p)) \in Nat
  BY <1>2, FS_CardinalityType
<1>4. Cardinality(Booked(p)) = 0
  BY <1>3 DEF CountSessionsForProject
<1> QED  BY <1>2, <1>4, FS_EmptySet

\* DeleteProject's decision.
LEMMA CountEffect ==
    ASSUME TypeInv, NEW r \in Reqs, CountSessions(r)
    PROVE  /\ TypeInv' /\ domain' = domain /\ keys' = keys /\ past' = past
           /\ Goes(r, {"archive", "delete"})
           /\ req'[r].pc = "delete" => req'[r].seen = {}
<1>1. /\ RequestsFit /\ past \in History /\ req[r] \in Request /\ req[r].pc = "count"
      /\ req[r].call.op = "DeleteProject" /\ domain' = domain /\ keys' = keys /\ past' = past
  BY DEF TypeInv, RequestsFit, CountSessions, domain, At
<1>2. CASE CountSessionsForProject(req[r].call.p) > 0
  <2>1. req' = [req EXCEPT ![r].pc = "archive"]
    BY <1>2 DEF CountSessions
  <2>2. MovesTo(r, "archive", req[r].seen, req[r].row) /\ req[r].seen \in SUBSET Nat /\ req[r].row \in Project
    BY <1>1, <2>1 DEF Request, RequestsFit, MovesTo
  <2>3. /\ RequestsFit' /\ \A o \in Reqs \ {r} : req'[o] = req[o]
        /\ req'[r].pc = "archive" /\ req'[r].key = req[r].key /\ req'[r].call = req[r].call
    BY <1>1, <2>2, GotoEffect
  <2>4. Goes(r, {"archive", "delete"})
    BY <1>1, <2>3 DEF Goes
  <2> QED  BY <1>1, <2>3, <2>4, SameTables
<1>3. CASE ~(CountSessionsForProject(req[r].call.p) > 0)
  <2>1. Booked(req[r].call.p) = {}
    BY <1>3, NoneCounted
  <2>2. req' = [req EXCEPT ![r].pc = "delete", ![r].seen = {}]
    BY <1>3, <2>1 DEF CountSessions
  <2>3. MovesTo(r, "delete", {}, req[r].row) /\ req[r].row \in Project /\ {} \in SUBSET Nat
    BY <1>1, <2>2 DEF Request, RequestsFit, MovesTo
  <2>4. /\ RequestsFit' /\ \A o \in Reqs \ {r} : req'[o] = req[o]
        /\ req'[r].pc = "delete" /\ req'[r].key = req[r].key /\ req'[r].call = req[r].call
        /\ req'[r].seen = {}
    BY <1>1, <2>3, GotoEffect, SMTT(30)
  <2>5. Goes(r, {"archive", "delete"})
    BY <1>1, <2>4 DEF Goes
  <2> QED  BY <1>1, <2>4, <2>5, SameTables
<1> QED  BY <1>2, <1>3

\* A project with sessions is archived, and its row kept for the event; one that is archived
\* already, or gone, is left alone.
LEMMA ArchiveEffect ==
    ASSUME TypeInv, NEW r \in Reqs, ArchiveProject(r)
    PROVE  /\ TypeInv' /\ sessions' = sessions /\ feed' = feed /\ keys' = keys
           /\ past'.untold = past.untold /\ req[r].call.p \in ProjectIds
           /\ \A o \in ProjectIds : projects'[o].state = projects[o].state
           /\ \A o \in ProjectIds \ {req[r].call.p} : projects'[o] = projects[o]
           /\ \/ Ends(r) /\ projects' = projects
              \/ Goes(r, {"emit"})
<1>1. /\ RequestsFit /\ past \in History /\ req[r] \in Request /\ Fits(req[r]) /\ req[r].pc = "archive"
      /\ req[r].call.op = "DeleteProject" /\ projects \in [ProjectIds -> Project] /\ OneOfAName
      /\ links' = links /\ sessions' = sessions /\ feed' = feed /\ keys' = keys
  BY DEF TypeInv, RequestsFit, ArchiveProject, At
<1>2. PICK p \in ProjectIds : p = req[r].call.p
  BY <1>1 DEF Fits, Calls
<1>3. CASE Answered(r, 200) /\ projects' = projects
  <2>1. PICK status \in Answer : Answered(r, status)
    BY <1>3 DEF Answer
  <2>2. RequestsFit' /\ past' \in History /\ past'.untold = past.untold
    BY <2>1, AnsweredEffect
  <2>3. domain' = domain
    BY <1>1, <1>3 DEF domain
  <2>4. Ends(r)
    BY <1>1, <2>1 DEF Ends
  <2> QED  BY <1>1, <1>2, <1>3, <2>2, <2>3, <2>4, SameTables
<1>4. CASE /\ projects' = [projects EXCEPT ![req[r].call.p].archived = TRUE]
           /\ req' = [req EXCEPT ![r].pc = "emit", ![r].row = projects'[req[r].call.p]]
           /\ past' = past
  <2> DEFINE row == [projects[p] EXCEPT !.archived = TRUE]
  <2>1. row \in Project /\ row.name = projects[p].name /\ row.state = projects[p].state
    BY <1>1, <1>2 DEF Project
  <2>2. projects' = [projects EXCEPT ![p] = row]
    BY <1>1, <1>2, <1>4
  <2> HIDE DEF row
  <2>3. /\ projects' \in [ProjectIds -> Project] /\ projects'[p] = row
        /\ \A o \in ProjectIds \ {p} : projects'[o] = projects[o]
    BY <1>1, <2>1, <2>2
  <2>4. \A o \in ProjectIds : projects'[o].name = projects[o].name /\ projects'[o].state = projects[o].state
    BY <2>1, <2>3
  <2>5. OneOfAName'
    BY <1>1, <2>4 DEF OneOfAName, Live
  <2>6. MovesTo(r, "emit", req[r].seen, row)
    BY <1>1, <1>2, <1>4, <2>3, ZenonT(40) DEF MovesTo, Request, RequestsFit
  <2>7. req[r].seen \in SUBSET Nat
    BY <1>1 DEF Request
  <2>8. /\ RequestsFit' /\ \A o \in Reqs \ {r} : req'[o] = req[o]
        /\ req'[r].pc = "emit" /\ req'[r].key = req[r].key /\ req'[r].call = req[r].call
    BY <1>1, <2>1, <2>6, <2>7, GotoEffect
  <2>9. Goes(r, {"emit"})
    BY <1>1, <1>4, <2>8 DEF Goes
  <2>10. TypeInv'
    BY <1>1, <1>4, <2>3, <2>5, <2>8 DEF TypeInv
  <2> QED  BY <1>1, <1>2, <1>4, <2>3, <2>4, <2>9, <2>10
<1> QED  BY <1>3, <1>4 DEF ArchiveProject

\* A project without sessions is deleted; those booked on it since are excused.
LEMMA SoftDeleteEffect ==
    ASSUME TypeInv, NEW r \in Reqs, SoftDeleteProject(r)
    PROVE  /\ TypeInv' /\ feed' = feed /\ keys' = keys
           /\ Len(sessions') = Len(sessions) /\ DOMAIN sessions' = DOMAIN sessions
           /\ \A s \in DOMAIN sessions :
                /\ sessions'[s].p = sessions[s].p /\ sessions'[s].live = sessions[s].live
                /\ sessions[s].excused => sessions'[s].excused
                /\ sessions[s].p = req[r].call.p /\ s \notin req[r].seen => sessions'[s].excused
           /\ \A o \in ProjectIds \ {req[r].call.p} : projects'[o] = projects[o]
           /\ req[r].pc = "delete" /\ req[r].call.p \in ProjectIds /\ past' = past /\ Goes(r, {"emit"})
<1>1. /\ RequestsFit /\ past \in History /\ req[r] \in Request /\ Fits(req[r]) /\ req[r].pc = "delete"
      /\ projects \in [ProjectIds -> Project] /\ OneOfAName /\ sessions \in Seq(Session)
      /\ links' = links /\ feed' = feed /\ keys' = keys /\ past' = past
  BY DEF TypeInv, RequestsFit, SoftDeleteProject, At
<1>2. PICK p \in ProjectIds : p = req[r].call.p
  BY <1>1 DEF Fits, Calls
<1> DEFINE row == IF Live(p) THEN [projects[p] EXCEPT !.state = "deleted"] ELSE projects[p]
<1>3. row \in Project /\ (row.state = "live" => FALSE)
  BY <1>1, <1>2 DEF Project, Live
<1>4. /\ projects' \in [ProjectIds -> Project] /\ projects'[p] = row
      /\ \A o \in ProjectIds \ {p} : projects'[o] = projects[o]
  <2>1. projects' = [projects EXCEPT ![p] = row]
    BY <1>1, <1>2 DEF SoftDeleteProject, Live
  <2> HIDE DEF row
  <2> QED  BY <1>1, <1>3, <2>1
<1> HIDE DEF row
<1>5. OneOfAName'
  BY <1>1, <1>3, <1>4 DEF OneOfAName, Live
<1>6. /\ sessions' \in Seq(Session) /\ Len(sessions') = Len(sessions)
      /\ DOMAIN sessions' = DOMAIN sessions
      /\ \A s \in DOMAIN sessions :
           /\ sessions'[s].p = sessions[s].p /\ sessions'[s].live = sessions[s].live
           /\ sessions[s].excused => sessions'[s].excused
           /\ sessions[s].p = req[r].call.p /\ s \notin req[r].seen => sessions'[s].excused
  <2>1. DOMAIN sessions = 1 .. Len(sessions) /\ Len(sessions) \in Nat
    BY <1>1
  <2>2. sessions' = [s \in DOMAIN sessions |->
                      IF sessions[s].p = req[r].call.p /\ s \notin req[r].seen
                        THEN [sessions[s] EXCEPT !.excused = TRUE] ELSE sessions[s]]
    BY DEF SoftDeleteProject
  <2>3. ASSUME NEW s \in DOMAIN sessions
        PROVE  /\ sessions'[s] \in Session
               /\ sessions'[s].p = sessions[s].p /\ sessions'[s].live = sessions[s].live
               /\ sessions[s].excused => sessions'[s].excused
               /\ sessions[s].p = req[r].call.p /\ s \notin req[r].seen => sessions'[s].excused
    <3>1. sessions[s] \in Session
      BY <1>1
    <3>2. CASE sessions[s].p = req[r].call.p /\ s \notin req[r].seen
      <4>1. sessions'[s] = [sessions[s] EXCEPT !.excused = TRUE]
        BY <2>2, <3>2
      <4> QED  BY <3>1, <4>1 DEF Session
    <3>3. CASE ~(sessions[s].p = req[r].call.p /\ s \notin req[r].seen)
      <4>1. sessions'[s] = sessions[s]
        BY <2>2, <3>3
      <4> QED  BY <3>1, <3>3, <4>1
    <3> QED  BY <3>2, <3>3
  <2>4. DOMAIN sessions' = 1 .. Len(sessions) /\ sessions' \in [1 .. Len(sessions) -> Session]
    BY <2>1, <2>2, <2>3
  <2>5. sessions' \in Seq(Session) /\ Len(sessions') = Len(sessions)
    BY <2>1, <2>4
  <2> QED  BY <2>1, <2>3, <2>4, <2>5
<1>7. MovesTo(r, "emit", req[r].seen, row) /\ req[r].seen \in SUBSET Nat /\ req[r].call.op = "DeleteProject"
  BY <1>1, <1>2, <1>4, ZenonT(40) DEF MovesTo, Request, RequestsFit, SoftDeleteProject, At
<1>8. /\ RequestsFit' /\ \A o \in Reqs \ {r} : req'[o] = req[o]
      /\ req'[r].pc = "emit" /\ req'[r].key = req[r].key /\ req'[r].call = req[r].call
  BY <1>1, <1>3, <1>7, GotoEffect
<1>9. Goes(r, {"emit"})
  BY <1>1, <1>8 DEF Goes
<1>10. TypeInv'
  <2>1. past' \in History /\ links' \subseteq ProjectIds \X Repos /\ feed' \in Seq(Event)
        /\ keys' \in [Keys -> Stored]
    BY <1>1 DEF TypeInv
  <2> QED  BY <2>1, <1>4, <1>5, <1>6, <1>8 DEF TypeInv
<1> QED  BY <1>1, <1>2, <1>4, <1>6, <1>9, <1>10

\* The event of an archiving or a deletion is written, with the row from then, or it fails.
LEMMA EmitEffect ==
    ASSUME TypeInv, NEW r \in Reqs, emit(r)
    PROVE  /\ TypeInv' /\ projects' = projects /\ sessions' = sessions /\ keys' = keys
           /\ req[r].pc = "emit" /\ req[r].key = None /\ req'[r] = Idle
           /\ \A o \in Reqs \ {r} : req'[o] = req[o]
           /\ past'.ran = past.ran /\ past'.lost = past.lost /\ past'.overlapped = past.overlapped
           /\ \E p \in ProjectIds :
                /\ p = req[r].call.p
                /\ \/ feed' = feed /\ past'.untold = past.untold \cup {p}
                   \/ \E type \in {"archived", "deleted"}, row \in Project :
                        /\ Tell(type, p, row)
                        /\ past'.untold = IF projects[p] = row THEN past.untold \ {p}
                                                              ELSE past.untold \cup {p}
<1>1. /\ RequestsFit /\ past \in History /\ req[r] \in Request /\ Fits(req[r]) /\ req[r].pc = "emit"
      /\ projects' = projects /\ links' = links /\ sessions' = sessions /\ keys' = keys
      /\ feed \in Seq(Event)
  BY DEF TypeInv, RequestsFit, emit
<1>2. PICK p \in ProjectIds : p = req[r].call.p
  BY <1>1 DEF Fits, Calls
<1>3. req[r].key = None
  BY <1>1 DEF Fits, Posts
<1>4. req'[r] = Idle /\ RequestsFit' /\ \A o \in Reqs \ {r} : req'[o] = req[o]
  <2>1. PICK status \in Answer : Reply(r, status)
    <3>1. 200 \in Answer /\ 500 \in Answer
      BY DEF Answer
    <3> QED  BY <3>1 DEF emit
  <2> QED  BY <1>1, <1>3, <2>1, ReplyEffect
<1>5. CASE feed' = feed /\ past' = [past EXCEPT !.untold = @ \cup {req[r].call.p}]
  <2>1. /\ past' \in History /\ past'.untold = past.untold \cup {p} /\ past'.ran = past.ran
        /\ past'.lost = past.lost /\ past'.overlapped = past.overlapped
    BY <1>1, <1>2, <1>5 DEF History
  <2>2. domain' = domain
    BY <1>1, <1>5 DEF domain
  <2>3. TypeInv'
    BY <1>1, <1>4, <2>1, <2>2, SameTables
  <2> QED  BY <1>1, <1>2, <1>3, <1>4, <1>5, <2>1, <2>3
<1>6. CASE /\ Tell(IF req[r].row.state = "live" THEN "archived" ELSE "deleted", req[r].call.p, req[r].row)
           /\ past' = [past EXCEPT !.untold = IF projects[req[r].call.p] = req[r].row
                                                THEN @ \ {req[r].call.p} ELSE @ \cup {req[r].call.p}]
  <2>1. PICK type \in {"archived", "deleted"} : Tell(type, p, req[r].row)
    BY <1>2, <1>6
  <2>2. PICK row \in Project : row = req[r].row
    BY <1>1 DEF Request
  <2>3. /\ past' \in History /\ past'.ran = past.ran
        /\ past'.lost = past.lost /\ past'.overlapped = past.overlapped
        /\ past'.untold = IF projects[p] = row THEN past.untold \ {p} ELSE past.untold \cup {p}
    BY <1>1, <1>2, <1>6, <2>2 DEF History
  <2>4. feed' \in Seq(Event)
    <3>1. [type |-> type, p |-> p, row |-> row] \in Event
      BY <2>1 DEF Event
    <3> QED  BY <1>1, <2>1, <2>2, <3>1 DEF Tell
  <2>5. TypeInv'
    BY <1>1, <1>4, <2>3, <2>4 DEF TypeInv, OneOfAName, Live
  <2>6. Tell(type, p, row)
    BY <2>1, <2>2
  <2>7. \E t \in {"archived", "deleted"}, was \in Project :
          /\ Tell(t, p, was)
          /\ past'.untold = IF projects[p] = was THEN past.untold \ {p} ELSE past.untold \cup {p}
    BY <2>3, <2>6
  <2> QED  BY <1>1, <1>2, <1>3, <1>4, <2>3, <2>5, <2>7
<1> QED  BY <1>5, <1>6 DEF emit

\* A cut reads its session, or answers 404.
LEMMA GetSessionEffect ==
    ASSUME TypeInv, NEW r \in Reqs, GetSession(r)
    PROVE  /\ TypeInv' /\ domain' = domain /\ keys' = keys /\ past'.untold = past.untold
           /\ Ends(r) \/ Goes(r, {"write", "count"})
<1>1. /\ RequestsFit /\ past \in History /\ req[r] \in Request /\ Fits(req[r]) /\ req[r].pc = "run"
      /\ req[r].call.op = "SplitSession" /\ sessions \in Seq(Session)
      /\ domain' = domain /\ keys' = keys
  BY DEF TypeInv, RequestsFit, GetSession, At, domain
<1>2. CASE Answered(r, 404)
  <2>1. 404 \in Answer
    BY DEF Answer
  <2>2. RequestsFit' /\ past' \in History /\ past'.untold = past.untold
    BY <1>2, <2>1, AnsweredEffect
  <2>3. Ends(r)
    BY <1>1, <1>2, <2>1 DEF Ends
  <2> QED  BY <1>1, <2>2, <2>3, SameTables
<1>3. ASSUME NEW s \in DOMAIN sessions, past' = past,
             req' = [req EXCEPT ![r].pc = "write", ![r].from = sessions[s].p]
      PROVE  TypeInv' /\ Goes(r, {"write", "count"})
  <2>0. sessions[s] \in Session
    BY <1>1
  <2>1. PICK p \in ProjectIds : p = sessions[s].p
    BY <2>0 DEF Session
  <2> DEFINE q == [req[r] EXCEPT !.pc = "write", !.from = p]
  <2>2. q \in Request /\ q.pc = "write" /\ q.from = p /\ q.key = req[r].key /\ q.call = req[r].call
    BY <1>1 DEF Request
  <2>3. req' = [req EXCEPT ![r] = q]
    BY <1>1, <1>3, <2>1 DEF RequestsFit, Request
  <2> HIDE DEF q
  <2>4. Fits(q)
    BY <1>1, <2>2 DEF Fits
  <2>5. RequestsFit' /\ req'[r] = q /\ \A o \in Reqs \ {r} : req'[o] = req[o]
    BY <1>1, <2>3, <2>4, OneMoves
  <2>6. Goes(r, {"write", "count"})
    BY <1>1, <1>3, <2>2, <2>5 DEF Goes
  <2> QED  BY <1>1, <1>3, <2>5, <2>6, SameTables
<1>4. CASE ~Recorded(req[r].call.s)
  BY <1>2, <1>4 DEF GetSession
<1>5. CASE Recorded(req[r].call.s)
  BY <1>1, <1>3, <1>5 DEF GetSession, Recorded
<1> QED  BY <1>4, <1>5

\* The requests about sessions: a session stays on its project and lives on only if it lived,
\* or it has come to its project, and is excused if that is gone.
LEMMA SessionEffects ==
    ASSUME TypeInv, NEW r \in Reqs,
           StartSession(r) \/ UpdateSession(r) \/ SplitSession(r) \/ DeleteSession(r)
    PROVE  /\ TypeInv' /\ projects' = projects /\ feed' = feed /\ keys' = keys
           /\ Ends(r) /\ past'.untold = past.untold
           /\ \A s \in DOMAIN sessions' :
                \/ /\ s \in DOMAIN sessions /\ sessions'[s].p = sessions[s].p
                   /\ sessions'[s].excused = sessions[s].excused
                   /\ sessions'[s].live => sessions[s].live
                \/ sessions'[s].excused = ~Live(sessions'[s].p)
<1> DEFINE Fine(s) == \/ /\ s \in DOMAIN sessions /\ sessions'[s].p = sessions[s].p
                         /\ sessions'[s].excused = sessions[s].excused
                         /\ sessions'[s].live => sessions[s].live
                      \/ sessions'[s].excused = ~Live(sessions'[s].p)
<1> DEFINE Good(d, row) == \/ row.p = sessions[d].p /\ row.excused = sessions[d].excused /\ ~row.live
                           \/ row.excused = ~Live(row.p)
<1>1. /\ RequestsFit /\ req[r] \in Request /\ Fits(req[r]) /\ req[r].pc \in {"run", "write"}
      /\ sessions \in Seq(Session)
      /\ projects' = projects /\ links' = links /\ feed' = feed /\ keys' = keys
  BY DEF TypeInv, RequestsFit, StartSession, UpdateSession, SplitSession, DeleteSession, At
<1>2. \E status \in Answer : Answered(r, status)
  BY DEF StartSession, UpdateSession, SplitSession, DeleteSession, Answer
<1>3. RequestsFit' /\ past' \in History /\ past'.untold = past.untold
  BY <1>1, <1>2, AnsweredEffect
<1>4. Ends(r)
  BY <1>1, <1>2 DEF Ends
<1>5. ASSUME NEW q \in ProjectIds,
             sessions' = Append(sessions, [p |-> q, live |-> TRUE, excused |-> ~Live(q)])
      PROVE  sessions' \in Seq(Session) /\ \A s \in DOMAIN sessions' : Fine(s)
  <2>1. PICK b \in BOOLEAN : b = ~Live(q)
    OBVIOUS
  <2> DEFINE new == [p |-> q, live |-> TRUE, excused |-> b]
  <2>2. new \in Session /\ new.p = q /\ new.excused = b
    BY DEF Session
  <2>3. sessions' = Append(sessions, new)
    BY <1>5, <2>1
  <2> HIDE DEF new
  <2>4. /\ sessions' \in Seq(Session) /\ sessions'[Len(sessions')] = new
        /\ \A s \in DOMAIN sessions : sessions'[s] = sessions[s]
        /\ \A s \in DOMAIN sessions' : s = Len(sessions') \/ s \in DOMAIN sessions
    BY <1>1, <2>2, <2>3, Grows
  <2> QED  BY <2>1, <2>2, <2>4
<1>6. ASSUME NEW d \in DOMAIN sessions, NEW row \in Session, sessions' = [sessions EXCEPT ![d] = row],
             Good(d, row)
      PROVE  sessions' \in Seq(Session) /\ \A s \in DOMAIN sessions' : Fine(s)
  <2>1. /\ sessions' \in Seq(Session) /\ DOMAIN sessions' = DOMAIN sessions /\ sessions'[d] = row
        /\ \A s \in DOMAIN sessions : s = d \/ sessions'[s] = sessions[s]
    BY <1>1, <1>6
  <2>2. Fine(d)
    BY <1>6, <2>1
  <2>3. ASSUME NEW s \in DOMAIN sessions, sessions'[s] = sessions[s] PROVE Fine(s)
    BY <2>3
  <2> HIDE DEF Fine
  <2> QED  BY <2>1, <2>2, <2>3
<1>7. ASSUME sessions' = sessions
      PROVE  sessions' \in Seq(Session) /\ \A s \in DOMAIN sessions' : Fine(s)
  BY <1>1, <1>7
<1>8. sessions' \in Seq(Session) /\ \A s \in DOMAIN sessions' : Fine(s)
  <2> HIDE DEF Fine, Good
  <2>1. CASE StartSession(r)
    <3>1. PICK q \in ProjectIds : q = req[r].call.p
      BY <1>1, <2>1 DEF StartSession, At, Fits, Calls
    <3>2. sessions' = Append(sessions, [p |-> q, live |-> TRUE, excused |-> ~Live(q)])
      BY <2>1, <3>1 DEF StartSession
    <3> QED  BY <3>2, <1>5
  <2>2. CASE SplitSession(r)
    <3>1. PICK q \in ProjectIds : q = req[r].from
      BY <1>1, <2>2 DEF SplitSession, At, Fits
    <3>2. \/ sessions' = Append(sessions, [p |-> q, live |-> TRUE, excused |-> ~Live(q)])
          \/ sessions' = sessions
      BY <2>2, <3>1 DEF SplitSession
    <3>3. CASE sessions' = sessions
      BY <1>7, <3>3
    <3>4. CASE sessions' = Append(sessions, [p |-> q, live |-> TRUE, excused |-> ~Live(q)])
      BY <1>5, <3>4
    <3> QED  BY <3>2, <3>3, <3>4
  <2>3. CASE DeleteSession(r)
    <3>1. CASE Recorded(req[r].call.s)
      <4>1. PICK d \in DOMAIN sessions : d = req[r].call.s
        BY <3>1 DEF Recorded
      <4>2. sessions[d] \in Session
        BY <1>1
      <4> DEFINE row == [sessions[d] EXCEPT !.live = FALSE]
      <4>3. row \in Session /\ row.p = sessions[d].p /\ row.excused = sessions[d].excused /\ ~row.live
        BY <4>2 DEF Session
      <4>4. sessions' = [sessions EXCEPT ![d] = row]
        BY <2>3, <3>1, <4>1 DEF DeleteSession
      <4> HIDE DEF row
      <4>5. Good(d, row)
        BY <4>3 DEF Good
      <4> QED  BY <4>3, <4>4, <4>5, <1>6
    <3>2. CASE ~Recorded(req[r].call.s)
      BY <2>3, <3>2, <1>7 DEF DeleteSession
    <3> QED  BY <3>1, <3>2
  <2>4. CASE UpdateSession(r)
    <3>1. CASE Recorded(req[r].call.s)
      <4>1. PICK d \in DOMAIN sessions : d = req[r].call.s
        BY <3>1 DEF Recorded
      <4>2. PICK q \in ProjectIds : q = req[r].call.p
        BY <1>1, <2>4 DEF UpdateSession, At, Fits, Calls
      <4>3. sessions[d] \in Session
        BY <1>1
      <4>4. PICK b \in BOOLEAN : b = ~Live(q)
        OBVIOUS
      <4> DEFINE row == [sessions[d] EXCEPT !.p = q, !.excused = b]
      <4>5. row \in Session /\ row.p = q /\ row.excused = b
        BY <4>3 DEF Session
      <4>6. sessions' = [sessions EXCEPT ![d] = row]
        BY <1>1, <2>4, <3>1, <4>1, <4>2, <4>4 DEF UpdateSession
      <4> HIDE DEF row
      <4>7. Good(d, row)
        BY <4>4, <4>5 DEF Good
      <4> QED  BY <4>5, <4>6, <4>7, <1>6
    <3>2. CASE ~Recorded(req[r].call.s)
      BY <2>4, <3>2, <1>7 DEF UpdateSession
    <3> QED  BY <3>1, <3>2
  <2> QED  BY <2>1, <2>2, <2>3, <2>4
<1>9. TypeInv'
  BY <1>1, <1>3, <1>8 DEF TypeInv, OneOfAName, Live
<1> QED  BY <1>1, <1>3, <1>4, <1>8, <1>9

\* The requests about links change nothing else.
LEMMA LinkEffects ==
    ASSUME TypeInv, NEW r \in Reqs, LinkRepo(r) \/ ListProjectRepos(r) \/ UnlinkRepo(r)
    PROVE  /\ TypeInv' /\ projects' = projects /\ feed' = feed /\ keys' = keys /\ sessions' = sessions
           /\ past'.untold = past.untold /\ (Ends(r) \/ Goes(r, {"relist"}))
<1>1. /\ RequestsFit /\ req[r] \in Request /\ Fits(req[r]) /\ req[r].pc \in {"write", "relist"}
      /\ projects' = projects /\ sessions' = sessions /\ feed' = feed /\ keys' = keys
      /\ links \subseteq ProjectIds \X Repos
  BY DEF TypeInv, RequestsFit, LinkRepo, ListProjectRepos, UnlinkRepo, At, domain
<1>2. links' \subseteq ProjectIds \X Repos
  <2>1. CASE LinkRepo(r)
    <3>1. req[r].call.p \in ProjectIds /\ req[r].call.repo \in Repos
      BY <1>1, <2>1 DEF LinkRepo, At, Fits, Calls
    <3> QED  BY <1>1, <2>1, <3>1 DEF LinkRepo, Goto
  <2>2. CASE ListProjectRepos(r)
    BY <1>1, <2>2 DEF ListProjectRepos, domain
  <2>3. CASE UnlinkRepo(r)
    BY <1>1, <2>3 DEF UnlinkRepo
  <2> QED  BY <2>1, <2>2, <2>3
<1>3. (\E status \in Answer : Answered(r, status)) \/ (Goto(r, "relist") /\ past' = past)
  <2>1. {200, 201, 404, 500} \subseteq Answer
    BY DEF Answer
  <2>2. CASE LinkRepo(r)
    BY <2>1, <2>2 DEF LinkRepo
  <2>3. CASE ListProjectRepos(r)
    <3>1. PICK status : status = IF <<req[r].call.p, req[r].call.repo>> \in links THEN 201 ELSE 500
      OBVIOUS
    <3>2. status \in Answer /\ Answered(r, status)
      BY <2>1, <2>3, <3>1 DEF ListProjectRepos
    <3> QED  BY <3>2
  <2>4. CASE UnlinkRepo(r)
    BY <2>1, <2>4 DEF UnlinkRepo
  <2> QED  BY <2>2, <2>3, <2>4
<1>4. RequestsFit' /\ past' \in History /\ past'.untold = past.untold /\ (Ends(r) \/ Goes(r, {"relist"}))
  <2>1. CASE \E status \in Answer : Answered(r, status)
    BY <1>1, <2>1, AnsweredEffect DEF Ends
  <2>2. CASE Goto(r, "relist") /\ past' = past
    <3>1. MovesTo(r, "relist", req[r].seen, req[r].row) /\ req[r].seen \in SUBSET Nat /\ req[r].row \in Project
      BY <1>1, <2>2 DEF Goto, Request, RequestsFit, MovesTo
    <3>2. /\ RequestsFit' /\ \A o \in Reqs \ {r} : req'[o] = req[o]
          /\ req'[r].pc = "relist" /\ req'[r].key = req[r].key /\ req'[r].call = req[r].call
      BY <1>1, <3>1, GotoEffect
    <3>3. Goes(r, {"relist"})
      BY <1>1, <2>2, <3>2 DEF Goes
    <3> QED  BY <2>2, <3>2, <3>3 DEF TypeInv
  <2> QED  BY <1>3, <2>1, <2>2
<1>5. TypeInv'
  BY <1>1, <1>2, <1>4 DEF TypeInv, OneOfAName, Live
<1> QED  BY <1>1, <1>4, <1>5

\* Every step keeps the types.
LEMMA TypeStep == TypeInv /\ [Next]_vars => TypeInv'
<1> SUFFICES ASSUME TypeInv, [Next]_vars PROVE TypeInv'
  OBVIOUS
<1> USE DEF TypeInv
<1>1. CASE UNCHANGED vars
  BY <1>1 DEF vars, domain, RequestsFit, Fits, OneOfAName, Live
<1> HIDE DEF TypeInv
<1>2. ASSUME NEW r \in Reqs, Arrive(r) PROVE TypeInv'
  BY <1>2, ArriveEffect, SameTables DEF TypeInv
<1>3. ASSUME NEW r \in Reqs, GetIdempotencyKey(r) PROVE TypeInv'
  BY <1>3, LookupEffect, SameTables
<1>4. ASSUME NEW r \in Reqs, CreateIdempotencyKey(r) PROVE TypeInv'
  BY <1>4, StoreEffect DEF TypeInv, domain, OneOfAName, Live
<1>5. ASSUME NEW r \in Reqs, \/ CreateProject(r) \/ authorizeProject(r) \/ UpdateProject(r) \/ GetSession(r)
                             \/ CountSessions(r) \/ ArchiveProject(r) \/ SoftDeleteProject(r) \/ emit(r)
      PROVE  TypeInv'
  BY <1>5, CreateProjectEffect, AuthorizeEffect, UpdateProjectEffect, GetSessionEffect, CountEffect,
     ArchiveEffect, SoftDeleteEffect, EmitEffect
<1>6. ASSUME NEW r \in Reqs, \/ StartSession(r) \/ UpdateSession(r) \/ SplitSession(r) \/ DeleteSession(r)
                             \/ LinkRepo(r) \/ ListProjectRepos(r) \/ UnlinkRepo(r)
      PROVE  TypeInv'
  BY <1>6, SessionEffects, LinkEffects
<1>7. ASSUME NEW k \in Keys, DeleteExpiredIdempotencyKeys(k) PROVE TypeInv'
  BY <1>7, ExpireEffect DEF TypeInv, domain, RequestsFit, Fits, OneOfAName, Live
<1>8. CASE Restart
  BY <1>8, RestartEffect, SameTables
<1> QED  BY <1>1, <1>2, <1>3, <1>4, <1>5, <1>6, <1>7, <1>8 DEF Next

LEMMA TypeHolds == TypeInv => TypeOK
<1> SUFFICES ASSUME TypeInv PROVE TypeOK
  OBVIOUS
<1>1. ASSUME NEW n \in Names PROVE Cardinality(Named(n)) <= 1
  <2>1. CASE Named(n) = {}
    BY <2>1, FS_EmptySet
  <2>2. CASE Named(n) # {}
    <3>1. PICK p \in Named(n) : TRUE
      BY <2>2
    <3>2. Named(n) = {p}
      BY <3>1 DEF Named, TypeInv, OneOfAName
    <3> QED  BY <3>2, FS_Singleton
  <2> QED  BY <2>1, <2>2
<1>2. /\ \A s \in DOMAIN sessions : sessions[s] \in Session
      /\ \A e \in DOMAIN feed : feed[e] \in Event
  BY DEF TypeInv
<1> QED  BY <1>1, <1>2 DEF TypeOK, TypeInv, RequestsFit, Fits

\* Rows and requests keep their shape, and no two projects of an account share a name, however
\* requests interleave (projects.go:114-160 and the unique index they rest on).
THEOREM TypeCorrect == Spec => []TypeOK
<1> QED  BY TypeInit, TypeStep, TypeHolds, PTL DEF Spec

-------------------------------------------------------------------------------
(* Time on deleted projects.                                               *)

\* Every session is booked on a project.
LEMMA SessionRows ==
    ASSUME TypeInv
    PROVE  \A s \in DOMAIN sessions : sessions[s].p \in ProjectIds
<1>1. \A s \in DOMAIN sessions : sessions[s] \in Session
  BY DEF TypeInv
<1> QED  BY <1>1 DEF Session

\* An answer moves no other request, and ends at "" or "store".
LEMMA EndsEffect ==
    ASSUME TypeInv, NEW r \in Reqs, Ends(r)
    PROVE  /\ \A o \in Reqs \ {r} : req'[o] = req[o]
           /\ req'[r].pc \in {"", "store"} /\ req[r].pc \notin {"lookup", "store", "emit"}
<1>1. PICK status \in Answer : Reply(r, status)
  BY DEF Ends, Answered
<1> QED  BY <1>1, ReplyEffect DEF Ends, TypeInv

\* The sessions stay as they are, and requests come to "delete" by a count only.
LEMMA StrandKept ==
    ASSUME TypeInv, StrandInv, sessions' = sessions,
           \A p \in ProjectIds : projects'[p].state = "deleted" => projects[p].state = "deleted",
           \A r \in Reqs : req'[r].pc = "delete" => req'[r] = req[r] \/ req'[r].seen = {}
    PROVE  StrandInv'
<1>1. NoSessionStranded'
  BY SessionRows DEF StrandInv, NoSessionStranded
<1>2. NoneSeen'
  BY DEF StrandInv, NoneSeen
<1> QED  BY <1>1, <1>2 DEF StrandInv

\* A step that only moves requests.
LEMMA StrandMoves ==
    ASSUME TypeInv, StrandInv, NEW r \in Reqs, sessions' = sessions,
           \A p \in ProjectIds : projects'[p].state = "deleted" => projects[p].state = "deleted",
           \A o \in Reqs \ {r} : req'[o] = req[o], req'[r].pc # "delete"
    PROVE  StrandInv'
<1>1. \A o \in Reqs : req'[o].pc = "delete" => req'[o] = req[o]
  OBVIOUS
<1> QED  BY <1>1, StrandKept

LEMMA StrandStep == TypeInv /\ StrandInv /\ [Next]_vars => StrandInv'
<1> SUFFICES ASSUME TypeInv, StrandInv, [Next]_vars PROVE StrandInv'
  OBVIOUS
<1>0. \A p \in ProjectIds : projects[p].state \in {"none", "live", "deleted"}
  BY DEF TypeInv, Project
<1>1. CASE UNCHANGED vars
  BY <1>1, StrandKept DEF vars, domain
<1>2. ASSUME NEW r \in Reqs, Arrive(r) PROVE StrandInv'
  BY <1>2, ArriveEffect, StrandMoves DEF TypeInv, domain
<1>3. ASSUME NEW r \in Reqs, GetIdempotencyKey(r) PROVE StrandInv'
  <2>1. req'[r].pc # "delete"
    BY <1>3, LookupEffect, IdleFits
  <2> QED  BY <1>3, <2>1, LookupEffect, StrandMoves DEF domain
<1>4. ASSUME NEW r \in Reqs, CreateIdempotencyKey(r) PROVE StrandInv'
  <2>1. req'[r].pc # "delete"
    BY <1>4, StoreEffect, IdleFits
  <2> QED  BY <1>4, <2>1, StoreEffect, StrandMoves DEF domain
<1>5. ASSUME NEW r \in Reqs, CreateProject(r) PROVE StrandInv'
  <2>1. Ends(r) /\ sessions' = sessions
    BY <1>5, CreateProjectEffect DEF Ends
  <2>2. \A p \in ProjectIds : projects'[p].state = "deleted" => projects[p].state = "deleted"
    BY <1>5, CreateProjectEffect
  <2> QED  BY <2>1, <2>2, EndsEffect, StrandMoves
<1>6. ASSUME NEW r \in Reqs, authorizeProject(r) \/ GetSession(r) PROVE StrandInv'
  <2>1. domain' = domain /\ (Ends(r) \/ Goes(r, {"write", "count"}))
    BY <1>6, AuthorizeEffect, GetSessionEffect
  <2>2. req'[r].pc # "delete" /\ \A o \in Reqs \ {r} : req'[o] = req[o]
    BY <2>1, EndsEffect DEF Goes
  <2> QED  BY <2>1, <2>2, StrandMoves DEF domain
<1>7. ASSUME NEW r \in Reqs, UpdateProject(r) PROVE StrandInv'
  <2>1. req'[r].pc # "delete" /\ \A o \in Reqs \ {r} : req'[o] = req[o]
    <3>1. CASE Ends(r)
      BY <3>1, EndsEffect
    <3>2. CASE req[r].key = None /\ Reply(r, 200)
      <4>1. 200 \in Answer /\ RequestsFit
        BY DEF Answer, TypeInv
      <4> QED  BY <3>2, <4>1, ReplyEffect
    <3> QED  BY <1>7, <3>1, <3>2, UpdateProjectEffect
  <2>2. \A p \in ProjectIds : projects'[p].state = "deleted" => projects[p].state = "deleted"
    BY <1>7, UpdateProjectEffect DEF domain, Live
  <2> QED  BY <1>7, <2>1, <2>2, UpdateProjectEffect, StrandMoves
<1>8. ASSUME NEW r \in Reqs, CountSessions(r) PROVE StrandInv'
  <2>1. /\ domain' = domain
        /\ req'[r].pc = "delete" => req'[r].seen = {}
        /\ \A o \in Reqs \ {r} : req'[o] = req[o]
    BY <1>8, CountEffect DEF Goes
  <2> QED  BY <2>1, StrandKept DEF domain
<1>9. ASSUME NEW r \in Reqs, ArchiveProject(r) PROVE StrandInv'
  <2>1. req'[r].pc # "delete" /\ \A o \in Reqs \ {r} : req'[o] = req[o]
    BY <1>9, ArchiveEffect, EndsEffect DEF Goes
  <2> QED  BY <1>9, <2>1, ArchiveEffect, StrandMoves
<1>10. ASSUME NEW r \in Reqs, SoftDeleteProject(r) PROVE StrandInv'
  <2>1. /\ Len(sessions') = Len(sessions) /\ DOMAIN sessions' = DOMAIN sessions
        /\ \A s \in DOMAIN sessions :
             /\ sessions'[s].p = sessions[s].p /\ sessions'[s].live = sessions[s].live
             /\ sessions[s].excused => sessions'[s].excused
             /\ sessions[s].p = req[r].call.p /\ s \notin req[r].seen => sessions'[s].excused
        /\ \A o \in ProjectIds \ {req[r].call.p} : projects'[o] = projects[o]
        /\ req[r].pc = "delete" /\ req[r].call.p \in ProjectIds
        /\ req'[r].pc # "delete" /\ \A o \in Reqs \ {r} : req'[o] = req[o]
    BY <1>10, SoftDeleteEffect DEF Goes
  <2>2. NoneSeen'
    BY <2>1 DEF StrandInv, NoneSeen
  <2>3. ASSUME NEW s \in DOMAIN sessions, sessions'[s].live, projects'[sessions'[s].p].state = "deleted"
        PROVE  sessions'[s].excused
    <3>1. CASE sessions[s].p # req[r].call.p
      <4>1. projects[sessions[s].p].state = "deleted" /\ sessions[s].live
        BY <2>1, <2>3, <3>1, SessionRows
      <4> QED  BY <2>1, <4>1 DEF StrandInv, NoSessionStranded
    <3>2. CASE sessions[s].p = req[r].call.p
      <4>1. s \notin req[r].seen
        BY <2>1 DEF StrandInv, NoneSeen
      <4> QED  BY <2>1, <3>2, <4>1
    <3> QED  BY <3>1, <3>2
  <2>4. NoSessionStranded'
    BY <2>1, <2>3 DEF NoSessionStranded
  <2> QED  BY <2>2, <2>4 DEF StrandInv
<1>11. ASSUME NEW r \in Reqs, emit(r) PROVE StrandInv'
  <2>1. req'[r].pc # "delete"
    BY <1>11, EmitEffect, IdleFits
  <2> QED  BY <1>11, <2>1, EmitEffect, StrandMoves
<1>12. ASSUME NEW r \in Reqs, StartSession(r) \/ UpdateSession(r) \/ SplitSession(r) \/ DeleteSession(r)
       PROVE  StrandInv'
  <2>1. /\ projects' = projects /\ Ends(r)
        /\ \A s \in DOMAIN sessions' :
             \/ /\ s \in DOMAIN sessions /\ sessions'[s].p = sessions[s].p
                /\ sessions'[s].excused = sessions[s].excused
                /\ sessions'[s].live => sessions[s].live
             \/ sessions'[s].excused = ~Live(sessions'[s].p)
    BY <1>12, SessionEffects
  <2>2. req'[r].pc # "delete" /\ \A o \in Reqs \ {r} : req'[o] = req[o]
    BY <2>1, EndsEffect
  <2>3. NoneSeen'
    BY <2>2 DEF StrandInv, NoneSeen
  <2>4. ASSUME NEW s \in DOMAIN sessions', sessions'[s].live, projects'[sessions'[s].p].state = "deleted"
        PROVE  sessions'[s].excused
    <3>1. CASE sessions'[s].excused = ~Live(sessions'[s].p)
      BY <2>1, <2>4, <3>1 DEF Live
    <3>2. CASE ~(sessions'[s].excused = ~Live(sessions'[s].p))
      BY <2>1, <2>4, <3>2 DEF StrandInv, NoSessionStranded
    <3> QED  BY <3>1, <3>2
  <2>5. NoSessionStranded'
    BY <2>4 DEF NoSessionStranded
  <2> QED  BY <2>3, <2>5 DEF StrandInv
<1>14. ASSUME NEW r \in Reqs, LinkRepo(r) \/ ListProjectRepos(r) \/ UnlinkRepo(r) PROVE StrandInv'
  <2>1. projects' = projects /\ sessions' = sessions /\ (Ends(r) \/ Goes(r, {"relist"}))
    BY <1>14, LinkEffects
  <2>2. req'[r].pc # "delete" /\ \A o \in Reqs \ {r} : req'[o] = req[o]
    BY <2>1, EndsEffect DEF Goes
  <2> QED  BY <2>1, <2>2, StrandMoves
<1>15. ASSUME NEW k \in Keys, DeleteExpiredIdempotencyKeys(k) PROVE StrandInv'
  BY <1>15, ExpireEffect, StrandKept DEF domain
<1>16. CASE Restart
  <2>1. \A r \in Reqs : req'[r].pc # "delete"
    BY <1>16, RestartEffect, IdleFits
  <2> QED  BY <1>16, <2>1, RestartEffect, StrandKept DEF domain
<1> QED  BY <1>1, <1>2, <1>3, <1>4, <1>5, <1>6, <1>7, <1>8, <1>9, <1>10, <1>11, <1>12, <1>14,
            <1>15, <1>16 DEF Next

\* No live session lies on a deleted project, unless it came there after the deletion had
\* counted: started, moved to the project, or cut off another session, by a request that
\* authorised the project, or for a cut read it from the session, before the deletion
\* (projects.go:207-243, sessions_edit.go:39-43, 90-94, 157-160).
THEOREM NobodyStranded == Spec => []NoSessionStranded
<1>1. Init => StrandInv
  <2> SUFFICES ASSUME Init PROVE StrandInv
    OBVIOUS
  <2>1. DOMAIN sessions = {}
    BY DEF Init
  <2>2. \A r \in Reqs : req[r].pc # "delete"
    BY IdleFits DEF Init
  <2> QED  BY <2>1, <2>2 DEF StrandInv, NoneSeen, NoSessionStranded
<1>2. StrandInv => NoSessionStranded
  BY DEF StrandInv
<1> QED  BY <1>1, <1>2, TypeInit, TypeStep, StrandStep, PTL DEF Spec

-------------------------------------------------------------------------------
(* Keys.                                                                   *)

\* Nothing that a key stands for moves: its requests change place within their handlers.
LEMMA KeptSame ==
    ASSUME TypeInv, KeysInv, keys' = keys, past'.ran = past.ran, past'.lost = past.lost,
           past'.overlapped = past.overlapped,
           \A q \in Reqs : \/ req'[q] = req[q]
                           \/ req[q].key = None /\ req'[q].key = None
                           \/ req[q].pc = "lookup" /\ (req'[q].key = None \/ req'[q].pc = "lookup")
                           \/ req'[q].pc = "lookup" /\ req[q].key = None
                           \/ /\ req[q].pc \notin {"lookup", "store"} /\ req'[q].pc \notin {"lookup", "store"}
                              /\ req'[q].key = req[q].key
    PROVE  KeysInv'
<1>1. ASSUME NEW k \in Keys PROVE Kept(k)'
  <2>1. k # None
    BY ProjectsAssumption
  <2>2. InFlight(k)' = InFlight(k) /\ Running(k)' = Running(k) /\ Storing(k)' = Storing(k)
    BY <2>1 DEF InFlight, Running, Storing
  <2> QED  BY <2>2 DEF KeysInv, Kept
<1> QED  BY <1>1 DEF KeysInv

\* A request without a key moves no key.
LEMMA KeptByUnkeyed ==
    ASSUME TypeInv, KeysInv, keys' = keys, past'.ran = past.ran, past'.lost = past.lost,
           past'.overlapped = past.overlapped, NEW r \in Reqs,
           req[r].key = None, req'[r] = Idle, \A o \in Reqs \ {r} : req'[o] = req[o]
    PROVE  KeysInv'
<1>1. req'[r].key = None
  BY IdleFits
<1> QED  BY <1>1, KeptSame

\* A handler goes on.
LEMMA KeptGoing ==
    ASSUME TypeInv, KeysInv, keys' = keys, NEW r \in Reqs, NEW pcs, Goes(r, pcs),
           pcs \subseteq {"write", "count", "archive", "delete", "emit", "relist"}
    PROVE  KeysInv'
<1>1. /\ req[r].pc \notin {"lookup", "store"} /\ req'[r].pc \notin {"lookup", "store"}
      /\ req'[r].key = req[r].key /\ past' = past /\ \A o \in Reqs \ {r} : req'[o] = req[o]
  BY DEF Goes
<1> QED  BY <1>1, KeptSame

\* A handler answers: a keyed answer waits to be stored, or the key has lost one.
LEMMA KeptAnswered ==
    ASSUME TypeInv, KeysInv, keys' = keys, NEW r \in Reqs, Ends(r)
    PROVE  KeysInv'
<1>1. RequestsFit /\ past \in History /\ req[r] \in Request
  BY DEF TypeInv, RequestsFit
<1>2. PICK status \in Answer : Reply(r, status) /\ past' = Ran(r, status)
  BY DEF Ends, Answered
<1>3. req[r].pc \notin {"lookup", "store"} /\ \A o \in Reqs \ {r} : req'[o] = req[o]
  BY EndsEffect
<1>4. CASE req[r].key = None
  <2>1. req'[r] = Idle /\ past' = past
    BY <1>1, <1>2, <1>4, ReplyEffect, RanEffect
  <2> QED  BY <1>3, <1>4, <2>1, KeptByUnkeyed
<1>5. CASE req[r].key # None /\ status = 500
  <2>1. req'[r].key = None /\ past'.lost = past.lost \cup {req[r].key} /\ past'.ran = past.ran
        /\ past'.overlapped = past.overlapped
    <3>1. req'[r].key = None
      BY <1>1, <1>2, <1>5, ReplyEffect, IdleFits
    <3> QED  BY <1>1, <1>2, <1>5, <3>1, RanEffect
  <2>2. ASSUME NEW k \in Keys PROVE Kept(k)'
    <3>1. CASE k = req[r].key
      BY <2>1, <3>1 DEF Kept
    <3>2. CASE k # req[r].key
      <4>1. k # None
        BY ProjectsAssumption
      <4>2. InFlight(k)' = InFlight(k) /\ Running(k)' = Running(k) /\ Storing(k)' = Storing(k)
        BY <1>3, <2>1, <3>2, <4>1 DEF InFlight, Running, Storing
      <4> QED  BY <2>1, <3>2, <4>2 DEF KeysInv, Kept
    <3> QED  BY <3>1, <3>2
  <2> QED  BY <2>2 DEF KeysInv
<1>6. CASE req[r].key # None /\ status # 500
  <2>1. /\ req'[r].pc = "store" /\ req'[r].key = req[r].key
        /\ past'.lost = past.lost /\ past'.overlapped = past.overlapped
        /\ past'.ran[req[r].key] = past.ran[req[r].key] + 1
        /\ \A k \in Keys \ {req[r].key} : past'.ran[k] = past.ran[k]
    <3>0. Reply(r, status) /\ RequestsFit
      BY <1>1, <1>2
    <3>00. req[r].key # None /\ status # 500 => req'[r].pc = "store" /\ req'[r].key = req[r].key
      BY <3>0, ReplyEffect, ZenonT(40)
    <3>1. req'[r].pc = "store" /\ req'[r].key = req[r].key
      BY <1>6, <3>00
    <3> QED  BY <1>1, <1>2, <1>6, <3>1, RanEffect
  <2>2. ASSUME NEW k \in Keys PROVE Kept(k)'
    <3>0. k # None
      BY ProjectsAssumption
    <3>1. CASE k # req[r].key
      <4>1. InFlight(k)' = InFlight(k) /\ Running(k)' = Running(k) /\ Storing(k)' = Storing(k)
        BY <1>3, <2>1, <3>1 DEF InFlight, Running, Storing
      <4> QED  BY <2>1, <3>1, <4>1 DEF KeysInv, Kept
    <3>2. CASE k = req[r].key
      <4>1. InFlight(k)' = InFlight(k) /\ r \in Storing(k)' /\ r \in Running(k) /\ r \in InFlight(k)
        BY <1>3, <2>1, <3>2 DEF InFlight, Running, Storing
      <4>2. Kept(k)
        BY DEF KeysInv
      <4>3. ASSUME k \notin past.lost, k \notin past.overlapped
            PROVE  /\ past'.ran[k] = 1 /\ \A p, q \in InFlight(k)' : p = q /\ Running(k)' = {}
        <5>1. past.ran[k] = 0 /\ \A p, q \in InFlight(k) : p = q
          BY <4>1, <4>2, <4>3 DEF Kept
        <5>2. Running(k)' \subseteq InFlight(k)' /\ r \notin Running(k)'
          BY <2>1 DEF Running, InFlight
        <5> QED  BY <2>1, <3>2, <4>1, <5>1, <5>2
      <4> QED  BY <2>1, <3>2, <4>1, <4>3 DEF Kept
    <3> QED  BY <3>1, <3>2
  <2> QED  BY <2>2 DEF KeysInv
<1> QED  BY <1>4, <1>5, <1>6

\* A request is past its lookup.
LEMMA KeptLooked ==
    ASSUME TypeInv, KeysInv, NEW r \in Reqs, GetIdempotencyKey(r)
    PROVE  KeysInv'
<1>1. /\ keys' = keys /\ req[r].pc = "lookup" /\ past \in History /\ \A o \in Reqs \ {r} : req'[o] = req[o]
      /\ past'.ran = past.ran /\ past'.lost = past.lost
  BY LookupEffect DEF TypeInv
<1>2. CASE req'[r].key = None /\ past' = past
  BY <1>1, <1>2, KeptSame
<1>3. CASE /\ req'[r].pc = "run" /\ req'[r].key = req[r].key /\ keys[req[r].key] = NoKey
           /\ IF InFlight(req[r].key) # {} THEN past'.overlapped = past.overlapped \cup {req[r].key}
                                           ELSE past' = past
  <2>1. past.overlapped \subseteq past'.overlapped /\ past'.overlapped \subseteq past.overlapped \cup {req[r].key}
    BY <1>3
  <2>2. ASSUME NEW k \in Keys PROVE Kept(k)'
    <3>1. CASE k # req[r].key
      <4>1. InFlight(k)' = InFlight(k) /\ Running(k)' = Running(k) /\ Storing(k)' = Storing(k)
        BY <1>1, <1>3, <3>1 DEF InFlight, Running, Storing
      <4> QED  BY <1>1, <2>1, <3>1, <4>1 DEF KeysInv, Kept
    <3>2. CASE k = req[r].key
      <4>1. Storing(k)' = Storing(k) /\ Kept(k) /\ keys[k] = NoKey
        BY <1>1, <1>3, <3>2 DEF Storing, KeysInv
      <4>2. CASE InFlight(k) # {}
        BY <1>1, <1>3, <3>2, <4>1, <4>2 DEF Kept
      <4>3. CASE InFlight(k) = {}
        <5>1. Storing(k) = {}
          BY <4>3 DEF Storing, InFlight
        <5>2. k \notin past.lost => past.ran[k] = 0
          <6>1. past.ran[k] \in Nat
            BY <1>1 DEF History
          <6> QED  BY <4>1, <5>1, <6>1 DEF Kept
        <5>3. \A p, q \in InFlight(k)' : p = q
          BY <1>1, <4>3 DEF InFlight
        <5> QED  BY <1>1, <5>2, <5>3, <4>1 DEF Kept
      <4> QED  BY <4>2, <4>3
    <3> QED  BY <3>1, <3>2
  <2> QED  BY <2>2 DEF KeysInv
<1> QED  BY <1>2, <1>3, LookupEffect, IdleFits

\* An answer is stored, or lost.
LEMMA KeptStored ==
    ASSUME TypeInv, KeysInv, NEW r \in Reqs, CreateIdempotencyKey(r)
    PROVE  KeysInv'
<1>1. /\ req[r].pc = "store" /\ req[r].key \in Keys /\ req'[r].key = None
      /\ \A o \in Reqs \ {r} : req'[o] = req[o]
      /\ past'.ran = past.ran /\ past'.overlapped = past.overlapped
      /\ \A k \in Keys \ {req[r].key} : keys'[k] = keys[k]
      /\ \/ past'.lost = past.lost /\ keys'[req[r].key] # NoKey
         \/ past'.lost = past.lost \cup {req[r].key} /\ keys' = keys
  BY StoreEffect, IdleFits
<1>2. ASSUME NEW k \in Keys PROVE Kept(k)'
  <2>0. k # None
    BY ProjectsAssumption
  <2>1. CASE k # req[r].key
    <3>1. InFlight(k)' = InFlight(k) /\ Running(k)' = Running(k) /\ Storing(k)' = Storing(k)
      BY <1>1, <2>0, <2>1 DEF InFlight, Running, Storing
    <3> QED  BY <1>1, <2>1, <3>1 DEF KeysInv, Kept
  <2>2. CASE k = req[r].key
    <3>1. InFlight(k)' \subseteq InFlight(k) /\ Running(k)' = Running(k)
      BY <1>1, <2>0 DEF InFlight, Running
    <3>2. CASE past'.lost = past.lost /\ keys'[k] # NoKey
      BY <1>1, <3>1, <3>2 DEF KeysInv, Kept
    <3>3. CASE past'.lost = past.lost \cup {k}
      BY <3>3 DEF Kept
    <3> QED  BY <1>1, <2>2, <3>2, <3>3
  <2> QED  BY <2>1, <2>2
<1> QED  BY <1>2 DEF KeysInv

LEMMA KeysStep == TypeInv /\ KeysInv /\ [Next]_vars => KeysInv'
<1> SUFFICES ASSUME TypeInv, KeysInv, [Next]_vars PROVE KeysInv'
  OBVIOUS
<1>1. CASE UNCHANGED vars
  BY <1>1, KeptSame DEF vars
<1>2. ASSUME NEW r \in Reqs, Arrive(r) PROVE KeysInv'
  <2>1. /\ req[r].key = None /\ keys' = keys /\ past' = past /\ \A o \in Reqs \ {r} : req'[o] = req[o]
        /\ req'[r].pc = "lookup" \/ req'[r].key = None
    BY <1>2, ArriveEffect, IdleFits DEF TypeInv
  <2> QED  BY <2>1, KeptSame
<1>3. ASSUME NEW r \in Reqs, GetIdempotencyKey(r) \/ CreateIdempotencyKey(r) PROVE KeysInv'
  BY <1>3, KeptLooked, KeptStored
<1>4. ASSUME NEW r \in Reqs, CreateProject(r) PROVE KeysInv'
  <2>1. Ends(r) /\ keys' = keys
    BY <1>4, CreateProjectEffect DEF Ends
  <2> QED  BY <2>1, KeptAnswered
<1>5. ASSUME NEW r \in Reqs, authorizeProject(r) \/ GetSession(r) PROVE KeysInv'
  BY <1>5, AuthorizeEffect, GetSessionEffect, KeptAnswered, KeptGoing
<1>6. ASSUME NEW r \in Reqs, UpdateProject(r) PROVE KeysInv'
  <2>1. CASE Ends(r)
    BY <1>6, <2>1, UpdateProjectEffect, KeptAnswered
  <2>2. CASE /\ req[r].key = None /\ Reply(r, 200)
             /\ past'.ran = past.ran /\ past'.lost = past.lost /\ past'.overlapped = past.overlapped
    <3>1. 200 \in Answer /\ RequestsFit
      BY DEF Answer, TypeInv
    <3>2. req'[r] = Idle /\ \A o \in Reqs \ {r} : req'[o] = req[o]
      BY <2>2, <3>1, ReplyEffect
    <3> QED  BY <1>6, <2>2, <3>2, UpdateProjectEffect, KeptByUnkeyed
  <2> QED  BY <1>6, <2>1, <2>2, UpdateProjectEffect
<1>7. ASSUME NEW r \in Reqs, CountSessions(r) PROVE KeysInv'
  BY <1>7, CountEffect, KeptGoing
<1>8. ASSUME NEW r \in Reqs, ArchiveProject(r) PROVE KeysInv'
  BY <1>8, ArchiveEffect, KeptGoing, KeptAnswered
<1>9. ASSUME NEW r \in Reqs, SoftDeleteProject(r) PROVE KeysInv'
  BY <1>9, SoftDeleteEffect, KeptGoing
<1>10. ASSUME NEW r \in Reqs, emit(r) PROVE KeysInv'
  BY <1>10, EmitEffect, KeptByUnkeyed
<1>11. ASSUME NEW r \in Reqs, StartSession(r) \/ UpdateSession(r) \/ SplitSession(r) \/ DeleteSession(r)
       PROVE  KeysInv'
  BY <1>11, SessionEffects, KeptAnswered
<1>12. ASSUME NEW r \in Reqs, LinkRepo(r) \/ ListProjectRepos(r) \/ UnlinkRepo(r) PROVE KeysInv'
  BY <1>12, LinkEffects, KeptAnswered, KeptGoing
<1>13. ASSUME NEW x \in Keys, DeleteExpiredIdempotencyKeys(x) PROVE KeysInv'
  <2>1. /\ req' = req /\ past'.ran = past.ran /\ past'.overlapped = past.overlapped
        /\ past'.lost = past.lost \cup {x} /\ \A o \in Keys \ {x} : keys'[o] = keys[o]
    BY <1>13, ExpireEffect
  <2>2. ASSUME NEW k \in Keys PROVE Kept(k)'
    <3>1. InFlight(k)' = InFlight(k) /\ Running(k)' = Running(k) /\ Storing(k)' = Storing(k)
      BY <2>1 DEF InFlight, Running, Storing
    <3>2. CASE k = x
      BY <2>1, <3>2 DEF Kept
    <3>3. CASE k # x
      BY <2>1, <3>1, <3>3 DEF KeysInv, Kept
    <3> QED  BY <3>2, <3>3
  <2> QED  BY <2>2 DEF KeysInv
<1>14. CASE Restart
  <2> DEFINE gone == {req[r].key : r \in {q \in Reqs : req[q].key # None /\ req[q].pc # "lookup"}}
  <2>1. /\ keys' = keys /\ past'.ran = past.ran /\ past'.overlapped = past.overlapped
        /\ past'.lost = past.lost \cup gone /\ \A q \in Reqs : req'[q].key = None
    BY <1>14, RestartEffect, IdleFits
  <2>2. ASSUME NEW k \in Keys PROVE Kept(k)'
    <3>0. k # None
      BY ProjectsAssumption
    <3>1. InFlight(k)' = {} /\ Running(k)' = {}
      BY <2>1, <3>0 DEF InFlight, Running
    <3>2. CASE InFlight(k) # {}
      <4>1. k \in gone
        BY <3>0, <3>2 DEF InFlight
      <4> QED  BY <2>1, <4>1 DEF Kept
    <3>3. CASE InFlight(k) = {}
      <4>1. Storing(k) = {}
        BY <3>3 DEF Storing, InFlight
      <4> HIDE DEF gone
      <4> QED  BY <2>1, <3>1, <4>1 DEF KeysInv, Kept
    <3> QED  BY <3>2, <3>3
  <2> QED  BY <2>2 DEF KeysInv
<1> QED  BY <1>1, <1>2, <1>3, <1>4, <1>5, <1>6, <1>7, <1>8, <1>9, <1>10, <1>11, <1>12, <1>13, <1>14 DEF Next

\* A keyed request runs once unless two overlapped or its answer was lost, and every answer
\* given is there to be replayed (idempotency.go:43-86).
THEOREM KeysRunOnce == Spec => []RunsOnce
<1>1. Init => KeysInv
  <2> SUFFICES ASSUME Init PROVE KeysInv
    OBVIOUS
  <2>1. \A r \in Reqs : req[r].key = None
    BY IdleFits DEF Init
  <2>2. \A k \in Keys : past.ran[k] = 0
    BY DEF Init
  <2>3. ASSUME NEW k \in Keys PROVE InFlight(k) = {} /\ Running(k) = {}
    BY <2>1, ProjectsAssumption DEF InFlight, Running
  <2> QED  BY <2>2, <2>3 DEF KeysInv, Kept
<1>2. TypeInv /\ KeysInv => RunsOnce
  <2> SUFFICES ASSUME TypeInv, KeysInv, NEW k \in Keys
               PROVE  /\ past.ran[k] > 0 /\ InFlight(k) = {} => keys[k] # NoKey \/ k \in past.lost
                      /\ past.ran[k] > 1 => k \in past.overlapped \cup past.lost
    BY DEF RunsOnce
  <2>1. Storing(k) \subseteq InFlight(k) /\ past.ran[k] \in Nat
    BY DEF Storing, InFlight, TypeInv, History
  <2> QED  BY <2>1 DEF KeysInv, Kept
<1> QED  BY <1>1, <1>2, TypeInit, TypeStep, KeysStep, PTL DEF Spec

-------------------------------------------------------------------------------
(* What the events tell.                                                   *)

\* What a list of events says of a project; Believed is what the feed says.
Says(f, p, row) ==
    \/ /\ \A e \in DOMAIN f : f[e].p # p
       /\ row = IF p = Default THEN [state |-> "live", name |-> DefaultName, archived |-> FALSE]
                ELSE NoProject
    \/ \E e \in DOMAIN f :
         /\ f[e].p = p /\ f[e].row = row
         /\ \A later \in DOMAIN f : later > e => f[later].p # p

Emitting(p) == \E r \in Reqs : req[r].pc = "emit" /\ req[r].call.p = p
Mirrored(p) == Emitting(p) \/ p \in past.untold \/ Says(feed, p, projects[p])

LEMMA MirrorMeans == MirrorTrue <=> \A p \in ProjectIds : Mirrored(p)
<1> QED  BY DEF MirrorTrue, Mirrored, Emitting, Says, Believed

LEMMA MirrorMeansNext == (\A p \in ProjectIds : Mirrored(p)') => MirrorTrue'
<1> QED  BY DEF MirrorTrue, Mirrored, Emitting, Says, Believed

\* One more event says what it says of its project, and nothing of the others.
LEMMA OneMoreEvent ==
    ASSUME feed \in Seq(Event), NEW t, NEW p \in ProjectIds, NEW row,
           [type |-> t, p |-> p, row |-> row] \in Event, Tell(t, p, row)
    PROVE  /\ Says(feed', p, row)
           /\ \A o \in ProjectIds \ {p} : \A was : Says(feed, o, was) => Says(feed', o, was)
<1> DEFINE e == [type |-> t, p |-> p, row |-> row]
<1>1. e \in Event /\ e.p = p /\ e.row = row /\ feed' = Append(feed, e)
  BY DEF Tell
<1> HIDE DEF e
<1>2. /\ Len(feed') = Len(feed) + 1 /\ Len(feed) \in Nat
      /\ DOMAIN feed = 1 .. Len(feed) /\ DOMAIN feed' = 1 .. Len(feed')
      /\ \A i \in DOMAIN feed : i \in DOMAIN feed' /\ feed'[i] = feed[i]
      /\ feed'[Len(feed')] = e
      /\ \A i \in DOMAIN feed' : i = Len(feed') \/ i \in DOMAIN feed
  BY <1>1, Grows
<1>3. Says(feed', p, row)
  <2>1. Len(feed') \in DOMAIN feed' /\ \A later \in DOMAIN feed' : ~(later > Len(feed'))
    BY <1>2
  <2> QED  BY <1>1, <1>2, <2>1 DEF Says
<1>4. ASSUME NEW o \in ProjectIds \ {p}, NEW was, Says(feed, o, was)
      PROVE  Says(feed', o, was)
  <2>1. feed'[Len(feed')].p # o
    BY <1>1, <1>2
  <2>2. CASE /\ \A i \in DOMAIN feed : feed[i].p # o
             /\ was = IF o = Default THEN [state |-> "live", name |-> DefaultName, archived |-> FALSE]
                      ELSE NoProject
    <3>1. \A i \in DOMAIN feed' : feed'[i].p # o
      BY <1>2, <2>1, <2>2
    <3> QED  BY <2>2, <3>1 DEF Says
  <2>3. CASE \E i \in DOMAIN feed :
               /\ feed[i].p = o /\ feed[i].row = was
               /\ \A later \in DOMAIN feed : later > i => feed[later].p # o
    <3>1. PICK i \in DOMAIN feed :
               /\ feed[i].p = o /\ feed[i].row = was
               /\ \A later \in DOMAIN feed : later > i => feed[later].p # o
      BY <2>3
    <3>2. /\ i \in DOMAIN feed' /\ feed'[i].p = o /\ feed'[i].row = was
          /\ \A later \in DOMAIN feed' : later > i => feed'[later].p # o
      BY <1>2, <2>1, <3>1
    <3> QED  BY <3>2 DEF Says
  <2> QED  BY <1>4, <2>2, <2>3 DEF Says
<1> QED  BY <1>3, <1>4

\* Nothing is told and no project changes; who has an event to write still has it.
LEMMA MirrorSame ==
    ASSUME MirrorTrue, projects' = projects, feed' = feed, past.untold \subseteq past'.untold,
           \A r \in Reqs : req[r].pc = "emit" =>
              req'[r] = req[r] \/ req[r].call.p \in past'.untold
    PROVE  MirrorTrue'
<1>1. ASSUME NEW p \in ProjectIds PROVE Mirrored(p)'
  <2>1. Mirrored(p)
    BY MirrorMeans
  <2>2. Says(feed, p, projects[p]) => Says(feed', p, projects'[p])
    OBVIOUS
  <2>3. Emitting(p) => Emitting(p)' \/ p \in past'.untold
    BY DEF Emitting
  <2> QED  BY <2>1, <2>2, <2>3 DEF Mirrored
<1> QED  BY <1>1, MirrorMeansNext

\* The same for a step of one request that is not at its event.
LEMMA MirrorMoves ==
    ASSUME MirrorTrue, NEW r \in Reqs, projects' = projects, feed' = feed,
           past'.untold = past.untold, req[r].pc # "emit", \A o \in Reqs \ {r} : req'[o] = req[o]
    PROVE  MirrorTrue'
<1>1. \A o \in Reqs : req[o].pc = "emit" => req'[o] = req[o]
  OBVIOUS
<1> QED  BY <1>1, MirrorSame

\* A change that comes with its event.
LEMMA MirrorTold ==
    ASSUME TypeInv, TypeInv', MirrorTrue, NEW r \in Reqs, \A o \in Reqs \ {r} : req'[o] = req[o],
           NEW p \in ProjectIds, req[r].pc = "emit" => req[r].call.p = p, NEW t, NEW row \in Project,
           t \in {"created", "updated", "archived", "deleted"}, Tell(t, p, row),
           \A o \in ProjectIds \ {p} : projects'[o] = projects[o],
           past.untold \ {p} \subseteq past'.untold,
           row = projects'[p] \/ p \in past'.untold
    PROVE  MirrorTrue'
<1>1. feed \in Seq(Event) /\ [type |-> t, p |-> p, row |-> row] \in Event
  BY DEF TypeInv, Event
<1>2. /\ Says(feed', p, row)
      /\ \A o \in ProjectIds \ {p} : \A was : Says(feed, o, was) => Says(feed', o, was)
  BY <1>1, OneMoreEvent
<1>3. Mirrored(p)'
  BY <1>2 DEF Mirrored
<1>4. ASSUME NEW o \in ProjectIds \ {p} PROVE Mirrored(o)'
  <2>1. Mirrored(o)
    BY MirrorMeans
  <2>2. Says(feed, o, projects[o]) => Says(feed', o, projects'[o])
    BY <1>2
  <2>3. Emitting(o) => Emitting(o)'
    BY DEF Emitting
  <2> QED  BY <2>1, <2>2, <2>3 DEF Mirrored
<1> QED  BY <1>3, <1>4, MirrorMeansNext

\* A change whose event is still to be written.
LEMMA MirrorOwed ==
    ASSUME TypeInv, MirrorTrue, NEW r \in Reqs, Goes(r, {"emit"}), feed' = feed,
           \A o \in ProjectIds \ {req[r].call.p} : projects'[o] = projects[o]
    PROVE  MirrorTrue'
<1>1. /\ req'[r].pc = "emit" /\ req'[r].call = req[r].call /\ req[r].pc # "emit" /\ past' = past
      /\ \A o \in Reqs \ {r} : req'[o] = req[o]
  BY DEF Goes
<1>2. ASSUME NEW p \in ProjectIds PROVE Mirrored(p)'
  <2>1. CASE p = req[r].call.p
    BY <1>1, <2>1 DEF Mirrored, Emitting
  <2>2. CASE p # req[r].call.p
    <3>1. Mirrored(p)
      BY MirrorMeans
    <3>2. Says(feed, p, projects[p]) => Says(feed', p, projects'[p])
      BY <2>2
    <3>3. Emitting(p) => Emitting(p)'
      BY <1>1 DEF Emitting
    <3> QED  BY <1>1, <3>1, <3>2, <3>3 DEF Mirrored
  <2> QED  BY <2>1, <2>2
<1> QED  BY <1>2, MirrorMeansNext

LEMMA MirrorStep == TypeInv /\ MirrorTrue /\ [Next]_vars => MirrorTrue'
<1> SUFFICES ASSUME TypeInv, MirrorTrue, [Next]_vars PROVE MirrorTrue'
  OBVIOUS
<1>0. TypeInv'
  BY TypeStep
<1>1. CASE UNCHANGED vars
  BY <1>1, MirrorSame DEF vars, domain
<1>2. ASSUME NEW r \in Reqs, Arrive(r) PROVE MirrorTrue'
  <2>1. req[r].pc # "emit"
    BY <1>2, ArriveEffect, IdleFits DEF TypeInv
  <2> QED  BY <1>2, <2>1, ArriveEffect, MirrorMoves DEF TypeInv, domain
<1>3. ASSUME NEW r \in Reqs, GetIdempotencyKey(r) PROVE MirrorTrue'
  <2>1. req[r].pc # "emit"
    BY <1>3, LookupEffect
  <2> QED  BY <1>3, <2>1, LookupEffect, MirrorMoves DEF domain
<1>4. ASSUME NEW r \in Reqs, CreateIdempotencyKey(r) PROVE MirrorTrue'
  <2>1. req[r].pc # "emit"
    BY <1>4, StoreEffect
  <2> QED  BY <1>4, <2>1, StoreEffect, MirrorMoves DEF domain
<1>5. ASSUME NEW r \in Reqs, CreateProject(r) PROVE MirrorTrue'
  <2>1. /\ req[r].pc # "emit" /\ past'.untold = past.untold /\ \A o \in Reqs \ {r} : req'[o] = req[o]
    <3>1. Ends(r)
      BY <1>5, CreateProjectEffect DEF Ends
    <3> QED  BY <1>5, <3>1, CreateProjectEffect, EndsEffect
  <2>2. CASE projects' = projects /\ feed' = feed
    BY <2>1, <2>2, MirrorMoves
  <2>3. CASE \E p \in ProjectIds :
               /\ \A o \in ProjectIds \ {p} : projects'[o] = projects[o]
               /\ Tell("created", p, projects'[p])
    <3>1. PICK p \in ProjectIds :
               /\ \A o \in ProjectIds \ {p} : projects'[o] = projects[o]
               /\ Tell("created", p, projects'[p])
      BY <2>3
    <3>2. PICK row \in Project : row = projects'[p]
      BY <1>0 DEF TypeInv
    <3>3. Tell("created", p, row)
      BY <3>1, <3>2
    <3> QED  BY <1>0, <2>1, <3>1, <3>2, <3>3, MirrorTold
  <2> QED  BY <1>5, <2>2, <2>3, CreateProjectEffect
<1>6. ASSUME NEW r \in Reqs, authorizeProject(r) \/ GetSession(r) PROVE MirrorTrue'
  <2>1. domain' = domain /\ past'.untold = past.untold /\ (Ends(r) \/ Goes(r, {"write", "count"}))
    BY <1>6, AuthorizeEffect, GetSessionEffect
  <2>2. req[r].pc # "emit" /\ \A o \in Reqs \ {r} : req'[o] = req[o]
    BY <2>1, EndsEffect DEF Goes
  <2> QED  BY <2>1, <2>2, MirrorMoves DEF domain
<1>7. ASSUME NEW r \in Reqs, UpdateProject(r) PROVE MirrorTrue'
  <2>1. CASE Ends(r) /\ domain' = domain /\ past'.untold = past.untold
    BY <2>1, EndsEffect, MirrorMoves DEF domain
  <2>2. CASE /\ req[r].key = None /\ Reply(r, 200)
             /\ \E p \in ProjectIds :
                  /\ past'.untold = past.untold \ {p}
                  /\ \A o \in ProjectIds \ {p} : projects'[o] = projects[o]
                  /\ Tell("updated", p, projects'[p])
    <3>1. PICK p \in ProjectIds :
                  /\ past'.untold = past.untold \ {p}
                  /\ \A o \in ProjectIds \ {p} : projects'[o] = projects[o]
                  /\ Tell("updated", p, projects'[p])
      BY <2>2
    <3>2. PICK row \in Project : row = projects'[p]
      BY <1>0 DEF TypeInv
    <3>3. Tell("updated", p, row)
      BY <3>1, <3>2
    <3>4. \A o \in Reqs \ {r} : req'[o] = req[o]
      <4>1. 200 \in Answer /\ RequestsFit
        BY DEF Answer, TypeInv
      <4> QED  BY <2>2, <4>1, ReplyEffect
    <3>5. req[r].pc # "emit"
      BY <1>7, UpdateProjectEffect
    <3> QED  BY <1>0, <3>1, <3>2, <3>3, <3>4, <3>5, MirrorTold
  <2> QED  BY <1>7, <2>1, <2>2, UpdateProjectEffect
<1>8. ASSUME NEW r \in Reqs, CountSessions(r) PROVE MirrorTrue'
  <2>1. /\ domain' = domain /\ past' = past /\ req[r].pc # "emit"
        /\ \A o \in Reqs \ {r} : req'[o] = req[o]
    BY <1>8, CountEffect DEF Goes
  <2> QED  BY <2>1, MirrorMoves DEF domain
<1>9. ASSUME NEW r \in Reqs, ArchiveProject(r) PROVE MirrorTrue'
  <2>1. CASE Ends(r) /\ projects' = projects
    BY <1>9, <2>1, ArchiveEffect, EndsEffect, MirrorMoves
  <2>2. CASE Goes(r, {"emit"})
    BY <1>9, <2>2, ArchiveEffect, MirrorOwed
  <2> QED  BY <1>9, <2>1, <2>2, ArchiveEffect
<1>10. ASSUME NEW r \in Reqs, SoftDeleteProject(r) PROVE MirrorTrue'
  BY <1>10, SoftDeleteEffect, MirrorOwed
<1>11. ASSUME NEW r \in Reqs, emit(r) PROVE MirrorTrue'
  <2>1. PICK p \in ProjectIds :
          /\ p = req[r].call.p
          /\ \/ feed' = feed /\ past'.untold = past.untold \cup {p}
             \/ \E type \in {"archived", "deleted"}, row \in Project :
                  /\ Tell(type, p, row)
                  /\ past'.untold = IF projects[p] = row THEN past.untold \ {p}
                                                         ELSE past.untold \cup {p}
    BY <1>11, EmitEffect
  <2>2. projects' = projects /\ \A o \in Reqs \ {r} : req'[o] = req[o]
    BY <1>11, EmitEffect
  <2>3. CASE feed' = feed /\ past'.untold = past.untold \cup {p}
    <3>1. \A o \in Reqs : req[o].pc = "emit" => req'[o] = req[o] \/ req[o].call.p \in past'.untold
      BY <2>1, <2>2, <2>3
    <3> QED  BY <2>2, <2>3, <3>1, MirrorSame
  <2>4. CASE \E type \in {"archived", "deleted"}, row \in Project :
               /\ Tell(type, p, row)
               /\ past'.untold = IF projects[p] = row THEN past.untold \ {p} ELSE past.untold \cup {p}
    <3>1. PICK type \in {"archived", "deleted"}, row \in Project :
               /\ Tell(type, p, row)
               /\ past'.untold = IF projects[p] = row THEN past.untold \ {p} ELSE past.untold \cup {p}
      BY <2>4
    <3>2. past.untold \ {p} \subseteq past'.untold /\ (row = projects'[p] \/ p \in past'.untold)
      BY <2>2, <3>1
    <3>3. type \in {"created", "updated", "archived", "deleted"} /\ Tell(type, p, row)
      BY <3>1
    <3> QED  BY <1>0, <2>1, <2>2, <3>2, <3>3, MirrorTold
  <2> QED  BY <2>1, <2>3, <2>4
<1>12. ASSUME NEW r \in Reqs, \/ StartSession(r) \/ UpdateSession(r) \/ SplitSession(r) \/ DeleteSession(r)
                              \/ LinkRepo(r) \/ ListProjectRepos(r) \/ UnlinkRepo(r)
       PROVE  MirrorTrue'
  <2>1. /\ projects' = projects /\ feed' = feed /\ past'.untold = past.untold
        /\ (Ends(r) \/ Goes(r, {"relist"}))
    BY <1>12, SessionEffects, LinkEffects
  <2>2. req[r].pc # "emit" /\ \A o \in Reqs \ {r} : req'[o] = req[o]
    BY <2>1, EndsEffect DEF Goes
  <2> QED  BY <2>1, <2>2, MirrorMoves
<1>13. ASSUME NEW k \in Keys, DeleteExpiredIdempotencyKeys(k) PROVE MirrorTrue'
  BY <1>13, ExpireEffect, MirrorSame DEF domain
<1>14. CASE Restart
  <2>1. /\ domain' = domain
        /\ past'.untold = past.untold \cup {req[r].call.p : r \in {q \in Reqs : req[q].pc = "emit"}}
    BY <1>14, RestartEffect
  <2>2. past.untold \subseteq past'.untold
    BY <2>1
  <2>3. \A r \in Reqs : req[r].pc = "emit" => req[r].call.p \in past'.untold
    BY <2>1
  <2> QED  BY <2>1, <2>2, <2>3, MirrorSame DEF domain
<1> QED  BY <1>1, <1>2, <1>3, <1>4, <1>5, <1>6, <1>7, <1>8, <1>9, <1>10, <1>11, <1>12, <1>13, <1>14 DEF Next

\* A client that follows the events has the server's projects, except for what emit's own
\* transaction leaves (projects.go:226-243, 311).
THEOREM EventsMirror == Spec => []MirrorTrue
<1>1. Init => MirrorTrue
  <2> SUFFICES ASSUME Init, NEW p \in ProjectIds PROVE Believed(p, projects[p])
    BY DEF MirrorTrue
  <2>1. DOMAIN feed = {}
    BY DEF Init
  <2>2. projects[p] = IF p = Default THEN [state |-> "live", name |-> DefaultName, archived |-> FALSE]
                      ELSE NoProject
    BY DEF Init
  <2> QED  BY <2>1, <2>2 DEF Believed
<1> QED  BY <1>1, TypeInit, TypeStep, MirrorStep, PTL DEF Spec

=====================================================================================
