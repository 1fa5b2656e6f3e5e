--------------------------- MODULE WorkSessionsProofs ---------------------------
(***************************************************************************)
(* Proofs about WorkSessions, for every set of sessions, workers, commits  *)
(* and runs, and every bound.                                              *)
(***************************************************************************)
EXTENDS WorkSessions, TLAPS

-------------------------------------------------------------------------------
(* Types.                                                                  *)

\* The rows and filings a reconcile produces have the types of the tables.
LEMMA ReconciledType ==
    ASSUME NEW ws, NEW ri, NEW f \in Reconciled(ws, ri)
    PROVE  f \in [Runs -> Places]
  BY DEF Reconciled, AttachCovered

\* Stopping a session keeps its row well typed and gives it an end.
LEMMA StoppedType ==
    ASSUME NEW row \in SessionRow, NEW at \in Nat
    PROVE  /\ Stopped(row, at) \in SessionRow
           /\ Stopped(row, at).endedAt \in Nat
           /\ Stopped(row, at).endedAt # Null
           /\ Stopped(row, at).endedAt > row.startedAt
           /\ Stopped(row, at).endedAt >= at
           /\ Stopped(row, at).startedAt = row.startedAt
           /\ Stopped(row, at).deleted = row.deleted
  BY DEF Stopped, Later, SessionRow, Null

\* A correction keeps the row well typed.
LEMMA CorrectedType ==
    ASSUME NEW row \in SessionRow, NEW r \in Request
    PROVE  Corrected(row, r) \in SessionRow
  BY DEF Corrected, SessionRow, Request

\* The view after a start, and where the new session begins.
LEMMA ReplacedType ==
    ASSUME TypeOK, NEW n \in Sids, NEW at \in Nat
    PROVE  /\ StartAfter(at) \in Nat /\ StartAfter(at) >= at
           /\ Replaced(n, at) \in [Sids -> SessionRow]
<1>1. \A o \in OpenSids : Stopped(sessions[o], at) \in SessionRow
  BY StoppedType DEF OpenSids, TypeOK
<1>2. StartAfter(at) \in Nat /\ StartAfter(at) >= at
  <2>1. CASE \E o \in OpenSids : Stopped(sessions[o], at).endedAt > at
    <3> DEFINE o == CHOOSE o \in OpenSids : Stopped(sessions[o], at).endedAt > at
    <3>1. o \in OpenSids /\ Stopped(sessions[o], at).endedAt > at
      BY <2>1
    <3>2. StartAfter(at) = Stopped(sessions[o], at).endedAt
      BY <2>1 DEF StartAfter
    <3> QED  BY <1>1, <3>1, <3>2 DEF SessionRow
  <2>2. CASE ~\E o \in OpenSids : Stopped(sessions[o], at).endedAt > at
    BY <2>2 DEF StartAfter
  <2> QED  BY <2>1, <2>2
<1>3. Running(StartAfter(at)) \in SessionRow
  BY <1>2 DEF Running, SessionRow, Null
<1>4. \A s \in Sids : Stopped(sessions[s], at) \in SessionRow /\ sessions[s] \in SessionRow
  BY StoppedType DEF TypeOK
<1> QED  BY <1>2, <1>3, <1>4 DEF Replaced

\* A transaction's statements, on a well-typed view, keep the types.
LEMMA ExecuteType ==
    ASSUME TypeOK, NEW w \in Workers, NEW r \in Request, NEW wrote,
           NEW ws \in [Sids -> SessionRow], NEW ri \in [Runs -> Places],
           NEW ci \in [Commits -> Places], Execute(w, r, wrote, ws, ri, ci)
    PROVE  TypeOK'
<1> USE DEF TypeOK
<1>1. draft' \in [Sids -> DraftRow]
  BY DEF Execute, DraftRow
<1>2. draftRun' \in [Runs -> DraftFiling]
  BY DEF Execute, DraftFiling
<1>3. draftCommit' \in [Commits -> DraftFiling]
  BY DEF Execute, DraftFiling
<1>4. req' \in [Workers -> Request]
  BY DEF Execute, Request, Phases
<1> QED  BY <1>1, <1>2, <1>3, <1>4 DEF Execute, tables

LEMMA IdleType == Idle \in Request
  BY DEF Idle, Request, Ops, Phases, Null

\* Answering, failing and accepting a request touch req alone.
LEMMA AnswerType ==
    ASSUME TypeOK, NEW w \in Workers, UNCHANGED <<tables, drafts, scan>>,
           \/ Reply(w)
           \/ \E r \in Request : Checked(w, r)
           \/ \E op \in Ops : FailRaw(w, op)
    PROVE  TypeOK'
<1>1. req' \in [Workers -> Request]
  <2>1. CASE Reply(w)
    BY <2>1, IdleType DEF Reply, TypeOK
  <2>2. CASE \E r \in Request : Checked(w, r)
    BY <2>2 DEF Checked, TypeOK, Request, Phases
  <2>3. CASE \E op \in Ops : FailRaw(w, op)
    <3>1. PICK op \in Ops : FailRaw(w, op)
      BY <2>3
    <3>2. [Idle EXCEPT !.op = op, !.phase = "failed"] \in Request
      BY IdleType DEF Request, Phases
    <3> QED  BY <3>1, <3>2 DEF FailRaw, TypeOK
  <2> QED  BY <2>1, <2>2, <2>3
<1> QED  BY <1>1 DEF TypeOK, tables, drafts

LEMMA NatTimes == /\ \A t \in Times : t \in Nat /\ t # Null
                  /\ Null \in Nat
                  /\ \A t \in 1 .. Now : t \in Nat /\ t # Null
  BY DEF Times, Null

LEMMA InitType == Init => TypeOK
<1> SUFFICES ASSUME Init PROVE TypeOK
  OBVIOUS
<1>1. Absent \in SessionRow
  BY DEF Absent, SessionRow, Null
<1> QED
  BY <1>1, IdleType DEF Init, TypeOK, DraftRow, DraftFiling, Places, NoScan

\* A start's transaction, from a plain start or a recovery.
LEMMA StartTxType ==
    ASSUME TypeOK, NEW w \in Workers, NEW r \in Request, NEW at \in Nat, StartTx(w, r, at)
    PROVE  TypeOK'
<1>1. PICK n \in Sids :
        Execute(w, [r EXCEPT !.sid = n], OpenSids \cup {n}, Replaced(n, at), runIn, commitIn)
  BY DEF StartTx, FreshSids
<1>2. [r EXCEPT !.sid = n] \in Request
  BY DEF Request
<1>3. Replaced(n, at) \in [Sids -> SessionRow]
  BY ReplacedType
<1>4. runIn \in [Runs -> Places] /\ commitIn \in [Commits -> Places]
  BY DEF TypeOK
<1> QED  BY <1>1, <1>2, <1>3, <1>4, ExecuteType

\* A stop's transaction, from a plain stop or a recovery.
LEMMA StopTxType ==
    ASSUME TypeOK, NEW w \in Workers, NEW r \in Request, NEW at \in Nat,
           StopTx(w, r, at)
    PROVE  TypeOK'
<1> DEFINE ws == [sessions EXCEPT ![r.sid] = Stopped(@, at)]
<1>1. PICK ri \in Reconciled(ws, runIn) : Execute(w, r, {r.sid}, ws, ri, commitIn)
  BY DEF StopTx
<1>2. ws \in [Sids -> SessionRow]
  <2>1. \A s \in Sids : Stopped(sessions[s], at) \in SessionRow
    BY StoppedType DEF TypeOK
  <2> QED  BY <2>1 DEF TypeOK
<1>3. ri \in [Runs -> Places]
  BY <1>1, ReconciledType
<1>4. commitIn \in [Commits -> Places]
  BY DEF TypeOK
<1> HIDE DEF ws
<1> QED  BY <1>1, <1>2, <1>3, <1>4, ExecuteType

LEMMA CheckType ==
    ASSUME TypeOK, NEW w \in Workers,
           \/ CheckStop(w) \/ CheckUpdate(w) \/ CheckSplit(w) \/ CheckDelete(w)
           \/ CheckRecover(w) \/ RecoverStopped(w)
    PROVE  TypeOK'
<1>0. UNCHANGED <<tables, drafts, scan>>
  BY DEF CheckStop, CheckUpdate, CheckSplit, CheckDelete, CheckRecover, RecoverStopped
<1>1. CASE CheckStop(w)
  <2>1. PICK s \in Sids, at \in Times :
          Checked(w, [Idle EXCEPT !.op = "stop", !.sid = s, !.at = at])
    BY <1>1 DEF CheckStop
  <2>2. [Idle EXCEPT !.op = "stop", !.sid = s, !.at = at] \in Request
    BY IdleType, NatTimes DEF Request, Ops
  <2> QED  BY <1>0, <2>1, <2>2, AnswerType
<1>2. CASE CheckUpdate(w)
  <2>1. PICK s \in Sids, e \in Edits :
          Checked(w, [Idle EXCEPT !.op = "update", !.sid = s, !.at = e.at,
                                  !.to = e.to, !.setEnded = e.setEnded])
    BY <1>2 DEF CheckUpdate
  <2>2. e.at \in Nat /\ e.to \in Nat /\ e.setEnded \in BOOLEAN
    BY NatTimes, WorkSessionsAssumption
  <2>3. [Idle EXCEPT !.op = "update", !.sid = s, !.at = e.at,
                     !.to = e.to, !.setEnded = e.setEnded] \in Request
    BY <2>2, IdleType DEF Request, Ops
  <2> QED  BY <1>0, <2>1, <2>3, AnswerType
<1>3. CASE CheckSplit(w)
  <2>1. PICK s \in Sids, at \in Times :
          Checked(w, [Idle EXCEPT !.op = "split", !.sid = s, !.at = at,
                                  !.to = sessions[s].endedAt])
    BY <1>3 DEF CheckSplit
  <2>2. sessions[s].endedAt \in Nat
    BY DEF TypeOK, SessionRow
  <2>3. [Idle EXCEPT !.op = "split", !.sid = s, !.at = at,
                     !.to = sessions[s].endedAt] \in Request
    BY <2>2, IdleType, NatTimes DEF Request, Ops
  <2> QED  BY <1>0, <2>1, <2>3, AnswerType
<1>4. CASE CheckDelete(w)
  <2>1. PICK s \in Sids : Checked(w, [Idle EXCEPT !.op = "delete", !.sid = s])
    BY <1>4 DEF CheckDelete
  <2>2. [Idle EXCEPT !.op = "delete", !.sid = s] \in Request
    BY IdleType DEF Request, Ops
  <2> QED  BY <1>0, <2>1, <2>2, AnswerType
<1>5. CASE CheckRecover(w)
  <2>1. PICK c \in Windows :
          Checked(w, [Idle EXCEPT !.op = "recover", !.at = c.from, !.to = c.to])
    BY <1>5 DEF CheckRecover
  <2>2. c.from \in Nat /\ c.to \in Nat
    BY NatTimes, WorkSessionsAssumption
  <2>3. [Idle EXCEPT !.op = "recover", !.at = c.from, !.to = c.to] \in Request
    BY <2>2, IdleType DEF Request, Ops
  <2> QED  BY <1>0, <2>1, <2>3, AnswerType
<1>6. CASE RecoverStopped(w)
  <2>1. req[w] \in Request
    BY DEF TypeOK
  <2>2. [req[w] EXCEPT !.op = "recoverAttach",
                       !.todo = InWindow(sessions[req[w].sid])] \in Request
    BY <2>1 DEF Request, Ops, InWindow
  <2> QED  BY <1>0, <1>6, <2>2, AnswerType DEF RecoverStopped
<1> QED  BY <1>1, <1>2, <1>3, <1>4, <1>5, <1>6

LEMMA UpdateType ==
    ASSUME TypeOK, NEW w \in Workers, UpdateSession(w)
    PROVE  TypeOK'
<1> DEFINE s  == req[w].sid
           ws == [sessions EXCEPT ![s] = Corrected(sessions[s], req[w])]
<1>1. PICK ri \in Reconciled(ws, runIn) : Execute(w, req[w], {s}, ws, ri, commitIn)
  BY DEF UpdateSession
<1>2. req[w] \in Request /\ commitIn \in [Commits -> Places]
  BY DEF TypeOK
<1>3. ws \in [Sids -> SessionRow]
  BY <1>2, CorrectedType DEF TypeOK
<1>4. ri \in [Runs -> Places]
  BY <1>1, ReconciledType
<1> HIDE DEF ws, s
<1> QED  BY <1>1, <1>2, <1>3, <1>4, ExecuteType

LEMMA SplitType ==
    ASSUME TypeOK, NEW w \in Workers, SplitSession(w)
    PROVE  TypeOK'
<1>1. PICK n \in FreshSids :
        LET s     == req[w].sid
            at    == req[w].at
            left  == [sessions[s] EXCEPT !.endedAt = at]
            right == [Running(at) EXCEPT !.endedAt = req[w].to]
            born  == [sessions EXCEPT ![s] = left, ![n] = Running(at)]
            ws    == [born EXCEPT ![n] = right]
        IN  \E ri \in Reconciled(ws, runIn) :
                Execute(w, req[w], {s, n}, ws, ri, Refiled(s, n, at))
  BY DEF SplitSession
<1> DEFINE s     == req[w].sid
           at    == req[w].at
           left  == [sessions[s] EXCEPT !.endedAt = at]
           right == [Running(at) EXCEPT !.endedAt = req[w].to]
           born  == [sessions EXCEPT ![s] = left, ![n] = Running(at)]
           ws    == [born EXCEPT ![n] = right]
<1>2. PICK ri \in Reconciled(ws, runIn) : Execute(w, req[w], {s, n}, ws, ri, Refiled(s, n, at))
  BY <1>1
<1>3. req[w] \in Request /\ at \in Nat /\ req[w].to \in Nat
  BY DEF TypeOK, Request
<1>4. right \in SessionRow
  BY <1>3 DEF Running, SessionRow
<1>5. \A t \in Sids : t = s => left \in SessionRow
  BY <1>3 DEF TypeOK, SessionRow
<1>6. ws \in [Sids -> SessionRow]
  BY <1>4, <1>5 DEF TypeOK
<1>7. ri \in [Runs -> Places]
  BY <1>2, ReconciledType
<1>8. Refiled(s, n, at) \in [Commits -> Places]
  BY DEF Refiled, TypeOK, Places, FreshSids
<1> HIDE DEF ws, s, at
<1> QED  BY <1>2, <1>3, <1>6, <1>7, <1>8, ExecuteType

LEMMA DeleteType ==
    ASSUME TypeOK, NEW w \in Workers, DeleteSession(w)
    PROVE  TypeOK'
<1> DEFINE s  == req[w].sid
           ws == [sessions EXCEPT ![s].deleted = TRUE]
<1>1. Execute(w, req[w], {s}, ws, Released(runIn, s), Released(commitIn, s))
  BY DEF DeleteSession
<1>2. ws \in [Sids -> SessionRow]
  BY DEF TypeOK, SessionRow
<1>3. Released(runIn, s) \in [Runs -> Places] /\ Released(commitIn, s) \in [Commits -> Places]
  BY DEF Released, TypeOK, Places
<1>4. req[w] \in Request
  BY DEF TypeOK
<1> HIDE DEF ws, s
<1> QED  BY <1>1, <1>2, <1>3, <1>4, ExecuteType

LEMMA ReconcilingType ==
    ASSUME TypeOK, NEW w \in Workers, RecordAgentRuns(w) \/ RecoverReconcile(w)
    PROVE  TypeOK'
<1>1. PICK r \in Request, ri \in [Runs -> Places] : Execute(w, r, {}, sessions, ri, commitIn)
  <2>1. CASE RecordAgentRuns(w)
    <3>1. [Idle EXCEPT !.op = "record"] \in Request
      BY IdleType DEF Request, Ops
    <3> QED  BY <2>1, <3>1, ReconciledType DEF RecordAgentRuns
  <2>2. CASE RecoverReconcile(w)
    BY <2>2, ReconciledType DEF RecoverReconcile, TypeOK
  <2> QED  BY <2>1, <2>2
<1>2. sessions \in [Sids -> SessionRow] /\ commitIn \in [Commits -> Places]
  BY DEF TypeOK
<1> QED  BY <1>1, <1>2, ExecuteType

LEMMA UnlockType ==
    ASSUME TypeOK, NEW w, Unlock(w)
    PROVE  /\ draft' \in [Sids -> DraftRow]
           /\ draftRun' \in [Runs -> DraftFiling]
           /\ draftCommit' \in [Commits -> DraftFiling]
           /\ lone' \in Workers \cup {Nobody}
<1>1. [by |-> Nobody, row |-> Absent] \in DraftRow
  BY DEF DraftRow, Absent, SessionRow, Null
<1>2. [by |-> Nobody, in |-> Unknown] \in DraftFiling
  BY DEF DraftFiling, Places
<1> QED  BY <1>1, <1>2 DEF Unlock, TypeOK

LEMMA CommitType ==
    ASSUME TypeOK, NEW w \in Workers, Commit(w)
    PROVE  TypeOK'
<1>1. sessions' \in [Sids -> SessionRow]
  BY DEF Commit, Publish, TypeOK, DraftRow
<1>2. runIn' \in [Runs -> Places] /\ commitIn' \in [Commits -> Places]
  BY DEF Commit, Publish, TypeOK, DraftFiling
<1>3. req' \in [Workers -> Request]
  <2>1. req[w] \in Request /\ req \in [Workers -> Request]
    BY DEF TypeOK
  <2>2. CASE req[w].op = "recover"
    <3>1. [[req[w] EXCEPT !.op = "recoverStop"] EXCEPT !.phase = "checked"] \in Request
      BY <2>1 DEF Request, Ops, Phases
    <3> QED  BY <2>1, <2>2, <3>1 DEF Commit, Continue, Checked
  <2>3. CASE req[w].op = "recoverStop"
    <3> DEFINE todo == InWindow(draft[req[w].sid].row)
    <3>1. todo \in SUBSET Commits
      BY DEF InWindow
    <3>2. [[req[w] EXCEPT !.op = "recoverAttach", !.todo = todo] EXCEPT !.phase = "checked"]
            \in Request
      BY <2>1, <3>1 DEF Request, Ops, Phases
    <3> QED  BY <2>1, <2>3, <3>2 DEF Commit, Continue, Checked
  <2>4. CASE req[w].op \notin {"recover", "recoverStop"}
    BY <2>1, <2>4, IdleType DEF Commit, Continue, Reply
  <2> QED  BY <2>2, <2>3, <2>4
<1>4. Unlock(w) /\ UNCHANGED scan /\ settled' \in BOOLEAN
  BY DEF Commit
<1> QED  BY <1>1, <1>2, <1>3, <1>4, UnlockType DEF TypeOK

LEMMA AttachType ==
    ASSUME TypeOK, NEW c \in Commits, NEW s \in Places, Attach(c, s)
    PROVE  commitIn' \in [Commits -> Places]
  BY DEF Attach, TypeOK

\* A request that works on a session names one, from its check to its end; a split cuts
\* before the end it read, and a recovery has a start.
Named(r) ==
    /\ \/ /\ r.phase \in {"checked", "executed"}
          /\ r.op \in {"stop", "update", "split", "delete", "recoverStop", "recoverAttach"}
       \/ r.phase = "executed" /\ r.op \in {"start", "recover"}
       => r.sid \in Sids
    /\ r.phase \in {"checked", "executed"} /\ r.op = "split"
       => r.at # Null /\ r.at < r.to
    /\ r.phase = "checked" /\ r.op = "recover" => r.at # Null

RequestsNamed == \A w \in Workers : Named(req[w])

\* What one step of worker w does to its request.
LEMMA ReqNamed ==
    ASSUME TypeOK, RequestsNamed, NEW w \in Workers, NEW r, Named(r),
           req' = [req EXCEPT ![w] = r]
    PROVE  RequestsNamed'
  BY DEF TypeOK, RequestsNamed, Named

LEMMA IdleNamed ==
    /\ Named(Idle)
    /\ \A op \in Ops : Named([Idle EXCEPT !.op = op, !.phase = "failed"])
  BY DEF Named, Idle

LEMMA StepNamed ==
    ASSUME TypeOK, RequestsNamed, NEW w \in Workers, Handler(w)
    PROVE  \E r : Named(r) /\ req' = [req EXCEPT ![w] = r]
<1> USE DEF Execute, Checked, Reply, FailRaw, Ready
<1>0. /\ req[w] \in Request /\ Named(req[w])
      /\ Idle.op = "none"
  BY DEF TypeOK, RequestsNamed, Idle
<1>1. CASE \/ StartRejected(w) \/ StopNotFound(w) \/ UpdateNotFound(w) \/ UpdateRejected(w)
           \/ SplitRejected(w) \/ DeleteNotFound(w) \/ RecoverNotFound(w) \/ Abandon(w)
  BY <1>1, IdleNamed DEF StartRejected, StopNotFound, UpdateNotFound, UpdateRejected, Ops,
     SplitRejected, DeleteNotFound, RecoverNotFound, Abandon
<1>2. CASE StartSession(w) \/ RecoverStart(w)
  <2>1. PICK r \in Request, n \in Sids :
          /\ r.op \in {"start", "recover"}
          /\ req' = [req EXCEPT ![w] = [[r EXCEPT !.sid = n] EXCEPT !.phase = "executed"]]
    <3>1. [Idle EXCEPT !.op = "start"] \in Request
      BY IdleType DEF Request, Ops
    <3>2. [Idle EXCEPT !.op = "start"].op = "start"
      BY DEF Idle
    <3> QED  BY <1>0, <1>2, <3>1, <3>2, ZenonT(40) DEF StartSession, RecoverStart, StartTx, FreshSids
  <2> DEFINE x == [[r EXCEPT !.sid = n] EXCEPT !.phase = "executed"]
  <2>2. x.sid = n /\ x.op = r.op /\ x.phase = "executed"
    BY DEF Request
  <2> HIDE DEF x
  <2>3. Named(x)
    BY <2>1, <2>2 DEF Named
  <2> QED  BY <2>1, <2>3 DEF x
<1>3. CASE StopSession(w) \/ RecoverStop(w) \/ UpdateSession(w) \/ SplitSession(w)
           \/ DeleteSession(w) \/ RecoverReconcile(w)
  <2>1. req' = [req EXCEPT ![w] = [req[w] EXCEPT !.phase = "executed"]]
    BY <1>3, ZenonT(40) DEF StopSession, RecoverStop, StopTx, UpdateSession, SplitSession, DeleteSession,
       RecoverReconcile
  <2>2. req[w].phase = "checked" /\
        req[w].op \in {"stop", "update", "split", "delete", "recoverStop", "recoverAttach"}
    BY <1>3 DEF StopSession, RecoverStop, UpdateSession, SplitSession, DeleteSession,
       RecoverReconcile
  <2>3. Named([req[w] EXCEPT !.phase = "executed"])
    BY <1>0, <2>2 DEF Named, Request
  <2> QED  BY <2>1, <2>3, ZenonT(40)
<1>4. CASE RecordAgentRuns(w)
  <2>1. Named([[Idle EXCEPT !.op = "record"] EXCEPT !.phase = "executed"])
    BY DEF Named, Idle
  <2> QED  BY <1>4, <2>1 DEF RecordAgentRuns
<1>5. CASE CheckStop(w)
  <2>1. PICK s \in Sids, at \in Times :
          req' = [req EXCEPT ![w] = [[Idle EXCEPT !.op = "stop", !.sid = s, !.at = at]
                                     EXCEPT !.phase = "checked"]]
    BY <1>5 DEF CheckStop
  <2> QED  BY <2>1 DEF Named, Idle
<1>6. CASE CheckUpdate(w)
  <2>1. PICK s \in Sids, e \in Edits :
          req' = [req EXCEPT ![w] = [[Idle EXCEPT !.op = "update", !.sid = s, !.at = e.at,
                                        !.to = e.to, !.setEnded = e.setEnded]
                                     EXCEPT !.phase = "checked"]]
    BY <1>6 DEF CheckUpdate
  <2> QED  BY <2>1 DEF Named, Idle
<1>7. CASE CheckSplit(w)
  <2>1. PICK s \in Sids, at \in Times :
          /\ req' = [req EXCEPT ![w] = [[Idle EXCEPT !.op = "split", !.sid = s, !.at = at,
                                        !.to = sessions[s].endedAt]
                                     EXCEPT !.phase = "checked"]]
          /\ at < sessions[s].endedAt
    BY <1>7 DEF CheckSplit
  <2> QED  BY <2>1, NatTimes DEF Named, Idle
<1>8. CASE CheckDelete(w)
  <2>1. PICK s \in Sids :
          req' = [req EXCEPT ![w] = [[Idle EXCEPT !.op = "delete", !.sid = s]
                                     EXCEPT !.phase = "checked"]]
    BY <1>8 DEF CheckDelete
  <2> QED  BY <2>1 DEF Named, Idle
<1>9. CASE CheckRecover(w)
  <2>1. PICK c \in Windows :
          req' = [req EXCEPT ![w] = [[Idle EXCEPT !.op = "recover", !.at = c.from, !.to = c.to]
                                     EXCEPT !.phase = "checked"]]
    BY <1>9 DEF CheckRecover
  <2>2. c.from # Null
    BY NatTimes, WorkSessionsAssumption
  <2> QED  BY <2>1, <2>2 DEF Named, Idle
<1>10. CASE RecoverStopped(w)
  <2> DEFINE todo == InWindow(sessions[req[w].sid])
             r    == [[req[w] EXCEPT !.op = "recoverAttach", !.todo = todo]
                      EXCEPT !.phase = "checked"]
  <2>1. req' = [req EXCEPT ![w] = r]
    BY <1>10 DEF RecoverStopped
  <2>2. r.sid = req[w].sid /\ req[w].sid \in Sids
    BY <1>0, <1>10 DEF RecoverStopped, Named, Request
  <2>3. Named(r)
    BY <2>2 DEF Named
  <2> QED  BY <2>1, <2>3
<1>11. CASE RecoverAttach(w)
  <2>1. PICK c \in Commits :
          req' = [req EXCEPT ![w] = [[req[w] EXCEPT !.todo = @ \ {c}] EXCEPT !.phase = "checked"]]
    BY <1>0, <1>11 DEF RecoverAttach, Request
  <2> QED  BY <1>0, <1>11, <2>1 DEF RecoverAttach, Named, Request
<1>12. CASE Commit(w)
  <2>1. CASE req[w].op \notin {"recover", "recoverStop"}
    BY <1>12, <2>1, IdleNamed DEF Commit, Continue
  <2>2. CASE req[w].op = "recover"
    <3> DEFINE r == [[req[w] EXCEPT !.op = "recoverStop"] EXCEPT !.phase = "checked"]
    <3>1. r.op = "recoverStop" /\ r.sid = req[w].sid /\ req[w].sid \in Sids
      BY <1>0, <1>12, <2>2 DEF Commit, Named, Request
    <3>2. req' = [req EXCEPT ![w] = r]
      BY <1>12, <2>2 DEF Commit, Continue
    <3> HIDE DEF r
    <3>3. Named(r)
      BY <3>1 DEF Named
    <3> QED  BY <3>2, <3>3
  <2>3. CASE req[w].op = "recoverStop"
    <3> DEFINE todo == InWindow(draft[req[w].sid].row)
               r    == [[req[w] EXCEPT !.op = "recoverAttach", !.todo = todo]
                        EXCEPT !.phase = "checked"]
    <3>1. r.op = "recoverAttach" /\ r.sid = req[w].sid /\ req[w].sid \in Sids
      BY <1>0, <1>12, <2>3 DEF Commit, Named, Request
    <3>2. req' = [req EXCEPT ![w] = r]
      BY <1>12, <2>3 DEF Commit, Continue
    <3> HIDE DEF r
    <3>3. Named(r)
      BY <3>1 DEF Named
    <3> QED  BY <3>2, <3>3
  <2> QED  BY <2>1, <2>2, <2>3
<1> QED
  BY <1>1, <1>2, <1>3, <1>4, <1>5, <1>6, <1>7, <1>8, <1>9, <1>10, <1>11, <1>12 DEF Handler

LEMMA StepType ==
    ASSUME TypeOK, RequestsNamed, [Next]_vars
    PROVE  TypeOK' /\ RequestsNamed'
<1>1. ASSUME NEW w \in Workers, Handler(w)
      PROVE  TypeOK' /\ RequestsNamed'
  <2>1. RequestsNamed'
    BY <1>1, StepNamed, ReqNamed
  <2>2. CASE StartSession(w) \/ RecoverStart(w)
    <3>1. PICK r \in Request, at \in Nat : StartTx(w, r, at)
      <4>1. CASE StartSession(w)
        <5>1. [Idle EXCEPT !.op = "start"] \in Request
          BY IdleType DEF Request, Ops
        <5> QED  BY <4>1, <5>1, NatTimes DEF StartSession
      <4>2. CASE RecoverStart(w)
        <5>1. req[w] \in Request /\ req[w].at \in Nat
          BY DEF TypeOK, Request
        <5> QED  BY <4>2, <5>1 DEF RecoverStart
      <4> QED  BY <2>2, <4>1, <4>2
    <3> QED  BY <2>1, <3>1, StartTxType
  <2>3. CASE StopSession(w) \/ RecoverStop(w)
    <3>1. req[w] \in Request /\ req[w].at \in Nat /\ req[w].to \in Nat
      BY DEF TypeOK, Request
    <3>2. PICK at \in Nat : StopTx(w, req[w], at)
      BY <2>3, <3>1 DEF StopSession, RecoverStop
    <3> QED  BY <2>1, <3>1, <3>2, StopTxType
  <2>4. CASE \/ StartRejected(w) \/ StopNotFound(w) \/ UpdateNotFound(w) \/ UpdateRejected(w)
             \/ SplitRejected(w) \/ DeleteNotFound(w) \/ RecoverNotFound(w)
    <3>1. UNCHANGED <<tables, drafts, scan>> /\ (Reply(w) \/ \E op \in Ops : FailRaw(w, op))
      BY <2>4 DEF StartRejected, StopNotFound, UpdateNotFound, UpdateRejected, SplitRejected,
         DeleteNotFound, RecoverNotFound, FailRaw, Ops
    <3> QED  BY <2>1, <3>1, AnswerType
  <2>5. CASE \/ CheckStop(w) \/ CheckUpdate(w) \/ CheckSplit(w) \/ CheckDelete(w)
             \/ CheckRecover(w) \/ RecoverStopped(w)
    BY <2>1, <2>5, CheckType
  <2>6. CASE UpdateSession(w)
    BY <2>1, <2>6, UpdateType
  <2>7. CASE SplitSession(w)
    BY <2>1, <2>7, SplitType
  <2>8. CASE DeleteSession(w)
    BY <2>1, <2>8, DeleteType
  <2>9. CASE RecordAgentRuns(w) \/ RecoverReconcile(w)
    BY <2>1, <2>9, ReconcilingType
  <2>10. CASE RecoverAttach(w)
    <3>1. PICK c \in Commits :
            /\ Attach(c, req[w].sid)
            /\ Checked(w, [req[w] EXCEPT !.todo = @ \ {c}])
      BY <2>10 DEF RecoverAttach, TypeOK, Request
    <3>2. req[w].sid \in Places
      BY <2>10 DEF RecoverAttach, Ready, RequestsNamed, Named, Places
    <3>3. commitIn' \in [Commits -> Places]
      BY <3>1, <3>2, AttachType
    <3>4. [[req[w] EXCEPT !.todo = @ \ {c}] EXCEPT !.phase = "checked"] \in Request
      BY DEF TypeOK, Request, Phases
    <3>5. req' \in [Workers -> Request]
      BY <3>1, <3>4 DEF Checked, TypeOK
    <3> QED  BY <2>1, <2>10, <3>3, <3>5 DEF RecoverAttach, TypeOK, drafts
  <2>11. CASE Commit(w)
    BY <2>1, <2>11, CommitType
  <2>12. CASE Abandon(w)
    <3>1. req' \in [Workers -> Request]
      BY <2>12, IdleType DEF Abandon, Reply, TypeOK
    <3>2. Unlock(w) /\ UNCHANGED <<tables, settled, scan>>
      BY <2>12 DEF Abandon
    <3> QED  BY <2>1, <3>1, <3>2, UnlockType DEF TypeOK, tables
  <2> QED
    BY <1>1, <2>2, <2>3, <2>4, <2>5, <2>6, <2>7, <2>8, <2>9, <2>10, <2>11, <2>12 DEF Handler
<1>2. ASSUME Scanner
      PROVE  TypeOK' /\ RequestsNamed'
  <2>1. UNCHANGED <<sessions, runIn, drafts, req>>
    BY <1>2 DEF Scanner, UpsertCommit, SessionCovering, AttachCommitToSession, drafts, tables
  <2>2. commitIn' \in [Commits -> Places] /\ scan' \in [commit : Commits, sid : Sids] \cup {NoScan}
    <3>1. CASE \E c \in Commits : UpsertCommit(c)
      BY <3>1 DEF UpsertCommit, TypeOK, Places
    <3>2. CASE \E c \in Commits : SessionCovering(c)
      BY <3>2 DEF SessionCovering, TypeOK, tables
    <3>3. CASE AttachCommitToSession
      <4>1. scan.commit \in Commits /\ scan.sid \in Places
        BY <3>3 DEF AttachCommitToSession, TypeOK, Places
      <4> QED  BY <3>3, <4>1, AttachType DEF AttachCommitToSession
    <3> QED  BY <1>2, <3>1, <3>2, <3>3 DEF Scanner
  <2> QED  BY <2>1, <2>2 DEF TypeOK, RequestsNamed, drafts
<1>3. CASE UNCHANGED vars
  BY <1>3 DEF vars, tables, drafts, TypeOK, RequestsNamed
<1> QED  BY <1>1, <1>2, <1>3 DEF Next

\* Every variable of WorkSessions keeps its type, and a request that works on a session
\* names one, whatever the interleaving of handlers, transactions and scanner.
THEOREM TypeCorrect == Spec => [](TypeOK /\ RequestsNamed)
<1>1. Init => TypeOK /\ RequestsNamed
  BY InitType, IdleNamed DEF Init, RequestsNamed
<1>2. (TypeOK /\ RequestsNamed) /\ [Next]_vars => (TypeOK /\ RequestsNamed)'
  BY StepType
<1> QED  BY <1>1, <1>2, PTL DEF Spec

-------------------------------------------------------------------------------
(* One timer at a time.                                                    *)

DraftOpen(s) == draft[s].by # Nobody /\ IsOpen(draft[s].row)

\* Locked rows belong to transactions that are open.
Locks == \A s \in Sids : draft[s].by # Nobody => req[draft[s].by].phase = "executed"

\* AtMostOneOpen is not inductive: a commit could publish a second open row.  It does not
\* because at most one uncommitted row is open, and the transaction that holds it also
\* holds whatever committed row is open.
OneTimer ==
    /\ AtMostOneOpen
    /\ \A s, t \in Sids : DraftOpen(s) /\ DraftOpen(t) => s = t
    /\ \A s, t \in Sids : s # t /\ DraftOpen(s) /\ IsOpen(sessions[t])
                         => draft[t].by = draft[s].by

LEMMA ExecuteOneTimer ==
    ASSUME TypeOK, Locks, OneTimer, NEW w \in Workers, NEW r, NEW wrote \in SUBSET Sids,
           NEW ws, NEW ri, NEW ci, Execute(w, r, wrote, ws, ri, ci),
           req[w].phase # "executed",
           \A t \in Sids \ wrote : ws[t] = sessions[t],
           \A t \in wrote : IsOpen(ws[t]) => IndexAllows(t, ws)
    PROVE  Locks' /\ OneTimer'
<1>1. /\ sessions' = sessions
      /\ \A s \in wrote : draft'[s].by = w /\ draft'[s].row = ws[s] /\ draft[s].by = Nobody
      /\ \A s \in Sids \ wrote : draft'[s] = draft[s]
  BY DEF Execute, tables, Unlocked
<1>2. w # Nobody
  BY WorkSessionsAssumption
<1>3. \A s \in Sids : DraftOpen(s)' <=> (s \in wrote /\ IsOpen(ws[s])) \/ (s \notin wrote /\ DraftOpen(s))
  <2> SUFFICES ASSUME NEW s \in Sids
               PROVE  DraftOpen(s)' <=> (s \in wrote /\ IsOpen(ws[s])) \/ (s \notin wrote /\ DraftOpen(s))
    OBVIOUS
  <2>1. CASE s \in wrote
    <3>1. draft'[s].by # Nobody /\ draft'[s].row = ws[s]
      BY <1>1, <1>2, <2>1
    <3> QED  BY <2>1, <3>1 DEF DraftOpen, IsOpen, IsLive
  <2>2. CASE s \notin wrote
    <3>1. draft'[s] = draft[s]
      BY <1>1, <2>2
    <3> QED  BY <2>2, <3>1 DEF DraftOpen, IsOpen, IsLive
  <2> QED  BY <2>1, <2>2
<1>4. \A s \in wrote, t \in Sids :
        s # t /\ IsOpen(ws[s]) => ~IsOpen(ws[t]) /\ (DraftOpen(t) => IsOpen(sessions[t]))
  BY DEF IndexAllows, OpenElsewhere, OpenUncommitted, DraftOpen, Unlocked
<1>5. Locks'
  <2>1. \A u \in Workers : u # w => req'[u] = req[u]
    BY DEF Execute, TypeOK
  <2>2. req'[w].phase = "executed"
    BY DEF Execute, TypeOK
  <2>3. \A s \in Sids : draft[s].by # Nobody => draft[s].by # w /\ draft[s].by \in Workers
    BY DEF Locks, TypeOK, DraftRow
  <2> QED  BY <1>1, <2>1, <2>2, <2>3 DEF Locks
<1>6. AtMostOneOpen'
  BY <1>1 DEF OneTimer, AtMostOneOpen
<1>7. ASSUME NEW s \in Sids, NEW t \in Sids, DraftOpen(s)', DraftOpen(t)'
      PROVE  s = t
  BY <1>3, <1>4, <1>7 DEF OneTimer
<1>8. ASSUME NEW s \in Sids, NEW t \in Sids, s # t, DraftOpen(s)', IsOpen(sessions[t])
      PROVE  draft'[t].by = draft'[s].by
  <2>1. CASE s \in wrote
    <3>1. t \in wrote
      BY <1>3, <1>4, <1>8, <2>1
    <3> QED  BY <1>1, <2>1, <3>1
  <2>2. CASE s \notin wrote
    <3>1. DraftOpen(s) /\ draft[t].by = draft[s].by /\ draft[s].by # Nobody
      BY <1>3, <1>8, <2>2 DEF OneTimer, DraftOpen
    <3>2. t \notin wrote
      BY <1>1, <3>1
    <3> QED  BY <1>1, <2>2, <3>1, <3>2
  <2> QED  BY <2>1, <2>2
<1> QED  BY <1>1, <1>5, <1>6, <1>7, <1>8 DEF OneTimer

LEMMA EndOneTimer ==
    ASSUME TypeOK, Locks, OneTimer, NEW w \in Workers, Commit(w) \/ Abandon(w)
    PROVE  Locks' /\ OneTimer'
<1>0. w # Nobody
  BY WorkSessionsAssumption
<1>1. \A s \in Sids : IF draft[s].by = w THEN draft'[s].by = Nobody ELSE draft'[s] = draft[s]
  BY DEF Commit, Abandon, Unlock
<1>2. \A u \in Workers : u # w => req'[u] = req[u]
  BY DEF Commit, Abandon, Continue, Checked, Reply, TypeOK
<1>3. Locks'
  BY <1>1, <1>2 DEF Locks, TypeOK, DraftRow
<1>4. \A s \in Sids : DraftOpen(s)' <=> DraftOpen(s) /\ draft[s].by # w
  BY <1>1 DEF DraftOpen
<1>5. Commit(w) => \A s \in Sids : IF draft[s].by = w THEN sessions'[s] = draft[s].row
                                                       ELSE sessions'[s] = sessions[s]
  BY DEF Commit, Publish
<1>6. CASE Abandon(w)
  <2>1. sessions' = sessions
    BY <1>6 DEF Abandon, tables
  <2>2. ASSUME NEW s \in Sids, NEW t \in Sids, s # t, DraftOpen(s)', IsOpen(sessions[t])
        PROVE  draft'[t].by = draft'[s].by
    BY <1>1, <1>4, <2>2 DEF OneTimer
  <2> QED  BY <1>3, <1>4, <2>1, <2>2 DEF OneTimer, AtMostOneOpen
<1>7. CASE Commit(w)
  <2>1. \A s \in Sids : IsOpen(sessions'[s]) =>
          (draft[s].by = w /\ DraftOpen(s)) \/ (draft[s].by # w /\ IsOpen(sessions[s]))
    BY <1>0, <1>5, <1>7 DEF DraftOpen, IsOpen, IsLive
  <2>2. AtMostOneOpen'
    <3> SUFFICES ASSUME NEW s \in Sids, NEW t \in Sids,
                        IsOpen(sessions'[s]), IsOpen(sessions'[t]), s # t
                 PROVE  FALSE
      BY DEF AtMostOneOpen
    <3> QED  BY <2>1 DEF OneTimer, AtMostOneOpen
  <2>3. ASSUME NEW s \in Sids, NEW t \in Sids, s # t, DraftOpen(s)', IsOpen(sessions'[t])
        PROVE  draft'[t].by = draft'[s].by
    <3>1. DraftOpen(s) /\ draft[s].by # w
      BY <1>4, <2>3
    <3>2. draft[t].by # w /\ IsOpen(sessions[t])
      BY <2>1, <2>3, <3>1 DEF OneTimer
    <3> QED  BY <1>1, <2>3, <3>1, <3>2 DEF OneTimer
  <2> QED  BY <1>3, <1>4, <2>2, <2>3 DEF OneTimer
<1> QED  BY <1>6, <1>7

LEMMA QuietOneTimer ==
    ASSUME TypeOK, Locks, OneTimer, NEW w \in Workers, req[w].phase # "executed",
           sessions' = sessions, draft' = draft, \A u \in Workers : u # w => req'[u] = req[u]
    PROVE  Locks' /\ OneTimer'
<1>1. Locks'
  BY DEF Locks, TypeOK, DraftRow
<1> QED  BY <1>1 DEF OneTimer, AtMostOneOpen, DraftOpen

LEMMA StartOneTimer ==
    ASSUME TypeOK, Locks, OneTimer, NEW w \in Workers, req[w].phase # "executed",
           NEW r, NEW at \in Nat, StartTx(w, r, at)
    PROVE  Locks' /\ OneTimer'
<1>1. PICK n \in Sids :
        /\ IndexAllows(n, Replaced(n, at))
        /\ Execute(w, [r EXCEPT !.sid = n], OpenSids \cup {n}, Replaced(n, at), runIn, commitIn)
  BY DEF StartTx, FreshSids
<1> DEFINE ws == Replaced(n, at)
<1>2. \A t \in Sids \ (OpenSids \cup {n}) : ws[t] = sessions[t]
  BY DEF Replaced, OpenSids
<1>3. \A t \in OpenSids \cup {n} : IsOpen(ws[t]) => IndexAllows(t, ws)
  <2>1. \A t \in OpenSids : t # n => ws[t].endedAt # Null
    BY StoppedType DEF Replaced, OpenSids, TypeOK
  <2> QED  BY <1>1, <2>1 DEF IsOpen
<1>4. OpenSids \cup {n} \in SUBSET Sids
  BY DEF OpenSids
<1> HIDE DEF ws
<1> QED  BY <1>1, <1>2, <1>3, <1>4, ExecuteOneTimer DEF ws

LEMMA StopOneTimer ==
    ASSUME TypeOK, Locks, OneTimer, NEW w \in Workers, req[w].phase # "executed",
           NEW r, r.sid \in Sids, NEW at \in Nat, StopTx(w, r, at)
    PROVE  Locks' /\ OneTimer'
<1> DEFINE s  == r.sid
           ws == [sessions EXCEPT ![s] = Stopped(@, at)]
<1>1. PICK ri : Execute(w, r, {s}, ws, ri, commitIn)
  BY DEF StopTx
<1>2. \A t \in Sids \ {s} : ws[t] = sessions[t]
  BY DEF TypeOK
<1>3. ws[s].endedAt # Null
  BY StoppedType DEF TypeOK
<1>4. \A t \in {s} : IsOpen(ws[t]) => IndexAllows(t, ws)
  BY <1>3 DEF IsOpen
<1> HIDE DEF ws, s
<1>5. {s} \in SUBSET Sids
  BY DEF s
<1> QED  BY <1>1, <1>2, <1>4, <1>5, ExecuteOneTimer

LEMMA UpdateOneTimer ==
    ASSUME TypeOK, RequestsNamed, Locks, OneTimer, NEW w \in Workers, UpdateSession(w)
    PROVE  Locks' /\ OneTimer'
<1> DEFINE s  == req[w].sid
           ws == [sessions EXCEPT ![s] = Corrected(sessions[s], req[w])]
<1>1. PICK ri : Execute(w, req[w], {s}, ws, ri, commitIn)
  BY DEF UpdateSession
<1>2. s \in Sids /\ req[w].phase # "executed"
  BY DEF UpdateSession, Ready, RequestsNamed, Named
<1>3. \A t \in Sids \ {s} : ws[t] = sessions[t]
  BY DEF TypeOK
<1>4. \A t \in {s} : IsOpen(ws[t]) => IndexAllows(t, ws)
  BY <1>2 DEF UpdateSession, TypeOK
<1> HIDE DEF ws, s
<1>5. {s} \in SUBSET Sids
  BY <1>2
<1> QED  BY <1>1, <1>2, <1>3, <1>4, <1>5, ExecuteOneTimer

LEMMA SplitOneTimer ==
    ASSUME TypeOK, RequestsNamed, Locks, OneTimer, NEW w \in Workers, SplitSession(w)
    PROVE  Locks' /\ OneTimer'
<1> DEFINE s     == req[w].sid
           at    == req[w].at
           left  == [sessions[s] EXCEPT !.endedAt = at]
           right(n) == [Running(at) EXCEPT !.endedAt = req[w].to]
           born(n)  == [sessions EXCEPT ![s] = left, ![n] = Running(at)]
           ws(n)    == [born(n) EXCEPT ![n] = right(n)]
<1>0. PICK n \in FreshSids : \E ri :
        Execute(w, req[w], {s, n}, ws(n), ri, Refiled(s, n, at)) /\ IsLive(sessions[s])
  BY DEF SplitSession
<1>1. PICK ri :
        Execute(w, req[w], {s, n}, ws(n), ri, Refiled(s, n, at)) /\ IsLive(sessions[s])
  BY <1>0
<1>2. /\ s \in Sids /\ req[w].phase # "executed" /\ n \in Sids
      /\ req[w] \in Request /\ at # Null /\ at < req[w].to
  BY DEF SplitSession, Ready, RequestsNamed, Named, FreshSids, TypeOK
<1>3. req[w].to # Null
  BY <1>2 DEF Request, Null
<1>4. s # n
  BY <1>1 DEF FreshSids, IsLive, Absent
<1>5. \A t \in Sids \ {s, n} : ws(n)[t] = sessions[t]
  BY DEF TypeOK
<1>6. ws(n)[s].endedAt # Null /\ ws(n)[n].endedAt # Null
  BY <1>2, <1>3, <1>4 DEF TypeOK, SessionRow, Running
<1>7. \A t \in {s, n} : IsOpen(ws(n)[t]) => IndexAllows(t, ws(n))
  BY <1>6 DEF IsOpen
<1>8. {s, n} \in SUBSET Sids
  BY <1>2
<1> HIDE DEF ws, s
<1> QED  BY <1>1, <1>2, <1>5, <1>7, <1>8, ExecuteOneTimer

LEMMA DeleteOneTimer ==
    ASSUME TypeOK, RequestsNamed, Locks, OneTimer, NEW w \in Workers, DeleteSession(w)
    PROVE  Locks' /\ OneTimer'
<1> DEFINE s  == req[w].sid
           ws == [sessions EXCEPT ![s].deleted = TRUE]
<1>1. Execute(w, req[w], {s}, ws, Released(runIn, s), Released(commitIn, s))
  BY DEF DeleteSession
<1>2. s \in Sids /\ req[w].phase # "executed"
  BY DEF DeleteSession, Ready, RequestsNamed, Named
<1>3. \A t \in Sids \ {s} : ws[t] = sessions[t]
  BY DEF TypeOK
<1>4. \A t \in {s} : IsOpen(ws[t]) => IndexAllows(t, ws)
  BY <1>2 DEF TypeOK, SessionRow, IsOpen, IsLive
<1> HIDE DEF ws, s
<1>5. {s} \in SUBSET Sids
  BY <1>2
<1> QED  BY <1>1, <1>2, <1>3, <1>4, <1>5, ExecuteOneTimer

\* The steps that touch neither the session table nor its drafts.
Quiet(w) ==
    \/ StartRejected(w) \/ CheckStop(w) \/ StopNotFound(w) \/ CheckUpdate(w)
    \/ UpdateNotFound(w) \/ UpdateRejected(w) \/ CheckSplit(w) \/ SplitRejected(w)
    \/ CheckDelete(w) \/ DeleteNotFound(w) \/ RecordAgentRuns(w) \/ CheckRecover(w)
    \/ RecoverStopped(w) \/ RecoverNotFound(w) \/ RecoverAttach(w) \/ RecoverReconcile(w)

LEMMA QuietStep ==
    ASSUME TypeOK, NEW w \in Workers, Quiet(w)
    PROVE  /\ sessions' = sessions /\ draft' = draft
           /\ req[w].phase # "executed"
           /\ \A u \in Workers : u # w => req'[u] = req[u]
<1> USE DEF Reply, Checked, FailRaw, Free, Ready, tables, drafts
<1>1. CASE RecordAgentRuns(w) \/ RecoverReconcile(w)
  <2>1. PICK r, ri : Execute(w, r, {}, sessions, ri, commitIn) /\ req[w].phase # "executed"
    BY <1>1 DEF RecordAgentRuns, RecoverReconcile
  <2>2. draft' = draft
    BY <2>1, SMTT(30) DEF Execute, TypeOK
  <2> QED  BY <2>1, <2>2, SMTT(30) DEF Execute, TypeOK
<1>2. CASE ~(RecordAgentRuns(w) \/ RecoverReconcile(w))
  BY <1>2 DEF Quiet, StartRejected, CheckStop, StopNotFound, CheckUpdate, UpdateNotFound,
     UpdateRejected, CheckSplit, SplitRejected, CheckDelete, DeleteNotFound, CheckRecover,
     RecoverStopped, RecoverNotFound, RecoverAttach, TypeOK
<1> QED  BY <1>1, <1>2

TypeInv  == TypeOK /\ RequestsNamed
TimerInv == TypeInv /\ Locks /\ OneTimer

LEMMA StepOneTimer ==
    ASSUME TimerInv, [Next]_vars
    PROVE  TimerInv'
<1> USE DEF TimerInv, TypeInv
<1>1. TypeInv'
  BY StepType
<1>2. ASSUME NEW w \in Workers, Handler(w)
      PROVE  Locks' /\ OneTimer'
  <2>1. CASE Quiet(w)
    BY <2>1, QuietStep, QuietOneTimer
  <2>2. CASE StartSession(w) \/ RecoverStart(w)
    <3>0. req[w].at \in Nat
      BY DEF TypeOK, Request
    <3>1. \E r : \E at \in Nat : StartTx(w, r, at)
      BY <2>2, <3>0, NatTimes DEF StartSession, RecoverStart
    <3>2. req[w].phase # "executed"
      BY <2>2 DEF StartSession, RecoverStart, Free, Ready
    <3>3. PICK r : \E at \in Nat : StartTx(w, r, at)
      BY <3>1
    <3> QED  BY <3>2, <3>3, StartOneTimer
  <2>3. CASE StopSession(w) \/ RecoverStop(w)
    <3>1. PICK at \in Nat : StopTx(w, req[w], at)
      BY <2>3 DEF StopSession, RecoverStop, TypeOK, Request
    <3>2. req[w].phase # "executed" /\ req[w].sid \in Sids
      BY <2>3 DEF StopSession, RecoverStop, Ready, RequestsNamed, Named
    <3> QED  BY <3>1, <3>2, StopOneTimer
  <2>4. CASE UpdateSession(w)
    BY <2>4, UpdateOneTimer
  <2>5. CASE SplitSession(w)
    BY <2>5, SplitOneTimer
  <2>6. CASE DeleteSession(w)
    BY <2>6, DeleteOneTimer
  <2>7. CASE Commit(w) \/ Abandon(w)
    BY <2>7, EndOneTimer
  <2> QED
    BY <1>2, <2>1, <2>2, <2>3, <2>4, <2>5, <2>6, <2>7 DEF Handler, Quiet
<1>3. ASSUME Scanner \/ UNCHANGED vars
      PROVE  Locks' /\ OneTimer'
  <2>1. UNCHANGED <<sessions, draft, req>>
    BY <1>3 DEF Scanner, UpsertCommit, SessionCovering, AttachCommitToSession, drafts, tables, vars
  <2> QED  BY <2>1 DEF Locks, OneTimer, AtMostOneOpen, DraftOpen
<1> QED  BY <1>1, <1>2, <1>3 DEF Next

LEMMA InitOneTimer == Init => TimerInv
<1> SUFFICES ASSUME Init PROVE TimerInv
  OBVIOUS
<1>1. TypeInv
  <2>1. RequestsNamed
    BY IdleNamed DEF Init, RequestsNamed
  <2> QED  BY <2>1, InitType DEF TypeInv
<1>2. \A s \in Sids : ~IsOpen(sessions[s]) /\ draft[s].by = Nobody
  BY DEF Init, IsOpen, IsLive, Absent
<1> QED  BY <1>1, <1>2 DEF TimerInv, Locks, OneTimer, AtMostOneOpen, DraftOpen

LEMMA TimerInvariant == Spec => []TimerInv
<1>1. TimerInv /\ [Next]_vars => TimerInv'
  BY StepOneTimer
<1> QED  BY <1>1, InitOneTimer, PTL DEF Spec

\* However starts, stops, reopens, splits and recoveries race, and wherever they are
\* abandoned, the committed table never holds two running sessions.
THEOREM NeverTwoTimers == Spec => []AtMostOneOpen
<1>1. TimerInv => AtMostOneOpen
  BY DEF TimerInv, OneTimer
<1> QED  BY <1>1, TimerInvariant, PTL

-------------------------------------------------------------------------------
(* What an open transaction is about to publish, by the operation it is of. *)

Holds(w, t) == draft[t].by = w

StartShape(w, s) ==
    /\ Holds(w, s) /\ sessions[s].startedAt = Null /\ ~sessions[s].deleted
    /\ IsOpen(draft[s].row)
    /\ \A t \in Sids \ {s} : Holds(w, t) =>
        /\ IsOpen(sessions[t]) /\ IsRecorded(draft[t].row)
        /\ draft[t].row.endedAt <= draft[s].row.startedAt

StopShape(w, s) ==
    \A t \in Sids : Holds(w, t) => t = s /\ IsOpen(sessions[t]) /\ IsRecorded(draft[t].row)

UpdateShape(w, s) ==
    \A t \in Sids : Holds(w, t) => t = s /\ IsLive(sessions[t]) /\ IsLive(draft[t].row)

SplitShape(w, s) ==
    \E n \in Sids :
        /\ n # s /\ Holds(w, s) /\ Holds(w, n)
        /\ \A t \in Sids : Holds(w, t) => t \in {s, n}
        /\ IsLive(sessions[s]) /\ IsRecorded(draft[s].row)
        /\ sessions[n].startedAt = Null /\ ~sessions[n].deleted /\ IsRecorded(draft[n].row)

DeleteShape(w, s) ==
    \A t \in Sids : Holds(w, t) =>
        t = s /\ IsLive(sessions[t]) /\ draft[t].row.startedAt # Null /\ draft[t].row.deleted

Shape(w) ==
    LET s == req[w].sid IN
    CASE req[w].op \in {"start", "recover"}     -> StartShape(w, s)
      [] req[w].op \in {"stop", "recoverStop"}  -> StopShape(w, s)
      [] req[w].op = "update"                   -> UpdateShape(w, s)
      [] req[w].op = "split"                    -> SplitShape(w, s)
      [] req[w].op = "delete"                   -> DeleteShape(w, s)
      [] OTHER                                  -> \A t \in Sids : ~Holds(w, t)

Shapes == \A w \in Workers : req[w].phase = "executed" => Shape(w)

\* A transaction's shape depends on the rows it holds and on nothing else.
LEMMA ShapeFrame ==
    ASSUME TypeOK, RequestsNamed, NEW u \in Workers, req[u].phase = "executed", Shape(u),
           req'[u] = req[u],
           \A t \in Sids : Holds(u, t)' <=> Holds(u, t),
           \A t \in Sids : Holds(u, t) => draft'[t] = draft[t] /\ sessions'[t] = sessions[t]
    PROVE  Shape(u)'
<1> DEFINE s == req[u].sid
<1>0. req'[u].op = req[u].op /\ req'[u].sid = s
  OBVIOUS
<1>1. CASE req[u].op \in {"start", "recover"}
  <2>1. s \in Sids /\ StartShape(u, s)
    BY <1>1 DEF Shape, RequestsNamed, Named
  <2>2. StartShape(u, s)'
    BY <1>0, <2>1 DEF StartShape, IsOpen, IsRecorded, IsLive
  <2> QED  BY <1>0, <1>1, <2>2 DEF Shape
<1>2. CASE req[u].op \in {"stop", "recoverStop"}
  <2>1. StopShape(u, s)
    BY <1>2 DEF Shape
  <2>2. StopShape(u, s)'
    BY <1>0, <2>1 DEF StopShape, IsOpen, IsRecorded, IsLive
  <2> QED  BY <1>0, <1>2, <2>2 DEF Shape
<1>3. CASE req[u].op = "update"
  <2>1. UpdateShape(u, s)
    BY <1>3 DEF Shape
  <2>2. UpdateShape(u, s)'
    BY <1>0, <2>1 DEF UpdateShape, IsLive
  <2> QED  BY <1>0, <1>3, <2>2 DEF Shape
<1>4. CASE req[u].op = "split"
  <2>1. s \in Sids /\ SplitShape(u, s)
    BY <1>4 DEF Shape, RequestsNamed, Named
  <2>2. SplitShape(u, s)'
    BY <1>0, <2>1 DEF SplitShape, IsRecorded, IsLive
  <2> QED  BY <1>0, <1>4, <2>2 DEF Shape
<1>5. CASE req[u].op = "delete"
  <2>1. DeleteShape(u, s)
    BY <1>5 DEF Shape
  <2>2. DeleteShape(u, s)'
    BY <1>0, <2>1 DEF DeleteShape, IsLive
  <2> QED  BY <1>0, <1>5, <2>2 DEF Shape
<1>6. CASE req[u].op \notin {"start", "recover", "stop", "recoverStop", "update", "split", "delete"}
  BY <1>0, <1>6 DEF Shape
<1> QED  BY <1>1, <1>2, <1>3, <1>4, <1>5, <1>6

\* What Execute leaves behind: w holds exactly the rows it wrote.
Wrote(w, r, wrote, ws) ==
    /\ sessions' = sessions
    /\ req' = [req EXCEPT ![w] = [r EXCEPT !.phase = "executed"]]
    /\ \A t \in wrote : draft'[t].by = w /\ draft'[t].row = ws[t] /\ draft[t].by = Nobody
    /\ \A t \in Sids \ wrote : draft'[t] = draft[t] /\ draft[t].by # w

LEMMA ExecuteEffect ==
    ASSUME TypeOK, Locks, NEW w \in Workers, NEW r, NEW wrote \in SUBSET Sids,
           NEW ws, NEW ri, NEW ci, Execute(w, r, wrote, ws, ri, ci),
           req[w].phase # "executed"
    PROVE  Wrote(w, r, wrote, ws)
<1>1. \A t \in Sids : draft[t].by # w
  BY WorkSessionsAssumption DEF Locks
<1>2. \A t \in wrote : draft'[t].by = w /\ draft'[t].row = ws[t] /\ draft[t].by = Nobody
  BY DEF Execute, Unlocked
<1>3. \A t \in Sids \ wrote : draft'[t] = draft[t]
  BY DEF Execute
<1> QED  BY <1>1, <1>2, <1>3 DEF Execute, tables, Wrote

LEMMA ExecuteShapes ==
    ASSUME TypeOK, RequestsNamed, Shapes, NEW w \in Workers, NEW r,
           NEW wrote \in SUBSET Sids, NEW ws, Wrote(w, r, wrote, ws), Shape(w)'
    PROVE  Shapes'
<1>1. w # Nobody
  BY WorkSessionsAssumption
<1> SUFFICES ASSUME NEW u \in Workers, u # w, req'[u].phase = "executed"
             PROVE  Shape(u)'
  BY DEF Shapes
<1>2. req'[u] = req[u]
  BY DEF TypeOK, Wrote
<1>3. \A t \in Sids : t \notin wrote => draft'[t] = draft[t]
  BY DEF Wrote
<1>4. \A t \in wrote : draft'[t].by # u /\ draft[t].by # u
  BY WorkSessionsAssumption DEF Wrote
<1>5. \A t \in Sids : Holds(u, t)' <=> Holds(u, t)
  BY <1>3, <1>4 DEF Holds
<1>6. \A t \in Sids : Holds(u, t) => draft'[t] = draft[t] /\ sessions'[t] = sessions[t]
  BY <1>3, <1>4 DEF Holds, Wrote
<1> QED  BY <1>2, <1>5, <1>6, ShapeFrame DEF Shapes

LEMMA EndShapes ==
    ASSUME TypeOK, RequestsNamed, Locks, Shapes, NEW w \in Workers, Commit(w) \/ Abandon(w)
    PROVE  Shapes'
<1>1. w # Nobody
  BY WorkSessionsAssumption
<1>2. req'[w].phase # "executed"
  <2>1. CASE Reply(w)
    BY <2>1 DEF Reply, Idle, TypeOK
  <2>2. CASE req[w].op = "recover" /\ Checked(w, [req[w] EXCEPT !.op = "recoverStop"])
    BY <2>2 DEF Checked, TypeOK, Request
  <2>3. CASE /\ req[w].op = "recoverStop"
             /\ Checked(w, [req[w] EXCEPT !.op = "recoverAttach",
                                          !.todo = InWindow(draft[req[w].sid].row)])
    BY <2>3 DEF Checked, TypeOK, Request
  <2> QED  BY <2>1, <2>2, <2>3 DEF Commit, Abandon, Continue
<1> SUFFICES ASSUME NEW u \in Workers, u # w, req'[u].phase = "executed"
             PROVE  Shape(u)'
  BY <1>2 DEF Shapes
<1>3. req'[u] = req[u]
  BY DEF Commit, Abandon, Continue, Checked, Reply, TypeOK
<1>4. u # Nobody
  BY WorkSessionsAssumption
<1>5. \A t \in Sids : IF draft[t].by = w THEN draft'[t].by = Nobody ELSE draft'[t] = draft[t]
  BY DEF Commit, Abandon, Unlock
<1>6. \A t \in Sids : Holds(u, t)' <=> Holds(u, t)
  BY <1>4, <1>5 DEF Holds
<1>7. \A t \in Sids : draft[t].by # w => sessions'[t] = sessions[t]
  BY DEF Commit, Publish, Abandon, tables
<1>8. \A t \in Sids : Holds(u, t) => draft'[t] = draft[t] /\ sessions'[t] = sessions[t]
  BY <1>5, <1>7 DEF Holds
<1> QED  BY <1>3, <1>6, <1>8, ShapeFrame DEF Shapes

LEMMA StartShapes ==
    ASSUME TypeOK, RequestsNamed, Locks, OneTimer, Shapes, NEW w \in Workers,
           req[w].phase # "executed", NEW r \in Request, r.op \in {"start", "recover"},
           NEW at \in Nat, at # Null, StartTx(w, r, at)
    PROVE  Shapes'
<1>1. PICK n \in FreshSids :
        Execute(w, [r EXCEPT !.sid = n], OpenSids \cup {n}, Replaced(n, at), runIn, commitIn)
  BY DEF StartTx
<1>2. n \in Sids /\ sessions[n].startedAt = Null /\ ~sessions[n].deleted /\ n \notin OpenSids
  BY DEF FreshSids, Absent, OpenSids, IsOpen, IsLive
<1> DEFINE ws == Replaced(n, at)
<1>3. OpenSids \cup {n} \in SUBSET Sids
  BY <1>2 DEF OpenSids
<1>4. StartAfter(at) \in Nat /\ StartAfter(at) >= at
  BY ReplacedType, <1>2
<1>5. ws[n] = Running(StartAfter(at))
  BY <1>2 DEF Replaced
<1>6. \A t \in OpenSids : ws[t] = Stopped(sessions[t], at)
  BY <1>2 DEF Replaced, OpenSids
<1>7. IsOpen(ws[n]) /\ ws[n].startedAt = StartAfter(at)
  <2>1. StartAfter(at) # Null
    BY <1>4 DEF Null
  <2> QED  BY <1>5, <2>1 DEF IsOpen, IsLive, Running
<1>8. \A t \in OpenSids : IsRecorded(ws[t]) /\ IsOpen(sessions[t])
  <2> SUFFICES ASSUME NEW t \in OpenSids
               PROVE  IsRecorded(ws[t]) /\ IsOpen(sessions[t])
    OBVIOUS
  <2>1. t \in Sids /\ sessions[t] \in SessionRow /\ IsOpen(sessions[t])
    BY DEF OpenSids, TypeOK
  <2> QED  BY <1>6, <2>1, StoppedType DEF IsRecorded, IsOpen, IsLive
<1>9. \A t \in OpenSids : ws[t].endedAt <= StartAfter(at)
  <2> SUFFICES ASSUME NEW t \in OpenSids
               PROVE  Stopped(sessions[t], at).endedAt <= StartAfter(at)
    BY <1>6
  <2>1. t \in Sids /\ sessions[t] \in SessionRow
    BY DEF OpenSids, TypeOK
  <2>2. Stopped(sessions[t], at).endedAt \in Nat
    BY <2>1, StoppedType
  <2>3. \A o \in OpenSids : o = t
    BY DEF OpenSids, OneTimer, AtMostOneOpen
  <2>4. CASE Stopped(sessions[t], at).endedAt > at
    <3> DEFINE o == CHOOSE o \in OpenSids : Stopped(sessions[o], at).endedAt > at
    <3>1. o \in OpenSids
      BY <2>4
    <3>2. StartAfter(at) = Stopped(sessions[o], at).endedAt
      BY <2>4 DEF StartAfter
    <3> HIDE DEF o
    <3>3. o = t
      BY <2>3, <3>1
    <3> QED  BY <2>2, <3>2, <3>3
  <2>5. CASE ~(Stopped(sessions[t], at).endedAt > at)
    BY <1>4, <2>2, <2>5
  <2> QED  BY <2>4, <2>5
<1> DEFINE x == [r EXCEPT !.sid = n]
<1>10. x.op \in {"start", "recover"} /\ x.sid = n
  BY DEF Request
<1> HIDE DEF x, ws
<1>11. Wrote(w, x, OpenSids \cup {n}, ws)
  <2>1. Execute(w, x, OpenSids \cup {n}, ws, runIn, commitIn)
    BY <1>1 DEF x, ws
  <2> QED  BY <1>3, <2>1, ExecuteEffect
<1>12. Shape(w)'
  <2>1. req'[w] = [x EXCEPT !.phase = "executed"]
    BY <1>11 DEF TypeOK, Wrote
  <2>2. req'[w].op \in {"start", "recover"} /\ req'[w].sid = n
    BY <1>1, <1>10, <2>1 DEF x, Request
  <2>3. StartShape(w, n)'
    <3>1. sessions' = sessions /\ draft'[n].row = ws[n] /\ draft'[n].by = w
      BY <1>11 DEF Wrote
    <3>2. \A t \in Sids : Holds(w, t)' => t \in OpenSids \cup {n}
      BY <1>11 DEF Wrote, Holds
    <3>3. \A t \in OpenSids : draft'[t].row = ws[t]
      BY <1>11 DEF Wrote
    <3>4. draft'[n].row.startedAt = StartAfter(at)
      BY <1>7, <3>1
    <3>5. IsOpen(draft[n].row)'
      BY <1>7, <3>1 DEF IsOpen, IsLive
    <3>6. \A t \in Sids \ {n} : Holds(w, t)' =>
            /\ IsOpen(sessions[t])' /\ IsRecorded(draft[t].row)'
            /\ draft'[t].row.endedAt <= draft'[n].row.startedAt
      BY <1>8, <1>9, <3>1, <3>2, <3>3, <3>4 DEF IsOpen, IsLive, IsRecorded
    <3> QED  BY <1>2, <3>1, <3>5, <3>6 DEF StartShape, Holds
  <2> QED  BY <2>2, <2>3 DEF Shape
<1> QED  BY <1>3, <1>11, <1>12, ExecuteShapes

LEMMA StopShapes ==
    ASSUME TypeOK, RequestsNamed, Locks, Shapes, NEW w \in Workers, Ready(w, req[w].op),
           req[w].op \in {"stop", "recoverStop"}, NEW at \in Nat, StopTx(w, req[w], at)
    PROVE  Shapes'
<1> DEFINE s  == req[w].sid
           ws == [sessions EXCEPT ![s] = Stopped(@, at)]
<1>1. PICK ri : Execute(w, req[w], {s}, ws, ri, commitIn)
  BY DEF StopTx
<1>2. s \in Sids /\ req[w].phase # "executed" /\ req[w] \in Request /\ IsOpen(sessions[s])
  BY DEF Ready, RequestsNamed, Named, TypeOK, StopTx
<1>3. IsRecorded(ws[s])
  <2>1. ws[s] = Stopped(sessions[s], at) /\ sessions[s] \in SessionRow
    BY <1>2 DEF TypeOK
  <2> QED  BY <1>2, <2>1, StoppedType DEF IsRecorded, IsOpen, IsLive
<1> HIDE DEF ws
<1>3a. Wrote(w, req[w], {s}, ws)
  BY <1>1, <1>2, ExecuteEffect
<1>4. Shape(w)'
  <2>1. /\ sessions' = sessions /\ draft'[s].row = ws[s]
        /\ \A t \in Sids : Holds(w, t)' => t = s
        /\ req'[w] = [req[w] EXCEPT !.phase = "executed"]
    BY <1>2, <1>3a DEF TypeOK, Wrote, Holds
  <2>2. req'[w].op = req[w].op /\ req'[w].sid = s
    BY <1>2, <2>1 DEF Request
  <2>3. StopShape(w, s)'
    BY <1>2, <1>3, <2>1, <2>2 DEF StopShape, IsOpen, IsLive, IsRecorded
  <2> QED  BY <2>2, <2>3 DEF Shape
<1> QED  BY <1>2, <1>4, <1>3a, ExecuteShapes

LEMMA UpdateShapes ==
    ASSUME TypeOK, RequestsNamed, Locks, Shapes, NEW w \in Workers, UpdateSession(w)
    PROVE  Shapes'
<1> DEFINE s  == req[w].sid
           ws == [sessions EXCEPT ![s] = Corrected(sessions[s], req[w])]
<1>1. PICK ri : Execute(w, req[w], {s}, ws, ri, commitIn)
  BY DEF UpdateSession
<1>2. /\ s \in Sids /\ req[w].phase # "executed" /\ req[w] \in Request
      /\ IsLive(sessions[s]) /\ req[w].op = "update"
  BY DEF UpdateSession, Ready, RequestsNamed, Named, TypeOK
<1>3. IsLive(ws[s])
  BY <1>2 DEF TypeOK, Corrected, IsLive, SessionRow
<1> HIDE DEF ws
<1>3a. Wrote(w, req[w], {s}, ws)
  BY <1>1, <1>2, ExecuteEffect
<1>4. Shape(w)'
  <2>1. /\ sessions' = sessions /\ draft'[s].row = ws[s]
        /\ \A t \in Sids : Holds(w, t)' => t = s
        /\ req'[w] = [req[w] EXCEPT !.phase = "executed"]
    BY <1>2, <1>3a DEF TypeOK, Wrote, Holds
  <2>2. req'[w].op = "update" /\ req'[w].sid = s
    BY <1>2, <2>1 DEF Request
  <2>3. UpdateShape(w, s)'
    BY <1>2, <1>3, <2>1, <2>2 DEF UpdateShape, IsLive
  <2> QED  BY <2>2, <2>3 DEF Shape
<1> QED  BY <1>2, <1>4, <1>3a, ExecuteShapes

LEMMA SplitShapes ==
    ASSUME TypeOK, RequestsNamed, Locks, Shapes, NEW w \in Workers, SplitSession(w)
    PROVE  Shapes'
<1> DEFINE s     == req[w].sid
           at    == req[w].at
           left  == [sessions[s] EXCEPT !.endedAt = at]
           right(n) == [Running(at) EXCEPT !.endedAt = req[w].to]
           born(n)  == [sessions EXCEPT ![s] = left, ![n] = Running(at)]
           ws(n)    == [born(n) EXCEPT ![n] = right(n)]
<1>0. PICK n \in FreshSids : \E ri : Execute(w, req[w], {s, n}, ws(n), ri, Refiled(s, n, at))
  BY DEF SplitSession
<1>1. PICK ri : Execute(w, req[w], {s, n}, ws(n), ri, Refiled(s, n, at))
  BY <1>0
<1>2. /\ s \in Sids /\ req[w].phase # "executed" /\ n \in Sids /\ req[w] \in Request
      /\ IsLive(sessions[s]) /\ req[w].op = "split" /\ at # Null /\ at < req[w].to
      /\ at \in Nat /\ req[w].to \in Nat /\ sessions[s] \in SessionRow
  BY DEF SplitSession, Ready, RequestsNamed, Named, FreshSids, TypeOK, Request
<1>3. s # n /\ sessions[n].startedAt = Null /\ ~sessions[n].deleted
  BY <1>2 DEF FreshSids, IsLive, Absent
<1>4. ws(n)[s] = left /\ ws(n)[n] = right(n)
  BY <1>2, <1>3 DEF TypeOK
<1>5. IsRecorded(left)
  BY <1>2 DEF IsRecorded, IsLive, SessionRow
<1>6. IsRecorded(right(n))
  <2>1. req[w].to # Null
    BY <1>2 DEF Null
  <2> QED  BY <1>2, <2>1 DEF IsRecorded, IsLive, Running
<1> HIDE DEF ws, left, right
<1>6a. Wrote(w, req[w], {s, n}, ws(n))
  BY <1>1, <1>2, ExecuteEffect
<1>7. Shape(w)'
  <2>1. /\ sessions' = sessions
        /\ draft'[s].row = left /\ draft'[n].row = right(n)
        /\ \A t \in Sids : Holds(w, t)' <=> t \in {s, n}
        /\ req'[w] = [req[w] EXCEPT !.phase = "executed"]
    BY <1>2, <1>3, <1>4, <1>6a DEF TypeOK, Wrote, Holds
  <2>2. req'[w].op = "split" /\ req'[w].sid = s
    BY <1>2, <2>1 DEF Request
  <2>3. SplitShape(w, s)'
    BY <1>2, <1>3, <1>5, <1>6, <2>1, <2>2 DEF SplitShape, IsLive, IsRecorded
  <2> QED  BY <2>2, <2>3 DEF Shape
<1> QED  BY <1>2, <1>7, <1>6a, ExecuteShapes

LEMMA DeleteShapes ==
    ASSUME TypeOK, RequestsNamed, Locks, Shapes, NEW w \in Workers, DeleteSession(w)
    PROVE  Shapes'
<1> DEFINE s  == req[w].sid
           ws == [sessions EXCEPT ![s].deleted = TRUE]
<1>1. Execute(w, req[w], {s}, ws, Released(runIn, s), Released(commitIn, s))
  BY DEF DeleteSession
<1>2. /\ s \in Sids /\ req[w].phase # "executed" /\ req[w] \in Request
      /\ IsLive(sessions[s]) /\ req[w].op = "delete"
  BY DEF DeleteSession, Ready, RequestsNamed, Named, TypeOK
<1>3. ws[s].deleted /\ ws[s].startedAt # Null
  BY <1>2 DEF TypeOK, IsLive, SessionRow
<1> HIDE DEF ws
<1>3a. Wrote(w, req[w], {s}, ws)
  BY <1>1, <1>2, ExecuteEffect
<1>4. Shape(w)'
  <2>1. /\ sessions' = sessions /\ draft'[s].row = ws[s]
        /\ \A t \in Sids : Holds(w, t)' => t = s
        /\ req'[w] = [req[w] EXCEPT !.phase = "executed"]
    BY <1>2, <1>3a DEF TypeOK, Wrote, Holds
  <2>2. req'[w].op = "delete" /\ req'[w].sid = s
    BY <1>2, <2>1 DEF Request
  <2>3. DeleteShape(w, s)'
    BY <1>2, <1>3, <2>1, <2>2 DEF DeleteShape, IsLive
  <2> QED  BY <2>2, <2>3 DEF Shape
<1> QED  BY <1>2, <1>4, <1>3a, ExecuteShapes

\* The steps that touch neither the session table nor its drafts.
LEMMA QuietShapes ==
    ASSUME TypeOK, RequestsNamed, Locks, Shapes, NEW w \in Workers, Quiet(w)
    PROVE  Shapes'
<1>1. /\ sessions' = sessions /\ draft' = draft
      /\ req[w].phase # "executed"
      /\ \A u \in Workers : u # w => req'[u] = req[u]
  BY QuietStep
<1>2. \A t \in Sids : ~Holds(w, t)
  BY <1>1, WorkSessionsAssumption DEF Locks, Holds
<1>3. req'[w].phase = "executed" => Shape(w)'
  <2>1. CASE RecordAgentRuns(w) \/ RecoverReconcile(w)
    <3>1. PICK r : r.op \in {"record", "recoverAttach"}
                   /\ req' = [req EXCEPT ![w] = [r EXCEPT !.phase = "executed"]]
                   /\ r \in Request
      <4>1. CASE RecordAgentRuns(w)
        <5>1. [Idle EXCEPT !.op = "record"] \in Request /\ [Idle EXCEPT !.op = "record"].op = "record"
          BY IdleType DEF Request, Ops, Idle
        <5> QED  BY <4>1, <5>1 DEF RecordAgentRuns, Execute
      <4>2. CASE RecoverReconcile(w)
        BY <4>2, ZenonT(40) DEF RecoverReconcile, Ready, Execute, TypeOK
      <4> QED  BY <2>1, <4>1, <4>2
    <3>2. req'[w].op \in {"record", "recoverAttach"}
      BY <3>1 DEF TypeOK, Request
    <3>3. \A t \in Sids : ~Holds(w, t)'
      BY <1>1, <1>2 DEF Holds
    <3> QED  BY <3>2, <3>3 DEF Shape
  <2>2. CASE ~(RecordAgentRuns(w) \/ RecoverReconcile(w))
    <3>1. req'[w].phase # "executed"
      <4>1. (\E r : Checked(w, r)) \/ Reply(w) \/ (\E op : FailRaw(w, op))
        BY <2>2 DEF Quiet, StartRejected, CheckStop, StopNotFound, CheckUpdate,
           UpdateNotFound, UpdateRejected, CheckSplit, SplitRejected, CheckDelete,
           DeleteNotFound, CheckRecover, RecoverStopped, RecoverNotFound, RecoverAttach
      <4>2. CASE \E r : Checked(w, r)
        <5>1. PICK r : req' = [req EXCEPT ![w] = [r EXCEPT !.phase = "checked"]]
          BY <4>2 DEF Checked
        <5>2. req'[w] = [r EXCEPT !.phase = "checked"]
          BY <5>1 DEF TypeOK
        <5>3. req'[w] \in Request
          BY <1>1, StepType DEF TypeOK, Next, Handler, Quiet
        <5> QED  BY <5>2, <5>3 DEF Request
      <4>3. CASE Reply(w)
        BY <4>3 DEF Reply, Idle, TypeOK
      <4>4. CASE \E op : FailRaw(w, op)
        BY <4>4 DEF FailRaw, Idle, TypeOK
      <4> QED  BY <4>1, <4>2, <4>3, <4>4, SMTT(30)
    <3> QED  BY <3>1
  <2> QED  BY <2>1, <2>2
<1> SUFFICES ASSUME NEW u \in Workers, u # w, req'[u].phase = "executed"
             PROVE  Shape(u)'
  BY <1>3 DEF Shapes
<1>4. req'[u] = req[u] /\ \A t \in Sids : Holds(u, t)' <=> Holds(u, t)
  BY <1>1 DEF Holds
<1> QED  BY <1>1, <1>4, ShapeFrame DEF Shapes

ShapeInv == TimerInv /\ Shapes

LEMMA StepShapes ==
    ASSUME ShapeInv, [Next]_vars
    PROVE  ShapeInv'
<1> USE DEF ShapeInv, TimerInv, TypeInv
<1>1. TimerInv'
  BY StepOneTimer
<1>2. ASSUME NEW w \in Workers, Handler(w)
      PROVE  Shapes'
  <2>1. CASE Quiet(w)
    BY <2>1, QuietShapes
  <2>2. CASE StartSession(w) \/ RecoverStart(w)
    <3>1. req[w].phase # "executed"
      BY <2>2 DEF StartSession, RecoverStart, Free, Ready
    <3>2. CASE StartSession(w)
      <4>1. [Idle EXCEPT !.op = "start"] \in Request /\ [Idle EXCEPT !.op = "start"].op = "start"
        BY IdleType DEF Request, Ops, Idle
      <4>2. PICK at \in 1 .. Now : StartTx(w, [Idle EXCEPT !.op = "start"], at)
        BY <3>2 DEF StartSession
      <4> QED  BY <3>1, <4>1, <4>2, NatTimes, StartShapes
    <3>3. CASE RecoverStart(w)
      <4>1. /\ req[w] \in Request /\ req[w].op = "recover" /\ req[w].at \in Nat
            /\ StartTx(w, req[w], req[w].at)
        BY <3>3 DEF RecoverStart, Ready, TypeOK, Request
      <4>2. req[w].at # Null
        BY <3>3 DEF RecoverStart, Ready, RequestsNamed, Named
      <4> QED  BY <3>1, <4>1, <4>2, StartShapes
    <3> QED  BY <2>2, <3>2, <3>3
  <2>3. CASE StopSession(w) \/ RecoverStop(w)
    <3>1. PICK at \in Nat : StopTx(w, req[w], at)
      BY <2>3 DEF StopSession, RecoverStop, TypeOK, Request
    <3>2. Ready(w, req[w].op) /\ req[w].op \in {"stop", "recoverStop"}
      BY <2>3 DEF StopSession, RecoverStop, Ready
    <3> QED  BY <3>1, <3>2, StopShapes
  <2>4. CASE UpdateSession(w)
    BY <2>4, UpdateShapes
  <2>5. CASE SplitSession(w)
    BY <2>5, SplitShapes
  <2>6. CASE DeleteSession(w)
    BY <2>6, DeleteShapes
  <2>7. CASE Commit(w) \/ Abandon(w)
    BY <2>7, EndShapes
  <2> QED
    BY <1>2, <2>1, <2>2, <2>3, <2>4, <2>5, <2>6, <2>7 DEF Handler, Quiet
<1>3. ASSUME Scanner \/ UNCHANGED vars
      PROVE  Shapes'
  <2>1. UNCHANGED <<sessions, draft, req>>
    BY <1>3 DEF Scanner, UpsertCommit, SessionCovering, AttachCommitToSession, drafts, tables, vars
  <2>2. \A u \in Workers : Shape(u) => Shape(u)'
    BY <2>1 DEF Shape, StartShape, StopShape, UpdateShape, SplitShape, DeleteShape, Holds,
       IsOpen, IsRecorded, IsLive
  <2> QED  BY <2>1, <2>2 DEF Shapes
<1> QED  BY <1>1, <1>2, <1>3 DEF Next

LEMMA ShapeInvariant == Spec => []ShapeInv
<1>1. Init => ShapeInv
  <2>1. Init => Shapes
    BY DEF Init, Shapes, Idle
  <2> QED  BY <2>1, InitOneTimer DEF ShapeInv
<1>2. ShapeInv /\ [Next]_vars => ShapeInv'
  BY StepShapes
<1> QED  BY <1>1, <1>2, PTL DEF Spec

-------------------------------------------------------------------------------
(* What a step may do to the committed sessions.                           *)

\* Only a commit changes the committed sessions, and it changes the rows it holds.
LEMMA OnlyCommits ==
    ASSUME ShapeInv, [Next]_vars, sessions' # sessions
    PROVE  \E w \in Workers :
            /\ Commit(w) /\ Shape(w)
            /\ \A t \in Sids : sessions'[t] = IF Holds(w, t) THEN draft[t].row ELSE sessions[t]
<1> USE DEF ShapeInv, TimerInv, TypeInv
<1>1. PICK w \in Workers : Handler(w)
  BY DEF Next, Scanner, UpsertCommit, SessionCovering, AttachCommitToSession, vars, tables
<1>2. ~Quiet(w)
  BY QuietStep
<1>3. ~Abandon(w)
  BY DEF Abandon, tables
<1>4. ~(\/ StartSession(w) \/ RecoverStart(w) \/ StopSession(w) \/ RecoverStop(w)
        \/ UpdateSession(w) \/ SplitSession(w) \/ DeleteSession(w))
  BY DEF StartSession, RecoverStart, StartTx, StopSession, RecoverStop, StopTx,
     UpdateSession, SplitSession, DeleteSession, Execute, tables
<1>5. Commit(w)
  BY <1>1, <1>2, <1>3, <1>4 DEF Handler, Quiet
<1>6. Shape(w)
  BY <1>5 DEF Commit, Shapes
<1>7. \A t \in Sids : sessions'[t] = IF Holds(w, t) THEN draft[t].row ELSE sessions[t]
  BY <1>5 DEF Commit, Publish, Holds
<1> QED  BY <1>5, <1>6, <1>7

\* A row a transaction holds is live, or not there yet: never deleted.
LEMMA HeldLive ==
    ASSUME ShapeInv, NEW w \in Workers, req[w].phase = "executed", Shape(w),
           NEW t \in Sids, Holds(w, t)
    PROVE  ~sessions[t].deleted
<1> USE DEF ShapeInv, TimerInv, TypeInv
<1> DEFINE s == req[w].sid
<1>1. CASE req[w].op \in {"start", "recover"}
  BY <1>1 DEF Shape, StartShape, IsOpen, IsLive
<1>2. CASE req[w].op \in {"stop", "recoverStop"}
  BY <1>2 DEF Shape, StopShape, IsOpen, IsLive
<1>3. CASE req[w].op = "update"
  BY <1>3 DEF Shape, UpdateShape, IsLive
<1>4. CASE req[w].op = "split"
  BY <1>4 DEF Shape, SplitShape, IsLive
<1>5. CASE req[w].op = "delete"
  BY <1>5 DEF Shape, DeleteShape, IsLive
<1>6. CASE req[w].op \notin {"start", "recover", "stop", "recoverStop", "update", "split", "delete"}
  BY <1>6 DEF Shape
<1> QED  BY <1>1, <1>2, <1>3, <1>4, <1>5, <1>6

\* A deleted session is never written again, whatever was checked before it was deleted.
THEOREM DeletedForGood == Spec => TombstonesFrozen
<1>1. ShapeInv /\ [Next]_vars =>
        [\A s \in Sids : sessions[s].deleted => sessions'[s] = sessions[s]]_vars
  <2> SUFFICES ASSUME ShapeInv, [Next]_vars, NEW s \in Sids, sessions[s].deleted
               PROVE  sessions'[s] = sessions[s]
    OBVIOUS
  <2>1. CASE sessions' # sessions
    <3>1. PICK w \in Workers :
            /\ Commit(w) /\ Shape(w)
            /\ \A t \in Sids : sessions'[t] = IF Holds(w, t) THEN draft[t].row ELSE sessions[t]
      BY <2>1, OnlyCommits
    <3>2. ~Holds(w, s)
      BY <3>1, HeldLive DEF Commit
    <3> QED  BY <3>1, <3>2
  <2> QED  BY <2>1
<1> QED  BY <1>1, ShapeInvariant, PTL DEF Spec, TombstonesFrozen

\* Stopping, and starting over, never move the end of a session already recorded.
THEOREM EndsStand == Spec => StopNeverMovesEnd
<1> DEFINE Stands == \A w \in Workers, s \in Sids :
                        /\ Commit(w)
                        /\ req[w].op \in {"start", "stop", "recover", "recoverStop"}
                        /\ IsRecorded(sessions[s])
                        => sessions'[s] = sessions[s]
<1>1. ShapeInv => Stands
  <2> SUFFICES ASSUME ShapeInv, NEW w \in Workers, NEW s \in Sids, Commit(w),
                      req[w].op \in {"start", "stop", "recover", "recoverStop"},
                      IsRecorded(sessions[s])
               PROVE  sessions'[s] = sessions[s]
    OBVIOUS
  <2>1. Shape(w)
    BY DEF ShapeInv, Shapes, Commit
  <2>2. ~Holds(w, s)
    <3>1. CASE req[w].op \in {"start", "recover"}
      BY <2>1, <3>1 DEF Shape, StartShape, IsRecorded, IsOpen, IsLive
    <3>2. CASE req[w].op \in {"stop", "recoverStop"}
      BY <2>1, <3>2 DEF Shape, StopShape, IsRecorded, IsOpen
    <3> QED  BY <3>1, <3>2
  <2> QED  BY <2>2 DEF Commit, Publish, Holds
<1>2. ShapeInv /\ [Next]_vars => [Stands]_vars
  BY <1>1
<1> QED  BY <1>2, ShapeInvariant, PTL DEF Spec, StopNeverMovesEnd

\* A timer that takes over from a running one starts no earlier than the one it ended.
THEOREM TimersAbut == Spec => ReplacementAbuts
<1> DEFINE Abut == \A o, n \in Sids :
                    /\ IsOpen(sessions[o]) /\ ~IsOpen(sessions'[o])
                    /\ ~IsOpen(sessions[n]) /\ IsOpen(sessions'[n])
                    => sessions'[o].endedAt <= sessions'[n].startedAt
<1>1. ShapeInv /\ [Next]_vars => Abut
  <2> SUFFICES ASSUME ShapeInv, [Next]_vars, NEW o \in Sids, NEW n \in Sids,
                      IsOpen(sessions[o]), ~IsOpen(sessions'[o]),
                      ~IsOpen(sessions[n]), IsOpen(sessions'[n])
               PROVE  sessions'[o].endedAt <= sessions'[n].startedAt
    OBVIOUS
  <2>1. PICK w \in Workers :
          /\ Commit(w) /\ Shape(w)
          /\ \A t \in Sids : sessions'[t] = IF Holds(w, t) THEN draft[t].row ELSE sessions[t]
    BY OnlyCommits
  <2>2. o # n /\ Holds(w, o) /\ Holds(w, n) /\ IsOpen(draft[n].row)
        /\ sessions'[o] = draft[o].row /\ sessions'[n] = draft[n].row
    BY <2>1
  <2>3. CASE req[w].op \in {"start", "recover"}
    <3> DEFINE s == req[w].sid
    <3>1. StartShape(w, s) /\ s \in Sids
      BY <2>1, <2>3 DEF Shape, Commit, ShapeInv, TimerInv, TypeInv, RequestsNamed, Named
    <3>2. n = s
      BY <2>2, <3>1 DEF StartShape, IsOpen, IsRecorded
    <3> QED  BY <2>2, <3>1, <3>2 DEF StartShape
  <2>4. CASE req[w].op \in {"stop", "recoverStop", "update", "delete"}
    BY <2>1, <2>2, <2>4 DEF Shape, StopShape, UpdateShape, DeleteShape
  <2>5. CASE req[w].op = "split"
    BY <2>1, <2>2, <2>5 DEF Shape, SplitShape, IsOpen, IsRecorded
  <2>6. CASE req[w].op \notin {"start", "recover", "stop", "recoverStop", "update", "split", "delete"}
    BY <2>1, <2>2, <2>6 DEF Shape
  <2> QED  BY <2>3, <2>4, <2>5, <2>6
<1>2. ShapeInv /\ [Next]_vars => [Abut]_vars
  BY <1>1
<1> QED  BY <1>2, ShapeInvariant, PTL DEF Spec, ReplacementAbuts

\* What each shape does to the life of the rows.
LEMMA LifeFacts ==
    ASSUME NEW row
    PROVE  /\ row.startedAt = Null => LifeOf(row) = "absent"
           /\ IsOpen(row) => LifeOf(row) = "running"
           /\ IsRecorded(row) => LifeOf(row) = "recorded"
           /\ row.startedAt # Null /\ row.deleted => LifeOf(row) = "deleted"
           /\ LifeOf(row) = "running" => IsOpen(row)
           /\ IsLive(row) => IsOpen(row) \/ IsRecorded(row)
<1>1. CASE row.startedAt = Null
  BY <1>1 DEF LifeOf, IsOpen, IsRecorded, IsLive
<1>2. CASE row.startedAt # Null /\ row.deleted
  BY <1>2 DEF LifeOf, IsOpen, IsRecorded, IsLive
<1>3. CASE IsOpen(row)
  BY <1>3 DEF LifeOf, IsOpen, IsRecorded, IsLive
<1>4. CASE IsRecorded(row)
  BY <1>4 DEF LifeOf, IsOpen, IsRecorded, IsLive
<1> QED  BY <1>1, <1>2, <1>3, <1>4 DEF IsOpen, IsRecorded, IsLive

\* The timesheet implements SessionLifecycle: each committed transaction is one abstract
\* step, or none, whatever its handler had checked before.
THEOREM FollowsLifecycle == Spec => LifecycleSpec
<1>1. Init => Lifecycle!Init
  <2> SUFFICES ASSUME Init PROVE Lifecycle!Init
    OBVIOUS
  <2>1. \A s \in Sids : sessions[s].startedAt = Null
    BY DEF Init, Absent
  <2>2. \A s \in Sids : LifeOf(sessions[s]) = "absent"
    BY <2>1, LifeFacts
  <2> QED  BY <2>2 DEF Lifecycle!Init
<1>2. ShapeInv /\ [Next]_vars => [Lifecycle!Next]_([s \in Sids |-> LifeOf(sessions[s])])
  <2> SUFFICES ASSUME ShapeInv, [Next]_vars, sessions' # sessions
               PROVE  [Lifecycle!Next]_([s \in Sids |-> LifeOf(sessions[s])])
    OBVIOUS
  <2> USE DEF ShapeInv, TimerInv, TypeInv
  <2>1. PICK w \in Workers :
          /\ Commit(w) /\ Shape(w)
          /\ \A t \in Sids : sessions'[t] = IF Holds(w, t) THEN draft[t].row ELSE sessions[t]
    BY OnlyCommits
  <2> DEFINE s      == req[w].sid
             before == [t \in Sids |-> LifeOf(sessions[t])]
             after  == [t \in Sids |-> LifeOf(sessions'[t])]
  <2>2. /\ before = [t \in Sids |-> before[t]] /\ after = [t \in Sids |-> after[t]]
        /\ \A t \in Sids : before[t] = LifeOf(sessions[t])
    OBVIOUS
  <2>3. \A t \in Sids : ~Holds(w, t) => after[t] = before[t]
    BY <2>1
  <2>4. \A t \in Sids : Holds(w, t) => after[t] = LifeOf(draft[t].row)
    BY <2>1
  <2>5. before = after => [Lifecycle!Next]_([t \in Sids |-> LifeOf(sessions[t])])
    OBVIOUS
  <2> HIDE DEF before, after
  <2>6. CASE req[w].op \in {"start", "recover"}
    <3>1. StartShape(w, s) /\ s \in Sids
      BY <2>1, <2>6 DEF Shape, Commit, RequestsNamed, Named
    <3>2. before[s] = "absent" /\ after[s] = "running"
      BY <2>2, <2>4, <3>1, LifeFacts DEF StartShape
    <3>3. \A t \in Sids \ {s} : Holds(w, t) => before[t] = "running" /\ after[t] = "recorded"
      BY <2>2, <2>4, <3>1, LifeFacts DEF StartShape
    <3>4. \A t \in Sids \ {s} : before[t] = "running" => Holds(w, t)
      <4>1. DraftOpen(s)
        BY <3>1, WorkSessionsAssumption DEF StartShape, DraftOpen, Holds
      <4>2. \A t \in Sids : before[t] = "running" => IsOpen(sessions[t])
        BY <2>2, LifeFacts
      <4> QED  BY <3>1, <4>1, <4>2 DEF OneTimer, Holds, StartShape
    <3>5. after = [t \in Sids |-> IF t = s THEN "running"
                                  ELSE IF before[t] = "running" THEN "recorded" ELSE before[t]]
      BY <2>2, <2>3, <3>2, <3>3, <3>4
    <3>6. Lifecycle!Start(s)
      BY <3>2, <3>5 DEF Lifecycle!Start, before, after
    <3> QED  BY <3>1, <3>6 DEF Lifecycle!Next
  <2>7. CASE req[w].op \in {"stop", "recoverStop"}
    <3>1. StopShape(w, s) /\ s \in Sids
      BY <2>1, <2>7 DEF Shape, Commit, RequestsNamed, Named
    <3>2. \A t \in Sids \ {s} : after[t] = before[t]
      BY <2>3, <3>1 DEF StopShape
    <3>3. CASE ~Holds(w, s)
      BY <2>2, <2>3, <2>5, <3>2, <3>3
    <3>4. CASE Holds(w, s)
      <4>1. before[s] = "running" /\ after[s] = "recorded"
        BY <2>2, <2>4, <3>1, <3>4, LifeFacts DEF StopShape
      <4>2. after = [before EXCEPT ![s] = "recorded"]
        BY <2>2, <3>1, <3>2, <4>1
      <4>3. Lifecycle!Stop(s)
        BY <4>1, <4>2 DEF Lifecycle!Stop, before, after
      <4> QED  BY <3>1, <4>3 DEF Lifecycle!Next
    <3> QED  BY <3>3, <3>4
  <2>8. CASE req[w].op = "update"
    <3>1. UpdateShape(w, s) /\ s \in Sids
      BY <2>1, <2>8 DEF Shape, Commit, RequestsNamed, Named
    <3>2. \A t \in Sids \ {s} : after[t] = before[t]
      BY <2>3, <3>1 DEF UpdateShape
    <3>3. CASE ~Holds(w, s) \/ after[s] = before[s]
      BY <2>2, <2>3, <2>5, <3>2, <3>3
    <3>4. CASE Holds(w, s) /\ after[s] # before[s]
      <4>1. before[s] \in {"running", "recorded"} /\ after[s] \in {"running", "recorded"}
        BY <2>2, <2>4, <3>1, <3>4, LifeFacts DEF UpdateShape
      <4>2. CASE before[s] = "running"
        <5>1. after = [before EXCEPT ![s] = "recorded"]
          BY <2>2, <3>1, <3>2, <3>4, <4>1, <4>2
        <5>2. Lifecycle!Stop(s)
          BY <4>2, <5>1 DEF Lifecycle!Stop, before, after
        <5> QED  BY <3>1, <5>2 DEF Lifecycle!Next
      <4>3. CASE before[s] = "recorded"
        <5>1. after[s] = "running"
          BY <3>4, <4>1, <4>3
        <5>2. DraftOpen(s)
          <6>1. IsOpen(draft[s].row)
            BY <2>4, <3>1, <3>4, <5>1, LifeFacts
          <6> QED  BY <3>4, <6>1, WorkSessionsAssumption DEF DraftOpen, Holds
        <5>3. \A t \in Sids : before[t] # "running"
          <6> SUFFICES ASSUME NEW t \in Sids, before[t] = "running" PROVE FALSE
            OBVIOUS
          <6>1. IsOpen(sessions[t]) /\ t # s
            BY <2>2, <4>3, LifeFacts
          <6>2. Holds(w, t)
            BY <3>1, <3>4, <5>2, <6>1 DEF OneTimer, Holds
          <6> QED  BY <3>1, <6>1, <6>2 DEF UpdateShape
        <5>4. after = [before EXCEPT ![s] = "running"]
          BY <2>2, <3>1, <3>2, <5>1
        <5>5. Lifecycle!Reopen(s)
          BY <4>3, <5>3, <5>4 DEF Lifecycle!Reopen, before, after
        <5> QED  BY <3>1, <5>5 DEF Lifecycle!Next
      <4> QED  BY <4>1, <4>2, <4>3
    <3> QED  BY <3>3, <3>4
  <2>9. CASE req[w].op = "split"
    <3>1. SplitShape(w, s) /\ s \in Sids
      BY <2>1, <2>9 DEF Shape, Commit, RequestsNamed, Named
    <3>2. PICK n \in Sids :
            /\ n # s /\ Holds(w, s) /\ Holds(w, n)
            /\ \A t \in Sids : Holds(w, t) => t \in {s, n}
            /\ IsLive(sessions[s]) /\ IsRecorded(draft[s].row)
            /\ sessions[n].startedAt = Null /\ ~sessions[n].deleted /\ IsRecorded(draft[n].row)
      BY <3>1 DEF SplitShape
    <3>3. before[s] \in {"running", "recorded"} /\ before[n] = "absent"
      BY <2>2, <3>1, <3>2, LifeFacts
    <3>4. after[s] = "recorded" /\ after[n] = "recorded"
      BY <2>4, <3>1, <3>2, LifeFacts
    <3>5. \A t \in Sids \ {s, n} : after[t] = before[t]
      BY <2>3, <3>2
    <3>6. after = [before EXCEPT ![s] = "recorded", ![n] = "recorded"]
      BY <2>2, <3>1, <3>2, <3>4, <3>5
    <3>7. Lifecycle!Split(s, n)
      BY <3>3, <3>6 DEF Lifecycle!Split, before, after
    <3> QED  BY <3>1, <3>7 DEF Lifecycle!Next
  <2>10. CASE req[w].op = "delete"
    <3>1. DeleteShape(w, s) /\ s \in Sids
      BY <2>1, <2>10 DEF Shape, Commit, RequestsNamed, Named
    <3>2. \A t \in Sids \ {s} : after[t] = before[t]
      BY <2>3, <3>1 DEF DeleteShape
    <3>3. CASE ~Holds(w, s)
      BY <2>2, <2>3, <2>5, <3>2, <3>3
    <3>4. CASE Holds(w, s)
      <4>1. before[s] \in {"running", "recorded"} /\ after[s] = "deleted"
        BY <2>2, <2>4, <3>1, <3>4, LifeFacts DEF DeleteShape
      <4>2. after = [before EXCEPT ![s] = "deleted"]
        BY <2>2, <3>1, <3>2, <4>1
      <4>3. Lifecycle!Delete(s)
        BY <4>1, <4>2 DEF Lifecycle!Delete, before, after
      <4> QED  BY <3>1, <4>3 DEF Lifecycle!Next
    <3> QED  BY <3>3, <3>4
  <2>11. CASE req[w].op \notin {"start", "recover", "stop", "recoverStop", "update", "split", "delete"}
    <3>1. \A t \in Sids : ~Holds(w, t)
      BY <2>1, <2>11 DEF Shape
    <3> QED  BY <2>2, <2>3, <2>5, <3>1
  <2> QED  BY <2>6, <2>7, <2>8, <2>9, <2>10, <2>11
<1> QED  BY <1>1, <1>2, ShapeInvariant, PTL DEF Spec, LifecycleSpec, Lifecycle!Spec

-------------------------------------------------------------------------------
(* Under which session commits are filed.                                  *)

\* What a transaction is about to do to a filed commit: release it from a session it
\* deletes, or move it to the half it has just made of that session.
Moving(c, w, s, n) ==
    /\ req[w].phase = "executed"
    /\ s \in Sids /\ draft[s].by = w
    /\ \/ n = Unfiled /\ draft[s].row.deleted
       \/ /\ n \in Sids /\ draft[n].by = w
          /\ sessions[n] = Absent
          /\ draft[n].row.startedAt = draft[s].row.endedAt
          /\ draft[n].row.startedAt <= CommittedAt[c]

\* Only deletes and cuts hold commits, and they hold the sessions they move them between:
\* nobody else can write those rows, or file the commit elsewhere, before they end.
ClockInv ==
    \A c \in Commits : draftCommit[c].by # Nobody =>
        Moving(c, draftCommit[c].by, commitIn[c], draftCommit[c].in)

\* What a transaction moves stays as it is while its rows do.
LEMMA MovingFrame ==
    ASSUME NEW c \in Commits, NEW w \in Workers, NEW s, NEW n, Moving(c, w, s, n),
           req'[w] = req[w],
           \A t \in Sids : draft[t].by = w => draft'[t] = draft[t] /\ sessions'[t] = sessions[t]
    PROVE  Moving(c, w, s, n)'
  BY DEF Moving

\* A step that files no commit, writes no session and ends no transaction.
LEMMA QuietClock ==
    ASSUME TypeOK, ClockInv, NEW w \in Workers, req[w].phase # "executed",
           \A u \in Workers : u # w => req'[u] = req[u],
           sessions' = sessions, draft' = draft, draftCommit' = draftCommit,
           \A c \in Commits : draftCommit[c].by # Nobody => commitIn'[c] = commitIn[c]
    PROVE  ClockInv'
<1> SUFFICES ASSUME NEW c \in Commits, draftCommit[c].by # Nobody
             PROVE  Moving(c, draftCommit[c].by, commitIn[c], draftCommit[c].in)'
  BY DEF ClockInv
<1>1. PICK u \in Workers : u = draftCommit[c].by
  BY DEF TypeOK, DraftFiling
<1>2. Moving(c, u, commitIn[c], draftCommit[c].in)
  BY <1>1 DEF ClockInv
<1>3. u # w
  BY <1>2 DEF Moving
<1>4. PICK s, n : s = commitIn[c] /\ n = draftCommit[c].in
  OBVIOUS
<1>5. Moving(c, u, s, n)'
  BY <1>2, <1>3, <1>4, MovingFrame
<1>6. draftCommit'[c].by = u /\ commitIn'[c] = s /\ draftCommit'[c].in = n
  BY <1>1, <1>4
<1> QED  BY <1>5, <1>6 DEF Moving

\* A transaction's statements: the commits it takes are moved as its operation says, and
\* those of other transactions stay as they were.
LEMMA ExecuteClock ==
    ASSUME TypeOK, ClockInv, NEW w \in Workers, req[w].phase # "executed",
           NEW r, NEW wrote \in SUBSET Sids, NEW ws, NEW ri, NEW ci,
           Execute(w, r, wrote, ws, ri, ci), Wrote(w, r, wrote, ws),
           \A c \in Commits : ci[c] # commitIn[c] =>
               /\ commitIn[c] \in wrote
               /\ \/ ci[c] = Unfiled /\ ws[commitIn[c]].deleted
                  \/ /\ ci[c] \in wrote /\ sessions[ci[c]] = Absent
                     /\ ws[ci[c]].startedAt = ws[commitIn[c]].endedAt
                     /\ ws[ci[c]].startedAt <= CommittedAt[c]
    PROVE  ClockInv'
<1>0. w # Nobody
  BY WorkSessionsAssumption
<1>1. sessions' = sessions /\ commitIn' = commitIn
  BY DEF Execute, tables
<1>2. req'[w].phase = "executed" /\ \A u \in Workers : u # w => req'[u] = req[u]
  BY DEF TypeOK, Execute
<1> SUFFICES ASSUME NEW c \in Commits, draftCommit'[c].by # Nobody
             PROVE  Moving(c, draftCommit[c].by, commitIn[c], draftCommit[c].in)'
  BY DEF ClockInv
<1>3. CASE ci[c] # commitIn[c]
  <2>1. draftCommit'[c].by = w /\ draftCommit'[c].in = ci[c]
    BY <1>3 DEF Execute
  <2>2. PICK s, n : s = commitIn[c] /\ n = ci[c]
    OBVIOUS
  <2>3. s \in wrote /\ draft'[s].by = w /\ draft'[s].row = ws[s]
    BY <1>3, <2>2 DEF Wrote
  <2>4. Moving(c, w, s, n)'
    <3>1. CASE n = Unfiled /\ ws[s].deleted
      BY <1>2, <2>3, <3>1 DEF Moving
    <3>2. CASE /\ n \in wrote /\ sessions[n] = Absent
               /\ ws[n].startedAt = ws[s].endedAt
               /\ ws[n].startedAt <= CommittedAt[c]
      <4>1. draft'[n].by = w /\ draft'[n].row = ws[n]
        BY <3>2 DEF Wrote
      <4> QED  BY <1>1, <1>2, <2>3, <3>2, <4>1 DEF Moving
    <3> QED  BY <1>3, <2>2, <3>1, <3>2
  <2> QED  BY <1>1, <2>1, <2>2, <2>4 DEF Moving
<1>4. CASE ci[c] = commitIn[c]
  <2>1. draftCommit'[c] = draftCommit[c]
    BY <1>4 DEF Execute
  <2>2. PICK u \in Workers : u = draftCommit[c].by
    BY <2>1 DEF TypeOK, DraftFiling
  <2>3. PICK s, n : s = commitIn[c] /\ n = draftCommit[c].in
    OBVIOUS
  <2>4. Moving(c, u, s, n)
    BY <2>1, <2>2, <2>3 DEF ClockInv
  <2>5. u # w
    BY <2>4 DEF Moving
  <2>6. \A t \in Sids : draft[t].by = u => draft'[t] = draft[t] /\ sessions'[t] = sessions[t]
    BY <1>1, WorkSessionsAssumption DEF Wrote
  <2>7. Moving(c, u, s, n)'
    BY <1>2, <2>4, <2>5, <2>6, MovingFrame
  <2> QED  BY <1>1, <2>1, <2>2, <2>3, <2>7 DEF Moving
<1> QED  BY <1>3, <1>4

\* The end of a transaction frees its commits and leaves those of the others alone.
LEMMA EndClock ==
    ASSUME TypeOK, ClockInv, NEW w \in Workers, Commit(w) \/ Abandon(w)
    PROVE  ClockInv'
<1>0. w # Nobody
  BY WorkSessionsAssumption
<1>1. \A u \in Workers : u # w => req'[u] = req[u]
  BY DEF Commit, Abandon, Continue, Checked, Reply, TypeOK
<1>2. \A t \in Sids : draft[t].by # w => draft'[t] = draft[t] /\ sessions'[t] = sessions[t]
  BY DEF Commit, Abandon, Unlock, Publish, tables
<1>3. \A c \in Commits : IF draftCommit[c].by = w
                         THEN draftCommit'[c].by = Nobody
                         ELSE draftCommit'[c] = draftCommit[c] /\ commitIn'[c] = commitIn[c]
  BY DEF Commit, Abandon, Unlock, Publish, tables
<1> SUFFICES ASSUME NEW c \in Commits, draftCommit'[c].by # Nobody
             PROVE  Moving(c, draftCommit[c].by, commitIn[c], draftCommit[c].in)'
  BY DEF ClockInv
<1>4. draftCommit[c].by # w /\ draftCommit'[c] = draftCommit[c] /\ commitIn'[c] = commitIn[c]
  BY <1>3
<1>5. PICK u \in Workers : u = draftCommit[c].by
  BY <1>4 DEF TypeOK, DraftFiling
<1>6. PICK s, n : s = commitIn[c] /\ n = draftCommit[c].in
  OBVIOUS
<1>7. Moving(c, u, s, n) /\ u # w
  BY <1>4, <1>5, <1>6 DEF ClockInv
<1>8. Moving(c, u, s, n)'
  BY <1>1, <1>2, <1>7, MovingFrame
<1> QED  BY <1>4, <1>5, <1>6, <1>8 DEF Moving

\* A transaction that refiles no commit.
LEMMA SameCommits ==
    ASSUME TypeOK, Locks, ClockInv, NEW w \in Workers, req[w].phase # "executed",
           NEW r, NEW wrote \in SUBSET Sids, NEW ws, NEW ri,
           Execute(w, r, wrote, ws, ri, commitIn)
    PROVE  ClockInv'
<1>1. Wrote(w, r, wrote, ws)
  BY ExecuteEffect
<1> QED  BY <1>1, ExecuteClock

\* A cut refiles the commits from its point on, under the half that begins there.
LEMMA SplitClock ==
    ASSUME ShapeInv, ClockInv, NEW w \in Workers, SplitSession(w)
    PROVE  ClockInv'
<1> USE DEF ShapeInv, TimerInv, TypeInv
<1> DEFINE s     == req[w].sid
           at    == req[w].at
           left  == [sessions[s] EXCEPT !.endedAt = at]
           right(n) == [Running(at) EXCEPT !.endedAt = req[w].to]
           born(n)  == [sessions EXCEPT ![s] = left, ![n] = Running(at)]
           ws(n)    == [born(n) EXCEPT ![n] = right(n)]
<1>0. PICK n \in FreshSids : \E ri : Execute(w, req[w], {s, n}, ws(n), ri, Refiled(s, n, at))
  BY DEF SplitSession
<1>1. PICK ri : Execute(w, req[w], {s, n}, ws(n), ri, Refiled(s, n, at))
  BY <1>0
<1>2. /\ s \in Sids /\ req[w].phase # "executed" /\ n \in Sids
      /\ IsLive(sessions[s]) /\ sessions[n] = Absent /\ sessions[s] \in SessionRow
  BY DEF SplitSession, Ready, RequestsNamed, Named, FreshSids, TypeOK
<1>3. s # n
  BY <1>2 DEF IsLive, Absent
<1>4. ws(n)[s] = left /\ ws(n)[n] = right(n)
  BY <1>2, <1>3 DEF TypeOK
<1>5. left.endedAt = at /\ right(n).startedAt = at
  BY <1>2 DEF SessionRow, Running
<1>6. PICK u : u = ws(n)
  OBVIOUS
<1>7. u[s].endedAt = at /\ u[n].startedAt = at
  BY <1>4, <1>5, <1>6
<1>8. Execute(w, req[w], {s, n}, u, ri, Refiled(s, n, at))
  BY <1>1, <1>6
<1> HIDE DEF ws, born, left, right
<1>9. \A c \in Commits : Refiled(s, n, at)[c] # commitIn[c] =>
        commitIn[c] = s /\ Refiled(s, n, at)[c] = n /\ at <= CommittedAt[c]
  <2> SUFFICES ASSUME NEW c \in Commits, Refiled(s, n, at)[c] # commitIn[c]
               PROVE  commitIn[c] = s /\ Refiled(s, n, at)[c] = n /\ at <= CommittedAt[c]
    OBVIOUS
  <2>1. commitIn[c] = s /\ CommittedAt[c] >= at /\ Refiled(s, n, at)[c] = n
    BY DEF Refiled
  <2>2. CommittedAt[c] \in Nat /\ at \in Nat
    BY WorkSessionsAssumption, NatTimes DEF TypeOK, Request
  <2> QED  BY <2>1, <2>2
<1> HIDE DEF s, at
<1>10. {s, n} \in SUBSET Sids
  BY <1>2
<1>11. Wrote(w, req[w], {s, n}, u)
  BY <1>2, <1>8, <1>10, ExecuteEffect
<1>12. \A c \in Commits : Refiled(s, n, at)[c] # commitIn[c] =>
        /\ commitIn[c] \in {s, n}
        /\ \/ Refiled(s, n, at)[c] = Unfiled /\ u[commitIn[c]].deleted
           \/ /\ Refiled(s, n, at)[c] \in {s, n} /\ sessions[Refiled(s, n, at)[c]] = Absent
              /\ u[Refiled(s, n, at)[c]].startedAt = u[commitIn[c]].endedAt
              /\ u[Refiled(s, n, at)[c]].startedAt <= CommittedAt[c]
  BY <1>2, <1>7, <1>9
<1> QED  BY <1>2, <1>8, <1>10, <1>11, <1>12, ExecuteClock

\* A delete releases the commits of the session it deletes.
LEMMA DeleteClock ==
    ASSUME ShapeInv, ClockInv, NEW w \in Workers, DeleteSession(w)
    PROVE  ClockInv'
<1> USE DEF ShapeInv, TimerInv, TypeInv
<1> DEFINE s  == req[w].sid
           ws == [sessions EXCEPT ![s].deleted = TRUE]
           ci == Released(commitIn, s)
<1>1. Execute(w, req[w], {s}, ws, Released(runIn, s), ci)
  BY DEF DeleteSession
<1>2. s \in Sids /\ req[w].phase # "executed"
  BY DEF DeleteSession, Ready, RequestsNamed, Named
<1>3. ws[s].deleted
  BY <1>2 DEF TypeOK, SessionRow
<1>4. \A c \in Commits : ci[c] # commitIn[c] => commitIn[c] = s /\ ci[c] = Unfiled
  BY DEF Released, TypeOK
<1> HIDE DEF ws, ci, s
<1>5. {s} \in SUBSET Sids
  BY <1>2
<1>6. Wrote(w, req[w], {s}, ws)
  BY <1>1, <1>2, <1>5, ExecuteEffect
<1>7. \A c \in Commits : ci[c] # commitIn[c] =>
        /\ commitIn[c] \in {s}
        /\ \/ ci[c] = Unfiled /\ ws[commitIn[c]].deleted
           \/ /\ ci[c] \in {s} /\ sessions[ci[c]] = Absent
              /\ ws[ci[c]].startedAt = ws[commitIn[c]].endedAt
              /\ ws[ci[c]].startedAt <= CommittedAt[c]
  BY <1>3, <1>4
<1> QED  BY <1>1, <1>2, <1>5, <1>6, <1>7, ExecuteClock


\* The steps of a handler that run no transaction.
Waiting(w) ==
    \/ StartRejected(w) \/ CheckStop(w) \/ StopNotFound(w) \/ CheckUpdate(w)
    \/ UpdateNotFound(w) \/ UpdateRejected(w) \/ CheckSplit(w) \/ SplitRejected(w)
    \/ CheckDelete(w) \/ DeleteNotFound(w) \/ CheckRecover(w)
    \/ RecoverStopped(w) \/ RecoverNotFound(w) \/ RecoverAttach(w)

LEMMA WaitingStep ==
    ASSUME TypeOK, NEW w \in Workers, Waiting(w)
    PROVE  /\ sessions' = sessions /\ draft' = draft /\ runIn' = runIn
           /\ draftRun' = draftRun /\ draftCommit' = draftCommit
           /\ lone' = lone /\ settled' = settled
           /\ req[w].phase # "executed"
           /\ \A u \in Workers : u # w => req'[u] = req[u]
           /\ \A c \in Commits : draftCommit[c].by # Nobody => commitIn'[c] = commitIn[c]
           /\ \A c \in Commits : commitIn[c] \in Sids => commitIn'[c] = commitIn[c]
<1>0. Quiet(w)
  BY DEF Waiting, Quiet
<1>1. /\ sessions' = sessions /\ draft' = draft /\ req[w].phase # "executed"
      /\ \A u \in Workers : u # w => req'[u] = req[u]
  BY <1>0, QuietStep, SMTT(30)
<1>2. /\ runIn' = runIn /\ draftRun' = draftRun /\ draftCommit' = draftCommit
      /\ lone' = lone /\ settled' = settled
  BY DEF Waiting, StartRejected, CheckStop, StopNotFound, CheckUpdate, UpdateNotFound,
     UpdateRejected, CheckSplit, SplitRejected, CheckDelete, DeleteNotFound, CheckRecover,
     RecoverStopped, RecoverNotFound, RecoverAttach, FailRaw, tables, drafts
<1>3. \A c \in Commits : draftCommit[c].by # Nobody \/ commitIn[c] \in Sids
                         => commitIn'[c] = commitIn[c]
  <2>1. CASE RecoverAttach(w)
    <3>1. PICK c \in Commits : draftCommit[c].by = Nobody /\ Attach(c, req[w].sid)
      BY <2>1, SMTT(30) DEF RecoverAttach, TypeOK, Request
    <3> QED  BY <3>1, WorkSessionsAssumption DEF Attach, TypeOK
  <2>2. CASE ~RecoverAttach(w)
    BY <2>2 DEF Waiting, StartRejected, CheckStop, StopNotFound, CheckUpdate, UpdateNotFound,
       UpdateRejected, CheckSplit, SplitRejected, CheckDelete, DeleteNotFound, CheckRecover,
       RecoverStopped, RecoverNotFound, FailRaw, tables
  <2> QED  BY <2>1, <2>2
<1> QED  BY <1>1, <1>2, <1>3

\* The scanner files a commit nobody holds, and moves none that is filed.
LEMMA ScannerStep ==
    ASSUME TypeOK, ClockInv, Scanner
    PROVE  /\ UNCHANGED <<sessions, runIn, draft, draftRun, draftCommit, lone, settled, req>>
           /\ \A c \in Commits : draftCommit[c].by # Nobody => commitIn'[c] = commitIn[c]
           /\ \A c \in Commits : commitIn[c] \in Sids => commitIn'[c] = commitIn[c]
<1>1. UNCHANGED <<sessions, runIn, draft, draftRun, draftCommit, lone, settled, req>>
  BY DEF Scanner, UpsertCommit, SessionCovering, AttachCommitToSession, drafts, tables
<1>2. \A c \in Commits : draftCommit[c].by # Nobody => commitIn[c] \in Sids
  BY DEF ClockInv, Moving
<1>3. \A c \in Commits : commitIn[c] \in Sids => commitIn'[c] = commitIn[c]
  <2>1. CASE \E c \in Commits : UpsertCommit(c)
    BY <2>1, WorkSessionsAssumption DEF UpsertCommit, TypeOK
  <2>2. CASE \E c \in Commits : SessionCovering(c)
    BY <2>2 DEF SessionCovering, tables
  <2>3. CASE AttachCommitToSession
    <3>1. scan.commit \in Commits /\ Attach(scan.commit, scan.sid)
      BY <2>3 DEF AttachCommitToSession, TypeOK
    <3> QED  BY <3>1, WorkSessionsAssumption DEF Attach, TypeOK
  <2> QED  BY <2>1, <2>2, <2>3 DEF Scanner
<1> QED  BY <1>1, <1>2, <1>3

\* A handler either waits, runs a transaction's statements, or ends a transaction.
LEMMA HandlerCases ==
    ASSUME NEW w \in Workers, Handler(w)
    PROVE  \/ Waiting(w)
           \/ StartSession(w) \/ RecoverStart(w)
           \/ StopSession(w) \/ RecoverStop(w)
           \/ UpdateSession(w) \/ SplitSession(w) \/ DeleteSession(w)
           \/ RecordAgentRuns(w) \/ RecoverReconcile(w)
           \/ Commit(w) \/ Abandon(w)
  BY DEF Handler, Waiting

LEMMA StepClock ==
    ASSUME ShapeInv, ClockInv, [Next]_vars
    PROVE  ClockInv'
<1> USE DEF ShapeInv, TimerInv, TypeInv
<1>1. ASSUME NEW w \in Workers, Handler(w)
      PROVE  ClockInv'
  <2>1. CASE Waiting(w)
    BY <2>1, WaitingStep, QuietClock
  <2>2. CASE StartSession(w) \/ RecoverStart(w)
    <3>1. req[w].phase # "executed"
      BY <2>2 DEF StartSession, RecoverStart, Free, Ready
    <3>2. PICK r, at, n : n \in Sids /\ Execute(w, r, OpenSids \cup {n}, Replaced(n, at), runIn, commitIn)
      BY <2>2 DEF StartSession, RecoverStart, StartTx, FreshSids
    <3>3. OpenSids \cup {n} \in SUBSET Sids
      BY <3>2 DEF OpenSids
    <3> QED  BY <3>1, <3>2, <3>3, SameCommits
  <2>3. CASE StopSession(w) \/ RecoverStop(w) \/ UpdateSession(w)
    <3>1. req[w].phase # "executed" /\ {req[w].sid} \in SUBSET Sids
      BY <2>3 DEF StopSession, RecoverStop, UpdateSession, Ready, RequestsNamed, Named
    <3>2. PICK ws, ri : Execute(w, req[w], {req[w].sid}, ws, ri, commitIn)
      BY <2>3 DEF StopSession, RecoverStop, StopTx, UpdateSession
    <3> QED  BY <3>1, <3>2, SameCommits
  <2>4. CASE SplitSession(w)
    BY <2>4, SplitClock
  <2>5. CASE DeleteSession(w)
    BY <2>5, DeleteClock
  <2>6. CASE RecordAgentRuns(w) \/ RecoverReconcile(w)
    <3>1. PICK r, ri : Execute(w, r, {}, sessions, ri, commitIn) /\ req[w].phase # "executed"
      BY <2>6 DEF RecordAgentRuns, RecoverReconcile, Free, Ready
    <3>2. {} \in SUBSET Sids
      OBVIOUS
    <3> QED  BY <3>1, <3>2, SameCommits
  <2>7. CASE Commit(w) \/ Abandon(w)
    BY <2>7, EndClock
  <2> QED  BY <1>1, <2>1, <2>2, <2>3, <2>4, <2>5, <2>6, <2>7, HandlerCases
<1>2. ASSUME Scanner \/ UNCHANGED vars
      PROVE  ClockInv'
  <2>1. /\ UNCHANGED <<sessions, draft, draftCommit, req>>
        /\ \A c \in Commits : draftCommit[c].by # Nobody => commitIn'[c] = commitIn[c]
    BY <1>2, ScannerStep DEF vars, tables, drafts
  <2> QED  BY <2>1 DEF ClockInv, Moving
<1> QED  BY <1>1, <1>2 DEF Next

LEMMA ClockInvariant == Spec => [](ShapeInv /\ ClockInv)
<1>1. Init => ClockInv
  BY DEF Init, ClockInv
<1>2. ShapeInv /\ ClockInv /\ [Next]_vars => ClockInv'
  BY StepClock
<1> QED  BY <1>1, <1>2, ShapeInvariant, PTL DEF Spec

\* A filed commit leaves its session only when the session is deleted, which unmatches it,
\* or cut, which files it under the half that begins at or before it: also when the cut,
\* the delete, other transactions and the scanner overlap.
THEOREM CommitsKept == Spec => CommitsFollowTheClock
<1> DEFINE Follows == \A c \in Commits : LET s == commitIn[c]
                                             n == commitIn'[c] IN
              s \in Sids /\ n # s =>
                  \/ n = Unfiled /\ sessions'[s].deleted
                  \/ /\ n \in Sids
                     /\ sessions[n] = Absent
                     /\ sessions'[n].startedAt = sessions'[s].endedAt
                     /\ sessions'[n].startedAt <= CommittedAt[c]
<1>1. ShapeInv /\ ClockInv /\ [Next]_vars => [Follows]_vars
  <2> SUFFICES ASSUME ShapeInv, ClockInv, [Next]_vars, NEW c \in Commits,
                      commitIn[c] \in Sids, commitIn'[c] # commitIn[c]
               PROVE  \/ commitIn'[c] = Unfiled /\ sessions'[commitIn[c]].deleted
                      \/ /\ commitIn'[c] \in Sids
                         /\ sessions[commitIn'[c]] = Absent
                         /\ sessions'[commitIn'[c]].startedAt = sessions'[commitIn[c]].endedAt
                         /\ sessions'[commitIn'[c]].startedAt <= CommittedAt[c]
    OBVIOUS
  <2> USE DEF ShapeInv, TimerInv, TypeInv
  <2>1. PICK w \in Workers : Handler(w)
    BY ScannerStep DEF Next, vars, tables
  <2>2. ~Waiting(w)
    BY WaitingStep
  <2>3. ~(\/ StartSession(w) \/ RecoverStart(w) \/ StopSession(w) \/ RecoverStop(w)
          \/ UpdateSession(w) \/ SplitSession(w) \/ DeleteSession(w)
          \/ RecordAgentRuns(w) \/ RecoverReconcile(w) \/ Abandon(w))
    BY DEF StartSession, RecoverStart, StartTx, StopSession, RecoverStop, StopTx,
       UpdateSession, SplitSession, DeleteSession, RecordAgentRuns, RecoverReconcile,
       Abandon, Execute, tables
  <2>4. Commit(w)
    BY <2>1, <2>2, <2>3, HandlerCases
  <2>5. draftCommit[c].by = w /\ commitIn'[c] = draftCommit[c].in
    BY <2>4 DEF Commit, Publish
  <2>6. Moving(c, w, commitIn[c], commitIn'[c])
    BY <2>5, WorkSessionsAssumption DEF ClockInv
  <2>7. \A t \in Sids : draft[t].by = w => sessions'[t] = draft[t].row
    BY <2>4 DEF Commit, Publish
  <2> QED  BY <2>6, <2>7 DEF Moving
<1> QED  BY <1>1, ClockInvariant, PTL DEF Spec, CommitsFollowTheClock

-------------------------------------------------------------------------------
(* Under which session agent runs are filed.                               *)

Filed(ws, ri)    == \A r \in Runs : ri[r] \in Sids => HoldsRun(ws[ri[r]], r)
Complete(ws, ri) == \A r \in Runs : ri[r] = Unfiled => \A s \in Sids : ~HoldsRun(ws[s], r)

\* Releasing before attaching leaves every run under a session that covers it, and none
\* that a session covers without one.
LEMMA ReconciledFiled ==
    ASSUME NEW ws, NEW ri \in [Runs -> Places], NEW f \in Reconciled(ws, ri)
    PROVE  Filed(ws, f) /\ Complete(ws, f)
<1> DEFINE d == DetachUncovered(ws, ri)
<1>1. \A r \in Runs : d[r] = IF ri[r] \in Sids /\ ~HoldsRun(ws[ri[r]], r)
                             THEN Unfiled ELSE ri[r]
  BY DEF DetachUncovered
<1>2. \A r \in Runs : d[r] \in Sids => HoldsRun(ws[d[r]], r)
  BY <1>1, WorkSessionsAssumption
<1>3. \A r \in Runs :
        LET holders == {s \in Sids : HoldsRun(ws[s], r)}
        IN  IF d[r] = Unfiled /\ holders # {} THEN f[r] \in holders ELSE f[r] = d[r]
  BY DEF Reconciled, AttachCovered
<1> HIDE DEF d
<1> SUFFICES ASSUME NEW r \in Runs
             PROVE  /\ f[r] \in Sids => HoldsRun(ws[f[r]], r)
                    /\ f[r] = Unfiled => \A s \in Sids : ~HoldsRun(ws[s], r)
  BY DEF Filed, Complete
<1> DEFINE holders == {s \in Sids : HoldsRun(ws[s], r)}
<1>4. CASE d[r] = Unfiled /\ holders # {}
  <2>1. f[r] \in holders
    BY <1>3, <1>4
  <2> QED  BY <2>1, WorkSessionsAssumption
<1>5. CASE ~(d[r] = Unfiled /\ holders # {})
  <2>1. f[r] = d[r]
    BY <1>3, <1>5
  <2> QED  BY <1>2, <1>5, <2>1
<1> QED  BY <1>4, <1>5

\* Taking over from a timer and starting one move no recorded session.
LEMMA ReplacedFiled ==
    ASSUME NEW n \in Sids, sessions[n] = Absent, NEW at, Filed(sessions, runIn)
    PROVE  Filed(Replaced(n, at), runIn)
<1> SUFFICES ASSUME NEW r \in Runs, runIn[r] \in Sids
             PROVE  HoldsRun(Replaced(n, at)[runIn[r]], r)
  BY DEF Filed
<1>1. HoldsRun(sessions[runIn[r]], r)
  BY DEF Filed
<1>2. IsRecorded(sessions[runIn[r]])
  BY <1>1 DEF HoldsRun
<1>3. runIn[r] # n /\ ~IsOpen(sessions[runIn[r]])
  BY <1>2 DEF IsRecorded, IsLive, IsOpen, Absent
<1>4. Replaced(n, at)[runIn[r]] = sessions[runIn[r]]
  BY <1>3 DEF Replaced
<1> QED  BY <1>1, <1>4

\* Releasing the runs of a session lets it go.
LEMMA ReleasedFiled ==
    ASSUME TypeOK, NEW s \in Sids, NEW ws, \A t \in Sids \ {s} : ws[t] = sessions[t],
           Filed(sessions, runIn)
    PROVE  Filed(ws, Released(runIn, s))
<1> SUFFICES ASSUME NEW r \in Runs, Released(runIn, s)[r] \in Sids
             PROVE  HoldsRun(ws[Released(runIn, s)[r]], r)
  BY DEF Filed
<1>1. runIn[r] # s /\ Released(runIn, s)[r] = runIn[r]
  BY WorkSessionsAssumption DEF Released, TypeOK
<1>2. HoldsRun(sessions[runIn[r]], r)
  BY <1>1 DEF Filed
<1> QED  BY <1>1, <1>2

\* The tables as they will be if the transaction of w commits.
RowsOf(w) == [s \in Sids |-> IF draft[s].by = w THEN draft[s].row ELSE sessions[s]]
RunsOf(w) == [r \in Runs |-> IF draftRun[r].by = w THEN draftRun[r].in ELSE runIn[r]]

\* What the tables are like if the transaction of w, which has had no other beside it,
\* commits now.
Promised(w) ==
    /\ settled => Filed(RowsOf(w), RunsOf(w))
    /\ req[w].op \in Reconciling => /\ Filed(RowsOf(w), RunsOf(w))
                                   /\ Complete(RowsOf(w), RunsOf(w))

\* FiledRunsCovered is not inductive: a commit publishes what was filed before it.  So the
\* view of a transaction that has been alone has the property too, and leaves nothing unfiled
\* if its operation reconciles; nothing is asked of one that has not.
LoneInv ==
    /\ \A r \in Runs : draftRun[r].by # Nobody => req[draftRun[r].by].phase = "executed"
    /\ settled => Filed(sessions, runIn)
    /\ \A w \in Workers : lone = w =>
        /\ req[w].phase = "executed"
        /\ \A u \in Workers : req[u].phase = "executed" => u = w
        /\ Promised(w)

\* Two sets of tables that agree agree on what is filed.
LEMMA SameTables ==
    ASSUME NEW ws, NEW ri, NEW xs, NEW xi,
           \A s \in Sids : xs[s] = ws[s], \A r \in Runs : xi[r] = ri[r]
    PROVE  /\ Filed(ws, ri) => Filed(xs, xi)
           /\ Complete(ws, ri) => Complete(xs, xi)
  BY DEF Filed, Complete

\* The statements of a transaction: if none is open, its view is the one its operation made.
LEMMA ExecuteFiled ==
    ASSUME TypeOK, Locks, LoneInv, NEW w \in Workers, req[w].phase # "executed",
           NEW r \in Request, NEW wrote \in SUBSET Sids, NEW ws, NEW ri, NEW ci,
           Execute(w, r, wrote, ws, ri, ci),
           \A t \in Sids \ wrote : ws[t] = sessions[t],
           settled => Filed(ws, ri),
           r.op \in Reconciling => Filed(ws, ri) /\ Complete(ws, ri)
    PROVE  LoneInv'
<1>0. w # Nobody
  BY WorkSessionsAssumption
<1>1. Wrote(w, r, wrote, ws)
  BY ExecuteEffect
<1>2. sessions' = sessions /\ runIn' = runIn /\ settled' = settled
  BY DEF Execute, tables
<1>3. /\ req'[w].phase = "executed" /\ req'[w].op = r.op
      /\ \A u \in Workers : u # w => req'[u] = req[u]
  BY DEF TypeOK, Execute, Request
<1>4. \A x \in Runs : draftRun'[x].by # Nobody => req'[draftRun'[x].by].phase = "executed"
  <2> SUFFICES ASSUME NEW x \in Runs, draftRun'[x].by # Nobody
               PROVE  req'[draftRun'[x].by].phase = "executed"
    OBVIOUS
  <2>1. draftRun'[x] = IF ri[x] # runIn[x] THEN [by |-> w, in |-> ri[x]] ELSE draftRun[x]
    BY DEF Execute
  <2>2. CASE ri[x] # runIn[x]
    BY <1>3, <2>1, <2>2
  <2>3. CASE ri[x] = runIn[x]
    <3>1. draftRun[x].by \in Workers /\ req[draftRun[x].by].phase = "executed"
      BY <2>1, <2>3 DEF LoneInv, TypeOK, DraftFiling
    <3> QED  BY <1>3, <2>1, <2>3, <3>1
  <2> QED  BY <2>2, <2>3
<1>5. (settled => Filed(sessions, runIn))'
  BY <1>2 DEF LoneInv, Filed, HoldsRun, IsRecorded, IsLive
<1>6. CASE InFlight # {}
  <2>1. lone' = Nobody
    BY <1>6 DEF Execute
  <2> QED  BY <1>4, <1>5, <2>1, WorkSessionsAssumption DEF LoneInv
<1>7. CASE InFlight = {}
  <2>1. \A u \in Workers : req[u].phase # "executed"
    BY <1>7 DEF InFlight
  <2>2. \A s \in Sids : draft[s].by = Nobody
    BY <2>1 DEF Locks, TypeOK, DraftRow
  <2>3. \A x \in Runs : draftRun[x].by = Nobody
    BY <2>1 DEF LoneInv, TypeOK, DraftFiling
  <2>4. \A s \in Sids : RowsOf(w)'[s] = ws[s]
    <3> SUFFICES ASSUME NEW s \in Sids PROVE RowsOf(w)'[s] = ws[s]
      OBVIOUS
    <3>1. RowsOf(w)'[s] = IF draft'[s].by = w THEN draft'[s].row ELSE sessions'[s]
      BY DEF RowsOf
    <3>2. CASE s \in wrote
      BY <1>1, <3>1, <3>2 DEF Wrote
    <3>3. CASE s \notin wrote
      <4>1. draft'[s] = draft[s]
        BY <1>1, <3>3 DEF Wrote
      <4> QED  BY <1>0, <1>2, <2>2, <3>1, <3>3, <4>1
    <3> QED  BY <3>2, <3>3
  <2>5. \A x \in Runs : RunsOf(w)'[x] = ri[x]
    <3> SUFFICES ASSUME NEW x \in Runs PROVE RunsOf(w)'[x] = ri[x]
      OBVIOUS
    <3>1. RunsOf(w)'[x] = IF draftRun'[x].by = w THEN draftRun'[x].in ELSE runIn'[x]
      BY DEF RunsOf
    <3>2. CASE ri[x] # runIn[x]
      <4>1. draftRun'[x] = [by |-> w, in |-> ri[x]]
        BY <3>2 DEF Execute
      <4> QED  BY <3>1, <4>1
    <3>3. CASE ri[x] = runIn[x]
      <4>1. draftRun'[x] = draftRun[x]
        BY <3>3 DEF Execute
      <4> QED  BY <1>0, <1>2, <2>3, <3>1, <3>3, <4>1
    <3> QED  BY <3>2, <3>3
  <2>6. /\ settled => Filed(RowsOf(w)', RunsOf(w)')
        /\ r.op \in Reconciling => /\ Filed(RowsOf(w)', RunsOf(w)')
                                   /\ Complete(RowsOf(w)', RunsOf(w)')
    BY <2>4, <2>5, SameTables
  <2>7. Promised(w)'
    BY <1>2, <1>3, <2>6 DEF Promised, Filed, Complete, HoldsRun, IsRecorded, IsLive
  <2>8. lone' = w
    BY <1>7 DEF Execute
  <2>9. \A u \in Workers : req'[u].phase = "executed" => u = w
    BY <1>3, <2>1
  <2> QED  BY <1>3, <1>4, <1>5, <2>7, <2>8, <2>9 DEF LoneInv
<1> QED  BY <1>6, <1>7

\* The end of a transaction: one that had no other beside it publishes what was promised, and
\* after the commit of another nothing is.
LEMMA EndFiled ==
    ASSUME TypeOK, LoneInv, NEW w \in Workers, req[w].phase = "executed",
           Commit(w) \/ Abandon(w), req'[w].phase # "executed",
           \A u \in Workers : u # w => req'[u] = req[u]
    PROVE  LoneInv'
<1>1. Unlock(w)
  BY DEF Commit, Abandon
<1>2. lone' = Nobody
  BY <1>1 DEF Unlock, LoneInv, TypeOK
<1>3. \A x \in Runs : draftRun'[x].by # Nobody => req'[draftRun'[x].by].phase = "executed"
  <2> SUFFICES ASSUME NEW x \in Runs, draftRun'[x].by # Nobody
               PROVE  req'[draftRun'[x].by].phase = "executed"
    OBVIOUS
  <2>1. draftRun'[x] = IF draftRun[x].by = w THEN [by |-> Nobody, in |-> Unknown] ELSE draftRun[x]
    BY <1>1 DEF Unlock
  <2>2. /\ draftRun'[x] = draftRun[x] /\ draftRun[x].by # w
        /\ draftRun[x].by \in Workers /\ req[draftRun[x].by].phase = "executed"
    BY <2>1 DEF LoneInv, TypeOK, DraftFiling
  <2> QED  BY <2>2
<1>4. (settled => Filed(sessions, runIn))'
  <2>1. CASE Commit(w)
    <3> SUFFICES ASSUME settled' PROVE Filed(sessions, runIn)'
      OBVIOUS
    <3>1. lone = w /\ (settled \/ req[w].op \in Reconciling)
      BY <2>1 DEF Commit
    <3>2. Filed(RowsOf(w), RunsOf(w))
      BY <3>1 DEF LoneInv, Promised
    <3>3. sessions' = RowsOf(w) /\ runIn' = RunsOf(w)
      BY <2>1 DEF Commit, Publish, RowsOf, RunsOf
    <3> QED  BY <3>2, <3>3 DEF Filed, HoldsRun, IsRecorded, IsLive
  <2>2. CASE Abandon(w)
    BY <2>2 DEF Abandon, tables, LoneInv, Filed, HoldsRun, IsRecorded, IsLive
  <2> QED  BY <2>1, <2>2
<1> QED  BY <1>2, <1>3, <1>4, WorkSessionsAssumption DEF LoneInv

\* A step that touches no session, no run and no transaction.
LEMMA QuietFiled ==
    ASSUME TypeOK, LoneInv, UNCHANGED <<sessions, runIn, draft, draftRun, lone, settled>>,
           \A u \in Workers : \/ req'[u] = req[u]
                              \/ req[u].phase # "executed" /\ req'[u].phase # "executed"
    PROVE  LoneInv'
<1>1. \A u \in Workers :
        /\ (req'[u].phase = "executed") = (req[u].phase = "executed")
        /\ req[u].phase = "executed" => req'[u] = req[u]
  OBVIOUS
<1>2. \A x \in Runs : draftRun'[x].by # Nobody => req'[draftRun'[x].by].phase = "executed"
  BY <1>1 DEF LoneInv, TypeOK, DraftFiling
<1>3. (settled => Filed(sessions, runIn))'
  BY DEF LoneInv, Filed, HoldsRun, IsRecorded, IsLive
<1>4. ASSUME NEW w \in Workers, lone' = w
      PROVE  /\ req'[w].phase = "executed"
             /\ \A u \in Workers : req'[u].phase = "executed" => u = w
             /\ Promised(w)'
  <2>1. /\ req[w].phase = "executed" /\ Promised(w)
        /\ \A u \in Workers : req[u].phase = "executed" => u = w
    BY <1>4 DEF LoneInv
  <2>2. RowsOf(w)' = RowsOf(w) /\ RunsOf(w)' = RunsOf(w) /\ req'[w] = req[w]
    BY <1>1, <2>1 DEF RowsOf, RunsOf
  <2>3. Promised(w)'
    BY <2>1, <2>2, SMTT(30) DEF Promised, Filed, Complete, HoldsRun, IsRecorded, IsLive
  <2> QED  BY <1>1, <2>1, <2>3
<1> QED  BY <1>2, <1>3, <1>4 DEF LoneInv

\* A handler that waits is in no transaction after its step either.
LEMMA WaitingPhase ==
    ASSUME TypeOK, RequestsNamed, NEW w \in Workers, Waiting(w)
    PROVE  req'[w].phase # "executed"
<1>1. (\E r : Checked(w, r)) \/ Reply(w) \/ (\E op : FailRaw(w, op))
  BY DEF Waiting, StartRejected, CheckStop, StopNotFound, CheckUpdate,
     UpdateNotFound, UpdateRejected, CheckSplit, SplitRejected, CheckDelete,
     DeleteNotFound, CheckRecover, RecoverStopped, RecoverNotFound, RecoverAttach
<1>2. CASE \E r : Checked(w, r)
  <2>1. PICK r : req' = [req EXCEPT ![w] = [r EXCEPT !.phase = "checked"]]
    BY <1>2 DEF Checked
  <2>2. req'[w] = [r EXCEPT !.phase = "checked"]
    BY <2>1 DEF TypeOK
  <2>3. req'[w] \in Request
    BY StepType DEF TypeOK, Next, Handler, Waiting
  <2> QED  BY <2>2, <2>3 DEF Request
<1>3. CASE Reply(w)
  BY <1>3 DEF Reply, Idle, TypeOK
<1>4. CASE \E op : FailRaw(w, op)
  BY <1>4 DEF FailRaw, Idle, TypeOK
<1> QED  BY <1>1, <1>2, <1>3, <1>4, SMTT(30)

\* A worker whose transaction ended is in none.
LEMMA EndPhase ==
    ASSUME TypeOK, NEW w \in Workers, Commit(w) \/ Abandon(w)
    PROVE  /\ req'[w].phase # "executed"
           /\ \A u \in Workers : u # w => req'[u] = req[u]
<1>1. CASE Reply(w)
  BY <1>1 DEF Reply, Idle, TypeOK
<1>2. CASE req[w].op = "recover" /\ Checked(w, [req[w] EXCEPT !.op = "recoverStop"])
  BY <1>2 DEF Checked, TypeOK, Request
<1>3. CASE /\ req[w].op = "recoverStop"
           /\ Checked(w, [req[w] EXCEPT !.op = "recoverAttach",
                                        !.todo = InWindow(draft[req[w].sid].row)])
  BY <1>3 DEF Checked, TypeOK, Request
<1> QED  BY <1>1, <1>2, <1>3 DEF Commit, Abandon, Continue

LEMMA StartFiled ==
    ASSUME ShapeInv, LoneInv, NEW w \in Workers, req[w].phase # "executed",
           NEW r \in Request, r.op \in {"start", "recover"}, NEW at, StartTx(w, r, at)
    PROVE  LoneInv'
<1> USE DEF ShapeInv, TimerInv, TypeInv
<1>1. PICK n \in FreshSids :
        Execute(w, [r EXCEPT !.sid = n], OpenSids \cup {n}, Replaced(n, at), runIn, commitIn)
  BY DEF StartTx
<1>2. n \in Sids /\ sessions[n] = Absent
  BY DEF FreshSids
<1> DEFINE ws == Replaced(n, at)
           x  == [r EXCEPT !.sid = n]
<1>3. x \in Request /\ x.op = r.op
  BY <1>2 DEF Request
<1>4. OpenSids \cup {n} \in SUBSET Sids
  BY <1>2 DEF OpenSids
<1>5. \A t \in Sids \ (OpenSids \cup {n}) : ws[t] = sessions[t]
  BY DEF Replaced, OpenSids
<1>6. settled => Filed(ws, runIn)
  BY <1>2, ReplacedFiled DEF LoneInv
<1>7. x.op \notin Reconciling
  BY <1>3 DEF Reconciling
<1>8. Execute(w, x, OpenSids \cup {n}, ws, runIn, commitIn)
  BY <1>1
<1> HIDE DEF ws, x
<1> QED  BY <1>3, <1>4, <1>5, <1>6, <1>7, <1>8, ExecuteFiled

\* A transaction that reconciles after writing at most the sessions it has locked.
LEMMA ReconcilingFiled ==
    ASSUME ShapeInv, LoneInv, NEW w \in Workers, req[w].phase # "executed",
           NEW r \in Request, NEW wrote \in SUBSET Sids, NEW ws,
           NEW in \in [Runs -> Places], NEW ri \in Reconciled(ws, in), NEW ci,
           \A t \in Sids \ wrote : ws[t] = sessions[t],
           Execute(w, r, wrote, ws, ri, ci)
    PROVE  LoneInv'
<1> USE DEF ShapeInv, TimerInv, TypeInv
<1>1. Filed(ws, ri) /\ Complete(ws, ri)
  BY ReconciledFiled
<1> QED  BY <1>1, ExecuteFiled

LEMMA SplitFiled ==
    ASSUME ShapeInv, LoneInv, NEW w \in Workers, SplitSession(w)
    PROVE  LoneInv'
<1> USE DEF ShapeInv, TimerInv, TypeInv
<1> DEFINE s     == req[w].sid
           at    == req[w].at
           left  == [sessions[s] EXCEPT !.endedAt = at]
           right(n) == [Running(at) EXCEPT !.endedAt = req[w].to]
           born(n)  == [sessions EXCEPT ![s] = left, ![n] = Running(at)]
           ws(n)    == [born(n) EXCEPT ![n] = right(n)]
<1>0. PICK n \in FreshSids : \E ri \in Reconciled(ws(n), runIn) :
        Execute(w, req[w], {s, n}, ws(n), ri, Refiled(s, n, at))
  BY DEF SplitSession
<1>1. PICK ri \in Reconciled(ws(n), runIn) :
        Execute(w, req[w], {s, n}, ws(n), ri, Refiled(s, n, at))
  BY <1>0
<1>2. /\ s \in Sids /\ req[w].phase # "executed" /\ n \in Sids /\ req[w] \in Request
      /\ runIn \in [Runs -> Places]
  BY DEF SplitSession, Ready, RequestsNamed, Named, FreshSids, TypeOK
<1>3. \A t \in Sids \ {s, n} : ws(n)[t] = sessions[t]
  BY DEF TypeOK
<1>4. PICK u, ci : u = ws(n) /\ ci = Refiled(s, n, at)
  OBVIOUS
<1>5. /\ ri \in Reconciled(u, runIn) /\ Execute(w, req[w], {s, n}, u, ri, ci)
      /\ \A t \in Sids \ {s, n} : u[t] = sessions[t]
  BY <1>1, <1>3, <1>4
<1> HIDE DEF ws, born, left, right, s, at
<1>6. {s, n} \in SUBSET Sids
  BY <1>2
<1> QED  BY <1>2, <1>5, <1>6, ReconcilingFiled

LEMMA DeleteFiled ==
    ASSUME ShapeInv, LoneInv, NEW w \in Workers, DeleteSession(w)
    PROVE  LoneInv'
<1> USE DEF ShapeInv, TimerInv, TypeInv
<1> DEFINE s  == req[w].sid
           ws == [sessions EXCEPT ![s].deleted = TRUE]
<1>1. Execute(w, req[w], {s}, ws, Released(runIn, s), Released(commitIn, s))
  BY DEF DeleteSession
<1>2. /\ s \in Sids /\ req[w].phase # "executed" /\ req[w] \in Request
      /\ req[w].op \notin Reconciling
  BY DEF DeleteSession, Ready, RequestsNamed, Named, TypeOK, Reconciling
<1>3. \A t \in Sids \ {s} : ws[t] = sessions[t]
  BY DEF TypeOK
<1> HIDE DEF ws, s
<1>4. {s} \in SUBSET Sids
  BY <1>2
<1>5. settled => Filed(ws, Released(runIn, s))
  BY <1>2, <1>3, ReleasedFiled DEF LoneInv
<1> QED  BY <1>1, <1>2, <1>3, <1>4, <1>5, ExecuteFiled

LEMMA StepFiled ==
    ASSUME ShapeInv, ClockInv, LoneInv, [Next]_vars
    PROVE  LoneInv'
<1> USE DEF ShapeInv, TimerInv, TypeInv
<1>1. ASSUME NEW w \in Workers, Handler(w)
      PROVE  LoneInv'
  <2>0. req[w] \in Request /\ runIn \in [Runs -> Places]
    BY DEF TypeOK
  <2>1. CASE Waiting(w)
    <3>1. UNCHANGED <<sessions, runIn, draft, draftRun, lone, settled>>
      BY <2>1, WaitingStep
    <3>2. \A u \in Workers : \/ req'[u] = req[u]
                             \/ req[u].phase # "executed" /\ req'[u].phase # "executed"
      BY <2>1, WaitingStep, WaitingPhase
    <3> QED  BY <3>1, <3>2, QuietFiled
  <2>2. CASE StartSession(w)
    <3>1. [Idle EXCEPT !.op = "start"] \in Request /\ [Idle EXCEPT !.op = "start"].op = "start"
      BY IdleType DEF Request, Ops, Idle
    <3>2. req[w].phase # "executed" /\ \E at : StartTx(w, [Idle EXCEPT !.op = "start"], at)
      BY <2>2 DEF StartSession, Free
    <3> QED  BY <3>1, <3>2, StartFiled
  <2>3. CASE RecoverStart(w)
    <3>1. /\ req[w].phase # "executed" /\ req[w].op = "recover"
          /\ StartTx(w, req[w], req[w].at)
      BY <2>3 DEF RecoverStart, Ready
    <3> QED  BY <2>0, <3>1, StartFiled
  <2>4. CASE StopSession(w) \/ RecoverStop(w) \/ UpdateSession(w)
    <3>1. req[w].phase # "executed" /\ req[w].sid \in Sids
      BY <2>4 DEF StopSession, RecoverStop, UpdateSession, Ready, RequestsNamed, Named
    <3>2. PICK row : LET ws == [sessions EXCEPT ![req[w].sid] = row] IN
            \E ri \in Reconciled(ws, runIn) : Execute(w, req[w], {req[w].sid}, ws, ri, commitIn)
      BY <2>4 DEF StopSession, RecoverStop, StopTx, UpdateSession
    <3> DEFINE ws == [sessions EXCEPT ![req[w].sid] = row]
    <3>3. PICK ri \in Reconciled(ws, runIn) : Execute(w, req[w], {req[w].sid}, ws, ri, commitIn)
      BY <3>2
    <3>4. \A t \in Sids \ {req[w].sid} : ws[t] = sessions[t]
      BY DEF TypeOK
    <3>5. {req[w].sid} \in SUBSET Sids
      BY <3>1
    <3> HIDE DEF ws
    <3> QED  BY <2>0, <3>1, <3>3, <3>4, <3>5, ReconcilingFiled
  <2>5. CASE SplitSession(w)
    BY <2>5, SplitFiled
  <2>6. CASE DeleteSession(w)
    BY <2>6, DeleteFiled
  <2>7. CASE RecordAgentRuns(w) \/ RecoverReconcile(w)
    <3>1. PICK r \in Request, in \in [Runs -> Places] :
            /\ req[w].phase # "executed"
            /\ \E ri \in Reconciled(sessions, in) : Execute(w, r, {}, sessions, ri, commitIn)
      <4>1. CASE RecordAgentRuns(w)
        <5>1. [Idle EXCEPT !.op = "record"] \in Request
          BY IdleType DEF Request, Ops
        <5>2. PICK batch \in SUBSET Runs :
                LET new      == {r \in batch : runIn[r] = Unknown}
                    inserted == [r \in Runs |-> IF r \in new THEN Unfiled ELSE runIn[r]]
                IN  \E ri \in Reconciled(sessions, inserted) :
                      Execute(w, [Idle EXCEPT !.op = "record"], {}, sessions, ri, commitIn)
          BY <4>1 DEF RecordAgentRuns
        <5> DEFINE new      == {r \in batch : runIn[r] = Unknown}
                   inserted == [r \in Runs |-> IF r \in new THEN Unfiled ELSE runIn[r]]
        <5>3. inserted \in [Runs -> Places]
          BY <2>0 DEF Places
        <5>4. req[w].phase # "executed"
          BY <4>1 DEF RecordAgentRuns, Free
        <5> QED  BY <5>1, <5>2, <5>3, <5>4
      <4>2. CASE RecoverReconcile(w)
        BY <2>0, <4>2 DEF RecoverReconcile, Ready
      <4> QED  BY <2>7, <4>1, <4>2
    <3>2. PICK ri \in Reconciled(sessions, in) : Execute(w, r, {}, sessions, ri, commitIn)
      BY <3>1
    <3>3. {} \in SUBSET Sids /\ \A t \in Sids \ {} : sessions[t] = sessions[t]
      OBVIOUS
    <3> QED  BY <3>1, <3>2, <3>3, ReconcilingFiled
  <2>8. CASE Commit(w)
    <3>1. /\ req[w].phase = "executed" /\ req'[w].phase # "executed"
          /\ \A u \in Workers : u # w => req'[u] = req[u]
      BY <2>8, EndPhase DEF Commit
    <3> QED  BY <2>8, <3>1, EndFiled
  <2>9. CASE Abandon(w)
    <3>1. CASE req[w].phase = "executed"
      BY <2>9, <3>1, EndPhase, EndFiled
    <3>2. CASE req[w].phase # "executed"
      <4>1. \A s \in Sids : draft[s].by # w
        BY <3>2, WorkSessionsAssumption DEF Locks
      <4>2. \A x \in Runs : draftRun[x].by # w
        BY <3>2, WorkSessionsAssumption DEF LoneInv
      <4>3. UNCHANGED <<sessions, runIn, draft, draftRun, lone, settled>>
        BY <2>9, <3>2, <4>1, <4>2 DEF Abandon, Unlock, tables, TypeOK, LoneInv
      <4>4. \A u \in Workers : \/ req'[u] = req[u]
                               \/ req[u].phase # "executed" /\ req'[u].phase # "executed"
        BY <2>9, <3>2, EndPhase
      <4> QED  BY <4>3, <4>4, QuietFiled
    <3> QED  BY <3>1, <3>2
  <2> QED  BY <1>1, <2>1, <2>2, <2>3, <2>4, <2>5, <2>6, <2>7, <2>8, <2>9, HandlerCases
<1>2. ASSUME Scanner \/ UNCHANGED vars
      PROVE  LoneInv'
  <2>1. UNCHANGED <<sessions, runIn, draft, draftRun, lone, settled, req>>
    BY <1>2, ScannerStep DEF vars, tables, drafts
  <2> QED  BY <2>1, QuietFiled
<1> QED  BY <1>1, <1>2 DEF Next


LEMMA InitFiled == Init => LoneInv
  BY WorkSessionsAssumption DEF Init, LoneInv, Filed, Idle

LEMMA LoneInvariant == Spec => [](ShapeInv /\ ClockInv /\ LoneInv)
<1>1. ShapeInv /\ ClockInv /\ LoneInv /\ [Next]_vars => LoneInv'
  BY StepFiled
<1> QED  BY <1>1, InitFiled, ClockInvariant, PTL DEF Spec

\* Whatever the checks saw before, wherever a transaction is abandoned and however many are
\* open at once, a run is filed only under a recorded session that covers it, save between the
\* commit of transactions that overlapped and the next reconcile by one that had no other
\* beside it.
THEOREM RunsCovered == Spec => []FiledRunsCovered
<1>1. LoneInv => FiledRunsCovered
  BY DEF LoneInv, Filed, FiledRunsCovered
<1> QED  BY <1>1, LoneInvariant, PTL

\* Such a reconcile, by a stop, an edit, a cut, a report of runs or the end of a recovery,
\* leaves no run a session covers unfiled and no run filed where it is not covered, whatever
\* overlapping transactions left behind.
THEOREM NoneLeftUnfiled == Spec => ReconcileComplete
<1> DEFINE Settles ==
        \A w \in Workers :
            Commit(w) /\ lone = w /\ req[w].op \in Reconciling
            => \A r \in Runs :
                /\ runIn'[r] \in Sids => HoldsRun(sessions'[runIn'[r]], r)
                /\ runIn'[r] = Unfiled => \A s \in Sids : ~HoldsRun(sessions'[s], r)
<1>1. LoneInv /\ [Next]_vars => [Settles]_vars
  <2> SUFFICES ASSUME LoneInv, NEW w \in Workers, Commit(w), lone = w,
                      req[w].op \in Reconciling, NEW r \in Runs
               PROVE  /\ runIn'[r] \in Sids => HoldsRun(sessions'[runIn'[r]], r)
                      /\ runIn'[r] = Unfiled => \A s \in Sids : ~HoldsRun(sessions'[s], r)
    OBVIOUS
  <2>1. sessions' = RowsOf(w) /\ runIn' = RunsOf(w)
    BY DEF Commit, Publish, RowsOf, RunsOf
  <2>2. Filed(RowsOf(w), RunsOf(w)) /\ Complete(RowsOf(w), RunsOf(w))
    BY DEF LoneInv, Promised
  <2> QED  BY <2>1, <2>2 DEF Filed, Complete
<1> QED  BY <1>1, LoneInvariant, PTL DEF Spec, ReconcileComplete
=============================================================================
