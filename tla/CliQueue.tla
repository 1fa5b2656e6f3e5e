-------------------------------- MODULE CliQueue --------------------------------
(***************************************************************************)
(* The queue of finished agent turns on a user's machine: a hook appends a *)
(* line per turn, and any number of processes (`punchcard sync', the       *)
(* commands that flush on the side, the detached child of the hook) claim  *)
(* the queue by renaming it, send it and put back what was not taken.      *)
(*                                                                         *)
(* A file is an inode: a rename moves the name, a process that opened the  *)
(* file before keeps writing to it.  Lines are the external ids of turns;  *)
(* their order and repetition do not matter, the server takes each id once.*)
(* Every action is one system call (or one read to the end), so that the   *)
(* hook, the flushes and a kill can fall between any two of them.          *)
(***************************************************************************)
EXTENDS Integers, FiniteSets

CONSTANTS
    Turns,          \* finished turns, by external id
    Syncers,        \* processes that may flush the queue
    Files,          \* bound: files that can exist at once, linked or open
    BatchSize,      \* syncBatchSize, the server's cap per request
    MaxKills,       \* bound: syncers killed half way
    GivenFirst,     \* pairs of files: the first is given out before the second
    NoFile          \* not a file

ASSUME CliQueueAssumption ==
    /\ BatchSize \in Nat \ {0}
    /\ MaxKills \in Nat
    /\ NoFile \notin Files
    /\ GivenFirst \subseteq Files \X Files
    /\ IsFiniteSet(Turns)

VARIABLES
    where,          \* the name a file has: "queue", "sending" (a claimed batch), "gone"
    lines,          \* what a file contains
    stale,          \* files last written longer than orphanAfter ago
    hook,           \* the hook process of each turn
    sync,           \* each syncer
    server,         \* turns the server has recorded
    exposed,        \* history: turns that met one of the windows named below
    kills

vars == <<where, lines, stale, hook, sync, server, exposed, kills>>

-------------------------------------------------------------------------------
Names  == {"queue", "sending", "gone"}
Steps  == {"idle", "orphans", "restore", "claimed", "sending", "putback",
           "open", "write", "finish"}
Hook   == [pc : {"turn", "opened", "done"}, fd : Files \cup {NoFile}]
Syncer == [pc : Steps, todo : SUBSET Files, batch : Files \cup {NoFile},
           fd : Files \cup {NoFile}, left : SUBSET Turns, buf : SUBSET Turns]

Away == [pc |-> "idle", todo |-> {}, batch |-> NoFile, fd |-> NoFile,
         left |-> {}, buf |-> {}]

Queue   == {f \in Files : where[f] = "queue"}
Queued  == UNION {lines[f] : f \in Queue}
InUse   == {hook[t].fd : t \in Turns} \cup {sync[p].fd : p \in Syncers}
               \cup {sync[p].batch : p \in Syncers} \cup UNION {sync[p].todo : p \in Syncers}
Unused  == {f \in Files : where[f] = "gone" /\ f \notin InUse}
NewFile == {f \in Unused : \A g \in Unused : <<g, f>> \notin GivenFirst}

At(p, pc)    == sync[p].pc = pc
Go(p, r)     == sync' = [sync EXCEPT ![p] = r]

\* A process holds the queue's text in memory and is about to replace the file by it.
Rewriting(p) == sync[p].pc \in {"open", "write"}
Rewritten    == UNION {sync[p].buf : p \in {q \in Syncers : Rewriting(q)}}

\* What a file without a name contains can never be read again, and is forgotten.
Put(f, text) == /\ lines' = IF where[f] = "gone" THEN lines ELSE [lines EXCEPT ![f] = text]
                /\ stale' = stale \ {f}

\* os.Remove: no error is looked at, so a file that is gone already is fine.
Remove(f) == /\ where' = [where EXCEPT ![f] = "gone"]
             /\ lines' = [lines EXCEPT ![f] = {}]
             /\ stale' = stale \ {f}

\* Opening the queue for writing: the file that has the name, or a new one.
Opened(f) == IF Queue = {} THEN f \in NewFile ELSE f \in Queue

-------------------------------------------------------------------------------
(* The hook: appendQueue.                                                  *)

OpenQueue(t) ==
    /\ hook[t].pc = "turn"
    /\ \E f \in Files :
        /\ Opened(f)
        /\ hook' = [hook EXCEPT ![t] = [pc |-> "opened", fd |-> f]]
        /\ where' = [where EXCEPT ![f] = "queue"]
        /\ lines' = IF f \in Queue THEN lines ELSE [lines EXCEPT ![f] = {}]
        /\ stale' = IF f \in Queue THEN stale ELSE stale \ {f}
    /\ UNCHANGED <<sync, server, exposed, kills>>

\* The line goes to the file that was opened, whatever its name is by now.  Two windows:
\* the file was claimed since, or a put-back is about to overwrite it.
AppendLine(t) ==
    /\ hook[t].pc = "opened"
    /\ LET f == hook[t].fd IN
        /\ Put(f, lines[f] \cup {t})
        /\ exposed' = IF f \in Queue /\ ~\E p \in Syncers : Rewriting(p)
                      THEN exposed ELSE exposed \cup {t}
    /\ hook' = [hook EXCEPT ![t] = [pc |-> "done", fd |-> NoFile]]
    /\ UNCHANGED <<where, sync, server, kills>>

-------------------------------------------------------------------------------
(* recoverOrphans: put back the batches that look abandoned.               *)

\* Fault: the age is compared the wrong way round.
IsFresh(f) == where[f] = "sending" /\ f \notin stale

IsOrphan(f) == where[f] = "sending" /\ f \in stale

\* The directory is listed and the ages are read.
StartSync(p) ==
    /\ At(p, "idle")
    /\ Go(p, [Away EXCEPT !.pc = "orphans", !.todo = {f \in Files : IsOrphan(f)}])
    /\ UNCHANGED <<where, lines, stale, hook, server, exposed, kills>>

\* Fault: a line that cannot be read is kept.
KeptUnreadable(f) == IF where[f] = "sending" THEN lines[f] ELSE {f}

\* A batch that is gone cannot be opened and reads as empty.
Contents(f) == IF where[f] = "sending" THEN lines[f] ELSE {}

ReadOrphan(p) ==
    /\ At(p, "orphans")
    /\ \E f \in sync[p].todo :
        Go(p, [sync[p] EXCEPT !.pc = "restore", !.todo = @ \ {f}, !.batch = f,
                              !.left = Contents(f)])
    /\ UNCHANGED <<where, lines, stale, hook, server, exposed, kills>>

\* restoreQueue removes the batch before its lines are anywhere else.
RemoveOrphan(p) ==
    /\ At(p, "restore")
    /\ Remove(sync[p].batch)
    /\ Go(p, [sync[p] EXCEPT !.batch = NoFile,
                             !.pc = IF sync[p].left = {} THEN "orphans" ELSE "putback"])
    /\ UNCHANGED <<hook, server, exposed, kills>>

-------------------------------------------------------------------------------
(* claimQueue and the loop of syncQueue.                                   *)

\* Claiming a file a put-back has opened: what it will write lands in the batch.
ClaimQueue(p) ==
    /\ At(p, "orphans")
    /\ sync[p].todo = {}
    /\ \E f \in Queue :
        /\ where' = [where EXCEPT ![f] = "sending"]
        /\ Go(p, [Away EXCEPT !.pc = "claimed", !.batch = f])
        /\ exposed' = exposed \cup UNION {sync[q].buf : q \in {o \in Syncers : sync[o].fd = f}}
    /\ UNCHANGED <<lines, stale, hook, server, kills>>

NothingQueued(p) ==
    /\ At(p, "orphans")
    /\ sync[p].todo = {}
    /\ Queue = {}
    /\ Go(p, Away)
    /\ UNCHANGED <<where, lines, stale, hook, server, exposed, kills>>

ReadBatch(p) ==
    /\ At(p, "claimed")
    /\ LET f == sync[p].batch
           read == Contents(f)
       IN  IF read = {} THEN Remove(f) /\ Go(p, Away)
           ELSE /\ Go(p, [sync[p] EXCEPT !.pc = "sending", !.left = read])
                /\ UNCHANGED <<where, lines, stale>>
    /\ UNCHANGED <<hook, server, exposed, kills>>

\* runs[start:end]: full batches, and a last one with what remains.
Batch(p, b) == IF Cardinality(sync[p].left) <= BatchSize THEN b = sync[p].left
               ELSE b \subseteq sync[p].left /\ Cardinality(b) = BatchSize

\* The server took the batch and its answer arrived.
SendBatch(p) ==
    /\ At(p, "sending")
    /\ \E b \in SUBSET Turns :
        /\ Batch(p, b)
        /\ server' = server \cup b
        /\ Go(p, [sync[p] EXCEPT !.left = @ \ b,
                                 !.pc = IF sync[p].left = b THEN "finish" ELSE "sending"])
    /\ UNCHANGED <<where, lines, stale, hook, exposed, kills>>

\* Fault: only the refused batch is put back, not the ones after it.
UnsentBatch(p, b) == b

\* It did not, or only the answer was lost: runs[start:] goes back.
Unsent(p, b) == sync[p].left

SendFails(p) ==
    /\ At(p, "sending")
    /\ \E b \in SUBSET Turns :
        /\ Batch(p, b)
        /\ server' \in {server, server \cup b}
        /\ Go(p, [sync[p] EXCEPT !.left = Unsent(p, b), !.pc = "putback"])
    /\ UNCHANGED <<where, lines, stale, hook, exposed, kills>>

-------------------------------------------------------------------------------
(* writeQueueLines, for a failed batch and for an orphan.                  *)

\* Two put-backs at once: the second does not read what the first is writing.
Merge(p) ==
    /\ At(p, "putback")
    /\ Go(p, [sync[p] EXCEPT !.pc = "open", !.buf = sync[p].left \cup Queued])
    /\ exposed' = IF Rewritten = {} THEN exposed
                  ELSE exposed \cup Rewritten \cup sync[p].left \cup Queued
    /\ UNCHANGED <<where, lines, stale, hook, server, kills>>

\* os.WriteFile opens with O_TRUNC ...
Truncate(p) ==
    /\ At(p, "open")
    /\ \E f \in Files :
        /\ Opened(f)
        /\ where' = [where EXCEPT ![f] = "queue"]
        /\ lines' = [lines EXCEPT ![f] = {}]
        /\ stale' = stale \ {f}
        /\ Go(p, [sync[p] EXCEPT !.pc = "write", !.fd = f])
    /\ UNCHANGED <<hook, server, exposed, kills>>

\* ... and writes from the start of the file, over what was appended in between: of
\* that, lines beyond the end of the text may be left.
WriteLines(p) ==
    /\ At(p, "write")
    /\ LET f == sync[p].fd IN
        /\ \E kept \in SUBSET lines[f] :
            /\ kept # lines[f] \/ lines[f] = {}
            /\ Put(f, sync[p].buf \cup kept)
    /\ Go(p, [sync[p] EXCEPT !.pc = IF sync[p].batch = NoFile THEN "orphans" ELSE "finish",
                             !.fd = NoFile, !.left = {}, !.buf = {}])
    /\ UNCHANGED <<where, hook, server, exposed, kills>>

\* The batch goes last: everything in it was sent or is back in the queue.
RemoveBatch(p) ==
    /\ At(p, "finish")
    /\ Remove(sync[p].batch)
    /\ Go(p, Away)
    /\ UNCHANGED <<hook, server, exposed, kills>>

-------------------------------------------------------------------------------
(* The machine.                                                            *)

\* What only a killed syncer held: the text it was writing, or an orphan it had removed.
OnlyCopy(p) == IF At(p, "write") THEN sync[p].buf
               ELSE IF At(p, "putback") /\ sync[p].batch = NoFile THEN sync[p].left
               ELSE IF At(p, "open") /\ sync[p].batch = NoFile THEN sync[p].left ELSE {}

Kill(p) ==
    /\ ~At(p, "idle")
    /\ kills < MaxKills
    /\ kills' = kills + 1
    /\ exposed' = exposed \cup OnlyCopy(p)
    /\ Go(p, Away)
    /\ UNCHANGED <<where, lines, stale, hook, server>>

Owned(f) == \E p \in Syncers : sync[p].batch = f

\* orphanAfter passes: over a queue nobody writes to, or a batch nobody is sending.  A
\* send never takes that long.  A rename does not touch the modification time.
Age(f) ==
    /\ \/ where[f] = "queue"
       \/ where[f] = "sending" /\ ~Owned(f)
    /\ f \notin stale
    /\ stale' = stale \cup {f}
    /\ UNCHANGED <<where, lines, hook, sync, server, exposed, kills>>

-------------------------------------------------------------------------------
Init ==
    /\ where = [f \in Files |-> "gone"]
    /\ lines = [f \in Files |-> {}]
    /\ stale = {}
    /\ hook = [t \in Turns |-> [pc |-> "turn", fd |-> NoFile]]
    /\ sync = [p \in Syncers |-> Away]
    /\ server = {}
    /\ exposed = {}
    /\ kills = 0

Flush(p) ==
    \/ ReadOrphan(p) \/ RemoveOrphan(p)
    \/ ClaimQueue(p) \/ NothingQueued(p) \/ ReadBatch(p)
    \/ SendBatch(p) \/ SendFails(p)
    \/ Merge(p) \/ Truncate(p) \/ WriteLines(p) \/ RemoveBatch(p)

Next ==
    \/ \E t \in Turns : OpenQueue(t) \/ AppendLine(t)
    \/ \E p \in Syncers : StartSync(p) \/ Flush(p) \/ Kill(p)
    \/ \E f \in Files : Age(f)

Spec == Init /\ [][Next]_vars

\* The user keeps working, so that flushes keep being started and run on; ten minutes pass
\* over an orphan.  Asked for ever, the server takes a batch; and of flushes for ever, one
\* reads the file it renamed a moment ago before another one takes it for an orphan.
Fairness ==
    /\ \A p \in Syncers : /\ WF_vars(StartSync(p))
                          /\ WF_vars(Flush(p))
                          /\ SF_vars(ReadBatch(p) /\ sync'[p].left # {})
                          /\ SF_vars(SendBatch(p))
    /\ \A f \in Files : WF_vars(where[f] = "sending" /\ Age(f))
    /\ \A t \in Turns : WF_vars(AppendLine(t))

FairSpec == Spec /\ Fairness

-------------------------------------------------------------------------------
(* Properties.                                                             *)

\* Every variable has its type; files, syncers and turns are known ones.
TypeOK ==
    /\ where \in [Files -> Names]
    /\ lines \in [Files -> SUBSET Turns]
    /\ stale \subseteq Files
    /\ hook \in [Turns -> Hook]
    /\ sync \in [Syncers -> Syncer]
    /\ server \subseteq Turns
    /\ exposed \subseteq Turns
    /\ kills \in 0 .. MaxKills

Appended(t) == hook[t].pc = "done"
Linked      == UNION {lines[f] : f \in {g \in Files : where[g] # "gone"}}
Carried     == UNION {sync[p].left \cup sync[p].buf : p \in Syncers}

\* syncQueue and recoverOrphans: a turn that was appended is on the server, in a file a
\* later flush will find, or in the hands of a running one, unless it met one of the
\* windows that mark it exposed.  No failed send, lost answer, stolen batch or kill
\* anywhere else loses a line.
LossesExplained ==
    \A t \in Turns : Appended(t) => t \in server \cup Linked \cup Carried \cup exposed

\* A killed flush, a refused batch or an unanswered one only delays a turn.
Delivered == \A t \in Turns : Appended(t) ~> t \in server \cup exposed

\* appendQueue: "there is no window where an append can be lost", no process being killed.
AppendsKept ==
    kills = 0 => \A t \in Turns : Appended(t) => t \in server \cup Linked \cup Carried
===============================================================================
