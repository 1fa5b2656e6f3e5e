---------------------------- MODULE CliQueueProofs ----------------------------
(***************************************************************************)
(* Proofs about CliQueue, for any number of turns, syncers, files and      *)
(* kills, and any batch size.                                              *)
(***************************************************************************)
EXTENDS CliQueue, TLAPS

-------------------------------------------------------------------------------
(* Types, and what each action does to the syncer that takes it.           *)

Others(p) == \A q \in Syncers \ {p} : sync'[q] = sync[q]

\* The step of a syncer leaves it with these.
Becomes(p, pc, todo, batch, fd, left, buf) ==
    /\ sync' \in [Syncers -> Syncer]
    /\ sync'[p].pc = pc /\ sync'[p].todo = todo /\ sync'[p].batch = batch
    /\ sync'[p].fd = fd /\ sync'[p].left = left /\ sync'[p].buf = buf
    /\ Others(p)

LEMMA Going ==
    ASSUME TypeOK, NEW p \in Syncers, NEW row \in Syncer, Go(p, row)
    PROVE  Becomes(p, row.pc, row.todo, row.batch, row.fd, row.left, row.buf)
  BY DEF TypeOK, Go, Becomes, Others

LEMMA SyncerParts ==
    ASSUME TypeOK, NEW p \in Syncers
    PROVE  /\ sync[p] \in Syncer /\ sync[p].pc \in Steps /\ sync[p].todo \subseteq Files
           /\ sync[p].batch \in Files \cup {NoFile} /\ sync[p].fd \in Files \cup {NoFile}
           /\ sync[p].left \subseteq Turns /\ sync[p].buf \subseteq Turns
  BY DEF TypeOK, Syncer

LEMMA AwayType == Away \in Syncer
  BY DEF Away, Syncer, Steps

LEMMA StartSyncBecomes ==
    ASSUME TypeOK, NEW p \in Syncers, StartSync(p)
    PROVE  Becomes(p, "orphans", {f \in Files : IsOrphan(f)}, NoFile, NoFile, {}, {})
<1> DEFINE row == [Away EXCEPT !.pc = "orphans", !.todo = {f \in Files : IsOrphan(f)}]
<1>1. /\ row \in Syncer /\ row.pc = "orphans" /\ row.todo = {f \in Files : IsOrphan(f)}
      /\ row.batch = NoFile /\ row.fd = NoFile /\ row.left = {} /\ row.buf = {}
  BY DEF Away, Syncer, Steps
<1>2. Go(p, row)
  BY DEF StartSync
<1> HIDE DEF row
<1> QED  BY <1>1, <1>2, Going

LEMMA GoesAway ==
    ASSUME TypeOK, NEW p \in Syncers, Go(p, Away)
    PROVE  Becomes(p, "idle", {}, NoFile, NoFile, {}, {})
<1>1. /\ Away.pc = "idle" /\ Away.todo = {} /\ Away.batch = NoFile /\ Away.fd = NoFile
      /\ Away.left = {} /\ Away.buf = {}
  BY DEF Away
<1> QED  BY <1>1, AwayType, Going

LEMMA ReadOrphanBecomes ==
    ASSUME TypeOK, NEW p \in Syncers, ReadOrphan(p)
    PROVE  \E f \in sync[p].todo :
              Becomes(p, "restore", sync[p].todo \ {f}, f, sync[p].fd, Contents(f), sync[p].buf)
<1>1. PICK f \in sync[p].todo :
         Go(p, [sync[p] EXCEPT !.pc = "restore", !.todo = @ \ {f}, !.batch = f, !.left = Contents(f)])
  BY DEF ReadOrphan
<1> DEFINE row == [sync[p] EXCEPT !.pc = "restore", !.todo = sync[p].todo \ {f}, !.batch = f, !.left = Contents(f)]
<1>2. f \in Files /\ Contents(f) \subseteq Turns
  BY DEF TypeOK, Syncer, Contents
<1>3. /\ row \in Syncer /\ row.pc = "restore" /\ row.todo = sync[p].todo \ {f}
      /\ row.batch = f /\ row.fd = sync[p].fd /\ row.left = Contents(f) /\ row.buf = sync[p].buf
  BY <1>2, SyncerParts DEF Syncer, Steps
<1>4. Go(p, row)
  BY <1>1, SyncerParts DEF Syncer
<1> HIDE DEF row
<1> QED  BY <1>3, <1>4, Going

LEMMA RemoveOrphanBecomes ==
    ASSUME TypeOK, NEW p \in Syncers, RemoveOrphan(p)
    PROVE  Becomes(p, IF sync[p].left = {} THEN "orphans" ELSE "putback", sync[p].todo, NoFile,
                   sync[p].fd, sync[p].left, sync[p].buf)
<1> DEFINE pc == IF sync[p].left = {} THEN "orphans" ELSE "putback"
           row == [sync[p] EXCEPT !.batch = NoFile, !.pc = pc]
<1>1. /\ row \in Syncer /\ row.pc = pc /\ row.todo = sync[p].todo
      /\ row.batch = NoFile /\ row.fd = sync[p].fd /\ row.left = sync[p].left /\ row.buf = sync[p].buf
  BY SyncerParts DEF Syncer, Steps
<1>2. Go(p, row)
  BY DEF RemoveOrphan
<1> HIDE DEF row
<1> QED  BY <1>1, <1>2, Going

LEMMA ClaimQueueBecomes ==
    ASSUME TypeOK, NEW p \in Syncers, NEW f \in Files, Go(p, [Away EXCEPT !.pc = "claimed", !.batch = f])
    PROVE  Becomes(p, "claimed", {}, f, NoFile, {}, {})
<1> DEFINE row == [Away EXCEPT !.pc = "claimed", !.batch = f]
<1>1. /\ row \in Syncer /\ row.pc = "claimed" /\ row.todo = {}
      /\ row.batch = f /\ row.fd = NoFile /\ row.left = {} /\ row.buf = {}
  BY DEF Away, Syncer, Steps
<1>2. Go(p, row)
  OBVIOUS
<1> HIDE DEF row
<1> QED  BY <1>1, <1>2, Going

\* The steps that change only the place, and what is left to send.
LEMMA MovesOn ==
    ASSUME TypeOK, NEW p \in Syncers, NEW pc \in Steps, NEW left \in SUBSET Turns,
           Go(p, [sync[p] EXCEPT !.pc = pc, !.left = left])
    PROVE  Becomes(p, pc, sync[p].todo, sync[p].batch, sync[p].fd, left, sync[p].buf)
<1> DEFINE row == [sync[p] EXCEPT !.pc = pc, !.left = left]
<1>1. /\ row \in Syncer /\ row.pc = pc /\ row.todo = sync[p].todo
      /\ row.batch = sync[p].batch /\ row.fd = sync[p].fd /\ row.left = left /\ row.buf = sync[p].buf
  BY SyncerParts DEF Syncer
<1>2. Go(p, row)
  OBVIOUS
<1> HIDE DEF row
<1> QED  BY <1>1, <1>2, Going

LEMMA MergeBecomes ==
    ASSUME TypeOK, NEW p \in Syncers, Merge(p)
    PROVE  Becomes(p, "open", sync[p].todo, sync[p].batch, sync[p].fd, sync[p].left, sync[p].left \cup Queued)
<1> DEFINE row == [sync[p] EXCEPT !.pc = "open", !.buf = sync[p].left \cup Queued]
<1>1. Queued \subseteq Turns
  BY DEF Queued, Queue, TypeOK
<1>2. /\ row \in Syncer /\ row.pc = "open" /\ row.todo = sync[p].todo
      /\ row.batch = sync[p].batch /\ row.fd = sync[p].fd /\ row.left = sync[p].left
      /\ row.buf = sync[p].left \cup Queued
  BY <1>1, SyncerParts DEF Syncer, Steps
<1>3. Go(p, row)
  BY DEF Merge
<1> HIDE DEF row
<1> QED  BY <1>2, <1>3, Going

LEMMA TruncateBecomes ==
    ASSUME TypeOK, NEW p \in Syncers, NEW f \in Files, Go(p, [sync[p] EXCEPT !.pc = "write", !.fd = f])
    PROVE  Becomes(p, "write", sync[p].todo, sync[p].batch, f, sync[p].left, sync[p].buf)
<1> DEFINE row == [sync[p] EXCEPT !.pc = "write", !.fd = f]
<1>1. /\ row \in Syncer /\ row.pc = "write" /\ row.todo = sync[p].todo
      /\ row.batch = sync[p].batch /\ row.fd = f /\ row.left = sync[p].left /\ row.buf = sync[p].buf
  BY SyncerParts DEF Syncer, Steps
<1>2. Go(p, row)
  OBVIOUS
<1> HIDE DEF row
<1> QED  BY <1>1, <1>2, Going

LEMMA WriteLinesBecomes ==
    ASSUME TypeOK, NEW p \in Syncers, WriteLines(p)
    PROVE  Becomes(p, IF sync[p].batch = NoFile THEN "orphans" ELSE "finish", sync[p].todo,
                   sync[p].batch, NoFile, {}, {})
<1> DEFINE pc == IF sync[p].batch = NoFile THEN "orphans" ELSE "finish"
           row == [sync[p] EXCEPT !.pc = pc, !.fd = NoFile, !.left = {}, !.buf = {}]
<1>1. /\ row \in Syncer /\ row.pc = pc /\ row.todo = sync[p].todo
      /\ row.batch = sync[p].batch /\ row.fd = NoFile /\ row.left = {} /\ row.buf = {}
  BY SyncerParts DEF Syncer, Steps
<1>2. Go(p, row)
  BY DEF WriteLines
<1> HIDE DEF row
<1> QED  BY <1>1, <1>2, Going

-------------------------------------------------------------------------------
(* What a process holds at each step.                                      *)

Hands(p) ==
    /\ sync[p].pc \in {"idle", "orphans", "claimed", "finish"} => sync[p].left = {}
    /\ sync[p].pc \in {"sending", "putback", "open", "write"} => sync[p].left # {}
    /\ Rewriting(p) => sync[p].left \subseteq sync[p].buf
    /\ ~Rewriting(p) => sync[p].buf = {}
    /\ sync[p].pc \in {"idle", "orphans"} => sync[p].batch = NoFile
    /\ sync[p].pc \in {"restore", "claimed", "sending", "finish"} => sync[p].batch # NoFile
    /\ sync[p].pc = "write" <=> sync[p].fd # NoFile
    /\ \A f \in Files : f \in sync[p].todo \cup {sync[p].batch} => where[f] # "queue"

HandsInv ==
    /\ \A p \in Syncers : Hands(p)
    /\ \A t \in Turns : hook[t].pc = "opened" => hook[t].fd # NoFile

\* A file that is opened for writing is the queue, or a new one that nobody has in hand.
LEMMA OpenedFile ==
    ASSUME NEW f \in Files, Opened(f)
    PROVE  /\ \/ where[f] = "queue"
              \/ /\ where[f] = "gone" /\ Queue = {}
                 /\ \A p \in Syncers : f \notin sync[p].todo /\ f # sync[p].batch /\ f # sync[p].fd
<1>1. CASE Queue = {}
  <2>1. f \in NewFile
    BY <1>1 DEF Opened
  <2>2. where[f] = "gone" /\ f \notin InUse
    BY <2>1 DEF NewFile, Unused
  <2> QED  BY <1>1, <2>2 DEF InUse
<1>2. CASE Queue # {}
  BY <1>2 DEF Opened, Queue
<1> QED  BY <1>1, <1>2

LEMMA RemoveFile ==
    ASSUME TypeOK, NEW f \in Files, Remove(f)
    PROVE  /\ where' \in [Files -> Names] /\ lines' \in [Files -> SUBSET Turns] /\ stale' \subseteq Files
           /\ where'[f] = "gone" /\ lines'[f] = {}
           /\ \A g \in Files \ {f} : where'[g] = where[g] /\ lines'[g] = lines[g]
  BY DEF TypeOK, Remove, Names

LEMMA PutFile ==
    ASSUME TypeOK, NEW f \in Files, NEW text \in SUBSET Turns, Put(f, text)
    PROVE  /\ lines' \in [Files -> SUBSET Turns] /\ stale' \subseteq Files
           /\ lines'[f] = IF where[f] = "gone" THEN lines[f] ELSE text
           /\ \A g \in Files \ {f} : lines'[g] = lines[g]
  BY DEF TypeOK, Put

\* A step of one syncer leaves in the others' hands what they had.
LEMMA HandsFrame ==
    ASSUME HandsInv, NEW p \in Syncers, Others(p), Hands(p)', hook' = hook,
           \A q \in Syncers, f \in Files :
              f \in sync[q].todo \cup {sync[q].batch} /\ where[f] # "queue" => where'[f] # "queue"
    PROVE  HandsInv'
<1> SUFFICES ASSUME NEW q \in Syncers, q # p PROVE Hands(q)'
  BY DEF HandsInv
<1>1. Hands(q) /\ sync'[q] = sync[q]
  BY DEF HandsInv, Others
<1> QED  BY <1>1 DEF Hands, Rewriting

LEMMA InitHands == Init => TypeOK /\ HandsInv
<1> SUFFICES ASSUME Init PROVE TypeOK /\ HandsInv
  OBVIOUS
<1>1. \A p \in Syncers : sync[p] = Away
  BY DEF Init
<1>2. TypeOK
  BY AwayType, CliQueueAssumption DEF Init, TypeOK, Names, Hook
<1>3. HandsInv
  BY <1>1, CliQueueAssumption DEF Init, HandsInv, Hands, Rewriting, Away
<1> QED  BY <1>2, <1>3

LEMMA HandsStep == TypeOK /\ HandsInv /\ [Next]_vars => TypeOK' /\ HandsInv'
<1> SUFFICES ASSUME TypeOK, HandsInv, [Next]_vars PROVE TypeOK' /\ HandsInv'
  OBVIOUS
<1>1. ASSUME NEW t \in Turns, OpenQueue(t) PROVE TypeOK' /\ HandsInv'
  <2>1. PICK f \in Files :
           /\ Opened(f)
           /\ hook' = [hook EXCEPT ![t] = [pc |-> "opened", fd |-> f]]
           /\ where' = [where EXCEPT ![f] = "queue"]
           /\ lines' = IF f \in Queue THEN lines ELSE [lines EXCEPT ![f] = {}]
           /\ stale' = IF f \in Queue THEN stale ELSE stale \ {f}
    BY <1>1 DEF OpenQueue
  <2>2. UNCHANGED <<sync, server, exposed, kills>>
    BY <1>1 DEF OpenQueue
  <2>3. TypeOK'
    BY <2>1, <2>2 DEF TypeOK, Names, Hook
  <2>4. f # NoFile /\ \A u \in Turns : hook'[u].pc = "opened" => hook'[u].fd # NoFile
    BY <2>1, CliQueueAssumption DEF HandsInv, TypeOK
  <2>5. ASSUME NEW p \in Syncers PROVE Hands(p)'
    <3>1. f \in sync[p].todo \cup {sync[p].batch} => where[f] = "queue"
      BY <2>1, OpenedFile
    <3>2. Hands(p)
      BY DEF HandsInv
    <3>3. \A g \in Files : g \in sync[p].todo \cup {sync[p].batch} => where'[g] # "queue"
      BY <2>1, <3>1, <3>2 DEF Hands, TypeOK
    <3> QED  BY <2>2, <3>2, <3>3 DEF Hands, Rewriting
  <2> QED  BY <2>3, <2>4, <2>5 DEF HandsInv
<1>2. ASSUME NEW t \in Turns, AppendLine(t) PROVE TypeOK' /\ HandsInv'
  <2>1. /\ hook[t].pc = "opened" /\ Put(hook[t].fd, lines[hook[t].fd] \cup {t})
        /\ exposed' \subseteq exposed \cup {t}
        /\ hook' = [hook EXCEPT ![t] = [pc |-> "done", fd |-> NoFile]]
        /\ UNCHANGED <<where, sync, server, kills>>
    BY <1>2 DEF AppendLine
  <2>2. hook[t].fd \in Files /\ lines[hook[t].fd] \cup {t} \in SUBSET Turns
    BY <2>1 DEF TypeOK, Hook, HandsInv
  <2>3. lines' \in [Files -> SUBSET Turns] /\ stale' \subseteq Files
    BY <2>1, <2>2, PutFile
  <2>4. TypeOK'
    BY <2>1, <2>3 DEF TypeOK, Hook
  <2>5. \A p \in Syncers : Hands(p)'
    BY <2>1 DEF HandsInv, Hands, Rewriting
  <2>6. \A u \in Turns : hook'[u].pc = "opened" => hook'[u].fd # NoFile
    BY <2>1 DEF HandsInv, TypeOK
  <2> QED  BY <2>4, <2>5, <2>6 DEF HandsInv
<1>3. ASSUME NEW p \in Syncers, StartSync(p) PROVE TypeOK' /\ HandsInv'
  <2>1. Becomes(p, "orphans", {f \in Files : IsOrphan(f)}, NoFile, NoFile, {}, {})
    BY <1>3, StartSyncBecomes
  <2>2. UNCHANGED <<where, lines, stale, hook, server, exposed, kills>>
    BY <1>3 DEF StartSync
  <2>3. \A f \in Files : IsOrphan(f) => where[f] # "queue"
    BY DEF IsOrphan
  <2>4. Hands(p)'
    BY <2>1, <2>2, <2>3, CliQueueAssumption DEF Becomes, Hands, Rewriting
  <2>5. HandsInv'
    BY <2>1, <2>2, <2>4, HandsFrame DEF Becomes
  <2> QED  BY <2>1, <2>2, <2>5 DEF Becomes, TypeOK
<1>4. ASSUME NEW p \in Syncers, ReadOrphan(p) PROVE TypeOK' /\ HandsInv'
  <2>1. PICK f \in sync[p].todo :
           Becomes(p, "restore", sync[p].todo \ {f}, f, sync[p].fd, Contents(f), sync[p].buf)
    BY <1>4, ReadOrphanBecomes
  <2>2. At(p, "orphans") /\ UNCHANGED <<where, lines, stale, hook, server, exposed, kills>>
    BY <1>4 DEF ReadOrphan
  <2>3. Hands(p) /\ f \in Files /\ f # NoFile
    BY <2>1, SyncerParts, CliQueueAssumption DEF HandsInv
  <2>4. Hands(p)'
    BY <2>1, <2>2, <2>3 DEF Becomes, Hands, Rewriting, At
  <2>5. HandsInv'
    BY <2>1, <2>2, <2>4, HandsFrame DEF Becomes
  <2> QED  BY <2>1, <2>2, <2>5 DEF Becomes, TypeOK
<1>5. ASSUME NEW p \in Syncers, RemoveOrphan(p) PROVE TypeOK' /\ HandsInv'
  <2>1. Becomes(p, IF sync[p].left = {} THEN "orphans" ELSE "putback", sync[p].todo, NoFile,
                sync[p].fd, sync[p].left, sync[p].buf)
    BY <1>5, RemoveOrphanBecomes
  <2>2. At(p, "restore") /\ Remove(sync[p].batch) /\ UNCHANGED <<hook, server, exposed, kills>>
    BY <1>5 DEF RemoveOrphan
  <2>3. Hands(p)
    BY DEF HandsInv
  <2>4. sync[p].batch \in Files
    BY <2>2, <2>3, SyncerParts DEF Hands, At
  <2>5. /\ where' \in [Files -> Names] /\ lines' \in [Files -> SUBSET Turns] /\ stale' \subseteq Files
        /\ \A g \in Files : where[g] # "queue" => where'[g] # "queue"
    BY <2>2, <2>4, RemoveFile
  <2>6. Hands(p)'
    BY <2>1, <2>2, <2>3, <2>5, CliQueueAssumption DEF Becomes, Hands, Rewriting, At
  <2>7. HandsInv'
    BY <2>1, <2>2, <2>5, <2>6, HandsFrame DEF Becomes
  <2> QED  BY <2>1, <2>2, <2>5, <2>7 DEF Becomes, TypeOK
<1>6. ASSUME NEW p \in Syncers, ClaimQueue(p) PROVE TypeOK' /\ HandsInv'
  <2>1. PICK f \in Queue :
           /\ where' = [where EXCEPT ![f] = "sending"]
           /\ Go(p, [Away EXCEPT !.pc = "claimed", !.batch = f])
           /\ exposed' = exposed \cup UNION {sync[q].buf : q \in {o \in Syncers : sync[o].fd = f}}
    BY <1>6 DEF ClaimQueue
  <2>2. f \in Files /\ UNCHANGED <<lines, stale, hook, server, kills>>
    BY <1>6, <2>1 DEF ClaimQueue, Queue
  <2>3. Becomes(p, "claimed", {}, f, NoFile, {}, {})
    BY <2>1, <2>2, ClaimQueueBecomes
  <2>4. where' \in [Files -> Names] /\ where'[f] = "sending" /\ \A g \in Files \ {f} : where'[g] = where[g]
    BY <2>1, <2>2 DEF TypeOK, Names
  <2>5. exposed' \subseteq Turns
    BY <2>1 DEF TypeOK, Syncer
  <2>6. Hands(p)'
    BY <2>2, <2>3, <2>4, CliQueueAssumption DEF Becomes, Hands, Rewriting
  <2>7. HandsInv'
    BY <2>2, <2>3, <2>4, <2>6, HandsFrame DEF Becomes
  <2> QED  BY <2>2, <2>3, <2>4, <2>5, <2>7 DEF Becomes, TypeOK
<1>7. ASSUME NEW p \in Syncers, NothingQueued(p) PROVE TypeOK' /\ HandsInv'
  <2>1. Becomes(p, "idle", {}, NoFile, NoFile, {}, {})
    BY <1>7, GoesAway DEF NothingQueued
  <2>2. UNCHANGED <<where, lines, stale, hook, server, exposed, kills>>
    BY <1>7 DEF NothingQueued
  <2>3. Hands(p)'
    BY <2>1, CliQueueAssumption DEF Becomes, Hands, Rewriting
  <2>4. HandsInv'
    BY <2>1, <2>2, <2>3, HandsFrame DEF Becomes
  <2> QED  BY <2>1, <2>2, <2>4 DEF Becomes, TypeOK
<1>8. ASSUME NEW p \in Syncers, ReadBatch(p) PROVE TypeOK' /\ HandsInv'
  <2>1. At(p, "claimed") /\ UNCHANGED <<hook, server, exposed, kills>> /\ Hands(p)
    BY <1>8 DEF ReadBatch, HandsInv
  <2>2. sync[p].batch \in Files
    BY <2>1, SyncerParts DEF Hands, At
  <2>3. CASE Remove(sync[p].batch) /\ Go(p, Away)
    <3>1. Becomes(p, "idle", {}, NoFile, NoFile, {}, {})
      BY <2>3, GoesAway
    <3>2. /\ where' \in [Files -> Names] /\ lines' \in [Files -> SUBSET Turns] /\ stale' \subseteq Files
          /\ \A g \in Files : where[g] # "queue" => where'[g] # "queue"
      BY <2>2, <2>3, RemoveFile
    <3>3. Hands(p)'
      BY <3>1, CliQueueAssumption DEF Becomes, Hands, Rewriting
    <3>4. HandsInv'
      BY <2>1, <3>1, <3>2, <3>3, HandsFrame DEF Becomes
    <3> QED  BY <2>1, <3>1, <3>2, <3>4 DEF Becomes, TypeOK
  <2>4. CASE /\ Contents(sync[p].batch) # {}
             /\ Go(p, [sync[p] EXCEPT !.pc = "sending", !.left = Contents(sync[p].batch)])
             /\ UNCHANGED <<where, lines, stale>>
    <3>1. Contents(sync[p].batch) \in SUBSET Turns /\ "sending" \in Steps
      BY <2>2 DEF Contents, TypeOK, Steps
    <3>2. Becomes(p, "sending", sync[p].todo, sync[p].batch, sync[p].fd, Contents(sync[p].batch), sync[p].buf)
      BY <2>4, <3>1, MovesOn
    <3>3. Hands(p)'
      BY <2>1, <2>4, <3>2 DEF Becomes, Hands, Rewriting, At
    <3>4. HandsInv'
      BY <2>1, <2>4, <3>2, <3>3, HandsFrame DEF Becomes
    <3> QED  BY <2>1, <2>4, <3>2, <3>4 DEF Becomes, TypeOK
  <2> QED  BY <1>8, <2>3, <2>4 DEF ReadBatch
<1>9. ASSUME NEW p \in Syncers, SendBatch(p) PROVE TypeOK' /\ HandsInv'
  <2>1. PICK b \in SUBSET Turns :
           /\ Batch(p, b)
           /\ server' = server \cup b
           /\ Go(p, [sync[p] EXCEPT !.left = @ \ b, !.pc = IF sync[p].left = b THEN "finish" ELSE "sending"])
    BY <1>9 DEF SendBatch
  <2>2. At(p, "sending") /\ Hands(p) /\ UNCHANGED <<where, lines, stale, hook, exposed, kills>>
    BY <1>9 DEF SendBatch, HandsInv
  <2>3. b \subseteq sync[p].left
    BY <2>1 DEF Batch
  <2> DEFINE pc == IF sync[p].left = b THEN "finish" ELSE "sending"
  <2>4. pc \in Steps /\ sync[p].left \ b \in SUBSET Turns
    BY SyncerParts DEF Steps
  <2>5. Go(p, [sync[p] EXCEPT !.pc = pc, !.left = sync[p].left \ b])
    BY <2>1, SyncerParts DEF Go, Syncer
  <2>6. Becomes(p, pc, sync[p].todo, sync[p].batch, sync[p].fd, sync[p].left \ b, sync[p].buf)
    <3> HIDE DEF pc
    <3> QED  BY <2>4, <2>5, MovesOn
  <2>7. Hands(p)'
    BY <2>2, <2>3, <2>6 DEF Becomes, Hands, Rewriting, At
  <2>8. HandsInv'
    BY <2>2, <2>6, <2>7, HandsFrame DEF Becomes
  <2> QED  BY <2>1, <2>2, <2>6, <2>8 DEF Becomes, TypeOK
<1>10. ASSUME NEW p \in Syncers, SendFails(p) PROVE TypeOK' /\ HandsInv'
  <2>1. PICK b \in SUBSET Turns :
           /\ server' \in {server, server \cup b}
           /\ Go(p, [sync[p] EXCEPT !.left = sync[p].left, !.pc = "putback"])
    BY <1>10 DEF SendFails, Unsent
  <2>2. At(p, "sending") /\ Hands(p) /\ UNCHANGED <<where, lines, stale, hook, exposed, kills>>
    BY <1>10 DEF SendFails, HandsInv
  <2>3. "putback" \in Steps /\ sync[p].left \in SUBSET Turns
    BY SyncerParts DEF Steps
  <2>4. Go(p, [sync[p] EXCEPT !.pc = "putback", !.left = sync[p].left])
    BY <2>1, SyncerParts DEF Go, Syncer
  <2>5. Becomes(p, "putback", sync[p].todo, sync[p].batch, sync[p].fd, sync[p].left, sync[p].buf)
    BY <2>3, <2>4, MovesOn
  <2>6. Hands(p)'
    BY <2>2, <2>5 DEF Becomes, Hands, Rewriting, At
  <2>7. HandsInv'
    BY <2>2, <2>5, <2>6, HandsFrame DEF Becomes
  <2>8. server' \subseteq Turns
    BY <2>1 DEF TypeOK
  <2> QED  BY <2>2, <2>5, <2>7, <2>8 DEF Becomes, TypeOK
<1>11. ASSUME NEW p \in Syncers, Merge(p) PROVE TypeOK' /\ HandsInv'
  <2>1. Becomes(p, "open", sync[p].todo, sync[p].batch, sync[p].fd, sync[p].left, sync[p].left \cup Queued)
    BY <1>11, MergeBecomes
  <2>2. At(p, "putback") /\ Hands(p) /\ UNCHANGED <<where, lines, stale, hook, server, kills>>
    BY <1>11 DEF Merge, HandsInv
  <2>3. exposed' \subseteq Turns
    <3>1. Rewritten \subseteq Turns /\ Queued \subseteq Turns /\ sync[p].left \subseteq Turns /\ exposed \subseteq Turns
      BY DEF Rewritten, Queued, Queue, TypeOK, Syncer
    <3> QED  BY <1>11, <3>1 DEF Merge
  <2>4. Hands(p)'
    BY <2>1, <2>2 DEF Becomes, Hands, Rewriting, At
  <2>5. HandsInv'
    BY <2>1, <2>2, <2>4, HandsFrame DEF Becomes
  <2> QED  BY <2>1, <2>2, <2>3, <2>5 DEF Becomes, TypeOK
<1>12. ASSUME NEW p \in Syncers, Truncate(p) PROVE TypeOK' /\ HandsInv'
  <2>1. PICK f \in Files :
           /\ Opened(f)
           /\ where' = [where EXCEPT ![f] = "queue"]
           /\ lines' = [lines EXCEPT ![f] = {}]
           /\ stale' = stale \ {f}
           /\ Go(p, [sync[p] EXCEPT !.pc = "write", !.fd = f])
    BY <1>12 DEF Truncate
  <2>2. At(p, "open") /\ Hands(p) /\ UNCHANGED <<hook, server, exposed, kills>>
    BY <1>12 DEF Truncate, HandsInv
  <2>3. Becomes(p, "write", sync[p].todo, sync[p].batch, f, sync[p].left, sync[p].buf)
    BY <2>1, TruncateBecomes
  <2>4. \A q \in Syncers, g \in Files :
           g \in sync[q].todo \cup {sync[q].batch} /\ where[g] # "queue" => where'[g] # "queue"
    <3>1. \A q \in Syncers : f \in sync[q].todo \cup {sync[q].batch} => where[f] = "queue"
      BY <2>1, OpenedFile
    <3> QED  BY <2>1, <3>1 DEF TypeOK
  <2>5. Hands(p)'
    BY <2>2, <2>3, <2>4, CliQueueAssumption DEF Becomes, Hands, Rewriting, At
  <2>6. HandsInv'
    BY <2>2, <2>3, <2>4, <2>5, HandsFrame DEF Becomes
  <2>7. where' \in [Files -> Names] /\ lines' \in [Files -> SUBSET Turns] /\ stale' \subseteq Files
    BY <2>1 DEF TypeOK, Names
  <2> QED  BY <2>2, <2>3, <2>6, <2>7 DEF Becomes, TypeOK
<1>13. ASSUME NEW p \in Syncers, WriteLines(p) PROVE TypeOK' /\ HandsInv'
  <2>1. Becomes(p, IF sync[p].batch = NoFile THEN "orphans" ELSE "finish", sync[p].todo,
                sync[p].batch, NoFile, {}, {})
    BY <1>13, WriteLinesBecomes
  <2>2. At(p, "write") /\ Hands(p) /\ UNCHANGED <<where, hook, server, exposed, kills>>
    BY <1>13 DEF WriteLines, HandsInv
  <2>3. sync[p].fd \in Files
    BY <2>2, SyncerParts DEF Hands, At
  <2>4. PICK kept \in SUBSET lines[sync[p].fd] : Put(sync[p].fd, sync[p].buf \cup kept)
    BY <1>13 DEF WriteLines
  <2>5. sync[p].buf \cup kept \in SUBSET Turns
    BY <2>3, <2>4, SyncerParts DEF TypeOK
  <2>6. lines' \in [Files -> SUBSET Turns] /\ stale' \subseteq Files
    BY <2>3, <2>4, <2>5, PutFile
  <2>7. Hands(p)'
    BY <2>1, <2>2 DEF Becomes, Hands, Rewriting, At
  <2>8. HandsInv'
    BY <2>1, <2>2, <2>7, HandsFrame DEF Becomes
  <2> QED  BY <2>1, <2>2, <2>6, <2>8 DEF Becomes, TypeOK
<1>14. ASSUME NEW p \in Syncers, RemoveBatch(p) PROVE TypeOK' /\ HandsInv'
  <2>1. Becomes(p, "idle", {}, NoFile, NoFile, {}, {})
    BY <1>14, GoesAway DEF RemoveBatch
  <2>2. At(p, "finish") /\ Hands(p) /\ Remove(sync[p].batch) /\ UNCHANGED <<hook, server, exposed, kills>>
    BY <1>14 DEF RemoveBatch, HandsInv
  <2>3. sync[p].batch \in Files
    BY <2>2, SyncerParts DEF Hands, At
  <2>4. /\ where' \in [Files -> Names] /\ lines' \in [Files -> SUBSET Turns] /\ stale' \subseteq Files
        /\ \A g \in Files : where[g] # "queue" => where'[g] # "queue"
    BY <2>2, <2>3, RemoveFile
  <2>5. Hands(p)'
    BY <2>1, CliQueueAssumption DEF Becomes, Hands, Rewriting
  <2>6. HandsInv'
    BY <2>1, <2>2, <2>4, <2>5, HandsFrame DEF Becomes
  <2> QED  BY <2>1, <2>2, <2>4, <2>6 DEF Becomes, TypeOK
<1>15. ASSUME NEW p \in Syncers, Kill(p) PROVE TypeOK' /\ HandsInv'
  <2>1. Becomes(p, "idle", {}, NoFile, NoFile, {}, {})
    BY <1>15, GoesAway DEF Kill
  <2>2. /\ kills < MaxKills /\ kills' = kills + 1 /\ exposed' = exposed \cup OnlyCopy(p)
        /\ UNCHANGED <<where, lines, stale, hook, server>>
    BY <1>15 DEF Kill
  <2>3. Hands(p)'
    BY <2>1, CliQueueAssumption DEF Becomes, Hands, Rewriting
  <2>4. HandsInv'
    BY <2>1, <2>2, <2>3, HandsFrame DEF Becomes
  <2>5. exposed' \subseteq Turns /\ kills' \in 0 .. MaxKills
    BY <2>2, SyncerParts, CliQueueAssumption DEF OnlyCopy, TypeOK
  <2> QED  BY <2>1, <2>2, <2>4, <2>5 DEF Becomes, TypeOK
<1>16. ASSUME NEW f \in Files, Age(f) PROVE TypeOK' /\ HandsInv'
  BY <1>16 DEF Age, TypeOK, HandsInv, Hands, Rewriting
<1>17. CASE UNCHANGED vars
  BY <1>17 DEF vars, TypeOK, HandsInv, Hands, Rewriting
<1> QED
  BY <1>1, <1>2, <1>3, <1>4, <1>5, <1>6, <1>7, <1>8, <1>9, <1>10, <1>11, <1>12, <1>13, <1>14, <1>15,
     <1>16, <1>17 DEF Next, Flush

\* Every variable keeps its type, whatever hooks, flushes and kills do.
THEOREM TypeCorrect == Spec => []TypeOK
<1> QED  BY InitHands, HandsStep, PTL DEF Spec

LEMMA HandsHold == Spec => [](TypeOK /\ HandsInv)
<1> QED  BY InitHands, HandsStep, PTL DEF Spec

-------------------------------------------------------------------------------
(* What a syncer that replaces the queue by the text it holds may overwrite: lines it    *)
(* holds, or exposed ones.                                                               *)

TextsShared ==
    \A p, q \in Syncers : Rewriting(p) /\ Rewriting(q) /\ p # q => sync[p].buf \subseteq exposed

QueueHeld == \A p \in Syncers : Rewriting(p) => Queued \subseteq sync[p].buf \cup exposed

\* The file that was truncated, when it is about to be written.
FileHeld ==
    \A p \in Syncers : At(p, "write") =>
        /\ where[sync[p].fd] # "queue" => sync[p].buf \subseteq exposed
        /\ lines[sync[p].fd] \subseteq exposed

RewriteInv == TextsShared /\ QueueHeld /\ FileHeld

LEMMA InitRewrite == Init => RewriteInv
<1> SUFFICES ASSUME Init PROVE RewriteInv
  OBVIOUS
<1>1. \A p \in Syncers : sync[p].pc = "idle"
  BY DEF Init, Away
<1> QED  BY <1>1 DEF RewriteInv, TextsShared, QueueHeld, FileHeld, Rewriting, At

\* A step keeps RewriteInv when no text is taken up and when what it adds to the queue or
\* to a truncated file, and the texts of a file it takes out of the queue, are exposed.
LEMMA RewriteFrame ==
    ASSUME RewriteInv, exposed \subseteq exposed',
           \A q \in Syncers : Rewriting(q)' => Rewriting(q) /\ sync'[q].buf = sync[q].buf,
           \A q \in Syncers : Rewriting(q)' => Queued' \subseteq Queued \cup exposed',
           \A q \in Syncers : At(q, "write")' =>
               \/ /\ At(q, "write") /\ sync'[q].fd = sync[q].fd /\ sync'[q].buf = sync[q].buf
                  /\ \/ where'[sync[q].fd] = where[sync[q].fd]
                     \/ where'[sync[q].fd] = "queue"
                     \/ sync[q].buf \subseteq exposed'
                  /\ lines'[sync[q].fd] \subseteq lines[sync[q].fd] \cup exposed'
               \/ where'[sync'[q].fd] = "queue" /\ lines'[sync'[q].fd] = {}
    PROVE  RewriteInv'
<1>1. TextsShared'
  BY DEF RewriteInv, TextsShared
<1>2. QueueHeld'
  BY DEF RewriteInv, QueueHeld
<1>3. FileHeld'
  <2> SUFFICES ASSUME NEW q \in Syncers, At(q, "write")'
               PROVE  /\ where'[sync'[q].fd] # "queue" => sync'[q].buf \subseteq exposed'
                      /\ lines'[sync'[q].fd] \subseteq exposed'
    BY DEF FileHeld, At
  <2>1. CASE /\ At(q, "write") /\ sync'[q].fd = sync[q].fd /\ sync'[q].buf = sync[q].buf
             /\ \/ where'[sync[q].fd] = where[sync[q].fd]
                \/ where'[sync[q].fd] = "queue"
                \/ sync[q].buf \subseteq exposed'
             /\ lines'[sync[q].fd] \subseteq lines[sync[q].fd] \cup exposed'
    BY <2>1 DEF RewriteInv, FileHeld
  <2>2. CASE where'[sync'[q].fd] = "queue" /\ lines'[sync'[q].fd] = {}
    BY <2>2
  <2> QED  BY <2>1, <2>2
<1> QED  BY <1>1, <1>2, <1>3 DEF RewriteInv

\* A step of a syncer that leaves the queue and the files alone, or only removes a batch.
LEMMA RewriteKept ==
    ASSUME RewriteInv, NEW p \in Syncers, Others(p), ~Rewriting(p)', exposed \subseteq exposed',
           \A f \in Files : where[f] = "queue" => where'[f] = "queue",
           \A f \in Files : where'[f] = "queue" => where[f] = "queue",
           \A f \in Files : lines'[f] \subseteq lines[f],
           \A q \in Syncers : At(q, "write") => sync[q].fd \in Files
    PROVE  RewriteInv'
<1>1. Queued' \subseteq Queued
  BY DEF Queued, Queue
<1>2. ~At(p, "write")'
  BY DEF Rewriting, At
<1>3. ASSUME NEW q \in Syncers, Rewriting(q)' PROVE Rewriting(q) /\ sync'[q].buf = sync[q].buf
  BY <1>3 DEF Others, Rewriting
<1>4. ASSUME NEW q \in Syncers, At(q, "write")'
      PROVE  /\ At(q, "write") /\ sync'[q].fd = sync[q].fd /\ sync'[q].buf = sync[q].buf
             /\ where'[sync[q].fd] # "queue" => where[sync[q].fd] # "queue"
             /\ lines'[sync[q].fd] \subseteq lines[sync[q].fd]
  <2>1. At(q, "write") /\ sync'[q] = sync[q]
    BY <1>2, <1>4 DEF Others, At
  <2> QED  BY <2>1
<1>5. TextsShared'
  BY <1>3 DEF RewriteInv, TextsShared
<1>6. QueueHeld'
  BY <1>1, <1>3 DEF RewriteInv, QueueHeld
<1>7. FileHeld'
  BY <1>4 DEF RewriteInv, FileHeld, At
<1> QED  BY <1>5, <1>6, <1>7 DEF RewriteInv

\* The file of a syncer that is about to write is a file.
LEMMA OpenFile ==
    ASSUME TypeOK, HandsInv, NEW q \in Syncers, At(q, "write")
    PROVE  sync[q].fd \in Files /\ Rewriting(q)
  BY SyncerParts DEF HandsInv, Hands, At, Rewriting

LEMMA RewriteStep == TypeOK /\ HandsInv /\ RewriteInv /\ [Next]_vars => RewriteInv'
<1> SUFFICES ASSUME TypeOK, HandsInv, RewriteInv, [Next]_vars PROVE RewriteInv'
  OBVIOUS
<1>0. \A q \in Syncers : At(q, "write") => sync[q].fd \in Files /\ Rewriting(q)
  BY OpenFile
<1>1. ASSUME NEW t \in Turns, OpenQueue(t) PROVE RewriteInv'
  <2>1. PICK f \in Files :
           /\ Opened(f)
           /\ where' = [where EXCEPT ![f] = "queue"]
           /\ lines' = IF f \in Queue THEN lines ELSE [lines EXCEPT ![f] = {}]
    BY <1>1 DEF OpenQueue
  <2>2. UNCHANGED <<sync, server, exposed, kills>>
    BY <1>1 DEF OpenQueue
  <2>3. /\ \A g \in Files : where'[g] = where[g] \/ where'[g] = "queue"
        /\ \A g \in Files : lines'[g] \subseteq lines[g]
        /\ \A g \in Files : where'[g] = "queue" => where[g] = "queue" \/ lines'[g] = {}
    BY <2>1 DEF TypeOK, Queue
  <2>4. Queued' \subseteq Queued
    BY <2>3 DEF Queued, Queue
  <2>5. \A q \in Syncers : Rewriting(q)' => Rewriting(q) /\ sync'[q].buf = sync[q].buf
    BY <2>2 DEF Rewriting
  <2>6. ASSUME NEW q \in Syncers, At(q, "write")'
        PROVE  /\ At(q, "write") /\ sync'[q].fd = sync[q].fd /\ sync'[q].buf = sync[q].buf
               /\ where'[sync[q].fd] = where[sync[q].fd] \/ where'[sync[q].fd] = "queue"
               /\ lines'[sync[q].fd] \subseteq lines[sync[q].fd]
    <3>1. At(q, "write") /\ sync' = sync
      BY <2>2, <2>6 DEF At
    <3> QED  BY <1>0, <2>3, <3>1
  <2> QED  BY <2>2, <2>4, <2>5, <2>6, RewriteFrame
<1>2. ASSUME NEW t \in Turns, AppendLine(t) PROVE RewriteInv'
  <2> DEFINE f == hook[t].fd
  <2>1. /\ Put(f, lines[f] \cup {t}) /\ hook[t].pc = "opened" /\ UNCHANGED <<where, sync>>
        /\ exposed' = IF f \in Queue /\ ~\E p \in Syncers : Rewriting(p) THEN exposed ELSE exposed \cup {t}
    BY <1>2 DEF AppendLine
  <2>2. f \in Files /\ lines[f] \cup {t} \in SUBSET Turns
    BY <2>1 DEF TypeOK, Hook, HandsInv
  <2> HIDE DEF f
  <2>3. \A g \in Files : lines'[g] \subseteq lines[g] \cup {t}
    BY <2>1, <2>2, PutFile
  <2>4. (\E p \in Syncers : Rewriting(p)) => t \in exposed'
    BY <2>1
  <2>5. Queued' \subseteq Queued \cup {t}
    BY <2>1, <2>3 DEF Queued, Queue
  <2>6. \A q \in Syncers : Rewriting(q)' => Rewriting(q) /\ sync'[q].buf = sync[q].buf
    BY <2>1 DEF Rewriting
  <2>7. ASSUME NEW q \in Syncers, At(q, "write")'
        PROVE  /\ At(q, "write") /\ sync'[q].fd = sync[q].fd /\ sync'[q].buf = sync[q].buf
               /\ where'[sync[q].fd] = where[sync[q].fd]
               /\ lines'[sync[q].fd] \subseteq lines[sync[q].fd] \cup exposed'
    <3>1. At(q, "write") /\ sync' = sync
      BY <2>1, <2>7 DEF At
    <3> QED  BY <1>0, <2>1, <2>3, <2>4, <3>1
  <2>8. \A q \in Syncers : Rewriting(q)' => Queued' \subseteq Queued \cup exposed'
    BY <2>4, <2>5, <2>6
  <2>9. exposed \subseteq exposed'
    BY <2>1
  <2> QED  BY <2>6, <2>7, <2>8, <2>9, RewriteFrame
<1>3. ASSUME NEW p \in Syncers, StartSync(p) PROVE RewriteInv'
  <2>1. Becomes(p, "orphans", {f \in Files : IsOrphan(f)}, NoFile, NoFile, {}, {})
    BY <1>3, StartSyncBecomes
  <2>2. UNCHANGED <<where, lines, exposed>>
    BY <1>3 DEF StartSync
  <2>3. ~Rewriting(p)'
    BY <2>1 DEF Becomes, Rewriting
  <2> QED  BY <1>0, <2>1, <2>2, <2>3, RewriteKept DEF Becomes
<1>4. ASSUME NEW p \in Syncers, ReadOrphan(p) PROVE RewriteInv'
  <2>1. PICK f \in sync[p].todo :
           Becomes(p, "restore", sync[p].todo \ {f}, f, sync[p].fd, Contents(f), sync[p].buf)
    BY <1>4, ReadOrphanBecomes
  <2>2. UNCHANGED <<where, lines, exposed>>
    BY <1>4 DEF ReadOrphan
  <2>3. ~Rewriting(p)'
    BY <2>1 DEF Becomes, Rewriting
  <2> QED  BY <1>0, <2>1, <2>2, <2>3, RewriteKept DEF Becomes
<1>5. ASSUME NEW p \in Syncers, RemoveOrphan(p) PROVE RewriteInv'
  <2>1. Becomes(p, IF sync[p].left = {} THEN "orphans" ELSE "putback", sync[p].todo, NoFile,
                sync[p].fd, sync[p].left, sync[p].buf)
    BY <1>5, RemoveOrphanBecomes
  <2>2. At(p, "restore") /\ Remove(sync[p].batch) /\ exposed' = exposed /\ Hands(p)
    BY <1>5 DEF RemoveOrphan, HandsInv
  <2>3. sync[p].batch \in Files /\ where[sync[p].batch] # "queue"
    BY <2>2, SyncerParts DEF Hands, At
  <2>4. /\ \A f \in Files : where[f] = "queue" <=> where'[f] = "queue"
        /\ \A f \in Files : lines'[f] \subseteq lines[f]
    BY <2>2, <2>3, RemoveFile
  <2>5. ~Rewriting(p)'
    BY <2>1 DEF Becomes, Rewriting
  <2> QED  BY <1>0, <2>1, <2>2, <2>4, <2>5, RewriteKept DEF Becomes
<1>6. ASSUME NEW p \in Syncers, ClaimQueue(p) PROVE RewriteInv'
  <2>1. PICK f \in Queue :
           /\ where' = [where EXCEPT ![f] = "sending"]
           /\ Go(p, [Away EXCEPT !.pc = "claimed", !.batch = f])
           /\ exposed' = exposed \cup UNION {sync[q].buf : q \in {o \in Syncers : sync[o].fd = f}}
    BY <1>6 DEF ClaimQueue
  <2>2. f \in Files /\ lines' = lines
    BY <1>6, <2>1 DEF ClaimQueue, Queue
  <2>3. Becomes(p, "claimed", {}, f, NoFile, {}, {})
    BY <2>1, <2>2, ClaimQueueBecomes
  <2>4. \A q \in Syncers : Rewriting(q)' => q # p /\ Rewriting(q) /\ sync'[q].buf = sync[q].buf
    BY <2>3 DEF Becomes, Others, Rewriting
  <2>5. Queued' \subseteq Queued
    BY <2>1, <2>2 DEF Queued, Queue, TypeOK
  <2>6. ASSUME NEW q \in Syncers, At(q, "write")'
        PROVE  /\ At(q, "write") /\ sync'[q].fd = sync[q].fd /\ sync'[q].buf = sync[q].buf
               /\ where'[sync[q].fd] = where[sync[q].fd] \/ sync[q].buf \subseteq exposed'
               /\ lines'[sync[q].fd] \subseteq lines[sync[q].fd]
    <3>1. q # p
      BY <2>3, <2>6 DEF Becomes, At
    <3>2. At(q, "write") /\ sync'[q] = sync[q]
      BY <2>3, <2>6, <3>1 DEF Becomes, Others, At
    <3>3. CASE sync[q].fd = f
      BY <2>1, <2>2, <3>2, <3>3
    <3>4. CASE sync[q].fd # f
      BY <1>0, <2>1, <2>2, <3>2, <3>4 DEF TypeOK
    <3> QED  BY <3>3, <3>4
  <2>7. exposed \subseteq exposed'
    BY <2>1
  <2> QED  BY <2>4, <2>5, <2>6, <2>7, RewriteFrame
<1>7. ASSUME NEW p \in Syncers, NothingQueued(p) PROVE RewriteInv'
  <2>1. Becomes(p, "idle", {}, NoFile, NoFile, {}, {})
    BY <1>7, GoesAway DEF NothingQueued
  <2>2. UNCHANGED <<where, lines, exposed>>
    BY <1>7 DEF NothingQueued
  <2>3. ~Rewriting(p)'
    BY <2>1 DEF Becomes, Rewriting
  <2> QED  BY <1>0, <2>1, <2>2, <2>3, RewriteKept DEF Becomes
<1>8. ASSUME NEW p \in Syncers, ReadBatch(p) PROVE RewriteInv'
  <2>1. At(p, "claimed") /\ exposed' = exposed /\ Hands(p)
    BY <1>8 DEF ReadBatch, HandsInv
  <2>2. sync[p].batch \in Files /\ where[sync[p].batch] # "queue"
    BY <2>1, SyncerParts DEF Hands, At
  <2>3. CASE Remove(sync[p].batch) /\ Go(p, Away)
    <3>1. Becomes(p, "idle", {}, NoFile, NoFile, {}, {})
      BY <2>3, GoesAway
    <3>2. /\ \A f \in Files : where[f] = "queue" <=> where'[f] = "queue"
          /\ \A f \in Files : lines'[f] \subseteq lines[f]
      BY <2>2, <2>3, RemoveFile
    <3>3. ~Rewriting(p)'
      BY <3>1 DEF Becomes, Rewriting
    <3> QED  BY <1>0, <2>1, <3>1, <3>2, <3>3, RewriteKept DEF Becomes
  <2>4. CASE /\ Go(p, [sync[p] EXCEPT !.pc = "sending", !.left = Contents(sync[p].batch)])
             /\ UNCHANGED <<where, lines, stale>>
    <3>1. Contents(sync[p].batch) \in SUBSET Turns /\ "sending" \in Steps
      BY <2>2 DEF Contents, TypeOK, Steps
    <3>2. Becomes(p, "sending", sync[p].todo, sync[p].batch, sync[p].fd, Contents(sync[p].batch), sync[p].buf)
      BY <2>4, <3>1, MovesOn
    <3>3. ~Rewriting(p)'
      BY <3>2 DEF Becomes, Rewriting
    <3> QED  BY <1>0, <2>1, <2>4, <3>2, <3>3, RewriteKept DEF Becomes
  <2> QED  BY <1>8, <2>3, <2>4 DEF ReadBatch
<1>9. ASSUME NEW p \in Syncers, SendBatch(p) PROVE RewriteInv'
  <2>1. PICK b \in SUBSET Turns :
           Go(p, [sync[p] EXCEPT !.left = @ \ b, !.pc = IF sync[p].left = b THEN "finish" ELSE "sending"])
    BY <1>9 DEF SendBatch
  <2>2. UNCHANGED <<where, lines, exposed>>
    BY <1>9 DEF SendBatch
  <2>3. Others(p) /\ ~Rewriting(p)'
    BY <2>1 DEF Go, Others, Rewriting, TypeOK, Syncer
  <2> QED  BY <1>0, <2>2, <2>3, RewriteKept
<1>10. ASSUME NEW p \in Syncers, SendFails(p) PROVE RewriteInv'
  <2>1. Go(p, [sync[p] EXCEPT !.left = sync[p].left, !.pc = "putback"])
    BY <1>10 DEF SendFails, Unsent
  <2>2. UNCHANGED <<where, lines, exposed>>
    BY <1>10 DEF SendFails
  <2>3. Others(p) /\ ~Rewriting(p)'
    BY <2>1 DEF Go, Others, Rewriting, TypeOK, Syncer
  <2> QED  BY <1>0, <2>2, <2>3, RewriteKept
<1>11. ASSUME NEW p \in Syncers, Merge(p) PROVE RewriteInv'
  <2>1. Becomes(p, "open", sync[p].todo, sync[p].batch, sync[p].fd, sync[p].left, sync[p].left \cup Queued)
    BY <1>11, MergeBecomes
  <2>2. /\ At(p, "putback") /\ UNCHANGED <<where, lines>>
        /\ exposed' = IF Rewritten = {} THEN exposed ELSE exposed \cup Rewritten \cup sync[p].left \cup Queued
    BY <1>11 DEF Merge
  <2>3. exposed \subseteq exposed' /\ Queued' = Queued
    BY <2>2 DEF Queued, Queue
  <2>4. \A q \in Syncers \ {p} : Rewriting(q)' => Rewriting(q) /\ sync'[q] = sync[q]
    BY <2>1 DEF Becomes, Others, Rewriting
  <2>5. ASSUME NEW q \in Syncers \ {p}, Rewriting(q)
        PROVE  sync[q].buf \subseteq exposed' /\ sync[p].left \cup Queued \subseteq exposed'
    <3>1. sync[q].left # {} /\ sync[q].left \subseteq sync[q].buf
      BY <2>5 DEF HandsInv, Hands, Rewriting
    <3>2. sync[q].buf \subseteq Rewritten
      BY <2>5 DEF Rewritten
    <3> QED  BY <2>2, <3>1, <3>2
  <2>6. TextsShared'
    <3> SUFFICES ASSUME NEW q \in Syncers, NEW r \in Syncers, Rewriting(q)', Rewriting(r)', q # r
                 PROVE  sync'[q].buf \subseteq exposed'
      BY DEF TextsShared, Rewriting
    <3>1. CASE q = p
      BY <2>1, <2>4, <2>5, <3>1 DEF Becomes
    <3>2. CASE q # p /\ r = p
      BY <2>4, <2>5, <3>2
    <3>3. CASE q # p /\ r # p
      BY <2>3, <2>4, <3>3 DEF RewriteInv, TextsShared
    <3> QED  BY <3>1, <3>2, <3>3
  <2>7. QueueHeld'
    <3> SUFFICES ASSUME NEW q \in Syncers, Rewriting(q)' PROVE Queued' \subseteq sync'[q].buf \cup exposed'
      BY DEF QueueHeld, Rewriting
    <3>1. CASE q = p
      BY <2>1, <2>3, <3>1 DEF Becomes
    <3>2. CASE q # p
      BY <2>3, <2>4, <3>2 DEF RewriteInv, QueueHeld
    <3> QED  BY <3>1, <3>2
  <2>8. FileHeld'
    <3> SUFFICES ASSUME NEW q \in Syncers, At(q, "write")'
                 PROVE  /\ where'[sync'[q].fd] # "queue" => sync'[q].buf \subseteq exposed'
                        /\ lines'[sync'[q].fd] \subseteq exposed'
      BY DEF FileHeld, At
    <3>1. q # p
      BY <2>1 DEF Becomes, At
    <3>2. At(q, "write") /\ sync'[q] = sync[q]
      BY <2>1, <3>1 DEF Becomes, Others, At
    <3> QED  BY <2>2, <2>3, <3>2 DEF RewriteInv, FileHeld
  <2> QED  BY <2>6, <2>7, <2>8 DEF RewriteInv
<1>12. ASSUME NEW p \in Syncers, Truncate(p) PROVE RewriteInv'
  <2>1. PICK f \in Files :
           /\ Opened(f)
           /\ where' = [where EXCEPT ![f] = "queue"]
           /\ lines' = [lines EXCEPT ![f] = {}]
           /\ Go(p, [sync[p] EXCEPT !.pc = "write", !.fd = f])
    BY <1>12 DEF Truncate
  <2>2. At(p, "open") /\ exposed' = exposed
    BY <1>12 DEF Truncate
  <2>3. Becomes(p, "write", sync[p].todo, sync[p].batch, f, sync[p].left, sync[p].buf)
    BY <2>1, TruncateBecomes
  <2>4. \A q \in Syncers : Rewriting(q)' => Rewriting(q) /\ sync'[q].buf = sync[q].buf
    BY <2>2, <2>3 DEF Becomes, Others, Rewriting, At
  <2>5. where'[f] = "queue" /\ lines'[f] = {}
    BY <2>1 DEF TypeOK
  <2>6. \A g \in Files : (where'[g] = where[g] \/ where'[g] = "queue") /\ lines'[g] \subseteq lines[g]
    BY <2>1 DEF TypeOK
  <2>7. Queued' \subseteq Queued
    <3>1. \A g \in Files : g # f => where'[g] = where[g]
      BY <2>1 DEF TypeOK
    <3> QED  BY <2>5, <2>6, <3>1 DEF Queued, Queue
  <2>8. ASSUME NEW q \in Syncers, At(q, "write")'
        PROVE  \/ /\ At(q, "write") /\ sync'[q].fd = sync[q].fd /\ sync'[q].buf = sync[q].buf
                  /\ where'[sync[q].fd] = where[sync[q].fd] \/ where'[sync[q].fd] = "queue"
                  /\ lines'[sync[q].fd] \subseteq lines[sync[q].fd]
               \/ where'[sync'[q].fd] = "queue" /\ lines'[sync'[q].fd] = {}
    <3>1. CASE q = p
      BY <2>3, <2>5, <3>1 DEF Becomes
    <3>2. CASE q # p
      <4>1. At(q, "write") /\ sync'[q] = sync[q]
        BY <2>3, <2>8, <3>2 DEF Becomes, Others, At
      <4> QED  BY <1>0, <2>6, <4>1
    <3> QED  BY <3>1, <3>2
  <2> QED  BY <2>2, <2>4, <2>7, <2>8, RewriteFrame
<1>13. ASSUME NEW p \in Syncers, WriteLines(p) PROVE RewriteInv'
  <2>1. Becomes(p, IF sync[p].batch = NoFile THEN "orphans" ELSE "finish", sync[p].todo,
                sync[p].batch, NoFile, {}, {})
    BY <1>13, WriteLinesBecomes
  <2>2. At(p, "write") /\ UNCHANGED <<where, exposed>>
    BY <1>13 DEF WriteLines
  <2>3. sync[p].fd \in Files /\ Rewriting(p) /\ lines[sync[p].fd] \subseteq exposed
    BY <1>0, <2>2 DEF RewriteInv, FileHeld
  <2>4. PICK kept \in SUBSET lines[sync[p].fd] : Put(sync[p].fd, sync[p].buf \cup kept)
    BY <1>13 DEF WriteLines
  <2>5. sync[p].buf \cup kept \in SUBSET Turns
    BY <2>3, <2>4, SyncerParts DEF TypeOK
  <2>6. \A g \in Files : lines'[g] \subseteq lines[g] \cup sync[p].buf \cup exposed
    BY <2>3, <2>4, <2>5, PutFile
  <2>7. \A q \in Syncers : Rewriting(q)' => q # p /\ Rewriting(q) /\ sync'[q].buf = sync[q].buf
    BY <2>1 DEF Becomes, Others, Rewriting
  <2>8. \A q \in Syncers : Rewriting(q)' => sync[p].buf \subseteq exposed
    BY <2>3, <2>7 DEF RewriteInv, TextsShared
  <2>9. Queued' \subseteq Queued \cup sync[p].buf \cup exposed
    BY <2>2, <2>6 DEF Queued, Queue
  <2>10. \A q \in Syncers : Rewriting(q)' => Queued' \subseteq Queued \cup exposed'
    BY <2>2, <2>8, <2>9
  <2>11. ASSUME NEW q \in Syncers, At(q, "write")'
         PROVE  /\ At(q, "write") /\ sync'[q].fd = sync[q].fd /\ sync'[q].buf = sync[q].buf
                /\ where'[sync[q].fd] = where[sync[q].fd]
                /\ lines'[sync[q].fd] \subseteq lines[sync[q].fd] \cup exposed'
    <3>1. q # p
      BY <2>1, <2>11 DEF Becomes, At
    <3>2. At(q, "write") /\ sync'[q] = sync[q] /\ Rewriting(q)'
      BY <2>1, <2>11, <3>1 DEF Becomes, Others, At, Rewriting
    <3> QED  BY <1>0, <2>2, <2>6, <2>8, <3>2
  <2> QED  BY <2>2, <2>7, <2>10, <2>11, RewriteFrame
<1>14. ASSUME NEW p \in Syncers, RemoveBatch(p) PROVE RewriteInv'
  <2>1. Becomes(p, "idle", {}, NoFile, NoFile, {}, {})
    BY <1>14, GoesAway DEF RemoveBatch
  <2>2. At(p, "finish") /\ Hands(p) /\ Remove(sync[p].batch) /\ exposed' = exposed
    BY <1>14 DEF RemoveBatch, HandsInv
  <2>3. sync[p].batch \in Files /\ where[sync[p].batch] # "queue"
    BY <2>2, SyncerParts DEF Hands, At
  <2>4. /\ \A f \in Files : where[f] = "queue" <=> where'[f] = "queue"
        /\ \A f \in Files : lines'[f] \subseteq lines[f]
    BY <2>2, <2>3, RemoveFile
  <2>5. ~Rewriting(p)'
    BY <2>1 DEF Becomes, Rewriting
  <2> QED  BY <1>0, <2>1, <2>2, <2>4, <2>5, RewriteKept DEF Becomes
<1>15. ASSUME NEW p \in Syncers, Kill(p) PROVE RewriteInv'
  <2>1. Becomes(p, "idle", {}, NoFile, NoFile, {}, {})
    BY <1>15, GoesAway DEF Kill
  <2>2. exposed \subseteq exposed' /\ UNCHANGED <<where, lines>>
    BY <1>15 DEF Kill
  <2>3. ~Rewriting(p)'
    BY <2>1 DEF Becomes, Rewriting
  <2> QED  BY <1>0, <2>1, <2>2, <2>3, RewriteKept DEF Becomes
<1>16. CASE UNCHANGED <<where, lines, sync, exposed>>
  BY <1>16 DEF RewriteInv, TextsShared, QueueHeld, FileHeld, Rewriting, At, Queued, Queue
<1>17. ASSUME NEW f \in Files, Age(f) PROVE RewriteInv'
  BY <1>16, <1>17 DEF Age
<1> QED
  BY <1>1, <1>2, <1>3, <1>4, <1>5, <1>6, <1>7, <1>8, <1>9, <1>10, <1>11, <1>12, <1>13, <1>14, <1>15,
     <1>16, <1>17 DEF Next, Flush, vars

LEMMA RewriteHolds == Spec => []RewriteInv
<1>1. Init => RewriteInv
  BY InitRewrite
<1>2. (TypeOK /\ HandsInv) /\ RewriteInv /\ [Next]_vars => RewriteInv'
  BY RewriteStep
<1> QED  BY <1>1, <1>2, HandsHold, PTL DEF Spec

-------------------------------------------------------------------------------
(* Where a line that was appended still is.                                              *)

\* A claimed file holds a line as long as all who have read it have yet to send it.
Held(f) == {t \in lines[f] : \A p \in Syncers : sync[p].batch = f => At(p, "claimed") \/ t \in sync[p].left}

Claimed == {t \in Turns : \E f \in Files : where[f] = "sending" /\ t \in Held(f)}
Alone   == {t \in Turns : \E p \in Syncers : t \in OnlyCopy(p)}
Safe    == server \cup exposed \cup Queued \cup Alone \cup Claimed

SafeInv == \A t \in Turns : Appended(t) => t \in Safe

\* The places a line can be safe in, in the next state.
LEMMA SafePlaces ==
    ASSUME TypeOK'
    PROVE  /\ server' \cup exposed' \cup Queued' \subseteq Safe'
           /\ \A p \in Syncers : OnlyCopy(p)' \subseteq Safe'
           /\ \A f \in Files : where'[f] = "sending" => Held(f)' \subseteq Safe'
<1>1. ASSUME NEW p \in Syncers PROVE OnlyCopy(p)' \subseteq Safe'
  <2>1. OnlyCopy(p)' \subseteq Turns
    BY DEF TypeOK, Syncer, OnlyCopy
  <2> QED  BY <2>1 DEF Safe, Alone
<1>2. ASSUME NEW f \in Files, where'[f] = "sending" PROVE Held(f)' \subseteq Safe'
  <2>1. Held(f)' \subseteq Turns
    BY DEF TypeOK, Held
  <2> QED  BY <1>2, <2>1 DEF Safe, Claimed
<1> QED  BY <1>1, <1>2 DEF Safe

\* A step keeps SafeInv when no place gives up a line but to another place.
LEMMA SafeFrame ==
    ASSUME TypeOK', SafeInv, server \cup exposed \cup Queued \subseteq Safe',
           \A p \in Syncers : OnlyCopy(p) \subseteq Safe',
           \A f \in Files : where[f] = "sending" => Held(f) \subseteq Safe',
           \A t \in Turns : Appended(t)' => Appended(t) \/ t \in Safe'
    PROVE  SafeInv'
<1>1. Safe \subseteq Safe'
  <2> SUFFICES ASSUME NEW t \in Safe PROVE t \in Safe'
    OBVIOUS
  <2>1. CASE t \in server \cup exposed \cup Queued
    BY <2>1
  <2>2. CASE \E p \in Syncers : t \in OnlyCopy(p)
    BY <2>2
  <2>3. CASE \E f \in Files : where[f] = "sending" /\ t \in Held(f)
    BY <2>3
  <2> QED  BY <2>1, <2>2, <2>3 DEF Safe, Alone, Claimed
<1> QED  BY <1>1 DEF SafeInv, Appended

\* A line stays held while the file keeps it and its readers have not sent it.
LEMMA StillHeld ==
    ASSUME TypeOK', NEW f \in Files, where'[f] = "sending", NEW t \in lines'[f],
           \A q \in Syncers : sync'[q].batch = f => At(q, "claimed")' \/ t \in sync'[q].left
    PROVE  t \in Safe'
<1>1. t \in Held(f)'
  BY DEF Held, At
<1> QED  BY <1>1, SafePlaces

\* The other syncers keep what they alone have.
LEMMA OthersCopy ==
    ASSUME NEW p \in Syncers, Others(p), NEW q \in Syncers \ {p}
    PROVE  OnlyCopy(q) = OnlyCopy(q)'
  BY DEF Others, OnlyCopy, At

\* A step of one syncer that adds nothing new and changes no file keeps SafeInv when the
\* syncer gives up nothing: neither its only copies, nor its place as a reader.
LEMMA SafeSyncer ==
    ASSUME TypeOK', SafeInv, NEW p \in Syncers, Others(p), UNCHANGED <<where, lines, hook>>,
           server \subseteq server', exposed \subseteq exposed', OnlyCopy(p) \subseteq Safe',
           \A f \in Files : \A t \in Held(f) :
              where[f] = "sending" /\ sync'[p].batch = f => At(p, "claimed")' \/ t \in sync'[p].left \/ t \in Safe'
    PROVE  SafeInv'
<1>1. Queued' = Queued
  BY DEF Queued, Queue
<1>2. server \cup exposed \cup Queued \subseteq Safe'
  BY <1>1, SafePlaces
<1>3. \A q \in Syncers : OnlyCopy(q) \subseteq Safe'
  BY OthersCopy, SafePlaces
<1>4. ASSUME NEW f \in Files, where[f] = "sending", NEW t \in Held(f) PROVE t \in Safe'
  <2>1. \A q \in Syncers \ {p} : sync'[q].batch = f => At(q, "claimed")' \/ t \in sync'[q].left
    BY <1>4 DEF Held, Others, At
  <2>2. t \in lines'[f] /\ where'[f] = "sending"
    BY <1>4 DEF Held
  <2> QED  BY <1>4, <2>1, <2>2, StillHeld
<1>5. \A t \in Turns : Appended(t)' => Appended(t)
  BY DEF Appended
<1> QED  BY <1>2, <1>3, <1>4, <1>5, SafeFrame

\* Removing a batch keeps SafeInv when what the file held is safe elsewhere.
LEMMA SafeRemoval ==
    ASSUME TypeOK, TypeOK', SafeInv, NEW p \in Syncers, Others(p), NEW f \in Files, Remove(f),
           where[f] # "queue", UNCHANGED <<hook, server, exposed>>, OnlyCopy(p) \subseteq Safe',
           sync'[p].batch \notin Files, where[f] = "sending" => Held(f) \subseteq Safe'
    PROVE  SafeInv'
<1>1. \A g \in Files \ {f} : where'[g] = where[g] /\ lines'[g] = lines[g]
  BY RemoveFile
<1>2. Queued \subseteq Queued'
  BY <1>1 DEF Queued, Queue
<1>3. server \cup exposed \cup Queued \subseteq Safe'
  BY <1>2, SafePlaces
<1>4. \A q \in Syncers : OnlyCopy(q) \subseteq Safe'
  BY OthersCopy, SafePlaces
<1>5. ASSUME NEW g \in Files, where[g] = "sending", NEW t \in Held(g) PROVE t \in Safe'
  <2>1. CASE g = f
    BY <1>5, <2>1
  <2>2. CASE g # f
    <3>1. \A q \in Syncers : sync'[q].batch = g => At(q, "claimed")' \/ t \in sync'[q].left
      BY <1>5 DEF Held, Others, At
    <3>2. t \in lines'[g] /\ where'[g] = "sending"
      BY <1>1, <1>5, <2>2 DEF Held
    <3> QED  BY <3>1, <3>2, StillHeld
  <2> QED  BY <2>1, <2>2
<1>6. \A t \in Turns : Appended(t)' => Appended(t)
  BY DEF Appended
<1> QED  BY <1>3, <1>4, <1>5, <1>6, SafeFrame

LEMMA InitSafe == Init => SafeInv
  BY DEF Init, SafeInv, Appended

LEMMA SafeStep == TypeOK /\ HandsInv /\ RewriteInv /\ SafeInv /\ [Next]_vars => SafeInv'
<1> SUFFICES ASSUME TypeOK, HandsInv, RewriteInv, SafeInv, [Next]_vars, TypeOK' PROVE SafeInv'
  BY HandsStep
<1>0. \A q \in Syncers : At(q, "write") => sync[q].fd \in Files /\ Rewriting(q)
  BY OpenFile
<1>1. ASSUME NEW t \in Turns, OpenQueue(t) PROVE SafeInv'
  <2>1. PICK f \in Files :
           /\ Opened(f)
           /\ hook' = [hook EXCEPT ![t] = [pc |-> "opened", fd |-> f]]
           /\ where' = [where EXCEPT ![f] = "queue"]
           /\ lines' = IF f \in Queue THEN lines ELSE [lines EXCEPT ![f] = {}]
    BY <1>1 DEF OpenQueue
  <2>2. UNCHANGED <<sync, server, exposed, kills>>
    BY <1>1 DEF OpenQueue
  <2>3. /\ where[f] \in {"queue", "gone"}
        /\ \A g \in Files : g # f \/ where[g] = "queue" => lines'[g] = lines[g]
        /\ \A g \in Files : g # f \/ where[g] = "queue" => where'[g] = where[g]
    BY <2>1, OpenedFile DEF TypeOK, Queue
  <2>4. Queued \subseteq Queued'
    BY <2>3 DEF Queued, Queue
  <2>5. server \cup exposed \cup Queued \subseteq Safe'
    BY <2>2, <2>4, SafePlaces
  <2>6. \A q \in Syncers : OnlyCopy(q) \subseteq Safe'
    <3>1. \A q \in Syncers : OnlyCopy(q) = OnlyCopy(q)'
      BY <2>2 DEF OnlyCopy, At
    <3> QED  BY <3>1, SafePlaces
  <2>7. ASSUME NEW g \in Files, where[g] = "sending", NEW u \in Held(g) PROVE u \in Safe'
    BY <2>2, <2>3, <2>7, StillHeld DEF Held, At
  <2>8. \A u \in Turns : Appended(u)' => Appended(u)
    BY <2>1 DEF Appended, TypeOK
  <2> QED  BY <2>5, <2>6, <2>7, <2>8, SafeFrame
<1>2. ASSUME NEW t \in Turns, AppendLine(t) PROVE SafeInv'
  <2> DEFINE f == hook[t].fd
  <2>1. /\ Put(f, lines[f] \cup {t}) /\ hook[t].pc = "opened" /\ UNCHANGED <<where, sync, server>>
        /\ exposed' = IF f \in Queue /\ ~\E p \in Syncers : Rewriting(p) THEN exposed ELSE exposed \cup {t}
        /\ hook' = [hook EXCEPT ![t] = [pc |-> "done", fd |-> NoFile]]
    BY <1>2 DEF AppendLine
  <2>2. f \in Files /\ lines[f] \cup {t} \in SUBSET Turns
    BY <2>1 DEF TypeOK, Hook, HandsInv
  <2> HIDE DEF f
  <2>3. /\ \A g \in Files : lines[g] \subseteq lines'[g]
        /\ f \in Queue => t \in lines'[f]
    BY <2>1, <2>2, PutFile DEF Queue
  <2>4. Queued \subseteq Queued' /\ (f \in Queue => t \in Queued')
    BY <2>1, <2>3 DEF Queued, Queue
  <2>5. t \in Safe'
    BY <2>1, <2>4, SafePlaces
  <2>6. server \cup exposed \cup Queued \subseteq Safe'
    BY <2>1, <2>4, SafePlaces
  <2>7. \A q \in Syncers : OnlyCopy(q) \subseteq Safe'
    <3>1. \A q \in Syncers : OnlyCopy(q) = OnlyCopy(q)'
      BY <2>1 DEF OnlyCopy, At
    <3> QED  BY <3>1, SafePlaces
  <2>8. ASSUME NEW g \in Files, where[g] = "sending", NEW u \in Held(g) PROVE u \in Safe'
    BY <2>1, <2>3, <2>8, StillHeld DEF Held, At
  <2>9. \A u \in Turns : Appended(u)' => Appended(u) \/ u = t
    BY <2>1 DEF Appended, TypeOK
  <2> QED  BY <2>5, <2>6, <2>7, <2>8, <2>9, SafeFrame
<1>3. ASSUME NEW p \in Syncers, StartSync(p) PROVE SafeInv'
  <2>1. Becomes(p, "orphans", {f \in Files : IsOrphan(f)}, NoFile, NoFile, {}, {})
    BY <1>3, StartSyncBecomes
  <2>2. At(p, "idle") /\ UNCHANGED <<where, lines, stale, hook, server, exposed, kills>>
    BY <1>3 DEF StartSync
  <2>3. OnlyCopy(p) = {}
    BY <2>2 DEF OnlyCopy, At
  <2> QED  BY <2>1, <2>2, <2>3, SafeSyncer, CliQueueAssumption DEF Becomes
<1>4. ASSUME NEW p \in Syncers, ReadOrphan(p) PROVE SafeInv'
  <2>1. PICK f \in sync[p].todo :
           Becomes(p, "restore", sync[p].todo \ {f}, f, sync[p].fd, Contents(f), sync[p].buf)
    BY <1>4, ReadOrphanBecomes
  <2>2. At(p, "orphans") /\ UNCHANGED <<where, lines, stale, hook, server, exposed, kills>>
    BY <1>4 DEF ReadOrphan
  <2>3. OnlyCopy(p) = {}
    BY <2>2 DEF OnlyCopy, At
  <2>4. \A t \in Held(f) : where[f] = "sending" => t \in sync'[p].left
    BY <2>1 DEF Becomes, Held, Contents
  <2>5. sync'[p].batch = f
    BY <2>1 DEF Becomes
  <2> QED  BY <2>1, <2>2, <2>3, <2>4, <2>5, SafeSyncer DEF Becomes
<1>5. ASSUME NEW p \in Syncers, RemoveOrphan(p) PROVE SafeInv'
  <2>1. Becomes(p, IF sync[p].left = {} THEN "orphans" ELSE "putback", sync[p].todo, NoFile,
                sync[p].fd, sync[p].left, sync[p].buf)
    BY <1>5, RemoveOrphanBecomes
  <2>2. /\ At(p, "restore") /\ Remove(sync[p].batch) /\ UNCHANGED <<hook, server, exposed>>
        /\ Hands(p)
    BY <1>5 DEF RemoveOrphan, HandsInv
  <2>3. sync[p].batch \in Files /\ where[sync[p].batch] # "queue" /\ OnlyCopy(p) = {}
    BY <2>2, SyncerParts DEF Hands, At, OnlyCopy
  <2>4. Held(sync[p].batch) \subseteq sync[p].left
    BY <2>2 DEF Held, At
  <2>5. sync[p].left \subseteq OnlyCopy(p)'
    BY <2>1 DEF Becomes, OnlyCopy, At
  <2>6. sync'[p].batch \notin Files
    BY <2>1, CliQueueAssumption DEF Becomes
  <2>7. Held(sync[p].batch) \subseteq Safe'
    BY <2>4, <2>5, SafePlaces
  <2> QED  BY <2>1, <2>2, <2>3, <2>6, <2>7, SafeRemoval DEF Becomes
<1>6. ASSUME NEW p \in Syncers, ClaimQueue(p) PROVE SafeInv'
  <2>1. PICK f \in Queue :
           /\ where' = [where EXCEPT ![f] = "sending"]
           /\ Go(p, [Away EXCEPT !.pc = "claimed", !.batch = f])
           /\ exposed' = exposed \cup UNION {sync[q].buf : q \in {o \in Syncers : sync[o].fd = f}}
    BY <1>6 DEF ClaimQueue
  <2>2. /\ f \in Files /\ where[f] = "queue" /\ At(p, "orphans") /\ UNCHANGED <<lines, hook, server>>
        /\ exposed \subseteq exposed'
    BY <1>6, <2>1 DEF ClaimQueue, Queue
  <2>3. Becomes(p, "claimed", {}, f, NoFile, {}, {})
    BY <2>1, <2>2, ClaimQueueBecomes
  <2>4. where'[f] = "sending" /\ \A g \in Files \ {f} : where'[g] = where[g]
    BY <2>1, <2>2 DEF TypeOK
  <2>5. lines[f] \subseteq Safe'
    <3>1. \A q \in Syncers : sync'[q].batch = f => At(q, "claimed")'
      <4>1. \A q \in Syncers \ {p} : sync[q].batch # f
        BY <2>2 DEF HandsInv, Hands
      <4> QED  BY <2>3, <4>1 DEF Becomes, Others, At
    <3> QED  BY <2>2, <2>4, <3>1, StillHeld
  <2>6. Queued \subseteq Queued' \cup lines[f]
    BY <2>2, <2>4 DEF Queued, Queue
  <2>7. server \cup exposed \cup Queued \subseteq Safe'
    BY <2>2, <2>5, <2>6, SafePlaces
  <2>8. OnlyCopy(p) = {}
    BY <2>2 DEF OnlyCopy, At
  <2>9. \A q \in Syncers : OnlyCopy(q) \subseteq Safe'
    BY <2>3, <2>8, OthersCopy, SafePlaces DEF Becomes
  <2>10. ASSUME NEW g \in Files, where[g] = "sending", NEW t \in Held(g) PROVE t \in Safe'
    <3>1. g # f
      BY <2>2, <2>10
    <3>2. \A q \in Syncers : sync'[q].batch = g => At(q, "claimed")' \/ t \in sync'[q].left
      BY <2>3, <2>10, <3>1 DEF Becomes, Others, Held, At
    <3>3. t \in lines'[g] /\ where'[g] = "sending"
      BY <2>2, <2>4, <2>10, <3>1 DEF Held
    <3> QED  BY <3>2, <3>3, StillHeld
  <2>11. \A t \in Turns : Appended(t)' => Appended(t)
    BY <2>2 DEF Appended
  <2> QED  BY <2>7, <2>9, <2>10, <2>11, SafeFrame
<1>7. ASSUME NEW p \in Syncers, NothingQueued(p) PROVE SafeInv'
  <2>1. Becomes(p, "idle", {}, NoFile, NoFile, {}, {})
    BY <1>7, GoesAway DEF NothingQueued
  <2>2. At(p, "orphans") /\ UNCHANGED <<where, lines, stale, hook, server, exposed, kills>>
    BY <1>7 DEF NothingQueued
  <2>3. OnlyCopy(p) = {}
    BY <2>2 DEF OnlyCopy, At
  <2> QED  BY <2>1, <2>2, <2>3, SafeSyncer, CliQueueAssumption DEF Becomes
<1>8. ASSUME NEW p \in Syncers, ReadBatch(p) PROVE SafeInv'
  <2>1. At(p, "claimed") /\ UNCHANGED <<hook, server, exposed>> /\ Hands(p)
    BY <1>8 DEF ReadBatch, HandsInv
  <2>2. sync[p].batch \in Files /\ where[sync[p].batch] # "queue" /\ OnlyCopy(p) = {}
    BY <2>1, SyncerParts DEF Hands, At, OnlyCopy
  <2>3. CASE Contents(sync[p].batch) = {} /\ Remove(sync[p].batch) /\ Go(p, Away)
    <3>1. Becomes(p, "idle", {}, NoFile, NoFile, {}, {})
      BY <2>3, GoesAway
    <3>2. where[sync[p].batch] = "sending" => Held(sync[p].batch) = {}
      BY <2>3 DEF Contents, Held
    <3>3. sync'[p].batch \notin Files
      BY <3>1, CliQueueAssumption DEF Becomes
    <3>4. OnlyCopy(p) \subseteq Safe' /\ (where[sync[p].batch] = "sending" => Held(sync[p].batch) \subseteq Safe')
      BY <2>2, <3>2
    <3> QED  BY <2>1, <2>2, <2>3, <3>1, <3>3, <3>4, SafeRemoval DEF Becomes
  <2>4. CASE /\ Go(p, [sync[p] EXCEPT !.pc = "sending", !.left = Contents(sync[p].batch)])
             /\ UNCHANGED <<where, lines, stale>>
    <3>1. Contents(sync[p].batch) \in SUBSET Turns /\ "sending" \in Steps
      BY <2>2 DEF Contents, TypeOK, Steps
    <3>2. Becomes(p, "sending", sync[p].todo, sync[p].batch, sync[p].fd, Contents(sync[p].batch), sync[p].buf)
      BY <2>4, <3>1, MovesOn
    <3>3. \A t \in Held(sync[p].batch) : where[sync[p].batch] = "sending" => t \in sync'[p].left
      BY <3>2 DEF Becomes, Held, Contents
    <3>4. sync'[p].batch = sync[p].batch
      BY <3>2 DEF Becomes
    <3> QED  BY <2>1, <2>2, <2>4, <3>2, <3>3, <3>4, SafeSyncer DEF Becomes
  <2> QED  BY <1>8, <2>3, <2>4 DEF ReadBatch
<1>9. ASSUME NEW p \in Syncers, SendBatch(p) PROVE SafeInv'
  <2>1. PICK b \in SUBSET Turns :
           /\ server' = server \cup b
           /\ Go(p, [sync[p] EXCEPT !.left = @ \ b, !.pc = IF sync[p].left = b THEN "finish" ELSE "sending"])
    BY <1>9 DEF SendBatch
  <2>2. At(p, "sending") /\ UNCHANGED <<where, lines, hook, exposed>>
    BY <1>9 DEF SendBatch
  <2>3. Others(p) /\ sync'[p].batch = sync[p].batch /\ sync'[p].left = sync[p].left \ b
    BY <2>1 DEF Go, Others, TypeOK, Syncer
  <2>4. OnlyCopy(p) = {}
    BY <2>2 DEF OnlyCopy, At
  <2>5. ASSUME NEW f \in Files, NEW t \in Held(f), where[f] = "sending", sync'[p].batch = f
        PROVE  t \in sync'[p].left \/ t \in Safe'
    <3>1. t \in sync[p].left
      BY <2>2, <2>3, <2>5 DEF Held, At
    <3> QED  BY <2>1, <2>3, <3>1, SafePlaces
  <2> QED  BY <2>1, <2>2, <2>3, <2>4, <2>5, SafeSyncer
<1>10. ASSUME NEW p \in Syncers, SendFails(p) PROVE SafeInv'
  <2>1. PICK b \in SUBSET Turns :
           /\ server' \in {server, server \cup b}
           /\ Go(p, [sync[p] EXCEPT !.left = sync[p].left, !.pc = "putback"])
    BY <1>10 DEF SendFails, Unsent
  <2>2. At(p, "sending") /\ UNCHANGED <<where, lines, hook, exposed>>
    BY <1>10 DEF SendFails
  <2>3. Others(p) /\ sync'[p].batch = sync[p].batch /\ sync'[p].left = sync[p].left
    BY <2>1 DEF Go, Others, TypeOK, Syncer
  <2>4. OnlyCopy(p) = {} /\ server \subseteq server'
    BY <2>1, <2>2 DEF OnlyCopy, At
  <2>5. \A f \in Files : \A t \in Held(f) : sync'[p].batch = f => t \in sync'[p].left
    BY <2>2, <2>3 DEF Held, At
  <2> QED  BY <2>2, <2>3, <2>4, <2>5, SafeSyncer
<1>11. ASSUME NEW p \in Syncers, Merge(p) PROVE SafeInv'
  <2>1. Becomes(p, "open", sync[p].todo, sync[p].batch, sync[p].fd, sync[p].left, sync[p].left \cup Queued)
    BY <1>11, MergeBecomes
  <2>2. At(p, "putback") /\ UNCHANGED <<where, lines, hook, server>> /\ exposed \subseteq exposed'
    BY <1>11 DEF Merge
  <2>3. OnlyCopy(p) \subseteq OnlyCopy(p)'
    BY <2>1, <2>2 DEF Becomes, OnlyCopy, At
  <2>4. \A f \in Files : \A t \in Held(f) : sync'[p].batch = f => t \in sync'[p].left
    BY <2>1, <2>2 DEF Becomes, Held, At
  <2>5. OnlyCopy(p) \subseteq Safe'
    BY <2>3, SafePlaces
  <2> QED  BY <2>1, <2>2, <2>4, <2>5, SafeSyncer DEF Becomes
<1>12. ASSUME NEW p \in Syncers, Truncate(p) PROVE SafeInv'
  <2>1. PICK f \in Files :
           /\ Opened(f)
           /\ where' = [where EXCEPT ![f] = "queue"]
           /\ lines' = [lines EXCEPT ![f] = {}]
           /\ Go(p, [sync[p] EXCEPT !.pc = "write", !.fd = f])
    BY <1>12 DEF Truncate
  <2>2. At(p, "open") /\ UNCHANGED <<hook, server, exposed>> /\ Hands(p) /\ Rewriting(p)
    BY <1>12 DEF Truncate, HandsInv, Rewriting, At
  <2>3. Becomes(p, "write", sync[p].todo, sync[p].batch, f, sync[p].left, sync[p].buf)
    BY <2>1, TruncateBecomes
  <2>4. OnlyCopy(p)' = sync[p].buf
    BY <2>3 DEF Becomes, OnlyCopy, At
  <2>5. Queued \subseteq sync[p].buf \cup exposed
    BY <2>2 DEF RewriteInv, QueueHeld
  <2>6. OnlyCopy(p) \subseteq sync[p].buf
    BY <2>2 DEF OnlyCopy, Hands, At
  <2>7. server \cup exposed \cup Queued \subseteq Safe'
    BY <2>2, <2>4, <2>5, SafePlaces
  <2>8. \A q \in Syncers : OnlyCopy(q) \subseteq Safe'
    BY <2>3, <2>4, <2>6, OthersCopy, SafePlaces DEF Becomes
  <2>9. ASSUME NEW g \in Files, where[g] = "sending", NEW t \in Held(g) PROVE t \in Safe'
    <3>1. g # f
      BY <2>1, <2>9, OpenedFile
    <3>2. \A q \in Syncers : sync'[q].batch = g => At(q, "claimed")' \/ t \in sync'[q].left
      BY <2>2, <2>3, <2>9 DEF Becomes, Others, Held, At
    <3>3. t \in lines'[g] /\ where'[g] = "sending"
      BY <2>1, <2>9, <3>1 DEF Held, TypeOK
    <3> QED  BY <3>2, <3>3, StillHeld
  <2>10. \A t \in Turns : Appended(t)' => Appended(t)
    BY <2>2 DEF Appended
  <2> QED  BY <2>7, <2>8, <2>9, <2>10, SafeFrame
<1>13. ASSUME NEW p \in Syncers, WriteLines(p) PROVE SafeInv'
  <2>1. Becomes(p, IF sync[p].batch = NoFile THEN "orphans" ELSE "finish", sync[p].todo,
                sync[p].batch, NoFile, {}, {})
    BY <1>13, WriteLinesBecomes
  <2>2. At(p, "write") /\ UNCHANGED <<where, hook, server, exposed>> /\ Hands(p)
    BY <1>13 DEF WriteLines, HandsInv
  <2>3. /\ sync[p].fd \in Files /\ Rewriting(p) /\ lines[sync[p].fd] \subseteq exposed
        /\ where[sync[p].fd] # "queue" => sync[p].buf \subseteq exposed
    BY <1>0, <2>2 DEF RewriteInv, FileHeld
  <2>4. PICK kept \in SUBSET lines[sync[p].fd] : Put(sync[p].fd, sync[p].buf \cup kept)
    BY <1>13 DEF WriteLines
  <2>5. sync[p].buf \cup kept \in SUBSET Turns
    BY <2>3, <2>4, SyncerParts DEF TypeOK
  <2>6. /\ where[sync[p].fd] = "queue" => sync[p].buf \subseteq lines'[sync[p].fd]
        /\ \A g \in Files : lines[g] \subseteq lines'[g] \cup exposed
    BY <2>3, <2>4, <2>5, PutFile
  <2>7. /\ where[sync[p].fd] = "queue" => sync[p].buf \subseteq Queued'
        /\ Queued \subseteq Queued' \cup exposed
    BY <2>2, <2>3, <2>6 DEF Queued, Queue
  <2>8. sync[p].buf \subseteq Safe'
    BY <2>2, <2>3, <2>7, SafePlaces
  <2>9. server \cup exposed \cup Queued \subseteq Safe'
    BY <2>2, <2>7, SafePlaces
  <2>10. OnlyCopy(p) = sync[p].buf
    BY <2>2 DEF OnlyCopy
  <2>11. \A q \in Syncers : OnlyCopy(q) \subseteq Safe'
    BY <2>1, <2>8, <2>10, OthersCopy, SafePlaces DEF Becomes
  <2>12. ASSUME NEW g \in Files, where[g] = "sending", NEW t \in Held(g) PROVE t \in Safe'
    <3>1. CASE t \in exposed
      BY <2>2, <3>1, SafePlaces
    <3>2. CASE sync[p].batch = g
      <4>1. t \in sync[p].left
        BY <2>2, <2>12, <3>2 DEF Held, At
      <4> QED  BY <2>2, <2>3, <2>8, <4>1 DEF Hands
    <3>3. CASE t \notin exposed /\ sync[p].batch # g
      <4>1. \A q \in Syncers : sync'[q].batch = g => At(q, "claimed")' \/ t \in sync'[q].left
        BY <2>1, <2>12, <3>3 DEF Becomes, Others, Held, At
      <4>2. t \in lines'[g] /\ where'[g] = "sending"
        BY <2>2, <2>6, <2>12, <3>3 DEF Held
      <4> QED  BY <4>1, <4>2, StillHeld
    <3> QED  BY <3>1, <3>2, <3>3
  <2>13. \A t \in Turns : Appended(t)' => Appended(t)
    BY <2>2 DEF Appended
  <2> QED  BY <2>9, <2>11, <2>12, <2>13, SafeFrame
<1>14. ASSUME NEW p \in Syncers, RemoveBatch(p) PROVE SafeInv'
  <2>1. Becomes(p, "idle", {}, NoFile, NoFile, {}, {})
    BY <1>14, GoesAway DEF RemoveBatch
  <2>2. At(p, "finish") /\ Hands(p) /\ Remove(sync[p].batch) /\ UNCHANGED <<hook, server, exposed>>
    BY <1>14 DEF RemoveBatch, HandsInv
  <2>3. sync[p].batch \in Files /\ where[sync[p].batch] # "queue" /\ OnlyCopy(p) = {} /\ sync[p].left = {}
    BY <2>2, SyncerParts DEF Hands, At, OnlyCopy
  <2>4. Held(sync[p].batch) = {}
    BY <2>2, <2>3 DEF Held, At
  <2>5. sync'[p].batch \notin Files
    BY <2>1, CliQueueAssumption DEF Becomes
  <2>6. OnlyCopy(p) \subseteq Safe' /\ Held(sync[p].batch) \subseteq Safe'
    BY <2>3, <2>4
  <2> QED  BY <2>1, <2>2, <2>3, <2>5, <2>6, SafeRemoval DEF Becomes
<1>15. ASSUME NEW p \in Syncers, Kill(p) PROVE SafeInv'
  <2>1. Becomes(p, "idle", {}, NoFile, NoFile, {}, {})
    BY <1>15, GoesAway DEF Kill
  <2>2. exposed' = exposed \cup OnlyCopy(p) /\ UNCHANGED <<where, lines, hook, server>>
    BY <1>15 DEF Kill
  <2>3. OnlyCopy(p) \subseteq Safe' /\ exposed \subseteq exposed'
    BY <2>2, SafePlaces
  <2>4. \A f \in Files : sync'[p].batch # f
    BY <2>1, CliQueueAssumption DEF Becomes
  <2> QED  BY <2>1, <2>2, <2>3, <2>4, SafeSyncer DEF Becomes
<1>16. CASE UNCHANGED <<where, lines, hook, sync, server, exposed>>
  BY <1>16 DEF SafeInv, Safe, Appended, Queued, Queue, Alone, Claimed, OnlyCopy, Held, At
<1>17. ASSUME NEW f \in Files, Age(f) PROVE SafeInv'
  BY <1>16, <1>17 DEF Age
<1> QED
  BY <1>1, <1>2, <1>3, <1>4, <1>5, <1>6, <1>7, <1>8, <1>9, <1>10, <1>11, <1>12, <1>13, <1>14, <1>15,
     <1>16, <1>17 DEF Next, Flush, vars

LEMMA SafeHolds == Spec => []SafeInv
<1>1. Init => SafeInv
  BY InitSafe
<1>2. (TypeOK /\ HandsInv) /\ RewriteInv /\ SafeInv /\ [Next]_vars => SafeInv'
  BY SafeStep
<1> QED  BY <1>1, <1>2, HandsHold, RewriteHolds, PTL DEF Spec

\* A turn that was appended is on the server, in a file that a later flush will find or in
\* the hands of a running one, unless it met one of the named windows: with any number of
\* hooks, flushes and kills, failed sends and stolen batches lose nothing else.
THEOREM LossesNamed == Spec => []LossesExplained
<1>1. TypeOK /\ SafeInv => LossesExplained
  <2> SUFFICES ASSUME TypeOK, SafeInv, NEW t \in Turns, Appended(t)
               PROVE  t \in server \cup Linked \cup Carried \cup exposed
    BY DEF LossesExplained
  <2>1. t \in Safe
    BY DEF SafeInv
  <2>2. Queued \subseteq Linked
    BY DEF Queued, Queue, Linked
  <2>3. ASSUME NEW p \in Syncers, t \in OnlyCopy(p) PROVE t \in Carried
    BY <2>3 DEF OnlyCopy, Carried
  <2>4. ASSUME NEW f \in Files, where[f] = "sending", t \in Held(f) PROVE t \in Linked
    BY <2>4 DEF Held, Linked
  <2> QED  BY <2>1, <2>2, <2>3, <2>4 DEF Safe, Alone, Claimed
<1> QED  BY <1>1, HandsHold, SafeHolds, PTL

================================================================================
