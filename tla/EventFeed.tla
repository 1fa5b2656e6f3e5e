---------------------------------- MODULE EventFeed ----------------------------------
(***************************************************************************)
(* The live event feed (GET /v1/events, server-sent events) over the       *)
(* events table, for one account.                                          *)
(*                                                                         *)
(* Every mutation writes an event in its transaction.  The event's seq is  *)
(* drawn when the row is inserted, its created_at is the time the          *)
(* transaction began, and it becomes visible when the transaction commits: *)
(* three orders that need not agree.  A stream polls for the events past   *)
(* its cursor that are older than a grace window, and its cursor only      *)
(* moves forward.                                                          *)
(*                                                                         *)
(* A connection may break at any time and lose what was on its way; the    *)
(* browser then reconnects with the id of the last event it got.           *)
(***************************************************************************)
EXTENDS Integers, Sequences, FiniteSets, SequencesExt

CONSTANTS
    Txs,            \* mutations of all accounts, one event each
    Own,            \* those of the account whose streams are modelled
    Streams,        \* its connections
    Wants,          \* [Streams -> SUBSET Own]: the events of the project a stream filters on
    Grace,          \* EventGraceWindow
    Lim,            \* events one poll reads (200)
    MaxConn,        \* SSEMaxConnPerUser
    LongestTx,      \* a transaction ends within this (request and statement timeouts)
    Retention,      \* age at which an event is purged (30 days)
    LastStart,      \* bound: time of the last mutation
    MaxNow,         \* bound: the clock
    MaxDrops        \* bound: connections broken or refused by the database

ASSUME EventFeedAssumption ==
    /\ IsFiniteSet(Txs) /\ IsFiniteSet(Streams)
    /\ Own \subseteq Txs /\ Wants \in [Streams -> SUBSET Own]
    /\ Grace \in Nat /\ Lim \in Nat \ {0} /\ MaxConn \in Nat \ {0}
    /\ LongestTx \in Nat /\ Retention \in Nat
    /\ Retention > LongestTx + Grace /\ Retention >= 2 * LongestTx     \* seconds against 30 days
    /\ LastStart \in Nat /\ MaxNow \in Nat /\ MaxDrops \in Nat

VARIABLES
    now,
    tx,             \* the mutations' transactions
    lastSeq,        \* the sequence behind events.seq
    stream,         \* the handlers of the open connections
    perUser,        \* the hub's count of the account's connections
    wire,           \* what a handler has written and its client not yet read
    got,            \* what each client has read
    drops,
    skipped,        \* history: events each stream's cursor passed without reading them
    jumped,         \* history: those it passed by starting at the head, no place being known
    rewound         \* history: streams that lost their place and the head with it

vars == <<now, tx, lastSeq, stream, perUser, wire, got, drops, skipped, jumped, rewound>>
db   == <<now, tx, lastSeq>>

-------------------------------------------------------------------------------
Tx     == [pc : {"none", "open", "inserted", "committed", "aborted", "purged"},
           created_at : 0 .. MaxNow, seq : 0 .. Cardinality(Txs), ended_at : 0 .. MaxNow]
Stream == [open : BOOLEAN, cursor : 0 .. Cardinality(Txs)]

Unended(t) == tx[t].pc \in {"open", "inserted"}
Visible(t) == tx[t].pc = "committed"
Old(t)     == tx[t].created_at < now - Grace
Aged       == {t \in Txs : Visible(t) /\ Old(t)}

\* Events in the order of their numbers.
Increasing(q) == \A i, j \in DOMAIN q : i < j => tx[q[i]].seq < tx[q[j]].seq

\* The ways to list S in that order: there is one, for no number is drawn twice.
BySeq(S) == {q \in [1 .. Cardinality(S) -> S] : Range(q) = S /\ Increasing(q)}

\* LIMIT Lim.
Page(q) == SubSeq(q, 1, IF Len(q) < Lim THEN Len(q) ELSE Lim)

\* Fault: no grace window.
ListEventsFresh(after) == {Page(q) : q \in BySeq({t \in Own : Visible(t) /\ tx[t].seq > after})}

\* ListEventsForUserAfterSeq: the account's events, ORDER BY seq, LIMIT Lim.
ListEventsAfterSeq(after) == {Page(q) : q \in BySeq({t \in Aged \cap Own : tx[t].seq > after})}

\* The head is that of the whole table, whoever the events belong to.
MaxEventSeq ==
    IF Aged = {} THEN 0 ELSE tx[CHOOSE t \in Aged : \A u \in Aged : tx[u].seq <= tx[t].seq].seq

Init ==
    /\ now = 0 /\ lastSeq = 0 /\ perUser = 0 /\ drops = 0
    /\ tx = [t \in Txs |-> [pc |-> "none", created_at |-> 0, seq |-> 0, ended_at |-> 0]]
    /\ stream = [s \in Streams |-> [open |-> FALSE, cursor |-> 0]]
    /\ wire = [s \in Streams |-> <<>>] /\ got = [s \in Streams |-> <<>>]
    /\ skipped = [s \in Streams |-> {}] /\ jumped = [s \in Streams |-> {}] /\ rewound = {}

-------------------------------------------------------------------------------
(* Mutations. *)

Begin(t) ==
    /\ tx[t].pc = "none" /\ now <= LastStart
    /\ tx' = [tx EXCEPT ![t].pc = "open", ![t].created_at = now]
    /\ UNCHANGED <<now, lastSeq, stream, perUser, wire, got, drops, skipped, jumped, rewound>>

\* bigserial: the number is drawn now, and never given back.
InsertEvent(t) ==
    /\ tx[t].pc = "open"
    /\ lastSeq' = lastSeq + 1
    /\ tx' = [tx EXCEPT ![t].pc = "inserted", ![t].seq = lastSeq']
    /\ UNCHANGED <<now, stream, perUser, wire, got, drops, skipped, jumped, rewound>>

End(t) ==
    /\ \/ tx[t].pc = "inserted" /\ tx' = [tx EXCEPT ![t].pc = "committed", ![t].ended_at = now]
       \/ tx[t].pc \in {"open", "inserted"} /\ tx' = [tx EXCEPT ![t].pc = "aborted", ![t].ended_at = now]
    /\ UNCHANGED <<now, lastSeq, stream, perUser, wire, got, drops, skipped, jumped, rewound>>

PurgeOldEvents(t) ==
    /\ Visible(t) /\ tx[t].created_at < now - Retention
    /\ tx' = [tx EXCEPT ![t].pc = "purged"]
    /\ UNCHANGED <<now, lastSeq, stream, perUser, wire, got, drops, skipped, jumped, rewound>>

-------------------------------------------------------------------------------
(* Connections. *)

\* The hub counts connections and refuses those past the limit.
acquire == perUser < MaxConn /\ perUser' = perUser + 1
\* Fault: a broken connection keeps its place.
releaseNothing == UNCHANGED perUser
release == perUser' = IF perUser > 0 THEN perUser - 1 ELSE perUser

\* Where the client stands: the last event it got, named by its seq or, by older clients, by its id.
Place(s) == IF got[s] = <<>> THEN 0 ELSE tx[Last(got[s])].seq

\* The id tells nothing when the query for its event fails, or the event is gone.
Unplaced(s, failed) ==
    got[s] # <<>> => "GetEvent" \in failed \/ ~Visible(Last(got[s]))

\* Fault: a client that reconnects gets the head of the feed, whatever it has seen.
ResumeAtHead(s, head, failed) == {head}

\* Where a stream starts: after the event the client names; at the head of the feed if it names
\* none, or names by its id one that is not found.
Resume(s, head, failed) ==
    (IF got[s] = <<>> THEN {} ELSE {Place(s)}) \cup (IF Unplaced(s, failed) THEN {head} ELSE {})

\* What a cursor passes in going from one number to another: events committed or still to come,
\* which the client has not got.
Passed(s, from, upto) ==
    {t \in Wants[s] : /\ tx[t].pc \in {"inserted", "committed"} /\ tx[t].seq <= upto
                      /\ tx[t].seq > from /\ t \notin Range(got[s])}

\* The database may fail either query of a connection: without the head a stream starts at 0.
Connect(s) ==
    /\ ~stream[s].open /\ acquire
    /\ \E failed \in SUBSET {"MaxEventSeq", "GetEvent"} :
          LET head == IF "MaxEventSeq" \in failed THEN 0 ELSE MaxEventSeq IN
          /\ drops' = IF failed = {} THEN drops ELSE drops + 1
          /\ drops' <= MaxDrops
          /\ \E cursor \in Resume(s, head, failed) :
                LET passed == Passed(s, Place(s), cursor) IN
                /\ stream' = [stream EXCEPT ![s] = [open |-> TRUE, cursor |-> cursor]]
                /\ IF Unplaced(s, failed)
                     THEN jumped' = [jumped EXCEPT ![s] = @ \cup passed] /\ UNCHANGED skipped
                     ELSE skipped' = [skipped EXCEPT ![s] = @ \cup passed] /\ UNCHANGED jumped
                /\ rewound' = IF got[s] # <<>> /\ Unplaced(s, failed) /\ cursor = 0 /\ "MaxEventSeq" \in failed
                                THEN rewound \cup {s} ELSE rewound
    /\ wire' = [wire EXCEPT ![s] = <<>>]
    /\ UNCHANGED <<now, tx, lastSeq, got>>

\* Fault: an event the filter keeps back does not move the cursor.
PollKeepingCursor(s) ==
    /\ stream[s].open
    /\ \E evs \in ListEventsAfterSeq(stream[s].cursor) : \E sent \in BySeq(Range(evs) \cap Wants[s]) :
          /\ sent # <<>>
          /\ wire' = [wire EXCEPT ![s] = @ \o sent]
          /\ stream' = [stream EXCEPT ![s].cursor = tx[Last(sent)].seq]
          /\ skipped' = [skipped EXCEPT ![s] =
                           @ \cup (Passed(s, stream[s].cursor, tx[Last(sent)].seq) \ Range(evs))]
    /\ UNCHANGED <<now, tx, lastSeq, perUser, got, drops, jumped, rewound>>

\* One poll: it reads, writes what the filter lets through and moves its cursor.
Poll(s) ==
    /\ stream[s].open
    /\ \E evs \in ListEventsAfterSeq(stream[s].cursor) : \E sent \in BySeq(Range(evs) \cap Wants[s]) :
          /\ evs # <<>>
          /\ wire' = [wire EXCEPT ![s] = @ \o sent]
          /\ stream' = [stream EXCEPT ![s].cursor = tx[Last(evs)].seq]
          /\ skipped' = [skipped EXCEPT ![s] =
                           @ \cup (Passed(s, stream[s].cursor, tx[Last(evs)].seq) \ Range(evs))]
    /\ UNCHANGED <<now, tx, lastSeq, perUser, got, drops, jumped, rewound>>

\* The client reads.
Read(s) ==
    /\ stream[s].open /\ wire[s] # <<>>
    /\ got' = [got EXCEPT ![s] = Append(@, Head(wire[s]))]
    /\ wire' = [wire EXCEPT ![s] = Tail(@)]
    /\ UNCHANGED <<now, tx, lastSeq, stream, perUser, drops, skipped, jumped, rewound>>

\* The connection breaks; what was on its way is lost.
Disconnect(s) ==
    /\ stream[s].open /\ drops < MaxDrops /\ drops' = drops + 1
    /\ stream' = [stream EXCEPT ![s].open = FALSE]
    /\ release
    /\ wire' = [wire EXCEPT ![s] = <<>>]
    /\ UNCHANGED <<now, tx, lastSeq, got, skipped, jumped, rewound>>

Tick ==
    /\ now < MaxNow /\ \A t \in Txs : Unended(t) => now - tx[t].created_at < LongestTx
    /\ now' = now + 1
    /\ UNCHANGED <<tx, lastSeq, stream, perUser, wire, got, drops, skipped, jumped, rewound>>

-------------------------------------------------------------------------------
Next ==
    \/ Tick
    \/ \E t \in Txs : Begin(t) \/ InsertEvent(t) \/ End(t) \/ PurgeOldEvents(t)
    \/ \E s \in Streams : Connect(s) \/ Poll(s) \/ Read(s) \/ Disconnect(s)

\* Transactions end, time passes, and an open stream polls and is read.
Fairness ==
    /\ WF_vars(Tick)
    /\ \A t \in Txs : WF_vars(End(t))
    /\ \A s \in Streams : WF_vars(Poll(s)) /\ WF_vars(Read(s))

Spec == Init /\ [][Next]_vars /\ Fairness

-------------------------------------------------------------------------------
TypeOK ==
    /\ now \in 0 .. MaxNow /\ lastSeq \in 0 .. Cardinality(Txs)
    /\ tx \in [Txs -> Tx]
    /\ stream \in [Streams -> Stream]
    /\ perUser = Cardinality({s \in Streams : stream[s].open}) /\ perUser <= MaxConn
    /\ \A s \in Streams : Range(wire[s]) \cup Range(got[s]) \subseteq Wants[s]
    /\ drops \in 0 .. MaxDrops /\ rewound \subseteq Streams
    /\ skipped \in [Streams -> SUBSET Txs] /\ jumped \in [Streams -> SUBSET Txs]

\* A client reads events in the order of their numbers and none twice, across reconnections, failed
\* queries and purges.  The exception needs two failures at once: the client names the last event
\* it got by its id and that is not found, purged or because the query for it fails, and the query
\* for the head fails too; the stream then starts again at 0 (sse_handler.go:100-152).
InOrder ==
    \A s \in Streams \ rewound : Increasing(got[s] \o wire[s])

\* Two transactions of the account were open at the same time.
Overlapped(t, u) == tx[t].created_at <= tx[u].ended_at /\ tx[u].created_at <= tx[t].ended_at

\* In polling, and in resuming at a place that is known, a cursor passes an event its client has
\* not got only because the transaction of another of the account, with a greater number,
\* overlapped it, and either began before it or outran the grace window: mutations one after the
\* other are never skipped, nor is a transaction that is both first and shorter than the window
\* (events.sql:15-22); what a broken connection lost lies past the place and is not passed.  The
\* rest is in `jumped`: a client that names no event, or by its id one that is not found, starts
\* at the head and misses what it had not read (sse_handler.go:106-119).
SkipsExplained ==
    \A s \in Streams : \A t \in skipped[s] : \E u \in Own \ {t} :
        /\ tx[u].seq > tx[t].seq
        /\ Unended(t) \/ Overlapped(t, u)
        /\ \/ tx[u].created_at < tx[t].created_at
           \/ (IF Unended(t) THEN now ELSE tx[t].ended_at) - tx[t].created_at > Grace

\* No event is passed over: "excluding very fresh rows keeps a forward-only cursor from skipping
\* them permanently" (db/queries/events.sql).  Asked of transactions that all end within the window.
NothingSkipped == \A s \in Streams : skipped[s] = {}

\* A stream that stays connected reads every event past its cursor, skipped ones aside.
EventuallyRead ==
    \A s \in Streams : \A t \in Wants[s] :
        Visible(t) /\ stream[s].open /\ tx[t].seq > stream[s].cursor
            ~> ~stream[s].open \/ t \in Range(got[s]) \/ t \in skipped[s] \/ tx[t].pc = "purged"
================================================================================
