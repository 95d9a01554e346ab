----------------------------- MODULE ResultStore -----------------------------
(***************************************************************************)
(* The history of results: the SQLite table behind store.Store, the        *)
(* handlers createResult and listResults, and the life of the process      *)
(* around them: Open with its schema migration and the one prune at boot,  *)
(* the drain of srv.Shutdown, Close, exit, crash and restart.              *)
(*                                                                         *)
(* A row is its id and its created_at; the measurements are carried along  *)
(* unchanged.  The pool has one connection, so every statement is atomic.  *)
(***************************************************************************)
EXTENDS Naturals, FiniteSets

CONSTANTS
    Posters,    \* goroutines that serve POST /api/results
    Limit,      \* page size of the client that reads the history
    MaxOffset,  \* maxListOffset
    Retention,  \* HistoryRetentionDays in ticks, 0 for no pruning
    MaxClock,   \* bound on time
    Found,      \* rows in the table of an earlier process
    MaxSaves,   \* bound on the rows inserted
    MaxBoots    \* bound on the starts of the process

ASSUME StoreAssumption ==
    /\ Limit \in Nat \ {0} /\ MaxOffset \in Nat /\ Retention \in Nat
    /\ MaxClock \in Nat /\ Found \in Nat /\ MaxSaves \in Nat /\ MaxBoots \in Nat

VARIABLES
    clock,
    schema,     \* the table on disk: "absent", "old" (no location column), "new"
    rows,       \* the table's rows
    seq,        \* sqlite_sequence: the last id handed out
    found,      \* history: the rows there were at first
    server,     \* the process: where main() is
    store,      \* h.store: "nil", "open", "closed"
    forced,     \* Shutdown returned on its 30 s deadline
    boots,
    post,       \* each POST: where it is, its created_at and its row
    reader,     \* a client paging through the history
    acked       \* history: the rows acknowledged with 201

process == <<server, store, forced, boots>>
table == <<schema, rows, seq, found>>
vars == <<clock, schema, rows, seq, found, server, store, forced, boots, post, reader, acked>>

MaxRows == Found + MaxSaves

NoPost == [pc |-> "idle", at |-> 0, id |-> 0]
NoReader == [pc |-> "idle", offset |-> 0, page |-> {}, total |-> 0,
             start |-> {}, seen |-> {}]

\* A new database, or one with the results of an earlier process.
Init ==
    /\ clock = 0
    /\ schema \in {"absent", "old", "new"}
    /\ found \in {0, Found} /\ (schema = "absent" => found = 0)
    /\ rows = {[id |-> i, at |-> 0] : i \in 1 .. found} /\ seq = found
    /\ server = "down" /\ store = "nil" /\ forced = FALSE /\ boots = 0
    /\ post = [q \in Posters |-> NoPost]
    /\ reader = NoReader
    /\ acked = rows

ClockTick ==
    /\ clock < MaxClock
    /\ clock' = clock + 1
    /\ UNCHANGED <<table, process, post, reader, acked>>

-----------------------------------------------------------------------------
(* main(): open the store, prune, serve                                    *)

\* sql.Open, PingContext and schemaInit (CREATE TABLE IF NOT EXISTS).
Open ==
    /\ server = "down" /\ boots < MaxBoots
    /\ boots' = boots + 1 /\ forced' = FALSE
    /\ \/ /\ server' = "column"
          /\ schema' = IF schema = "absent" THEN "new" ELSE schema
       \/ server' = "serving" /\ UNCHANGED schema   \* an error: history disabled
    /\ UNCHANGED <<clock, rows, seq, found, store, post, reader, acked>>

\* ALTER TABLE, when PRAGMA table_info does not show the column.
ensureColumn ==
    /\ server = "column"
    /\ \/ server' = "prune" /\ schema' = "new" /\ store' = "open"
       \/ server' = "serving" /\ UNCHANGED <<schema, store>>
    /\ UNCHANGED <<clock, rows, seq, found, forced, boots, post, reader, acked>>

\* Mutant: the prune also takes the rows dated exactly at the cutoff.
PruneInclusive ==
    /\ server = "prune" /\ server' = "serving"
    /\ \/ rows' = IF Retention > 0 /\ clock > Retention
                    THEN {r \in rows : r.at > clock - Retention} ELSE rows
       \/ UNCHANGED rows
    /\ UNCHANGED <<clock, schema, seq, found, store, forced, boots, post, reader, acked>>

\* PruneOlderThan, once per boot; a cutoff <= 0 and an error leave the rows.
PruneOlderThan ==
    /\ server = "prune" /\ server' = "serving"
    /\ \/ rows' = IF Retention > 0 /\ clock > Retention
                    THEN {r \in rows : r.at >= clock - Retention} ELSE rows
       \/ UNCHANGED rows
    /\ UNCHANGED <<clock, schema, seq, found, store, forced, boots, post, reader, acked>>

\* SIGINT or SIGTERM: srv.Shutdown stops accepting and drains.
Signal ==
    /\ server = "serving" /\ server' = "draining"
    /\ UNCHANGED <<clock, table, store, forced, boots, post, reader, acked>>

InFlight == reader.pc # "idle" \/ \E q \in Posters : post[q].pc # "idle"

Drained ==
    /\ server = "draining" /\ ~InFlight
    /\ server' = "closing"
    /\ UNCHANGED <<clock, table, store, forced, boots, post, reader, acked>>

\* Mutant: Shutdown is called without a deadline.
NoTimeout == FALSE /\ UNCHANGED vars

\* The 30 seconds are over: Shutdown returns an error, main goes on.
ShutdownTimeout ==
    /\ server = "draining" /\ InFlight
    /\ server' = "closing" /\ forced' = TRUE
    /\ UNCHANGED <<clock, table, store, boots, post, reader, acked>>

Close ==
    /\ server = "closing" /\ server' = "closed"
    /\ store' = IF store = "open" THEN "closed" ELSE store
    /\ UNCHANGED <<clock, table, forced, boots, post, reader, acked>>

\* The process ends; requests still in flight are never answered.
Gone ==
    /\ server' = "down" /\ store' = "nil"
    /\ post' = [q \in Posters |-> NoPost]
    /\ reader' = [reader EXCEPT !.pc = "idle", !.page = {}, !.total = 0]
    /\ UNCHANGED <<clock, table, forced, boots, acked>>

Exit == server = "closed" /\ Gone
Crash == server \notin {"down", "closed"} /\ boots < MaxBoots /\ Gone

-----------------------------------------------------------------------------
(* POST /api/results                                                       *)

\* createResult: without a store 503; a bad body is answered 400.
createResult(q) ==
    /\ server = "serving" /\ store = "open" /\ post[q].pc = "idle"
    /\ post' = [post EXCEPT ![q].pc = "body"]
    /\ UNCHANGED <<clock, table, process, reader, acked>>

Reject(q) ==
    /\ post[q].pc = "body" /\ post' = [post EXCEPT ![q] = NoPost]
    /\ UNCHANGED <<clock, table, process, reader, acked>>

\* The body is read and sanitised, created_at is the server's clock.
Stamp(q) ==
    /\ post[q].pc = "body"
    /\ post' = [post EXCEPT ![q].pc = "save", ![q].at = clock]
    /\ UNCHANGED <<clock, table, process, reader, acked>>

\* Mutant: the id is the largest one in the table plus one.
SaveMaxPlusOne(q) ==
    /\ post[q].pc = "save" /\ store = "open" /\ seq < found + MaxSaves
    /\ \E id \in 1 .. MaxRows :
         /\ \A r \in rows : r.id < id
         /\ id = 1 \/ \E r \in rows : r.id = id - 1
         /\ rows' = rows \cup {[id |-> id, at |-> post[q].at]}
         /\ seq' = seq + 1
         /\ post' = [post EXCEPT ![q].pc = "reply", ![q].id = id]
    /\ UNCHANGED <<clock, schema, found, process, reader, acked>>

\* Save: AUTOINCREMENT never hands an id out twice.
Save(q) ==
    /\ post[q].pc = "save" /\ store = "open" /\ seq < found + MaxSaves
    /\ rows' = rows \cup {[id |-> seq + 1, at |-> post[q].at]}
    /\ seq' = seq + 1
    /\ post' = [post EXCEPT ![q].pc = "reply", ![q].id = seq + 1]
    /\ UNCHANGED <<clock, schema, found, process, reader, acked>>

\* Save fails: the database is closed, or it reports an error; 500.
SaveFails(q) ==
    /\ post[q].pc = "save"
    /\ post' = [post EXCEPT ![q] = NoPost]
    /\ UNCHANGED <<clock, table, process, reader, acked>>

Created(q) ==
    /\ post[q].pc = "reply"
    /\ acked' = acked \cup {[id |-> post[q].id, at |-> post[q].at]}
    /\ post' = [post EXCEPT ![q] = NoPost]
    /\ UNCHANGED <<clock, table, process, reader>>

-----------------------------------------------------------------------------
(* GET /api/results, by a client that reads page after page                *)

\* Mutant: ORDER BY without its DESC.
RankOldestFirst(r) ==
    Cardinality({s \in rows : s.at < r.at \/ (s.at = r.at /\ s.id < r.id)})

\* ORDER BY created_at DESC, id DESC: the rows that come before r.
Rank(r) ==
    Cardinality({s \in rows : s.at > r.at \/ (s.at = r.at /\ s.id > r.id)})

Page(offset) == {r \in rows : offset <= Rank(r) /\ Rank(r) < offset + Limit}

Least(a, b) == IF a < b THEN a ELSE b

\* listResults' clampInt: the offset that is used for the one that was asked for.
Clamped(offset) == Least(offset, MaxOffset)

\* List, the first of listResults' two statements.
List ==
    /\ server = "serving" /\ store = "open" /\ reader.pc = "idle"
    /\ LET page == Page(Clamped(reader.offset)) IN
         reader' = [reader EXCEPT !.pc = "count", !.page = page,
                      !.start = IF reader.offset = 0 THEN rows ELSE @,
                      !.seen = (IF reader.offset = 0 THEN {} ELSE @) \cup page]
    /\ UNCHANGED <<clock, table, process, post, acked>>

\* Mutant: the two statements in the opposite order, seen at the first page: the
\* total is the one from before its rows were read.
CountFirst ==
    /\ reader.pc = "count" /\ store = "open"
    /\ reader' = [reader EXCEPT !.pc = "answer", !.page = Page(Clamped(reader.offset)),
                    !.total = Cardinality(IF reader.offset = 0 THEN reader.start ELSE rows)]
    /\ UNCHANGED <<clock, table, process, post, acked>>

\* Count, the second.
Count ==
    /\ reader.pc = "count" /\ store = "open"
    /\ reader' = [reader EXCEPT !.pc = "answer", !.total = Cardinality(rows)]
    /\ UNCHANGED <<clock, table, process, post, acked>>

\* A statement fails, the store is closed, or the connection breaks: the
\* client asks for the same page again.
ListFails ==
    /\ reader.pc \in {"count", "answer"}
    /\ reader' = [reader EXCEPT !.pc = "idle", !.page = {}, !.total = 0]
    /\ UNCHANGED <<clock, table, process, post, acked>>

\* The page arrives.  The client goes on, or has read them all and starts over.
Answer ==
    /\ reader.pc = "answer"
    /\ reader' = IF reader.offset + Limit >= reader.total THEN NoReader
                 ELSE [reader EXCEPT !.pc = "idle", !.page = {}, !.total = 0,
                                     !.offset = @ + Limit]
    /\ UNCHANGED <<clock, table, process, post, acked>>

-----------------------------------------------------------------------------
Main == \/ Open \/ ensureColumn \/ PruneOlderThan \/ Signal \/ Drained
        \/ ShutdownTimeout \/ Close \/ Exit

Handler(q) ==
    \/ createResult(q) \/ Reject(q) \/ Stamp(q) \/ Save(q) \/ SaveFails(q) \/ Created(q)

Next ==
    \/ ClockTick \/ Main \/ Crash
    \/ \E q \in Posters : Handler(q)
    \/ List \/ Count \/ ListFails \/ Answer

Spec == Init /\ [][Next]_vars

(* main's goroutines run and its 30 s timer fires; clients may stall.      *)
FairSpec ==
    Spec /\ WF_vars(Drained \/ ShutdownTimeout) /\ WF_vars(Close) /\ WF_vars(Exit)

-----------------------------------------------------------------------------
Row == [id : 1 .. MaxRows, at : 0 .. MaxClock]

\* The types of the table, the process and its requests; created_at is a time
\* the server's own clock has shown.
TypeOK ==
    /\ clock \in 0 .. MaxClock
    /\ schema \in {"absent", "old", "new"}
    /\ rows \subseteq Row /\ found \in {0, Found} /\ seq \in 0 .. found + MaxSaves
    /\ server \in {"down", "column", "prune", "serving", "draining", "closing", "closed"}
    /\ store \in {"nil", "open", "closed"} /\ forced \in BOOLEAN
    /\ boots \in 0 .. MaxBoots
    /\ post \in [Posters -> [pc : {"idle", "body", "save", "reply"}, at : 0 .. MaxClock,
                             id : 0 .. MaxRows]]
    /\ reader \in [pc : {"idle", "count", "answer"}, offset : Nat, page : SUBSET Row,
                   total : 0 .. MaxRows, start : SUBSET Row, seen : SUBSET Row]
    /\ acked \subseteq Row

\* A result answered 201 stays in the table for the whole retention time, over
\* crashes, shutdowns and the prunes of later boots.
AcknowledgedIsKept ==
    \A r \in acked : clock <= r.at + Retention \/ Retention = 0 => r \in rows

\* An id names one result for ever: none is handed out again after a prune.
IdsAreForever ==
    \A r, s \in rows \cup acked : r.id = s.id => r = s

\* What a list answer says of itself is consistent although its rows and its
\* total come from two statements with inserts in between.
TotalCoversPage ==
    reader.pc = "answer" /\ reader.page # {} =>
        Clamped(reader.offset) + Cardinality(reader.page) <= reader.total

\* A client that reads all pages one after the other has seen every result
\* that was there when it began and is still there, whatever was inserted or
\* pruned meanwhile, in whatever order of created_at; but for the results behind
\* the last page the server serves, at maxListOffset (results_handler.go 91).
PagesMissNothing ==
    reader.pc = "answer" /\ reader.offset + Limit >= reader.total =>
        \A r \in reader.start \cap rows :
            r \in reader.seen \/ Rank(r) >= MaxOffset + Limit

\* A store that is closed after a drain in time has no handler left to fail.
\* An open store always has the migrated table.
CloseAfterDrain ==
    /\ server \in {"closing", "closed"} /\ ~forced => ~InFlight
    /\ store = "open" => schema = "new"

\* Requests are in flight only while the process serves or shuts down, so that
\* none of them meets the prune of a boot.
LifeInv == InFlight => server \notin {"down", "column", "prune"}

\* Every id there is has been handed out, and a result that is about to be
\* acknowledged is in the table.
IssuedInv ==
    /\ \A r \in rows \cup acked \cup reader.start : r.id <= seq
    /\ \A q \in Posters : post[q].pc = "reply" => [id |-> post[q].id, at |-> post[q].at] \in rows

\* How far a client has read: what it has not seen of the results it began with
\* lies beyond the pages it has asked for, and the page in its hands fits.
ReaderInv ==
    LET asked == IF reader.pc = "idle" THEN reader.offset ELSE reader.offset + Limit IN
    /\ \A r \in reader.start \cap rows :
         r \in reader.seen \/ Rank(r) >= Least(asked, MaxOffset + Limit)
    /\ reader.pc = "count" /\ reader.page # {} =>
         Clamped(reader.offset) + Cardinality(reader.page) <= Cardinality(rows)

\* The store's invariant, which every step keeps, over every order of boots,
\* prunes, saves and ends.
StoreInv ==
    TypeOK /\ IdsAreForever /\ CloseAfterDrain /\ LifeInv /\ IssuedInv /\ ReaderInv

\* After the signal the process ends, although a client never sends the rest
\* of its body.
ShutdownEnds == server = "draining" ~> server = "down"
=============================================================================
