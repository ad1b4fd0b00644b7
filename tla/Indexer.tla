------------------------------ MODULE Indexer ------------------------------
(***************************************************************************)
(* Backend/src/indexer/indexer.service.ts and GistRepository.upsertFromEvent:*)
(* every six seconds the events of the registry since the cursor are made  *)
(* rows, and the cursor is moved and written to a file.  The interval does *)
(* not wait for the poll before, and the process may stop at any point.    *)
(*                                                                         *)
(* getEventsSince is still a stub, so what the chain answers is external:  *)
(* the events of the ledgers after the number it is given, with or without *)
(* those of that very ledger.  The number it is given is the cursor, which *)
(* the polls move to the createdAt of events: a Unix time, no ledger.      *)
(***************************************************************************)
EXTENDS Integers, Sequences, FiniteSets

CONSTANTS
  Poll,      \* polls that may overlap
  MaxEvents, \* events the chain emits
  MaxLedger, \* the run ends with this ledger
  Genesis,   \* Unix time of ledger 0, far above any ledger's number
  None

VARIABLES
  unique, \* there is a unique index on stellar_gist_id: the entity declares
          \* one, no migration creates it
  chain,  \* the ledgers of the events, in their order
  cursor, \* lastProcessedLedger
  file,   \* .indexer-cursor: None when there is none or it has no number
  poll,   \* what each poll is doing
  table   \* table gists: the rows of events, and who inserted them

indexerVars == <<unique, chain, cursor, file, poll, table>>
Idle == [pc |-> "idle"]
RowsOf(e) == {r \in table : r.event = e}
Latest(s) == IF s = << >> THEN 1 ELSE s[Len(s)]
Later(a, b) == IF a < b THEN b ELSE a

\* event.createdAt: ledgers close at a steady pace, here one in a unit of time.
CreatedAt(e) == Genesis + chain[e]

IndexerInit ==
  /\ unique \in BOOLEAN /\ chain = << >> /\ cursor = 0 /\ file = None
  /\ poll = [p \in Poll |-> Idle] /\ table = {}
-----------------------------------------------------------------------------
\* The contract emits an event; several may share a ledger.
Emit(at) ==
  /\ Len(chain) < MaxEvents /\ at >= Latest(chain)
  /\ chain' = Append(chain, at)
  /\ UNCHANGED <<unique, cursor, file, poll, table>>

\* The request that emitted the event inserts its own row (GistRepository.create);
\* when the indexer was faster and the index is unique, that insert fails.
InsertOwn(e) ==
  /\ \A r \in RowsOf(e) : r.by # "post"
  /\ unique => RowsOf(e) = {}
  /\ table' = table \cup {[event |-> e, by |-> "post"]}
  /\ UNCHANGED <<unique, chain, cursor, file, poll>>

Step(p, q) == poll' = [poll EXCEPT ![p] = q]

\* setInterval fires, whatever the polls before are doing.
Ask(p) ==
  /\ poll[p].pc = "idle" /\ Step(p, [pc |-> "asked", since |-> cursor])
  /\ UNCHANGED <<unique, chain, cursor, file, table>>

\* maxLedger starts from the cursor as it is when the events are there.
Answer(p, edge) ==
  LET Wanted(e) == chain[e] > poll[p].since \/ (edge /\ chain[e] = poll[p].since)
      events == {e \in DOMAIN chain : Wanted(e)} IN
  /\ poll[p].pc = "asked"
  /\ Step(p, IF events = {} THEN Idle
             ELSE [pc |-> "events", todo |-> events, max |-> cursor])
  /\ UNCHANGED <<unique, chain, cursor, file, table>>
AskFails(p) ==
  /\ poll[p].pc = "asked" /\ Step(p, Idle)
  /\ UNCHANGED <<unique, chain, cursor, file, table>>

\* ON CONFLICT (stellar_gist_id) DO UPDATE: a row there stays the row it was.
FaultyUpserted(e) == table \cup {[event |-> e, by |-> "index"]}
Upserted(e) == IF RowsOf(e) # {} THEN table ELSE table \cup {[event |-> e, by |-> "index"]}

\* The events are taken in the order of the ledger; only one whose upsert
\* succeeded raises maxLedger.
IsNext(q, e) == \A t \in q.todo : e <= t
Reached(q, e) == Later(q.max, CreatedAt(e))
Upsert(p) ==
  LET q == poll[p] IN
  /\ q.pc = "events" /\ unique
  /\ \E e \in q.todo :
       /\ IsNext(q, e)
       /\ table' = Upserted(e)
       /\ Step(p, [q EXCEPT !.todo = @ \ {e}, !.max = Reached(q, e)])
  /\ UNCHANGED <<unique, chain, cursor, file>>

\* The cell does not decode, the database fails, or it has no unique index for
\* ON CONFLICT to name: logged, and the loop goes on.
UpsertFails(p) ==
  LET q == poll[p] IN
  /\ q.pc = "events"
  /\ \E e \in q.todo :
       /\ IsNext(q, e)
       /\ Step(p, [q EXCEPT !.todo = @ \ {e}])
  /\ UNCHANGED <<unique, chain, cursor, file, table>>

\* The cursor only rises; writing the file may fail, which is logged.
FinishPoll(p) ==
  LET q == poll[p] IN
  /\ q.pc = "events" /\ q.todo = {} /\ Step(p, Idle)
  /\ IF q.max > cursor
     THEN cursor' = q.max /\ file' \in {q.max, file}
     ELSE UNCHANGED <<cursor, file>>
  /\ UNCHANGED <<unique, chain, table>>

\* loadCursor: a number above zero, or the start of the chain.
LoadCursor(f) == IF f = None THEN 0 ELSE f

\* The process stops and starts. If it was writing the file, a part of the
\* digits is there: a smaller number or none.
Torn == UNION {{None} \cup 1..(poll[p].max - 1) :
          p \in {x \in Poll : poll[x].pc = "events" /\ poll[x].todo = {}}}
Restart == \E f \in {file} \cup Torn :
  /\ file' = f /\ cursor' = LoadCursor(f)
  /\ poll' = [p \in Poll |-> Idle]
  /\ UNCHANGED <<unique, chain, table>>

IndexerNext ==
  \/ \E at \in 1..MaxLedger : Emit(at)
  \/ \E e \in DOMAIN chain : InsertOwn(e)
  \/ \E p \in Poll : Ask(p) \/ AskFails(p) \/ Upsert(p) \/ UpsertFails(p) \/ FinishPoll(p)
  \/ \E p \in Poll, edge \in BOOLEAN : Answer(p, edge)
  \/ Restart

IndexerSpec == IndexerInit /\ [][IndexerNext]_indexerVars
-----------------------------------------------------------------------------
IndexerTypeOK ==
  /\ cursor \in 0..(Genesis + MaxLedger) /\ file \in 1..(Genesis + MaxLedger) \cup {None}
  /\ \A i \in DOMAIN chain : chain[i] \in 1..MaxLedger
  /\ \A p \in Poll : poll[p].pc \in {"idle", "asked", "events"}
  /\ \A r \in table : r.event \in DOMAIN chain /\ r.by \in {"post", "index"}

\* However polls overlap and processes restart, no gist has two rows: a replayed
\* event finds its row. (Without the unique index nothing is indexed at all.)
OneRowEach == \A e \in DOMAIN chain : Cardinality(RowsOf(e)) <= 1

\* However upserts fail, polls overlap and the process stops while it writes its
\* file, the cursor, in memory or in the file, is no younger than some row.
Backed(at) == at = 0 \/ \E r \in table : at <= CreatedAt(r.event)
CursorIsBacked == Backed(cursor) /\ (file # None => Backed(file))

\* docs/ARCHITECTURE.md:217: the indexer reads the "last processed ledger cursor"
\* and asks for the events since, so what is in ledgers below it has its row.
LastProcessedIsProcessed ==
  \A e \in DOMAIN chain : chain[e] < cursor => RowsOf(e) # {}
=============================================================================
