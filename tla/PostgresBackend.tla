-------------------------- MODULE PostgresBackend --------------------------
(***************************************************************************)
(* The PostgreSQL backend (backend/postgres_backend.cpp) over its          *)
(* connection pool (postgres/connection_pool.cpp), and the job store       *)
(* (ingestion/postgres_job_store.cpp) over a pool of one.                  *)
(*                                                                         *)
(* The server is external: a statement works on the transaction of its     *)
(* connection, or is committed by itself if there is none; a serializable  *)
(* transaction commits only if no other one committed since it began       *)
(* (every mutation updates the corpus row); a connection that is lost      *)
(* loses its transaction.                                                  *)
(***************************************************************************)
EXTENDS Integers, FiniteSets, Sequences, SequencesExt

CONSTANTS
    Doc, Content,
    NoDoc,            \* what a deletion stores
    IdentityOf,       \* embedding identity, dimension and chunking of a content
    NoCorpus,         \* no row in corpora
    Clients,          \* threads that call the backend
    Connections,      \* the pool
    NoConn, NoOp,
    Jobs, Statuses, NoStatus,
    MaxRevision, MaxCalls, MaxFaults

ASSUME PostgresAssumption ==
    /\ NoDoc \notin Content /\ NoConn \notin Connections
    /\ IsFiniteSet(Connections)
    /\ \A v \in Content : IdentityOf[v] # NoCorpus
    /\ {MaxRevision, MaxCalls, MaxFaults} \subseteq Nat

VARIABLES
    db,           \* the committed tables
    tx,           \* of a connection: its open transaction
    broken,       \* connections that were lost
    available,    \* available_ of the pool, taken from its back
    pc, op, lease, seen, \* of a client: step, call, leased connection, candidates
    acked,        \* mutations reported as successful
    jobs, jobsAcked, jobsBroken,
    calls, faults

clientVars == <<pc, op, lease, seen>>
jobVars == <<jobs, jobsAcked, jobsBroken>>
backendVars == <<db, tx, broken, available, clientVars, acked, jobVars, calls, faults>>
-----------------------------------------------------------------------------
NoRow == [rev |-> 0, val |-> NoDoc]
NoRows == [d \in Doc |-> NoRow]

(* The tables: corpora, document_revisions, documents, and chunks with their
   postings, which a deleted document takes along. *)
EmptyTables == [corpus |-> NoCorpus, generation |-> 0, revisions |-> NoRows,
                documents |-> NoRows, chunks |-> NoRows]

NoTx == [open |-> FALSE, aborted |-> FALSE, began |-> 0, work |-> EmptyTables]

(* ConnectionPool::open(): every connection is prepared and available. *)
NewPool == SetToSeqs(Connections)

BackendInit ==
    /\ db = EmptyTables
    /\ tx = [c \in Connections |-> NoTx]
    /\ broken = {}
    /\ available \in NewPool
    /\ pc = [t \in Clients |-> "idle"]
    /\ op = [t \in Clients |-> NoOp]
    /\ lease = [t \in Clients |-> NoConn]
    /\ seen = [t \in Clients |-> [lexical |-> {}, dense |-> {}]]
    /\ acked = {}
    /\ jobs = [j \in Jobs |-> NoStatus]
    /\ jobsAcked = [j \in Jobs |-> {NoStatus}]
    /\ jobsBroken = FALSE
    /\ calls = 0 /\ faults = 0
-----------------------------------------------------------------------------
(* A call waits for a lease. *)
Call(t, o) ==
    /\ pc[t] = "idle" /\ calls < MaxCalls
    /\ calls' = calls + 1
    /\ pc' = [pc EXCEPT ![t] = "acquire"]
    /\ op' = [op EXCEPT ![t] = o]
    /\ UNCHANGED <<db, tx, broken, available, lease, seen, acked, jobVars, faults>>

CallActivate(t) ==
    \E d \in Doc, r \in 1..MaxRevision, v \in Content :
        Call(t, [kind |-> "activate", doc |-> d, rev |-> r, val |-> v])

CallErase(t) ==
    \E d \in Doc, r \in 1..MaxRevision :
        Call(t, [kind |-> "erase", doc |-> d, rev |-> r, val |-> NoDoc])

CallHybrid(t) == Call(t, [kind |-> "hybrid"])

(* lexical_candidates(), dense_candidates(), fetch() and stats(). *)
CallRead(t) == Call(t, [kind |-> "read"])

(* acquire(): the last connection of available_. *)
Acquire(t) ==
    /\ pc[t] = "acquire" /\ available # <<>>
    /\ lease' = [lease EXCEPT ![t] = Last(available)]
    /\ available' = Front(available)
    /\ pc' = [pc EXCEPT ![t] = "begin"]
    /\ UNCHANGED <<db, tx, broken, op, seen, acked, jobVars, calls, faults>>

(* It waited for acquire_timeout while every connection was out. *)
AcquireTimesOut(t) ==
    /\ pc[t] = "acquire" /\ available = <<>>
    /\ pc' = [pc EXCEPT ![t] = "idle"]
    /\ op' = [op EXCEPT ![t] = NoOp]
    /\ UNCHANGED <<db, tx, broken, available, lease, seen, acked, jobVars, calls, faults>>

(* The call returns: ~Lease gives the connection back. *)
Returns(t) ==
    /\ available' = Append(available, lease[t])
    /\ lease' = [lease EXCEPT ![t] = NoConn]
    /\ pc' = [pc EXCEPT ![t] = "idle"]
    /\ op' = [op EXCEPT ![t] = NoOp]
    /\ seen' = [seen EXCEPT ![t] = [lexical |-> {}, dense |-> {}]]

(* What a statement on connection c sees and changes. *)
Tables(c) == IF tx[c].open THEN tx[c].work ELSE db

CorpusState(c) == Tables(c).corpus

Executes(c, tables) ==
    IF tx[c].open THEN tx' = [tx EXCEPT ![c].work = tables] /\ UNCHANGED db
    ELSE db' = tables /\ UNCHANGED tx

Usable(c) == c \notin broken /\ ~tx[c].aborted

Goes(t, to) == pc' = [pc EXCEPT ![t] = to]

Stays(t) == UNCHANGED <<broken, available, op, lease, seen, acked, jobVars, calls, faults>>

(* Mutant: no transaction is opened. *)
BeginNothing(t) ==
    /\ pc[t] = "begin" /\ op[t].kind # "read"
    /\ Goes(t, "check")
    /\ UNCHANGED <<db, tx>> /\ Stays(t)

(* BEGIN: serializable for a mutation, a read-only snapshot for a search.
   A lost connection fails it and the call. *)
Begin(t) ==
    LET c == lease[t]
    IN  /\ pc[t] = "begin" /\ op[t].kind # "read"
        /\ IF c \in broken
           THEN Returns(t) /\ UNCHANGED tx
           ELSE /\ tx' = [tx EXCEPT ![c] = [open |-> TRUE, aborted |-> FALSE,
                                            began |-> db.generation, work |-> db]]
                /\ Goes(t, "check")
                /\ UNCHANGED <<available, lease, op, seen>>
        /\ UNCHANGED <<db, broken, acked, jobVars, calls, faults>>

(* A single query needs no transaction; its failure is the call's. *)
Read(t) ==
    /\ pc[t] = "begin" /\ op[t].kind = "read"
    /\ Returns(t)
    /\ UNCHANGED <<db, tx, broken, acked, jobVars, calls, faults>>

(* Mutant: an error returns without a rollback. *)
RollbackForgotten(t) ==
    /\ pc[t] = "rollback"
    /\ Returns(t)
    /\ UNCHANGED <<db, tx, broken, acked, jobVars, calls, faults>>

(* rollback(): the statement's own failure is ignored. *)
Rollback(t) ==
    /\ pc[t] = "rollback"
    /\ tx' = [tx EXCEPT ![lease[t]] = NoTx]
    /\ Returns(t)
    /\ UNCHANGED <<db, broken, acked, jobVars, calls, faults>>

(* A statement fails: the server aborts the transaction, or the connection
   is lost, and the transaction with it. *)
StatementFails(t) ==
    LET c == lease[t]
    IN  /\ pc[t] \in {"check", "document", "chunks", "revision", "lexical", "dense", "commit"}
        /\ faults < MaxFaults /\ faults' = faults + 1
        /\ \/ tx' = [tx EXCEPT ![c].aborted = TRUE] /\ UNCHANGED broken
           \/ tx' = [tx EXCEPT ![c] = NoTx] /\ broken' = broken \cup {c}
        /\ Goes(t, "rollback")
        /\ UNCHANGED <<db, available, op, lease, seen, acked, jobVars, calls>>

Acked(t) == acked' = acked \cup {[doc |-> op[t].doc, rev |-> op[t].rev, val |-> op[t].val]}

(* A call that found nothing to do ends its transaction. *)
Concludes(t, ok) ==
    /\ tx' = [tx EXCEPT ![lease[t]] = NoTx]
    /\ IF ok THEN Acked(t) ELSE UNCHANGED acked
    /\ Returns(t)
    /\ UNCHANGED <<db, broken, jobVars, calls, faults>>

(* Mutant: the revision is not compared. *)
CheckNothing(t) ==
    /\ pc[t] = "check" /\ op[t].kind = "activate" /\ Usable(lease[t])
    /\ Executes(lease[t], [Tables(lease[t]) EXCEPT !.corpus = IdentityOf[op[t].val]])
    /\ Goes(t, "document") /\ Stays(t)

(* activate(): the corpus row is created or must be compatible, and the row
   of document_revisions decides: an older revision is stale, the same one
   is accepted again if it stored the same. *)
CheckActivate(t) ==
    LET c      == lease[t]
        o      == op[t]
        tables == Tables(c)
        row    == tables.revisions[o.doc]
    IN  /\ pc[t] = "check" /\ o.kind = "activate" /\ Usable(c)
        /\ IF CorpusState(c) \notin {NoCorpus, IdentityOf[o.val]}
           THEN Goes(t, "rollback") /\ UNCHANGED <<db, tx>> /\ Stays(t)
           ELSE IF o.rev <= row.rev
           THEN Concludes(t, row = [rev |-> o.rev, val |-> o.val])
           ELSE /\ Executes(c, [tables EXCEPT !.corpus = IdentityOf[o.val]])
                /\ Goes(t, "document") /\ Stays(t)

(* erase(): without a corpus there is nothing to erase, and nothing is
   recorded. *)
CheckErase(t) ==
    LET c   == lease[t]
        o   == op[t]
        row == Tables(c).revisions[o.doc]
    IN  /\ pc[t] = "check" /\ o.kind = "erase" /\ Usable(c)
        /\ IF CorpusState(c) = NoCorpus THEN Concludes(t, FALSE)
           ELSE IF o.rev <= row.rev
           THEN Concludes(t, row = [rev |-> o.rev, val |-> NoDoc])
           ELSE Goes(t, "document") /\ UNCHANGED <<db, tx>> /\ Stays(t)

(* The old row goes, with its chunks and postings; a new one is inserted. *)
ReplaceDocument(t) ==
    LET c   == lease[t]
        o   == op[t]
        new == IF o.kind = "erase" THEN NoRow ELSE [rev |-> o.rev, val |-> o.val]
    IN  /\ pc[t] = "document" /\ Usable(c)
        /\ Executes(c, [Tables(c) EXCEPT !.documents[o.doc] = new, !.chunks[o.doc] = NoRow])
        /\ Goes(t, IF o.kind = "erase" THEN "revision" ELSE "chunks")
        /\ Stays(t)

InsertChunks(t) ==
    LET c == lease[t]
        o == op[t]
    IN  /\ pc[t] = "chunks" /\ Usable(c)
        /\ Executes(c, [Tables(c) EXCEPT !.chunks[o.doc] = [rev |-> o.rev, val |-> o.val]])
        /\ Goes(t, "revision")
        /\ Stays(t)

(* document_revisions, the generation of the corpus, and the index of a new
   corpus. *)
PutRevision(t) ==
    LET c == lease[t]
        o == op[t]
    IN  /\ pc[t] = "revision" /\ Usable(c)
        /\ Executes(c, [Tables(c) EXCEPT !.revisions[o.doc] = [rev |-> o.rev, val |-> o.val],
                                         !.generation = @ + 1])
        /\ Goes(t, "commit")
        /\ Stays(t)

(* COMMIT: refused if another mutation committed since BEGIN. *)
Commit(t) ==
    LET c == lease[t]
    IN  /\ pc[t] = "commit" /\ Usable(c)
        /\ IF tx[c].open /\ tx[c].began # db.generation
           THEN /\ tx' = [tx EXCEPT ![c].aborted = TRUE]
                /\ Goes(t, "rollback")
                /\ UNCHANGED db /\ Stays(t)
           ELSE /\ db' = Tables(c)
                /\ tx' = [tx EXCEPT ![c] = NoTx]
                /\ Acked(t)
                /\ Returns(t)
                /\ UNCHANGED <<broken, jobVars, calls, faults>>

(* The server committed, and the connection was lost before it said so. *)
CommitUnanswered(t) ==
    LET c == lease[t]
    IN  /\ pc[t] = "commit" /\ Usable(c) /\ faults < MaxFaults
        /\ tx[c].open /\ tx[c].began = db.generation
        /\ faults' = faults + 1
        /\ db' = tx[c].work
        /\ tx' = [tx EXCEPT ![c] = NoTx]
        /\ broken' = broken \cup {c}
        /\ Goes(t, "rollback")
        /\ UNCHANGED <<available, op, lease, seen, acked, jobVars, calls>>

(* hybrid_candidates(): the postings joined with chunks and documents, then
   the vectors of the chunks, in one read-only transaction. *)
Matching(tables) == {<<d, tables.chunks[d].rev>> : d \in {d \in Doc :
                        tables.chunks[d] # NoRow /\ tables.documents[d] # NoRow}}

Lexical(t) ==
    /\ pc[t] = "check" /\ op[t].kind = "hybrid" /\ Usable(lease[t])
    /\ seen' = [seen EXCEPT ![t].lexical = Matching(Tables(lease[t]))]
    /\ Goes(t, "dense")
    /\ UNCHANGED <<db, tx, broken, available, op, lease, acked, jobVars, calls, faults>>

Dense(t) ==
    /\ pc[t] = "dense" /\ Usable(lease[t])
    /\ seen' = [seen EXCEPT ![t].dense = Matching(Tables(lease[t]))]
    /\ Goes(t, "done")
    /\ UNCHANGED <<db, tx, broken, available, op, lease, acked, jobVars, calls, faults>>

HybridReturns(t) ==
    /\ pc[t] = "done"
    /\ tx' = [tx EXCEPT ![lease[t]] = NoTx]
    /\ Returns(t)
    /\ UNCHANGED <<db, broken, acked, jobVars, calls, faults>>
-----------------------------------------------------------------------------
(* Mutant: ON CONFLICT DO NOTHING. *)
PutJobOnce(j, s) == [jobs EXCEPT ![j] = IF @ = NoStatus THEN s ELSE @]

(* The prepared statement of the job store: insert, or update on conflict. *)
PutJob(j, s) == [jobs EXCEPT ![j] = s]

LoadLatest(j) == jobs[j]

(* PostgresJobStore::persist(): one statement on the only connection of its
   pool; the caller serializes its calls. *)
Persist(j, s) ==
    /\ calls < MaxCalls /\ calls' = calls + 1
    /\ \/ /\ ~jobsBroken
          /\ jobs' = PutJob(j, s)
          /\ jobsAcked' = [jobsAcked EXCEPT ![j] = {s}]
          /\ UNCHANGED <<jobsBroken, faults>>
       \/ (* The statement fails, or its answer is lost. *)
          /\ ~jobsBroken /\ faults < MaxFaults /\ faults' = faults + 1
          /\ jobsBroken' \in BOOLEAN
          /\ jobs' \in {jobs} \cup (IF jobsBroken' THEN {PutJob(j, s)} ELSE {})
          /\ jobsAcked' = [jobsAcked EXCEPT ![j] = @ \cup {s}]
    /\ UNCHANGED <<db, tx, broken, available, clientVars, acked>>

(* The process is started again with new pools. *)
Restart ==
    /\ broken # {} \/ jobsBroken
    /\ broken' = {} /\ jobsBroken' = FALSE
    /\ tx' = [c \in Connections |-> NoTx]
    /\ available' \in NewPool
    /\ pc' = [t \in Clients |-> "idle"]
    /\ op' = [t \in Clients |-> NoOp]
    /\ lease' = [t \in Clients |-> NoConn]
    /\ seen' = [t \in Clients |-> [lexical |-> {}, dense |-> {}]]
    /\ UNCHANGED <<db, acked, jobs, jobsAcked, calls, faults>>

BackendNext ==
    \/ \E t \in Clients :
        \/ CallActivate(t) \/ CallErase(t) \/ CallHybrid(t) \/ CallRead(t)
        \/ Acquire(t) \/ AcquireTimesOut(t) \/ Begin(t) \/ Read(t) \/ Rollback(t)
        \/ StatementFails(t) \/ CheckActivate(t) \/ CheckErase(t)
        \/ ReplaceDocument(t) \/ InsertChunks(t) \/ PutRevision(t)
        \/ Commit(t) \/ CommitUnanswered(t)
        \/ Lexical(t) \/ Dense(t) \/ HybridReturns(t)
    \/ \E j \in Jobs, s \in Statuses : Persist(j, s)
    \/ Restart
-----------------------------------------------------------------------------
(* A mutation that reported success stays: its document has that revision
   with that content, or a newer one, whatever was lost, retried or raced
   with it.  A repeated call succeeds only if it stored the same. *)
AckedStays ==
    \A a \in acked :
        \/ db.revisions[a.doc].rev > a.rev
        \/ db.revisions[a.doc] = [rev |-> a.rev, val |-> a.val]

(* Committed tables agree: a live revision has its document and the chunks
   of that revision, a deleted one has neither, and nothing is stored
   without a corpus. *)
TablesAgree ==
    \A d \in Doc :
        /\ db.documents[d] = IF db.revisions[d].val = NoDoc THEN NoRow ELSE db.revisions[d]
        /\ db.chunks[d] = db.documents[d]
        /\ db.documents[d] # NoRow => IdentityOf[db.documents[d].val] = db.corpus

(* The pool: every connection is either available, once, or leased to one
   client, and no connection that can still be used comes back with a
   transaction open, whichever way the call before ended. *)
PoolIsClean ==
    /\ Len(available) + Cardinality({t \in Clients : lease[t] # NoConn}) = Cardinality(Connections)
    /\ Connections \subseteq ToSet(available) \cup {lease[t] : t \in Clients}
    /\ \A c \in ToSet(available) : ~tx[c].open

(* A hybrid search fuses two lists of the same state of the corpus, however
   mutations commit between its two queries. *)
HybridOneState ==
    \A t \in Clients : pc[t] = "done" => seen[t].lexical = seen[t].dense

(* load_latest() returns of every job the status last persisted with
   success, or one whose persist() failed since. *)
JobsReadable == \A j \in Jobs : LoadLatest(j) \in jobsAcked[j]

(* What was reported is what the database holds, in all of its tables:
   revisions, documents with their chunks, and jobs. *)
DatabaseInv == AckedStays /\ TablesAgree /\ JobsReadable

(* The coordinator's view of a backend, with document_revisions as its
   versions. *)
Abstract == INSTANCE RevisionedBackend WITH
    version <- db.revisions, captured <- {}, saved <- NoRows

(* The tables only ever go from one published state to the next: one
   document at a time, always to a newer revision. *)
PostgresImplementsBackend == Abstract!Spec
=============================================================================
