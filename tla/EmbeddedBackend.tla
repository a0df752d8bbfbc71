-------------------------- MODULE EmbeddedBackend --------------------------
(***************************************************************************)
(* EmbeddedBackend and TieredDenseIndex: immutable generations published   *)
(* by an atomic store, made of an active catalog, an immutable dense base, *)
(* an exact delta and tombstones; compaction that builds a new base        *)
(* outside the writer lock; the maintenance thread; checkpoints; and       *)
(* searches, which load the active generation once per backend call.       *)
(*                                                                         *)
(* A prepared document is the embedding of each of its chunks, by chunk    *)
(* key.  A chunk key hashes the document key, the lines and the text; the  *)
(* embedding is that of the text under its headings, so one key may come   *)
(* with different embeddings.  An action that returns an error or finds    *)
(* nothing to do changes no state and is left out, except where a thread   *)
(* has to move on.                                                         *)
(***************************************************************************)
EXTENDS Naturals, FiniteSets

CONSTANTS
    Doc,               \* document keys
    Key,               \* chunk keys
    Owner,             \* Owner[k]: the document whose text k was hashed with
    Vec,               \* embeddings
    Meta,              \* document metadata, as far as filters tell it apart
    Identity,          \* embedding identities
    Dim,               \* Dim[i]: the dimension of the embeddings of i
    NoDoc,             \* no active document
    NoGeneration,      \* a compaction or a checkpoint that is not under way
    Worker,            \* the maintenance thread
    Caller,            \* threads calling compact() and checkpoint()
    Reader,            \* threads searching
    DeltaLimit,        \* policy: delta_chunk_limit
    DeltaPercent,      \* policy: delta_base_fraction, in percent
    TombstonePercent,  \* policy: tombstone_base_fraction, in percent
    ExactThreshold,    \* policy: dense.exact_threshold
    Budget,            \* policy: compaction_memory_budget, in floats
    MaxRevision,       \* bound: revisions of a document
    MaxCalls,          \* bound: compact() and checkpoint() calls of callers
    MaxSearches,       \* bound: searches
    MaxRestarts        \* bound: restarts from the checkpoint

ASSUME BackendConstants ==
    /\ Owner \in [Key -> Doc]
    /\ Dim \in [Identity -> Nat \ {0}]
    /\ Worker \notin Caller
    /\ DeltaLimit \in Nat \ {0} /\ ExactThreshold \in Nat \ {0}
    /\ DeltaPercent \in Nat \ {0} /\ TombstonePercent \in Nat \ {0}
    /\ Budget \in Nat /\ MaxRevision \in Nat /\ MaxCalls \in Nat
    /\ MaxSearches \in Nat /\ MaxRestarts \in Nat

(* Functions from some of the chunk keys to embeddings.                    *)
Rows == UNION {[keys -> Vec] : keys \in SUBSET Key}
NoRows == [k \in {} |-> 0]

(* PreparedDocument; two of them with the same fields have the same        *)
(* content hash.                                                           *)
Prepared == [rows : Rows, meta : Meta, ident : Identity]
PreparedFor(d) == {p \in Prepared : \A k \in DOMAIN p.rows : Owner[k] = d}

(* ActiveDocument                                                          *)
Active == [rev : 1..MaxRevision, doc : Prepared]

(* Generation: docs is the catalog, from which the chunk table and BM25    *)
(* are built; inDelta is delta_documents; base, dim (the base's dimension, *)
(* 0 without rows), dead and delta are the TieredDenseIndex.               *)
Generation ==
    [docs : [Doc -> Active \cup {NoDoc}], inDelta : SUBSET Doc,
     base : Rows, dim : Nat, dead : SUBSET Key, delta : Rows, number : Nat]

ASSUME BackendValues ==
    NoGeneration \notin Generation /\ NoDoc \notin Active

EmptyGeneration ==
    [docs |-> [d \in Doc |-> NoDoc], inDelta |-> {},
     base |-> NoRows, dim |-> 0, dead |-> {}, delta |-> NoRows, number |-> 0]

Live(docs) == {d \in Doc : docs[d] # NoDoc}
Chunks(docs) == {k \in Key : /\ docs[Owner[k]] # NoDoc
                            /\ k \in DOMAIN docs[Owner[k]].doc.rows}
Embedding(docs, k) == docs[Owner[k]].doc.rows[k]
AllRows(docs) == [k \in Chunks(docs) |-> Embedding(docs, k)]

(* TieredDenseIndex::contains_base()                                       *)
contains_base(g, k) == k \in DOMAIN g.base /\ k \notin g.dead

(* One embedding identity, and with it one dimension, per generation.      *)
Compatible(docs) ==
    \A d, e \in Live(docs) : docs[d].doc.ident = docs[e].doc.ident

(* The dimension of a generation, 0 while there is no row.                 *)
Dimension(docs) ==
    IF Chunks(docs) = {} THEN 0
    ELSE Dim[docs[Owner[CHOOSE k \in Chunks(docs) : TRUE]].doc.ident]

(* Mutant of DeltaRows: rows the base represents go to the delta too.      *)
DeltaRowsWithBase(g, docs, inDelta) ==
    [k \in {c \in Chunks(docs) : Owner[c] \in inDelta} |-> Embedding(docs, k)]

(* The memory compact() expects to need.                                   *)
CompactionSize(g) == Cardinality(Chunks(g.docs)) * Dimension(g.docs)

(* delta_vectors of build_generation(): g is the generation whose dense    *)
(* index is built upon.                                                    *)
DeltaRows(g, docs, inDelta) ==
    [k \in {c \in Chunks(docs) : Owner[c] \in inDelta /\ ~contains_base(g, c)}
        |-> Embedding(docs, k)]

(* with_delta() accepts: the dimensions agree, tombstones belong to the    *)
(* base, and no delta row is also a visible base row.                      *)
with_delta_accepts(g, docs, delta, dead) ==
    /\ g.dim = 0 \/ Dimension(docs) \in {0, g.dim}
    /\ dead \subseteq DOMAIN g.base
    /\ \A k \in DOMAIN delta : k \in DOMAIN g.base => k \in dead

(* build_generation() over the dense index of g.                           *)
build_generation(g, docs, inDelta, dead) ==
    [docs |-> docs, inDelta |-> inDelta, base |-> g.base, dim |-> g.dim,
     dead |-> dead, delta |-> DeltaRows(g, docs, inDelta),
     number |-> g.number + 1]

(* The generation compact() builds: every row in the base.                 *)
CompactedGeneration(g) ==
    [docs |-> g.docs, inDelta |-> {}, base |-> AllRows(g.docs),
     dim |-> Dimension(g.docs), dead |-> {}, delta |-> NoRows,
     number |-> g.number + 1]

-----------------------------------------------------------------------------
VARIABLES
    latest,       \* latest_revisions_, 0 when the document has none
    active,       \* active_
    unscheduled,  \* a writer has published and still holds writer_mutex_
    pending,      \* maintenance_pending_
    pc, snap,     \* per thread: where it is, the generation it works from
    revisions,    \* per thread: revisions captured for a checkpoint
    file,         \* the checkpoint on disk: catalog, revisions, generation
    search,       \* per reader: the search under way
    calls, searches, restarts

vars == <<latest, active, unscheduled, pending, pc, snap, revisions, file,
          search, calls, searches, restarts>>

Thread == Caller \cup {Worker}
Checkpoint == [docs : [Doc -> Active \cup {NoDoc}],
               revs : [Doc -> 0..MaxRevision], number : Nat]

(* A search: calls it still makes, keys it holds, the filter, its result,  *)
(* and for the properties the revisions published before it began.         *)
SearchCall == {"lexical", "dense", "fetch"}
Search == [todo : SUBSET SearchCall, keys : SUBSET Key, filter : SUBSET Meta,
           result : [Key -> Active \cup {NoDoc}], failed : BOOLEAN,
           since : [Doc -> 0..MaxRevision]]
NoResult == [k \in Key |-> NoDoc]
NoSearch == [todo |-> {}, keys |-> {}, filter |-> Meta, result |-> NoResult,
             failed |-> FALSE, since |-> [d \in Doc |-> 0]]

Pc == {"idle", "stats", "load", "build", "save"}

(* Every variable has its type, and a thread holds a snapshot exactly      *)
(* while it builds a base (compact()) or writes a file (checkpoint()).     *)
TypeOK ==
    /\ latest \in [Doc -> 0..MaxRevision]
    /\ active \in Generation
    /\ unscheduled \in BOOLEAN /\ pending \in BOOLEAN
    /\ pc \in [Thread -> Pc]
    /\ snap \in [Thread -> Generation \cup {NoGeneration}]
    /\ \A t \in Thread : snap[t] = NoGeneration <=> pc[t] \notin {"build", "save"}
    /\ revisions \in [Thread -> [Doc -> 0..MaxRevision]]
    /\ file \in Checkpoint
    /\ search \in [Reader -> Search]
    /\ calls \in 0..MaxCalls
    /\ searches \in 0..MaxSearches
    /\ restarts \in 0..MaxRestarts

NoRevisions == [d \in Doc |-> 0]

Init ==
    /\ latest = NoRevisions
    /\ active = EmptyGeneration
    /\ unscheduled = FALSE /\ pending = FALSE
    /\ pc = [t \in Thread |-> "idle"]
    /\ snap = [t \in Thread |-> NoGeneration]
    /\ revisions = [t \in Thread |-> NoRevisions]
    /\ file = [docs |-> EmptyGeneration.docs, revs |-> NoRevisions, number |-> 0]
    /\ search = [r \in Reader |-> NoSearch]
    /\ calls = 0 /\ searches = 0 /\ restarts = 0

-----------------------------------------------------------------------------
(* Writers.  The coordinator calls activate() and erase() under its own    *)
(* lock, so there is at most one of them at a time.                        *)

(* Mutant of Publish: embedding identities are not compared.               *)
PublishMixed(d, rev, docs, inDelta, dead) ==
    LET next == build_generation(active, docs, inDelta, dead) IN
    /\ ~unscheduled
    /\ rev > latest[d]
    /\ with_delta_accepts(active, docs, next.delta, dead)
    /\ latest' = [latest EXCEPT ![d] = rev]
    /\ active' = next
    /\ unscheduled' = TRUE
    /\ UNCHANGED <<pending, pc, snap, revisions, file, search, calls, searches,
                   restarts>>

(* The publication common to activate() and erase(): a failed build leaves *)
(* everything as it is.                                                    *)
Publish(d, rev, docs, inDelta, dead) ==
    LET next == build_generation(active, docs, inDelta, dead) IN
    /\ ~unscheduled
    /\ rev > latest[d]
    /\ Compatible(docs)
    /\ with_delta_accepts(active, docs, next.delta, dead)
    /\ latest' = [latest EXCEPT ![d] = rev]
    /\ active' = next
    /\ unscheduled' = TRUE
    /\ UNCHANGED <<pending, pc, snap, revisions, file, search, calls, searches,
                   restarts>>

(* Base rows that the document has now and keeps no longer.                *)
Replaced(d, keys) ==
    {k \in Chunks(active.docs) : Owner[k] = d /\ contains_base(active, k)} \ keys

activate(d, p, rev) ==
    Publish(d, rev,
            [active.docs EXCEPT ![d] = [rev |-> rev, doc |-> p]],
            active.inDelta \cup {d},
            active.dead \cup Replaced(d, DOMAIN p.rows))

erase(d, rev) ==
    Publish(d, rev,
            [active.docs EXCEPT ![d] = NoDoc],
            active.inDelta \ {d},
            active.dead \cup Replaced(d, {}))

(* schedule_maintenance(), then the writer lock is released.               *)
schedule_maintenance ==
    /\ unscheduled
    /\ unscheduled' = FALSE
    /\ pending' = TRUE
    /\ UNCHANGED <<latest, active, pc, snap, revisions, file, search, calls,
                   searches, restarts>>

-----------------------------------------------------------------------------
(* Maintenance                                                             *)

maintenance_required(g) ==
    LET base == Cardinality(DOMAIN g.base)
        delta == Cardinality(DOMAIN g.delta)
        dead == Cardinality(g.dead)
    IN  \/ delta >= DeltaLimit
        \/ base # 0 /\ 100 * delta >= base * DeltaPercent
        \/ base # 0 /\ 100 * dead >= base * TombstonePercent
        \/ CompactionSize(g) > Budget
        \/ base = 0 /\ delta >= ExactThreshold

Goto(t, place) == pc' = [pc EXCEPT ![t] = place]

(* maintenance_loop() wakes up and clears the flag.                        *)
Wake ==
    /\ pc[Worker] = "idle" /\ pending
    /\ pending' = FALSE
    /\ Goto(Worker, "stats")
    /\ UNCHANGED <<latest, active, unscheduled, snap, revisions, file, search,
                   calls, searches, restarts>>

(* stats() decides whether to compact.                                     *)
CheckStats ==
    /\ pc[Worker] = "stats"
    /\ Goto(Worker, IF maintenance_required(active) THEN "load" ELSE "idle")
    /\ UNCHANGED <<latest, active, unscheduled, pending, snap, revisions, file,
                   search, calls, searches, restarts>>

(* compact() called by a host.                                             *)
CallCompact(c) ==
    /\ pc[c] = "idle"
    /\ calls < MaxCalls
    /\ calls' = calls + 1
    /\ Goto(c, "load")
    /\ UNCHANGED <<latest, active, unscheduled, pending, snap, revisions, file,
                   search, searches, restarts>>

(* compact() loads its snapshot; beyond the memory budget it gives up,     *)
(* unless a caller overrides the budget.                                   *)
CompactLoad(t) ==
    /\ pc[t] = "load"
    /\ \/ /\ t # Worker \/ CompactionSize(active) <= Budget
          /\ snap' = [snap EXCEPT ![t] = active]
          /\ Goto(t, "build")
       \/ /\ CompactionSize(active) > Budget
          /\ Goto(t, "idle")
          /\ UNCHANGED snap
    /\ UNCHANGED <<latest, active, unscheduled, pending, revisions, file, search,
                   calls, searches, restarts>>

(* Mutant of CompactPublish: requests made during the build are forgotten. *)
CompactPublishClears(t) ==
    /\ pc[t] = "build" /\ ~unscheduled
    /\ active' = IF active = snap[t] THEN CompactedGeneration(snap[t]) ELSE active
    /\ snap' = [snap EXCEPT ![t] = NoGeneration]
    /\ pending' = FALSE
    /\ Goto(t, "idle")
    /\ UNCHANGED <<latest, unscheduled, revisions, file, search, calls, searches,
                   restarts>>

(* The new base is built without a lock and published only if the          *)
(* snapshot is still the active generation.                                *)
CompactPublish(t) ==
    /\ pc[t] = "build" /\ ~unscheduled
    /\ active' = IF active = snap[t] THEN CompactedGeneration(snap[t]) ELSE active
    /\ snap' = [snap EXCEPT ![t] = NoGeneration]
    /\ Goto(t, "idle")
    /\ UNCHANGED <<latest, unscheduled, pending, revisions, file, search, calls,
                   searches, restarts>>

-----------------------------------------------------------------------------
(* Checkpoints and restarts                                                *)

(* checkpoint() takes the generation and the revisions under the writer    *)
(* lock.                                                                   *)
CheckpointCapture(c) ==
    /\ pc[c] = "idle" /\ ~unscheduled
    /\ calls < MaxCalls
    /\ calls' = calls + 1
    /\ snap' = [snap EXCEPT ![c] = active]
    /\ revisions' = [revisions EXCEPT ![c] = latest]
    /\ Goto(c, "save")
    /\ UNCHANGED <<latest, active, unscheduled, pending, file, search, searches,
                   restarts>>

EndCheckpoint(c) ==
    /\ snap' = [snap EXCEPT ![c] = NoGeneration]
    /\ revisions' = [revisions EXCEPT ![c] = NoRevisions]
    /\ Goto(c, "idle")
    /\ UNCHANGED <<latest, active, unscheduled, pending, search, calls, searches,
                   restarts>>

(* validate_for_save() and restore_checkpoint(): an active document has    *)
(* the revision that the revision catalog gives it.                        *)
Consistent(docs, revs) == \A d \in Live(docs) : revs[d] = docs[d].rev

(* Mutant of CheckpointSave: the documents are those active by now.        *)
CheckpointSaveCurrent(c) ==
    /\ pc[c] = "save"
    /\ Consistent(active.docs, revisions[c])
    /\ file' = [docs |-> active.docs, revs |-> revisions[c],
                number |-> snap[c].number]
    /\ EndCheckpoint(c)

CheckpointSave(c) ==
    /\ pc[c] = "save"
    /\ Consistent(snap[c].docs, revisions[c])
    /\ file' = [docs |-> snap[c].docs, revs |-> revisions[c],
                number |-> snap[c].number]
    /\ EndCheckpoint(c)

CheckpointFails(c) == pc[c] = "save" /\ EndCheckpoint(c) /\ UNCHANGED file

(* EmbeddedCheckpointStore::load() and build_generation() take the file.   *)
Loadable(f) == Consistent(f.docs, f.revs) /\ Compatible(f.docs)

(* The process ends, and another one opens the checkpoint: every row goes  *)
(* into a new base, from the vectors or from a sidecar that matches them.  *)
Restart ==
    /\ restarts < MaxRestarts
    /\ restarts' = restarts + 1
    /\ Loadable(file)
    /\ latest' = file.revs
    /\ active' = [CompactedGeneration([active EXCEPT !.docs = file.docs])
                    EXCEPT !.number = file.number]
    /\ unscheduled' = FALSE /\ pending' = FALSE
    /\ pc' = [t \in Thread |-> "idle"]
    /\ snap' = [t \in Thread |-> NoGeneration]
    /\ revisions' = [t \in Thread |-> NoRevisions]
    /\ search' = [r \in Reader |-> NoSearch]
    /\ UNCHANGED <<file, calls, searches>>

-----------------------------------------------------------------------------
(* retrieval::search() over this backend                                   *)

Searching(r) == UNCHANGED <<latest, active, unscheduled, pending, pc, snap,
                            revisions, file, calls, restarts>>

BeginSearch(r) ==
    /\ search[r].todo = {}
    /\ searches < MaxSearches
    /\ searches' = searches + 1
    /\ \E mode \in {{"lexical"}, {"dense"}, {"lexical", "dense"}},
          filter \in SUBSET Meta \ {{}} :
        search' = [search EXCEPT ![r] =
            [NoSearch EXCEPT !.todo = mode \cup {"fetch"}, !.filter = filter,
                             !.since = latest]]
    /\ Searching(r)

Matches(r, k) == active.docs[Owner[k]].doc.meta \in search[r].filter

(* The chunks that may come out of lexical_candidates().                   *)
LexicalRows == Chunks(active.docs)

(* Mutant of DenseRows: the base is searched without the tombstones and    *)
(* without the catalog.                                                    *)
DenseRowsOfIndex(g) ==
    {k \in DOMAIN g.base \cup DOMAIN g.delta : g.docs[Owner[k]] # NoDoc}

(* The chunks that dense_candidates() hands to the tiered index.           *)
DenseRows(g) ==
    {k \in Chunks(g.docs) : contains_base(g, k) \/ k \in DOMAIN g.delta}

(* Each of the two calls loads the active generation; in hybrid mode they  *)
(* run in two threads.  The query and k choose among the rows that pass    *)
(* the filter.                                                             *)
Candidates(r, call, rows) ==
    /\ call \in search[r].todo
    /\ \E hits \in SUBSET {k \in rows : Matches(r, k)} :
        search' = [search EXCEPT ![r].todo = @ \ {call},
                                 ![r].keys = @ \cup hits]
    /\ UNCHANGED searches
    /\ Searching(r)

(* fetch() loads the active generation again; a key it does not resolve    *)
(* makes the search fail with corrupt_index.                               *)
Fetch(r) ==
    LET found == search[r].keys \cap Chunks(active.docs) IN
    /\ search[r].todo = {"fetch"}
    /\ search' = [search EXCEPT
            ![r].todo = {},
            ![r].failed = found # search[r].keys,
            ![r].result = IF found # search[r].keys THEN NoResult
                          ELSE [k \in Key |-> IF k \in found
                                              THEN active.docs[Owner[k]]
                                              ELSE NoDoc]]
    /\ UNCHANGED searches
    /\ Searching(r)

-----------------------------------------------------------------------------
Maintenance ==
    \/ Wake \/ CheckStats
    \/ CompactLoad(Worker) \/ CompactPublish(Worker)

Next ==
    \/ \E d \in Doc, rev \in 1..MaxRevision :
        \/ \E p \in PreparedFor(d) : activate(d, p, rev)
        \/ erase(d, rev)
    \/ schedule_maintenance
    \/ Maintenance
    \/ \E c \in Caller :
        \/ CallCompact(c) \/ CompactLoad(c) \/ CompactPublish(c)
        \/ CheckpointCapture(c) \/ CheckpointSave(c) \/ CheckpointFails(c)
    \/ Restart
    \/ \E r \in Reader :
        \/ BeginSearch(r)
        \/ Candidates(r, "lexical", LexicalRows)
        \/ Candidates(r, "dense", DenseRows(active))
        \/ Fetch(r)

Spec == Init /\ [][Next]_vars

(* The maintenance thread runs, and a writer gets to its next statement.   *)
FairSpec == Spec /\ WF_vars(Maintenance) /\ WF_vars(schedule_maintenance)

-----------------------------------------------------------------------------
(* The data contract of embedded_backend.hpp: every row of the catalog can *)
(* be reached through the dense index, in the base or else in the delta,   *)
(* whatever replacements, deletions and compactions came before.           *)
DenseVisible == DenseRows(active) = Chunks(active.docs)

(* with_delta() never refuses what activate() or erase() of any document   *)
(* makes of the active generation, apart from a change of the dimension    *)
(* under a base that still has rows: a deletion always gets through.       *)
DeltaAccepted ==
    \A d \in Doc :
        LET Accepted(docs, inDelta, dead) ==
                with_delta_accepts(active, docs, DeltaRows(active, docs, inDelta),
                                   dead)
        IN  /\ Accepted([active.docs EXCEPT ![d] = NoDoc], active.inDelta \ {d},
                        active.dead \cup Replaced(d, {}))
            /\ \A p \in PreparedFor(d) :
                LET docs == [active.docs EXCEPT ![d] = [rev |-> 1, doc |-> p]] IN
                (Compatible(docs) /\ (active.dim = 0 \/ Dimension(docs) \in {0, active.dim}))
                    => Accepted(docs, active.inDelta \cup {d},
                                active.dead \cup Replaced(d, DOMAIN p.rows))

(* The two tiers of the dense index stay usable: every live row is found,  *)
(* and the next update can be laid over them.                              *)
DenseConsistent == TypeOK /\ DenseVisible /\ DeltaAccepted

(* The checkpoint on disk can always be opened: restore_checkpoint() finds *)
(* the revisions of its documents in its catalog and one identity in it.   *)
Restorable == Loadable(file)

(* A search that begins after a publication has returned shows that        *)
(* revision or a later one, and never a document deleted before.           *)
ReadsPublished ==
    \A r \in Reader, k \in Key :
        search[r].result[k] # NoDoc =>
            search[r].result[k].rev >= search[r].since[Owner[k]]

(* Compaction is invisible to searches: "backend did not resolve every     *)
(* candidate" is only answered when a writer published after the search    *)
(* began.                                                                  *)
OnlyWritersDisturb ==
    \A r \in Reader : search[r].failed => search[r].since # latest

(* A search that loads the active generation two or three times shows what *)
(* was published before it began, and only a writer can make it fail.      *)
SearchConsistent == ReadsPublished /\ OnlyWritersDisturb

(* The backend keeps what a RevisionedBackend keeps: only activate() and   *)
(* erase() change what is served, a compaction or a failed checkpoint      *)
(* never does, and the file is a state that was served at one moment.      *)
Versions(docs, revs) ==
    [d \in Doc |-> [rev |-> revs[d],
                    val |-> IF docs[d] = NoDoc THEN NoDoc ELSE docs[d].doc]]

Abstract == INSTANCE RevisionedBackend WITH
    Content <- Prepared,
    version <- Versions(active.docs, latest),
    captured <- {Versions(snap[c].docs, revisions[c]) :
                    c \in {t \in Caller : pc[t] = "save"}},
    saved <- Versions(file.docs, file.revs)

ImplementsBackend == Abstract!Spec

(* Every crossed threshold leads to a compaction, however writers and the  *)
(* maintenance thread interleave: a publication during a build is not      *)
(* forgotten.  Beyond the memory budget nothing is promised.               *)
MaintenanceDone ==
    ~maintenance_required(active) \/ CompactionSize(active) > Budget

MaintenanceConverges == []<>MaintenanceDone

=============================================================================
