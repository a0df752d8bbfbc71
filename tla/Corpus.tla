------------------------------- MODULE Corpus -------------------------------
(***************************************************************************)
(* The legacy corpus (index/corpus.cpp) and its write-ahead log            *)
(* (store/wal.cpp): documents with soft deletion, the dense half, saves    *)
(* in two phases ordered by epoch, checkpoints, and recovery by replaying  *)
(* the log over the saved file.                                            *)
(*                                                                         *)
(* Mutations hold the write lock from the log record to the change in      *)
(* memory, so each is one action; its appends may fail.  A save is a       *)
(* snapshot under the shared lock and a publication under the lock of the  *)
(* path, a checkpoint has the truncation of the log as a third step, and   *)
(* any number of threads save at once.                                     *)
(***************************************************************************)
EXTENDS Integers, FiniteSets, Sequences

CONSTANTS
    Uris, Texts,        \* external names and contents of documents
    NoText,             \* no live document
    ChunkCount,         \* text -> number of chunks chunk_document() makes
    MaxDocuments,       \* store::kMaxDocuments
    MaxChunks,          \* store::kMaxChunks
    HnswThreshold,      \* CorpusConfig::hnsw_threshold
    Savers,             \* threads that call save() or checkpoint()
    NoFile, Torn,       \* no saved file; a frame that was cut off
    MaxAttempts,        \* bound on calls that mutate documents or build
    MaxSaves,           \* bound on calls of save() and checkpoint()
    MaxFaults,          \* bound on failing appends and writes
    MaxCrashes          \* bound on crashes and reopenings

(* Document, Corpus and WalRecord.  A chunk is a pair of a document's id and
   a number within it. *)
Documents == [uri : Uris, text : Texts]
ChunkIds == Nat \X Nat
Graphs == [built : BOOLEAN, nodes : SUBSET ChunkIds, removed : SUBSET ChunkIds]
Corpora == [docs : Seq(Documents), deleted : SUBSET Nat, embedded : SUBSET ChunkIds,
            graph : Graphs, epoch : Nat]
Records == [op : {"add_document"}, uri : Uris, text : Texts]
             \cup [op : {"remove_document"}, doc_id : Nat]

ASSUME CorpusAssumption ==
    /\ NoText \notin Texts /\ NoFile \notin Corpora /\ Torn \notin Records
    /\ ChunkCount \in [Texts -> Nat]
    /\ {MaxDocuments, MaxChunks, HnswThreshold, MaxAttempts,
        MaxSaves, MaxFaults, MaxCrashes} \subseteq Nat

VARIABLES
    mode,         \* "down", "up" or "refused": load() or open_wal() failed
    corpus,       \* docs_, deleted_docs_, embeddings, hnsw_, epoch_
    wal,          \* the records of the log file
    file,         \* the saved file
    published,    \* PathState of the path: the epoch that reached it, -1 = none
    pc, call, snap, \* of a saver: its step, the call it makes, its snapshot
    attempts, saves, faults, crashes,
    (* History: the text each document was acknowledged with, documents the
       code gives no guarantee for, a log that is not what memory did, a
       file that holds a part of the log. *)
    acked, unprotected, diverged, overlapping

vars == <<mode, corpus, wal, file, published, pc, call, snap, attempts,
          saves, faults, crashes, acked, unprotected, diverged,
          overlapping>>

savers == <<pc, call, snap, saves>>
history == <<acked, unprotected, diverged, overlapping>>
-----------------------------------------------------------------------------
NoGraph == [built |-> FALSE, nodes |-> {}, removed |-> {}]

Empty == [docs |-> <<>>, deleted |-> {}, embedded |-> {}, graph |-> NoGraph,
          epoch |-> 0]

ChunksOf(c, id) == {id} \X (1..ChunkCount[c.docs[id].text])

Chunks(c) == UNION {ChunksOf(c, id) : id \in DOMAIN c.docs}

Live(c) == DOMAIN c.docs \ c.deleted

(* find_by_uri_locked(): the first of the live documents of that name. *)
FindByUri(c, u) == {id \in Live(c) : c.docs[id].uri = u}

FirstOf(ids) == CHOOSE id \in ids : \A other \in ids : id <= other

(* add_document_locked() after the log record: refused past the limit of
   chunks, which count whether deleted or not. *)
Fits(c, t) == Cardinality(Chunks(c)) + ChunkCount[t] <= MaxChunks

Added(c, u, t) == [c EXCEPT !.docs = Append(@, [uri |-> u, text |-> t]),
                            !.epoch = @ + 1]

(* remove_document_locked(): a tombstone for the document, and for its
   chunks in the graph if there is one. *)
Removed(c, id) ==
    [c EXCEPT !.deleted = @ \cup {id}, !.epoch = @ + 1,
              !.graph.removed = IF c.graph.built THEN @ \cup ChunksOf(c, id) ELSE @]

(* build_locked() when every pending chunk was embedded: past the threshold
   the graph is built anew from all embedded chunks. *)
Built(c) ==
    [c EXCEPT !.embedded = Chunks(c), !.epoch = @ + 1,
              !.graph = IF Cardinality(Chunks(c)) >= HnswThreshold
                        THEN [built |-> TRUE, nodes |-> Chunks(c), removed |-> {}]
                        ELSE @]

(* dense_search_locked(): the chunks a search may return. *)
DenseHits(c) ==
    IF c.graph.built THEN c.graph.nodes \ c.graph.removed
    ELSE {h \in c.embedded : h[1] \notin c.deleted}

(* lexical_search_locked(): tombstoned documents are dropped after ranking. *)
LexicalHits(c) == {h \in Chunks(c) : h[1] \notin c.deleted}
-----------------------------------------------------------------------------
(* WalRecord. *)
AddRecord(u, t) == [op |-> "add_document", uri |-> u, text |-> t]
RemoveRecord(id) == [op |-> "remove_document", doc_id |-> id]

(* Wal::append(): it may write nothing, a part of the frame, or the frame
   without a successful fsync, and reports an error in each case. *)
AppendOutcome == {"ok"} \cup (IF faults < MaxFaults
                              THEN {"unwritten", "torn", "unsynced"} ELSE {})

Logged(w, record, outcome) ==
    CASE outcome = "unwritten" -> w
      [] outcome = "torn"      -> Append(w, Torn)
      [] OTHER                 -> Append(w, record)

(* The state of a mutation under way: log, corpus, whether the last step
   succeeded, and whether the log has what the corpus has. *)
Begun == [wal |-> wal, c |-> corpus, ok |-> TRUE, clean |-> TRUE]

(* add_document_locked(): the record precedes the change, the limit of
   documents is checked before it and the limit of chunks after it. *)
AddTo(s, u, t, outcome) ==
    LET accepted == outcome = "ok" /\ Fits(s.c, t)
    IN  IF Len(s.c.docs) >= MaxDocuments THEN [s EXCEPT !.ok = FALSE]
        ELSE [wal   |-> Logged(s.wal, AddRecord(u, t), outcome),
              c     |-> IF accepted THEN Added(s.c, u, t) ELSE s.c,
              ok    |-> accepted,
              clean |-> s.clean /\ (accepted \/ outcome = "unwritten")]

RemoveFrom(s, id, outcome) ==
    [wal   |-> Logged(s.wal, RemoveRecord(id), outcome),
     c     |-> IF outcome = "ok" THEN Removed(s.c, id) ELSE s.c,
     ok    |-> outcome = "ok",
     clean |-> s.clean /\ outcome \in {"ok", "unwritten"}]

CheckpointUnderway == \E t \in Savers : call[t] = "checkpoint" /\ pc[t] # "idle"

(* The end of a mutation of u that leaves text t (or none) when it succeeds.
   u is unprotected if the call failed half-way, if there are two documents
   of that name, or if the log is not, or may soon not be, what a restart
   needs to reproduce it. *)
Mutated(s, u, t, outcomes) ==
    /\ mode = "up" /\ attempts < MaxAttempts
    /\ attempts' = attempts + 1
    /\ faults' = faults + Cardinality({o \in outcomes : o # "ok"})
    /\ faults' <= MaxFaults
    /\ corpus' = s.c /\ wal' = s.wal
    /\ acked' = IF s.ok THEN [acked EXCEPT ![u] = t] ELSE acked
    /\ diverged' = (diverged \/ ~s.clean)
    /\ unprotected' =
         IF \/ ~s.ok /\ ~(s.clean /\ s.c = corpus)
            \/ s.ok /\ (diverged' \/ CheckpointUnderway)
            \/ Cardinality(FindByUri(s.c, u)) > 1
         THEN unprotected \cup {u} ELSE unprotected
    /\ UNCHANGED <<mode, file, published, savers, crashes, overlapping>>

AddDocument(u, t) ==
    \E o \in AppendOutcome : Mutated(AddTo(Begun, u, t, o), u, t, {o})

(* The result of the removal is ignored, and the old version is gone when
   the new one is refused. *)
UpsertDocument(u, t) ==
    IF FindByUri(corpus, u) = {}
    THEN AddDocument(u, t)
    ELSE \E o1, o2 \in AppendOutcome :
            LET id == FirstOf(FindByUri(corpus, u))
            IN  Mutated(AddTo(RemoveFrom(Begun, id, o1), u, t, o2), u, t, {o1, o2})

RemoveDocument(id) ==
    \E o \in AppendOutcome :
        Mutated(RemoveFrom(Begun, id, o), corpus.docs[id].uri, NoText, {o})

(* build(): batches are embedded concurrently, the first failure stops the
   rest; what was embedded stays, the epoch does not move. *)
Build ==
    /\ mode = "up" /\ attempts < MaxAttempts
    /\ attempts' = attempts + 1
    /\ \/ corpus' = Built(corpus)
       \/ \E some \in SUBSET (Chunks(corpus) \ corpus.embedded) :
            /\ some # Chunks(corpus) \ corpus.embedded
            /\ corpus' = [corpus EXCEPT !.embedded = @ \cup some]
    /\ UNCHANGED <<mode, wal, file, published, savers, faults, crashes, history>>
-----------------------------------------------------------------------------
(* A saver at rest. *)
AtRest(t) ==
    /\ pc' = [pc EXCEPT ![t] = "idle"]
    /\ call' = [call EXCEPT ![t] = "none"]
    /\ snap' = [snap EXCEPT ![t] = Empty]

(* save(), first phase: snapshot_locked() and the epoch under mu_. *)
Snapshot(t, kind) ==
    /\ mode = "up" /\ pc[t] = "idle" /\ saves < MaxSaves
    /\ saves' = saves + 1
    /\ pc' = [pc EXCEPT ![t] = "snapped"]
    /\ call' = [call EXCEPT ![t] = kind]
    /\ snap' = [snap EXCEPT ![t] = corpus]
    /\ UNCHANGED <<mode, corpus, wal, file, published, attempts, faults,
                   crashes, history>>

(* Mutant: the epochs are not compared. *)
NeverSuperseded(c) == FALSE

(* A snapshot older than what reached the path is dropped. *)
Superseded(c) == published > c.epoch

(* save(), second phase: write_file() replaces the file and returns when the
   new one is durable. *)
Publish(t) ==
    /\ pc[t] = "snapped"
    /\ pc' = [pc EXCEPT ![t] = "saved"]
    /\ IF Superseded(snap[t])
       THEN UNCHANGED <<file, published, overlapping>>
       ELSE /\ file' = snap[t]
            /\ published' = snap[t].epoch
            /\ overlapping' = (overlapping \/ wal # <<>>)
    /\ UNCHANGED <<mode, corpus, wal, call, snap, saves, attempts, faults,
                   crashes, acked, unprotected, diverged>>

PublishFails(t) ==
    /\ pc[t] = "snapped" /\ faults < MaxFaults
    /\ faults' = faults + 1
    /\ AtRest(t)
    /\ UNCHANGED <<mode, corpus, wal, file, published, saves, attempts,
                   crashes, history>>

SaveReturns(t) ==
    /\ pc[t] = "saved" /\ call[t] = "save"
    /\ AtRest(t)
    /\ UNCHANGED <<mode, corpus, wal, file, published, saves, attempts,
                   faults, crashes, history>>

(* checkpoint(), after its save(): Wal::truncate() under the write lock. *)
Truncate(t) ==
    /\ pc[t] = "saved" /\ call[t] = "checkpoint"
    /\ AtRest(t)
    /\ wal' = <<>>
    /\ diverged' = (<<file.docs, file.deleted>> # <<corpus.docs, corpus.deleted>>)
    /\ overlapping' = FALSE
    /\ UNCHANGED <<mode, corpus, file, published, saves, attempts, faults,
                   crashes, acked, unprotected>>

(* ftruncate() fails and checkpoint() reports it. *)
TruncateFails(t) ==
    /\ pc[t] = "saved" /\ call[t] = "checkpoint" /\ faults < MaxFaults
    /\ faults' = faults + 1
    /\ AtRest(t)
    /\ UNCHANGED <<mode, corpus, wal, file, published, saves, attempts, crashes,
                   history>>
-----------------------------------------------------------------------------
Down ==
    /\ crashes < MaxCrashes /\ crashes' = crashes + 1
    /\ mode' = "down" /\ corpus' = Empty
    /\ pc' = [t \in Savers |-> "idle"]
    /\ call' = [t \in Savers |-> "none"]
    /\ snap' = [t \in Savers |-> Empty]
    /\ UNCHANGED <<file, saves, attempts, faults, acked,
                   diverged, overlapping>>

(* The process dies, possibly inside an append. *)
Crash ==
    /\ mode = "up" /\ Down
    /\ published' = -1
    /\ wal' \in {wal, Append(wal, Torn)}
    /\ UNCHANGED unprotected

(* It dies between the two appends of an upsert. *)
CrashInUpsert(u) ==
    /\ mode = "up" /\ Down
    /\ published' = -1
    /\ FindByUri(corpus, u) # {}
    /\ wal' = Append(wal, RemoveRecord(FirstOf(FindByUri(corpus, u))))
    /\ unprotected' = unprotected \cup {u}

(* The host drops the corpus and loads it again in the same process, where
   the registry of paths stays. *)
Close ==
    /\ mode = "up" /\ Down
    /\ \A t \in Savers : pc[t] = "idle"
    /\ UNCHANGED <<published, wal, unprotected>>

(* Wal::replay(): everything before the first torn frame.  Frames behind it
   are never read; whether they make replay() fail depends on the bytes. *)
TornAt(log) == {i \in DOMAIN log : log[i] = Torn}

Readable(log) == IF TornAt(log) = {} THEN log
                 ELSE SubSeq(log, 1, FirstOf(TornAt(log)) - 1)

CorruptInterior == \E i \in TornAt(wal) : i < Len(wal)

(* Mutant: an addition is replayed by add_document(), and a removal must
   find its document. *)
ReplayVerbatim(s, record) ==
    CASE ~s.ok -> s
      [] s.ok /\ record.op = "remove_document" ->
           [c |-> IF record.doc_id \in Live(s.c) THEN Removed(s.c, record.doc_id) ELSE s.c,
            ok |-> record.doc_id \in Live(s.c)]
      [] OTHER -> [c |-> Added(s.c, record.uri, record.text),
                   ok |-> FindByUri(s.c, record.uri) = {}]

(* One record of open_wal(): an addition is replayed as an upsert, a removal
   of an unknown or deleted id is ignored. *)
ReplayRecord(s, record) ==
    CASE ~s.ok -> s
      [] s.ok /\ record.op = "remove_document" ->
           IF record.doc_id \in Live(s.c)
           THEN [s EXCEPT !.c = Removed(@, record.doc_id)] ELSE s
      [] OTHER ->
           LET ids  == FindByUri(s.c, record.uri)
               base == IF ids = {} THEN s.c ELSE Removed(s.c, FirstOf(ids))
               fits == Len(base.docs) < MaxDocuments /\ Fits(base, record.text)
           IN  [c |-> IF fits THEN Added(base, record.uri, record.text) ELSE base,
                ok |-> fits]

(* A removal is among the records of a log. *)
Removes(log) == \E i \in DOMAIN log : log[i].op = "remove_document"

(* Corpus::load(): what the sections hold.  The tombstones of the graph are
   not among them. *)
Parsed == IF file = NoFile THEN Empty
          ELSE [file EXCEPT !.graph.removed = {}, !.epoch = 0]

(* Mutant: the epochs of a loaded corpus start from zero. *)
LoadedFromZero == Parsed

(* Within a process the epochs continue from the path's publication. *)
Loaded == [Parsed EXCEPT !.epoch = IF published = -1 THEN @ ELSE published]

(* The loop of open_wal() over the records of a log. *)
ReplayOver(c, log) ==
    LET after[n \in 0..Len(log)] ==
            IF n = 0 THEN [c |-> c, ok |-> TRUE]
            ELSE ReplayRecord(after[n - 1], log[n])
    IN  after[Len(log)]

Replayed == ReplayOver(Loaded, Readable(wal))

(* load() and open_wal().  A rebuild that fails to embed makes open_wal()
   fail, leaves the files as they are and is tried again: a stuttering step. *)
Open ==
    /\ mode = "down"
    /\ Replayed.ok
    /\ mode' = "up"
    /\ corpus' = IF Readable(wal) = <<>> THEN Loaded ELSE Built(Replayed.c)
    /\ diverged' = (TornAt(wal) # {})
    /\ unprotected' =
         IF overlapping /\ Removes(Readable(wal))
         THEN Uris ELSE unprotected
    /\ UNCHANGED <<wal, file, published, savers, attempts, faults, crashes,
                   acked, overlapping>>

OpenRefused ==
    /\ mode = "down"
    /\ ~Replayed.ok \/ CorruptInterior
    /\ mode' = "refused"
    /\ UNCHANGED <<corpus, wal, file, published, savers, attempts, faults,
                   crashes, history>>
-----------------------------------------------------------------------------
Init ==
    /\ mode = "up" /\ corpus = Empty
    /\ wal = <<>> /\ file = NoFile /\ published = -1
    /\ pc = [t \in Savers |-> "idle"]
    /\ call = [t \in Savers |-> "none"]
    /\ snap = [t \in Savers |-> Empty]
    /\ attempts = 0 /\ saves = 0 /\ faults = 0 /\ crashes = 0
    /\ acked = [u \in Uris |-> NoText]
    /\ unprotected = {} /\ diverged = FALSE /\ overlapping = FALSE

Next ==
    \/ \E u \in Uris, t \in Texts : AddDocument(u, t) \/ UpsertDocument(u, t)
    \/ \E id \in Live(corpus) : RemoveDocument(id)
    \/ Build
    \/ \E t \in Savers :
        \/ \E kind \in {"save", "checkpoint"} : Snapshot(t, kind)
        \/ Publish(t) \/ PublishFails(t) \/ SaveReturns(t)
        \/ Truncate(t) \/ TruncateFails(t)
    \/ Crash \/ Close
    \/ \E u \in Uris : CrashInUpsert(u)
    \/ Open \/ OpenRefused

Spec == Init /\ [][Next]_vars
-----------------------------------------------------------------------------
(* The mutations that made a corpus: no document is ever taken out. *)
Mutations(c) == Len(c.docs) + Cardinality(c.deleted)

(* What lexical searches find under a name. *)
Served(u) ==
    {corpus.docs[id].text : id \in {h[1] : h \in LexicalHits(corpus)} \cap
                                    {i \in DOMAIN corpus.docs : corpus.docs[i].uri = u}}

(* A running corpus serves exactly what was acknowledged, across crashes,
   reopenings, concurrent saves and checkpoints: one document with the text
   of the last acknowledged mutation, none after a removal; a text without
   chunks is not found.  Exempt are the
   documents the code cannot protect: mutated while a checkpoint is between
   its snapshot and its truncation, mutated behind a torn or unacknowledged
   frame, mutated by a call that failed between its two records, or in a log
   whose removals are replayed over a file that already holds a part of it. *)
SurvivesRestart ==
    mode = "up" =>
        \A u \in Uris \ unprotected :
            /\ Served(u) = {t \in {acked[u]} \ {NoText} : ChunkCount[t] > 0}
            /\ Cardinality(FindByUri(corpus, u)) <= 1

(* open_wal() refuses a log only if a mutation failed after a part of its
   frame was written, or after its record was and the corpus refused it, or
   if the file already holds a part of the log. *)
RefusedOnlyIfDiverged ==
    mode = "refused" => diverged \/ overlapping

(* A tombstone in the graph never hides a chunk of a live document, also
   when the graph was loaded and the log replayed over it. *)
GraphFindsLive ==
    corpus.graph.built =>
        \A id \in Live(corpus) :
            ChunksOf(corpus, id) \cap corpus.graph.nodes \subseteq DenseHits(corpus)

(* A restart keeps the corpus: whatever was added, replaced, removed, saved
   or checkpointed, it opens again unless a mutation failed half-way, and its
   searches find what was acknowledged. *)
RestartKeeps == SurvivesRestart /\ RefusedOnlyIfDiverged /\ GraphFindsLive

(* When save() has reported success the file holds the state of the call or
   a newer one, whichever threads save at once and however often the path
   was reopened. *)
SavedIsOnDisk ==
    \A t \in Savers :
        pc[t] = "saved" => file # NoFile /\ Mutations(file) >= Mutations(snap[t])

(* Concurrent saves never replace the file by an older one. *)
FileNeverGoesBack ==
    [][file # NoFile => Mutations(file') >= Mutations(file)]_vars
=============================================================================
