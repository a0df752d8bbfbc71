----------------------------- MODULE Migration -----------------------------
(***************************************************************************)
(* The storage migration: the tool (tools/rag_migrate.cpp), the runner     *)
(* (migration/contract.cpp) and its two endpoints.  A run copies a         *)
(* snapshot of its source in batches ordered by document key, data before  *)
(* progress, and may die or fail at any step and be started again.         *)
(*                                                                         *)
(* Keys are numbers for their order; 0 is the empty cursor.  A document    *)
(* stands for its text, chunks and vectors.  Hashes do not collide, so     *)
(* that the fingerprint and the run ID of a source are its documents.      *)
(***************************************************************************)
EXTENDS Integers, FiniteSets, FiniteSetsExt, Sequences, SequencesExt

CONSTANTS
    Keys,
    Old, New,         \* contents of documents
    Gone,             \* a deleted document, or none
    NoProgress,       \* no progress was recorded
    BatchSize,
    MaxRuns, MaxChanges

ASSUME MigrationAssumption ==
    /\ Keys \subseteq Nat \ {0} /\ Gone \notin {Old, New}
    /\ BatchSize \in Nat \ {0} /\ MaxRuns \in Nat /\ MaxChanges \in Nat

VARIABLES
    direction,        \* of the tool
    truth,            \* what the source's application serves
    saved, ready,     \* an embedded source: its checkpoint and its ready jobs
    dest,             \* the destination's documents on disk
    recorded,         \* its progress on disk
    snapshot,         \* of the source, read when it was opened
    memory,           \* active_ of an embedded destination
    pc,               \* of the runner
    cursor,           \* of reconcile()
    progress,         \* what the runner knows to be copied
    batch, pending,   \* the batch under way and what is left of it to activate
    runs, changes,
    excused           \* the destination was used before, or the source changed

source == <<truth, saved, ready>>
runner == <<snapshot, memory, pc, cursor, progress, batch, pending>>
vars == <<direction, source, dest, recorded, runner, runs, changes, excused>>
-----------------------------------------------------------------------------
None == [rev |-> 0, val |-> Gone]
Nothing == [k \in Keys |-> None]

(* The documents among the rows of a table: a deleted one keeps a row. *)
Documents(rows) == [k \in Keys |-> IF rows[k].val = Gone THEN None ELSE rows[k]]

Start == [run |-> Nothing, last |-> 0, complete |-> FALSE]

ToPostgres == direction = "embedded-to-postgres"

(* What a ready job leaves of its document. *)
Outcome(job) == IF job.val = Gone THEN None ELSE [rev |-> job.rev, val |-> job.val]

(* Mutant: every ready job is replayed over the checkpoint. *)
ReplayAlways(active, job) == [active EXCEPT ![job.key] = Outcome(job)]

(* A job that is not newer than its document is skipped. *)
Replay(active, job) ==
    IF job.rev <= active[job.key].rev THEN active
    ELSE [active EXCEPT ![job.key] = Outcome(job)]

(* load_active(): the checkpoint, then the ready jobs in the order they were
   created in. *)
LoadActive(documents, jobs) ==
    LET after[n \in 0..Len(jobs)] == IF n = 0 THEN documents
                                     ELSE Replay(after[n - 1], jobs[n])
    IN  after[Len(jobs)]

(* The jobs that a compaction of the log keeps, in their order. *)
Retained(jobs, kept) ==
    LET after[n \in 0..Len(jobs)] == IF n = 0 THEN <<>>
                                     ELSE IF jobs[n] \in kept THEN Append(after[n - 1], jobs[n])
                                     ELSE after[n - 1]
    IN  after[Len(jobs)]

(* Mutant: the cursor is the first document of the batch. *)
ReadBatchFirst(documents, after) ==
    LET rest == {k \in Keys : k >= after /\ documents[k] # None}
        keys == {k \in rest : Cardinality({j \in rest : j <= k}) <= BatchSize}
    IN  [keys |-> keys, complete |-> keys = rest,
         next |-> IF keys = {} THEN after ELSE Min(keys)]

(* read_batch() of both endpoints: the next documents after a key. *)
ReadBatch(documents, after) ==
    LET rest == {k \in Keys : k > after /\ documents[k] # None}
        keys == {k \in rest : Cardinality({j \in rest : j <= k}) <= BatchSize}
    IN  [keys |-> keys, complete |-> keys = rest,
         next |-> IF keys = {} THEN after ELSE Max(keys)]

(* What read_batch() of the destination reads: a table, or active_. *)
Destination == IF ToPostgres THEN Documents(dest) ELSE memory

(* What open_*_source() reads. *)
Export == IF ToPostgres THEN LoadActive(saved, ready) ELSE Documents(truth)

(* validate_document() and audit(): what the checksums cover. *)
DocumentHash(k, record) == <<k, record.rev, record.val>>

Audit(documents) == {DocumentHash(k, documents[k]) : k \in {k \in Keys : documents[k] # None}}

(* The sidecar of an embedded destination belongs to one run; the table of
   a PostgreSQL destination has a row for each. *)
OtherRun(documents) ==
    ~ToPostgres /\ recorded # NoProgress /\ Audit(recorded.run) # Audit(documents)
-----------------------------------------------------------------------------
Init ==
    /\ direction \in {"embedded-to-postgres", "postgres-to-embedded"}
    /\ \E some \in SUBSET Keys :
         truth = [k \in Keys |-> IF k \in some THEN [rev |-> 1, val |-> Old] ELSE None]
    /\ saved = truth /\ ready = <<>>
    /\ \E rows \in {Nothing} \cup {[Nothing EXCEPT ![k] = row] : k \in Keys,
                       row \in {[rev |-> 1, val |-> New], [rev |-> 2, val |-> Gone]}} :
         dest = IF ToPostgres THEN rows ELSE Documents(rows)
    /\ recorded = NoProgress
    /\ snapshot = Nothing /\ memory = Nothing
    /\ pc = "idle" /\ cursor = 0 /\ progress = Start
    /\ batch = [keys |-> {}, complete |-> FALSE, next |-> 0] /\ pending = {}
    /\ runs = 0 /\ changes = 0
    /\ excused = (dest # Nothing)
-----------------------------------------------------------------------------
(* The application of the source goes on: a mutation becomes ready. *)
SourceChanges(k, v) ==
    /\ changes < MaxChanges /\ changes' = changes + 1
    /\ v = Gone => truth[k].val # Gone
    /\ LET r == truth[k].rev + 1
       IN  /\ truth' = [truth EXCEPT ![k] = [rev |-> r, val |-> v]]
           /\ ready' = IF ToPostgres THEN Append(ready, [key |-> k, rev |-> r, val |-> v])
                       ELSE ready
    /\ excused' = (excused \/ runs > 0)
    /\ UNCHANGED <<direction, saved, dest, recorded, runner, runs>>

(* It checkpoints, and the log keeps the newest of its ready jobs within a
   number of jobs and of bytes: a large job may go before an older, smaller
   one, but a deletion, which holds no text, not before what it deletes. *)
SourceCheckpoints ==
    /\ ready # <<>> /\ saved # Documents(truth)
    /\ saved' = Documents(truth)
    /\ \E kept \in SUBSET ToSet(ready) :
         /\ \A i \in kept, j \in ToSet(ready) \ kept : j.key = i.key /\ j.val = Gone => j.rev < i.rev
         /\ ready' = Retained(ready, kept)
    /\ UNCHANGED <<direction, truth, dest, recorded, runner, runs, changes, excused>>
-----------------------------------------------------------------------------
Refuse ==
    /\ pc' = "refused"
    /\ UNCHANGED <<cursor, progress, batch, pending>>

(* main() opens both endpoints: the source is read into memory, or in one
   snapshot; migrate() audits it and looks for progress. *)
Open ==
    /\ pc = "idle" /\ runs < MaxRuns /\ runs' = runs + 1
    /\ snapshot' = Export
    /\ memory' = IF ToPostgres THEN Nothing ELSE dest
    /\ IF OtherRun(snapshot')
       THEN Refuse
       ELSE /\ pc' = "reconcile"
            /\ cursor' = 0
            /\ progress' = [Start EXCEPT !.run = snapshot']
            /\ UNCHANGED <<batch, pending>>
    /\ UNCHANGED <<direction, source, dest, recorded, changes, excused>>

(* One round of reconcile(): the destination must be a prefix of the source,
   record by record. *)
Reconcile ==
    LET expected == ReadBatch(snapshot, cursor)
        actual   == ReadBatch(Destination, cursor)
        prefix   == \A k \in actual.keys :
                        /\ k \in expected.keys /\ Destination[k] = snapshot[k]
                        /\ \A j \in expected.keys : j < k => j \in actual.keys
    IN  /\ pc = "reconcile"
        /\ \/ /\ ~prefix \/ (~actual.complete /\ (actual.keys = {} \/ expected.complete))
              /\ Refuse
           \/ /\ prefix /\ (actual.complete \/ (actual.keys # {} /\ ~expected.complete))
              /\ cursor' = actual.next
              /\ progress' = [progress EXCEPT !.last = actual.next,
                                              !.complete = actual.complete /\ expected.complete
                                                             /\ actual.keys = expected.keys]
              /\ pc' = IF actual.complete THEN "copy" ELSE "reconcile"
              /\ UNCHANGED <<batch, pending>>
        /\ UNCHANGED <<direction, source, dest, recorded, snapshot, memory, runs, changes, excused>>

(* Mutant: progress is recorded when the batch was read. *)
NextBatchRecorded ==
    /\ pc = "copy" /\ ~progress.complete
    /\ batch' = ReadBatch(snapshot, progress.last)
    /\ pending' = batch'.keys
    /\ recorded' = [progress EXCEPT !.last = batch'.next]
    /\ pc' = "write"
    /\ UNCHANGED <<direction, source, dest, snapshot, memory, cursor, progress,
                   runs, changes, excused>>

(* The next batch of the source. *)
NextBatch ==
    /\ pc = "copy" /\ ~progress.complete
    /\ batch' = ReadBatch(snapshot, progress.last)
    /\ pending' = batch'.keys
    /\ pc' = "write"
    /\ UNCHANGED <<direction, source, dest, recorded, snapshot, memory, cursor, progress,
                   runs, changes, excused>>

(* write_batch() to PostgreSQL activates document by document. *)
Activate ==
    LET k == Min(pending)
    IN  /\ ToPostgres /\ pc = "write" /\ pending # {}
        /\ IF dest[k].rev >= snapshot[k].rev /\ dest[k] # snapshot[k]
           THEN Refuse /\ UNCHANGED dest
           ELSE /\ dest' = [dest EXCEPT ![k] = snapshot[k]]
                /\ pending' = pending \ {k}
                /\ UNCHANGED <<pc, cursor, progress, batch>>
        /\ UNCHANGED <<direction, source, recorded, snapshot, memory, runs, changes, excused>>

(* Mutant: the checkpoint holds only the batch. *)
SavedBatch(documents) ==
    [k \in Keys |-> IF k \in batch.keys THEN documents[k] ELSE None]

(* The checkpoint that write_batch() saves: all of active_. *)
SavedDocuments(documents) == documents

(* write_batch() to an embedded file: a document that is there must be the
   same, the others join active_, and the whole checkpoint is replaced. *)
SaveCheckpoint ==
    /\ ~ToPostgres /\ pc = "write" /\ pending # {}
    /\ IF \E k \in pending : memory[k] \notin {None, snapshot[k]}
       THEN Refuse /\ UNCHANGED <<dest, memory>>
       ELSE /\ memory' = [k \in Keys |-> IF k \in pending THEN snapshot[k] ELSE memory[k]]
            /\ dest' = SavedDocuments(memory')
            /\ pending' = {}
            /\ UNCHANGED <<pc, cursor, progress, batch>>
    /\ UNCHANGED <<direction, source, recorded, snapshot, runs, changes, excused>>

Copied == [progress EXCEPT !.last = batch.next, !.complete = batch.complete]

(* save_progress(), once the data is durable. *)
SaveProgress ==
    /\ pc = "write" /\ pending = {}
    /\ recorded' = Copied
    /\ progress' = Copied
    /\ pc' = "copy"
    /\ UNCHANGED <<direction, source, dest, snapshot, memory, cursor, batch, pending,
                   runs, changes, excused>>

(* finish(). *)
Finish ==
    /\ pc = "copy" /\ progress.complete
    /\ recorded' = progress
    /\ pc' = "verify"
    /\ UNCHANGED <<direction, source, dest, snapshot, memory, cursor, progress, batch,
                   pending, runs, changes, excused>>

(* The final audits: the snapshot has not changed, the destination must
   agree with it, and so must sampled searches. *)
Verify ==
    /\ pc = "verify"
    /\ IF Audit(Destination) = Audit(snapshot)
       THEN pc' = "report" /\ UNCHANGED <<cursor, progress, batch, pending>>
       ELSE Refuse
    /\ UNCHANGED <<direction, source, dest, recorded, snapshot, memory, runs, changes, excused>>

(* write_report() and exit. *)
Report ==
    /\ pc = "report"
    /\ pc' = "done"
    /\ UNCHANGED <<direction, source, dest, recorded, snapshot, memory, cursor, progress,
                   batch, pending, runs, changes, excused>>

(* The command has ended, or a step of it fails, or the process dies. *)
Ends ==
    /\ pc # "idle"
    /\ pc' = "idle"
    /\ snapshot' = Nothing /\ memory' = Nothing /\ cursor' = 0 /\ progress' = Start
    /\ batch' = [keys |-> {}, complete |-> FALSE, next |-> 0] /\ pending' = {}
    /\ UNCHANGED <<direction, source, dest, recorded, runs, changes, excused>>

Run == Reconcile \/ NextBatch \/ Activate \/ SaveCheckpoint \/ SaveProgress \/ Finish
         \/ Verify \/ Report

Next ==
    \/ \E k \in Keys, v \in {New, Gone} : SourceChanges(k, v)
    \/ SourceCheckpoints
    \/ Open \/ Run \/ Ends

(* A started command runs. *)
Spec == Init /\ [][Next]_vars /\ WF_vars(Run)
-----------------------------------------------------------------------------
(* An embedded source exports what its application serves: the retained jobs
   of the log are replayed over a checkpoint that may already hold newer
   revisions than they do. *)
ExportIsActive == ToPostgres => LoadActive(saved, ready) = Documents(truth)

(* Progress on disk never runs ahead of the data: the destination holds every
   document of that source up to the recorded one, wherever the run died. *)
ProgressBehindData ==
    recorded # NoProgress =>
        /\ \A k \in 1..recorded.last \cap Keys :
             recorded.run[k] = None \/ Documents(dest)[k] # None
        /\ ~excused => \A k \in 1..recorded.last \cap Keys :
             recorded.run[k] = Documents(dest)[k]

(* A complete report is true of the disk: the destination holds the
   documents of the source's snapshot and no others.  The final audit of an
   embedded destination reads its memory. *)
ReportIsTrue == [][pc' = "done" => Documents(dest') = snapshot]_vars

(* The command can be repeated: after a death at any step it refuses to go
   on only if the source has changed or the destination was used before. *)
RefusedOnlyIfChanged == pc = "refused" => excused

(* A run can be resumed after a death at any step: what it finds recorded is
   in the destination, and it is not turned away by its own traces. *)
ResumeInv == ProgressBehindData /\ RefusedOnlyIfChanged

(* Every started command comes to an end. *)
CommandEnds == (pc = "reconcile") ~> (pc \in {"done", "refused", "idle"})
=============================================================================
