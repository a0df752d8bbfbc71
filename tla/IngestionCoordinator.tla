------------------------ MODULE IngestionCoordinator ------------------------
(***************************************************************************)
(* The embedded ingestion runtime: IngestionCoordinator (job table, queue, *)
(* worker threads, revisions), the durable job store it persists to, the   *)
(* revisioned backend it publishes to, and the checkpoint that lets the    *)
(* job log be compacted.  A process may crash at any step and reopen from  *)
(* the checkpoint file and the job log.                                    *)
(*                                                                         *)
(* Every action is one critical section of coordinator.cpp (mutex_), one   *)
(* step of recover(), or one step of checkpoint_embedded().  The job log   *)
(* is seen through load_latest(): the last record of each job.  Frames and *)
(* torn tails are the subject of module JobLog.                            *)
(***************************************************************************)
EXTENDS Naturals, Sequences, FiniteSets

CONSTANTS
    Doc,             \* document keys
    Hash,            \* content fingerprints a caller may submit
    NoDoc,           \* the value of a deleted or absent document
    NoJob,           \* an unused slot of the job table or of the log
    Worker,          \* threads of worker_loop()
    Client,          \* threads calling submit(), erase() and checkpoint()
    Main,            \* the thread inside open()
    QueueCapacity,   \* CoordinatorConfig::queue_capacity
    MaxTerminalJobs, \* JobRetentionPolicy::max_terminal_jobs
    AmpleBytes,      \* TRUE: max_terminal_bytes never binds
    CheckpointBy,    \* who takes checkpoints, a subset of CheckpointSource
    MaxJobs,         \* bound: jobs created in a behaviour
    MaxFaults,       \* bound: failed persist() calls in a behaviour
    MaxCrashes       \* bound: crashes in a behaviour

(* The on_ready callback, which takes the maintenance lock, and callers of *)
(* EmbeddedRuntime's checkpoint(), submit(), erase() and wait(), which do  *)
(* not.                                                                    *)
CheckpointSource == {"onReady", "caller"}

ASSUME ConstantsAssumption ==
    /\ NoDoc \notin Hash
    /\ Worker # {} /\ Main \notin Worker \cup Client
    /\ Worker \cap Client = {}
    /\ QueueCapacity \in Nat \ {0}
    /\ MaxTerminalJobs \in Nat
    /\ AmpleBytes \in BOOLEAN
    /\ CheckpointBy \subseteq CheckpointSource
    /\ MaxJobs \in Nat /\ MaxFaults \in Nat /\ MaxCrashes \in Nat

Thread == Worker \cup Client \cup {Main}
JobId == 1..MaxJobs
Value == Hash \cup {NoDoc}

Status == {"queued", "chunking", "embedding", "publishing",
           "ready", "failed", "superseded"}

(* terminal(JobStatus): cancelled is declared in the code but never set.   *)
terminal(status) == status \in {"ready", "failed", "superseded"}

(***************************************************************************)
(* IngestionJob.  val is content_hash, NoDoc for a deletion (whose hash is *)
(* the word "deleted" and equals no fingerprint).  content and prepared    *)
(* say whether the record still carries its source text and its prepared   *)
(* document; revisions grow by one per job, so MaxJobs bounds them.        *)
(***************************************************************************)
Job == [doc : Doc, rev : 1..MaxJobs, val : Value, status : Status,
        content : BOOLEAN, prepared : BOOLEAN]

ASSUME NoJobAssumption == NoJob \notin Job

IsErase(job) == job.val = NoDoc

(* A document in the backend: latest revision (0: none) and live value.    *)
Version == [rev : 0..MaxJobs, val : Value]
Absent == [rev |-> 0, val |-> NoDoc]

Phase == {"down", "recovering", "running", "stopping", "refused"}
Up == {"recovering", "running", "stopping"}

CheckpointPc == {"capture", "save", "truncate"}
Pc == {"idle", "begin", "chunking", "embedding", "publishing", "publish",
       "ready", "failJob", "failVolatile", "onReady", "waiting"}
        \cup CheckpointPc

VARIABLES
    phase,       \* life cycle of the process
    jobs,        \* jobs_
    latestRev,   \* latest_revision_, 0 when the document has none
    latestJob,   \* latest_job_, 0 when the document has none
    queue,       \* queue_
    pc, cur,     \* per thread: next critical section, job it works on
    toRecover,   \* recover(): jobs whose record is still to be rewritten
    deletions,   \* recover(): recovery_deletions
    backend,     \* EmbeddedBackend: latest_revisions_ and active documents
    ckptPos,     \* per thread: represented_position, as the log it stands for
    ckptSnap,    \* per thread: the backend state captured for the checkpoint
    log,         \* durable: last record of each job in the job log
    ckptFile,    \* durable: the published checkpoint
    acked,       \* history: last version some caller could see as ready
    nextId,      \* job ids handed out so far
    faults, crashes

volatile == <<jobs, latestRev, latestJob, queue, pc, cur, toRecover,
              deletions, backend, ckptPos, ckptSnap>>
durable == <<log, ckptFile>>
vars == <<phase, volatile, durable, acked, nextId, faults, crashes>>

TypeOK ==
    /\ phase \in Phase
    /\ jobs \in [JobId -> Job \cup {NoJob}]
    /\ latestRev \in [Doc -> 0..MaxJobs]
    /\ latestJob \in [Doc -> 0..MaxJobs]
    /\ queue \in Seq(JobId)
    /\ pc \in [Thread -> Pc]
    /\ cur \in [Thread -> 0..MaxJobs]
    /\ toRecover \subseteq JobId
    /\ deletions \subseteq JobId
    /\ backend \in [Doc -> Version]
    /\ ckptPos \in [Thread -> [JobId -> Job \cup {NoJob}]]
    /\ ckptSnap \in [Thread -> [Doc -> Version]]
    /\ log \in [JobId -> Job \cup {NoJob}]
    /\ ckptFile \in [Doc -> Version]
    /\ acked \in [Doc -> Version]
    /\ nextId \in 0..MaxJobs
    /\ faults \in 0..MaxFaults
    /\ crashes \in 0..MaxCrashes

-----------------------------------------------------------------------------
(* Initial and cleared states                                              *)

NoJobs == [id \in JobId |-> NoJob]
NoVersions == [d \in Doc |-> Absent]

(* What a process holds before open() and after it is gone.                *)
VolatileCleared ==
    /\ jobs' = NoJobs
    /\ latestRev' = [d \in Doc |-> 0]
    /\ latestJob' = [d \in Doc |-> 0]
    /\ queue' = <<>>
    /\ pc' = [t \in Thread |-> "idle"]
    /\ cur' = [t \in Thread |-> 0]
    /\ toRecover' = {}
    /\ deletions' = {}
    /\ backend' = NoVersions
    /\ ckptPos' = [t \in Thread |-> NoJobs]
    /\ ckptSnap' = [t \in Thread |-> NoVersions]

Init ==
    /\ phase = "down"
    /\ jobs = NoJobs
    /\ latestRev = [d \in Doc |-> 0]
    /\ latestJob = [d \in Doc |-> 0]
    /\ queue = <<>>
    /\ pc = [t \in Thread |-> "idle"]
    /\ cur = [t \in Thread |-> 0]
    /\ toRecover = {}
    /\ deletions = {}
    /\ backend = NoVersions
    /\ ckptPos = [t \in Thread |-> NoJobs]
    /\ ckptSnap = [t \in Thread |-> NoVersions]
    /\ log = NoJobs
    /\ ckptFile = NoVersions
    /\ acked = NoVersions
    /\ nextId = 0
    /\ faults = 0
    /\ crashes = 0

-----------------------------------------------------------------------------
(* The job store and the backend, as the coordinator uses them             *)

(* persist() succeeds: the frame is appended and synced.                   *)
Persist(newLog) == log' = newLog /\ faults' = faults

(* persist() reports an error: nothing of the record is in the log, or all *)
(* of it is and only the fsync failed.                                     *)
PersistFails(oldLog, newLog) ==
    /\ faults < MaxFaults
    /\ faults' = faults + 1
    /\ log' \in {oldLog, newLog}

(* Mutant: the backend takes whatever revision arrives.                    *)
AcceptsAnything(version, job) == TRUE

(* activate() and erase() accept a newer revision, and the current one if  *)
(* it has the same effect; anything else is "document revision is stale".  *)
Accepts(version, job) ==
    \/ job.rev > version.rev
    \/ job.rev = version.rev /\ job.val = version.val

Published(job) == [rev |-> job.rev, val |-> job.val]

-----------------------------------------------------------------------------
(* open() and recover()                                                    *)

Records(d) == {id \in JobId : log[id] # NoJob /\ log[id].doc = d}
ReadyRecords(d) == {id \in Records(d) : log[id].status = "ready"}

(* Mutant: the first record met wins instead of the newest.                *)
IsOldestRecord(d, id) ==
    \/ id = 0 /\ Records(d) = {}
    \/ /\ id \in Records(d)
       /\ \A other \in Records(d) : other >= id

(* latest_job_ after load_latest(), 0 when the document has no record: the *)
(* highest revision, the oldest job on a tie.                              *)
IsLatestRecord(d, id) ==
    \/ id = 0 /\ Records(d) = {}
    \/ /\ id \in Records(d)
       /\ \A other \in Records(d) :
            \/ log[other].rev < log[id].rev
            \/ log[other].rev = log[id].rev /\ other >= id

(* Mutant: the comparison that keeps the newest ready record is reversed.  *)
IsOldestReady(d, id) ==
    \/ id = 0 /\ ReadyRecords(d) = {}
    \/ /\ id \in ReadyRecords(d)
       /\ \A other \in ReadyRecords(d) : log[other].rev >= log[id].rev

(* active_ready of one document, 0 when it has none.                       *)
IsActiveReady(d, id) ==
    \/ id = 0 /\ ReadyRecords(d) = {}
    \/ /\ id \in ReadyRecords(d)
       /\ \A other \in ReadyRecords(d) : log[other].rev <= log[id].rev

(* The ready record is replayed into the backend the checkpoint restored.  *)
Replayable(d, id) ==
    id # 0 => /\ Accepts(ckptFile[d], log[id])
              /\ IsErase(log[id]) \/ log[id].prepared

(* recover() up to the loop over nonterminal jobs: restore the checkpoint, *)
(* load the log, replay the newest ready record of every document.         *)
Open ==
    /\ phase = "down"
    /\ \E ready \in [Doc -> 0..MaxJobs] :
        /\ \A d \in Doc : IsActiveReady(d, ready[d])
        /\ \A d \in Doc : Replayable(d, ready[d])
        /\ backend' = [d \in Doc |-> IF ready[d] = 0 THEN ckptFile[d]
                                     ELSE Published(log[ready[d]])]
    /\ \E latest \in [Doc -> 0..MaxJobs] :
        /\ \A d \in Doc : IsLatestRecord(d, latest[d])
        /\ latestJob' = latest
        /\ latestRev' = [d \in Doc |-> IF latest[d] = 0 THEN 0
                                       ELSE log[latest[d]].rev]
    /\ phase' = "recovering"
    /\ jobs' = log
    /\ toRecover' = {id \in JobId : log[id] # NoJob /\ ~terminal(log[id].status)}
    /\ UNCHANGED <<queue, pc, cur, deletions, ckptPos, ckptSnap, durable,
                   acked, nextId, faults, crashes>>

(* A replay error makes recover(), and so open(), fail.                    *)
OpenRefused ==
    /\ phase = "down"
    /\ \E d \in Doc, id \in JobId : IsActiveReady(d, id) /\ ~Replayable(d, id)
    /\ phase' = "refused"
    /\ UNCHANGED <<volatile, durable, acked, nextId, faults, crashes>>

(* One iteration of the loop over nonterminal jobs, in hash-table order.   *)
RecoveredJob(job) ==
    IF latestRev[job.doc] # job.rev
    THEN [job EXCEPT !.status = "superseded"]
    ELSE [job EXCEPT !.status = "queued", !.prepared = FALSE]

(* Mutant: recovery forgets to enqueue the upserts it found unfinished.    *)
RecoverJobUnqueued(id) ==
    /\ phase = "recovering"
    /\ id \in toRecover
    /\ LET job == RecoveredJob(jobs[id]) IN
        /\ jobs' = [jobs EXCEPT ![id] = job]
        /\ Persist([log EXCEPT ![id] = job])
        /\ deletions' = IF terminal(job.status) \/ ~IsErase(job) THEN deletions
                        ELSE deletions \cup {id}
    /\ toRecover' = toRecover \ {id}
    /\ UNCHANGED <<phase, latestRev, latestJob, queue, pc, cur, backend, ckptPos,
                   ckptSnap, ckptFile, acked, nextId, crashes>>

RecoverJob(id) ==
    /\ phase = "recovering"
    /\ id \in toRecover
    /\ LET job == RecoveredJob(jobs[id]) IN
        /\ jobs' = [jobs EXCEPT ![id] = job]
        /\ Persist([log EXCEPT ![id] = job])
        /\ IF terminal(job.status)
           THEN UNCHANGED <<queue, deletions>>
           ELSE IF IsErase(job)
           THEN deletions' = deletions \cup {id} /\ queue' = queue
           ELSE queue' = Append(queue, id) /\ deletions' = deletions
    /\ toRecover' = toRecover \ {id}
    /\ UNCHANGED <<phase, latestRev, latestJob, pc, cur, backend, ckptPos,
                   ckptSnap, ckptFile, acked, nextId, crashes>>

(* persist() fails inside recover(): open() fails and the process is gone. *)
RecoverJobFails(id) ==
    /\ phase = "recovering"
    /\ id \in toRecover
    /\ PersistFails(log, [log EXCEPT ![id] = RecoveredJob(jobs[id])])
    /\ phase' = "down"
    /\ VolatileCleared
    /\ UNCHANGED <<ckptFile, acked, nextId, crashes>>

(* recover() executes the pending deletions itself, one after the other.   *)
ExecuteDeletion(id) ==
    /\ phase = "recovering" /\ toRecover = {}
    /\ id \in deletions
    /\ pc[Main] = "idle"
    /\ deletions' = deletions \ {id}
    /\ pc' = [pc EXCEPT ![Main] = "begin"]
    /\ cur' = [cur EXCEPT ![Main] = id]
    /\ UNCHANGED <<phase, jobs, latestRev, latestJob, queue, toRecover, backend,
                   ckptPos, ckptSnap, durable, acked, nextId, faults, crashes>>

(* open() spawns the workers.                                              *)
StartWorkers ==
    /\ phase = "recovering" /\ toRecover = {} /\ deletions = {}
    /\ pc[Main] = "idle"
    /\ phase' = "running"
    /\ UNCHANGED <<volatile, durable, acked, nextId, faults, crashes>>

-----------------------------------------------------------------------------
(* submit(), erase() and wait()                                            *)

(* Mutant: the new job takes the current revision, not the next one.       *)
NewJobSameRevision(d, v) ==
    [doc |-> d, rev |-> latestRev[d], val |-> v, status |-> "queued",
     content |-> v # NoDoc, prepared |-> FALSE]

NewJob(d, v) ==
    [doc |-> d, rev |-> latestRev[d] + 1, val |-> v, status |-> "queued",
     content |-> v # NoDoc, prepared |-> FALSE]

Superseded(job) ==
    [job EXCEPT !.status = "superseded", !.content = FALSE, !.prepared = FALSE]

(* Mutant: the previous job is superseded even when it is finished.        *)
PendingOrFinished(d) == {id \in JobId : id = latestJob[d] /\ jobs[id] # NoJob}

(* The pending job that a new job of document d supersedes, if there is one.*)
Pending(d) ==
    {id \in JobId : id = latestJob[d] /\ jobs[id] # NoJob
                        /\ ~terminal(jobs[id].status)}

WithCreated(table, id, job) == [table EXCEPT ![id] = job]
WithSuperseded(table, d) ==
    [id \in JobId |-> IF id \in Pending(d) THEN Superseded(jobs[id])
                      ELSE table[id]]

(* The shared part of submit() and erase(): persist the created record,    *)
(* then the superseded one, then make the new job the latest.              *)
Create(d, v) ==
    LET id == nextId + 1
        job == NewJob(d, v)
    IN  /\ nextId < MaxJobs
        /\ nextId' = id
        /\ Persist(WithSuperseded(WithCreated(log, id, job), d))
        /\ jobs' = WithSuperseded(WithCreated(jobs, id, job), d)
        /\ latestRev' = [latestRev EXCEPT ![d] = job.rev]
        /\ latestJob' = [latestJob EXCEPT ![d] = id]

(* One of the two persist() calls fails and the request is refused; what   *)
(* was appended before stays in the log.                                   *)
CreateFails(d, v) ==
    LET id == nextId + 1
        created == WithCreated(log, id, NewJob(d, v))
    IN  /\ phase = "running"
        /\ nextId < MaxJobs
        /\ nextId' = id
        /\ \/ PersistFails(log, created)
           \/ /\ Pending(d) # {}
              /\ PersistFails(created, WithSuperseded(created, d))
        /\ UNCHANGED <<phase, volatile, ckptFile, acked, crashes>>

(* submit() neither returns "unchanged" nor joins a pending identical job. *)
Fresh(d, h) ==
    \A id \in JobId :
        id = latestJob[d] /\ jobs[id] # NoJob /\ jobs[id].val = h
            => jobs[id].status \in {"failed", "superseded"}

SubmitAsync(c, d, h) ==
    /\ phase = "running" /\ pc[c] = "idle"
    /\ Fresh(d, h)
    /\ Len(queue) < QueueCapacity
    /\ Create(d, h)
    /\ queue' = Append(queue, nextId + 1)
    /\ UNCHANGED <<phase, pc, cur, toRecover, deletions, backend, ckptPos,
                   ckptSnap, ckptFile, acked, crashes>>

(* A caller starts execute() on its own thread.                            *)
CallerExecutes(c, d, v) ==
    /\ phase = "running" /\ pc[c] = "idle"
    /\ Create(d, v)
    /\ pc' = [pc EXCEPT ![c] = "begin"]
    /\ cur' = [cur EXCEPT ![c] = nextId + 1]
    /\ UNCHANGED <<phase, queue, toRecover, deletions, backend, ckptPos,
                   ckptSnap, ckptFile, acked, crashes>>

SubmitSync(c, d, h) == Fresh(d, h) /\ CallerExecutes(c, d, h)

Erase(c, d) == CallerExecutes(c, d, NoDoc)

(* wait(): sleep until the job is terminal or the coordinator stops.       *)
Wait(c, id) ==
    /\ phase = "running" /\ pc[c] = "idle"
    /\ jobs[id] # NoJob /\ ~terminal(jobs[id].status)
    /\ cur' = [cur EXCEPT ![c] = id]
    /\ pc' = [pc EXCEPT ![c] = "waiting"]
    /\ UNCHANGED <<phase, jobs, latestRev, latestJob, queue, toRecover,
                   deletions, backend, ckptPos, ckptSnap, durable, acked,
                   nextId, faults, crashes>>

(* A synchronous submit of what is already pending waits for that job.     *)
SubmitJoins(c, d, h) ==
    \E id \in Pending(d) : jobs[id].val = h /\ Wait(c, id)

(* Thread t returns from execute(), wait() or a checkpoint.                *)
Finish(t) == pc' = [pc EXCEPT ![t] = "idle"] /\ cur' = [cur EXCEPT ![t] = 0]
Goto(t, next) == pc' = [pc EXCEPT ![t] = next] /\ UNCHANGED cur

(* Mutant: the wait condition forgets that the coordinator is stopping.    *)
WaitIgnoresShutdown(t) ==
    /\ pc[t] = "waiting"
    /\ terminal(jobs[cur[t]].status)
    /\ Finish(t)
    /\ UNCHANGED <<phase, jobs, latestRev, latestJob, queue, toRecover,
                   deletions, backend, ckptPos, ckptSnap, durable, acked,
                   nextId, faults, crashes>>

WaitReturns(t) ==
    /\ pc[t] = "waiting"
    /\ terminal(jobs[cur[t]].status) \/ phase = "stopping"
    /\ Finish(t)
    /\ UNCHANGED <<phase, jobs, latestRev, latestJob, queue, toRecover,
                   deletions, backend, ckptPos, ckptSnap, durable, acked,
                   nextId, faults, crashes>>

-----------------------------------------------------------------------------
(* execute()                                                               *)

(* Mutant: a finished job drops its prepared document with its text.       *)
AdvancedUnprepared(job, status) ==
    IF latestRev[job.doc] # job.rev THEN Superseded(job)
    ELSE [job EXCEPT
            !.status = status,
            !.content = @ /\ ~terminal(status),
            !.prepared = ~terminal(status) /\ (@ \/ status = "publishing")]

(* What transition() makes of a nonterminal job.                           *)
Advanced(job, status) ==
    IF latestRev[job.doc] # job.rev THEN Superseded(job)
    ELSE [job EXCEPT
            !.status = status,
            !.content = @ /\ ~terminal(status),
            !.prepared = \/ status \in {"publishing", "ready"} /\ ~IsErase(job)
                         \/ @ /\ status # "failed"]

(* A ready job is visible to every caller of get(), wait() and submit().   *)
Acknowledge(job) ==
    acked' = IF job.status = "ready" /\ job.rev >= acked[job.doc].rev
             THEN [acked EXCEPT ![job.doc] = Published(job)]
             ELSE acked

(* transition(): memory follows the log; an error leaves memory unchanged. *)
transition(t, status, next) ==
    LET id == cur[t]
        job == Advanced(jobs[id], status)
        newLog == [log EXCEPT ![id] = job]
    IN  /\ \/ /\ terminal(jobs[id].status)
              /\ Finish(t)
              /\ UNCHANGED <<jobs, log, acked, faults>>
           \/ /\ ~terminal(jobs[id].status)
              /\ Persist(newLog)
              /\ jobs' = [jobs EXCEPT ![id] = job]
              /\ Acknowledge(job)
              /\ IF job.status = status /\ next # "idle"
                 THEN Goto(t, next) ELSE Finish(t)
           \/ /\ ~terminal(jobs[id].status)
              /\ PersistFails(log, newLog)
              /\ Goto(t, "failVolatile")
              /\ UNCHANGED <<jobs, acked>>
        /\ UNCHANGED <<phase, latestRev, latestJob, queue, toRecover, deletions,
                       backend, ckptPos, ckptSnap, ckptFile, nextId, crashes>>

(* Steps of a thread that only move it to another place of execute().      *)
Moves(t, next) ==
    /\ IF next = "idle" THEN Finish(t) ELSE Goto(t, next)
    /\ UNCHANGED <<phase, jobs, latestRev, latestJob, queue, toRecover,
                   deletions, backend, ckptPos, ckptSnap, durable, acked,
                   nextId, faults, crashes>>

Begin(t) ==
    /\ pc[t] = "begin"
    /\ Moves(t, IF terminal(jobs[cur[t]].status) THEN "idle"
                ELSE IF IsErase(jobs[cur[t]]) THEN "publishing" ELSE "chunking")

Chunking(t) == pc[t] = "chunking" /\ transition(t, "chunking", "embedding")

(* prepare_chunks() outside the lock, then transition(embedding).          *)
Embedding(t) == pc[t] = "embedding" /\ transition(t, "embedding", "publishing")

(* embed_document() outside the lock, then transition(publishing); a       *)
(* deletion comes here straight from the beginning of execute().           *)
Publishing(t) == pc[t] = "publishing" /\ transition(t, "publishing", "publish")

(* prepare_chunks() or embed_document() reports an error.                  *)
PreparationFails(t) ==
    /\ \/ pc[t] = "embedding"
       \/ pc[t] = "publishing" /\ ~IsErase(jobs[cur[t]])
    /\ Moves(t, "failJob")

(* The check an upsert repeats under the lock before it activates; a       *)
(* deletion goes to the backend without it.                                *)
StillCurrent(job) ==
    \/ IsErase(job)
    \/ ~terminal(job.status) /\ latestRev[job.doc] = job.rev

Publish(t) ==
    LET job == jobs[cur[t]] IN
    /\ pc[t] = "publish"
    /\ StillCurrent(job)
    /\ Accepts(backend[job.doc], job)
    /\ backend' = [backend EXCEPT ![job.doc] = Published(job)]
    /\ Goto(t, "ready")
    /\ UNCHANGED <<phase, jobs, latestRev, latestJob, queue, toRecover, deletions,
                   ckptPos, ckptSnap, durable, acked, nextId, faults, crashes>>

PublishSkipped(t) ==
    /\ pc[t] = "publish"
    /\ ~StillCurrent(jobs[cur[t]])
    /\ Moves(t, "idle")

(* The backend refuses: a stale revision, or a newer document it cannot    *)
(* combine with the others (dimension, fingerprint, chunk limit).          *)
PublishRefused(t) ==
    LET job == jobs[cur[t]] IN
    /\ pc[t] = "publish"
    /\ StillCurrent(job)
    /\ \/ ~Accepts(backend[job.doc], job)
       \/ ~IsErase(job) /\ job.rev > backend[job.doc].rev
    /\ Moves(t, "failJob")

Ready(t) == pc[t] = "ready" /\ transition(t, "ready", "onReady")

FailJob(t) == pc[t] = "failJob" /\ transition(t, "failed", "idle")

(* fail_volatile(): the job ends in memory only.                           *)
FailVolatile(t) ==
    LET job == jobs[cur[t]] IN
    /\ pc[t] = "failVolatile"
    /\ jobs' = IF terminal(job.status) THEN jobs
               ELSE [jobs EXCEPT ![cur[t]] =
                        [Superseded(job) EXCEPT !.status =
                            IF latestRev[job.doc] = job.rev THEN "failed"
                            ELSE "superseded"]]
    /\ Finish(t)
    /\ UNCHANGED <<phase, latestRev, latestJob, queue, toRecover, deletions,
                   backend, ckptPos, ckptSnap, durable, acked, nextId, faults,
                   crashes>>

(* on_ready with the log below the checkpoint threshold.                   *)
OnReady(t) == pc[t] = "onReady" /\ Moves(t, "idle")

(* Mutant: the worker reads the head of the queue and leaves it there.     *)
DequeueKeepsHead(w) ==
    /\ phase = "running" /\ pc[w] = "idle"
    /\ queue # <<>>
    /\ pc' = [pc EXCEPT ![w] = "begin"]
    /\ cur' = [cur EXCEPT ![w] = Head(queue)]
    /\ UNCHANGED <<phase, jobs, latestRev, latestJob, queue, toRecover,
                   deletions, backend, ckptPos, ckptSnap, durable, acked,
                   nextId, faults, crashes>>

(* worker_loop()                                                           *)
Dequeue(w) ==
    /\ phase = "running" /\ pc[w] = "idle"
    /\ queue # <<>>
    /\ pc' = [pc EXCEPT ![w] = "begin"]
    /\ cur' = [cur EXCEPT ![w] = Head(queue)]
    /\ queue' = Tail(queue)
    /\ UNCHANGED <<phase, jobs, latestRev, latestJob, toRecover, deletions,
                   backend, ckptPos, ckptSnap, durable, acked, nextId, faults,
                   crashes>>

-----------------------------------------------------------------------------
(* checkpoint_embedded()                                                   *)

(* A thread holds maintenance_lock when on_ready brought it here: it still *)
(* has its job in hand.  A caller that takes a checkpoint has none.        *)
HoldsMaintenanceLock(t) == pc[t] \in CheckpointPc /\ cur[t] # 0

(* A thread finds the log over the threshold, in on_ready or when its call *)
(* is done; it reads the position the log has now.                         *)
BeginCheckpoint(t) ==
    /\ \/ /\ "onReady" \in CheckpointBy
          /\ pc[t] = "onReady"
          /\ \A u \in Thread : ~HoldsMaintenanceLock(u)
       \/ /\ "caller" \in CheckpointBy
          /\ t \in Client /\ pc[t] = "idle" /\ phase = "running"
    /\ ckptPos' = [ckptPos EXCEPT ![t] = log]
    /\ Goto(t, "capture")
    /\ UNCHANGED <<phase, jobs, latestRev, latestJob, queue, toRecover,
                   deletions, backend, ckptSnap, durable, acked, nextId, faults,
                   crashes>>

(* EmbeddedBackend::checkpoint() takes its snapshot under writer_mutex_.   *)
CaptureCheckpoint(t) ==
    /\ pc[t] = "capture"
    /\ ckptSnap' = [ckptSnap EXCEPT ![t] = backend]
    /\ Goto(t, "save")
    /\ UNCHANGED <<phase, jobs, latestRev, latestJob, queue, toRecover,
                   deletions, backend, ckptPos, durable, acked, nextId, faults,
                   crashes>>

(* EmbeddedCheckpointStore::save(): an atomic rename.                      *)
SaveCheckpoint(t) ==
    /\ pc[t] = "save"
    /\ ckptFile' = ckptSnap[t]
    /\ Goto(t, "truncate")
    /\ UNCHANGED <<phase, jobs, latestRev, latestJob, queue, toRecover,
                   deletions, backend, ckptPos, ckptSnap, log, acked, nextId,
                   faults, crashes>>

EndCheckpoint(t) ==
    /\ Finish(t)
    /\ ckptPos' = [ckptPos EXCEPT ![t] = NoJobs]
    /\ ckptSnap' = [ckptSnap EXCEPT ![t] = NoVersions]

(* Writing the checkpoint or compacting the log reports an error.          *)
CheckpointFails(t) ==
    /\ pc[t] \in {"save", "truncate"}
    /\ EndCheckpoint(t)
    /\ UNCHANGED <<phase, jobs, latestRev, latestJob, queue, toRecover,
                   deletions, backend, durable, acked, nextId, faults, crashes>>

(* Mutant: the whole log is taken for the prefix, not what the position    *)
(* covers.                                                                 *)
AllTerminal(position) ==
    {id \in JobId : log[id] # NoJob /\ terminal(log[id].status)}

(* truncate_prefix(): every record after the position, every nonterminal   *)
(* job of the prefix, and a bounded history of its terminal jobs.  Which   *)
(* of them are kept depends on time stamps and frame sizes.                *)
PrefixTerminal(position) ==
    {id \in JobId : log[id] # NoJob /\ log[id] = position[id]
                        /\ terminal(log[id].status)}

RetainedHistories(history) ==
    {kept \in SUBSET history :
        /\ Cardinality(kept) <= MaxTerminalJobs
        /\ AmpleBytes => \/ Cardinality(kept) = MaxTerminalJobs
                         \/ kept = history}

TruncatePrefix(t) ==
    LET history == PrefixTerminal(ckptPos[t]) IN
    /\ pc[t] = "truncate"
    /\ \E kept \in RetainedHistories(history) :
        log' = [id \in JobId |-> IF id \in history \ kept THEN NoJob ELSE log[id]]
    /\ EndCheckpoint(t)
    /\ UNCHANGED <<phase, jobs, latestRev, latestJob, queue, toRecover,
                   deletions, backend, ckptFile, acked, nextId, faults, crashes>>

-----------------------------------------------------------------------------
(* The end of the process                                                  *)

(* shutdown(): no new work; workers finish the job they hold.              *)
Shutdown ==
    /\ phase = "running"
    /\ crashes < MaxCrashes
    /\ crashes' = crashes + 1
    /\ phase' = "stopping"
    /\ UNCHANGED <<volatile, durable, acked, nextId, faults>>

(* The workers are joined, the queue is cleared, the runtime destroyed.    *)
Stopped ==
    /\ phase = "stopping"
    /\ \A t \in Thread : pc[t] = "idle"
    /\ phase' = "down"
    /\ VolatileCleared
    /\ UNCHANGED <<durable, acked, nextId, faults, crashes>>

Crash ==
    /\ phase \in Up
    /\ crashes < MaxCrashes
    /\ crashes' = crashes + 1
    /\ phase' = "down"
    /\ VolatileCleared
    /\ UNCHANGED <<durable, acked, nextId, faults>>

-----------------------------------------------------------------------------
Recovering ==
    \/ Open \/ OpenRefused
    \/ \E id \in JobId : RecoverJob(id) \/ ExecuteDeletion(id)
    \/ StartWorkers

Execute(t) ==
    \/ Begin(t) \/ Chunking(t) \/ Embedding(t) \/ Publishing(t)
    \/ PreparationFails(t)
    \/ Publish(t) \/ PublishSkipped(t) \/ PublishRefused(t)
    \/ Ready(t) \/ FailJob(t) \/ FailVolatile(t) \/ OnReady(t)
    \/ WaitReturns(t)
    \/ CaptureCheckpoint(t) \/ SaveCheckpoint(t) \/ CheckpointFails(t)
    \/ TruncatePrefix(t)

Request(c) ==
    \E d \in Doc :
        \/ \E h \in Hash : SubmitAsync(c, d, h) \/ SubmitSync(c, d, h)
                            \/ SubmitJoins(c, d, h)
        \/ Erase(c, d)
        \/ \E v \in Value : /\ pc[c] = "idle" /\ (v = NoDoc \/ Fresh(d, v))
                           /\ CreateFails(d, v)
        \/ \E id \in JobId : Wait(c, id)

Next ==
    \/ Recovering
    \/ \E id \in JobId : RecoverJobFails(id)
    \/ \E t \in Thread : Execute(t) \/ BeginCheckpoint(t)
    \/ \E w \in Worker : Dequeue(w)
    \/ \E c \in Client : Request(c)
    \/ Shutdown \/ Stopped \/ Crash

Spec == Init /\ [][Next]_vars

(* The operating system runs every thread, and the service is restarted    *)
(* after it went down.  Nobody has to send requests or take checkpoints.   *)
Fairness ==
    /\ WF_vars(Recovering)
    /\ WF_vars(Stopped)
    /\ \A t \in Thread : WF_vars(Execute(t))
    /\ \A w \in Worker : WF_vars(Dequeue(w))

FairSpec == Spec /\ Fairness

-----------------------------------------------------------------------------
(* Properties                                                              *)

(* Version new is at least as recent as version old.                       *)
Covers(new, old) == new.rev > old.rev \/ new = old

(* A version that get(), wait() or submit() could report as ready is still *)
(* recoverable from what is on disk, whatever crash, failed append or log  *)
(* compaction comes next: "The server must never report a successful       *)
(* durable write if the document cannot be recovered after restart".       *)
DurableAck ==
    \A d \in Doc :
        \/ Covers(ckptFile[d], acked[d])
        \/ \E id \in ReadyRecords(d) : Covers(Published(log[id]), acked[d])

(* Once open() has returned, searches see every acknowledged version or a  *)
(* newer one: recovery resurrects neither a replaced nor a deleted         *)
(* document.                                                               *)
NoResurrection ==
    phase \in Up =>
        \A d \in Doc : Covers(backend[d], acked[d])

(* open() never fails on a log and a checkpoint that this program wrote:   *)
(* the replay of ready records meets neither a stale revision nor a ready  *)
(* record without its prepared document.                                   *)
RecoveryAccepted == phase # "refused"

(* A job that is still the newest of its document is never turned away by  *)
(* the backend as stale: the revisions of the coordinator and of the       *)
(* backend agree after every recovery.                                     *)
NeverStale ==
    \A t \in Thread :
        pc[t] = "publish" /\ ~terminal(jobs[cur[t]].status)
                /\ latestRev[jobs[cur[t]].doc] = jobs[cur[t]].rev
            => Accepts(backend[jobs[cur[t]].doc], jobs[cur[t]])

(* When the newest job of a document is ready, the backend serves exactly  *)
(* what it published: a superseded job never overwrites it.                *)
ServesLatestReady ==
    phase \in Up =>
        \A d \in Doc : \A id \in JobId :
            id = latestJob[d] /\ jobs[id] # NoJob /\ jobs[id].status = "ready"
                => backend[d] = Published(jobs[id])

(* Places from which a nonterminal job will be worked on.                  *)
Holders(id) ==
    {<<"queue", i>> : i \in {k \in DOMAIN queue : queue[k] = id}}
    \cup {<<"thread", t>> : t \in {u \in Thread : cur[u] = id
                                    /\ pc[u] \notin {"waiting", "idle"}}}
    \cup {<<"recover", id>> : i \in toRecover \cap {id}}
    \cup {<<"delete", id>> : i \in deletions \cap {id}}

(* No job is orphaned and none is executed twice: until shutdown() every   *)
(* nonterminal job is in exactly one place that will execute it.           *)
JobsHeldOnce ==
    phase \in {"recovering", "running"} =>
        \A id \in JobId : jobs[id] # NoJob /\ ~terminal(jobs[id].status)
            => Cardinality(Holders(id)) = 1

(* Submitting or deleting supersedes the pending work of the document: no  *)
(* two nonterminal jobs of one document live side by side, and the one     *)
(* that lives can be executed again after a crash, because its source text *)
(* is still in the log.                                                    *)
OnePendingJob ==
    \A id \in JobId : log[id] # NoJob /\ ~terminal(log[id].status) =>
        /\ log[id].content \/ IsErase(log[id])
        /\ phase = "running" => id = latestJob[log[id].doc]

(* An embedding or publication failure leaves the previous version active: *)
(* no search sees the document of a job that is reported as failed.        *)
FailedStaysInvisible ==
    \A id \in JobId : jobs[id] # NoJob /\ jobs[id].status = "failed"
        => backend[jobs[id].doc] # Published(jobs[id])

(* Coordinator and backend agree on what a document's newest job may do:   *)
(* it is never turned away, and what failed is never served.               *)
BackendAgrees == NeverStale /\ FailedStaysInvisible

(* Every unfinished job will be executed once, and is the only unfinished  *)
(* one of its document.                                                    *)
WorkHeldOnce == JobsHeldOnce /\ OnePendingJob

(* The durable outcome of a job is final: recovery, supersession and late  *)
(* threads never turn a terminal record into something else.               *)
OutcomeIsFinal ==
    [][\A id \in JobId : log[id] # NoJob /\ terminal(log[id].status)
            => log'[id] \in {log[id], NoJob}]_log

(* Every accepted job reaches a durable terminal state, across shutdowns   *)
(* and crashes.                                                            *)
JobsFinish ==
    \A id \in JobId :
        (log[id] # NoJob /\ ~terminal(log[id].status))
            ~> (log[id] = NoJob \/ terminal(log[id].status))

(* A caller of submit(), erase() or wait() gets its answer, also when the  *)
(* coordinator is shut down under it or somebody else executes the job.    *)
CallersReturn == \A c \in Client : (pc[c] # "idle") ~> (pc[c] = "idle")

-----------------------------------------------------------------------------
(* The inductive invariant behind DurableAck and NoResurrection, when      *)
(* every checkpoint is taken under the maintenance lock                    *)

(* Threads, queue and recovery lists refer to jobs that exist.             *)
References ==
    /\ \A t \in Thread : pc[t] # "idle"
            => cur[t] \in JobId /\ jobs[cur[t]] # NoJob
    /\ \A i \in DOMAIN queue : jobs[queue[i]] # NoJob
    /\ \A id \in toRecover : jobs[id] # NoJob /\ ~terminal(jobs[id].status)
    /\ \A id \in deletions : jobs[id] # NoJob
    /\ toRecover # {} => phase = "recovering" /\ \A t \in Thread : pc[t] = "idle"
    /\ phase \notin Up => /\ queue = <<>> /\ deletions = {}
                          /\ \A t \in Thread : pc[t] = "idle"

(* Ids not handed out are unused, and revisions never exceed the number of *)
(* jobs created nor, while the process runs, the coordinator's own count.  *)
Revisions ==
    /\ \A id \in JobId : id > nextId => jobs[id] = NoJob /\ log[id] = NoJob
    /\ \A id \in JobId : log[id] # NoJob => log[id].rev <= nextId
    /\ \A id \in JobId : jobs[id] # NoJob =>
            /\ jobs[id].rev <= nextId
            /\ jobs[id].rev <= latestRev[jobs[id].doc]
    /\ \A d \in Doc : latestRev[d] <= nextId

(* An acknowledged version is covered by the checkpoint or by a ready      *)
(* record that no thread will rewrite.                                     *)
AckRecorded ==
    \A d \in Doc :
        \/ Covers(ckptFile[d], acked[d])
        \/ \E id \in ReadyRecords(d) :
            /\ Covers(Published(log[id]), acked[d])
            /\ phase \in Up => jobs[id] # NoJob /\ terminal(jobs[id].status)

(* The running backend covers the checkpoint, the acknowledged versions    *)
(* and every ready record; two ready records of one revision agree.        *)
BackendCovers ==
    /\ phase \in Up => \A d \in Doc :
        /\ Covers(backend[d], acked[d])
        /\ Covers(backend[d], ckptFile[d])
        /\ \A id \in ReadyRecords(d) : Covers(backend[d], Published(log[id]))
    /\ \A d \in Doc : \A i, j \in ReadyRecords(d) :
        log[i].rev = log[j].rev => log[i].val = log[j].val

(* A thread about to report ready, whose job is the newest, sees its own   *)
(* version in the backend.                                                 *)
ReadyPublished ==
    \A t \in Thread :
        pc[t] = "ready" /\ jobs[cur[t]].rev = latestRev[jobs[cur[t]].doc]
            => backend[jobs[cur[t]].doc] = Published(jobs[cur[t]])

(* What a checkpoint in progress has to cover before the log may lose      *)
(* records up to its position.                                             *)
PositionCoveredBy(position, versions) ==
    \A id \in JobId : position[id] # NoJob /\ position[id].status = "ready"
        => Covers(versions[position[id].doc], Published(position[id]))

CheckpointCovers ==
    /\ \A t, u \in Thread :
        pc[t] \in CheckpointPc /\ pc[u] \in CheckpointPc => t = u
    /\ \A t \in Thread :
        /\ pc[t] = "capture" => PositionCoveredBy(ckptPos[t], backend)
        /\ pc[t] = "save" =>
            /\ PositionCoveredBy(ckptPos[t], ckptSnap[t])
            /\ \A d \in Doc : /\ Covers(backend[d], ckptSnap[t][d])
                              /\ Covers(ckptSnap[t][d], ckptFile[d])
        /\ pc[t] = "truncate" => PositionCoveredBy(ckptPos[t], ckptFile)

DurabilityInv ==
    /\ TypeOK
    /\ References
    /\ Revisions
    /\ AckRecorded
    /\ BackendCovers
    /\ ReadyPublished
    /\ CheckpointCovers

=============================================================================
