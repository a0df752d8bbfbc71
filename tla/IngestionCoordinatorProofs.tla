--------------------- MODULE IngestionCoordinatorProofs ---------------------
(***************************************************************************)
(* Proofs about IngestionCoordinator for every set of documents, contents, *)
(* workers and clients, every bound, every retention policy, with failing  *)
(* appends, checkpoints and crashes: the type invariant, durability of     *)
(* acknowledged versions and their visibility after recovery.              *)
(***************************************************************************)
EXTENDS IngestionCoordinator, FiniteSetTheorems, TLAPS

-----------------------------------------------------------------------------
(* Records                                                                 *)

(* Superseded() yields a job of the same document, revision and value.     *)
LEMMA SupersededFacts ==
    ASSUME NEW job \in Job
    PROVE  /\ Superseded(job) \in Job
           /\ Superseded(job).doc = job.doc
           /\ Superseded(job).rev = job.rev
           /\ Superseded(job).val = job.val
           /\ Superseded(job).status = "superseded"
    BY DEF Superseded, Job, Status

(* What transition() writes keeps document, revision and value, and is     *)
(* ready only when ready was asked for and the job is still the newest.    *)
LEMMA AdvancedFacts ==
    ASSUME NEW job \in Job, NEW status \in Status, latestRev \in [Doc -> 0..MaxJobs]
    PROVE  /\ Advanced(job, status) \in Job
           /\ Advanced(job, status).doc = job.doc
           /\ Advanced(job, status).rev = job.rev
           /\ Advanced(job, status).val = job.val
           /\ Advanced(job, status).status \in {status, "superseded"}
           /\ Advanced(job, status).status = "ready" =>
                status = "ready" /\ latestRev[job.doc] = job.rev
    <1>1. CASE latestRev[job.doc] # job.rev
        BY <1>1, SupersededFacts DEF Advanced
    <1>2. CASE latestRev[job.doc] = job.rev
        BY <1>2 DEF Advanced, Job, Status, terminal, IsErase
    <1> QED BY <1>1, <1>2

(* What recover() writes for a nonterminal job is never a ready record.    *)
LEMMA RecoveredFacts ==
    ASSUME NEW job \in Job, latestRev \in [Doc -> 0..MaxJobs]
    PROVE  /\ RecoveredJob(job) \in Job
           /\ RecoveredJob(job).doc = job.doc
           /\ RecoveredJob(job).rev = job.rev
           /\ RecoveredJob(job).val = job.val
           /\ RecoveredJob(job).status \in {"queued", "superseded"}
    BY DEF RecoveredJob, Job, Status

(* The job submit() and erase() create.                                    *)
LEMMA NewJobFacts ==
    ASSUME NEW d \in Doc, NEW v \in Value,
           latestRev \in [Doc -> 0..MaxJobs], latestRev[d] < MaxJobs
    PROVE  /\ NewJob(d, v) \in Job
           /\ NewJob(d, v).doc = d
           /\ NewJob(d, v).rev = latestRev[d] + 1
           /\ NewJob(d, v).val = v
           /\ NewJob(d, v).status = "queued"
    BY ConstantsAssumption DEF NewJob, Job, Status

(* A published version is a version.                                       *)
LEMMA PublishedFacts ==
    ASSUME NEW job \in Job
    PROVE  /\ Published(job) \in Version
           /\ Published(job).rev = job.rev
           /\ Published(job).val = job.val
    BY ConstantsAssumption DEF Published, Version, Job

(* Covering is transitive, so that what covers a checkpoint's version covers
   what the checkpoint covered. *)
LEMMA CoversTransitive ==
    ASSUME NEW a \in Version, NEW b \in Version, NEW c \in Version,
           Covers(a, b), Covers(b, c)
    PROVE  Covers(a, c)
    BY ConstantsAssumption DEF Covers, Version

(* Versions of one revision that cover each other carry the same value.    *)
LEMMA CoversSameRevision ==
    ASSUME NEW a \in Version, NEW b \in Version, Covers(a, b), a.rev = b.rev
    PROVE  a.val = b.val
    BY ConstantsAssumption DEF Covers, Version

(* What the backend accepts covers what it had.                            *)
LEMMA AcceptsCovers ==
    ASSUME NEW version \in Version, NEW job \in Job, Accepts(version, job)
    PROVE  Covers(Published(job), version)
    BY ConstantsAssumption DEF Covers, Version, Job, Accepts, Published

(* queue_.push_back()                                                      *)
LEMMA AppendType ==
    ASSUME NEW s \in Seq(JobId), NEW id \in JobId
    PROVE  Append(s, id) \in Seq(JobId)
    OBVIOUS

(* queue_.pop_front()                                                      *)
LEMMA TailFacts ==
    ASSUME NEW s \in Seq(JobId), s # <<>>
    PROVE  /\ Tail(s) \in Seq(JobId)
           /\ \A i \in DOMAIN Tail(s) : \E j \in DOMAIN s : Tail(s)[i] = s[j]
    <1>1. /\ Tail(s) \in Seq(JobId) /\ Len(s) \in Nat
          /\ DOMAIN s = 1..Len(s) /\ DOMAIN Tail(s) = 1..(Len(s) - 1)
        OBVIOUS
    <1>2. \A i \in 1..(Len(s) - 1) : Tail(s)[i] = s[i + 1] /\ i + 1 \in 1..Len(s)
        BY <1>1
    <1> QED BY <1>1, <1>2

-----------------------------------------------------------------------------
(* Steps that only move a thread                                           *)

(* Facts about a thread that has a job in hand.                            *)
LEMMA WorkingJob ==
    ASSUME DurabilityInv, NEW t \in Thread, pc[t] # "idle"
    PROVE  /\ cur[t] \in JobId
           /\ jobs[cur[t]] \in Job
           /\ phase \in Up
    BY DEF DurabilityInv, References, TypeOK

(* Returning, or going on without touching shared state, breaks nothing    *)
(* as long as the thread does not enter "ready" or a checkpoint.           *)
LEMMA PcStep ==
    ASSUME DurabilityInv, NEW t \in Thread,
           pc[t] # "idle",
           NEW next \in Pc \ (CheckpointPc \cup {"ready"}),
           IF next = "idle" THEN Finish(t) ELSE Goto(t, next),
           UNCHANGED <<phase, jobs, latestRev, latestJob, queue, toRecover,
                       deletions, backend, ckptPos, ckptSnap, durable, acked,
                       nextId, faults, crashes>>
    PROVE  DurabilityInv'
    <1> USE DEF durable
    <1>0. /\ pc' = [pc EXCEPT ![t] = next]
          /\ cur' = cur \/ (next = "idle" /\ cur' = [cur EXCEPT ![t] = 0])
        BY DEF Finish, Goto
    <1>1. TypeOK'
        <2>1. pc' \in [Thread -> Pc]
            BY <1>0 DEF DurabilityInv, TypeOK
        <2>2. 0 \in 0..MaxJobs
            BY ConstantsAssumption
        <2>3. cur' \in [Thread -> 0..MaxJobs]
            BY <1>0, <2>2, Zenon DEF DurabilityInv, TypeOK
        <2> QED BY <2>1, <2>3 DEF DurabilityInv, TypeOK
    <1>2. References'
        <2>1. \A u \in Thread : pc'[u] # "idle"
                => cur'[u] \in JobId /\ jobs'[cur'[u]] # NoJob
            <3> SUFFICES ASSUME NEW u \in Thread, pc'[u] # "idle"
                         PROVE  cur'[u] \in JobId /\ jobs'[cur'[u]] # NoJob
                OBVIOUS
            <3>2. pc[u] # "idle" /\ cur'[u] = cur[u]
                BY <1>0 DEF DurabilityInv, TypeOK
            <3> QED BY <3>2 DEF DurabilityInv, References
        <2>2. phase \in Up
            BY DEF DurabilityInv, References
        <2> QED BY <2>1, <2>2 DEF DurabilityInv, References
    <1>3. Revisions'
        BY DEF DurabilityInv, Revisions
    <1>4. AckRecorded'
        BY DEF DurabilityInv, AckRecorded, ReadyRecords, Records
    <1>5. BackendCovers'
        BY DEF DurabilityInv, BackendCovers, ReadyRecords, Records
    <1>6. ReadyPublished'
        <2> SUFFICES ASSUME NEW u \in Thread, pc'[u] = "ready",
                            jobs[cur'[u]].rev = latestRev[jobs[cur'[u]].doc]
                     PROVE  backend[jobs[cur'[u]].doc] = Published(jobs[cur'[u]])
            BY DEF ReadyPublished
        <2>1. pc[u] = "ready" /\ cur'[u] = cur[u]
            BY <1>0 DEF DurabilityInv, TypeOK
        <2> QED BY <2>1 DEF DurabilityInv, ReadyPublished
    <1>7. CheckpointCovers'
        <2>1. \A u \in Thread : pc'[u] \in CheckpointPc => pc[u] = pc'[u]
            BY <1>0 DEF DurabilityInv, TypeOK
        <2> QED BY <2>1 DEF DurabilityInv, CheckpointCovers, PositionCoveredBy, CheckpointPc
    <1> QED BY <1>1, <1>2, <1>3, <1>4, <1>5, <1>6, <1>7 DEF DurabilityInv

-----------------------------------------------------------------------------
(* transition()                                                            *)

(* Rewriting the record of a nonterminal job, in the log only (a failed    *)
(* fsync) or in log and memory, and acknowledging it when it is ready.     *)
LEMMA RecordStep ==
    ASSUME DurabilityInv, NEW t \in Thread, pc[t] # "idle",
           NEW status \in Status, status = "ready" => pc[t] = "ready",
           NEW job, job = Advanced(jobs[cur[t]], status),
           ~terminal(jobs[cur[t]].status),
           NEW next \in Pc \ (CheckpointPc \cup {"ready"}),
           IF next = "idle" THEN Finish(t) ELSE Goto(t, next),
           log' \in {log, [log EXCEPT ![cur[t]] = job]},
           \/ jobs' = jobs /\ acked' = acked
           \/ /\ jobs' = [jobs EXCEPT ![cur[t]] = job]
              /\ log' = [log EXCEPT ![cur[t]] = job]
              /\ Acknowledge(job),
           faults' \in 0..MaxFaults,
           UNCHANGED <<phase, latestRev, latestJob, queue, toRecover, deletions,
                       backend, ckptPos, ckptSnap, ckptFile, nextId, crashes>>
    PROVE  DurabilityInv'
    <1> DEFINE id == cur[t]
               old == jobs[id]
    <1>a. /\ id \in JobId /\ old \in Job /\ phase \in Up
          /\ TypeOK /\ References /\ Revisions /\ AckRecorded /\ BackendCovers
          /\ ReadyPublished /\ CheckpointCovers
        BY WorkingJob DEF DurabilityInv
    <1>b. /\ job \in Job /\ job.doc = old.doc /\ job.rev = old.rev
          /\ job.val = old.val /\ job.status \in {status, "superseded"}
          /\ job.status = "ready" => /\ pc[t] = "ready"
                                    /\ latestRev[old.doc] = old.rev
        BY <1>a, AdvancedFacts DEF TypeOK
    <1>c. Published(job) = Published(old) /\ Published(job) \in Version
        BY <1>a, <1>b, PublishedFacts DEF Published
    <1>d. job # NoJob /\ old # NoJob
        BY <1>a, <1>b, NoJobAssumption
    <1>e. /\ pc' = [pc EXCEPT ![t] = next]
          /\ cur' = cur \/ (next = "idle" /\ cur' = [cur EXCEPT ![t] = 0])
        BY DEF Finish, Goto
    <1>f. /\ jobs' \in {jobs, [jobs EXCEPT ![id] = job]}
          /\ job.status = "ready" => backend[old.doc] = Published(job)
        BY <1>a, <1>b, <1>c DEF ReadyPublished
    <1>g. \A i \in JobId : /\ log'[i] = log[i] \/ (i = id /\ log'[i] = job)
                           /\ jobs'[i] = jobs[i] \/ (i = id /\ jobs'[i] = job)
        BY <1>a, <1>f DEF TypeOK
    <1>h. \/ acked' = acked
          \/ /\ acked' = [acked EXCEPT ![job.doc] = Published(job)]
             /\ job.status = "ready" /\ log'[id] = job /\ jobs'[id] = job
        BY <1>a DEF Acknowledge, TypeOK
    <1>i. \A d \in Doc : acked'[d] = acked[d] \/
            (/\ d = job.doc /\ acked'[d] = Published(job)
             /\ job.status = "ready" /\ log'[id] = job /\ jobs'[id] = job)
        BY <1>h, <1>a DEF TypeOK
    <1>1. TypeOK'
        <2>1. pc' \in [Thread -> Pc]
            BY <1>a, <1>e DEF TypeOK
        <2>2. 0 \in 0..MaxJobs
            BY ConstantsAssumption
        <2>3. cur' \in [Thread -> 0..MaxJobs]
            BY <1>a, <1>e, <2>2, Zenon DEF TypeOK
        <2>4. acked' \in [Doc -> Version]
            BY <1>a, <1>c, <1>h DEF TypeOK
        <2>5. /\ log \in [JobId -> Job \cup {NoJob}] /\ jobs \in [JobId -> Job \cup {NoJob}]
              /\ id \in JobId
            BY <1>a DEF TypeOK
        <2>6. jobs' \in [JobId -> Job \cup {NoJob}]
            BY <2>5, <1>b, <1>f
        <2>7. log' \in [JobId -> Job \cup {NoJob}]
            BY <2>5, <1>b
        <2> QED BY <1>a, <2>1, <2>3, <2>4, <2>6, <2>7 DEF TypeOK
    <1>2. References'
        <2>0. \A i \in JobId : jobs[i] # NoJob => jobs'[i] # NoJob
            BY <1>g, <1>d
        <2>1. \A u \in Thread : pc'[u] # "idle"
                => cur'[u] \in JobId /\ jobs'[cur'[u]] # NoJob
            <3> SUFFICES ASSUME NEW u \in Thread, pc'[u] # "idle"
                         PROVE  cur'[u] \in JobId /\ jobs'[cur'[u]] # NoJob
                OBVIOUS
            <3>2. pc[u] # "idle" /\ cur'[u] = cur[u]
                BY <1>e, <1>a DEF TypeOK
            <3> QED BY <1>a, <2>0, <3>2 DEF References
        <2>2. toRecover = {}
            BY <1>a DEF References
        <2>3. \A i \in DOMAIN queue : queue[i] \in JobId
            BY <1>a DEF TypeOK
        <2>4. \A i \in DOMAIN queue' : jobs'[queue'[i]] # NoJob
            BY <1>a, <2>0, <2>3 DEF References
        <2>5. \A i \in deletions' : jobs'[i] # NoJob
            BY <1>a, <2>0 DEF References, TypeOK
        <2> QED BY <1>a, <2>1, <2>2, <2>4, <2>5 DEF References
    <1>3. Revisions'
        BY <1>a, <1>b, <1>d, <1>g DEF Revisions, TypeOK
    <1>4. AckRecorded'
        <2> SUFFICES ASSUME NEW d \in Doc
                     PROVE  \/ Covers(ckptFile'[d], acked'[d])
                            \/ \E i \in ReadyRecords(d)' :
                                 /\ Covers(Published(log'[i]), acked'[d])
                                 /\ jobs'[i] # NoJob /\ terminal(jobs'[i].status)
            BY DEF AckRecorded
        <2>1. CASE acked'[d] = acked[d]
            <3>1. CASE Covers(ckptFile[d], acked[d])
                BY <2>1, <3>1
            <3>2. ASSUME NEW i \in ReadyRecords(d),
                         Covers(Published(log[i]), acked[d]),
                         jobs[i] # NoJob, terminal(jobs[i].status)
                  PROVE  i \in ReadyRecords(d)' /\ log'[i] = log[i] /\ jobs'[i] = jobs[i]
                BY <1>g, <3>2 DEF ReadyRecords, Records
            <3> QED BY <1>a, <2>1, <3>1, <3>2 DEF AckRecorded
        <2>2. CASE acked'[d] # acked[d]
            <3>1. /\ d = job.doc /\ acked'[d] = Published(job)
                  /\ job.status = "ready" /\ log'[id] = job /\ jobs'[id] = job
                BY <1>i, <2>2
            <3>2. id \in ReadyRecords(d)'
                BY <3>1, <1>a, <1>d DEF ReadyRecords, Records
            <3> QED BY <3>1, <3>2, <1>d DEF Covers, terminal
        <2> QED BY <2>1, <2>2
    <1>5. BackendCovers'
        <2>1. \A d \in Doc : \A i \in ReadyRecords(d)' :
                \/ i \in ReadyRecords(d) /\ log'[i] = log[i]
                \/ /\ i = id /\ log'[i] = job /\ job.doc = d
                   /\ job.status = "ready" /\ backend[d] = Published(job)
            BY <1>b, <1>f, <1>g DEF ReadyRecords, Records
        <2>2. \A d \in Doc : /\ Covers(backend'[d], acked'[d])
                             /\ Covers(backend'[d], ckptFile'[d])
            BY <1>a, <1>b, <1>f, <1>i DEF BackendCovers, Covers
        <2>3. \A d \in Doc : \A i \in ReadyRecords(d)' :
                Covers(backend'[d], Published(log'[i]))
            BY <1>a, <2>1 DEF BackendCovers, Covers
        <2>4. ASSUME NEW d \in Doc, NEW i \in ReadyRecords(d)',
                     NEW j \in ReadyRecords(d)', log'[i].rev = log'[j].rev
              PROVE  log'[i].val = log'[j].val
            <3>1. \A k \in ReadyRecords(d) :
                    job.rev = log[k].rev /\ backend[d] = Published(job)
                        => job.val = log[k].val
                <4> SUFFICES ASSUME NEW k \in ReadyRecords(d),
                                    job.rev = log[k].rev,
                                    backend[d] = Published(job)
                             PROVE  job.val = log[k].val
                    OBVIOUS
                <4>1. log[k] \in Job
                    BY <1>a DEF ReadyRecords, Records, TypeOK
                <4>2. Covers(Published(job), Published(log[k]))
                    BY <1>a DEF BackendCovers
                <4>3. /\ Published(job) \in Version /\ Published(log[k]) \in Version
                      /\ Published(job).rev = job.rev /\ Published(job).val = job.val
                      /\ Published(log[k]).rev = log[k].rev
                      /\ Published(log[k]).val = log[k].val
                    BY <1>b, <4>1, PublishedFacts
                <4> QED BY <4>2, <4>3, CoversSameRevision
            <3> QED BY <1>a, <2>1, <2>4, <3>1 DEF BackendCovers
        <2> QED BY <2>2, <2>3, <2>4 DEF BackendCovers
    <1>6. ReadyPublished'
        <2> SUFFICES ASSUME NEW u \in Thread, pc'[u] = "ready",
                            jobs'[cur'[u]].rev = latestRev[jobs'[cur'[u]].doc]
                     PROVE  backend[jobs'[cur'[u]].doc] = Published(jobs'[cur'[u]])
            BY DEF ReadyPublished
        <2>1. pc[u] = "ready" /\ cur'[u] = cur[u]
            BY <1>a, <1>e DEF TypeOK
        <2>2. cur[u] \in JobId
            BY <1>a, <2>1 DEF References
        <2>3. /\ jobs'[cur[u]].doc = jobs[cur[u]].doc
              /\ jobs'[cur[u]].rev = jobs[cur[u]].rev
              /\ jobs'[cur[u]].val = jobs[cur[u]].val
            BY <1>b, <1>g, <2>2
        <2> QED BY <1>a, <2>1, <2>3 DEF ReadyPublished, Published
    <1>7. CheckpointCovers'
        <2>1. \A u \in Thread : pc'[u] \in CheckpointPc => pc[u] = pc'[u]
            BY <1>a, <1>e DEF TypeOK
        <2> QED BY <1>a, <2>1 DEF CheckpointCovers, PositionCoveredBy, CheckpointPc
    <1> QED BY <1>1, <1>2, <1>3, <1>4, <1>5, <1>6, <1>7 DEF DurabilityInv

(* transition() as a whole, from any place of execute() that calls it.     *)
LEMMA TransitionStep ==
    ASSUME DurabilityInv, NEW t \in Thread, pc[t] # "idle",
           NEW status \in Status, status = "ready" => pc[t] = "ready",
           NEW next \in {"idle", "embedding", "publishing", "publish", "onReady"},
           transition(t, status, next)
    PROVE  DurabilityInv'
    <1> DEFINE job == Advanced(jobs[cur[t]], status)
               newLog == [log EXCEPT ![cur[t]] = job]
    <1>0. /\ pc[t] # "idle"
          /\ next \in Pc \ (CheckpointPc \cup {"ready"})
          /\ "idle" \in Pc \ (CheckpointPc \cup {"ready"})
          /\ "failVolatile" \in Pc \ (CheckpointPc \cup {"ready"})
          /\ "failVolatile" # "idle"
        BY DEF Pc, CheckpointPc
    <1>1. CASE /\ terminal(jobs[cur[t]].status)
               /\ Finish(t)
               /\ UNCHANGED <<jobs, log, acked, faults>>
        <2>1. UNCHANGED <<phase, jobs, latestRev, latestJob, queue, toRecover,
                          deletions, backend, ckptPos, ckptSnap, durable, acked,
                          nextId, faults, crashes>>
            BY <1>1 DEF transition, durable
        <2> QED BY <1>0, <1>1, <2>1, PcStep
    <1>2. CASE /\ ~terminal(jobs[cur[t]].status)
               /\ Persist(newLog)
               /\ jobs' = [jobs EXCEPT ![cur[t]] = job]
               /\ Acknowledge(job)
               /\ IF job.status = status /\ next # "idle"
                  THEN Goto(t, next) ELSE Finish(t)
        <2>1. faults' \in 0..MaxFaults /\ log' = newLog
            BY <1>2 DEF Persist, DurabilityInv, TypeOK
        <2>2. CASE job.status = status /\ next # "idle"
            BY <1>0, <1>2, <2>1, <2>2, RecordStep DEF transition
        <2>3. CASE ~(job.status = status /\ next # "idle")
            BY <1>0, <1>2, <2>1, <2>3, RecordStep DEF transition
        <2> QED BY <2>2, <2>3
    <1>3. CASE /\ ~terminal(jobs[cur[t]].status)
               /\ PersistFails(log, newLog)
               /\ Goto(t, "failVolatile")
               /\ UNCHANGED <<jobs, acked>>
        <2>1. faults' \in 0..MaxFaults /\ log' \in {log, newLog}
            BY <1>3, ConstantsAssumption DEF PersistFails, DurabilityInv, TypeOK
        <2> QED BY <1>0, <1>3, <2>1, RecordStep DEF transition
    <1> QED BY <1>1, <1>2, <1>3 DEF transition

(* The steps of execute() that consist of a transition() or of a move.     *)
LEMMA ExecuteMoves ==
    ASSUME DurabilityInv, NEW t \in Thread,
           \/ Begin(t) \/ Chunking(t) \/ Embedding(t) \/ Publishing(t)
           \/ PreparationFails(t) \/ PublishSkipped(t) \/ PublishRefused(t)
           \/ Ready(t) \/ FailJob(t) \/ OnReady(t) \/ WaitReturns(t)
    PROVE  DurabilityInv'
    <1> DEFINE Quiet == Pc \ (CheckpointPc \cup {"ready"})
    <1>0. {"idle", "publishing", "chunking", "failJob"} \subseteq Quiet
        BY DEF Pc, CheckpointPc
    <1>1. ASSUME NEW next \in Quiet, Moves(t, next), pc[t] # "idle"
          PROVE  DurabilityInv'
        BY <1>1, PcStep DEF Moves
    <1>2. CASE Begin(t)
        BY <1>0, <1>1, <1>2 DEF Begin
    <1>3. CASE Chunking(t)
        BY <1>0, <1>3, TransitionStep DEF Chunking, Status
    <1>4. CASE Embedding(t)
        BY <1>0, <1>4, TransitionStep DEF Embedding, Status
    <1>5. CASE Publishing(t)
        BY <1>0, <1>5, TransitionStep DEF Publishing, Status
    <1>6. CASE PreparationFails(t)
        BY <1>0, <1>1, <1>6 DEF PreparationFails
    <1>7. CASE PublishSkipped(t)
        BY <1>0, <1>1, <1>7 DEF PublishSkipped
    <1>8. CASE PublishRefused(t)
        BY <1>0, <1>1, <1>8 DEF PublishRefused
    <1>9. CASE Ready(t)
        BY <1>0, <1>9, TransitionStep DEF Ready, Status
    <1>10. CASE FailJob(t)
        BY <1>0, <1>10, TransitionStep DEF FailJob, Status
    <1>11. CASE OnReady(t)
        BY <1>0, <1>1, <1>11 DEF OnReady
    <1>12. CASE WaitReturns(t)
        BY <1>0, <1>12, PcStep DEF WaitReturns
    <1> QED BY <1>2, <1>3, <1>4, <1>5, <1>6, <1>7, <1>8, <1>9, <1>10, <1>11, <1>12

-----------------------------------------------------------------------------
(* Publication and volatile failure                                        *)

(* Activating a revision: the backend only moves forward, and a thread     *)
(* waiting to report the newest revision ready is not overtaken.           *)
LEMMA PublishStep ==
    ASSUME DurabilityInv, NEW t \in Thread, Publish(t)
    PROVE  DurabilityInv'
    <1> USE DEF durable
    <1> DEFINE job == jobs[cur[t]]
    <1>a. /\ pc[t] # "idle"
          /\ TypeOK /\ References /\ Revisions /\ AckRecorded /\ BackendCovers
          /\ ReadyPublished /\ CheckpointCovers
        BY DEF Publish, DurabilityInv
    <1>b. cur[t] \in JobId /\ job \in Job /\ job # NoJob /\ phase \in Up
        BY <1>a, WorkingJob, NoJobAssumption
    <1>c. /\ Published(job) \in Version
          /\ Published(job).rev = job.rev /\ Published(job).val = job.val
          /\ job.doc \in Doc
        BY <1>b, PublishedFacts DEF Job
    <1>d. /\ backend' = [backend EXCEPT ![job.doc] = Published(job)]
          /\ pc' = [pc EXCEPT ![t] = "ready"] /\ cur' = cur
          /\ Accepts(backend[job.doc], job)
        BY DEF Publish, Goto
    <1>e. \A d \in Doc : Covers(backend'[d], backend[d])
        BY <1>a, <1>b, <1>c, <1>d, AcceptsCovers DEF TypeOK, Covers
    <1>1. TypeOK'
        BY <1>a, <1>c, <1>d DEF Publish, TypeOK, Pc
    <1>f. \A d \in Doc : backend[d] \in Version /\ backend'[d] \in Version
                        /\ ckptFile[d] \in Version /\ acked[d] \in Version
                        /\ \A u \in Thread : ckptSnap[u][d] \in Version
        BY <1>a, <1>1 DEF TypeOK
    <1>2. References'
        <2>1. \A u \in Thread : pc'[u] # "idle" => pc[u] # "idle"
            BY <1>a, <1>d DEF TypeOK
        <2>2. toRecover = {}
            BY <1>a DEF References
        <2> QED BY <1>a, <1>b, <1>d, <2>1, <2>2 DEF References, Publish
    <1>3. Revisions'
        BY <1>a DEF Revisions, Publish
    <1>4. AckRecorded'
        BY <1>a DEF AckRecorded, ReadyRecords, Records, Publish
    <1>5. BackendCovers'
        <2>1. \A d \in Doc : \A i \in ReadyRecords(d) : Published(log[i]) \in Version
            BY <1>a, PublishedFacts DEF ReadyRecords, Records, TypeOK
        <2>2. \A d \in Doc : ReadyRecords(d)' = ReadyRecords(d)
            BY DEF ReadyRecords, Records, Publish
        <2>3. \A d \in Doc : /\ Covers(backend'[d], acked[d])
                             /\ Covers(backend'[d], ckptFile[d])
                             /\ \A i \in ReadyRecords(d) :
                                    Covers(backend'[d], Published(log[i]))
            BY <1>a, <1>b, <1>e, <1>f, <2>1, CoversTransitive DEF BackendCovers
        <2> QED BY <1>a, <2>2, <2>3 DEF BackendCovers, Publish
    <1>6. ReadyPublished'
        <2> SUFFICES ASSUME NEW u \in Thread, pc'[u] = "ready",
                            jobs[cur[u]].rev = latestRev[jobs[cur[u]].doc]
                     PROVE  backend'[jobs[cur[u]].doc] = Published(jobs[cur[u]])
            BY <1>d DEF ReadyPublished, Publish
        <2>1. CASE u = t
            BY <1>a, <1>c, <1>d, <2>1 DEF TypeOK
        <2>2. CASE u # t
            <3> DEFINE other == jobs[cur[u]]
            <3>1. pc[u] = "ready"
                BY <1>a, <1>d, <2>2 DEF TypeOK
            <3>2. other \in Job /\ cur[u] \in JobId
                BY <1>a, <3>1, WorkingJob
            <3>3. backend[other.doc] = Published(other)
                BY <1>a, <3>1 DEF ReadyPublished
            <3>4. CASE other.doc # job.doc
                BY <1>a, <1>d, <3>2, <3>3, <3>4 DEF TypeOK, Job
            <3>5. CASE other.doc = job.doc
                <4>1. job.rev <= latestRev[job.doc]
                    BY <1>a, <1>b DEF Revisions
                <4>2. Published(other).rev = other.rev
                    BY <3>2, PublishedFacts
                <4>3. /\ job.rev \in Nat /\ other.rev \in Nat
                      /\ latestRev[job.doc] \in Nat
                    BY <1>a, <1>b, <1>c, <3>2, ConstantsAssumption DEF Job, TypeOK
                <4>4. job.rev = other.rev /\ job.val = other.val
                    BY <1>d, <3>3, <3>5, <4>1, <4>2, <4>3 DEF Accepts, Published
                <4> QED BY <1>a, <1>c, <1>d, <3>5, <4>4 DEF TypeOK, Published
            <3> QED BY <3>4, <3>5
        <2> QED BY <2>1, <2>2
    <1>7. CheckpointCovers'
        <2>1. \A u \in Thread : pc'[u] \in CheckpointPc => pc[u] = pc'[u]
            BY <1>a, <1>d DEF TypeOK, CheckpointPc
        <2>2. \A u \in Thread, i \in JobId : ckptPos[u][i] # NoJob =>
                Published(ckptPos[u][i]) \in Version /\ ckptPos[u][i].doc \in Doc
            BY <1>a, PublishedFacts DEF TypeOK, Job
        <2>3. \A u \in Thread : pc[u] = "capture" => PositionCoveredBy(ckptPos[u], backend')
            BY <1>a, <1>e, <1>f, <2>2, CoversTransitive
               DEF CheckpointCovers, PositionCoveredBy
        <2>4. \A u \in Thread : pc[u] = "save" =>
                \A d \in Doc : Covers(backend'[d], ckptSnap[u][d])
            BY <1>a, <1>e, <1>f, CoversTransitive DEF CheckpointCovers
        <2>5. UNCHANGED <<ckptPos, ckptSnap, ckptFile>>
            BY DEF Publish
        <2>8. \A u, v \in Thread :
                pc'[u] \in CheckpointPc /\ pc'[v] \in CheckpointPc => u = v
            BY <1>a, <2>1 DEF CheckpointCovers
        <2>9. ASSUME NEW u \in Thread
              PROVE  /\ pc'[u] = "capture" => PositionCoveredBy(ckptPos'[u], backend')
                     /\ pc'[u] = "save" =>
                            /\ PositionCoveredBy(ckptPos'[u], ckptSnap'[u])
                            /\ \A d \in Doc : /\ Covers(backend'[d], ckptSnap'[u][d])
                                              /\ Covers(ckptSnap'[u][d], ckptFile'[d])
                     /\ pc'[u] = "truncate" => PositionCoveredBy(ckptPos'[u], ckptFile')
            BY <1>a, <2>1, <2>3, <2>4, <2>5 DEF CheckpointCovers, CheckpointPc
        <2> QED BY <2>8, <2>9 DEF CheckpointCovers
    <1> QED BY <1>1, <1>2, <1>3, <1>4, <1>5, <1>6, <1>7 DEF DurabilityInv

(* fail_volatile() rewrites a nonterminal job in memory only.              *)
LEMMA FailVolatileStep ==
    ASSUME DurabilityInv, NEW t \in Thread, FailVolatile(t)
    PROVE  DurabilityInv'
    <1> USE DEF durable
    <1> DEFINE job == jobs[cur[t]]
               ended == [Superseded(job) EXCEPT !.status =
                            IF latestRev[job.doc] = job.rev THEN "failed"
                            ELSE "superseded"]
    <1>a. /\ pc[t] # "idle"
          /\ TypeOK /\ References /\ Revisions /\ AckRecorded /\ BackendCovers
          /\ ReadyPublished /\ CheckpointCovers
        BY DEF FailVolatile, DurabilityInv
    <1>b. cur[t] \in JobId /\ job \in Job /\ job # NoJob /\ phase \in Up
        BY <1>a, WorkingJob, NoJobAssumption
    <1>c. /\ ended \in Job /\ ended.doc = job.doc /\ ended.rev = job.rev
          /\ ended.val = job.val /\ ended # NoJob
        <2>1. Superseded(job) \in Job /\ Superseded(job).doc = job.doc
              /\ Superseded(job).rev = job.rev /\ Superseded(job).val = job.val
            BY <1>b, SupersededFacts
        <2> HIDE DEF job
        <2>2. ended \in Job
            BY <2>1 DEF Job, Status
        <2>3. ended.doc = job.doc /\ ended.rev = job.rev /\ ended.val = job.val
            BY <2>1 DEF Job
        <2> QED BY <2>2, <2>3, NoJobAssumption
    <1>d. /\ jobs' \in {jobs, [jobs EXCEPT ![cur[t]] = ended]}
          /\ terminal(job.status) => jobs' = jobs
          /\ pc' = [pc EXCEPT ![t] = "idle"] /\ cur' = [cur EXCEPT ![t] = 0]
        BY DEF FailVolatile, Finish
    <1> HIDE DEF ended
    <1>e. \A i \in JobId : jobs'[i] = jobs[i]
                \/ (i = cur[t] /\ jobs'[i] = ended /\ ~terminal(jobs[i].status))
        BY <1>a, <1>b, <1>d DEF TypeOK
    <1>1. TypeOK'
        <2>1. jobs' \in [JobId -> Job \cup {NoJob}]
            BY <1>a, <1>b, <1>c, <1>d DEF TypeOK
        <2>2. cur' \in [Thread -> 0..MaxJobs] /\ pc' \in [Thread -> Pc]
            BY <1>a, <1>d, ConstantsAssumption DEF TypeOK, Pc
        <2> QED BY <1>a, <2>1, <2>2 DEF TypeOK, FailVolatile
    <1>2. References'
        <2>0. \A i \in JobId : jobs[i] # NoJob => jobs'[i] # NoJob
            BY <1>c, <1>e
        <2>1. \A u \in Thread : pc'[u] # "idle"
                => pc[u] # "idle" /\ cur'[u] = cur[u]
            BY <1>a, <1>d DEF TypeOK
        <2>2. toRecover = {}
            BY <1>a DEF References
        <2>3. \A i \in DOMAIN queue : queue[i] \in JobId
            BY <1>a DEF TypeOK
        <2>4. \A u \in Thread : pc'[u] # "idle"
                => cur'[u] \in JobId /\ jobs'[cur'[u]] # NoJob
            BY <1>a, <2>0, <2>1 DEF References
        <2>5. \A i \in DOMAIN queue' : jobs'[queue'[i]] # NoJob
            BY <1>a, <2>0, <2>3 DEF References, FailVolatile
        <2>6. \A i \in deletions' : jobs'[i] # NoJob
            BY <1>a, <2>0 DEF References, TypeOK, FailVolatile
        <2> QED BY <1>b, <2>2, <2>4, <2>5, <2>6 DEF References, FailVolatile
    <1>3. Revisions'
        BY <1>a, <1>b, <1>c, <1>e DEF Revisions, FailVolatile
    <1>4. AckRecorded'
        <2>1. \A d \in Doc : ReadyRecords(d)' = ReadyRecords(d)
            BY DEF ReadyRecords, Records, FailVolatile
        <2>2. \A i \in JobId : jobs[i] # NoJob /\ terminal(jobs[i].status)
                => jobs'[i] = jobs[i]
            BY <1>e
        <2>3. \A d \in Doc : ReadyRecords(d) \subseteq JobId
            BY DEF ReadyRecords, Records
        <2> QED BY <1>a, <2>1, <2>2, <2>3 DEF AckRecorded, FailVolatile
    <1>5. BackendCovers'
        BY <1>a DEF BackendCovers, ReadyRecords, Records, FailVolatile
    <1>6. ReadyPublished'
        <2> SUFFICES ASSUME NEW u \in Thread, pc'[u] = "ready",
                            jobs'[cur'[u]].rev = latestRev[jobs'[cur'[u]].doc]
                     PROVE  backend[jobs'[cur'[u]].doc] = Published(jobs'[cur'[u]])
            BY DEF ReadyPublished, FailVolatile
        <2>1. pc[u] = "ready" /\ cur'[u] = cur[u]
            BY <1>a, <1>d DEF TypeOK
        <2>2. cur[u] \in JobId
            BY <1>a, <2>1 DEF References
        <2>3. /\ jobs'[cur[u]].doc = jobs[cur[u]].doc
              /\ jobs'[cur[u]].rev = jobs[cur[u]].rev
              /\ jobs'[cur[u]].val = jobs[cur[u]].val
            BY <1>c, <1>e, <2>2
        <2> QED BY <1>a, <2>1, <2>3 DEF ReadyPublished, Published
    <1>7. CheckpointCovers'
        <2>1. \A u \in Thread : pc'[u] \in CheckpointPc => pc[u] = pc'[u]
            BY <1>a, <1>d DEF TypeOK, CheckpointPc
        <2> QED BY <1>a, <2>1
                DEF CheckpointCovers, PositionCoveredBy, CheckpointPc, FailVolatile
    <1> QED BY <1>1, <1>2, <1>3, <1>4, <1>5, <1>6, <1>7 DEF DurabilityInv

-----------------------------------------------------------------------------
(* submit() and erase()                                                    *)

(* Superseding touches only the pending job of the document.               *)
LEMMA WithSupersededFacts ==
    ASSUME DurabilityInv, NEW d \in Doc, NEW table \in [JobId -> Job \cup {NoJob}]
    PROVE  /\ WithSuperseded(table, d) \in [JobId -> Job \cup {NoJob}]
           /\ \A i \in JobId :
                \/ WithSuperseded(table, d)[i] = table[i]
                \/ /\ jobs[i] # NoJob /\ ~terminal(jobs[i].status)
                   /\ WithSuperseded(table, d)[i] = Superseded(jobs[i])
                   /\ WithSuperseded(table, d)[i] \in Job
    <1>1. \A i \in Pending(d) : /\ jobs[i] \in Job /\ jobs[i] # NoJob
                                /\ ~terminal(jobs[i].status)
                                /\ Superseded(jobs[i]) \in Job
        BY SupersededFacts DEF Pending, DurabilityInv, TypeOK
    <1> QED BY <1>1 DEF WithSuperseded

(* Adding a fresh job and superseding the pending one, in the log only or  *)
(* in log and memory: no ready record and no acknowledged version is lost. *)
LEMMA CreateStep ==
    ASSUME DurabilityInv, NEW d \in Doc, NEW v \in Value,
           phase = "running", nextId < MaxJobs, nextId' = nextId + 1,
           NEW created,
           created = WithCreated(log, nextId + 1, NewJob(d, v)),
           log' \in {log, created, WithSuperseded(created, d)},
           \/ /\ UNCHANGED <<jobs, latestRev, latestJob, queue, pc, cur>>
           \/ /\ log' = WithSuperseded(created, d)
              /\ jobs' = WithSuperseded(WithCreated(jobs, nextId + 1, NewJob(d, v)), d)
              /\ latestRev' = [latestRev EXCEPT ![d] = latestRev[d] + 1]
              /\ latestJob' = [latestJob EXCEPT ![d] = nextId + 1]
              /\ \/ queue' = Append(queue, nextId + 1) /\ UNCHANGED <<pc, cur>>
                 \/ /\ queue' = queue
                    /\ \E c \in Client : /\ pc[c] = "idle"
                                         /\ pc' = [pc EXCEPT ![c] = "begin"]
                                         /\ cur' = [cur EXCEPT ![c] = nextId + 1],
           faults' \in 0..MaxFaults,
           UNCHANGED <<phase, toRecover, deletions, backend, ckptPos, ckptSnap,
                       ckptFile, acked, crashes>>
    PROVE  DurabilityInv'
    <1> DEFINE id == nextId + 1
               job == NewJob(d, v)
    <1>a. /\ TypeOK /\ References /\ Revisions /\ AckRecorded /\ BackendCovers
          /\ ReadyPublished /\ CheckpointCovers
          /\ id \in JobId /\ phase \in Up /\ Client \subseteq Thread
        BY ConstantsAssumption DEF DurabilityInv, TypeOK, JobId, Up, Thread
    <1>b. /\ job \in Job /\ job.doc = d /\ job.rev = latestRev[d] + 1
          /\ job.val = v /\ job.status = "queued" /\ job # NoJob
          /\ latestRev[d] \in Nat /\ latestRev[d] <= nextId /\ nextId \in Nat
        <2>1. latestRev[d] \in Nat /\ latestRev[d] <= nextId /\ nextId \in Nat
            BY <1>a, ConstantsAssumption DEF Revisions, TypeOK
        <2>2. latestRev[d] < MaxJobs
            BY <2>1, ConstantsAssumption
        <2> QED BY <1>a, <2>1, <2>2, NewJobFacts, NoJobAssumption DEF TypeOK
    <1> HIDE DEF job
    <1>c. jobs[id] = NoJob /\ log[id] = NoJob
        BY <1>a, <1>b DEF Revisions
    <1>d. /\ created \in [JobId -> Job \cup {NoJob}]
          /\ \A i \in JobId : created[i] = IF i = id THEN job ELSE log[i]
        BY <1>a, <1>b DEF WithCreated, TypeOK, job
    <1>e. /\ WithCreated(jobs, id, job) \in [JobId -> Job \cup {NoJob}]
          /\ \A i \in JobId : WithCreated(jobs, id, job)[i]
                    = IF i = id THEN job ELSE jobs[i]
        BY <1>a, <1>b DEF WithCreated, TypeOK
    <1>f. /\ log' \in [JobId -> Job \cup {NoJob}]
          /\ \A i \in JobId :
                \/ log'[i] = log[i]
                \/ i = id /\ log'[i] = job
                \/ /\ jobs[i] # NoJob /\ ~terminal(jobs[i].status)
                   /\ log'[i] = Superseded(jobs[i]) /\ log'[i] \in Job
        BY <1>a, <1>d, WithSupersededFacts DEF TypeOK
    <1>g. /\ jobs' \in [JobId -> Job \cup {NoJob}]
          /\ \A i \in JobId :
                \/ jobs'[i] = jobs[i]
                \/ i = id /\ jobs'[i] = job /\ latestRev'[d] = latestRev[d] + 1
                \/ /\ jobs[i] # NoJob /\ ~terminal(jobs[i].status)
                   /\ jobs'[i] = Superseded(jobs[i]) /\ jobs'[i] \in Job
        <2>1. CASE UNCHANGED <<jobs, latestRev, latestJob, queue, pc, cur>>
            BY <1>a, <2>1 DEF TypeOK
        <2>2. CASE /\ jobs' = WithSuperseded(WithCreated(jobs, id, job), d)
                   /\ latestRev' = [latestRev EXCEPT ![d] = latestRev[d] + 1]
            <3>1. latestRev'[d] = latestRev[d] + 1
                BY <1>a, <2>2 DEF TypeOK
            <3> QED BY <1>e, <2>2, <3>1, WithSupersededFacts
        <2> QED BY <2>1, <2>2 DEF job
    <1>h. \A i \in JobId : jobs[i] # NoJob =>
            /\ jobs'[i] # NoJob /\ jobs'[i].doc = jobs[i].doc
            /\ jobs'[i].rev = jobs[i].rev /\ jobs'[i].val = jobs[i].val
            /\ terminal(jobs[i].status) => jobs'[i] = jobs[i]
        <2> SUFFICES ASSUME NEW i \in JobId, jobs[i] # NoJob
                     PROVE  /\ jobs'[i] # NoJob /\ jobs'[i].doc = jobs[i].doc
                            /\ jobs'[i].rev = jobs[i].rev /\ jobs'[i].val = jobs[i].val
                            /\ terminal(jobs[i].status) => jobs'[i] = jobs[i]
            OBVIOUS
        <2>1. jobs[i] \in Job /\ i # id
            BY <1>a, <1>c DEF TypeOK
        <2> QED BY <1>g, <2>1, SupersededFacts, NoJobAssumption
    <1>i. \A e \in Doc : ReadyRecords(e)' \subseteq ReadyRecords(e)
                /\ \A i \in ReadyRecords(e)' : log'[i] = log[i]
        <2> SUFFICES ASSUME NEW e \in Doc, NEW i \in ReadyRecords(e)'
                     PROVE  i \in ReadyRecords(e) /\ log'[i] = log[i]
            OBVIOUS
        <2>1. i \in JobId /\ log'[i] # NoJob /\ log'[i].doc = e
              /\ log'[i].status = "ready"
            BY DEF ReadyRecords, Records
        <2>2. \A j \in JobId : jobs[j] # NoJob => Superseded(jobs[j]).status = "superseded"
            BY <1>a, SupersededFacts DEF TypeOK
        <2>3. log'[i] = log[i]
            BY <1>b, <1>f, <2>1, <2>2
        <2> QED BY <2>1, <2>3 DEF ReadyRecords, Records
    <1>j. \A e \in Doc : /\ latestRev'[e] \in 0..MaxJobs
                         /\ latestRev'[e] <= nextId'
                         /\ latestRev'[e] >= latestRev[e]
                         /\ latestRev'[e] # latestRev[e]
                                => e = d /\ latestRev'[e] = latestRev[e] + 1
        BY <1>a, <1>b, ConstantsAssumption DEF TypeOK, Revisions
    <1>1. TypeOK'
        <2>1. latestRev' \in [Doc -> 0..MaxJobs]
            BY <1>a, <1>j DEF TypeOK
        <2>2. id \in 0..MaxJobs
            BY <1>a DEF JobId
        <2>3. /\ latestJob' \in [Doc -> 0..MaxJobs]
              /\ queue' \in Seq(JobId)
              /\ pc' \in [Thread -> Pc] /\ cur' \in [Thread -> 0..MaxJobs]
            <3>1. latestJob' \in [Doc -> 0..MaxJobs]
                BY <1>a, <2>2 DEF TypeOK
            <3>2. queue' = queue \/ queue' = Append(queue, id)
                OBVIOUS
            <3>3. queue' \in Seq(JobId)
                <4>1. queue \in Seq(JobId) /\ id \in JobId
                    BY <1>a DEF TypeOK
                <4>2. Append(queue, id) \in Seq(JobId)
                    BY <4>1, AppendType
                <4> QED BY <3>2, <4>1, <4>2, Zenon
            <3>4. "begin" \in Pc
                BY DEF Pc
            <3>5. \A c \in Client : /\ [pc EXCEPT ![c] = "begin"] \in [Thread -> Pc]
                                   /\ [cur EXCEPT ![c] = id] \in [Thread -> 0..MaxJobs]
                BY <1>a, <2>2, <3>4 DEF TypeOK
            <3>6. \/ UNCHANGED <<pc, cur>>
                  \/ \E c \in Client : /\ pc' = [pc EXCEPT ![c] = "begin"]
                                       /\ cur' = [cur EXCEPT ![c] = id]
                OBVIOUS
            <3>7. pc' \in [Thread -> Pc] /\ cur' \in [Thread -> 0..MaxJobs]
                <4>1. pc \in [Thread -> Pc] /\ cur \in [Thread -> 0..MaxJobs]
                    BY <1>a DEF TypeOK
                <4> QED BY <3>5, <3>6, <4>1, Zenon
            <3> QED BY <3>1, <3>3, <3>7
        <2>4. nextId' \in 0..MaxJobs
            BY <2>2
        <2> QED BY <1>a, <1>f, <1>g, <2>1, <2>3, <2>4 DEF TypeOK
    <1>2. References'
        <2>1. \A u \in Thread : pc'[u] # "idle" =>
                \/ pc[u] # "idle" /\ cur'[u] = cur[u]
                \/ cur'[u] = id /\ jobs'[id] = job
            <3>1. CASE UNCHANGED <<pc, cur>>
                BY <3>1
            <3>2. ASSUME NEW c \in Client, pc' = [pc EXCEPT ![c] = "begin"],
                         cur' = [cur EXCEPT ![c] = id], jobs'[id] = job
                  PROVE  \A u \in Thread : pc'[u] # "idle" =>
                            \/ pc[u] # "idle" /\ cur'[u] = cur[u]
                            \/ cur'[u] = id /\ jobs'[id] = job
                BY <1>a, <3>2 DEF TypeOK
            <3>3. jobs' = WithSuperseded(WithCreated(jobs, id, job), d) => jobs'[id] = job
                BY <1>a, <1>c, <1>e, WithSupersededFacts
            <3> QED BY <3>1, <3>2, <3>3 DEF job
        <2>2. \A u \in Thread : pc'[u] # "idle"
                => cur'[u] \in JobId /\ jobs'[cur'[u]] # NoJob
            BY <1>a, <1>b, <1>h, <2>1 DEF References
        <2>3. \A i \in DOMAIN queue' : jobs'[queue'[i]] # NoJob
            <3>1. \A i \in DOMAIN queue : queue[i] \in JobId /\ jobs'[queue[i]] # NoJob
                BY <1>a, <1>h DEF References, TypeOK
            <3>2. CASE queue' = queue
                BY <3>1, <3>2
            <3>3. CASE queue' = Append(queue, id) /\ jobs'[id] = job
                BY <1>a, <1>b, <3>1, <3>3 DEF TypeOK
            <3>4. jobs' = WithSuperseded(WithCreated(jobs, id, job), d) => jobs'[id] = job
                BY <1>a, <1>c, <1>e, WithSupersededFacts
            <3> QED BY <3>2, <3>3, <3>4 DEF job
        <2>4. \A i \in deletions' : jobs'[i] # NoJob
            BY <1>a, <1>h DEF References, TypeOK
        <2>5. toRecover' = {}
            BY <1>a DEF References
        <2> QED BY <1>a, <2>2, <2>3, <2>4, <2>5 DEF References
    <1>3. Revisions'
        <2>1. \A i \in JobId : i > nextId' => jobs'[i] = NoJob /\ log'[i] = NoJob
            <3> SUFFICES ASSUME NEW i \in JobId, i > nextId'
                         PROVE  jobs'[i] = NoJob /\ log'[i] = NoJob
                OBVIOUS
            <3>1. i # id /\ i > nextId
                BY <1>a, <1>b DEF JobId
            <3> QED BY <1>a, <1>f, <1>g, <3>1 DEF Revisions
        <2>2. ASSUME NEW i \in JobId, jobs'[i] # NoJob
              PROVE  jobs'[i].rev <= nextId' /\ jobs'[i].rev <= latestRev'[jobs'[i].doc]
            <3>1. CASE jobs[i] # NoJob
                <4>1. jobs[i] \in Job
                    BY <1>a, <3>1 DEF TypeOK
                <4>2. /\ jobs[i].rev <= nextId /\ jobs[i].rev <= latestRev[jobs[i].doc]
                      /\ jobs'[i].rev = jobs[i].rev /\ jobs'[i].doc = jobs[i].doc
                      /\ jobs[i].rev \in Nat /\ jobs[i].doc \in Doc
                    BY <1>a, <1>h, <3>1, <4>1 DEF Revisions, Job
                <4>3. latestRev[jobs[i].doc] \in Nat /\ latestRev'[jobs[i].doc] \in Nat
                    BY <1>a, <1>j, <4>2 DEF TypeOK
                <4> QED BY <1>b, <1>j, <4>2, <4>3
            <3>2. CASE jobs[i] = NoJob
                <4>1. jobs'[i] = job /\ latestRev'[d] = latestRev[d] + 1
                    BY <1>g, <2>2, <3>2
                <4> QED BY <1>b, <4>1
            <3> QED BY <3>1, <3>2
        <2>3. ASSUME NEW i \in JobId, log'[i] # NoJob
              PROVE  log'[i].rev <= nextId'
            <3>1. CASE log'[i] = log[i]
                <4>1. log[i] \in Job /\ log[i].rev <= nextId
                    BY <1>a, <2>3, <3>1 DEF TypeOK, Revisions
                <4> QED BY <1>b, <3>1, <4>1 DEF Job
            <3>2. CASE i = id /\ log'[i] = job
                BY <1>b, <3>2
            <3>3. CASE jobs[i] # NoJob /\ log'[i] = Superseded(jobs[i])
                <4>1. jobs[i] \in Job /\ jobs[i].rev <= nextId
                    BY <1>a, <3>3 DEF TypeOK, Revisions
                <4>2. log'[i].rev = jobs[i].rev /\ jobs[i].rev \in Nat
                    BY <3>3, <4>1, SupersededFacts DEF Job
                <4> QED BY <1>b, <4>1, <4>2
            <3> QED BY <1>f, <3>1, <3>2, <3>3
        <2> QED BY <1>j, <2>1, <2>2, <2>3 DEF Revisions
    <1>4. AckRecorded'
        <2> SUFFICES ASSUME NEW e \in Doc
                     PROVE  \/ Covers(ckptFile[e], acked[e])
                            \/ \E i \in ReadyRecords(e)' :
                                 /\ Covers(Published(log'[i]), acked[e])
                                 /\ jobs'[i] # NoJob /\ terminal(jobs'[i].status)
            BY DEF AckRecorded
        <2>1. ASSUME NEW i \in ReadyRecords(e), jobs[i] # NoJob, terminal(jobs[i].status)
              PROVE  i \in ReadyRecords(e)' /\ log'[i] = log[i] /\ jobs'[i] = jobs[i]
            <3>1. i \in JobId /\ i # id /\ log[i] # NoJob
                BY <1>c DEF ReadyRecords, Records
            <3>2. log'[i] = log[i] /\ jobs'[i] = jobs[i]
                BY <1>f, <1>g, <2>1, <3>1
            <3> QED BY <3>1, <3>2 DEF ReadyRecords, Records
        <2> QED BY <1>a, <2>1 DEF AckRecorded
    <1>5. BackendCovers'
        BY <1>a, <1>i DEF BackendCovers
    <1>6. ReadyPublished'
        <2> SUFFICES ASSUME NEW u \in Thread, pc'[u] = "ready",
                            jobs'[cur'[u]].rev = latestRev'[jobs'[cur'[u]].doc]
                     PROVE  backend[jobs'[cur'[u]].doc] = Published(jobs'[cur'[u]])
            BY DEF ReadyPublished
        <2>1. pc[u] = "ready" /\ cur'[u] = cur[u]
            BY <1>a DEF TypeOK
        <2>2. cur[u] \in JobId /\ jobs[cur[u]] # NoJob /\ jobs[cur[u]] \in Job
            BY <1>a, <2>1 DEF References, TypeOK
        <2>3. /\ jobs'[cur[u]].doc = jobs[cur[u]].doc
              /\ jobs'[cur[u]].rev = jobs[cur[u]].rev
              /\ jobs'[cur[u]].val = jobs[cur[u]].val
            BY <1>h, <2>2
        <2>4. jobs[cur[u]].rev <= latestRev[jobs[cur[u]].doc]
            BY <1>a, <2>2 DEF Revisions
        <2>5. jobs[cur[u]].rev \in Nat /\ jobs[cur[u]].doc \in Doc
              /\ latestRev[jobs[cur[u]].doc] \in Nat
            BY <1>a, <2>2 DEF Job, TypeOK
        <2>6. jobs[cur[u]].rev = latestRev[jobs[cur[u]].doc]
            BY <1>j, <2>1, <2>3, <2>4, <2>5
        <2> QED BY <1>a, <2>1, <2>3, <2>6 DEF ReadyPublished, Published
    <1>7. CheckpointCovers'
        <2>1. \A u \in Thread : pc'[u] \in CheckpointPc => pc[u] = pc'[u]
            BY <1>a DEF TypeOK, CheckpointPc
        <2> QED BY <1>a, <2>1 DEF CheckpointCovers, PositionCoveredBy, CheckpointPc
    <1> QED BY <1>1, <1>2, <1>3, <1>4, <1>5, <1>6, <1>7 DEF DurabilityInv

(* The requests of a client.                                               *)
LEMMA RequestStep ==
    ASSUME DurabilityInv, NEW c \in Client, NEW d \in Doc, NEW v \in Value,
           \/ SubmitAsync(c, d, v) \/ CallerExecutes(c, d, v) \/ CreateFails(d, v)
    PROVE  DurabilityInv'
    <1> DEFINE created == WithCreated(log, nextId + 1, NewJob(d, v))
    <1>0. NewJob(d, v).rev = latestRev[d] + 1
        BY DEF NewJob
    <1>1. faults \in 0..MaxFaults
        BY DEF DurabilityInv, TypeOK
    <1>2. CASE SubmitAsync(c, d, v)
        <2>1. /\ phase = "running" /\ nextId < MaxJobs /\ nextId' = nextId + 1
              /\ log' = WithSuperseded(created, d) /\ faults' = faults
              /\ jobs' = WithSuperseded(WithCreated(jobs, nextId + 1, NewJob(d, v)), d)
              /\ latestRev' = [latestRev EXCEPT ![d] = latestRev[d] + 1]
              /\ latestJob' = [latestJob EXCEPT ![d] = nextId + 1]
              /\ queue' = Append(queue, nextId + 1)
              /\ UNCHANGED <<pc, cur>>
              /\ UNCHANGED <<phase, toRecover, deletions, backend, ckptPos,
                             ckptSnap, ckptFile, acked, crashes>>
            BY <1>0, <1>2 DEF SubmitAsync, Create, Persist
        <2> QED BY <1>1, <2>1, CreateStep
    <1>3. CASE CallerExecutes(c, d, v)
        <2>1. /\ phase = "running" /\ nextId < MaxJobs /\ nextId' = nextId + 1
              /\ log' = WithSuperseded(created, d) /\ faults' = faults
              /\ jobs' = WithSuperseded(WithCreated(jobs, nextId + 1, NewJob(d, v)), d)
              /\ latestRev' = [latestRev EXCEPT ![d] = latestRev[d] + 1]
              /\ latestJob' = [latestJob EXCEPT ![d] = nextId + 1]
              /\ queue' = queue
              /\ pc[c] = "idle"
              /\ pc' = [pc EXCEPT ![c] = "begin"]
              /\ cur' = [cur EXCEPT ![c] = nextId + 1]
              /\ UNCHANGED <<phase, toRecover, deletions, backend, ckptPos,
                             ckptSnap, ckptFile, acked, crashes>>
            BY <1>0, <1>3 DEF CallerExecutes, Create, Persist
        <2> QED BY <1>1, <2>1, CreateStep
    <1>4. CASE CreateFails(d, v)
        <2>1. /\ phase = "running" /\ nextId < MaxJobs /\ nextId' = nextId + 1
              /\ log' \in {log, created, WithSuperseded(created, d)}
              /\ UNCHANGED <<jobs, latestRev, latestJob, queue, pc, cur>>
              /\ UNCHANGED <<phase, toRecover, deletions, backend, ckptPos,
                             ckptSnap, ckptFile, acked, crashes>>
            BY <1>4 DEF CreateFails, PersistFails, volatile
        <2>2. faults' \in 0..MaxFaults
            BY <1>1, <1>4, ConstantsAssumption DEF CreateFails, PersistFails
        <2> QED BY <2>1, <2>2, CreateStep
    <1> QED BY <1>2, <1>3, <1>4

-----------------------------------------------------------------------------
(* Taking up work                                                          *)

(* An idle thread takes a job: worker_loop(), a pending deletion of        *)
(* recover(), or a caller that waits for a pending job.                    *)
LEMMA TakeStep ==
    ASSUME DurabilityInv, NEW t \in Thread, pc[t] = "idle",
           phase \in Up, toRecover = {},
           NEW next \in {"begin", "waiting"},
           NEW id \in JobId, jobs[id] # NoJob,
           pc' = [pc EXCEPT ![t] = next],
           cur' = [cur EXCEPT ![t] = id],
           queue' = queue \/ (queue # <<>> /\ queue' = Tail(queue)),
           deletions' \subseteq deletions,
           UNCHANGED <<phase, jobs, latestRev, latestJob, toRecover, backend,
                       ckptPos, ckptSnap, durable, acked, nextId, faults, crashes>>
    PROVE  DurabilityInv'
    <1> USE DEF durable
    <1>a. /\ TypeOK /\ References /\ Revisions /\ AckRecorded /\ BackendCovers
          /\ ReadyPublished /\ CheckpointCovers
        BY DEF DurabilityInv
    <1>b. next \in Pc /\ next \notin CheckpointPc \cup {"ready", "idle"} /\ id \in 0..MaxJobs
        BY DEF Pc, CheckpointPc, JobId
    <1>c. queue \in Seq(JobId)
        BY <1>a DEF TypeOK
    <1>d. /\ queue' \in Seq(JobId)
          /\ \A i \in DOMAIN queue' : \E j \in DOMAIN queue : queue'[i] = queue[j]
        <2>1. CASE queue' = queue
            BY <1>c, <2>1
        <2>2. CASE queue # <<>> /\ queue' = Tail(queue)
            BY <1>c, <2>2, TailFacts
        <2> QED BY <2>1, <2>2
    <1>1. TypeOK'
        <2>1. pc' \in [Thread -> Pc] /\ cur' \in [Thread -> 0..MaxJobs]
            BY <1>a, <1>b DEF TypeOK
        <2> QED BY <1>a, <1>d, <2>1 DEF TypeOK
    <1>2. References'
        <2>1. \A u \in Thread : pc'[u] # "idle"
                => cur'[u] \in JobId /\ jobs'[cur'[u]] # NoJob
            BY <1>a DEF References, TypeOK
        <2>2. \A i \in DOMAIN queue' : jobs'[queue'[i]] # NoJob
            BY <1>a, <1>d DEF References
        <2> QED BY <1>a, <2>1, <2>2 DEF References
    <1>3. Revisions'
        BY <1>a DEF Revisions
    <1>4. AckRecorded'
        BY <1>a DEF AckRecorded, ReadyRecords, Records
    <1>5. BackendCovers'
        BY <1>a DEF BackendCovers, ReadyRecords, Records
    <1>6. ReadyPublished'
        <2>1. \A u \in Thread : pc'[u] = "ready" => pc[u] = "ready" /\ cur'[u] = cur[u]
            BY <1>a, <1>b DEF TypeOK
        <2> QED BY <1>a, <2>1 DEF ReadyPublished
    <1>7. CheckpointCovers'
        <2>1. \A u \in Thread : pc'[u] \in CheckpointPc => pc[u] = pc'[u]
            BY <1>a, <1>b DEF TypeOK
        <2> QED BY <1>a, <2>1 DEF CheckpointCovers, PositionCoveredBy, CheckpointPc
    <1> QED BY <1>1, <1>2, <1>3, <1>4, <1>5, <1>6, <1>7 DEF DurabilityInv

(* Taking work preserves the invariant: Dequeue() by a worker, and the takes of
   ExecuteDeletion and Wait. *)
LEMMA TakeActions ==
    ASSUME DurabilityInv,
           \/ \E w \in Worker : Dequeue(w)
           \/ \E id \in JobId : ExecuteDeletion(id)
           \/ \E c \in Client, id \in JobId : Wait(c, id)
    PROVE  DurabilityInv'
    <1>a. /\ TypeOK /\ References /\ Worker \subseteq Thread /\ Client \subseteq Thread
          /\ Main \in Thread
          /\ "running" \in Up /\ "recovering" \in Up /\ "running" # "recovering"
        BY DEF DurabilityInv, Thread, Up
    <1>b. phase = "running" => toRecover = {}
        BY <1>a DEF References
    <1>1. ASSUME NEW w \in Worker, Dequeue(w) PROVE DurabilityInv'
        <2>1. Head(queue) \in JobId /\ jobs[Head(queue)] # NoJob
            <3>1. queue \in Seq(JobId) /\ queue # <<>>
                BY <1>a, <1>1 DEF TypeOK, Dequeue
            <3>2. 1 \in DOMAIN queue /\ Head(queue) = queue[1] /\ queue[1] \in JobId
                BY <3>1
            <3> QED BY <1>a, <3>2 DEF References
        <2> QED BY <1>1, <1>a, <1>b, <2>1, TakeStep DEF Dequeue
    <1>2. ASSUME NEW id \in JobId, ExecuteDeletion(id) PROVE DurabilityInv'
        <2>1. jobs[id] # NoJob
            BY <1>2, <1>a DEF ExecuteDeletion, References
        <2> QED BY <1>2, <1>a, <2>1, TakeStep DEF ExecuteDeletion
    <1>3. ASSUME NEW c \in Client, NEW id \in JobId, Wait(c, id) PROVE DurabilityInv'
        BY <1>3, <1>a, <1>b, TakeStep DEF Wait
    <1> QED BY <1>1, <1>2, <1>3

-----------------------------------------------------------------------------
(* The end of a process and its start                                      *)

(* A process that is gone leaves the log and the checkpoint behind; an     *)
(* append that failed in recover() may have rewritten one nonterminal job. *)
LEMMA ClearedStep ==
    ASSUME DurabilityInv, phase' = "down", VolatileCleared,
           log' \in [JobId -> Job \cup {NoJob}],
           \A i \in JobId :
                \/ log'[i] = log[i]
                \/ /\ phase \in Up /\ jobs[i] # NoJob /\ ~terminal(jobs[i].status)
                   /\ log'[i] # NoJob /\ log'[i].status # "ready"
                   /\ log'[i].rev = jobs[i].rev,
           faults' \in 0..MaxFaults, crashes' \in 0..MaxCrashes,
           UNCHANGED <<ckptFile, acked, nextId>>
    PROVE  DurabilityInv'
    <1>a. /\ TypeOK /\ References /\ Revisions /\ AckRecorded /\ BackendCovers
          /\ "down" \notin Up
        BY DEF DurabilityInv, Up
    <1>b. /\ \A i \in JobId : jobs'[i] = NoJob
          /\ \A t \in Thread : pc'[t] = "idle"
          /\ \A d \in Doc : latestRev'[d] = 0
        BY DEF VolatileCleared, NoJobs
    <1>c. \A d \in Doc : ReadyRecords(d)' \subseteq ReadyRecords(d)
                        /\ \A i \in ReadyRecords(d)' : log'[i] = log[i]
        BY DEF ReadyRecords, Records
    <1>1. TypeOK'
        <2>1. Absent \in Version /\ 0 \in 0..MaxJobs /\ "idle" \in Pc
            BY ConstantsAssumption DEF Absent, Version, Value, Pc
        <2>2. /\ jobs' \in [JobId -> Job \cup {NoJob}]
              /\ backend' \in [Doc -> Version]
            BY <2>1 DEF VolatileCleared, NoJobs, NoVersions
        <2>6. NoJobs \in [JobId -> Job \cup {NoJob}] /\ NoVersions \in [Doc -> Version]
            BY <2>1 DEF NoJobs, NoVersions
        <2>7. /\ ckptPos' \in [Thread -> [JobId -> Job \cup {NoJob}]]
              /\ ckptSnap' \in [Thread -> [Doc -> Version]]
            BY <2>6 DEF VolatileCleared
        <2>3. /\ latestRev' \in [Doc -> 0..MaxJobs] /\ latestJob' \in [Doc -> 0..MaxJobs]
              /\ pc' \in [Thread -> Pc] /\ cur' \in [Thread -> 0..MaxJobs]
            BY <2>1 DEF VolatileCleared
        <2>4. queue' \in Seq(JobId) /\ toRecover' \subseteq JobId /\ deletions' \subseteq JobId
            BY DEF VolatileCleared
        <2>5. phase' \in Phase
            BY DEF Phase
        <2> QED BY <1>a, <2>2, <2>3, <2>4, <2>5, <2>7 DEF TypeOK
    <1>2. References'
        <2>1. queue' = <<>> /\ deletions' = {} /\ toRecover' = {}
            BY DEF VolatileCleared
        <2> QED BY <1>b, <2>1 DEF References
    <1>3. Revisions'
        <2>1. nextId \in Nat
            BY <1>a DEF TypeOK
        <2>2. \A i \in JobId : log'[i] # NoJob => log'[i].rev <= nextId
            BY <1>a DEF Revisions
        <2>3. \A i \in JobId : i > nextId => log'[i] = NoJob
            BY <1>a DEF Revisions
        <2> QED BY <1>b, <2>1, <2>2, <2>3 DEF Revisions
    <1>4. AckRecorded'
        <2> SUFFICES ASSUME NEW d \in Doc
                     PROVE  \/ Covers(ckptFile[d], acked[d])
                            \/ \E i \in ReadyRecords(d)' :
                                 Covers(Published(log'[i]), acked[d])
            BY <1>a DEF AckRecorded
        <2>1. ASSUME NEW i \in ReadyRecords(d),
                     phase \in Up => jobs[i] # NoJob /\ terminal(jobs[i].status)
              PROVE  i \in ReadyRecords(d)' /\ log'[i] = log[i]
            BY <2>1 DEF ReadyRecords, Records
        <2> QED BY <1>a, <2>1 DEF AckRecorded
    <1>5. BackendCovers'
        BY <1>a, <1>c DEF BackendCovers
    <1>6. ReadyPublished'
        BY <1>b DEF ReadyPublished
    <1>7. CheckpointCovers'
        BY <1>b DEF CheckpointCovers, CheckpointPc
    <1> QED BY <1>1, <1>2, <1>3, <1>4, <1>5, <1>6, <1>7 DEF DurabilityInv

(* The ends of a process preserve it: a crash, a shutdown, a failed recovery
   leave only what is on disk. *)
LEMMA EndOfProcess ==
    ASSUME DurabilityInv,
           \/ Crash \/ Stopped \/ \E id \in JobId : RecoverJobFails(id)
    PROVE  DurabilityInv'
    <1>a. TypeOK /\ References /\ Revisions
        BY DEF DurabilityInv
    <1>1. CASE Crash
        <2>1. crashes' \in 0..MaxCrashes /\ faults' \in 0..MaxFaults
            BY <1>a, <1>1, ConstantsAssumption DEF Crash, TypeOK
        <2>2. log' \in [JobId -> Job \cup {NoJob}] /\ log' = log
            BY <1>a, <1>1 DEF Crash, TypeOK, durable
        <2> QED BY <1>1, <2>1, <2>2, ClearedStep DEF Crash, durable
    <1>2. CASE Stopped
        <2>1. crashes' \in 0..MaxCrashes /\ faults' \in 0..MaxFaults
            BY <1>a, <1>2 DEF Stopped, TypeOK
        <2>2. log' \in [JobId -> Job \cup {NoJob}] /\ log' = log
            BY <1>a, <1>2 DEF Stopped, TypeOK, durable
        <2> QED BY <1>2, <2>1, <2>2, ClearedStep DEF Stopped, durable
    <1>3. ASSUME NEW id \in JobId, RecoverJobFails(id) PROVE DurabilityInv'
        <2> DEFINE job == RecoveredJob(jobs[id])
        <2>1. /\ phase \in Up /\ jobs[id] # NoJob /\ ~terminal(jobs[id].status)
              /\ jobs[id] \in Job
            BY <1>a, <1>3 DEF RecoverJobFails, References, TypeOK, Up
        <2>2. /\ job \in Job /\ job # NoJob /\ job.status # "ready"
              /\ job.rev = jobs[id].rev
            BY <1>a, <2>1, RecoveredFacts, NoJobAssumption DEF TypeOK
        <2>3. crashes' \in 0..MaxCrashes /\ faults' \in 0..MaxFaults
            BY <1>a, <1>3, ConstantsAssumption DEF RecoverJobFails, PersistFails, TypeOK
        <2>4. log' \in {log, [log EXCEPT ![id] = job]}
            BY <1>3 DEF RecoverJobFails, PersistFails
        <2> HIDE DEF job
        <2>5. /\ log' \in [JobId -> Job \cup {NoJob}]
              /\ \A i \in JobId : log'[i] = log[i] \/ (i = id /\ log'[i] = job)
            BY <1>a, <2>2, <2>4 DEF TypeOK
        <2> QED BY <1>3, <2>1, <2>2, <2>3, <2>5, ClearedStep DEF RecoverJobFails
    <1> QED BY <1>1, <1>2, <1>3

(* Steps that change nothing but the phase.                                *)
LEMMA PhaseStep ==
    ASSUME DurabilityInv, OpenRefused \/ StartWorkers \/ Shutdown
    PROVE  DurabilityInv'
    <1> USE DEF durable, volatile
    <1>a. /\ TypeOK /\ References /\ Revisions /\ AckRecorded /\ BackendCovers
          /\ ReadyPublished /\ CheckpointCovers
        BY DEF DurabilityInv
    <1>b. /\ UNCHANGED <<volatile, log, ckptFile, acked, nextId, faults>>
          /\ crashes' = crashes \/ (crashes < MaxCrashes /\ crashes' = crashes + 1)
        BY DEF OpenRefused, StartWorkers, Shutdown
    <1>c. /\ phase' \in Phase
          /\ (phase' \in Up) <=> (phase \in Up)
          /\ toRecover = {}
        BY <1>a DEF OpenRefused, StartWorkers, Shutdown, Phase, Up, References
    <1>1. TypeOK'
        <2>1. crashes' \in 0..MaxCrashes
            BY <1>a, <1>b, ConstantsAssumption DEF TypeOK
        <2> QED BY <1>a, <1>b, <1>c, <2>1 DEF TypeOK
    <1>2. References'
        BY <1>a, <1>b, <1>c DEF References
    <1>3. Revisions'
        BY <1>a, <1>b DEF Revisions
    <1>4. AckRecorded'
        BY <1>a, <1>b, <1>c DEF AckRecorded, ReadyRecords, Records
    <1>5. BackendCovers'
        BY <1>a, <1>b, <1>c DEF BackendCovers, ReadyRecords, Records
    <1>6. ReadyPublished'
        BY <1>a, <1>b DEF ReadyPublished
    <1>7. CheckpointCovers'
        BY <1>a, <1>b DEF CheckpointCovers, PositionCoveredBy
    <1> QED BY <1>1, <1>2, <1>3, <1>4, <1>5, <1>6, <1>7 DEF DurabilityInv

(* The newest ready record covers every ready record of the document.      *)
LEMMA ActiveReadyCovers ==
    ASSUME DurabilityInv, NEW d \in Doc, NEW id \in ReadyRecords(d),
           IsActiveReady(d, id), NEW other \in ReadyRecords(d)
    PROVE  Covers(Published(log[id]), Published(log[other]))
    <1>1. /\ id \in JobId /\ other \in JobId /\ log[id] \in Job /\ log[other] \in Job
        BY DEF DurabilityInv, TypeOK, ReadyRecords, Records
    <1>2. 0 \notin JobId
        BY DEF JobId
    <1>3. log[other].rev <= log[id].rev
        BY <1>1, <1>2 DEF IsActiveReady
    <1>4. log[other].rev = log[id].rev => log[other].val = log[id].val
        BY DEF DurabilityInv, BackendCovers
    <1> QED BY <1>1, <1>3, <1>4, ConstantsAssumption DEF Covers, Published, Job

(* Recovery: what the checkpoint restores and the log replays covers every *)
(* version that was acknowledged before the process went down.             *)
LEMMA OpenStep ==
    ASSUME DurabilityInv, Open
    PROVE  DurabilityInv'
    <1> USE DEF durable
    <1>a. /\ TypeOK /\ References /\ Revisions /\ AckRecorded /\ BackendCovers
          /\ phase = "down" /\ phase \notin Up
          /\ phase' = "recovering" /\ phase' \in Up /\ jobs' = log
          /\ UNCHANGED <<queue, pc, cur, deletions, ckptPos, ckptSnap, log,
                         ckptFile, acked, nextId, faults, crashes>>
        BY DEF DurabilityInv, Open, Up
    <1>b. queue = <<>> /\ deletions = {} /\ \A t \in Thread : pc[t] = "idle"
        BY <1>a DEF References
    <1>c. 0 \notin JobId /\ 0 \in 0..MaxJobs /\ \A i \in 0..MaxJobs : i # 0 => i \in JobId
        BY ConstantsAssumption DEF JobId
    <1>d. PICK ready \in [Doc -> 0..MaxJobs] :
            /\ \A d \in Doc : IsActiveReady(d, ready[d])
            /\ \A d \in Doc : Replayable(d, ready[d])
            /\ backend' = [d \in Doc |-> IF ready[d] = 0 THEN ckptFile[d]
                                         ELSE Published(log[ready[d]])]
        BY DEF Open
    <1>e. PICK latest \in [Doc -> 0..MaxJobs] :
            /\ \A d \in Doc : IsLatestRecord(d, latest[d])
            /\ latestJob' = latest
            /\ latestRev' = [d \in Doc |-> IF latest[d] = 0 THEN 0
                                           ELSE log[latest[d]].rev]
        BY DEF Open
    <1>f. \A d \in Doc : ready[d] # 0 =>
            /\ ready[d] \in ReadyRecords(d) /\ log[ready[d]] \in Job
            /\ Accepts(ckptFile[d], log[ready[d]])
        <2> SUFFICES ASSUME NEW d \in Doc, ready[d] # 0
                     PROVE  /\ ready[d] \in ReadyRecords(d) /\ log[ready[d]] \in Job
                            /\ Accepts(ckptFile[d], log[ready[d]])
            OBVIOUS
        <2>1. ready[d] \in ReadyRecords(d)
            BY <1>d DEF IsActiveReady
        <2>2. log[ready[d]] \in Job
            BY <1>a, <2>1 DEF ReadyRecords, Records, TypeOK
        <2> QED BY <1>d, <2>1, <2>2 DEF Replayable
    <1>g. \A d \in Doc : ready[d] = 0 => ReadyRecords(d) = {}
        BY <1>c, <1>d DEF IsActiveReady, ReadyRecords, Records
    <1>h. \A d \in Doc : latest[d] # 0 => latest[d] \in Records(d) /\ log[latest[d]] \in Job
        BY <1>a, <1>e DEF IsLatestRecord, Records, TypeOK
    <1>i. \A d \in Doc : \A i \in Records(d) :
            latest[d] # 0 /\ log[i].rev <= log[latest[d]].rev
        <2> SUFFICES ASSUME NEW d \in Doc, NEW i \in Records(d)
                     PROVE  latest[d] # 0 /\ log[i].rev <= log[latest[d]].rev
            OBVIOUS
        <2>1. latest[d] # 0
            BY <1>c, <1>e DEF IsLatestRecord, Records
        <2>2. log[i] \in Job /\ log[latest[d]] \in Job
            BY <1>a, <1>h, <2>1 DEF Records, TypeOK
        <2>3. log[i].rev \in Nat /\ log[latest[d]].rev \in Nat
            BY <2>2 DEF Job
        <2>4. log[i].rev < log[latest[d]].rev \/ log[i].rev = log[latest[d]].rev
            BY <1>e, <2>1 DEF IsLatestRecord
        <2> QED BY <2>1, <2>3, <2>4
    <1>j. \A d \in Doc : ckptFile[d] \in Version /\ acked[d] \in Version
        BY <1>a DEF TypeOK
    <1>k. \A d \in Doc : backend'[d] = IF ready[d] = 0 THEN ckptFile[d]
                                       ELSE Published(log[ready[d]])
        BY <1>d
    <1>l. \A d \in Doc : backend'[d] \in Version
        BY <1>f, <1>j, <1>k, PublishedFacts
    <1>1. TypeOK'
        <2>1. backend' \in [Doc -> Version]
            BY <1>d, <1>l
        <2>2. latestRev' \in [Doc -> 0..MaxJobs]
            <3>1. \A d \in Doc : latest[d] # 0 => log[latest[d]].rev \in 0..MaxJobs
                BY <1>h DEF Job
            <3> QED BY <1>c, <1>e, <3>1
        <2>3. toRecover' \subseteq JobId
            BY DEF Open
        <2>4. phase' \in Phase
            BY <1>a DEF Phase
        <2> QED BY <1>a, <1>e, <2>1, <2>2, <2>3, <2>4 DEF TypeOK
    <1>2. References'
        <2>1. \A i \in toRecover' : jobs'[i] # NoJob /\ ~terminal(jobs'[i].status)
            BY <1>a DEF Open
        <2> QED BY <1>a, <1>b, <2>1 DEF References
    <1>3. Revisions'
        <2>1. \A d \in Doc : latestRev'[d] = IF latest[d] = 0 THEN 0 ELSE log[latest[d]].rev
            BY <1>e
        <2>2. nextId \in Nat
            BY <1>a DEF TypeOK
        <2>3. \A d \in Doc : latestRev'[d] <= nextId
            BY <1>a, <1>h, <2>1, <2>2 DEF Revisions, Records
        <2>4. ASSUME NEW i \in JobId, jobs'[i] # NoJob
              PROVE  jobs'[i].rev <= nextId /\ jobs'[i].rev <= latestRev'[jobs'[i].doc]
            <3>1. log[i] # NoJob /\ log[i] \in Job /\ log[i].doc \in Doc
                BY <1>a, <2>4 DEF TypeOK, Job
            <3>2. i \in Records(log[i].doc)
                BY <3>1 DEF Records
            <3> QED BY <1>a, <1>i, <2>1, <3>1, <3>2 DEF Revisions
        <2> QED BY <1>a, <2>3, <2>4 DEF Revisions
    <1>4. AckRecorded'
        <2>1. \A d \in Doc : ReadyRecords(d)' = ReadyRecords(d)
            BY <1>a DEF ReadyRecords, Records
        <2>2. \A d \in Doc : \A i \in ReadyRecords(d) :
                log[i] # NoJob /\ terminal(log[i].status)
            BY DEF ReadyRecords, Records, terminal
        <2> QED BY <1>a, <2>1, <2>2 DEF AckRecorded
    <1>5. BackendCovers'
        <2>1. \A d \in Doc : ReadyRecords(d)' = ReadyRecords(d)
            BY <1>a DEF ReadyRecords, Records
        <2>2. ASSUME NEW d \in Doc PROVE Covers(backend'[d], ckptFile[d])
            BY <1>f, <1>j, <1>k, AcceptsCovers DEF Covers
        <2>3. ASSUME NEW d \in Doc, NEW i \in ReadyRecords(d)
              PROVE  Covers(backend'[d], Published(log[i])) /\ Published(log[i]) \in Version
            <3>1. ready[d] # 0 /\ ready[d] \in ReadyRecords(d)
                BY <1>f, <1>g
            <3>2. log[i] \in Job
                BY <1>a DEF ReadyRecords, Records, TypeOK
            <3> QED BY <1>d, <1>k, <3>1, <3>2, ActiveReadyCovers, PublishedFacts
        <2>4. ASSUME NEW d \in Doc PROVE Covers(backend'[d], acked[d])
            <3>1. CASE Covers(ckptFile[d], acked[d])
                BY <1>j, <1>l, <2>2, <3>1, CoversTransitive
            <3>2. ASSUME NEW i \in ReadyRecords(d), Covers(Published(log[i]), acked[d])
                  PROVE  Covers(backend'[d], acked[d])
                BY <1>j, <1>l, <2>3, <3>2, CoversTransitive
            <3> QED BY <1>a, <3>1, <3>2 DEF AckRecorded
        <2> QED BY <1>a, <2>1, <2>2, <2>3, <2>4 DEF BackendCovers
    <1>6. ReadyPublished'
        BY <1>a, <1>b DEF ReadyPublished
    <1>7. CheckpointCovers'
        BY <1>a, <1>b DEF CheckpointCovers, CheckpointPc
    <1> QED BY <1>1, <1>2, <1>3, <1>4, <1>5, <1>6, <1>7 DEF DurabilityInv

(* recover() rewrites one nonterminal job.                                 *)
LEMMA RecoverJobStep ==
    ASSUME DurabilityInv, NEW id \in JobId, RecoverJob(id)
    PROVE  DurabilityInv'
    <1> DEFINE job == RecoveredJob(jobs[id])
    <1>a. /\ TypeOK /\ References /\ Revisions /\ AckRecorded /\ BackendCovers
          /\ phase = "recovering" /\ phase \in Up /\ id \in toRecover
          /\ jobs' = [jobs EXCEPT ![id] = job] /\ log' = [log EXCEPT ![id] = job]
          /\ faults' = faults /\ toRecover' = toRecover \ {id}
          /\ UNCHANGED <<phase, latestRev, latestJob, pc, cur, backend, ckptPos,
                         ckptSnap, ckptFile, acked, nextId, crashes>>
        BY DEF DurabilityInv, RecoverJob, Persist, Up
    <1>b. /\ jobs[id] # NoJob /\ ~terminal(jobs[id].status) /\ jobs[id] \in Job
          /\ \A t \in Thread : pc[t] = "idle"
        BY <1>a DEF References, TypeOK
    <1>c. /\ job \in Job /\ job # NoJob /\ job.doc = jobs[id].doc
          /\ job.rev = jobs[id].rev /\ job.status # "ready"
        BY <1>a, <1>b, RecoveredFacts, NoJobAssumption DEF TypeOK
    <1>d. /\ queue' = queue \/ queue' = Append(queue, id)
          /\ deletions' = deletions \/ deletions' = deletions \cup {id}
        BY DEF RecoverJob
    <1> HIDE DEF job
    <1>e. /\ jobs' \in [JobId -> Job \cup {NoJob}] /\ log' \in [JobId -> Job \cup {NoJob}]
          /\ jobs'[id] = job /\ log'[id] = job
          /\ \A i \in JobId : i # id => jobs'[i] = jobs[i] /\ log'[i] = log[i]
        BY <1>a, <1>c DEF TypeOK
    <1>f. \A d \in Doc : ReadyRecords(d)' \subseteq ReadyRecords(d)
                        /\ \A i \in ReadyRecords(d)' : log'[i] = log[i]
        BY <1>c, <1>e DEF ReadyRecords, Records
    <1>g. queue \in Seq(JobId) /\ queue' \in Seq(JobId)
        BY <1>a, <1>d, AppendType, Zenon DEF TypeOK
    <1>1. TypeOK'
        BY <1>a, <1>d, <1>e, <1>g DEF TypeOK
    <1>2. References'
        <2>1. \A i \in JobId : jobs[i] # NoJob => jobs'[i] # NoJob
            BY <1>c, <1>e
        <2>2. \A i \in DOMAIN queue : queue[i] \in JobId /\ jobs'[queue[i]] # NoJob
            BY <1>a, <1>g, <2>1 DEF References
        <2>3. \A i \in DOMAIN queue' : jobs'[queue'[i]] # NoJob
            <3>1. CASE queue' = queue
                BY <2>2, <3>1
            <3>2. CASE queue' = Append(queue, id)
                BY <1>c, <1>e, <1>g, <2>2, <3>2
            <3> QED BY <1>d, <3>1, <3>2
        <2>4. \A i \in deletions' : jobs'[i] # NoJob
            BY <1>a, <1>b, <1>d, <2>1 DEF References, TypeOK
        <2>5. \A i \in toRecover' : jobs'[i] # NoJob /\ ~terminal(jobs'[i].status)
            BY <1>a, <1>e DEF References, TypeOK
        <2> QED BY <1>a, <1>b, <2>3, <2>4, <2>5 DEF References
    <1>3. Revisions'
        BY <1>a, <1>b, <1>c, <1>e DEF Revisions
    <1>4. AckRecorded'
        <2> SUFFICES ASSUME NEW d \in Doc
                     PROVE  \/ Covers(ckptFile[d], acked[d])
                            \/ \E i \in ReadyRecords(d)' :
                                 /\ Covers(Published(log'[i]), acked[d])
                                 /\ jobs'[i] # NoJob /\ terminal(jobs'[i].status)
            BY <1>a DEF AckRecorded
        <2>1. ASSUME NEW i \in ReadyRecords(d), jobs[i] # NoJob, terminal(jobs[i].status)
              PROVE  i \in ReadyRecords(d)' /\ log'[i] = log[i] /\ jobs'[i] = jobs[i]
            BY <1>b, <1>e, <2>1 DEF ReadyRecords, Records
        <2> QED BY <1>a, <2>1 DEF AckRecorded
    <1>5. BackendCovers'
        BY <1>a, <1>f DEF BackendCovers
    <1>6. ReadyPublished'
        BY <1>a, <1>b DEF ReadyPublished
    <1>7. CheckpointCovers'
        BY <1>a, <1>b DEF CheckpointCovers, CheckpointPc
    <1> QED BY <1>1, <1>2, <1>3, <1>4, <1>5, <1>6, <1>7 DEF DurabilityInv

-----------------------------------------------------------------------------
(* checkpoint_embedded()                                                   *)

(* The position is read before the snapshot is taken: every ready record   *)
(* up to the position is already in the backend.  The maintenance lock     *)
(* keeps a second checkpoint out.                                          *)
LEMMA BeginCheckpointStep ==
    ASSUME DurabilityInv, "caller" \notin CheckpointBy,
           NEW t \in Thread, BeginCheckpoint(t)
    PROVE  DurabilityInv'
    <1> USE DEF durable
    <1>a. /\ TypeOK /\ References /\ Revisions /\ AckRecorded /\ BackendCovers
          /\ ReadyPublished /\ CheckpointCovers
          /\ ckptPos' = [ckptPos EXCEPT ![t] = log]
          /\ pc' = [pc EXCEPT ![t] = "capture"]
          /\ pc[t] = "onReady"
          /\ \A u \in Thread : ~HoldsMaintenanceLock(u)
          /\ UNCHANGED <<phase, jobs, latestRev, latestJob, queue, toRecover, cur,
                         deletions, backend, ckptSnap, log, ckptFile, acked,
                         nextId, faults, crashes>>
        BY DEF DurabilityInv, BeginCheckpoint, Goto
    <1>b. phase \in Up /\ toRecover = {}
        BY <1>a DEF References
    <1>c. /\ pc'[t] = "capture" /\ "capture" \in Pc /\ ckptPos'[t] = log
          /\ \A u \in Thread : u # t => pc'[u] = pc[u]
        BY <1>a DEF TypeOK, Pc, CheckpointPc
    <1>d. \A u \in Thread : pc[u] \notin CheckpointPc
        <2>1. 0 \notin JobId /\ "idle" \notin CheckpointPc
            BY DEF JobId, CheckpointPc
        <2> QED BY <1>a, <2>1 DEF HoldsMaintenanceLock, References
    <1>1. TypeOK'
        <2>1. pc' \in [Thread -> Pc]
            BY <1>a, <1>c DEF TypeOK
        <2>2. ckptPos' \in [Thread -> [JobId -> Job \cup {NoJob}]]
            BY <1>a DEF TypeOK
        <2> QED BY <1>a, <2>1, <2>2 DEF TypeOK
    <1>2. References'
        BY <1>a, <1>b, <1>c DEF References
    <1>3. Revisions'
        BY <1>a DEF Revisions
    <1>4. AckRecorded'
        BY <1>a DEF AckRecorded, ReadyRecords, Records
    <1>5. BackendCovers'
        BY <1>a DEF BackendCovers, ReadyRecords, Records
    <1>6. ReadyPublished'
        BY <1>a, <1>c DEF ReadyPublished
    <1>7. CheckpointCovers'
        <2>1. ASSUME NEW i \in JobId, log[i] # NoJob, log[i].status = "ready"
              PROVE  Covers(backend[log[i].doc], Published(log[i]))
            <3>1. log[i].doc \in Doc
                BY <1>a, <2>1 DEF TypeOK, Job
            <3>2. i \in ReadyRecords(log[i].doc)
                BY <2>1 DEF ReadyRecords, Records
            <3> QED BY <1>a, <1>b, <3>1, <3>2 DEF BackendCovers
        <2>2. PositionCoveredBy(ckptPos'[t], backend')
            BY <1>a, <1>c, <2>1 DEF PositionCoveredBy
        <2>3. \A u \in Thread : pc'[u] \in CheckpointPc => u = t
            BY <1>c, <1>d
        <2> QED BY <1>c, <2>2, <2>3 DEF CheckpointCovers, CheckpointPc
    <1> QED BY <1>1, <1>2, <1>3, <1>4, <1>5, <1>6, <1>7 DEF DurabilityInv

(* The snapshot is a moment of the backend at or after the position.       *)
LEMMA CaptureCheckpointStep ==
    ASSUME DurabilityInv, NEW t \in Thread, CaptureCheckpoint(t)
    PROVE  DurabilityInv'
    <1> USE DEF durable
    <1>a. /\ TypeOK /\ References /\ Revisions /\ AckRecorded /\ BackendCovers
          /\ ReadyPublished /\ CheckpointCovers
          /\ pc[t] = "capture" /\ ckptSnap' = [ckptSnap EXCEPT ![t] = backend]
          /\ pc' = [pc EXCEPT ![t] = "save"]
          /\ UNCHANGED <<phase, jobs, latestRev, latestJob, queue, toRecover, cur,
                         deletions, backend, ckptPos, log, ckptFile, acked,
                         nextId, faults, crashes>>
        BY DEF DurabilityInv, CaptureCheckpoint, Goto
    <1>b. phase \in Up /\ toRecover = {}
        BY <1>a DEF References
    <1>c. /\ pc'[t] = "save" /\ "save" \in Pc /\ ckptSnap'[t] = backend
          /\ \A u \in Thread : u # t => pc'[u] = pc[u]
        BY <1>a DEF TypeOK, Pc, CheckpointPc
    <1>1. TypeOK'
        <2>1. pc' \in [Thread -> Pc]
            BY <1>a, <1>c DEF TypeOK
        <2>2. ckptSnap' \in [Thread -> [Doc -> Version]]
            BY <1>a DEF TypeOK
        <2> QED BY <1>a, <2>1, <2>2 DEF TypeOK
    <1>2. References'
        BY <1>a, <1>b, <1>c DEF References
    <1>3. Revisions'
        BY <1>a DEF Revisions
    <1>4. AckRecorded'
        BY <1>a DEF AckRecorded, ReadyRecords, Records
    <1>5. BackendCovers'
        BY <1>a DEF BackendCovers, ReadyRecords, Records
    <1>6. ReadyPublished'
        BY <1>a, <1>c DEF ReadyPublished
    <1>7. CheckpointCovers'
        <2>1. PositionCoveredBy(ckptPos'[t], ckptSnap'[t])
            BY <1>a, <1>c DEF PositionCoveredBy, CheckpointCovers
        <2>2. \A u \in Thread : pc'[u] \in CheckpointPc => u = t
            BY <1>a, <1>c DEF CheckpointCovers, CheckpointPc
        <2>3. \A d \in Doc : /\ Covers(backend'[d], ckptSnap'[t][d])
                             /\ Covers(ckptSnap'[t][d], ckptFile'[d])
            BY <1>a, <1>b, <1>c DEF BackendCovers, Covers
        <2> QED BY <1>c, <2>1, <2>2, <2>3 DEF CheckpointCovers, CheckpointPc
    <1> QED BY <1>1, <1>2, <1>3, <1>4, <1>5, <1>6, <1>7 DEF DurabilityInv

(* The published checkpoint covers the one it replaces.                    *)
LEMMA SaveCheckpointStep ==
    ASSUME DurabilityInv, NEW t \in Thread, SaveCheckpoint(t)
    PROVE  DurabilityInv'
    <1>a. /\ TypeOK /\ References /\ Revisions /\ AckRecorded /\ BackendCovers
          /\ ReadyPublished /\ CheckpointCovers
          /\ pc[t] = "save" /\ ckptFile' = ckptSnap[t]
          /\ pc' = [pc EXCEPT ![t] = "truncate"]
          /\ UNCHANGED <<phase, jobs, latestRev, latestJob, queue, toRecover, cur,
                         deletions, backend, ckptPos, ckptSnap, log, acked,
                         nextId, faults, crashes>>
        BY DEF DurabilityInv, SaveCheckpoint, Goto
    <1>b. phase \in Up /\ toRecover = {}
        BY <1>a DEF References
    <1>c. /\ pc'[t] = "truncate" /\ "truncate" \in Pc
          /\ \A u \in Thread : u # t => pc'[u] = pc[u]
        BY <1>a DEF TypeOK, Pc, CheckpointPc
    <1>d. /\ PositionCoveredBy(ckptPos[t], ckptSnap[t])
          /\ \A d \in Doc : /\ Covers(backend[d], ckptSnap[t][d])
                            /\ Covers(ckptSnap[t][d], ckptFile[d])
        BY <1>a DEF CheckpointCovers
    <1>e. /\ ckptSnap[t] \in [Doc -> Version]
          /\ \A d \in Doc : /\ ckptSnap[t][d] \in Version /\ ckptFile[d] \in Version
                            /\ acked[d] \in Version
        BY <1>a DEF TypeOK
    <1>1. TypeOK'
        BY <1>a, <1>c, <1>e DEF TypeOK
    <1>2. References'
        BY <1>a, <1>b, <1>c DEF References
    <1>3. Revisions'
        BY <1>a DEF Revisions
    <1>4. AckRecorded'
        <2>1. \A d \in Doc : Covers(ckptFile[d], acked[d]) => Covers(ckptFile'[d], acked[d])
            BY <1>a, <1>d, <1>e, CoversTransitive
        <2> QED BY <1>a, <2>1 DEF AckRecorded, ReadyRecords, Records
    <1>5. BackendCovers'
        BY <1>a, <1>d DEF BackendCovers, ReadyRecords, Records
    <1>6. ReadyPublished'
        BY <1>a, <1>c DEF ReadyPublished
    <1>7. CheckpointCovers'
        <2>1. PositionCoveredBy(ckptPos'[t], ckptFile')
            BY <1>a, <1>d
        <2>2. \A u \in Thread : pc'[u] \in CheckpointPc => u = t
            BY <1>a, <1>c DEF CheckpointCovers, CheckpointPc
        <2> QED BY <1>c, <2>1, <2>2 DEF CheckpointCovers, CheckpointPc
    <1> QED BY <1>1, <1>2, <1>3, <1>4, <1>5, <1>6, <1>7 DEF DurabilityInv

(* A checkpoint ends: compaction drops only records that the published     *)
(* checkpoint covers; an error drops none.                                 *)
LEMMA EndCheckpointStep ==
    ASSUME DurabilityInv, NEW t \in Thread, pc[t] \in CheckpointPc, EndCheckpoint(t),
           log' \in [JobId -> Job \cup {NoJob}],
           \A i \in JobId : \/ log'[i] = log[i]
                            \/ /\ log'[i] = NoJob /\ log[i] = ckptPos[t][i]
                               /\ pc[t] = "truncate",
           UNCHANGED <<phase, jobs, latestRev, latestJob, queue, toRecover,
                       deletions, backend, ckptFile, acked, nextId, faults, crashes>>
    PROVE  DurabilityInv'
    <1>a. /\ TypeOK /\ References /\ Revisions /\ AckRecorded /\ BackendCovers
          /\ ReadyPublished /\ CheckpointCovers
          /\ pc' = [pc EXCEPT ![t] = "idle"] /\ cur' = [cur EXCEPT ![t] = 0]
          /\ ckptPos' = [ckptPos EXCEPT ![t] = NoJobs]
          /\ ckptSnap' = [ckptSnap EXCEPT ![t] = NoVersions]
        BY DEF DurabilityInv, EndCheckpoint, Finish
    <1>b. phase \in Up /\ toRecover = {}
        BY <1>a DEF References, CheckpointPc
    <1>c. /\ pc'[t] = "idle" /\ "idle" \in Pc
          /\ \A u \in Thread : u # t => pc'[u] = pc[u] /\ cur'[u] = cur[u]
        BY <1>a DEF TypeOK, Pc
    <1>d. \A d \in Doc : ReadyRecords(d)' \subseteq ReadyRecords(d)
                        /\ \A i \in ReadyRecords(d)' : log'[i] = log[i]
        BY DEF ReadyRecords, Records
    <1>1. TypeOK'
        <2>1. Absent \in Version /\ 0 \in 0..MaxJobs
            BY ConstantsAssumption DEF Absent, Version, Value
        <2>2. NoJobs \in [JobId -> Job \cup {NoJob}] /\ NoVersions \in [Doc -> Version]
            BY <2>1 DEF NoJobs, NoVersions
        <2>3. cur' \in [Thread -> 0..MaxJobs]
            BY <1>a, <2>1, Zenon DEF TypeOK
        <2>4. pc' \in [Thread -> Pc]
            BY <1>a, <1>c DEF TypeOK
        <2>5. /\ ckptPos' \in [Thread -> [JobId -> Job \cup {NoJob}]]
              /\ ckptSnap' \in [Thread -> [Doc -> Version]]
            BY <1>a, <2>2 DEF TypeOK
        <2> QED BY <1>a, <2>3, <2>4, <2>5 DEF TypeOK
    <1>2. References'
        BY <1>a, <1>b, <1>c DEF References
    <1>3. Revisions'
        BY <1>a DEF Revisions
    <1>4. AckRecorded'
        <2> SUFFICES ASSUME NEW d \in Doc
                     PROVE  \/ Covers(ckptFile[d], acked[d])
                            \/ \E i \in ReadyRecords(d)' :
                                 /\ Covers(Published(log'[i]), acked[d])
                                 /\ jobs[i] # NoJob /\ terminal(jobs[i].status)
            BY <1>a DEF AckRecorded
        <2>1. ASSUME NEW i \in ReadyRecords(d), Covers(Published(log[i]), acked[d]),
                     log'[i] # log[i]
              PROVE  Covers(ckptFile[d], acked[d])
            <3>1. /\ i \in JobId /\ ckptPos[t][i] = log[i] /\ log[i] # NoJob
                  /\ log[i].doc = d /\ log[i].status = "ready" /\ log[i] \in Job
                  /\ pc[t] = "truncate"
                BY <1>a, <2>1 DEF ReadyRecords, Records, TypeOK
            <3>2. Covers(ckptFile[d], Published(log[i]))
                BY <1>a, <3>1 DEF CheckpointCovers, PositionCoveredBy
            <3>3. /\ Published(log[i]) \in Version /\ ckptFile[d] \in Version
                  /\ acked[d] \in Version
                BY <1>a, <3>1, PublishedFacts DEF TypeOK
            <3> QED BY <2>1, <3>2, <3>3, CoversTransitive
        <2>2. ASSUME NEW i \in ReadyRecords(d), log'[i] = log[i]
              PROVE  i \in ReadyRecords(d)'
            BY <2>2 DEF ReadyRecords, Records
        <2> QED BY <1>a, <1>b, <2>1, <2>2 DEF AckRecorded
    <1>5. BackendCovers'
        BY <1>a, <1>d DEF BackendCovers
    <1>6. ReadyPublished'
        BY <1>a, <1>c DEF ReadyPublished
    <1>7. CheckpointCovers'
        <2>1. \A u \in Thread : pc'[u] \notin CheckpointPc
            BY <1>a, <1>c DEF CheckpointCovers, CheckpointPc
        <2> QED BY <2>1 DEF CheckpointCovers, CheckpointPc
    <1> QED BY <1>1, <1>2, <1>3, <1>4, <1>5, <1>6, <1>7 DEF DurabilityInv

(* The ends of a checkpoint preserve it: the truncation of the job log behind
   the saved file, or the failure of a step. *)
LEMMA EndCheckpointActions ==
    ASSUME DurabilityInv, NEW t \in Thread, TruncatePrefix(t) \/ CheckpointFails(t)
    PROVE  DurabilityInv'
    <1>0. TypeOK
        BY DEF DurabilityInv
    <1>1. CASE TruncatePrefix(t)
        <2> DEFINE history == PrefixTerminal(ckptPos[t])
        <2>1. PICK kept : log' = [i \in JobId |-> IF i \in history \ kept THEN NoJob
                                                 ELSE log[i]]
            BY <1>1 DEF TruncatePrefix
        <2>2. \A i \in history : log[i] = ckptPos[t][i]
            BY DEF PrefixTerminal
        <2> HIDE DEF history
        <2>3. /\ log' \in [JobId -> Job \cup {NoJob}]
              /\ \A i \in JobId : \/ log'[i] = log[i]
                                  \/ log'[i] = NoJob /\ log[i] = ckptPos[t][i]
            BY <1>0, <2>1, <2>2 DEF TypeOK
        <2> QED BY <1>1, <2>3, EndCheckpointStep DEF TruncatePrefix, CheckpointPc
    <1>2. CASE CheckpointFails(t)
        <2>1. log' = log /\ log' \in [JobId -> Job \cup {NoJob}] /\ pc[t] \in CheckpointPc
            BY <1>0, <1>2 DEF CheckpointFails, TypeOK, durable, CheckpointPc
        <2> QED BY <1>2, <2>1, EndCheckpointStep DEF CheckpointFails, durable
    <1> QED BY <1>1, <1>2

-----------------------------------------------------------------------------
(* Theorems                                                                *)

(* The invariant holds of the empty installation. *)
LEMMA InitDurability == Init => DurabilityInv
    <1> SUFFICES ASSUME Init PROVE DurabilityInv
        OBVIOUS
    <1>a. Absent \in Version /\ 0 \in 0..MaxJobs /\ "idle" \in Pc /\ "down" \notin Up
        BY ConstantsAssumption DEF Absent, Version, Value, Pc, CheckpointPc, Up
    <1>b. /\ \A i \in JobId : jobs[i] = NoJob /\ log[i] = NoJob
          /\ \A d \in Doc : latestRev[d] = 0 /\ ckptFile[d] = Absent /\ acked[d] = Absent
          /\ \A t \in Thread : pc[t] = "idle"
          /\ \A d \in Doc : ReadyRecords(d) = {}
        BY DEF Init, NoJobs, NoVersions, ReadyRecords, Records
    <1>1. TypeOK
        <2>1. /\ jobs \in [JobId -> Job \cup {NoJob}] /\ log \in [JobId -> Job \cup {NoJob}]
              /\ backend \in [Doc -> Version]
              /\ ckptFile \in [Doc -> Version] /\ acked \in [Doc -> Version]
            BY <1>a DEF Init, NoJobs, NoVersions
        <2>2. /\ latestRev \in [Doc -> 0..MaxJobs] /\ latestJob \in [Doc -> 0..MaxJobs]
              /\ pc \in [Thread -> Pc] /\ cur \in [Thread -> 0..MaxJobs]
            BY <1>a DEF Init
        <2>3. /\ phase \in Phase /\ queue \in Seq(JobId) /\ toRecover \subseteq JobId
              /\ deletions \subseteq JobId /\ nextId \in 0..MaxJobs
              /\ faults \in 0..MaxFaults /\ crashes \in 0..MaxCrashes
            BY ConstantsAssumption DEF Init, Phase
        <2>4. NoJobs \in [JobId -> Job \cup {NoJob}] /\ NoVersions \in [Doc -> Version]
            BY <1>a DEF NoJobs, NoVersions
        <2>5. /\ ckptPos \in [Thread -> [JobId -> Job \cup {NoJob}]]
              /\ ckptSnap \in [Thread -> [Doc -> Version]]
            BY <2>4 DEF Init
        <2> QED BY <2>1, <2>2, <2>3, <2>5 DEF TypeOK
    <1>2. References
        BY <1>b DEF Init, References
    <1>3. Revisions
        BY <1>b DEF Init, Revisions
    <1>4. AckRecorded
        BY <1>b DEF AckRecorded, Covers
    <1>5. BackendCovers
        BY <1>a, <1>b DEF Init, BackendCovers
    <1>6. ReadyPublished
        BY <1>b DEF ReadyPublished
    <1>7. CheckpointCovers
        BY <1>b DEF CheckpointCovers, CheckpointPc
    <1> QED BY <1>1, <1>2, <1>3, <1>4, <1>5, <1>6, <1>7 DEF DurabilityInv

(* Every step preserves it unless callers take checkpoints. *)
LEMMA NextDurability ==
    ASSUME "caller" \notin CheckpointBy, DurabilityInv, [Next]_vars
    PROVE  DurabilityInv'
    <1>1. CASE Recovering
        BY <1>1, OpenStep, PhaseStep, RecoverJobStep, TakeActions DEF Recovering
    <1>2. ASSUME NEW t \in Thread, Execute(t) PROVE DurabilityInv'
        BY <1>2, ExecuteMoves, PublishStep, FailVolatileStep, CaptureCheckpointStep,
           SaveCheckpointStep, EndCheckpointActions DEF Execute
    <1>3. ASSUME NEW t \in Thread, BeginCheckpoint(t) PROVE DurabilityInv'
        BY <1>3, BeginCheckpointStep
    <1>4. ASSUME NEW c \in Client, Request(c) PROVE DurabilityInv'
        <2>1. NoDoc \in Value /\ Hash \subseteq Value
            BY DEF Value
        <2>2. \A d \in Doc : Pending(d) \subseteq JobId
            BY DEF Pending
        <2> QED BY <1>4, <2>1, <2>2, RequestStep, TakeActions
                DEF Request, SubmitSync, SubmitJoins, Erase
    <1>5. CASE \E w \in Worker : Dequeue(w)
        BY <1>5, TakeActions
    <1>6. CASE Shutdown \/ Stopped \/ Crash \/ \E id \in JobId : RecoverJobFails(id)
        BY <1>6, PhaseStep, EndOfProcess
    <1>7. CASE UNCHANGED vars
        BY <1>7 DEF vars, volatile, durable, DurabilityInv, TypeOK, References,
            Revisions, AckRecorded, BackendCovers, ReadyPublished, CheckpointCovers,
            PositionCoveredBy, ReadyRecords, Records
    <1> QED BY <1>1, <1>2, <1>3, <1>4, <1>5, <1>6, <1>7 DEF Next

(* The inductive invariant holds in every behaviour, with any number of    *)
(* threads, crashes and failed appends, when checkpoints are taken under   *)
(* the maintenance lock only (on_ready of EmbeddedRuntime::open()).        *)
THEOREM DurabilityInvariant ==
    ASSUME "caller" \notin CheckpointBy
    PROVE  Spec => []DurabilityInv
    <1>1. Init => DurabilityInv
        BY InitDurability
    <1>2. DurabilityInv /\ [Next]_vars => DurabilityInv'
        BY NextDurability
    <1> QED BY <1>1, <1>2, PTL DEF Spec

(* Type correctness of the coordinator, the job log and the checkpoint.    *)
THEOREM TypeCorrect ==
    ASSUME "caller" \notin CheckpointBy
    PROVE  Spec => []TypeOK
    <1>1. DurabilityInv => TypeOK
        BY DEF DurabilityInv
    <1>2. Spec => []DurabilityInv
        BY DurabilityInvariant
    <1> QED BY <1>1, <1>2, PTL

(* A version reported as ready stays recoverable from the checkpoint and   *)
(* the log, whatever is compacted, fails or crashes (transition(),         *)
(* checkpoint_embedded(), truncate_prefix()).                              *)
THEOREM AcknowledgedIsDurable ==
    ASSUME "caller" \notin CheckpointBy
    PROVE  Spec => []DurableAck
    <1>1. DurabilityInv => DurableAck
        BY DEF DurabilityInv, AckRecorded, DurableAck
    <1>2. Spec => []DurabilityInv
        BY DurabilityInvariant
    <1> QED BY <1>1, <1>2, PTL

(* Whenever the runtime is open, what recover() replayed and the workers   *)
(* published is at least as recent as every acknowledged version.          *)
THEOREM AcknowledgedIsVisible ==
    ASSUME "caller" \notin CheckpointBy
    PROVE  Spec => []NoResurrection
    <1>1. DurabilityInv => NoResurrection
        BY DEF DurabilityInv, BackendCovers, NoResurrection
    <1>2. Spec => []DurabilityInv
        BY DurabilityInvariant
    <1> QED BY <1>1, <1>2, PTL

-----------------------------------------------------------------------------
(***************************************************************************)
(* The job table and the queue, on top of the durability invariant: what   *)
(* the newest ready job published is what the backend serves, every        *)
(* unfinished job is held in exactly one place, durable outcomes are       *)
(* final, and recovery is never refused.                                   *)
(***************************************************************************)
-----------------------------------------------------------------------------
(* What a step does to the job table                                       *)

(* job is written over jobs[id]: another state of the same unfinished job. *)
(* It is ready only when the backend has it, and unfinished only when it   *)
(* is still the newest of its document.                                    *)
Rewrites(id, job) ==
    /\ phase \in Up
    /\ jobs[id] # NoJob /\ ~terminal(jobs[id].status)
    /\ job \in Job
    /\ job.doc = jobs[id].doc /\ job.rev = jobs[id].rev /\ job.val = jobs[id].val
    /\ job.status = "ready" => backend[job.doc] = Published(job)
    /\ ~terminal(job.status) => /\ latestRev[job.doc] = job.rev
                                /\ job.content = jobs[id].content
    /\ jobs' = [jobs EXCEPT ![id] = job]
    /\ toRecover' \subseteq toRecover
    /\ \A i \in toRecover \ toRecover' : i = id
    /\ MaxFaults = 0 => log' = [log EXCEPT ![id] = job]
    /\ UNCHANGED <<phase, latestRev, latestJob, backend, nextId>>

(* A job is created: Create() of submit() or erase() in a running process. *)
Creates(d, v) ==
    /\ phase = "running"
    /\ Create(d, v)
    /\ UNCHANGED <<phase, backend, toRecover>>

(* The job table is left alone; the log may lose finished records.         *)
KeepsJobs ==
    /\ UNCHANGED <<jobs, latestRev, latestJob, toRecover>>
    /\ phase' \in Up => phase \in Up
    /\ MaxFaults = 0 =>
        /\ nextId' = nextId
        /\ \A id \in JobId :
            \/ log'[id] = log[id]
            \/ log[id] # NoJob /\ terminal(log[id].status) /\ log'[id] = NoJob

Publishes(t) ==
    /\ t \in Thread
    /\ Publish(t)
    /\ KeepsJobs /\ log' = log

(* The process is gone, or open() refused to start.                        *)
Ends ==
    /\ phase' \notin Up
    /\ jobs' = NoJobs \/ (jobs' = jobs /\ phase \notin Up)
    /\ MaxFaults = 0 => log' = log

(* A record that transition() writes over an unfinished job.               *)
LEMMA TransitionRewrites ==
    ASSUME DurabilityInv, NEW t \in Thread, pc[t] # "idle", NEW status \in Status,
           status = "ready" => pc[t] = "ready",
           ~terminal(jobs[cur[t]].status),
           NEW job, job = Advanced(jobs[cur[t]], status),
           log' = [log EXCEPT ![cur[t]] = job],
           jobs' = [jobs EXCEPT ![cur[t]] = job],
           UNCHANGED <<phase, latestRev, latestJob, toRecover, backend, nextId>>
    PROVE  Rewrites(cur[t], job)
    <1> DEFINE id == cur[t]
    <1>a. /\ id \in JobId /\ jobs[id] \in Job /\ phase \in Up /\ jobs[id] # NoJob
          /\ TypeOK /\ ReadyPublished
        BY WorkingJob, NoJobAssumption DEF DurabilityInv
    <1>1. /\ job \in Job /\ job.doc = jobs[id].doc /\ job.rev = jobs[id].rev
          /\ job.val = jobs[id].val
          /\ job.status = "ready" =>
                status = "ready" /\ latestRev[jobs[id].doc] = jobs[id].rev
        BY <1>a, AdvancedFacts DEF TypeOK
    <1>2. ~terminal(job.status) => latestRev[jobs[id].doc] = jobs[id].rev
        BY <1>a, SupersededFacts DEF Advanced, terminal
    <1>3. ~terminal(job.status) => job.content = jobs[id].content
        <2>1. ASSUME latestRev[jobs[id].doc] = jobs[id].rev, ~terminal(job.status)
              PROVE  /\ job.status = status
                     /\ job.content = (jobs[id].content /\ ~terminal(status))
            BY <1>a, <2>1 DEF Advanced, Job
        <2>2. jobs[id].content \in BOOLEAN
            BY <1>a DEF Job
        <2> QED BY <1>2, <2>1, <2>2
    <1>4. job.status = "ready" => backend[job.doc] = Published(job)
        BY <1>a, <1>1 DEF ReadyPublished, Published
    <1> QED BY <1>1, <1>2, <1>3, <1>4, <1>a DEF Rewrites

(* What transition() does to the table of jobs.                            *)
LEMMA TransitionKind ==
    ASSUME DurabilityInv, NEW t \in Thread, pc[t] # "idle",
           NEW status \in Status, NEW next \in Pc,
           status = "ready" => pc[t] = "ready",
           transition(t, status, next)
    PROVE  (KeepsJobs /\ backend' = backend) \/ \E id \in JobId, job \in Job : Rewrites(id, job)
    <1> DEFINE id == cur[t]
               job == Advanced(jobs[id], status)
    <1>a. /\ id \in JobId /\ jobs[id] \in Job /\ phase \in Up /\ jobs[id] # NoJob
          /\ TypeOK /\ References /\ ReadyPublished
        BY WorkingJob, NoJobAssumption DEF DurabilityInv
    <1>0. /\ UNCHANGED <<phase, latestRev, latestJob, toRecover, backend, nextId>>
          /\ UNCHANGED <<ckptPos, ckptSnap, ckptFile, queue, deletions, crashes>>
        BY DEF transition
    <1>1. CASE jobs' = jobs /\ log' = log
        BY <1>0, <1>1 DEF KeepsJobs
    <1>2. CASE ~terminal(jobs[id].status) /\ PersistFails(log, [log EXCEPT ![id] = job])
               /\ jobs' = jobs
        <2>1. MaxFaults # 0
            BY <1>2, <1>a DEF PersistFails, TypeOK
        <2> QED BY <1>0, <1>2, <2>1 DEF KeepsJobs
    <1>3. CASE /\ ~terminal(jobs[id].status)
               /\ log' = [log EXCEPT ![id] = job]
               /\ jobs' = [jobs EXCEPT ![id] = job]
        <2>1. job \in Job
            BY <1>a, AdvancedFacts DEF TypeOK
        <2>2. Rewrites(id, job)
            BY <1>0, <1>3, TransitionRewrites
        <2> QED BY <1>a, <2>1, <2>2
    <1> QED BY <1>1, <1>2, <1>3 DEF transition, Persist

(* What recover() does to the table of jobs for one unfinished record.     *)
LEMMA RecoverJobKind ==
    ASSUME DurabilityInv, NEW id \in JobId, RecoverJob(id)
    PROVE  \E job \in Job : Rewrites(id, job)
    <1> DEFINE job == RecoveredJob(jobs[id])
    <1>a. /\ TypeOK /\ jobs[id] # NoJob /\ jobs[id] \in Job /\ ~terminal(jobs[id].status)
          /\ phase \in Up
        BY DEF Up, RecoverJob, DurabilityInv, References, TypeOK
    <1>1. /\ job \in Job /\ job.doc = jobs[id].doc /\ job.rev = jobs[id].rev
          /\ job.val = jobs[id].val /\ job.status \in {"queued", "superseded"}
        BY <1>a, RecoveredFacts DEF TypeOK
    <1>2. ~terminal(job.status) => /\ latestRev[jobs[id].doc] = jobs[id].rev
                                   /\ job.content = jobs[id].content
        BY <1>a DEF RecoveredJob, Job, terminal
    <1>3. /\ jobs' = [jobs EXCEPT ![id] = job]
          /\ log' = [log EXCEPT ![id] = job]
          /\ toRecover' = toRecover \ {id}
          /\ UNCHANGED <<phase, latestRev, latestJob, backend, nextId>>
        BY DEF RecoverJob, Persist
    <1> HIDE DEF job
    <1> QED BY <1>1, <1>2, <1>3, <1>a DEF Rewrites

(* What fail_volatile() does to it: the job ends in memory alone.          *)
LEMMA FailVolatileKind ==
    ASSUME DurabilityInv, NEW t \in Thread, FailVolatile(t), MaxFaults # 0
    PROVE  (KeepsJobs /\ backend' = backend) \/ \E id \in JobId, job \in Job : Rewrites(id, job)
    <1> DEFINE id == cur[t]
               end == IF latestRev[jobs[id].doc] = jobs[id].rev THEN "failed"
                      ELSE "superseded"
               job == [Superseded(jobs[id]) EXCEPT !.status = end]
    <1>a. /\ id \in JobId /\ jobs[id] \in Job /\ phase \in Up /\ jobs[id] # NoJob
        BY WorkingJob, NoJobAssumption DEF FailVolatile
    <1>0. /\ UNCHANGED <<phase, latestRev, latestJob, toRecover, backend, nextId>>
          /\ jobs' = jobs \/ (~terminal(jobs[id].status) /\ jobs' = [jobs EXCEPT ![id] = job])
        BY DEF FailVolatile
    <1>1. CASE jobs' = jobs
        BY <1>0, <1>1 DEF KeepsJobs
    <1>2. CASE ~terminal(jobs[id].status) /\ jobs' = [jobs EXCEPT ![id] = job]
        <2>1. end \in {"failed", "superseded"}
            OBVIOUS
        <2> HIDE DEF end
        <2>2. /\ job \in Job /\ job.doc = jobs[id].doc /\ job.rev = jobs[id].rev
              /\ job.val = jobs[id].val /\ job.status = end
            BY <1>a, <2>1 DEF Superseded, Job, Status
        <2>3. terminal(job.status) /\ job.status # "ready"
            BY <2>1, <2>2 DEF terminal
        <2> HIDE DEF job
        <2> QED BY <1>0, <1>2, <1>a, <2>2, <2>3 DEF Rewrites
    <1> QED BY <1>0, <1>1, <1>2

(* Every step is of one of these kinds.                                    *)
LEMMA StepKinds ==
    ASSUME DurabilityInv, [Next]_vars,
           \A t \in Thread : FailVolatile(t) => MaxFaults # 0
    PROVE  \/ Ends
           \/ Open
           \/ KeepsJobs /\ backend' = backend
           \/ \E t \in Thread : Publishes(t)
           \/ \E id \in JobId, job \in Job : Rewrites(id, job)
           \/ \E d \in Doc, v \in Value : Creates(d, v)
    <1> DEFINE Goal == \/ Ends
                       \/ Open
                       \/ (KeepsJobs /\ backend' = backend)
                       \/ \E t \in Thread : Publishes(t)
                       \/ \E id \in JobId, job \in Job : Rewrites(id, job)
                       \/ \E d \in Doc, v \in Value : Creates(d, v)
    <1> SUFFICES Goal
        OBVIOUS
    <1>a. TypeOK
        BY DEF DurabilityInv
    <1>b. Hash \subseteq Value /\ NoDoc \in Value
        BY DEF Value
    <1>k. ASSUME UNCHANGED <<jobs, latestRev, latestJob, toRecover, backend, nextId, log>>,
                 phase' \in Up => phase \in Up
          PROVE  Goal
        BY <1>k DEF KeepsJobs
    <1>1. ASSUME OpenRefused PROVE Goal
        BY <1>1 DEF OpenRefused, Ends, Up, volatile, durable
    <1>2. ASSUME NEW id \in JobId, RecoverJob(id) PROVE Goal
        BY <1>2, RecoverJobKind
    <1>3. ASSUME NEW id \in JobId, ExecuteDeletion(id) PROVE Goal
        BY <1>3, <1>k DEF ExecuteDeletion, durable
    <1>4. ASSUME StartWorkers \/ Shutdown PROVE Goal
        BY <1>4, <1>k DEF StartWorkers, Shutdown, volatile, durable, Up
    <1>5. ASSUME NEW t \in Thread, Begin(t) \/ PreparationFails(t) \/ PublishSkipped(t)
                                    \/ PublishRefused(t) \/ OnReady(t)
          PROVE  Goal
        <2>1. UNCHANGED <<phase, jobs, latestRev, latestJob, toRecover, backend, nextId, durable>>
            BY <1>5 DEF Begin, PreparationFails, PublishSkipped, PublishRefused, OnReady, Moves
        <2> QED BY <2>1, <1>k DEF durable
    <1>6. ASSUME NEW t \in Thread, Chunking(t) \/ Embedding(t) \/ Publishing(t)
                                    \/ Ready(t) \/ FailJob(t)
          PROVE  Goal
        <2>1. {"chunking", "embedding", "publishing", "ready", "failed"} \subseteq Status
            BY DEF Status
        <2>2. {"embedding", "publishing", "publish", "onReady", "idle"} \subseteq Pc
            BY DEF Pc
        <2>3. CASE Chunking(t)
            BY <2>1, <2>2, <2>3, TransitionKind DEF Chunking
        <2>4. CASE Embedding(t)
            BY <2>1, <2>2, <2>4, TransitionKind DEF Embedding
        <2>5. CASE Publishing(t)
            BY <2>1, <2>2, <2>5, TransitionKind DEF Publishing
        <2>6. CASE Ready(t)
            BY <2>1, <2>2, <2>6, TransitionKind DEF Ready
        <2>7. CASE FailJob(t)
            BY <2>1, <2>2, <2>7, TransitionKind DEF FailJob
        <2> QED BY <1>6, <2>3, <2>4, <2>5, <2>6, <2>7
    <1>7. ASSUME NEW t \in Thread, Publish(t) PROVE Goal
        BY <1>7 DEF Publish, Publishes, KeepsJobs, durable
    <1>8. ASSUME NEW t \in Thread, FailVolatile(t) PROVE Goal
        BY <1>8, FailVolatileKind
    <1>9. ASSUME NEW t \in Thread, \/ WaitReturns(t) \/ CaptureCheckpoint(t)
                                   \/ SaveCheckpoint(t) \/ CheckpointFails(t)
                                   \/ BeginCheckpoint(t)
          PROVE  Goal
        <2>1. UNCHANGED <<phase, jobs, latestRev, latestJob, toRecover, backend, nextId, log>>
            BY <1>9 DEF WaitReturns, CaptureCheckpoint, SaveCheckpoint, CheckpointFails,
                BeginCheckpoint, durable
        <2> QED BY <2>1, <1>k
    <1>10. ASSUME NEW t \in Thread, TruncatePrefix(t) PROVE Goal
        <2>1. UNCHANGED <<phase, jobs, latestRev, latestJob, toRecover, backend, nextId>>
            BY <1>10 DEF TruncatePrefix
        <2> DEFINE history == PrefixTerminal(ckptPos[t])
        <2>2. PICK kept : log' = [i \in JobId |-> IF i \in history \ kept THEN NoJob
                                                  ELSE log[i]]
            BY <1>10 DEF TruncatePrefix
        <2>3. \A i \in history : log[i] # NoJob /\ terminal(log[i].status)
            BY DEF PrefixTerminal
        <2> HIDE DEF history
        <2>4. \A i \in JobId : \/ log'[i] = log[i]
                               \/ log[i] # NoJob /\ terminal(log[i].status) /\ log'[i] = NoJob
            BY <2>2, <2>3
        <2> QED BY <2>1, <2>4 DEF KeepsJobs
    <1>11. ASSUME NEW w \in Worker, Dequeue(w) PROVE Goal
        BY <1>11, <1>k DEF Dequeue, durable
    <1>12. ASSUME NEW c \in Client, NEW d \in Doc, NEW v \in Value,
                  SubmitAsync(c, d, v) \/ CallerExecutes(c, d, v)
           PROVE  Goal
        <2>1. Creates(d, v)
            BY <1>12 DEF SubmitAsync, CallerExecutes, Creates
        <2> QED BY <2>1
    <1>13. ASSUME NEW c \in Client, NEW id \in JobId, Wait(c, id) PROVE Goal
        BY <1>13, <1>k DEF Wait, durable
    <1>14. ASSUME NEW d \in Doc, NEW v \in Value, CreateFails(d, v) PROVE Goal
        <2>1. MaxFaults # 0
            BY <1>14, <1>a DEF CreateFails, PersistFails, TypeOK
        <2> QED BY <1>14, <2>1 DEF CreateFails, KeepsJobs, volatile, Up
    <1>15. ASSUME NEW c \in Client, Request(c) PROVE Goal
        <2>1. \A d \in Doc : Pending(d) \subseteq JobId
            BY DEF Pending
        <2> QED BY <1>15, <1>b, <1>12, <1>13, <1>14, <2>1
                DEF Request, SubmitSync, SubmitJoins, Erase
    <1>16. ASSUME NEW id \in JobId, RecoverJobFails(id) PROVE Goal
        <2>1. MaxFaults # 0
            BY <1>16, <1>a DEF RecoverJobFails, PersistFails, TypeOK
        <2> QED BY <1>16, <2>1 DEF RecoverJobFails, VolatileCleared, Ends, Up
    <1>17. ASSUME Stopped \/ Crash PROVE Goal
        BY <1>17 DEF Stopped, Crash, VolatileCleared, Ends, Up, durable
    <1>18. ASSUME UNCHANGED vars PROVE Goal
        BY <1>18, <1>k DEF vars, volatile, durable
    <1>19. ASSUME NEW t \in Thread, Execute(t) PROVE Goal
        BY <1>19, <1>5, <1>6, <1>7, <1>8, <1>9, <1>10 DEF Execute
    <1> HIDE DEF Goal
    <1>20. ASSUME Recovering, ~Open PROVE Goal
        BY <1>20, <1>1, <1>2, <1>3, <1>4 DEF Recovering
    <1>21. ASSUME Open PROVE Goal
        BY <1>21 DEF Goal
    <1> QED BY <1>4, <1>9, <1>11, <1>15, <1>16, <1>17, <1>18, <1>19, <1>20, <1>21 DEF Next

-----------------------------------------------------------------------------
(* The backend serves the newest ready job                                 *)

(* latest_job_ and latest_revision_ describe the same job, and every       *)
(* document that has a job has a latest one.                               *)
LatestKnown ==
    phase \in Up =>
        /\ \A d \in Doc : latestJob[d] # 0 =>
            /\ jobs[latestJob[d]] # NoJob
            /\ jobs[latestJob[d]].doc = d
            /\ jobs[latestJob[d]].rev = latestRev[d]
        /\ \A id \in JobId : jobs[id] # NoJob => latestJob[jobs[id].doc] # 0

LatestInv == LatestKnown /\ ServesLatestReady

(* open(): the newest record of a document, when ready, is what was        *)
(* replayed, because two ready records of one revision agree.              *)
LEMMA OpenLatest ==
    ASSUME DurabilityInv, Open
    PROVE  LatestInv'
    <1>a. TypeOK /\ BackendCovers
        BY DEF DurabilityInv
    <1>1. PICK ready \in [Doc -> 0..MaxJobs] :
            /\ \A d \in Doc : IsActiveReady(d, ready[d])
            /\ backend' = [d \in Doc |-> IF ready[d] = 0 THEN ckptFile[d]
                                         ELSE Published(log[ready[d]])]
        BY DEF Open
    <1>2. PICK latest \in [Doc -> 0..MaxJobs] :
            /\ \A d \in Doc : IsLatestRecord(d, latest[d])
            /\ latestJob' = latest
            /\ latestRev' = [d \in Doc |-> IF latest[d] = 0 THEN 0 ELSE log[latest[d]].rev]
        BY DEF Open
    <1>3. jobs' = log /\ phase' \in Up
        BY DEF Open, Up
    <1>4. \A d \in Doc : Records(d) \subseteq JobId /\ 0 \notin JobId
        BY DEF Records, JobId
    <1>5. LatestKnown'
        <2>1. ASSUME NEW d \in Doc, latest[d] # 0
              PROVE  log[latest[d]] # NoJob /\ log[latest[d]].doc = d
            BY <1>2, <2>1 DEF IsLatestRecord, Records
        <2>2. ASSUME NEW id \in JobId, log[id] # NoJob
              PROVE  latest[log[id].doc] # 0
            <3>1. log[id].doc \in Doc /\ id \in Records(log[id].doc)
                BY <1>a, <2>2 DEF TypeOK, Job, Records
            <3> QED BY <1>2, <1>4, <3>1 DEF IsLatestRecord
        <2> QED BY <1>2, <1>3, <2>1, <2>2 DEF LatestKnown
    <1>6. ServesLatestReady'
        <2> SUFFICES ASSUME NEW d \in Doc, NEW id \in JobId, id = latest[d],
                            log[id] # NoJob, log[id].status = "ready"
                     PROVE  backend'[d] = Published(log[id])
            BY <1>2, <1>3 DEF ServesLatestReady
        <2>1. id \in ReadyRecords(d)
            BY <1>2, <1>4 DEF IsLatestRecord, ReadyRecords
        <2>2. ready[d] \in ReadyRecords(d) /\ ready[d] # 0
            BY <1>1, <1>4, <2>1 DEF IsActiveReady, ReadyRecords
        <2>3. /\ log[id] \in Job /\ log[ready[d]] \in Job
              /\ log[id].rev \in Nat /\ log[ready[d]].rev \in Nat
            BY <1>a, <2>1, <2>2 DEF ReadyRecords, Records, TypeOK, Job
        <2>4. log[id].rev <= log[ready[d]].rev
            BY <1>1, <1>4, <2>1, <2>2 DEF IsActiveReady
        <2>5. log[ready[d]].rev <= log[id].rev
            BY <1>2, <1>4, <2>1, <2>2, <2>3 DEF IsLatestRecord, ReadyRecords
        <2>6. log[id].rev = log[ready[d]].rev
            BY <2>3, <2>4, <2>5
        <2>7. log[id].val = log[ready[d]].val
            BY <1>a, <2>1, <2>2, <2>6 DEF BackendCovers
        <2> QED BY <1>1, <2>2, <2>6, <2>7 DEF Published
    <1> QED BY <1>5, <1>6 DEF LatestInv

(* A job that is rewritten becomes ready only when the backend has it.     *)
LEMMA RewriteLatest ==
    ASSUME DurabilityInv, LatestInv, NEW id \in JobId, NEW job \in Job,
           Rewrites(id, job)
    PROVE  LatestInv'
    <1>a. TypeOK /\ LatestKnown /\ ServesLatestReady /\ job # NoJob
        BY NoJobAssumption DEF DurabilityInv, LatestInv
    <1>b. /\ UNCHANGED <<phase, latestRev, latestJob, backend>>
          /\ jobs[id] # NoJob /\ job.doc = jobs[id].doc /\ job.rev = jobs[id].rev
          /\ job.status = "ready" => backend[job.doc] = Published(job)
        BY DEF Rewrites
    <1>c. \A i \in JobId : jobs'[i] = IF i = id THEN job ELSE jobs[i]
        BY <1>a DEF Rewrites, TypeOK
    <1>d. \A d \in Doc : latestJob[d] # 0 => latestJob[d] \in JobId
        BY <1>a DEF TypeOK, JobId
    <1>1. LatestKnown'
        BY <1>a, <1>b, <1>c, <1>d DEF LatestKnown
    <1>2. ServesLatestReady'
        <2> SUFFICES ASSUME phase \in Up, NEW d \in Doc, NEW i \in JobId, i = latestJob[d],
                            jobs'[i] # NoJob, jobs'[i].status = "ready"
                     PROVE  backend[d] = Published(jobs'[i])
            BY <1>b DEF ServesLatestReady
        <2>1. CASE i # id
            BY <1>a, <1>c, <2>1 DEF ServesLatestReady
        <2>2. CASE i = id
            <3>0. id # 0
                BY DEF JobId
            <3>1. jobs[id].doc = d
                BY <1>a, <2>2, <3>0 DEF LatestKnown
            <3> QED BY <1>b, <1>c, <2>2, <3>1
        <2> QED BY <2>1, <2>2
    <1> QED BY <1>1, <1>2 DEF LatestInv

(* activate() and erase() of an older job never replace what the newest    *)
(* ready job published: its revision is the latest there is.               *)
LEMMA PublishLatest ==
    ASSUME DurabilityInv, LatestInv, NEW t \in Thread, Publishes(t)
    PROVE  LatestInv'
    <1> DEFINE job == jobs[cur[t]]
    <1>a. TypeOK /\ LatestKnown /\ ServesLatestReady /\ Revisions /\ phase \in Up
        BY WorkingJob DEF DurabilityInv, LatestInv, Publishes, Publish
    <1>b. cur[t] \in JobId /\ job \in Job /\ job # NoJob
        BY WorkingJob, NoJobAssumption DEF Publishes, Publish
    <1>c. /\ UNCHANGED <<jobs, latestRev, latestJob>>
          /\ Accepts(backend[job.doc], job)
          /\ backend' = [backend EXCEPT ![job.doc] = Published(job)]
        BY DEF Publishes, KeepsJobs, Publish
    <1>1. LatestKnown'
        BY <1>a, <1>c DEF LatestKnown
    <1>2. ServesLatestReady'
        <2> SUFFICES ASSUME NEW d \in Doc, NEW i \in JobId, i = latestJob[d],
                            jobs[i] # NoJob, jobs[i].status = "ready"
                     PROVE  backend'[d] = Published(jobs[i])
            BY <1>c DEF ServesLatestReady
        <2>1. backend[d] = Published(jobs[i])
            BY <1>a DEF ServesLatestReady
        <2>2. CASE d # job.doc
            BY <1>a, <1>c, <2>1, <2>2 DEF TypeOK
        <2>3. CASE d = job.doc
            <3>1. job.rev <= latestRev[d] /\ jobs[i].rev = latestRev[d]
                BY <1>a, <1>b, <2>3 DEF Revisions, LatestKnown, JobId
            <3>2. job.rev \in Nat /\ latestRev[d] \in Nat
                BY <1>a, <1>b DEF TypeOK, Job
            <3>3. job.rev = jobs[i].rev /\ job.val = jobs[i].val
                BY <1>c, <2>1, <2>3, <3>1, <3>2 DEF Accepts, Published
            <3> QED BY <1>a, <1>c, <2>3, <3>3 DEF TypeOK, Published
        <2> QED BY <2>2, <2>3
    <1> QED BY <1>1, <1>2 DEF LatestInv

(* A new job becomes the latest of its document; the one it supersedes     *)
(* keeps document and revision.                                            *)
LEMMA CreateLatest ==
    ASSUME DurabilityInv, LatestInv, NEW d \in Doc, NEW v \in Value, Creates(d, v)
    PROVE  LatestInv'
    <1> DEFINE id == nextId + 1
               job == NewJob(d, v)
    <1>a. TypeOK /\ LatestKnown /\ ServesLatestReady /\ Revisions /\ phase \in Up
        BY DEF DurabilityInv, LatestInv, Creates, Up
    <1>b. id \in JobId /\ jobs[id] = NoJob /\ latestRev[d] < MaxJobs
        BY <1>a, ConstantsAssumption DEF TypeOK, Revisions, Creates, Create, JobId
    <1>c. /\ job # NoJob /\ job.doc = d /\ job.rev = latestRev[d] + 1
          /\ job.status = "queued"
        BY <1>a, <1>b, NewJobFacts, NoJobAssumption DEF TypeOK
    <1>d. /\ jobs' = WithSuperseded(WithCreated(jobs, id, job), d)
          /\ latestRev' = [latestRev EXCEPT ![d] = job.rev]
          /\ latestJob' = [latestJob EXCEPT ![d] = id]
          /\ UNCHANGED <<phase, backend>>
        BY DEF Creates, Create
    <1>e. id \notin Pending(d)
        BY <1>b DEF Pending
    <1> HIDE DEF job
    <1>f. \A i \in JobId : \/ i = id /\ jobs'[i] = job
                           \/ /\ i # id /\ jobs[i] # NoJob /\ jobs'[i] # NoJob
                              /\ jobs'[i].doc = jobs[i].doc /\ jobs'[i].rev = jobs[i].rev
                              /\ jobs'[i].status = "superseded"
                           \/ i # id /\ jobs'[i] = jobs[i]
        <2>1. \A i \in Pending(d) : /\ jobs[i] # NoJob /\ Superseded(jobs[i]) # NoJob
                                    /\ Superseded(jobs[i]).doc = jobs[i].doc
                                    /\ Superseded(jobs[i]).rev = jobs[i].rev
                                    /\ Superseded(jobs[i]).status = "superseded"
            BY <1>a, SupersededFacts, NoJobAssumption DEF Pending, TypeOK
        <2>2. \A i \in JobId : jobs'[i] = IF i \in Pending(d) THEN Superseded(jobs[i])
                                          ELSE IF i = id THEN job ELSE jobs[i]
            BY <1>a, <1>d DEF WithSuperseded, WithCreated, TypeOK
        <2> QED BY <1>e, <2>1, <2>2
    <1>g. \A e \in Doc : /\ latestJob'[e] = IF e = d THEN id ELSE latestJob[e]
                         /\ latestRev'[e] = IF e = d THEN job.rev ELSE latestRev[e]
                         /\ latestJob[e] # 0 => latestJob[e] \in JobId
        BY <1>a, <1>d DEF TypeOK, JobId
    <1>h. id # 0 /\ \A i \in JobId : jobs[i] # NoJob => jobs[i].doc \in Doc
        <2>1. \A i \in JobId : i # 0
            BY DEF JobId
        <2> HIDE DEF id
        <2>2. id # 0
            BY <1>b, <2>1
        <2>3. \A i \in JobId : jobs[i] # NoJob => jobs[i].doc \in Doc
            BY <1>a DEF TypeOK, Job
        <2> QED BY <2>2, <2>3
    <1> HIDE DEF id
    <1>1. LatestKnown'
        <2>1. ASSUME NEW e \in Doc, latestJob'[e] # 0
              PROVE  /\ jobs'[latestJob'[e]] # NoJob
                     /\ jobs'[latestJob'[e]].doc = e
                     /\ jobs'[latestJob'[e]].rev = latestRev'[e]
            <3>1. CASE e = d
                BY <1>b, <1>c, <1>f, <1>g, <3>1
            <3>2. CASE e # d
                BY <1>a, <1>b, <1>f, <1>g, <2>1, <3>2 DEF LatestKnown
            <3> QED BY <3>1, <3>2
        <2>2. ASSUME NEW i \in JobId, jobs'[i] # NoJob
              PROVE  latestJob'[jobs'[i].doc] # 0
            BY <1>a, <1>c, <1>f, <1>g, <1>h, <2>2 DEF LatestKnown
        <2> QED BY <2>1, <2>2 DEF LatestKnown
    <1>2. ServesLatestReady'
        BY <1>a, <1>c, <1>d, <1>f, <1>g DEF ServesLatestReady
    <1> QED BY <1>1, <1>2 DEF LatestInv

(* LatestInv is inductive relative to DurabilityInv.                       *)
LEMMA NextLatest ==
    ASSUME DurabilityInv, LatestInv, [Next]_vars,
           \A t \in Thread : FailVolatile(t) => MaxFaults # 0
    PROVE  LatestInv'
    <1>1. CASE Ends
        BY <1>1 DEF Ends, LatestInv, LatestKnown, ServesLatestReady
    <1>2. CASE KeepsJobs /\ backend' = backend
        BY <1>2 DEF KeepsJobs, LatestInv, LatestKnown, ServesLatestReady
    <1> QED BY <1>1, <1>2, OpenLatest, RewriteLatest, PublishLatest, CreateLatest, StepKinds

-----------------------------------------------------------------------------
(* What a step does to the threads and the queue                           *)

(* Thread t is inside execute(), with a job in hand.                       *)
Works(t) == pc[t] \notin {"waiting", "idle"}

(* The places a thread comes to after its job is ready.                    *)
AfterReady == {"onReady"} \cup CheckpointPc

(* A thread goes on in execute(), or returns and leaves its job finished,  *)
(* outdated, or ready a while ago.                                         *)
ThreadStep(t) ==
    /\ pc[t] # "idle"
    /\ UNCHANGED <<phase, queue, toRecover, deletions, nextId>>
    /\ \/ /\ Finish(t)
          /\ \/ ~Works(t) \/ pc[t] \in AfterReady
             \/ terminal(jobs'[cur[t]].status)
             \/ latestRev[jobs[cur[t]].doc] # jobs[cur[t]].rev
       \/ \E next \in Pc \ {"idle", "waiting"} :
            /\ Works(t)
            /\ Goto(t, next)
            /\ next = "failVolatile" => MaxFaults # 0
            /\ next \in AfterReady =>
                pc[t] \in AfterReady \/ terminal(jobs'[cur[t]].status)
            /\ next \in CheckpointPc => pc[t] \in CheckpointPc \/ CheckpointBy # {}

(* transition() is a thread step.                                          *)
LEMMA TransitionThread ==
    ASSUME DurabilityInv, NEW t \in Thread, Works(t),
           NEW status \in Status,
           NEW next \in Pc \ ({"waiting", "failVolatile"} \cup CheckpointPc),
           (next = "idle" \/ next \in AfterReady) => terminal(status),
           transition(t, status, next)
    PROVE  ThreadStep(t)
    <1> DEFINE id == cur[t]
               job == Advanced(jobs[id], status)
    <1>a. /\ id \in JobId /\ jobs[id] \in Job /\ TypeOK /\ pc[t] # "idle"
        BY WorkingJob DEF DurabilityInv, Works
    <1>b. job.status \in {status, "superseded"}
        BY <1>a, AdvancedFacts DEF TypeOK
    <1>c. terminal("superseded")
        BY DEF terminal
    <1>0. UNCHANGED <<phase, queue, toRecover, deletions, nextId>>
        BY DEF transition
    <1>1. CASE terminal(jobs[id].status) /\ Finish(t) /\ jobs' = jobs
        BY <1>0, <1>1, <1>a DEF ThreadStep
    <1>2. CASE PersistFails(log, [log EXCEPT ![id] = job]) /\ Goto(t, "failVolatile")
        <2>1. MaxFaults # 0
            BY <1>2, <1>a DEF PersistFails, TypeOK
        <2>2. /\ "failVolatile" \in Pc \ {"idle", "waiting"}
              /\ "failVolatile" \notin AfterReady /\ "failVolatile" \notin CheckpointPc
            BY DEF Pc, AfterReady, CheckpointPc
        <2> QED BY <1>0, <1>2, <1>a, <2>1, <2>2 DEF ThreadStep
    <1>3. CASE /\ jobs' = [jobs EXCEPT ![id] = job]
               /\ IF job.status = status /\ next # "idle" THEN Goto(t, next) ELSE Finish(t)
        <2>0. jobs'[id] = job
            BY <1>3, <1>a DEF TypeOK
        <2> HIDE DEF job
        <2>1. CASE job.status = status /\ next # "idle"
            <3>1. /\ next \in Pc \ {"idle", "waiting"} /\ next # "failVolatile"
                  /\ next \notin CheckpointPc /\ Goto(t, next)
                BY <1>3, <2>1
            <3>2. next \in AfterReady => terminal(jobs'[id].status)
                BY <2>0, <2>1
            <3> QED BY <1>0, <1>a, <3>1, <3>2 DEF ThreadStep
        <2>2. CASE ~(job.status = status /\ next # "idle")
            <3>1. terminal(job.status)
                BY <1>b, <1>c, <2>2
            <3> QED BY <1>0, <1>3, <1>a, <2>0, <2>2, <3>1 DEF ThreadStep
        <2> QED BY <2>1, <2>2
    <1> QED BY <1>1, <1>2, <1>3 DEF transition

(* Every step of execute() and of a checkpoint is a thread step.           *)
LEMMA ExecuteThread ==
    ASSUME DurabilityInv, "caller" \notin CheckpointBy, NEW t \in Thread,
           Execute(t) \/ BeginCheckpoint(t)
    PROVE  ThreadStep(t)
    <1>a. TypeOK
        BY DEF DurabilityInv
    <1>p. /\ Pc = {"idle", "begin", "chunking", "embedding", "publishing", "publish",
                   "ready", "failJob", "failVolatile", "onReady", "waiting",
                   "capture", "save", "truncate"}
          /\ AfterReady = {"onReady", "capture", "save", "truncate"}
          /\ CheckpointPc = {"capture", "save", "truncate"}
        BY DEF Pc, AfterReady, CheckpointPc
    <1>m. ASSUME NEW next \in Pc \ {"waiting", "failVolatile"}, Works(t),
                 next \in AfterReady => pc[t] \in AfterReady,
                 next \in CheckpointPc => pc[t] \in CheckpointPc \/ CheckpointBy # {},
                 UNCHANGED <<phase, queue, toRecover, deletions, nextId>>,
                 next # "idle", Goto(t, next)
          PROVE  ThreadStep(t)
        BY <1>m DEF ThreadStep, Works
    <1>s. {"chunking", "embedding", "publishing", "ready", "failed"} \subseteq Status
        BY DEF Status
    <1>1. CASE Begin(t)
        <2>1. /\ Works(t) /\ UNCHANGED <<phase, queue, toRecover, deletions, jobs, nextId>>
            BY <1>1 DEF Begin, Works, Moves
        <2>2. CASE terminal(jobs[cur[t]].status)
            BY <1>1, <2>1, <2>2 DEF Begin, Moves, ThreadStep
        <2>3. CASE ~terminal(jobs[cur[t]].status)
            <3>1. Goto(t, "publishing") \/ Goto(t, "chunking")
                BY <1>1, <2>3 DEF Begin, Moves
            <3> QED BY <1>m, <1>p, <2>1, <3>1
        <2> QED BY <2>2, <2>3
    <1>2. CASE Chunking(t)
        BY <1>2, <1>p, <1>s, TransitionThread DEF Chunking, Works
    <1>3. CASE Embedding(t)
        BY <1>3, <1>p, <1>s, TransitionThread DEF Embedding, Works
    <1>4. CASE Publishing(t)
        BY <1>4, <1>p, <1>s, TransitionThread DEF Publishing, Works
    <1>5. CASE Ready(t)
        BY <1>5, <1>p, <1>s, TransitionThread DEF Ready, Works, terminal
    <1>6. CASE FailJob(t)
        BY <1>6, <1>p, <1>s, TransitionThread DEF FailJob, Works, terminal
    <1>7. CASE PreparationFails(t)
        <2>1. Works(t) /\ UNCHANGED <<phase, queue, toRecover, deletions, nextId>> /\ Goto(t, "failJob")
            BY <1>7 DEF PreparationFails, Works, Moves
        <2> QED BY <1>m, <1>p, <2>1
    <1>8. CASE PublishRefused(t)
        <2>1. Works(t) /\ UNCHANGED <<phase, queue, toRecover, deletions, nextId>> /\ Goto(t, "failJob")
            BY <1>8 DEF PublishRefused, Works, Moves
        <2> QED BY <1>m, <1>p, <2>1
    <1>9. CASE Publish(t)
        <2>1. Works(t) /\ UNCHANGED <<phase, queue, toRecover, deletions, nextId>> /\ Goto(t, "ready")
            BY <1>9 DEF Publish, Works
        <2> QED BY <1>m, <1>p, <2>1
    <1>10. CASE PublishSkipped(t)
        BY <1>10 DEF PublishSkipped, Moves, StillCurrent, ThreadStep
    <1>11. CASE FailVolatile(t)
        <2> DEFINE id == cur[t]
                   end == IF latestRev[jobs[id].doc] = jobs[id].rev THEN "failed"
                          ELSE "superseded"
        <2>1. /\ cur[t] \in JobId /\ jobs[cur[t]] \in Job /\ Finish(t)
              /\ UNCHANGED <<phase, queue, toRecover, deletions, nextId>> /\ pc[t] # "idle"
            BY <1>11, WorkingJob DEF FailVolatile
        <2>2. terminal(end)
            BY DEF terminal
        <2> HIDE DEF end
        <2>3. [Superseded(jobs[id]) EXCEPT !.status = end].status = end
            BY <2>1 DEF Superseded, Job
        <2>4. terminal(jobs'[id].status)
            BY <1>11, <1>a, <2>1, <2>2, <2>3 DEF FailVolatile, TypeOK, end
        <2> QED BY <2>1, <2>4 DEF ThreadStep
    <1>12. CASE OnReady(t) \/ WaitReturns(t)
        BY <1>12, <1>p DEF OnReady, WaitReturns, Moves, ThreadStep, Works
    <1>13. CASE CaptureCheckpoint(t) \/ SaveCheckpoint(t)
        <2>1. /\ Works(t) /\ pc[t] \in AfterReady /\ pc[t] \in CheckpointPc
              /\ UNCHANGED <<phase, queue, toRecover, deletions, nextId>>
              /\ Goto(t, "save") \/ Goto(t, "truncate")
            BY <1>13, <1>p DEF CaptureCheckpoint, SaveCheckpoint, Works
        <2> QED BY <1>m, <1>p, <2>1
    <1>14. CASE CheckpointFails(t) \/ TruncatePrefix(t)
        BY <1>14, <1>p DEF CheckpointFails, TruncatePrefix, EndCheckpoint, ThreadStep
    <1>15. CASE BeginCheckpoint(t)
        <2>1. /\ Works(t) /\ pc[t] \in AfterReady /\ CheckpointBy # {}
              /\ UNCHANGED <<phase, queue, toRecover, deletions, nextId>> /\ Goto(t, "capture")
            BY <1>15, <1>p DEF BeginCheckpoint, Works
        <2> QED BY <1>m, <1>p, <2>1
    <1> QED BY <1>1, <1>2, <1>3, <1>4, <1>5, <1>6, <1>7, <1>8, <1>9, <1>10, <1>11,
               <1>12, <1>13, <1>14, <1>15 DEF Execute

(* The steps of callers, workers and recovery that put a job somewhere.    *)
HandsOut ==
    \/ \E w \in Worker : Dequeue(w)
    \/ \E id \in JobId : ExecuteDeletion(id) \/ RecoverJob(id)
    \/ \E c \in Client, id \in JobId : Wait(c, id)
    \/ \E c \in Client, d \in Doc, v \in Value :
            SubmitAsync(c, d, v) \/ CallerExecutes(c, d, v)

(* Threads, queue, job table and backend rest.                             *)
Rests ==
    /\ UNCHANGED <<queue, pc, cur, toRecover, deletions, jobs, backend>>
    /\ (phase' \in Up) <=> (phase \in Up)

(* Every step ends or starts a process, moves one thread, hands out a job, *)
(* or leaves threads and queue alone.                                      *)
LEMMA ControlKinds ==
    ASSUME DurabilityInv, [Next]_vars, "caller" \notin CheckpointBy
    PROVE  \/ phase' = "down" /\ VolatileCleared
           \/ Open
           \/ Rests
           \/ \E t \in Thread : ThreadStep(t)
           \/ HandsOut
    <1>a. Hash \subseteq Value /\ NoDoc \in Value /\ \A d \in Doc : Pending(d) \subseteq JobId
        BY DEF Value, Pending
    <1>1. ASSUME Recovering, ~Open
          PROVE  Rests \/ HandsOut
        BY <1>1 DEF Rests, Up, Recovering, OpenRefused, StartWorkers, HandsOut, volatile
    <1>2. ASSUME NEW c \in Client, Request(c)
          PROVE  Rests \/ HandsOut
        <2>1. ASSUME NEW d \in Doc, NEW v \in Value, CreateFails(d, v)
              PROVE  Rests
            BY <2>1 DEF Rests, CreateFails, volatile
        <2> QED BY <1>2, <1>a, <2>1 DEF Request, SubmitSync, SubmitJoins, Erase, HandsOut
    <1>3. ASSUME NEW id \in JobId, RecoverJobFails(id)
          PROVE  phase' = "down" /\ VolatileCleared
        BY <1>3 DEF RecoverJobFails
    <1>4. ASSUME Shutdown PROVE Rests
        BY <1>4 DEF Rests, Up, Shutdown, volatile
    <1>5. ASSUME Stopped \/ Crash PROVE phase' = "down" /\ VolatileCleared
        BY <1>5 DEF Stopped, Crash
    <1>6. ASSUME UNCHANGED vars PROVE Rests
        BY <1>6 DEF Rests, vars, volatile
    <1>7. ASSUME NEW w \in Worker, Dequeue(w) PROVE HandsOut
        BY <1>7 DEF HandsOut
    <1> QED BY <1>1, <1>2, <1>3, <1>4, <1>5, <1>6, <1>7, ExecuteThread DEF Next

-----------------------------------------------------------------------------
(* Nothing is executed twice                                               *)

(* A job is in at most one place that will execute it: one slot of the     *)
(* queue, one thread, or one of the lists of recover().                    *)
ExclusiveWork ==
    /\ \A t, u \in Thread : Works(t) /\ Works(u) /\ cur[t] = cur[u] => t = u
    /\ \A i, j \in DOMAIN queue : queue[i] = queue[j] => i = j
    /\ \A i \in DOMAIN queue :
        /\ queue[i] \notin toRecover \cup deletions
        /\ \A t \in Thread : Works(t) => cur[t] # queue[i]
    /\ \A t \in Thread : Works(t) => cur[t] \notin toRecover \cup deletions
    /\ toRecover \cap deletions = {}

(* fail_volatile() is reached by a failed append only.                     *)
AppendsSucceed ==
    MaxFaults = 0 => \A t \in Thread : pc[t] # "failVolatile"

ControlInv == ExclusiveWork /\ AppendsSucceed

(* A thread that goes on or returns holds no other job than before.        *)
LEMMA ThreadControl ==
    ASSUME TypeOK, ControlInv, NEW t \in Thread, ThreadStep(t)
    PROVE  ControlInv'
    <1>a. UNCHANGED <<queue, toRecover, deletions>>
        BY DEF ThreadStep
    <1>b. \A u \in Thread : Works(u)' => Works(u) /\ cur'[u] = cur[u]
        BY DEF ThreadStep, Finish, Goto, Works, TypeOK
    <1>1. ExclusiveWork'
        BY <1>a, <1>b DEF ExclusiveWork, ControlInv
    <1>2. AppendsSucceed'
        BY DEF ThreadStep, Finish, Goto, AppendsSucceed, ControlInv, TypeOK
    <1> QED BY <1>1, <1>2 DEF ControlInv

(* The ids in use are those of jobs, so a new one is in use nowhere.       *)
LEMMA FreshId ==
    ASSUME DurabilityInv, nextId < MaxJobs
    PROVE  /\ nextId + 1 \in JobId
           /\ jobs[nextId + 1] = NoJob /\ log[nextId + 1] = NoJob
           /\ \A t \in Thread : pc[t] # "idle" => cur[t] # nextId + 1
           /\ \A i \in DOMAIN queue : queue[i] # nextId + 1
           /\ nextId + 1 \notin toRecover \cup deletions
    <1>a. TypeOK /\ References /\ Revisions
        BY DEF DurabilityInv
    <1>1. nextId \in Nat /\ MaxJobs \in Nat
        BY <1>a, ConstantsAssumption DEF TypeOK
    <1>2. nextId + 1 \in JobId /\ nextId + 1 > nextId
        BY <1>1 DEF JobId
    <1>3. jobs[nextId + 1] = NoJob /\ log[nextId + 1] = NoJob
        BY <1>a, <1>2 DEF Revisions
    <1> QED BY <1>a, <1>2, <1>3 DEF References

(* Taking a job from the queue or from recover()'s deletions removes it    *)
(* there.                                                                  *)
LEMMA TakeControl ==
    ASSUME DurabilityInv, ControlInv,
           \/ \E w \in Worker : Dequeue(w)
           \/ \E id \in JobId : ExecuteDeletion(id)
           \/ \E c \in Client, id \in JobId : Wait(c, id)
    PROVE  ControlInv'
    <1>a. /\ TypeOK /\ References /\ ExclusiveWork /\ AppendsSucceed
          /\ Worker \subseteq Thread /\ Client \subseteq Thread /\ Main \in Thread
        BY DEF DurabilityInv, ControlInv, Thread
    <1>1. ASSUME NEW w \in Worker, Dequeue(w) PROVE ControlInv'
        <2>1. queue \in Seq(JobId) /\ queue # <<>>
            BY <1>1, <1>a DEF Dequeue, TypeOK
        <2>2. /\ Len(queue) \in Nat /\ DOMAIN queue = 1..Len(queue)
              /\ 1 \in DOMAIN queue /\ Head(queue) = queue[1]
              /\ DOMAIN Tail(queue) = 1..(Len(queue) - 1)
              /\ \A i \in 1..(Len(queue) - 1) : Tail(queue)[i] = queue[i + 1]
            BY <2>1
        <2>3. \A i \in DOMAIN queue' : /\ i + 1 \in DOMAIN queue /\ i + 1 # 1
                                       /\ queue'[i] = queue[i + 1] /\ i \in Nat
            BY <1>1, <2>2 DEF Dequeue
        <2>4. /\ \A u \in Thread : Works(u)' => (u = w \/ Works(u))
              /\ \A u \in Thread : u # w => cur'[u] = cur[u]
              /\ cur'[w] = queue[1] /\ ~Works(w) /\ pc'[w] = "begin"
              /\ \A u \in Thread : u # w => pc'[u] = pc[u]
              /\ UNCHANGED <<toRecover, deletions>>
            BY <1>1, <1>a, <2>2 DEF Dequeue, Works, TypeOK
        <2>5. \A i, j \in DOMAIN queue' : queue'[i] = queue'[j] => i = j
            BY <1>a, <2>3 DEF ExclusiveWork
        <2>6. \A i \in DOMAIN queue' : queue'[i] # queue[1]
            BY <1>a, <2>2, <2>3 DEF ExclusiveWork
        <2>7. ExclusiveWork'
            BY <1>a, <2>2, <2>3, <2>4, <2>5, <2>6 DEF ExclusiveWork
        <2>8. AppendsSucceed'
            BY <1>a, <2>4 DEF AppendsSucceed
        <2> QED BY <2>7, <2>8 DEF ControlInv
    <1>2. ASSUME NEW id \in JobId, ExecuteDeletion(id) PROVE ControlInv'
        <2>1. /\ \A u \in Thread : Works(u)' => (u = Main \/ Works(u))
              /\ \A u \in Thread : u # Main => cur'[u] = cur[u] /\ pc'[u] = pc[u]
              /\ cur'[Main] = id /\ ~Works(Main) /\ pc'[Main] = "begin"
              /\ UNCHANGED <<toRecover, queue>> /\ toRecover = {}
              /\ deletions' = deletions \ {id} /\ id \in deletions
            BY <1>2, <1>a DEF ExecuteDeletion, Works, TypeOK
        <2>2. ExclusiveWork'
            BY <1>a, <2>1 DEF ExclusiveWork
        <2>3. AppendsSucceed'
            BY <1>a, <2>1 DEF AppendsSucceed
        <2> QED BY <2>2, <2>3 DEF ControlInv
    <1>3. ASSUME NEW c \in Client, NEW id \in JobId, Wait(c, id) PROVE ControlInv'
        <2>1. /\ \A u \in Thread : Works(u)' => Works(u) /\ cur'[u] = cur[u]
              /\ \A u \in Thread : u # c => pc'[u] = pc[u]
              /\ pc'[c] = "waiting"
              /\ UNCHANGED <<toRecover, queue, deletions>>
            BY <1>3, <1>a DEF Wait, Works, TypeOK
        <2>2. ExclusiveWork'
            BY <1>a, <2>1 DEF ExclusiveWork
        <2>3. AppendsSucceed'
            BY <1>a, <2>1 DEF AppendsSucceed
        <2> QED BY <2>2, <2>3 DEF ControlInv
    <1> QED BY <1>1, <1>2, <1>3

(* Appending an id that is nowhere else keeps the queue free of doubles.   *)
LEMMA AppendControl ==
    ASSUME TypeOK, ControlInv, NEW id \in JobId, queue' = Append(queue, id),
           pc' = pc, cur' = cur, deletions' = deletions, toRecover' \subseteq toRecover,
           id \notin toRecover' \cup deletions,
           \A i \in DOMAIN queue : queue[i] # id,
           \A t \in Thread : Works(t) => cur[t] # id
    PROVE  ControlInv'
    <1>a. ExclusiveWork /\ AppendsSucceed
        BY DEF ControlInv
    <1>1. /\ queue \in Seq(JobId) /\ Len(queue) \in Nat /\ DOMAIN queue = 1..Len(queue)
        BY DEF TypeOK
    <1>2. /\ DOMAIN queue' = 1..(Len(queue) + 1)
          /\ \A i \in 1..Len(queue) : queue'[i] = queue[i]
          /\ queue'[Len(queue) + 1] = id
        BY <1>1
    <1>3. \A i \in DOMAIN queue' : \/ i \in DOMAIN queue /\ queue'[i] = queue[i]
                                   \/ i = Len(queue) + 1 /\ queue'[i] = id
        BY <1>1, <1>2
    <1>4. \A t \in Thread : Works(t)' <=> Works(t)
        BY DEF Works
    <1>5. ExclusiveWork'
        BY <1>a, <1>3, <1>4 DEF ExclusiveWork
    <1>6. AppendsSucceed'
        BY <1>a DEF AppendsSucceed
    <1> QED BY <1>5, <1>6 DEF ControlInv

(* A new job goes to the queue or to the thread of its caller.             *)
LEMMA CreateControl ==
    ASSUME DurabilityInv, ControlInv, NEW c \in Client, NEW d \in Doc, NEW v \in Value,
           SubmitAsync(c, d, v) \/ CallerExecutes(c, d, v)
    PROVE  ControlInv'
    <1>a. TypeOK /\ ExclusiveWork /\ AppendsSucceed /\ c \in Thread
        BY DEF DurabilityInv, ControlInv, Thread
    <1>b. nextId < MaxJobs
        BY DEF SubmitAsync, CallerExecutes, Create
    <1>c. /\ nextId + 1 \in JobId /\ nextId + 1 \notin toRecover \cup deletions
          /\ \A i \in DOMAIN queue : queue[i] # nextId + 1
          /\ \A t \in Thread : Works(t) => cur[t] # nextId + 1
        BY <1>b, FreshId DEF Works
    <1>1. CASE SubmitAsync(c, d, v)
        BY <1>1, <1>a, <1>c, AppendControl DEF SubmitAsync
    <1>2. CASE CallerExecutes(c, d, v)
        <2> DEFINE id == nextId + 1
        <2>1. /\ \A u \in Thread : Works(u)' => (u = c \/ Works(u))
              /\ \A u \in Thread : u # c => cur'[u] = cur[u] /\ pc'[u] = pc[u]
              /\ cur'[c] = id /\ pc'[c] = "begin"
              /\ UNCHANGED <<toRecover, queue, deletions>>
            BY <1>2, <1>a DEF CallerExecutes, Works, TypeOK
        <2> HIDE DEF id
        <2>2. ExclusiveWork'
            BY <1>a, <1>c, <2>1 DEF ExclusiveWork, id
        <2>3. AppendsSucceed'
            BY <1>a, <2>1 DEF AppendsSucceed
        <2> QED BY <2>2, <2>3 DEF ControlInv
    <1> QED BY <1>1, <1>2

(* recover() moves an unfinished job from its list to the queue, to its    *)
(* deletions, or to neither.                                               *)
LEMMA RecoverControl ==
    ASSUME DurabilityInv, ControlInv, NEW id \in JobId, RecoverJob(id)
    PROVE  ControlInv'
    <1>a. TypeOK /\ References /\ ExclusiveWork /\ AppendsSucceed
        BY DEF DurabilityInv, ControlInv
    <1>b. /\ id \in toRecover /\ toRecover' = toRecover \ {id}
          /\ pc' = pc /\ cur' = cur /\ \A t \in Thread : pc[t] = "idle"
        BY <1>a DEF RecoverJob, References
    <1>c. \A t \in Thread : ~Works(t) /\ ~Works(t)'
        BY <1>b DEF Works
    <1>1. CASE queue' = Append(queue, id) /\ deletions' = deletions
        <2>1. /\ id \notin toRecover' \cup deletions
              /\ \A i \in DOMAIN queue : queue[i] # id
            BY <1>a, <1>b DEF ExclusiveWork
        <2> QED BY <1>1, <1>a, <1>b, <1>c, <2>1, AppendControl
    <1>2. CASE queue' = queue /\ (deletions' = deletions \/ deletions' = deletions \cup {id})
        <2>1. ExclusiveWork'
            BY <1>2, <1>a, <1>b, <1>c DEF ExclusiveWork
        <2>2. AppendsSucceed'
            BY <1>a, <1>b DEF AppendsSucceed
        <2> QED BY <2>1, <2>2 DEF ControlInv
    <1> QED BY <1>1, <1>2 DEF RecoverJob

(* ControlInv is inductive relative to DurabilityInv.                      *)
LEMMA NextControl ==
    ASSUME DurabilityInv, ControlInv, [Next]_vars, "caller" \notin CheckpointBy
    PROVE  ControlInv'
    <1>a. TypeOK /\ References
        BY DEF DurabilityInv
    <1>1. CASE phase' = "down" /\ VolatileCleared
        BY <1>1 DEF VolatileCleared, ControlInv, ExclusiveWork, AppendsSucceed, Works
    <1>2. CASE Open
        <2>1. /\ \A t \in Thread : pc'[t] = "idle" /\ queue' = <<>> /\ deletions' = {}
            BY <1>2, <1>a DEF Open, References, Up
        <2>2. ~ \E t \in Thread : Works(t)'
            BY <2>1 DEF Works
        <2>3. queue' = <<>> /\ deletions' = {}
            BY <1>2, <1>a DEF Open, References, Up
        <2>4. ExclusiveWork'
            BY <2>2, <2>3 DEF ExclusiveWork
        <2> QED BY <2>1, <2>4 DEF ControlInv, AppendsSucceed
    <1>3. CASE Rests
        BY <1>3 DEF Rests, ControlInv, ExclusiveWork, AppendsSucceed, Works
    <1> QED BY <1>1, <1>2, <1>3, <1>a, ControlKinds, ThreadControl, TakeControl,
               CreateControl, RecoverControl DEF HandsOut

(* Both invariants hold in every behaviour, with any number of failed      *)
(* appends and crashes.                                                    *)
LEMMA TableInvariants ==
    ASSUME "caller" \notin CheckpointBy
    PROVE  Spec => [](DurabilityInv /\ LatestInv /\ ControlInv)
    <1>1. Init => LatestInv /\ ControlInv
        BY DEF Init, LatestInv, LatestKnown, ServesLatestReady, ControlInv, ExclusiveWork,
            AppendsSucceed, Works, Up
    <1>2. ASSUME DurabilityInv, LatestInv, ControlInv, [Next]_vars
          PROVE  LatestInv' /\ ControlInv'
        <2>1. \A t \in Thread : FailVolatile(t) => MaxFaults # 0
            BY <1>2 DEF ControlInv, AppendsSucceed, FailVolatile
        <2> QED BY <1>2, <2>1, NextLatest, NextControl
    <1>3. Spec => []DurabilityInv
        BY DurabilityInvariant
    <1>4. (LatestInv /\ ControlInv) /\ DurabilityInv /\ [Next]_vars => (LatestInv /\ ControlInv)'
        BY <1>2
    <1> QED BY <1>1, <1>3, <1>4, PTL DEF Spec

(* When the newest job of a document is ready, the backend serves exactly  *)
(* what it published (execute(), recover()), whatever crashes and whatever *)
(* append fails.                                                           *)
THEOREM LatestReadyIsServed ==
    ASSUME "caller" \notin CheckpointBy
    PROVE  Spec => []ServesLatestReady
    <1>1. LatestInv => ServesLatestReady
        BY DEF LatestInv
    <1> QED BY <1>1, TableInvariants, PTL

-----------------------------------------------------------------------------
(* Every unfinished job is held, and the log follows memory, when no       *)
(* append fails                                                            *)

(* While the process is up, the log has every job as memory has it, except *)
(* finished ones that were compacted away.                                 *)
LogFollows ==
    phase \in Up => \A id \in JobId :
        \/ log[id] = jobs[id]
        \/ log[id] = NoJob /\ jobs[id] # NoJob /\ terminal(jobs[id].status)

(* No two jobs of a document carry the same revision.                      *)
UniqueRevisions(table) ==
    \A i, j \in JobId :
        /\ table[i] # NoJob /\ table[j] # NoJob
        /\ table[i].doc = table[j].doc /\ table[i].rev = table[j].rev
        => i = j

(* An unfinished upsert still has its source text.                         *)
KeepsSource(table) ==
    \A id \in JobId : table[id] # NoJob /\ ~terminal(table[id].status)
        => table[id].content \/ IsErase(table[id])

(* An unfinished job that recover() has dealt with is the newest of its    *)
(* document.                                                               *)
PendingIsLatest ==
    phase \in Up => \A id \in JobId \ toRecover :
        jobs[id] # NoJob /\ ~terminal(jobs[id].status) => id = latestJob[jobs[id].doc]

(* A thread past transition(ready) has a finished job.                     *)
ReadyIsDone ==
    \A t \in Thread : pc[t] \in AfterReady => terminal(jobs[cur[t]].status)

(* Some place will execute the job.                                        *)
Held(id) ==
    \/ \E i \in DOMAIN queue : queue[i] = id
    \/ \E t \in Thread : Works(t) /\ cur[t] = id
    \/ id \in toRecover \cup deletions

PendingIsHeld ==
    phase \in Up => \A id \in JobId :
        jobs[id] # NoJob /\ ~terminal(jobs[id].status) => Held(id)

HeldInv ==
    /\ LogFollows
    /\ UniqueRevisions(log) /\ UniqueRevisions(jobs)
    /\ KeepsSource(log) /\ KeepsSource(jobs)
    /\ PendingIsLatest
    /\ ReadyIsDone
    /\ PendingIsHeld

(* The part of HeldInv that is about records, not about threads.           *)
RecordsInv ==
    /\ LogFollows
    /\ UniqueRevisions(log) /\ UniqueRevisions(jobs)
    /\ KeepsSource(log) /\ KeepsSource(jobs)
    /\ PendingIsLatest

(* A rewritten record is the same in memory and in the log, keeps its      *)
(* revision and source, and stays unfinished only as the newest.           *)
LEMMA RewriteRecords ==
    ASSUME MaxFaults = 0, DurabilityInv, LatestInv, RecordsInv,
           NEW id \in JobId, NEW job \in Job, Rewrites(id, job)
    PROVE  RecordsInv'
    <1>a. /\ TypeOK /\ LatestKnown /\ LogFollows /\ PendingIsLatest
          /\ UniqueRevisions(log) /\ UniqueRevisions(jobs)
          /\ KeepsSource(log) /\ KeepsSource(jobs) /\ job # NoJob
        BY NoJobAssumption DEF DurabilityInv, LatestInv, RecordsInv
    <1>b. /\ phase \in Up /\ jobs[id] # NoJob /\ ~terminal(jobs[id].status)
          /\ job.doc = jobs[id].doc /\ job.rev = jobs[id].rev /\ job.val = jobs[id].val
          /\ ~terminal(job.status) => /\ latestRev[job.doc] = job.rev
                                      /\ job.content = jobs[id].content
          /\ UNCHANGED <<phase, latestRev, latestJob>>
          /\ toRecover' \subseteq toRecover
          /\ \A i \in toRecover \ toRecover' : i = id
        BY DEF Rewrites
    <1>c. \A i \in JobId : /\ jobs'[i] = IF i = id THEN job ELSE jobs[i]
                           /\ log'[i] = IF i = id THEN job ELSE log[i]
        BY <1>a DEF Rewrites, TypeOK
    <1>d. log[id] = jobs[id]
        BY <1>a, <1>b DEF LogFollows
    <1>1. LogFollows'
        BY <1>a, <1>b, <1>c DEF LogFollows
    <1>2. UniqueRevisions(jobs)' /\ UniqueRevisions(log)'
        BY <1>a, <1>b, <1>c, <1>d DEF UniqueRevisions
    <1>3. KeepsSource(jobs)' /\ KeepsSource(log)'
        BY <1>a, <1>b, <1>c, <1>d DEF KeepsSource, IsErase
    <1>4. PendingIsLatest'
        <2> SUFFICES ASSUME NEW i \in JobId \ toRecover', jobs'[i] # NoJob,
                            ~terminal(jobs'[i].status)
                     PROVE  i = latestJob[jobs'[i].doc]
            BY <1>b DEF PendingIsLatest
        <2>1. CASE i # id
            BY <1>a, <1>b, <1>c, <2>1 DEF PendingIsLatest
        <2>2. CASE i = id
            <3> DEFINE d == job.doc
                       last == latestJob[d]
            <3>1. d \in Doc /\ latestRev[d] = job.rev /\ last # 0
                BY <1>a, <1>b, <1>c, <2>2 DEF Job, LatestKnown
            <3>2. last \in JobId
                BY <1>a, <3>1 DEF TypeOK, JobId
            <3>3. jobs[last] # NoJob /\ jobs[last].doc = d /\ jobs[last].rev = job.rev
                BY <1>a, <1>b, <3>1 DEF LatestKnown
            <3>4. last = id
                BY <1>a, <1>b, <3>2, <3>3 DEF UniqueRevisions
            <3> QED BY <1>c, <2>2, <3>4
        <2> QED BY <2>1, <2>2
    <1> QED BY <1>1, <1>2, <1>3, <1>4 DEF RecordsInv

(* A new job has a new revision and its source; the pending job of the     *)
(* document, the only unfinished one, is superseded in memory and log.     *)
LEMMA CreateRecords ==
    ASSUME MaxFaults = 0, DurabilityInv, LatestInv, RecordsInv,
           NEW d \in Doc, NEW v \in Value, Creates(d, v)
    PROVE  RecordsInv'
    <1> DEFINE id == nextId + 1
               job == NewJob(d, v)
    <1>a. /\ TypeOK /\ References /\ Revisions /\ LatestKnown /\ LogFollows /\ PendingIsLatest
          /\ UniqueRevisions(log) /\ UniqueRevisions(jobs)
          /\ KeepsSource(log) /\ KeepsSource(jobs)
          /\ phase = "running" /\ phase \in Up /\ phase' = phase
        BY DEF DurabilityInv, LatestInv, RecordsInv, Creates, Up
    <1>b. /\ id \in JobId /\ jobs[id] = NoJob /\ log[id] = NoJob /\ toRecover = {}
          /\ latestRev[d] \in Nat /\ latestRev[d] < MaxJobs
        <2>1. nextId < MaxJobs
            BY DEF Creates, Create
        <2>2. toRecover = {}
            BY <1>a DEF References
        <2>3. nextId \in Nat /\ latestRev[d] \in Nat /\ latestRev[d] <= nextId
            BY <1>a DEF TypeOK, Revisions
        <2>4. latestRev[d] < MaxJobs
            BY <2>1, <2>3, ConstantsAssumption
        <2> QED BY <2>1, <2>2, <2>3, <2>4, FreshId
    <1>c. /\ job # NoJob /\ job.doc = d /\ job.rev = latestRev[d] + 1
          /\ job.status = "queued" /\ job.val = v
          /\ job.content \/ IsErase(job)
        <2>1. /\ job \in Job /\ job.doc = d /\ job.rev = latestRev[d] + 1
              /\ job.status = "queued" /\ job.val = v
            BY <1>a, <1>b, NewJobFacts DEF TypeOK
        <2>2. job.content = (v # NoDoc)
            BY DEF NewJob
        <2> HIDE DEF job
        <2>3. job.content \/ IsErase(job)
            BY <2>1, <2>2 DEF IsErase
        <2> QED BY <2>1, <2>3, NoJobAssumption
    <1>d. /\ jobs' = WithSuperseded(WithCreated(jobs, id, job), d)
          /\ log' = WithSuperseded(WithCreated(log, id, job), d)
          /\ latestJob' = [latestJob EXCEPT ![d] = id]
          /\ toRecover' = toRecover
        BY DEF Creates, Create, Persist
    <1>e. id \notin Pending(d)
        BY <1>b DEF Pending
    <1> HIDE DEF job
    <1>f. \A i \in Pending(d) : /\ i \in JobId /\ jobs[i] # NoJob /\ ~terminal(jobs[i].status)
                                /\ Superseded(jobs[i]) # NoJob
                                /\ Superseded(jobs[i]).doc = jobs[i].doc
                                /\ Superseded(jobs[i]).rev = jobs[i].rev
                                /\ terminal(Superseded(jobs[i]).status)
        BY <1>a, SupersededFacts, NoJobAssumption DEF Pending, TypeOK, terminal
    <1>g. \A i \in JobId : /\ jobs'[i] = IF i \in Pending(d) THEN Superseded(jobs[i])
                                         ELSE IF i = id THEN job ELSE jobs[i]
                           /\ log'[i] = IF i \in Pending(d) THEN Superseded(jobs[i])
                                        ELSE IF i = id THEN job ELSE log[i]
        BY <1>a, <1>d DEF WithSuperseded, WithCreated, TypeOK
    <1>h. \A i \in JobId : jobs[i] # NoJob => /\ jobs[i].doc \in Doc /\ jobs[i].rev \in Nat
                                              /\ jobs[i].rev <= latestRev[jobs[i].doc]
        BY <1>a DEF TypeOK, Job, Revisions
    <1>i. \A i \in JobId : log[i] # NoJob => jobs[i] = log[i]
        BY <1>a DEF LogFollows
    <1>j. \A i \in JobId \ {id} : jobs'[i] # NoJob =>
            /\ jobs[i] # NoJob /\ jobs'[i].doc = jobs[i].doc /\ jobs'[i].rev = jobs[i].rev
            /\ jobs'[i].doc = d => jobs'[i].rev <= latestRev[d] /\ jobs'[i].rev \in Nat
        BY <1>f, <1>g, <1>h
    <1>k. jobs'[id] = job /\ log'[id] = job
        BY <1>b, <1>e, <1>g
    <1>l. \A i \in JobId : log'[i] # NoJob => jobs'[i] = log'[i]
        BY <1>g, <1>i
    <1> HIDE DEF id
    <1>1. LogFollows'
        <2>1. ASSUME NEW i \in JobId
              PROVE  \/ log'[i] = jobs'[i]
                     \/ log'[i] = NoJob /\ jobs'[i] # NoJob /\ terminal(jobs'[i].status)
            BY <1>a, <1>g DEF LogFollows
        <2> QED BY <2>1 DEF LogFollows
    <1>2. UniqueRevisions(jobs)'
        <2> SUFFICES ASSUME NEW i \in JobId, NEW j \in JobId,
                            jobs'[i] # NoJob, jobs'[j] # NoJob,
                            jobs'[i].doc = jobs'[j].doc, jobs'[i].rev = jobs'[j].rev
                     PROVE  i = j
            BY DEF UniqueRevisions
        <2>1. CASE i # id /\ j # id
            BY <1>a, <1>j, <2>1 DEF UniqueRevisions
        <2>2. CASE i = id /\ j # id
            BY <1>b, <1>c, <1>j, <1>k, <2>2
        <2>3. CASE i # id /\ j = id
            BY <1>b, <1>c, <1>j, <1>k, <2>3
        <2> QED BY <2>1, <2>2, <2>3
    <1>3. UniqueRevisions(log)'
        BY <1>2, <1>l DEF UniqueRevisions
    <1>4. KeepsSource(jobs)'
        BY <1>a, <1>c, <1>f, <1>g DEF KeepsSource
    <1>5. KeepsSource(log)'
        BY <1>4, <1>l DEF KeepsSource
    <1>6. PendingIsLatest'
        <2> SUFFICES ASSUME NEW i \in JobId, jobs'[i] # NoJob, ~terminal(jobs'[i].status)
                     PROVE  i = latestJob'[jobs'[i].doc]
            BY <1>a DEF PendingIsLatest
        <2>1. CASE i = id
            BY <1>a, <1>c, <1>d, <1>k, <2>1 DEF TypeOK
        <2>2. CASE i # id
            <3>1. i \notin Pending(d) /\ jobs'[i] = jobs[i]
                BY <1>f, <1>g, <2>2
            <3>2. i = latestJob[jobs[i].doc]
                BY <1>a, <1>b, <3>1 DEF PendingIsLatest
            <3>3. jobs[i].doc # d
                BY <3>1, <3>2 DEF Pending
            <3> QED BY <1>a, <1>d, <1>h, <3>1, <3>2, <3>3 DEF TypeOK
        <2> QED BY <2>1, <2>2
    <1> QED BY <1>1, <1>2, <1>3, <1>4, <1>5, <1>6 DEF RecordsInv

(* RecordsInv is inductive relative to the invariants before it.           *)
LEMMA NextRecords ==
    ASSUME MaxFaults = 0, DurabilityInv, LatestInv, ControlInv, RecordsInv, [Next]_vars
    PROVE  RecordsInv'
    <1>a. /\ LogFollows /\ PendingIsLatest /\ TypeOK
          /\ UniqueRevisions(log) /\ UniqueRevisions(jobs)
          /\ KeepsSource(log) /\ KeepsSource(jobs)
        BY DEF RecordsInv, DurabilityInv
    <1>b. \A t \in Thread : FailVolatile(t) => MaxFaults # 0
        BY DEF ControlInv, AppendsSucceed, FailVolatile
    <1>1. CASE Ends
        <2>1. log' = log /\ phase' \notin Up /\ (jobs' = NoJobs \/ jobs' = jobs)
            BY <1>1 DEF Ends
        <2>2. UniqueRevisions(jobs)' /\ KeepsSource(jobs)'
            BY <1>a, <2>1 DEF UniqueRevisions, KeepsSource, NoJobs
        <2>3. UniqueRevisions(log)' /\ KeepsSource(log)'
            BY <1>a, <2>1 DEF UniqueRevisions, KeepsSource
        <2> QED BY <2>1, <2>2, <2>3 DEF RecordsInv, LogFollows, PendingIsLatest
    <1>2. CASE Open
        <2>1. /\ jobs' = log /\ log' = log
              /\ toRecover' = {i \in JobId : log[i] # NoJob /\ ~terminal(log[i].status)}
            BY <1>2 DEF Open, durable
        <2>2. /\ UniqueRevisions(jobs)' /\ KeepsSource(jobs)'
              /\ UniqueRevisions(log)' /\ KeepsSource(log)'
            BY <1>a, <2>1 DEF UniqueRevisions, KeepsSource
        <2> QED BY <2>1, <2>2 DEF RecordsInv, LogFollows, PendingIsLatest
    <1>3. CASE KeepsJobs
        <2>1. /\ UNCHANGED <<jobs, latestRev, latestJob, toRecover>>
              /\ phase' \in Up => phase \in Up
              /\ \A i \in JobId : \/ log'[i] = log[i]
                                  \/ /\ log[i] # NoJob /\ terminal(log[i].status)
                                     /\ log'[i] = NoJob
            BY <1>3 DEF KeepsJobs
        <2>2. LogFollows'
            BY <1>a, <2>1 DEF LogFollows
        <2>3. /\ UniqueRevisions(jobs)' /\ KeepsSource(jobs)'
              /\ UniqueRevisions(log)' /\ KeepsSource(log)'
            BY <1>a, <2>1 DEF UniqueRevisions, KeepsSource
        <2>4. PendingIsLatest'
            BY <1>a, <2>1 DEF PendingIsLatest
        <2> QED BY <2>2, <2>3, <2>4 DEF RecordsInv
    <1>4. ASSUME NEW t \in Thread, Publishes(t) PROVE RecordsInv'
        BY <1>3, <1>4 DEF Publishes
    <1> QED BY <1>1, <1>2, <1>3, <1>4, <1>b, StepKinds, RewriteRecords, CreateRecords

(* Memory only moves jobs towards their end, and a job that was unfinished *)
(* or not there before is unfinished after a step only if it is new.       *)
LEMMA JobsProgress ==
    ASSUME DurabilityInv, [Next]_vars, ControlInv, phase' \in Up, ~Open
    PROVE  /\ phase \in Up
           /\ \A i \in JobId : jobs[i] # NoJob /\ terminal(jobs[i].status)
                => jobs'[i] # NoJob /\ terminal(jobs'[i].status)
           /\ \A i \in JobId : jobs'[i] # NoJob /\ ~terminal(jobs'[i].status) =>
                \/ jobs[i] # NoJob /\ ~terminal(jobs[i].status)
                \/ i = nextId + 1 /\ \E d \in Doc, v \in Value : Creates(d, v)
    <1>a. TypeOK
        BY DEF DurabilityInv
    <1>b. \A t \in Thread : FailVolatile(t) => MaxFaults # 0
        BY DEF ControlInv, AppendsSucceed, FailVolatile
    <1>1. ~Ends
        BY DEF Ends
    <1>2. CASE KeepsJobs
        BY <1>2 DEF KeepsJobs
    <1>3. ASSUME NEW t \in Thread, Publishes(t) PROVE KeepsJobs
        BY <1>3 DEF Publishes
    <1>4. ASSUME NEW id \in JobId, NEW job \in Job, Rewrites(id, job)
          PROVE  /\ phase \in Up /\ jobs[id] # NoJob /\ ~terminal(jobs[id].status)
                 /\ \A i \in JobId : i # id => jobs'[i] = jobs[i]
        BY <1>4, <1>a DEF Rewrites, TypeOK
    <1>5. ASSUME NEW d \in Doc, NEW v \in Value, Creates(d, v)
          PROVE  /\ phase \in Up
                 /\ nextId + 1 \in JobId /\ jobs[nextId + 1] = NoJob
                 /\ \A i \in JobId \ {nextId + 1} :
                        \/ jobs'[i] = jobs[i]
                        \/ /\ jobs[i] # NoJob /\ ~terminal(jobs[i].status)
                           /\ jobs'[i] # NoJob /\ terminal(jobs'[i].status)
        <2>1. nextId < MaxJobs /\ phase \in Up
            BY <1>5 DEF Creates, Create, Up
        <2>2. nextId + 1 \in JobId /\ jobs[nextId + 1] = NoJob
            BY <2>1, FreshId
        <2>3. \A i \in Pending(d) : /\ jobs[i] # NoJob /\ ~terminal(jobs[i].status)
                                    /\ Superseded(jobs[i]) # NoJob
                                    /\ terminal(Superseded(jobs[i]).status)
            BY <1>a, SupersededFacts, NoJobAssumption DEF Pending, TypeOK, terminal
        <2>4. \A i \in JobId \ {nextId + 1} :
                jobs'[i] = IF i \in Pending(d) THEN Superseded(jobs[i]) ELSE jobs[i]
            BY <1>5, <1>a DEF Creates, Create, WithSuperseded, WithCreated, TypeOK
        <2> QED BY <2>1, <2>2, <2>3, <2>4
    <1>6. CASE \E id \in JobId, job \in Job : Rewrites(id, job)
        <2>1. PICK id \in JobId, job \in Job : Rewrites(id, job)
            BY <1>6
        <2> QED BY <1>4, <2>1
    <1>7. CASE \E d \in Doc, v \in Value : Creates(d, v)
        <2>1. PICK d \in Doc, v \in Value : Creates(d, v)
            BY <1>7
        <2> QED BY <1>5, <1>7, <2>1
    <1> QED BY <1>1, <1>2, <1>3, <1>6, <1>7, <1>b, StepKinds

(* The places a job is held in.                                            *)
HoldersInv == ReadyIsDone /\ PendingIsHeld

(* A thread that returns leaves a finished job: it was superseded, ready,  *)
(* failed, or no longer the newest, which a pending job always is.         *)
LEMMA ThreadHolders ==
    ASSUME DurabilityInv, LatestInv, RecordsInv, ControlInv, HoldersInv,
           [Next]_vars, phase' \in Up, ~Open, NEW t \in Thread, ThreadStep(t)
    PROVE  HoldersInv'
    <1>a. /\ TypeOK /\ References /\ LatestKnown /\ PendingIsLatest /\ ReadyIsDone
          /\ PendingIsHeld
          /\ pc[t] # "idle" /\ UNCHANGED <<phase, queue, toRecover, deletions, nextId>>
        BY DEF DurabilityInv, LatestInv, RecordsInv, HoldersInv, ThreadStep
    <1>b. /\ phase \in Up
          /\ \A i \in JobId : jobs[i] # NoJob /\ terminal(jobs[i].status)
                => jobs'[i] # NoJob /\ terminal(jobs'[i].status)
          /\ \A i \in JobId : jobs'[i] # NoJob /\ ~terminal(jobs'[i].status) =>
                \/ jobs[i] # NoJob /\ ~terminal(jobs[i].status)
                \/ i = nextId + 1 /\ \E d \in Doc, v \in Value : Creates(d, v)
        BY JobsProgress
    <1>c. \A u \in Thread : pc[u] # "idle" => cur[u] \in JobId /\ jobs[cur[u]] # NoJob
        BY <1>a DEF References
    <1>1. ReadyIsDone'
        <2> SUFFICES ASSUME NEW u \in Thread, pc'[u] \in AfterReady
                     PROVE  terminal(jobs'[cur'[u]].status)
            BY DEF ReadyIsDone
        <2>0. "idle" \notin AfterReady
            BY DEF AfterReady, CheckpointPc
        <2>1. CASE pc[u] \in AfterReady /\ cur'[u] = cur[u]
            BY <1>a, <1>b, <1>c, <2>0, <2>1 DEF ReadyIsDone
        <2>2. CASE ~(pc[u] \in AfterReady /\ cur'[u] = cur[u])
            <3>1. u = t /\ cur'[t] = cur[t] /\ terminal(jobs'[cur[t]].status)
                BY <1>a, <2>0, <2>2 DEF ThreadStep, Finish, Goto, TypeOK
            <3> QED BY <3>1
        <2> QED BY <2>1, <2>2
    <1>2. PendingIsHeld'
        <2> SUFFICES ASSUME NEW i \in JobId, jobs'[i] # NoJob, ~terminal(jobs'[i].status)
                     PROVE  Held(i)'
            BY DEF PendingIsHeld
        <2>1. ~ \E d \in Doc, v \in Value : Creates(d, v)
            <3>1. nextId \in Nat /\ nextId' = nextId
                BY <1>a DEF TypeOK
            <3> QED BY <3>1 DEF Creates, Create
        <2>2. Held(i) /\ jobs[i] # NoJob /\ ~terminal(jobs[i].status)
            BY <1>a, <1>b, <2>1 DEF PendingIsHeld
        <2>3. CASE \E u \in Thread : Works(u) /\ cur[u] = i
            <3>1. PICK u \in Thread : Works(u) /\ cur[u] = i
                BY <2>3
            <3>2. CASE u # t
                BY <1>a, <3>1, <3>2 DEF ThreadStep, Finish, Goto, Held, Works, TypeOK
            <3>3. CASE u = t /\ \E next \in Pc \ {"idle", "waiting"} : Goto(t, next)
                <4>1. Works(t)' /\ cur'[t] = i
                    BY <1>a, <3>1, <3>3 DEF Goto, Works, TypeOK
                <4> QED BY <4>1 DEF Held
            <3>4. CASE u = t /\ Finish(t) /\ ~(\E next \in Pc \ {"idle", "waiting"} : Goto(t, next))
                <4>1. latestRev[jobs[i].doc] # jobs[i].rev
                    BY <1>a, <2>2, <3>1, <3>4 DEF ThreadStep, ReadyIsDone
                <4>2. toRecover = {}
                    BY <1>a DEF References
                <4>3. i = latestJob[jobs[i].doc] /\ jobs[i].doc \in Doc
                    BY <1>a, <1>b, <2>2, <4>2 DEF PendingIsLatest, TypeOK, Job
                <4>5. i # 0
                    BY DEF JobId
                <4>4. jobs[i].rev = latestRev[jobs[i].doc]
                    BY <1>a, <1>b, <4>3, <4>5 DEF LatestKnown
                <4> QED BY <4>1, <4>4
            <3> QED BY <3>2, <3>3, <3>4 DEF ThreadStep
        <2>4. CASE (\E k \in DOMAIN queue : queue[k] = i) \/ i \in toRecover \cup deletions
            BY <1>a, <2>4 DEF Held
        <2> QED BY <2>2, <2>3, <2>4 DEF Held
    <1> QED BY <1>1, <1>2 DEF HoldersInv

(* A step that hands out a job holds it where it puts it, and every other  *)
(* job where it was.                                                       *)
LEMMA HandsOutHolders ==
    ASSUME DurabilityInv, LatestInv, RecordsInv, ControlInv, HoldersInv,
           [Next]_vars, HandsOut
    PROVE  HoldersInv'
    <1>a. /\ TypeOK /\ References /\ ReadyIsDone /\ PendingIsHeld
          /\ Worker \subseteq Thread /\ Client \subseteq Thread /\ Main \in Thread
        BY DEF DurabilityInv, HoldersInv, Thread
    <1>0. phase' = phase /\ phase \in Up /\ ~Open
        BY DEF HandsOut, Dequeue, ExecuteDeletion, RecoverJob, Wait, SubmitAsync,
            CallerExecutes, Open, Up
    <1>b. /\ \A i \in JobId : jobs[i] # NoJob /\ terminal(jobs[i].status)
                => jobs'[i] # NoJob /\ terminal(jobs'[i].status)
          /\ \A i \in JobId : jobs'[i] # NoJob /\ ~terminal(jobs'[i].status) =>
                \/ jobs[i] # NoJob /\ ~terminal(jobs[i].status)
                \/ i = nextId + 1 /\ \E d \in Doc, v \in Value : Creates(d, v)
        BY <1>0, JobsProgress
    <1>c. \A u \in Thread : pc[u] # "idle" => cur[u] \in JobId /\ jobs[cur[u]] # NoJob
        BY <1>a DEF References
    <1>d. "idle" \notin AfterReady /\ "begin" \notin AfterReady /\ "waiting" \notin AfterReady
        BY DEF AfterReady, CheckpointPc
    <1>r. ASSUME \A u \in Thread : pc'[u] \in AfterReady => pc[u] = pc'[u] /\ cur'[u] = cur[u]
          PROVE  ReadyIsDone'
        BY <1>a, <1>b, <1>c, <1>d, <1>r DEF ReadyIsDone
    <1>h. ASSUME nextId' = nextId, \A i \in JobId : Held(i) => Held(i)' \/ jobs'[i] = NoJob
                                                     \/ terminal(jobs'[i].status)
          PROVE  PendingIsHeld'
        <2>1. ~ \E d \in Doc, v \in Value : Creates(d, v)
            <3>1. nextId \in Nat
                BY <1>a DEF TypeOK
            <3> QED BY <1>h, <3>1 DEF Creates, Create
        <2> QED BY <1>a, <1>b, <1>0, <1>h, <2>1 DEF PendingIsHeld
    <1>1. ASSUME NEW w \in Worker, Dequeue(w) PROVE HoldersInv'
        <2>1. queue \in Seq(JobId) /\ queue # <<>>
            BY <1>1, <1>a DEF Dequeue, TypeOK
        <2>2. /\ Len(queue) \in Nat /\ DOMAIN queue = 1..Len(queue)
              /\ Head(queue) = queue[1]
              /\ DOMAIN Tail(queue) = 1..(Len(queue) - 1)
              /\ \A i \in 1..(Len(queue) - 1) : Tail(queue)[i] = queue[i + 1]
            BY <2>1
        <2>3. \A k \in DOMAIN queue : k = 1 \/ \E m \in DOMAIN queue' : queue'[m] = queue[k]
            <3> SUFFICES ASSUME NEW k \in DOMAIN queue, k # 1
                         PROVE  \E m \in DOMAIN queue' : queue'[m] = queue[k]
                OBVIOUS
            <3>1. k - 1 \in 1..(Len(queue) - 1) /\ (k - 1) + 1 = k
                BY <2>2
            <3>2. queue' = Tail(queue)
                BY <1>1 DEF Dequeue
            <3> QED BY <2>2, <3>1, <3>2
        <2>4. /\ \A u \in Thread : u # w => cur'[u] = cur[u] /\ pc'[u] = pc[u]
              /\ cur'[w] = queue[1] /\ ~Works(w) /\ pc'[w] = "begin"
              /\ UNCHANGED <<toRecover, deletions, nextId>>
            BY <1>1, <1>a, <2>2 DEF Dequeue, Works, TypeOK
        <2>5. \A u \in Thread : Works(u) => Works(u)' /\ cur'[u] = cur[u]
            BY <2>4 DEF Works
        <2>6. Works(w)'
            BY <2>4 DEF Works
        <2>7. \A i \in JobId : Held(i) => Held(i)'
            BY <1>a, <2>3, <2>4, <2>5, <2>6 DEF Held
        <2> QED BY <1>d, <1>h, <1>r, <2>4, <2>7 DEF HoldersInv
    <1>2. ASSUME NEW id \in JobId, ExecuteDeletion(id) PROVE HoldersInv'
        <2>1. /\ \A u \in Thread : u # Main => cur'[u] = cur[u] /\ pc'[u] = pc[u]
              /\ cur'[Main] = id /\ pc[Main] = "idle" /\ pc'[Main] = "begin"
              /\ UNCHANGED <<toRecover, queue, nextId>> /\ deletions' = deletions \ {id}
            BY <1>2, <1>a DEF ExecuteDeletion, TypeOK
        <2>2. \A u \in Thread : Works(u) => Works(u)' /\ cur'[u] = cur[u]
            BY <2>1 DEF Works
        <2>3. Works(Main)'
            BY <2>1 DEF Works
        <2>4. \A i \in JobId : Held(i) => Held(i)'
            BY <1>a, <2>1, <2>2, <2>3 DEF Held
        <2> QED BY <1>d, <1>h, <1>r, <2>1, <2>4 DEF HoldersInv
    <1>3. ASSUME NEW c \in Client, NEW id \in JobId, Wait(c, id) PROVE HoldersInv'
        <2>1. /\ \A u \in Thread : u # c => cur'[u] = cur[u] /\ pc'[u] = pc[u]
              /\ pc[c] = "idle" /\ pc'[c] = "waiting"
              /\ UNCHANGED <<toRecover, queue, deletions, nextId>>
            BY <1>3, <1>a DEF Wait, TypeOK
        <2>2. \A u \in Thread : Works(u) => Works(u)' /\ cur'[u] = cur[u]
            BY <2>1 DEF Works
        <2>4. \A i \in JobId : Held(i) => Held(i)'
            BY <2>1, <2>2 DEF Held
        <2> QED BY <1>d, <1>h, <1>r, <2>1, <2>4 DEF HoldersInv
    <1>q. ASSUME NEW id \in JobId, queue' = Append(queue, id)
          PROVE  /\ \E m \in DOMAIN queue' : queue'[m] = id
                 /\ \A k \in DOMAIN queue : \E m \in DOMAIN queue' : queue'[m] = queue[k]
        <2>1. queue \in Seq(JobId) /\ Len(queue) \in Nat /\ DOMAIN queue = 1..Len(queue)
            BY <1>a DEF TypeOK
        <2>2. /\ DOMAIN queue' = 1..(Len(queue) + 1)
              /\ \A i \in 1..Len(queue) : queue'[i] = queue[i]
              /\ queue'[Len(queue) + 1] = id
            BY <1>q, <2>1
        <2> QED BY <2>1, <2>2
    <1>4. ASSUME NEW id \in JobId, RecoverJob(id) PROVE HoldersInv'
        <2> DEFINE job == RecoveredJob(jobs[id])
        <2>1. /\ UNCHANGED <<pc, cur, nextId>> /\ toRecover' = toRecover \ {id}
              /\ jobs' = [jobs EXCEPT ![id] = job]
              /\ \/ terminal(job.status) /\ queue' = queue /\ deletions' = deletions
                 \/ queue' = queue /\ deletions' = deletions \cup {id}
                 \/ queue' = Append(queue, id) /\ deletions' = deletions
            BY <1>4 DEF RecoverJob
        <2>2. jobs'[id] = job
            BY <1>a, <2>1 DEF TypeOK
        <2> HIDE DEF job
        <2>3. \A i \in JobId : Held(i) => Held(i)' \/ (i = id /\ terminal(jobs'[i].status))
            BY <1>q, <2>1, <2>2 DEF Held, Works
        <2> QED BY <1>h, <1>r, <2>1, <2>3 DEF HoldersInv
    <1>5. ASSUME NEW c \in Client, NEW d \in Doc, NEW v \in Value,
                 SubmitAsync(c, d, v) \/ CallerExecutes(c, d, v)
          PROVE  HoldersInv'
        <2> DEFINE id == nextId + 1
        <2>0. id \in JobId
            <3>1. nextId < MaxJobs
                BY <1>5 DEF SubmitAsync, CallerExecutes, Create
            <3> QED BY <3>1, FreshId
        <2>1. /\ \A u \in Thread : u # c => cur'[u] = cur[u] /\ pc'[u] = pc[u]
              /\ pc[c] = "idle" /\ UNCHANGED <<toRecover, deletions>>
              /\ \/ queue' = Append(queue, id) /\ pc'[c] = pc[c] /\ cur'[c] = cur[c]
                 \/ queue' = queue /\ pc'[c] = "begin" /\ cur'[c] = id
            BY <1>5, <1>a DEF SubmitAsync, CallerExecutes, TypeOK
        <2>2. \A u \in Thread : Works(u) => Works(u)' /\ cur'[u] = cur[u]
            BY <2>1 DEF Works
        <2>3. pc'[c] = "begin" => Works(c)'
            BY DEF Works
        <2>4. \A i \in JobId : jobs'[i] # NoJob /\ ~terminal(jobs'[i].status) =>
                i = id \/ (jobs[i] # NoJob /\ ~terminal(jobs[i].status))
            BY <1>b
        <2> HIDE DEF id
        <2>5. \A i \in JobId : Held(i) \/ i = id => Held(i)'
            BY <1>a, <1>q, <2>0, <2>1, <2>2, <2>3 DEF Held
        <2>6. PendingIsHeld'
            BY <1>0, <1>a, <2>4, <2>5 DEF PendingIsHeld
        <2>7. ReadyIsDone'
            BY <1>d, <1>r, <2>1
        <2> QED BY <2>6, <2>7 DEF HoldersInv
    <1> QED BY <1>1, <1>2, <1>3, <1>4, <1>5 DEF HandsOut

(* HoldersInv is inductive relative to the invariants before it.           *)
LEMMA NextHolders ==
    ASSUME DurabilityInv, LatestInv, RecordsInv, ControlInv, HoldersInv,
           [Next]_vars, "caller" \notin CheckpointBy
    PROVE  HoldersInv'
    <1>a. TypeOK /\ References /\ ReadyIsDone /\ PendingIsHeld
        BY DEF DurabilityInv, HoldersInv
    <1>0. "idle" \notin AfterReady
        BY DEF AfterReady, CheckpointPc
    <1>1. CASE phase' = "down" /\ VolatileCleared
        BY <1>0, <1>1 DEF VolatileCleared, HoldersInv, ReadyIsDone, PendingIsHeld, Up
    <1>2. CASE Open
        <2>1. /\ \A t \in Thread : pc'[t] = "idle"
              /\ jobs' = log
              /\ toRecover' = {i \in JobId : log[i] # NoJob /\ ~terminal(log[i].status)}
            BY <1>2, <1>a DEF Open, References, Up
        <2> QED BY <1>0, <2>1 DEF HoldersInv, ReadyIsDone, PendingIsHeld, Held
    <1>3. CASE Rests
        BY <1>3, <1>a DEF Rests, HoldersInv, ReadyIsDone, PendingIsHeld, Held, Works
    <1>4. ASSUME NEW t \in Thread, ThreadStep(t) PROVE HoldersInv'
        <2>1. phase \in Up /\ phase' = phase
            BY <1>4, <1>a DEF ThreadStep, References
        <2>2. ~Open
            BY <2>1 DEF Open, Up
        <2> QED BY <1>4, <2>1, <2>2, ThreadHolders
    <1> QED BY <1>1, <1>2, <1>3, <1>4, ControlKinds, HandsOutHolders

(* The invariants hold in every behaviour in which no append fails.        *)
LEMMA QueueInvariants ==
    ASSUME MaxFaults = 0, "caller" \notin CheckpointBy
    PROVE  Spec => [](DurabilityInv /\ LatestInv /\ ControlInv /\ HeldInv)
    <1>1. Init => HeldInv
        <2> SUFFICES ASSUME Init PROVE HeldInv
            OBVIOUS
        <2>1. /\ \A i \in JobId : jobs[i] = NoJob /\ log[i] = NoJob
              /\ phase \notin Up /\ \A t \in Thread : pc[t] \notin AfterReady
            BY DEF Init, NoJobs, Up, AfterReady, CheckpointPc
        <2> QED BY <2>1 DEF HeldInv, LogFollows, UniqueRevisions, KeepsSource,
                PendingIsLatest, ReadyIsDone, PendingIsHeld
    <1>2. DurabilityInv /\ LatestInv /\ ControlInv /\ HeldInv /\ [Next]_vars => HeldInv'
        <2> SUFFICES ASSUME DurabilityInv, LatestInv, ControlInv, HeldInv, [Next]_vars
                     PROVE  HeldInv'
            OBVIOUS
        <2>1. RecordsInv /\ HoldersInv
            BY DEF HeldInv, RecordsInv, HoldersInv
        <2>2. RecordsInv' /\ HoldersInv'
            BY <2>1, NextRecords, NextHolders
        <2> QED BY <2>2 DEF HeldInv, RecordsInv, HoldersInv
    <1>3. Spec => [](DurabilityInv /\ LatestInv /\ ControlInv)
        BY TableInvariants
    <1> QED BY <1>1, <1>2, <1>3, PTL DEF Spec

(* A held job that is held in one place only has one holder.               *)
LEMMA OneHolder ==
    ASSUME DurabilityInv, ControlInv, NEW id \in JobId, Held(id)
    PROVE  Cardinality(Holders(id)) = 1
    <1>a. References /\ ExclusiveWork
        BY DEF DurabilityInv, ControlInv
    <1>1. \E x : Holders(id) = {x}
        <2>1. CASE \E i \in DOMAIN queue : queue[i] = id
            <3>1. PICK i \in DOMAIN queue : queue[i] = id
                BY <2>1
            <3>2. /\ {k \in DOMAIN queue : queue[k] = id} = {i}
                  /\ {u \in Thread : cur[u] = id /\ pc[u] \notin {"waiting", "idle"}} = {}
                  /\ toRecover \cap {id} = {} /\ deletions \cap {id} = {}
                BY <1>a, <3>1 DEF ExclusiveWork, Works
            <3>3. Holders(id) = {<<"queue", i>>}
                BY <3>2 DEF Holders
            <3> QED BY <3>3
        <2>2. CASE \E t \in Thread : Works(t) /\ cur[t] = id
            <3>1. PICK t \in Thread : Works(t) /\ cur[t] = id
                BY <2>2
            <3>2. /\ {k \in DOMAIN queue : queue[k] = id} = {}
                  /\ {u \in Thread : cur[u] = id /\ pc[u] \notin {"waiting", "idle"}} = {t}
                  /\ toRecover \cap {id} = {} /\ deletions \cap {id} = {}
                BY <1>a, <3>1 DEF ExclusiveWork, Works
            <3>3. Holders(id) = {<<"thread", t>>}
                BY <3>2 DEF Holders
            <3> QED BY <3>3
        <2>3. CASE id \in toRecover
            <3>2. /\ {k \in DOMAIN queue : queue[k] = id} = {}
                  /\ {u \in Thread : cur[u] = id /\ pc[u] \notin {"waiting", "idle"}} = {}
                  /\ toRecover \cap {id} = {id} /\ deletions \cap {id} = {}
                BY <1>a, <2>3 DEF ExclusiveWork, Works
            <3>3. Holders(id) = {<<"recover", id>>}
                BY <3>2 DEF Holders
            <3> QED BY <3>3
        <2>4. CASE id \in deletions
            <3>2. /\ {k \in DOMAIN queue : queue[k] = id} = {}
                  /\ {u \in Thread : cur[u] = id /\ pc[u] \notin {"waiting", "idle"}} = {}
                  /\ toRecover \cap {id} = {} /\ deletions \cap {id} = {id}
                BY <1>a, <2>4 DEF ExclusiveWork, Works
            <3>3. Holders(id) = {<<"delete", id>>}
                BY <3>2 DEF Holders
            <3> QED BY <3>3
        <2> QED BY <2>1, <2>2, <2>3, <2>4 DEF Held
    <1> QED BY <1>1, FS_Singleton

(* Until shutdown() every unfinished job is in exactly one place that will *)
(* execute it, is the only unfinished one of its document, and can be      *)
(* executed again after a crash (submit(), recover(), worker_loop()), as   *)
(* long as appends succeed.                                                *)
THEOREM EveryJobHeldOnce ==
    ASSUME MaxFaults = 0, "caller" \notin CheckpointBy
    PROVE  Spec => []WorkHeldOnce
    <1>1. DurabilityInv /\ LatestInv /\ ControlInv /\ HeldInv => WorkHeldOnce
        <2> SUFFICES ASSUME DurabilityInv, ControlInv, HeldInv
                     PROVE  JobsHeldOnce /\ OnePendingJob
            BY DEF WorkHeldOnce
        <2>1. {"recovering", "running"} \subseteq Up
            BY DEF Up
        <2>2. JobsHeldOnce
            BY <2>1, OneHolder DEF JobsHeldOnce, HeldInv, PendingIsHeld
        <2>3. phase = "running" => toRecover = {}
            BY DEF DurabilityInv, References
        <2>4. OnePendingJob
            BY <2>1, <2>3 DEF OnePendingJob, HeldInv, KeepsSource, LogFollows, PendingIsLatest
        <2> QED BY <2>2, <2>4
    <1> QED BY <1>1, QueueInvariants, PTL

(* The durable outcome of a job is final: recovery, supersession and late  *)
(* threads rewrite unfinished records only (transition(), recover()), as   *)
(* long as appends succeed.                                                *)
THEOREM OutcomesAreFinal ==
    ASSUME MaxFaults = 0, "caller" \notin CheckpointBy
    PROVE  Spec => OutcomeIsFinal
    <1>1. ASSUME DurabilityInv, LatestInv, ControlInv, HeldInv, [Next]_vars
          PROVE  [\A id \in JobId : log[id] # NoJob /\ terminal(log[id].status)
                        => log'[id] \in {log[id], NoJob}]_log
        <2> SUFFICES ASSUME NEW i \in JobId, log[i] # NoJob, terminal(log[i].status)
                     PROVE  log'[i] \in {log[i], NoJob}
            OBVIOUS
        <2>a. TypeOK /\ LogFollows
            BY <1>1 DEF DurabilityInv, HeldInv
        <2>b. \A t \in Thread : FailVolatile(t) => MaxFaults # 0
            BY <1>1 DEF ControlInv, AppendsSucceed, FailVolatile
        <2>1. CASE Ends \/ Open \/ KeepsJobs
            BY <2>1 DEF Ends, Open, KeepsJobs, durable
        <2>2. ASSUME NEW t \in Thread, Publishes(t) PROVE KeepsJobs
            BY <2>2 DEF Publishes
        <2>3. ASSUME NEW id \in JobId, NEW job \in Job, Rewrites(id, job)
              PROVE  log'[i] = log[i]
            <3>1. i # id
                BY <2>3, <2>a DEF Rewrites, LogFollows
            <3> QED BY <2>3, <2>a, <3>1 DEF Rewrites, TypeOK
        <2>4. ASSUME NEW d \in Doc, NEW v \in Value, Creates(d, v)
              PROVE  log'[i] = log[i]
            <3>1. nextId < MaxJobs /\ phase \in Up
                BY <2>4 DEF Creates, Create, Up
            <3>2. i # nextId + 1
                BY <1>1, <3>1, FreshId
            <3>3. i \notin Pending(d)
                BY <2>a, <3>1 DEF Pending, LogFollows
            <3> QED BY <2>4, <2>a, <3>2, <3>3
                    DEF Creates, Create, Persist, WithSuperseded, WithCreated, TypeOK
        <2> QED BY <1>1, <2>b, <2>1, <2>2, <2>3, <2>4, StepKinds
    <1> QED BY <1>1, QueueInvariants, PTL DEF Spec, OutcomeIsFinal

-----------------------------------------------------------------------------
(* Recovery is never refused, when the log is never compacted              *)

(* A record that recover() can replay: a ready upsert has its prepared     *)
(* document.                                                               *)
HasReplay(job) == job # NoJob /\ job.status = "ready" => job.prepared \/ IsErase(job)

RecoveryInv ==
    /\ ckptFile = NoVersions
    /\ \A t \in Thread : pc[t] \notin CheckpointPc
    /\ \A id \in JobId : HasReplay(log[id])
    /\ RecoveryAccepted

(* What transition(), submit() and recover() write can be replayed.        *)
LEMMA WritesReplay ==
    ASSUME TypeOK, NEW job \in Job
    PROVE  /\ \A status \in Status : HasReplay(Advanced(job, status))
           /\ HasReplay(RecoveredJob(job))
           /\ HasReplay(Superseded(job))
           /\ \A d \in Doc, v \in Value : HasReplay(NewJob(d, v))
    <1>1. HasReplay(Superseded(job))
        BY SupersededFacts DEF HasReplay
    <1>2. HasReplay(RecoveredJob(job))
        BY RecoveredFacts DEF HasReplay, TypeOK
    <1>3. ASSUME NEW status \in Status PROVE HasReplay(Advanced(job, status))
        <2>1. CASE latestRev[job.doc] # job.rev
            BY <1>1, <2>1 DEF Advanced
        <2>2. CASE latestRev[job.doc] = job.rev
            <3> DEFINE new == Advanced(job, status)
            <3>1. /\ new.status = status /\ new.val = job.val
                  /\ new.prepared = (\/ (status \in {"publishing", "ready"} /\ ~IsErase(job))
                                     \/ (job.prepared /\ status # "failed"))
                BY <2>2 DEF Advanced, Job
            <3> HIDE DEF new
            <3> QED BY <3>1 DEF HasReplay, IsErase, new
        <2> QED BY <2>1, <2>2
    <1>4. ASSUME NEW d \in Doc, NEW v \in Value PROVE HasReplay(NewJob(d, v))
        BY DEF HasReplay, NewJob
    <1> QED BY <1>1, <1>2, <1>3, <1>4

(* Every step, failed appends included, leaves records that can be         *)
(* replayed.                                                               *)
LEMMA NextReplay ==
    ASSUME DurabilityInv, [Next]_vars, \A id \in JobId : HasReplay(log[id])
    PROVE  \A id \in JobId : HasReplay(log'[id])
    <1>a. TypeOK /\ References
        BY DEF DurabilityInv
    <1>n. HasReplay(NoJob)
        BY DEF HasReplay
    <1>w. ASSUME NEW id \in JobId, NEW job, HasReplay(job),
                 log' \in {log, [log EXCEPT ![id] = job]}
          PROVE  \A i \in JobId : HasReplay(log'[i])
        <2>1. \A i \in JobId : log'[i] = log[i] \/ log'[i] = job
            BY <1>a, <1>w DEF TypeOK
        <2> QED BY <1>w, <2>1
    <1>1. ASSUME NEW t \in Thread, NEW status \in Status, NEW next, pc[t] # "idle",
                 transition(t, status, next)
          PROVE  \A i \in JobId : HasReplay(log'[i])
        <2> DEFINE job == Advanced(jobs[cur[t]], status)
        <2>1. cur[t] \in JobId /\ jobs[cur[t]] \in Job
            BY <1>1, WorkingJob
        <2>2. HasReplay(job)
            BY <1>a, <2>1, WritesReplay
        <2>3. log' \in {log, [log EXCEPT ![cur[t]] = job]}
            BY <1>1 DEF transition, Persist, PersistFails
        <2> HIDE DEF job
        <2> QED BY <1>w, <2>1, <2>2, <2>3
    <1>2. ASSUME NEW id \in JobId, RecoverJob(id) \/ RecoverJobFails(id)
          PROVE  \A i \in JobId : HasReplay(log'[i])
        <2> DEFINE job == RecoveredJob(jobs[id])
        <2>1. jobs[id] \in Job
            BY <1>2, <1>a DEF RecoverJob, RecoverJobFails, References, TypeOK
        <2>2. HasReplay(job)
            BY <1>a, <2>1, WritesReplay
        <2>3. log' \in {log, [log EXCEPT ![id] = job]}
            BY <1>2 DEF RecoverJob, RecoverJobFails, Persist, PersistFails
        <2> HIDE DEF job
        <2> QED BY <1>w, <2>2, <2>3
    <1>3. ASSUME NEW d \in Doc, NEW v \in Value, Create(d, v) \/ CreateFails(d, v)
          PROVE  \A i \in JobId : HasReplay(log'[i])
        <2> DEFINE job == NewJob(d, v)
                   created == WithCreated(log, nextId + 1, job)
        <2>1. log' \in {log, created, WithSuperseded(created, d)}
            BY <1>3 DEF Create, CreateFails, Persist, PersistFails
        <2>3. HasReplay(job)
            BY DEF HasReplay, NewJob
        <2>4. \A i \in Pending(d) : HasReplay(Superseded(jobs[i]))
            BY <1>a, WritesReplay DEF Pending, TypeOK
        <2> HIDE DEF job
        <2>5. \A i \in JobId : created[i] = log[i] \/ created[i] = job
            BY <1>a DEF WithCreated, TypeOK
        <2> HIDE DEF created
        <2>6. \A i \in JobId : WithSuperseded(created, d)[i] =
                IF i \in Pending(d) THEN Superseded(jobs[i]) ELSE created[i]
            BY DEF WithSuperseded
        <2> QED BY <2>1, <2>3, <2>4, <2>5, <2>6
    <1>4. ASSUME NEW t \in Thread, TruncatePrefix(t)
          PROVE  \A i \in JobId : HasReplay(log'[i])
        <2> DEFINE history == PrefixTerminal(ckptPos[t])
        <2>1. PICK kept : log' = [i \in JobId |-> IF i \in history \ kept THEN NoJob
                                                  ELSE log[i]]
            BY <1>4 DEF TruncatePrefix
        <2> HIDE DEF history
        <2> QED BY <1>n, <2>1
    <1>5. CASE log' = log
        BY <1>5
    <1>6. ASSUME NEW t \in Thread, Execute(t) PROVE \A i \in JobId : HasReplay(log'[i])
        <2>1. {"chunking", "embedding", "publishing", "ready", "failed"} \subseteq Status
            BY DEF Status
        <2>2. CASE Chunking(t) \/ Embedding(t) \/ Publishing(t) \/ Ready(t) \/ FailJob(t)
            BY <1>1, <2>1, <2>2 DEF Chunking, Embedding, Publishing, Ready, FailJob
        <2>3. CASE TruncatePrefix(t)
            BY <1>4, <2>3
        <2>4. CASE Begin(t) \/ PreparationFails(t) \/ PublishSkipped(t) \/ PublishRefused(t)
                    \/ OnReady(t)
            BY <2>4, <1>5 DEF Begin, PreparationFails, PublishSkipped, PublishRefused,
                OnReady, Moves, durable
        <2>5. CASE Publish(t) \/ FailVolatile(t) \/ WaitReturns(t) \/ CaptureCheckpoint(t)
                    \/ SaveCheckpoint(t) \/ CheckpointFails(t)
            BY <2>5, <1>5 DEF Publish, FailVolatile, WaitReturns, CaptureCheckpoint,
                SaveCheckpoint, CheckpointFails, durable
        <2> QED BY <1>6, <2>2, <2>3, <2>4, <2>5 DEF Execute
    <1>7. ASSUME Recovering PROVE \A i \in JobId : HasReplay(log'[i])
        BY <1>7, <1>2, <1>5 DEF Recovering, Open, OpenRefused, ExecuteDeletion,
            StartWorkers, durable
    <1>8. ASSUME NEW c \in Client, Request(c) PROVE \A i \in JobId : HasReplay(log'[i])
        <2>1. Hash \subseteq Value /\ NoDoc \in Value
            BY DEF Value
        <2>2. ASSUME NEW i, Wait(c, i) PROVE log' = log
            BY <2>2 DEF Wait, durable
        <2> QED BY <1>8, <1>3, <1>5, <2>1, <2>2 DEF Request, SubmitAsync, SubmitSync,
                SubmitJoins, Erase, CallerExecutes
    <1>9. CASE \/ \E t \in Thread : BeginCheckpoint(t)
               \/ \E w \in Worker : Dequeue(w)
               \/ Shutdown \/ Stopped \/ Crash \/ UNCHANGED vars
        BY <1>9, <1>5 DEF BeginCheckpoint, Dequeue, Shutdown, Stopped, Crash, vars, durable
    <1> QED BY <1>2, <1>6, <1>7, <1>8, <1>9 DEF Next

(* Only open() may refuse, and it does not: no checkpoint is newer than    *)
(* the log, and every ready record can be replayed.                        *)
LEMMA NextRecovery ==
    ASSUME CheckpointBy = {}, DurabilityInv, RecoveryInv, [Next]_vars
    PROVE  RecoveryInv'
    <1>a. /\ TypeOK /\ ckptFile = NoVersions /\ phase # "refused"
          /\ \A t \in Thread : pc[t] \notin CheckpointPc
          /\ \A id \in JobId : HasReplay(log[id])
        BY DEF DurabilityInv, RecoveryInv, RecoveryAccepted
    <1>1. \A id \in JobId : HasReplay(log'[id])
        BY <1>a, NextReplay
    <1>p. /\ "idle" \notin CheckpointPc /\ "begin" \notin CheckpointPc
          /\ "waiting" \notin CheckpointPc
        BY DEF CheckpointPc
    <1>2. \A t \in Thread : pc'[t] \notin CheckpointPc
        <2>1. CASE phase' = "down" /\ VolatileCleared
            BY <1>p, <2>1 DEF VolatileCleared
        <2>2. CASE Open \/ Rests
            BY <1>a, <2>2 DEF Open, Rests
        <2>3. ASSUME NEW t \in Thread, ThreadStep(t) PROVE \A u \in Thread : pc'[u] \notin CheckpointPc
            BY <1>a, <1>p, <2>3 DEF ThreadStep, Finish, Goto, TypeOK
        <2>4. CASE HandsOut
            BY <1>a, <1>p, <2>4 DEF HandsOut, Dequeue, ExecuteDeletion, RecoverJob, Wait,
                SubmitAsync, CallerExecutes, TypeOK
        <2> QED BY <2>1, <2>2, <2>3, <2>4, ControlKinds
    <1>3. ~OpenRefused
        <2> SUFFICES ASSUME NEW d \in Doc, NEW id \in JobId, IsActiveReady(d, id)
                     PROVE  Replayable(d, id)
            BY DEF OpenRefused
        <2>1. id \in ReadyRecords(d)
            BY DEF IsActiveReady, JobId
        <2>2. log[id] \in Job /\ log[id] # NoJob /\ log[id].status = "ready" /\ log[id].rev > 0
            BY <1>a, <2>1 DEF ReadyRecords, Records, TypeOK, Job
        <2>3. Accepts(ckptFile[d], log[id])
            BY <1>a, <2>2 DEF NoVersions, Absent, Accepts
        <2> QED BY <1>a, <2>2, <2>3 DEF Replayable, HasReplay
    <1>4. phase' # "refused"
        <2>1. ASSUME NEW t \in Thread, Execute(t) \/ BeginCheckpoint(t)
              PROVE  phase' = phase
            BY <2>1, ExecuteThread DEF ThreadStep
        <2>3. CASE Recovering
            BY <1>3, <1>a, <2>3 DEF Recovering, Open, RecoverJob, ExecuteDeletion, StartWorkers
        <2>4. ASSUME NEW c \in Client, Request(c) PROVE phase' = phase
            BY <2>4 DEF Request, SubmitAsync, SubmitSync, SubmitJoins, Erase, CallerExecutes,
                CreateFails, Wait
        <2>5. ASSUME NEW w \in Worker, Dequeue(w) PROVE phase' = phase
            BY <2>5 DEF Dequeue
        <2>6. CASE \/ \E id \in JobId : RecoverJobFails(id)
                   \/ Shutdown \/ Stopped \/ Crash \/ UNCHANGED vars
            BY <1>a, <2>6 DEF RecoverJobFails, Shutdown, Stopped, Crash, vars
        <2> QED BY <1>a, <2>1, <2>3, <2>4, <2>5, <2>6 DEF Next
    <1>5. ckptFile' = ckptFile
        <2>1. ASSUME NEW t \in Thread, Execute(t) PROVE ckptFile' = ckptFile
            <3>1. ~SaveCheckpoint(t)
                BY <1>a DEF SaveCheckpoint, CheckpointPc
            <3>2. CASE Chunking(t) \/ Embedding(t) \/ Publishing(t) \/ Ready(t) \/ FailJob(t)
                BY <3>2 DEF Chunking, Embedding, Publishing, Ready, FailJob, transition
            <3>3. CASE Begin(t) \/ PreparationFails(t) \/ PublishSkipped(t) \/ PublishRefused(t)
                        \/ OnReady(t)
                BY <3>3 DEF Begin, PreparationFails, PublishSkipped, PublishRefused,
                    OnReady, Moves, durable
            <3>4. CASE Publish(t) \/ FailVolatile(t) \/ WaitReturns(t) \/ CaptureCheckpoint(t)
                        \/ CheckpointFails(t) \/ TruncatePrefix(t)
                BY <3>4 DEF Publish, FailVolatile, WaitReturns, CaptureCheckpoint,
                    CheckpointFails, TruncatePrefix, durable
            <3> QED BY <2>1, <3>1, <3>2, <3>3, <3>4 DEF Execute
        <2>2. CASE Recovering
            BY <2>2 DEF Recovering, Open, OpenRefused, RecoverJob, ExecuteDeletion,
                StartWorkers, durable
        <2>3. ASSUME NEW c \in Client, Request(c) PROVE ckptFile' = ckptFile
            BY <2>3 DEF Request, SubmitAsync, SubmitSync, SubmitJoins, Erase, CallerExecutes,
                CreateFails, Wait, durable
        <2>4. CASE \/ \E id \in JobId : RecoverJobFails(id)
                   \/ \E t \in Thread : BeginCheckpoint(t)
                   \/ \E w \in Worker : Dequeue(w)
                   \/ Shutdown \/ Stopped \/ Crash \/ UNCHANGED vars
            BY <2>4 DEF RecoverJobFails, BeginCheckpoint, Dequeue, Shutdown, Stopped, Crash,
                vars, durable
        <2> QED BY <2>1, <2>2, <2>3, <2>4 DEF Next
    <1> QED BY <1>a, <1>1, <1>2, <1>4, <1>5 DEF RecoveryInv, RecoveryAccepted

(* RecoveryInv in every behaviour without log compaction.                  *)
LEMMA RecoveryInvariant ==
    ASSUME CheckpointBy = {}
    PROVE  Spec => []RecoveryInv
    <1>1. Init => RecoveryInv
        BY DEF Init, RecoveryInv, RecoveryAccepted, HasReplay, NoJobs, CheckpointPc
    <1>2. DurabilityInv /\ RecoveryInv /\ [Next]_vars => RecoveryInv'
        BY NextRecovery
    <1>3. Spec => []DurabilityInv
        BY DurabilityInvariant
    <1> QED BY <1>1, <1>2, <1>3, PTL DEF Spec

(* open() accepts every log that this program wrote (recover()): with no   *)
(* checkpoint to be older than, and with the prepared document kept in     *)
(* every ready record, whatever append fails.                              *)
THEOREM OpenNeverRefused ==
    ASSUME CheckpointBy = {}
    PROVE  Spec => []RecoveryAccepted
    <1>1. RecoveryInv => RecoveryAccepted
        BY DEF RecoveryInv
    <1> QED BY <1>1, RecoveryInvariant, PTL

-----------------------------------------------------------------------------
(* Coordinator and backend agree, when no append fails and the log is      *)
(* never compacted                                                         *)

(* What a document shows in the backend is some job of the table.          *)
BackendFromJobs ==
    phase \in Up => \A d \in Doc :
        \/ backend[d] = Absent
        \/ \E id \in JobId : /\ jobs[id] # NoJob /\ jobs[id].doc = d
                             /\ backend[d] = Published(jobs[id])

(* A job that the backend shows did not fail: it is ready, or superseded,  *)
(* or its thread is about to report it ready.                              *)
ShownIsGood ==
    \A id \in JobId :
        jobs[id] # NoJob /\ backend[jobs[id].doc] = Published(jobs[id])
            => \/ jobs[id].status \in {"ready", "superseded"}
               \/ \E t \in Thread : pc[t] = "ready" /\ cur[t] = id

(* A job that failed is held nowhere: nothing will publish it later.       *)
HeldNotFailed ==
    \A id \in JobId : jobs[id] # NoJob /\ Held(id) => jobs[id].status # "failed"

AgreeInv ==
    /\ phase \notin Up => jobs = NoJobs
    /\ BackendFromJobs
    /\ ShownIsGood
    /\ HeldNotFailed

(* A thread that goes on or returns without publishing.  Only the thread   *)
(* that holds a job exclusively fails it, and then nothing holds it.       *)
LEMMA AgreeThread ==
    ASSUME DurabilityInv, ControlInv, AgreeInv, NEW t \in Thread, ThreadStep(t),
           backend' = backend, pc'[t] # "ready",
           \/ jobs' = jobs /\ (pc[t] # "ready" \/ terminal(jobs[cur[t]].status))
           \/ \E job \in Job :
                /\ Works(t) /\ Rewrites(cur[t], job)
                /\ pc[t] = "ready" => job.status \in {"ready", "superseded"}
                /\ job.status = "failed" => Finish(t)
    PROVE  AgreeInv'
    <1>a. /\ TypeOK /\ References /\ ExclusiveWork /\ BackendFromJobs /\ ShownIsGood
          /\ HeldNotFailed /\ phase \in Up /\ phase' = phase
          /\ pc[t] # "idle" /\ cur[t] \in JobId /\ jobs[cur[t]] # NoJob
        BY WorkingJob, NoJobAssumption DEF DurabilityInv, ControlInv, AgreeInv, ThreadStep
    <1>b. /\ \A u \in Thread : u # t => pc'[u] = pc[u] /\ cur'[u] = cur[u]
          /\ Works(t)' => Works(t) /\ cur'[t] = cur[t]
          /\ Finish(t) => ~Works(t)'
          /\ UNCHANGED <<queue, toRecover, deletions>>
        BY <1>a DEF ThreadStep, Finish, Goto, Works, TypeOK
    <1>c. \A u \in Thread : u # t => (Works(u)' <=> Works(u))
        BY <1>b DEF Works
    <1>d. \A i \in JobId : Held(i)' => Held(i)
        BY <1>b, <1>c DEF Held
    <1>e. \A u \in Thread : pc[u] = "ready" => Works(u)
        BY DEF Works
    <1>1. CASE jobs' = jobs /\ (pc[t] # "ready" \/ terminal(jobs[cur[t]].status))
        <2>1. BackendFromJobs'
            BY <1>1, <1>a DEF BackendFromJobs
        <2>2. HeldNotFailed'
            BY <1>1, <1>a, <1>d DEF HeldNotFailed
        <2>3. ShownIsGood'
            <3> SUFFICES ASSUME NEW i \in JobId, jobs[i] # NoJob,
                                backend[jobs[i].doc] = Published(jobs[i]),
                                jobs[i].status \notin {"ready", "superseded"}
                         PROVE  \E u \in Thread : pc'[u] = "ready" /\ cur'[u] = i
                BY <1>1 DEF ShownIsGood
            <3>1. PICK u \in Thread : pc[u] = "ready" /\ cur[u] = i
                BY <1>a DEF ShownIsGood
            <3>2. CASE u # t
                BY <1>b, <3>1, <3>2
            <3>3. CASE u = t
                <4>1. terminal(jobs[i].status) /\ Held(i)
                    BY <1>1, <1>e, <3>1, <3>3 DEF Held
                <4>2. jobs[i].status # "failed"
                    BY <1>a, <4>1 DEF HeldNotFailed
                <4> QED BY <4>1, <4>2 DEF terminal
            <3> QED BY <3>2, <3>3
        <2> QED BY <1>a, <2>1, <2>2, <2>3 DEF AgreeInv
    <1>2. CASE \E job \in Job :
                /\ Works(t) /\ Rewrites(cur[t], job)
                /\ pc[t] = "ready" => job.status \in {"ready", "superseded"}
                /\ job.status = "failed" => Finish(t)
        <2> DEFINE id == cur[t]
        <2>1. PICK job \in Job :
                /\ Works(t) /\ Rewrites(id, job)
                /\ pc[t] = "ready" => job.status \in {"ready", "superseded"}
                /\ job.status = "failed" => Finish(t)
            BY <1>2
        <2>2. /\ ~terminal(jobs[id].status)
              /\ job.doc = jobs[id].doc /\ job.rev = jobs[id].rev /\ job.val = jobs[id].val
              /\ \A i \in JobId : jobs'[i] = IF i = id THEN job ELSE jobs[i]
            BY <1>a, <2>1 DEF Rewrites, TypeOK
        <2>3. Published(job) = Published(jobs[id]) /\ job # NoJob
            BY <2>2, NoJobAssumption DEF Published
        <2>4. \A u \in Thread : Works(u) /\ cur[u] = id => u = t
            BY <1>a, <2>1 DEF ExclusiveWork
        <2>5. BackendFromJobs'
            <3> SUFFICES ASSUME NEW d \in Doc, backend[d] # Absent
                         PROVE  \E i \in JobId : /\ jobs'[i] # NoJob /\ jobs'[i].doc = d
                                                 /\ backend[d] = Published(jobs'[i])
                BY DEF BackendFromJobs
            <3>1. PICK i \in JobId : /\ jobs[i] # NoJob /\ jobs[i].doc = d
                                     /\ backend[d] = Published(jobs[i])
                BY <1>a DEF BackendFromJobs
            <3>2. /\ jobs'[i] # NoJob /\ jobs'[i].doc = d
                  /\ backend[d] = Published(jobs'[i])
                BY <2>2, <2>3, <3>1
            <3> QED BY <3>2
        <2>6. ShownIsGood'
            <3> SUFFICES ASSUME NEW i \in JobId, jobs'[i] # NoJob,
                                backend[jobs'[i].doc] = Published(jobs'[i]),
                                jobs'[i].status \notin {"ready", "superseded"}
                         PROVE  \E u \in Thread : pc'[u] = "ready" /\ cur'[u] = i
                BY DEF ShownIsGood
            <3>1. CASE i # id
                <4>1. PICK u \in Thread : pc[u] = "ready" /\ cur[u] = i
                    BY <1>a, <2>2, <3>1 DEF ShownIsGood
                <4> QED BY <1>b, <3>1, <4>1
            <3>2. CASE i = id
                <4>1. backend[jobs[id].doc] = Published(jobs[id]) /\ pc[t] # "ready"
                    BY <2>1, <2>2, <2>3, <3>2
                <4>2. PICK u \in Thread : pc[u] = "ready" /\ cur[u] = id
                    BY <1>a, <2>2, <4>1 DEF ShownIsGood, terminal
                <4> QED BY <1>e, <2>4, <4>1, <4>2
            <3> QED BY <3>1, <3>2
        <2>7. HeldNotFailed'
            <3> SUFFICES ASSUME NEW i \in JobId, jobs'[i] # NoJob, Held(i)',
                                jobs'[i].status = "failed"
                         PROVE  FALSE
                BY DEF HeldNotFailed
            <3>1. CASE i # id
                BY <1>a, <1>d, <2>2, <3>1 DEF HeldNotFailed
            <3>2. CASE i = id
                <4>1. ~Works(t)' /\ job.status = "failed"
                    BY <1>b, <2>1, <2>2, <3>2
                <4>2. /\ \A k \in DOMAIN queue : queue[k] # id
                      /\ id \notin toRecover \cup deletions
                    BY <1>a, <2>1 DEF ExclusiveWork
                <4>3. PICK u \in Thread : Works(u)' /\ cur'[u] = id
                    BY <1>b, <3>2, <4>2 DEF Held
                <4>4. u # t
                    BY <4>1, <4>3
                <4> QED BY <1>b, <1>c, <2>4, <4>3, <4>4
            <3> QED BY <3>1, <3>2
        <2> QED BY <1>a, <2>5, <2>6, <2>7 DEF AgreeInv
    <1> QED BY <1>1, <1>2

(* What the backend shows of a document determines the job, because no two *)
(* jobs of a document have the same revision.                              *)
LEMMA SamePublished ==
    ASSUME TypeOK, UniqueRevisions(jobs), NEW i \in JobId, NEW j \in JobId,
           jobs[i] # NoJob, jobs[j] # NoJob, jobs[i].doc = jobs[j].doc,
           Published(jobs[i]) = Published(jobs[j])
    PROVE  i = j
    <1>1. jobs[i].rev = jobs[j].rev
        BY DEF Published
    <1> QED BY <1>1 DEF UniqueRevisions

(* activate() and erase(): the job the backend shows now is at "ready".    *)
LEMMA AgreePublish ==
    ASSUME DurabilityInv, HeldInv, AgreeInv, NEW t \in Thread, Publish(t)
    PROVE  AgreeInv'
    <1> DEFINE id == cur[t]
    <1>a. /\ TypeOK /\ BackendFromJobs /\ ShownIsGood /\ HeldNotFailed
          /\ UniqueRevisions(jobs)
          /\ phase \in Up /\ id \in JobId /\ jobs[id] \in Job /\ jobs[id] # NoJob
        BY WorkingJob, NoJobAssumption DEF DurabilityInv, AgreeInv, HeldInv, Publish
    <1>b. /\ backend' = [backend EXCEPT ![jobs[id].doc] = Published(jobs[id])]
          /\ UNCHANGED <<phase, jobs, queue, toRecover, deletions, cur>>
          /\ pc[t] = "publish" /\ pc' = [pc EXCEPT ![t] = "ready"]
        BY DEF Publish, Goto
    <1>c. /\ pc'[t] = "ready" /\ \A u \in Thread : u # t => pc'[u] = pc[u]
          /\ \A d \in Doc : backend'[d] = IF d = jobs[id].doc THEN Published(jobs[id])
                                          ELSE backend[d]
        BY <1>a, <1>b DEF TypeOK, Job
    <1>d. \A i \in JobId : jobs[i] # NoJob => jobs[i].doc \in Doc
        BY <1>a DEF TypeOK, Job
    <1>1. BackendFromJobs'
        BY <1>a, <1>b, <1>c DEF BackendFromJobs
    <1>2. ShownIsGood'
        <2> SUFFICES ASSUME NEW i \in JobId, jobs[i] # NoJob,
                            backend'[jobs[i].doc] = Published(jobs[i]),
                            jobs[i].status \notin {"ready", "superseded"}
                     PROVE  \E u \in Thread : pc'[u] = "ready" /\ cur[u] = i
            BY <1>b DEF ShownIsGood
        <2>1. CASE jobs[i].doc = jobs[id].doc
            <3>1. i = id
                BY <1>a, <1>c, <1>d, <2>1, SamePublished
            <3> QED BY <1>c, <3>1
        <2>2. CASE jobs[i].doc # jobs[id].doc
            <3>1. PICK u \in Thread : pc[u] = "ready" /\ cur[u] = i
                BY <1>a, <1>c, <1>d, <2>2 DEF ShownIsGood
            <3>2. u # t
                BY <1>b, <3>1
            <3> QED BY <1>c, <3>1, <3>2
        <2> QED BY <2>1, <2>2
    <1>3. HeldNotFailed'
        <2>1. \A u \in Thread : Works(u)' <=> Works(u)
            BY <1>b, <1>c DEF Works
        <2> QED BY <1>a, <1>b, <2>1 DEF HeldNotFailed, Held
    <1> QED BY <1>a, <1>b, <1>1, <1>2, <1>3 DEF AgreeInv

(* Steps that touch neither job table nor backend, and hold no job that    *)
(* was not held before.                                                    *)
LEMMA AgreeTake ==
    ASSUME DurabilityInv, AgreeInv,
           \/ \E w \in Worker : Dequeue(w)
           \/ \E id \in JobId : ExecuteDeletion(id)
           \/ \E c \in Client, id \in JobId : Wait(c, id)
    PROVE  AgreeInv'
    <1>a. /\ TypeOK /\ BackendFromJobs /\ ShownIsGood /\ HeldNotFailed
          /\ Worker \subseteq Thread /\ Client \subseteq Thread /\ Main \in Thread
        BY DEF DurabilityInv, AgreeInv, Thread
    <1>b. UNCHANGED <<phase, jobs, backend>>
        BY DEF Dequeue, ExecuteDeletion, Wait
    <1>s. ASSUME NEW t \in Thread, pc[t] = "idle",
                 \A u \in Thread : u # t => pc'[u] = pc[u] /\ cur'[u] = cur[u],
                 \A i \in JobId : Held(i)' => Held(i)
          PROVE  AgreeInv'
        <2>1. ShownIsGood'
            <3>1. \A u \in Thread : pc[u] = "ready" => pc'[u] = "ready" /\ cur'[u] = cur[u]
                BY <1>s
            <3> QED BY <1>a, <1>b, <3>1 DEF ShownIsGood
        <2>2. BackendFromJobs' /\ HeldNotFailed'
            BY <1>a, <1>b, <1>s DEF BackendFromJobs, HeldNotFailed
        <2> QED BY <1>b, <2>1, <2>2 DEF AgreeInv
    <1>1. ASSUME NEW w \in Worker, Dequeue(w) PROVE AgreeInv'
        <2>1. queue \in Seq(JobId) /\ queue # <<>>
            BY <1>1, <1>a DEF Dequeue, TypeOK
        <2>2. /\ \A k \in DOMAIN queue' : \E m \in DOMAIN queue : queue'[k] = queue[m]
              /\ 1 \in DOMAIN queue /\ Head(queue) = queue[1]
            BY <1>1, <2>1, TailFacts DEF Dequeue
        <2>3. /\ \A u \in Thread : u # w => cur'[u] = cur[u] /\ pc'[u] = pc[u]
              /\ cur'[w] = queue[1] /\ pc[w] = "idle"
              /\ UNCHANGED <<toRecover, deletions>>
            BY <1>1, <1>a, <2>2 DEF Dequeue, TypeOK
        <2>4. \A u \in Thread : u # w => (Works(u)' <=> Works(u))
            BY <2>3 DEF Works
        <2>5. \A i \in JobId : Held(i)' => Held(i)
            BY <1>a, <2>2, <2>3, <2>4 DEF Held
        <2> QED BY <1>a, <1>s, <2>3, <2>5
    <1>2. ASSUME NEW id \in JobId, ExecuteDeletion(id) PROVE AgreeInv'
        <2>1. /\ \A u \in Thread : u # Main => cur'[u] = cur[u] /\ pc'[u] = pc[u]
              /\ cur'[Main] = id /\ pc[Main] = "idle" /\ id \in deletions
              /\ UNCHANGED <<toRecover, queue>> /\ deletions' \subseteq deletions
            BY <1>2, <1>a DEF ExecuteDeletion, TypeOK
        <2>2. \A u \in Thread : u # Main => (Works(u)' <=> Works(u))
            BY <2>1 DEF Works
        <2>3. \A i \in JobId : Held(i)' => Held(i)
            BY <1>a, <2>1, <2>2 DEF Held
        <2> QED BY <1>a, <1>s, <2>1, <2>3
    <1>3. ASSUME NEW c \in Client, NEW id \in JobId, Wait(c, id) PROVE AgreeInv'
        <2>1. /\ \A u \in Thread : u # c => cur'[u] = cur[u] /\ pc'[u] = pc[u]
              /\ pc[c] = "idle" /\ pc'[c] = "waiting"
              /\ UNCHANGED <<toRecover, queue, deletions>>
            BY <1>3, <1>a DEF Wait, TypeOK
        <2>2. \A u \in Thread : Works(u)' => Works(u) /\ cur'[u] = cur[u]
            BY <2>1 DEF Works
        <2>3. \A i \in JobId : Held(i)' => Held(i)
            BY <2>1, <2>2 DEF Held
        <2> QED BY <1>a, <1>s, <2>1, <2>3
    <1> QED BY <1>1, <1>2, <1>3

(* recover(): no thread runs yet, so an unfinished job is not shown.       *)
LEMMA AgreeRecover ==
    ASSUME DurabilityInv, AgreeInv, NEW id \in JobId, RecoverJob(id)
    PROVE  AgreeInv'
    <1>a. /\ TypeOK /\ References /\ BackendFromJobs /\ ShownIsGood /\ HeldNotFailed
        BY DEF DurabilityInv, AgreeInv
    <1> DEFINE job == RecoveredJob(jobs[id])
    <1>b. /\ id \in toRecover /\ jobs[id] # NoJob /\ ~terminal(jobs[id].status)
          /\ jobs[id] \in Job /\ \A t \in Thread : pc[t] = "idle"
          /\ phase \in Up /\ phase' = phase
        BY <1>a DEF RecoverJob, References, TypeOK, Up
    <1>c. /\ job \in Job /\ job.doc = jobs[id].doc /\ job.rev = jobs[id].rev
          /\ job.val = jobs[id].val /\ job.status \in {"queued", "superseded"}
        BY <1>a, <1>b, RecoveredFacts DEF TypeOK
    <1>d. /\ jobs' = [jobs EXCEPT ![id] = job]
          /\ UNCHANGED <<pc, cur, backend>> /\ toRecover' = toRecover \ {id}
          /\ \/ queue' = queue /\ deletions' \subseteq deletions \cup {id}
             \/ queue' = Append(queue, id) /\ deletions' = deletions
        BY DEF RecoverJob
    <1> HIDE DEF job
    <1>e. \A i \in JobId : jobs'[i] = IF i = id THEN job ELSE jobs[i]
        BY <1>a, <1>d DEF TypeOK
    <1>f. Published(job) = Published(jobs[id]) /\ job # NoJob
        BY <1>c, NoJobAssumption DEF Published
    <1>1. BackendFromJobs'
        <2> SUFFICES ASSUME NEW d \in Doc, backend[d] # Absent
                     PROVE  \E i \in JobId : /\ jobs'[i] # NoJob /\ jobs'[i].doc = d
                                             /\ backend[d] = Published(jobs'[i])
            BY <1>d DEF BackendFromJobs
        <2>1. PICK i \in JobId : /\ jobs[i] # NoJob /\ jobs[i].doc = d
                                 /\ backend[d] = Published(jobs[i])
            BY <1>a, <1>b DEF BackendFromJobs
        <2>2. /\ jobs'[i] # NoJob /\ jobs'[i].doc = d
              /\ backend[d] = Published(jobs'[i])
            BY <1>c, <1>e, <1>f, <2>1
        <2> QED BY <2>2
    <1>2. ShownIsGood'
        <2>1. backend[jobs[id].doc] # Published(jobs[id])
            BY <1>a, <1>b DEF ShownIsGood, terminal
        <2>2. \A i \in JobId : jobs'[i] # NoJob /\ backend[jobs'[i].doc] = Published(jobs'[i])
                => jobs'[i].status \in {"ready", "superseded"}
            BY <1>a, <1>b, <1>c, <1>e, <1>f, <2>1 DEF ShownIsGood
        <2> QED BY <1>d, <2>2 DEF ShownIsGood
    <1>3. HeldNotFailed'
        <2>1. ASSUME queue' = Append(queue, id)
              PROVE  \A k \in DOMAIN queue' : queue'[k] = id \/ \E m \in DOMAIN queue : queue[m] = queue'[k]
            <3>1. queue \in Seq(JobId) /\ Len(queue) \in Nat /\ DOMAIN queue = 1..Len(queue)
                BY <1>a DEF TypeOK
            <3>2. /\ DOMAIN queue' = 1..(Len(queue) + 1)
                  /\ \A i \in 1..Len(queue) : queue'[i] = queue[i]
                  /\ queue'[Len(queue) + 1] = id
                BY <2>1, <3>1
            <3> QED BY <3>1, <3>2
        <2>2. \A i \in JobId : Held(i)' => Held(i) \/ i = id
            BY <1>d, <2>1 DEF Held, Works
        <2> QED BY <1>a, <1>c, <1>e, <2>2 DEF HeldNotFailed
    <1> QED BY <1>b, <1>1, <1>2, <1>3 DEF AgreeInv

(* submit() and erase(): the new revision is shown nowhere yet, and what   *)
(* they supersede did not fail.                                            *)
LEMMA AgreeCreate ==
    ASSUME DurabilityInv, AgreeInv, NEW c \in Client, NEW d \in Doc, NEW v \in Value,
           SubmitAsync(c, d, v) \/ CallerExecutes(c, d, v)
    PROVE  AgreeInv'
    <1> DEFINE id == nextId + 1
               job == NewJob(d, v)
    <1>a. /\ TypeOK /\ Revisions /\ BackendFromJobs /\ ShownIsGood /\ HeldNotFailed
          /\ c \in Thread
        BY DEF DurabilityInv, AgreeInv, Thread
    <1>b. Create(d, v) /\ phase \in Up /\ phase' = phase /\ backend' = backend
        BY DEF SubmitAsync, CallerExecutes, Up
    <1>c. /\ id \in JobId /\ jobs[id] = NoJob
          /\ latestRev[d] \in Nat /\ latestRev[d] < MaxJobs
        <2>1. nextId < MaxJobs
            BY <1>b DEF Create
        <2>3. nextId \in Nat /\ latestRev[d] \in Nat /\ latestRev[d] <= nextId
            BY <1>a DEF TypeOK, Revisions
        <2>4. latestRev[d] < MaxJobs
            BY <2>1, <2>3, ConstantsAssumption
        <2> QED BY <2>1, <2>3, <2>4, FreshId
    <1>d. /\ job \in Job /\ job # NoJob /\ job.doc = d /\ job.rev = latestRev[d] + 1
          /\ job.status = "queued"
        BY <1>a, <1>c, NewJobFacts, NoJobAssumption DEF TypeOK
    <1>e. \A i \in Pending(d) : /\ jobs[i] # NoJob /\ Superseded(jobs[i]) # NoJob
                                /\ Superseded(jobs[i]).doc = jobs[i].doc
                                /\ Published(Superseded(jobs[i])) = Published(jobs[i])
                                /\ Superseded(jobs[i]).status = "superseded"
        BY <1>a, SupersededFacts, NoJobAssumption DEF Pending, TypeOK, Published
    <1>f. \A i \in JobId : jobs'[i] = IF i \in Pending(d) THEN Superseded(jobs[i])
                                      ELSE IF i = id THEN job ELSE jobs[i]
        BY <1>a, <1>b DEF Create, WithSuperseded, WithCreated, TypeOK
    <1>g. id \notin Pending(d)
        BY <1>c DEF Pending
    <1>h. backend[d] # Published(job)
        <2>1. Published(job).rev = latestRev[d] + 1
            BY <1>d DEF Published
        <2>2. Absent.rev = 0
            BY DEF Absent
        <2>3. \A i \in JobId : jobs[i] # NoJob /\ jobs[i].doc = d =>
                /\ Published(jobs[i]).rev \in Nat /\ Published(jobs[i]).rev <= latestRev[d]
            BY <1>a DEF TypeOK, Job, Revisions, Published
        <2> QED BY <1>a, <1>b, <1>c, <2>1, <2>2, <2>3 DEF BackendFromJobs
    <1>i. /\ \A u \in Thread : u # c => cur'[u] = cur[u] /\ pc'[u] = pc[u]
          /\ pc[c] = "idle" /\ UNCHANGED <<toRecover, deletions>>
          /\ \/ queue' = Append(queue, id) /\ pc'[c] = pc[c] /\ cur'[c] = cur[c]
             \/ queue' = queue /\ cur'[c] = id
        BY <1>a DEF SubmitAsync, CallerExecutes, TypeOK
    <1> HIDE DEF job, id
    <1>1. BackendFromJobs'
        <2> SUFFICES ASSUME NEW e \in Doc, backend[e] # Absent
                     PROVE  \E i \in JobId : /\ jobs'[i] # NoJob /\ jobs'[i].doc = e
                                             /\ backend[e] = Published(jobs'[i])
            BY <1>b DEF BackendFromJobs
        <2>1. PICK i \in JobId : /\ jobs[i] # NoJob /\ jobs[i].doc = e
                                 /\ backend[e] = Published(jobs[i])
            BY <1>a, <1>b DEF BackendFromJobs
        <2>2. /\ jobs'[i] # NoJob /\ jobs'[i].doc = e
              /\ backend[e] = Published(jobs'[i])
            BY <1>c, <1>e, <1>f, <2>1
        <2> QED BY <2>2
    <1>2. ShownIsGood'
        <2>1. \A u \in Thread : pc[u] = "ready" => pc'[u] = "ready" /\ cur'[u] = cur[u]
            BY <1>i
        <2>2. \A i \in JobId : jobs'[i] # NoJob /\ backend[jobs'[i].doc] = Published(jobs'[i])
                => \/ jobs'[i].status = "superseded"
                   \/ jobs[i] # NoJob /\ jobs'[i] = jobs[i]
            BY <1>d, <1>e, <1>f, <1>h
        <2> QED BY <1>a, <1>b, <2>1, <2>2 DEF ShownIsGood
    <1>3. HeldNotFailed'
        <2>1. ASSUME queue' = Append(queue, id)
              PROVE  \A k \in DOMAIN queue' : queue'[k] = id \/ \E m \in DOMAIN queue : queue[m] = queue'[k]
            <3>1. queue \in Seq(JobId) /\ Len(queue) \in Nat /\ DOMAIN queue = 1..Len(queue)
                BY <1>a DEF TypeOK
            <3>2. /\ DOMAIN queue' = 1..(Len(queue) + 1)
                  /\ \A i \in 1..Len(queue) : queue'[i] = queue[i]
                  /\ queue'[Len(queue) + 1] = id
                BY <1>c, <2>1, <3>1
            <3> QED BY <3>1, <3>2
        <2>2. \A u \in Thread : Works(u)' => (Works(u) /\ cur'[u] = cur[u]) \/ cur'[u] = id
            BY <1>i DEF Works
        <2>3. \A i \in JobId : Held(i)' => Held(i) \/ i = id
            BY <1>i, <2>1, <2>2 DEF Held
        <2> QED BY <1>a, <1>d, <1>e, <1>f, <2>3 DEF HeldNotFailed
    <1> QED BY <1>b, <1>1, <1>2, <1>3 DEF AgreeInv

(* open(): the backend shows the newest ready record of each document,     *)
(* and nothing where there is none.                                        *)
LEMMA AgreeOpen ==
    ASSUME DurabilityInv, HeldInv, RecoveryInv, Open
    PROVE  AgreeInv'
    <1>a. /\ TypeOK /\ References /\ UniqueRevisions(log) /\ ckptFile = NoVersions
        BY DEF DurabilityInv, HeldInv, RecoveryInv
    <1>1. PICK ready \in [Doc -> 0..MaxJobs] :
            /\ \A d \in Doc : IsActiveReady(d, ready[d])
            /\ backend' = [d \in Doc |-> IF ready[d] = 0 THEN ckptFile[d]
                                         ELSE Published(log[ready[d]])]
        BY DEF Open
    <1>2. /\ jobs' = log /\ phase' \in Up
          /\ toRecover' = {i \in JobId : log[i] # NoJob /\ ~terminal(log[i].status)}
        BY DEF Open, Up
    <1>3. queue' = <<>> /\ deletions' = {} /\ \A t \in Thread : pc'[t] = "idle"
        BY <1>a DEF Open, References, Up
    <1>4. \A d \in Doc : /\ ready[d] # 0 => ready[d] \in ReadyRecords(d)
                         /\ ready[d] = 0 => backend'[d] = Absent
                         /\ ready[d] # 0 => backend'[d] = Published(log[ready[d]])
        BY <1>1, <1>a DEF IsActiveReady, NoVersions
    <1>5. BackendFromJobs'
        BY <1>2, <1>4 DEF BackendFromJobs, ReadyRecords, Records
    <1>6. ShownIsGood'
        <2> SUFFICES ASSUME NEW i \in JobId, log[i] # NoJob,
                            backend'[log[i].doc] = Published(log[i])
                     PROVE  log[i].status = "ready"
            BY <1>2 DEF ShownIsGood
        <2> DEFINE d == log[i].doc
        <2>1. d \in Doc /\ log[i].rev # 0
            BY <1>a DEF TypeOK, Job
        <2>0. Published(log[i]).rev = log[i].rev /\ Absent.rev = 0
            BY DEF Absent, Published
        <2>2. ready[d] # 0
            <3>1. ASSUME ready[d] = 0 PROVE Published(log[i]) = Absent
                BY <1>4, <2>1, <3>1
            <3> QED BY <2>0, <2>1, <3>1
        <2>3. /\ ready[d] \in JobId /\ log[ready[d]] # NoJob /\ log[ready[d]].doc = d
              /\ log[ready[d]].status = "ready"
            BY <1>4, <2>1, <2>2 DEF ReadyRecords, Records
        <2>4. log[ready[d]].rev = log[i].rev
            <3>1. Published(log[ready[d]]) = Published(log[i])
                BY <1>4, <2>1, <2>2
            <3>2. Published(log[ready[d]]).rev = log[ready[d]].rev
                BY DEF Published
            <3> QED BY <2>0, <3>1, <3>2
        <2>5. ready[d] = i
            BY <1>a, <2>3, <2>4 DEF UniqueRevisions
        <2> QED BY <2>3, <2>5
    <1>7. HeldNotFailed'
        BY <1>2, <1>3 DEF HeldNotFailed, Held, Works, terminal
    <1> QED BY <1>2, <1>5, <1>6, <1>7 DEF AgreeInv

(* transition() by a thread that holds the job: it is reported ready only  *)
(* from "ready", and failed by a thread that returns.                      *)
LEMMA AgreeTransition ==
    ASSUME MaxFaults = 0, DurabilityInv, ControlInv, AgreeInv, NEW t \in Thread, Works(t),
           NEW status \in Status,
           NEW next \in Pc \ ({"waiting", "failVolatile", "ready"} \cup CheckpointPc),
           (next = "idle" \/ next \in AfterReady) => terminal(status),
           status = "ready" <=> pc[t] = "ready", status = "failed" => next = "idle",
           transition(t, status, next)
    PROVE  AgreeInv'
    <1> DEFINE id == cur[t]
               job == Advanced(jobs[id], status)
    <1>a. /\ id \in JobId /\ jobs[id] \in Job /\ jobs[id] # NoJob /\ TypeOK /\ References
          /\ phase \in Up /\ ReadyPublished /\ pc[t] # "idle"
        BY WorkingJob, NoJobAssumption DEF DurabilityInv, Works
    <1>0. ThreadStep(t) /\ backend' = backend
        BY TransitionThread DEF transition
    <1>b. faults = 0
        BY <1>a DEF TypeOK
    <1>1. CASE terminal(jobs[id].status)
        <2>1. Finish(t) /\ jobs' = jobs
            BY <1>1 DEF transition
        <2>2. pc'[t] # "ready"
            BY <1>a, <2>1 DEF Finish, TypeOK
        <2> QED BY <1>0, <1>1, <2>1, <2>2, AgreeThread
    <1>2. CASE ~terminal(jobs[id].status)
        <2>1. /\ jobs' = [jobs EXCEPT ![id] = job]
              /\ IF job.status = status /\ next # "idle" THEN Goto(t, next) ELSE Finish(t)
            BY <1>2, <1>b DEF transition, PersistFails
        <2>2. /\ job \in Job /\ job.status \in {status, "superseded"}
            BY <1>a, AdvancedFacts DEF TypeOK
        <2>3. /\ log' = [log EXCEPT ![id] = job]
              /\ UNCHANGED <<phase, latestRev, latestJob, toRecover, backend, nextId>>
            BY <1>2, <1>b DEF transition, PersistFails, Persist
        <2>4. Rewrites(id, job)
            BY <1>2, <1>a, <2>1, <2>3, TransitionRewrites
        <2>5. pc'[t] # "ready"
            BY <1>a, <2>1 DEF Finish, Goto, TypeOK
        <2>6. job.status = "failed" => Finish(t)
            BY <2>1, <2>2
        <2>7. pc[t] = "ready" => job.status \in {"ready", "superseded"}
            BY <2>2
        <2> HIDE DEF job
        <2> QED BY <1>0, <2>2, <2>4, <2>5, <2>6, <2>7, AgreeThread
    <1> QED BY <1>1, <1>2

(* Every step of execute() keeps coordinator and backend in agreement.     *)
LEMMA AgreeExecute ==
    ASSUME MaxFaults = 0, "caller" \notin CheckpointBy,
           DurabilityInv, ControlInv, HeldInv, AgreeInv, NEW t \in Thread,
           Execute(t) \/ BeginCheckpoint(t)
    PROVE  AgreeInv'
    <1>a. TypeOK
        BY DEF DurabilityInv
    <1>0. ThreadStep(t)
        BY ExecuteThread
    <1>p. /\ Pc = {"idle", "begin", "chunking", "embedding", "publishing", "publish",
                   "ready", "failJob", "failVolatile", "onReady", "waiting",
                   "capture", "save", "truncate"}
          /\ AfterReady = {"onReady", "capture", "save", "truncate"}
          /\ CheckpointPc = {"capture", "save", "truncate"}
          /\ {"chunking", "embedding", "publishing", "ready", "failed"} \subseteq Status
        BY DEF Pc, AfterReady, CheckpointPc, Status
    <1>t. terminal("ready") /\ terminal("failed")
        BY DEF terminal
    <1>1. CASE Chunking(t)
        BY <1>1, <1>p, AgreeTransition DEF Chunking, Works
    <1>2. CASE Embedding(t)
        BY <1>2, <1>p, AgreeTransition DEF Embedding, Works
    <1>3. CASE Publishing(t)
        BY <1>3, <1>p, AgreeTransition DEF Publishing, Works
    <1>4. CASE Ready(t)
        BY <1>4, <1>p, <1>t, AgreeTransition DEF Ready, Works
    <1>5. CASE FailJob(t)
        BY <1>5, <1>p, <1>t, AgreeTransition DEF FailJob, Works
    <1>6. CASE Publish(t)
        BY <1>6, AgreePublish
    <1>7. CASE Begin(t) \/ PreparationFails(t) \/ PublishSkipped(t) \/ PublishRefused(t)
                \/ OnReady(t)
        <2>1. UNCHANGED <<jobs, backend>> /\ pc[t] # "ready"
            BY <1>7 DEF Begin, PreparationFails, PublishSkipped, PublishRefused, OnReady, Moves
        <2>2. pc'[t] # "ready"
            BY <1>7, <1>a DEF Begin, PreparationFails, PublishSkipped, PublishRefused,
                OnReady, Moves, Finish, Goto, TypeOK
        <2> QED BY <1>0, <2>1, <2>2, AgreeThread
    <1>8. CASE WaitReturns(t) \/ CheckpointFails(t) \/ TruncatePrefix(t)
        <2>1. UNCHANGED <<jobs, backend>> /\ pc[t] # "ready" /\ Finish(t)
            BY <1>8 DEF WaitReturns, CheckpointFails, TruncatePrefix, EndCheckpoint
        <2>2. pc'[t] # "ready"
            BY <1>a, <2>1 DEF Finish, TypeOK
        <2> QED BY <1>0, <2>1, <2>2, AgreeThread
    <1>9. CASE CaptureCheckpoint(t) \/ SaveCheckpoint(t) \/ BeginCheckpoint(t)
        <2>1. UNCHANGED <<jobs, backend>> /\ pc[t] # "ready"
            BY <1>9 DEF CaptureCheckpoint, SaveCheckpoint, BeginCheckpoint
        <2>2. pc'[t] # "ready"
            BY <1>9, <1>a DEF CaptureCheckpoint, SaveCheckpoint, BeginCheckpoint, Goto, TypeOK
        <2> QED BY <1>0, <2>1, <2>2, AgreeThread
    <1>10. ~FailVolatile(t)
        BY DEF FailVolatile, ControlInv, AppendsSucceed
    <1> QED BY <1>1, <1>2, <1>3, <1>4, <1>5, <1>6, <1>7, <1>8, <1>9, <1>10 DEF Execute

(* AgreeInv is inductive relative to the invariants before it.             *)
LEMMA NextAgree ==
    ASSUME MaxFaults = 0, CheckpointBy = {}, DurabilityInv, LatestInv, ControlInv,
           HeldInv, RecoveryInv, AgreeInv, [Next]_vars
    PROVE  AgreeInv'
    <1>a. Hash \subseteq Value /\ NoDoc \in Value /\ \A d \in Doc : Pending(d) \subseteq JobId
        BY DEF Value, Pending
    <1>1. CASE phase' = "down" /\ VolatileCleared
        BY <1>1 DEF VolatileCleared, AgreeInv, BackendFromJobs, ShownIsGood, HeldNotFailed,
            NoJobs, Up
    <1>2. ASSUME Rests PROVE AgreeInv'
        BY <1>2 DEF Rests, AgreeInv, BackendFromJobs, ShownIsGood, HeldNotFailed, Held, Works
    <1>3. ASSUME NEW t \in Thread, Execute(t) \/ BeginCheckpoint(t) PROVE AgreeInv'
        BY <1>3, AgreeExecute
    <1>4. CASE HandsOut
        BY <1>4, AgreeTake, AgreeRecover, AgreeCreate DEF HandsOut
    <1>5. CASE Open
        BY <1>5, AgreeOpen
    <1>6. ASSUME Recovering, ~Open PROVE Rests \/ HandsOut
        BY <1>6 DEF Rests, Up, Recovering, OpenRefused, StartWorkers, HandsOut, volatile
    <1>7. ASSUME NEW c \in Client, Request(c) PROVE Rests \/ HandsOut
        <2>1. ASSUME NEW d \in Doc, NEW v \in Value, CreateFails(d, v) PROVE Rests
            BY <2>1 DEF Rests, CreateFails, volatile
        <2> QED BY <1>7, <1>a, <2>1 DEF Request, SubmitSync, SubmitJoins, Erase, HandsOut
    <1>8. ASSUME Shutdown \/ UNCHANGED vars PROVE Rests
        BY <1>8 DEF Rests, Up, Shutdown, vars, volatile
    <1>9. ASSUME Stopped \/ Crash \/ \E id \in JobId : RecoverJobFails(id)
          PROVE  phase' = "down" /\ VolatileCleared
        BY <1>9 DEF Stopped, Crash, RecoverJobFails
    <1>10. ASSUME NEW w \in Worker, Dequeue(w) PROVE HandsOut
        BY <1>10 DEF HandsOut
    <1> QED BY <1>1, <1>2, <1>3, <1>4, <1>5, <1>6, <1>7, <1>8, <1>9, <1>10 DEF Next

(* The newest job of a document is never turned away as stale, and what    *)
(* failed is never served (execute(), EmbeddedBackend::activate()), as     *)
(* long as appends succeed and the log keeps every record.                 *)
THEOREM CoordinatorAndBackendAgree ==
    ASSUME MaxFaults = 0, CheckpointBy = {}
    PROVE  Spec => []BackendAgrees
    <1>1. Init => AgreeInv
        BY DEF Init, AgreeInv, BackendFromJobs, ShownIsGood, HeldNotFailed, NoJobs, Up
    <1>2. (DurabilityInv /\ LatestInv /\ ControlInv /\ HeldInv) /\ RecoveryInv /\ AgreeInv
                /\ [Next]_vars => AgreeInv'
        BY NextAgree
    <1>3. Spec => [](DurabilityInv /\ LatestInv /\ ControlInv /\ HeldInv)
        BY QueueInvariants
    <1>4. Spec => []RecoveryInv
        BY RecoveryInvariant
    <1>5. (DurabilityInv /\ LatestInv /\ ControlInv /\ HeldInv) /\ AgreeInv => BackendAgrees
        <2> SUFFICES ASSUME DurabilityInv, HeldInv, AgreeInv
                     PROVE  NeverStale /\ FailedStaysInvisible
            BY DEF BackendAgrees
        <2>a. TypeOK /\ Revisions /\ UniqueRevisions(jobs) /\ BackendFromJobs
            BY DEF DurabilityInv, HeldInv, AgreeInv
        <2>1. NeverStale
            <3> SUFFICES ASSUME NEW t \in Thread, pc[t] = "publish",
                                latestRev[jobs[cur[t]].doc] = jobs[cur[t]].rev
                         PROVE  Accepts(backend[jobs[cur[t]].doc], jobs[cur[t]])
                BY DEF NeverStale
            <3> DEFINE id == cur[t]
                       d == jobs[id].doc
            <3>1. id \in JobId /\ jobs[id] \in Job /\ jobs[id] # NoJob /\ phase \in Up
                BY WorkingJob, NoJobAssumption
            <3>2. d \in Doc /\ jobs[id].rev \in Nat /\ jobs[id].rev > 0
                BY <3>1 DEF Job
            <3>3. CASE backend[d] = Absent
                BY <3>2, <3>3 DEF Absent, Accepts
            <3>4. CASE backend[d] # Absent
                <4>1. PICK i \in JobId : /\ jobs[i] # NoJob /\ jobs[i].doc = d
                                         /\ backend[d] = Published(jobs[i])
                    BY <2>a, <3>1, <3>2, <3>4 DEF BackendFromJobs
                <4>2. jobs[i].rev \in Nat /\ jobs[i].rev <= jobs[id].rev
                    BY <2>a, <4>1 DEF TypeOK, Job, Revisions
                <4>3. CASE jobs[i].rev = jobs[id].rev
                    <5>1. i = id
                        BY <2>a, <3>1, <4>1, <4>3 DEF UniqueRevisions
                    <5> QED BY <4>1, <5>1 DEF Accepts, Published
                <4>4. CASE jobs[i].rev < jobs[id].rev
                    BY <4>1, <4>4 DEF Accepts, Published
                <4> QED BY <3>2, <4>2, <4>3, <4>4
            <3> QED BY <3>3, <3>4
        <2>2. FailedStaysInvisible
            <3> SUFFICES ASSUME NEW id \in JobId, jobs[id] # NoJob,
                                jobs[id].status = "failed",
                                backend[jobs[id].doc] = Published(jobs[id])
                         PROVE  FALSE
                BY DEF FailedStaysInvisible
            <3>1. PICK t \in Thread : pc[t] = "ready" /\ cur[t] = id
                BY DEF AgreeInv, ShownIsGood
            <3>2. Held(id)
                BY <3>1 DEF Held, Works
            <3> QED BY <3>2 DEF AgreeInv, HeldNotFailed
        <2> QED BY <2>1, <2>2
    <1> QED BY <1>1, <1>2, <1>3, <1>4, <1>5, PTL DEF Spec
=============================================================================
