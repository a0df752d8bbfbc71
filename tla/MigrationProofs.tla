-------------------------- MODULE MigrationProofs --------------------------
(***************************************************************************)
(* Proofs about Migration, for any set of documents, any batch size and    *)
(* any number of runs and of changes of the source, in both directions:    *)
(* the export of an embedded source is what it serves, progress on disk    *)
(* trails the data, a repeated command is refused only for a reason, and a *)
(* complete report is true of the disk.                                    *)
(***************************************************************************)
EXTENDS Migration, FiniteSetTheorems, WellFoundedInduction, TLAPS

Rows == [rev : Nat, val : {Old, New, Gone}]
Jobs == [key : Keys, rev : Nat \ {0}, val : {Old, New, Gone}]

(* The documents of an index or a checkpoint: there are no deleted ones, and
   the first revision is 1. *)
IsDocuments(documents) ==
    /\ documents \in [Keys -> Rows]
    /\ \A k \in Keys : documents[k] = None \/ (documents[k].val # Gone /\ documents[k].rev > 0)

(* The jobs of a document are in the order of their revisions. *)
Ordered(jobs) ==
    \A a, b \in DOMAIN jobs : a < b /\ jobs[a].key = jobs[b].key => jobs[a].rev < jobs[b].rev

-----------------------------------------------------------------------------
(* The source: the newest job of a document is retained, or the checkpoint
   has its outcome and no older job would be replayed over it. *)
NewestRetained(k) ==
    \E a \in DOMAIN ready : ready[a].key = k /\ ready[a].rev = truth[k].rev

NewestSaved(k) ==
    /\ saved[k] = Documents(truth)[k]
    /\ \A a \in DOMAIN ready : ready[a].key = k => ready[a].rev <= saved[k].rev

SourceInv ==
    /\ truth \in [Keys -> Rows]
    /\ \A k \in Keys : truth[k].rev = 0 => truth[k] = None
    /\ ToPostgres =>
         /\ IsDocuments(saved)
         /\ ready \in Seq(Jobs) /\ Ordered(ready)
         /\ \A k \in Keys : saved[k].rev <= truth[k].rev
         /\ \A a \in DOMAIN ready : LET job == ready[a] IN
              /\ job.rev <= truth[job.key].rev
              /\ job.rev = truth[job.key].rev => job.val = truth[job.key].val
         /\ \A k \in Keys : \/ NewestSaved(k)
                            \/ NewestRetained(k) /\ saved[k].rev < truth[k].rev

-----------------------------------------------------------------------------
(* The runner.                                                             *)
Copying == pc \in {"copy", "write", "verify", "report"}

(* What has been copied: everything up to the last key of the progress and
   the part of the batch that is not pending. *)
Written(k) == k <= progress.last \/ (pc = "write" /\ k \in batch.keys \ pending)

RunnerTypes ==
    /\ dest \in [Keys -> Rows]
    /\ runs \in Nat /\ cursor \in Nat
    /\ pc # "idle" => IsDocuments(snapshot) /\ runs > 0
    /\ ~ToPostgres => IsDocuments(dest)
    /\ ~ToPostgres /\ pc # "idle" => memory = dest
    /\ Copying \/ pc = "reconcile" =>
         /\ progress = [run |-> snapshot, last |-> progress.last, complete |-> progress.complete]
         /\ progress.last \in Nat
    /\ recorded # NoProgress =>
         /\ recorded = [run |-> recorded.run, last |-> recorded.last,
                        complete |-> recorded.complete]
         /\ recorded.last \in Nat /\ runs > 0

(* reconcile() compared everything up to its cursor, and found nothing behind
   it when it ended. *)
ReconcileInv ==
    pc = "reconcile" => \A k \in Keys : k <= cursor => Documents(dest)[k] = snapshot[k]

BatchInv ==
    pc = "write" =>
        /\ batch = ReadBatch(snapshot, progress.last)
        /\ pending \subseteq batch.keys
        /\ \A j \in batch.keys \ pending, k \in pending : j < k

CopyInv ==
    /\ Copying => \A k \in Keys :
         Documents(dest)[k] = IF Written(k) THEN snapshot[k] ELSE None
    /\ Copying /\ progress.complete => \A k \in Keys : k > progress.last => snapshot[k] = None
    /\ pc \in {"verify", "report"} => progress.complete

(* The destination of a migration that has no excuse to be refused holds the
   first documents of the source, and nothing else. *)
PrefixInv ==
    ~excused =>
        /\ dest = Documents(dest)
        /\ \A k \in Keys : dest[k] # None => dest[k] = Documents(truth)[k]
        /\ \A j, k \in Keys : j < k /\ dest[k] # None => dest[j] = Documents(truth)[j]
        /\ pc # "idle" => snapshot = Documents(truth)
        /\ recorded # NoProgress => recorded.run = Documents(truth)
        /\ runs = 0 => dest = Nothing

MigrationInv ==
    /\ RunnerTypes /\ ReconcileInv /\ BatchInv /\ CopyInv /\ PrefixInv
    /\ ProgressBehindData /\ RefusedOnlyIfChanged
    /\ pc \in {"report", "done"} => Documents(dest) = snapshot
-----------------------------------------------------------------------------
(* Numbers                                                                 *)

(* A set of numbers that is not empty has a least one. *)
LEMMA LeastOf ==
    ASSUME NEW S \in SUBSET Nat, S # {}
    PROVE  \E v \in S : \A w \in S : v <= w
    <1>1. PICK v \in S : \A w \in S : ~ (<<w, v>> \in OpToRel(<, Nat))
        BY NatLessThanWellFounded, WFMin, Zenon
    <1>2. ASSUME NEW w \in S, w < v
          PROVE  FALSE
        <2>1. <<w, v>> \in Nat \X Nat /\ <<w, v>>[1] < <<w, v>>[2]
            BY <1>2
        <2> QED BY <1>1, <1>2, <2>1, Zenon DEF OpToRel
    <1>3. \A w \in S : v <= w
        BY <1>2
    <1> QED BY <1>3

(* A set that has 0, and every number whose predecessor it has, has every
   number. *)
LEMMA ReachesAll ==
    ASSUME NEW S, 0 \in S, \A n \in Nat : n \in S => n + 1 \in S
    PROVE  Nat \subseteq S
    <1> SUFFICES ASSUME Nat \ S # {} PROVE FALSE
        OBVIOUS
    <1>1. PICK v \in Nat \ S : \A w \in Nat \ S : v <= w
        BY LeastOf, Nat \ S \in SUBSET Nat
    <1>2. v - 1 \in Nat /\ v - 1 \in S /\ (v - 1) + 1 = v
        BY <1>1
    <1> QED BY <1>1, <1>2

-----------------------------------------------------------------------------
(* The export of an embedded source                                        *)

(* The states of the loop of load_active(): its recursion has a solution. *)
IsLoad(after, documents, jobs) ==
    after = [n \in 0..Len(jobs) |-> IF n = 0 THEN documents ELSE Replay(after[n - 1], jobs[n])]

(* The loop of load_active() ends with the state after its last job. *)
LEMMA LoadRuns ==
    ASSUME NEW documents, NEW jobs \in Seq(Jobs)
    PROVE  \E after : /\ IsLoad(after, documents, jobs)
                      /\ LoadActive(documents, jobs) = after[Len(jobs)]
    <1> DEFINE Runs(f, m) ==
                   f = [n \in 0..m |-> IF n = 0 THEN documents ELSE Replay(f[n - 1], jobs[n])]
               S == {m \in Nat : \E f : Runs(f, m)}
    <1>1. 0 \in S
        <2>1. Runs([n \in 0..0 |-> documents], 0)
            OBVIOUS
        <2> QED BY <2>1
    <1>2. ASSUME NEW m \in Nat, m \in S PROVE m + 1 \in S
        <2>1. PICK f : Runs(f, m)
            BY <1>2
        <2> DEFINE g == [n \in 0..(m + 1) |-> IF n <= m THEN f[n] ELSE Replay(f[m], jobs[m + 1])]
        <2>2. \A n \in 0..m : f[n] = IF n = 0 THEN documents ELSE Replay(f[n - 1], jobs[n])
            BY <2>1
        <2>3. ASSUME NEW n \in 0..(m + 1)
              PROVE  g[n] = IF n = 0 THEN documents ELSE Replay(g[n - 1], jobs[n])
            <3>1. CASE n \in 0..m
                <4>1. n # 0 => g[n - 1] = f[n - 1]
                    BY <3>1
                <4> QED BY <2>2, <3>1, <4>1
            <3>2. CASE n = m + 1
                BY <3>2
            <3> QED BY <3>1, <3>2
        <2>4. Runs(g, m + 1)
            BY <2>3, Zenon
        <2>5. m + 1 \in Nat
            OBVIOUS
        <2> QED BY <2>4, <2>5, Zenon
    <1>3. Len(jobs) \in S
        <2> HIDE DEF S
        <2>1. Nat \subseteq S
            BY <1>1, <1>2, ReachesAll, Zenon
        <2> QED BY <2>1
    <1>4. \E f : Runs(f, Len(jobs))
        BY <1>3
    <1> DEFINE after == CHOOSE f : Runs(f, Len(jobs))
    <1>5. Runs(after, Len(jobs))
        BY <1>4, Zenon
    <1>6. LoadActive(documents, jobs) = after[Len(jobs)]
        BY Zenon DEF LoadActive
    <1> QED BY <1>5, <1>6, Zenon DEF IsLoad

(* Replay() changes the document of its job only, and only to a newer state. *)
LEMMA ReplayFacts ==
    ASSUME NEW active, IsDocuments(active), NEW job \in Jobs
    PROVE  /\ IsDocuments(Replay(active, job))
           /\ \A k \in Keys : k # job.key => Replay(active, job)[k] = active[k]
           /\ Replay(active, job)[job.key] = IF job.rev <= active[job.key].rev
                                             THEN active[job.key] ELSE Outcome(job)
           /\ Outcome(job).rev \in Nat /\ Outcome(job).rev <= job.rev
    <1>1. /\ Outcome(job) \in Rows
          /\ Outcome(job) = None \/ (Outcome(job).val # Gone /\ Outcome(job).rev > 0)
          /\ Outcome(job).rev \in Nat /\ Outcome(job).rev <= job.rev
        BY DEF Outcome, None, Rows, Jobs
    <1>2. job.key \in Keys /\ active \in [Keys -> Rows]
        BY DEF Jobs, IsDocuments
    <1>3. CASE job.rev <= active[job.key].rev
        BY <1>1, <1>3 DEF Replay
    <1>4. CASE ~(job.rev <= active[job.key].rev)
        <2> DEFINE new == [active EXCEPT ![job.key] = Outcome(job)]
        <2>1. Replay(active, job) = new
            BY <1>4 DEF Replay
        <2>2. /\ new \in [Keys -> Rows] /\ new[job.key] = Outcome(job)
              /\ \A k \in Keys : k # job.key => new[k] = active[k]
            BY <1>1, <1>2
        <2> HIDE DEF new
        <2>3. IsDocuments(new)
            BY <1>1, <1>2, <2>2 DEF IsDocuments
        <2> QED BY <1>1, <1>4, <2>1, <2>2, <2>3
    <1> QED BY <1>3, <1>4

(* What load_active() computes: a document keeps its state in the checkpoint
   if no job is newer, and otherwise gets the outcome of its newest job. *)
LEMMA LoadFacts ==
    ASSUME NEW documents, IsDocuments(documents), NEW jobs \in Seq(Jobs), Ordered(jobs)
    PROVE  /\ IsDocuments(LoadActive(documents, jobs))
           /\ \A k \in Keys :
                (\A a \in DOMAIN jobs : jobs[a].key = k => jobs[a].rev <= documents[k].rev)
                   => LoadActive(documents, jobs)[k] = documents[k]
           /\ \A k \in Keys, a \in DOMAIN jobs :
                /\ jobs[a].key = k /\ documents[k].rev < jobs[a].rev
                /\ \A b \in DOMAIN jobs : jobs[b].key = k => jobs[b].rev <= jobs[a].rev
                => LoadActive(documents, jobs)[k] = Outcome(jobs[a])
    <1>1. PICK after : /\ IsLoad(after, documents, jobs)
                       /\ LoadActive(documents, jobs) = after[Len(jobs)]
        BY LoadRuns
    <1>2. /\ DOMAIN jobs = 1..Len(jobs) /\ Len(jobs) \in Nat
          /\ \A a \in DOMAIN jobs : jobs[a] \in Jobs
        OBVIOUS
    <1>3. /\ after[0] = documents
          /\ \A n \in Nat : n + 1 <= Len(jobs) => after[n + 1] = Replay(after[n], jobs[n + 1])
        <2>1. \A n \in 0..Len(jobs) :
                after[n] = IF n = 0 THEN documents ELSE Replay(after[n - 1], jobs[n])
            BY <1>1 DEF IsLoad
        <2>2. ASSUME NEW n \in Nat, n + 1 <= Len(jobs)
              PROVE  after[n + 1] = Replay(after[n], jobs[n + 1])
            <3>1. n + 1 \in 0..Len(jobs) /\ n + 1 # 0 /\ (n + 1) - 1 = n
                BY <1>2, <2>2
            <3> QED BY <2>1, <3>1
        <2>3. 0 \in 0..Len(jobs)
            BY <1>2
        <2> QED BY <2>1, <2>2, <2>3
    <1> DEFINE Older(k) == \A a \in DOMAIN jobs : jobs[a].key = k => jobs[a].rev <= documents[k].rev
               Newest(k, a) ==
                   /\ jobs[a].key = k /\ documents[k].rev < jobs[a].rev
                   /\ \A b \in DOMAIN jobs : jobs[b].key = k => jobs[b].rev <= jobs[a].rev
               Holds(n, k, a) == IF n < a THEN after[n][k].rev < jobs[a].rev
                                 ELSE after[n][k] = Outcome(jobs[a])
               P(n) == /\ IsDocuments(after[n])
                       /\ \A k \in Keys : Older(k) => after[n][k] = documents[k]
                       /\ \A k \in Keys, a \in DOMAIN jobs : Newest(k, a) => Holds(n, k, a)
               S == {n \in Nat : n <= Len(jobs) => P(n)}
    <1>4. 0 \in S
        BY <1>2, <1>3
    <1>5. ASSUME NEW n \in Nat, n \in S, n + 1 <= Len(jobs)
          PROVE  P(n + 1)
        <2> DEFINE job == jobs[n + 1]
        <2>1. P(n) /\ n + 1 \in DOMAIN jobs /\ job \in Jobs /\ after[n + 1] = Replay(after[n], job)
            BY <1>2, <1>3, <1>5
        <2>2. /\ IsDocuments(after[n]) /\ IsDocuments(after[n + 1])
              /\ \A k \in Keys : k # job.key => after[n + 1][k] = after[n][k]
              /\ after[n + 1][job.key] = IF job.rev <= after[n][job.key].rev
                                         THEN after[n][job.key] ELSE Outcome(job)
              /\ Outcome(job).rev \in Nat /\ Outcome(job).rev <= job.rev
            <3>1. IsDocuments(after[n])
                BY <2>1
            <3>2. job \in Jobs /\ after[n + 1] = Replay(after[n], job)
                BY <2>1
            <3> DEFINE old == after[n]
                       new == after[n + 1]
            <3>3. IsDocuments(old) /\ job \in Jobs /\ new = Replay(old, job)
                BY <3>1, <3>2
            <3> SUFFICES /\ IsDocuments(old) /\ IsDocuments(new)
                         /\ \A k \in Keys : k # job.key => new[k] = old[k]
                         /\ new[job.key] = IF job.rev <= old[job.key].rev THEN old[job.key]
                                          ELSE Outcome(job)
                         /\ Outcome(job).rev \in Nat /\ Outcome(job).rev <= job.rev
                OBVIOUS
            <3> HIDE DEF job, P, old, new
            <3> QED BY <3>3, ReplayFacts
        <2>3. /\ job.key \in Keys /\ job.rev \in Nat
              /\ \A k \in Keys : after[n][k].rev \in Nat /\ documents[k].rev \in Nat
              /\ \A a \in DOMAIN jobs : jobs[a].rev \in Nat /\ a \in Nat
            BY <1>2, <2>1, <2>2 DEF Jobs, Rows, IsDocuments
        <2>4. ASSUME NEW k \in Keys, Older(k)
              PROVE  after[n + 1][k] = documents[k]
            <3>1. after[n][k] = documents[k]
                BY <2>1, <2>4
            <3>2. CASE k = job.key
                <4>1. job.rev <= documents[k].rev
                    BY <2>1, <2>4, <3>2
                <4> QED BY <2>2, <3>1, <3>2, <4>1
            <3> QED BY <2>2, <3>1, <3>2
        <2>5. ASSUME NEW k \in Keys, NEW a \in DOMAIN jobs, Newest(k, a)
              PROVE  Holds(n + 1, k, a)
            <3>1. Holds(n, k, a)
                BY <2>1, <2>5
            <3>2. CASE k # job.key
                <4>1. a # n + 1
                    BY <2>5, <3>2
                <4> QED BY <2>2, <2>3, <3>1, <3>2, <4>1
            <3>3. CASE k = job.key /\ n + 1 < a
                <4>1. job.rev < jobs[a].rev
                    BY <2>1, <2>5, <3>3 DEF Ordered
                <4> QED BY <2>2, <2>3, <3>1, <3>3, <4>1
            <3>4. CASE k = job.key /\ n + 1 = a
                BY <2>2, <2>3, <3>1, <3>4
            <3>5. CASE k = job.key /\ a < n + 1
                <4>1. jobs[a].rev < job.rev /\ job.rev <= jobs[a].rev
                    BY <2>1, <2>5, <3>5 DEF Ordered
                <4> QED BY <2>3, <4>1
            <3> QED BY <2>3, <3>2, <3>3, <3>4, <3>5
        <2> QED BY <2>2, <2>4, <2>5
    <1>6. Len(jobs) \in S
        <2> HIDE DEF P
        <2>1. ASSUME NEW n \in Nat, n \in S PROVE n + 1 \in S
            <3>1. n + 1 \in Nat
                OBVIOUS
            <3>2. n + 1 <= Len(jobs) => P(n + 1)
                BY <1>5, <2>1
            <3> QED BY <3>1, <3>2, Zenon
        <2> HIDE DEF S
        <2>2. Nat \subseteq S
            BY <1>4, <2>1, ReachesAll, Zenon
        <2> QED BY <1>2, <2>2
    <1>7. P(Len(jobs))
        BY <1>2, <1>6
    <1>8. \A a \in DOMAIN jobs : ~(Len(jobs) < a)
        BY <1>2
    <1> QED BY <1>1, <1>7, <1>8

(* A compaction keeps the order of the jobs, and exactly the kept ones. *)
LEMMA RetainedFacts ==
    ASSUME NEW jobs \in Seq(Jobs), Ordered(jobs), NEW kept
    PROVE  /\ Retained(jobs, kept) \in Seq(Jobs) /\ Ordered(Retained(jobs, kept))
           /\ \A i \in DOMAIN Retained(jobs, kept) :
                \E a \in DOMAIN jobs : jobs[a] \in kept /\ Retained(jobs, kept)[i] = jobs[a]
           /\ \A a \in DOMAIN jobs : jobs[a] \in kept =>
                \E i \in DOMAIN Retained(jobs, kept) : Retained(jobs, kept)[i] = jobs[a]
    <1> DEFINE Kept(s, n) == IF jobs[n] \in kept THEN Append(s, jobs[n]) ELSE s
               Runs(f, m) == f = [n \in 0..m |-> IF n = 0 THEN <<>>
                                                ELSE IF jobs[n] \in kept THEN Append(f[n - 1], jobs[n])
                                                ELSE f[n - 1]]
               Follows(f, m) == /\ f[0] = <<>>
                                /\ \A n \in Nat : n + 1 <= m => f[n + 1] = Kept(f[n], n + 1)
               S == {m \in Nat : \E f : Runs(f, m)}
    <1>1. 0 \in S
        <2>1. Runs([n \in 0..0 |-> <<>>], 0)
            OBVIOUS
        <2> QED BY <2>1
    <1>2. ASSUME NEW m \in Nat, m \in S PROVE m + 1 \in S
        <2>1. PICK f : Runs(f, m)
            BY <1>2
        <2> DEFINE g == [n \in 0..(m + 1) |-> IF n <= m THEN f[n] ELSE Kept(f[m], m + 1)]
        <2>2. \A n \in 0..m : f[n] = IF n = 0 THEN <<>> ELSE Kept(f[n - 1], n)
            BY <2>1
        <2>3. ASSUME NEW n \in 0..(m + 1)
              PROVE  g[n] = IF n = 0 THEN <<>> ELSE Kept(g[n - 1], n)
            <3> HIDE DEF Kept
            <3>1. CASE n \in 0..m
                <4>1. n # 0 => g[n - 1] = f[n - 1]
                    BY <3>1
                <4> QED BY <2>2, <3>1, <4>1
            <3>2. CASE n = m + 1
                BY <3>2
            <3> QED BY <3>1, <3>2
        <2>4. Runs(g, m + 1)
            BY <2>3, Zenon
        <2>5. m + 1 \in Nat
            OBVIOUS
        <2> QED BY <2>4, <2>5, Zenon
    <1>3. Len(jobs) \in Nat /\ Len(jobs) \in S
        <2> HIDE DEF S
        <2>1. Nat \subseteq S
            BY <1>1, <1>2, ReachesAll, Zenon
        <2> QED BY <2>1
    <1>4. \E f : Runs(f, Len(jobs))
        BY <1>3
    <1> DEFINE after == CHOOSE f : Runs(f, Len(jobs))
    <1>5. Runs(after, Len(jobs))
        BY <1>4, Zenon
    <1>6. Retained(jobs, kept) = after[Len(jobs)]
        BY Zenon DEF Retained
    <1> HIDE DEF after
    <1>7. Follows(after, Len(jobs))
        <2>1. \A n \in 0..Len(jobs) : after[n] = IF n = 0 THEN <<>> ELSE Kept(after[n - 1], n)
            BY <1>5
        <2> HIDE DEF Kept
        <2>2. ASSUME NEW n \in Nat, n + 1 <= Len(jobs)
              PROVE  after[n + 1] = Kept(after[n], n + 1)
            <3>1. n + 1 \in 0..Len(jobs) /\ n + 1 # 0 /\ (n + 1) - 1 = n
                BY <1>3, <2>2
            <3> QED BY <2>1, <3>1
        <2>3. 0 \in 0..Len(jobs)
            BY <1>3
        <2> QED BY <2>1, <2>2, <2>3
    <1> HIDE DEF Runs, S
    <1>8. /\ DOMAIN jobs = 1..Len(jobs)
          /\ \A a \in DOMAIN jobs : jobs[a] \in Jobs
        OBVIOUS
    <1> DEFINE P(n, s) ==
                   /\ s \in Seq(Jobs) /\ Ordered(s)
                   /\ \A i \in DOMAIN s : \E a \in 1..n : jobs[a] \in kept /\ s[i] = jobs[a]
                   /\ \A a \in 1..n : jobs[a] \in kept => \E i \in DOMAIN s : s[i] = jobs[a]
               T == {n \in Nat : n <= Len(jobs) => P(n, after[n])}
    <1>9. 0 \in T
        <2>1. after[0] = <<>>
            BY <1>7
        <2>2. P(0, <<>>)
            BY DEF Ordered
        <2> QED BY <2>1, <2>2
    <1>10. ASSUME NEW n \in Nat, n + 1 <= Len(jobs), NEW s, P(n, s)
           PROVE  P(n + 1, Kept(s, n + 1))
        <2>1. n + 1 \in DOMAIN jobs /\ 1..(n + 1) = 1..n \cup {n + 1}
            BY <1>3, <1>8, <1>10
        <2>2. CASE jobs[n + 1] \notin kept
            BY <1>10, <2>1, <2>2
        <2>3. CASE jobs[n + 1] \in kept
            <3> DEFINE job == jobs[n + 1]
                       r == Append(s, job)
            <3>1. job \in Jobs /\ Kept(s, n + 1) = r /\ s \in Seq(Jobs)
                BY <1>8, <1>10, <2>1, <2>3
            <3>2. /\ r \in Seq(Jobs) /\ DOMAIN r = DOMAIN s \cup {Len(s) + 1}
                  /\ r[Len(s) + 1] = job /\ \A i \in DOMAIN s : r[i] = s[i]
                  /\ DOMAIN s = 1..Len(s) /\ Len(s) \in Nat
                BY <3>1
            <3>3. \A i \in DOMAIN s : s[i].key = job.key => s[i].rev < job.rev
                <4> SUFFICES ASSUME NEW i \in DOMAIN s, s[i].key = job.key
                             PROVE  s[i].rev < job.rev
                    OBVIOUS
                <4>1. PICK a \in 1..n : s[i] = jobs[a]
                    BY <1>10
                <4>2. a \in DOMAIN jobs /\ a < n + 1
                    BY <1>8, <2>1
                <4> QED BY <2>1, <4>1, <4>2 DEF Ordered
            <3> SUFFICES P(n + 1, r)
                BY <3>1
            <3> HIDE DEF r, job, Kept
            <3>4. Ordered(r)
                <4> SUFFICES ASSUME NEW a \in DOMAIN r, NEW b \in DOMAIN r, a < b,
                                    r[a].key = r[b].key
                             PROVE  r[a].rev < r[b].rev
                    BY DEF Ordered
                <4>1. a \in DOMAIN s
                    BY <3>2
                <4>2. CASE b \in DOMAIN s
                    BY <1>10, <3>2, <4>1, <4>2 DEF Ordered
                <4>3. CASE b = Len(s) + 1
                    BY <3>2, <3>3, <4>1, <4>3
                <4> QED BY <3>2, <4>2, <4>3
            <3>5. ASSUME NEW i \in DOMAIN r
                  PROVE  \E a \in 1..(n + 1) : jobs[a] \in kept /\ r[i] = jobs[a]
                <4>1. CASE i \in DOMAIN s
                    BY <1>10, <2>1, <3>2, <4>1
                <4>2. CASE i = Len(s) + 1
                    BY <2>1, <2>3, <3>2, <4>2 DEF job
                <4> QED BY <3>2, <4>1, <4>2
            <3>6. ASSUME NEW a \in 1..(n + 1), jobs[a] \in kept
                  PROVE  \E i \in DOMAIN r : r[i] = jobs[a]
                <4>1. CASE a \in 1..n
                    BY <1>10, <3>2, <3>6, <4>1
                <4>2. CASE a = n + 1
                    BY <3>2, <4>2 DEF job
                <4> QED BY <2>1, <4>1, <4>2
            <3> QED BY <3>2, <3>4, <3>5, <3>6
        <2> QED BY <2>2, <2>3
    <1>11. Len(jobs) \in T
        <2> HIDE DEF P, Kept
        <2>1. ASSUME NEW n \in Nat, n \in T PROVE n + 1 \in T
            <3>1. n + 1 \in Nat
                OBVIOUS
            <3>2. n + 1 <= Len(jobs) => P(n + 1, after[n + 1])
                BY <1>3, <1>7, <1>10, <2>1
            <3> QED BY <3>1, <3>2, Zenon
        <2> HIDE DEF T
        <2>2. Nat \subseteq T
            BY <1>9, <2>1, ReachesAll, Zenon
        <2> QED BY <1>3, <2>2
    <1>12. P(Len(jobs), Retained(jobs, kept))
        BY <1>3, <1>6, <1>11
    <1> QED BY <1>8, <1>12

(* The documents among the rows of a table are documents. *)
LEMMA DocumentsFacts ==
    ASSUME NEW rows \in [Keys -> Rows], \A k \in Keys : rows[k].rev = 0 => rows[k] = None
    PROVE  /\ IsDocuments(Documents(rows))
           /\ \A k \in Keys : /\ Documents(rows)[k].rev <= rows[k].rev
                              /\ rows[k].val = Gone => Documents(rows)[k] = None
                              /\ rows[k].val # Gone => Documents(rows)[k] = rows[k]
    <1>1. \A k \in Keys : Documents(rows)[k] = IF rows[k].val = Gone THEN None ELSE rows[k]
        BY DEF Documents
    <1>2. None \in Rows /\ None.rev = 0 /\ None.val = Gone
        BY DEF None, Rows
    <1>3. \A k \in Keys : rows[k] \in Rows /\ rows[k].rev \in Nat
        BY DEF Rows
    <1>4. Documents(rows) \in [Keys -> Rows]
        BY <1>2 DEF Documents
    <1> QED BY <1>1, <1>2, <1>3, <1>4 DEF IsDocuments

(* Of documents without deleted ones, nothing is left out. *)
LEMMA DocumentsOf ==
    ASSUME NEW documents, IsDocuments(documents)
    PROVE  Documents(documents) = documents
    <1>1. \A k \in Keys : (IF documents[k].val = Gone THEN None ELSE documents[k]) = documents[k]
        BY DEF IsDocuments
    <1>2. documents = [k \in Keys |-> documents[k]]
        BY DEF IsDocuments
    <1> QED BY <1>1, <1>2, Zenon DEF Documents

(* The export of a source that satisfies the invariant. *)
LEMMA SourceExports ==
    ASSUME SourceInv
    PROVE  /\ IsDocuments(Documents(truth)) /\ Export = Documents(truth) /\ ExportIsActive
    <1>1. /\ IsDocuments(Documents(truth))
          /\ \A k \in Keys : /\ Documents(truth)[k].rev <= truth[k].rev
                             /\ truth[k].val = Gone => Documents(truth)[k] = None
                             /\ truth[k].val # Gone => Documents(truth)[k] = truth[k]
        BY DocumentsFacts DEF SourceInv
    <1>2. ASSUME ToPostgres
          PROVE  LoadActive(saved, ready) = Documents(truth)
        <2>1. /\ IsDocuments(saved) /\ ready \in Seq(Jobs) /\ Ordered(ready)
              /\ truth \in [Keys -> Rows]
              /\ \A k \in Keys : \/ NewestSaved(k)
                                 \/ NewestRetained(k) /\ saved[k].rev < truth[k].rev
            BY <1>2 DEF SourceInv
        <2> DEFINE all == LoadActive(saved, ready)
        <2>2. /\ IsDocuments(all)
              /\ \A k \in Keys :
                    (\A a \in DOMAIN ready : ready[a].key = k => ready[a].rev <= saved[k].rev)
                       => all[k] = saved[k]
              /\ \A k \in Keys, a \in DOMAIN ready :
                    /\ ready[a].key = k /\ saved[k].rev < ready[a].rev
                    /\ \A b \in DOMAIN ready : ready[b].key = k => ready[b].rev <= ready[a].rev
                    => all[k] = Outcome(ready[a])
            BY <2>1, LoadFacts
        <2> HIDE DEF all
        <2>3. ASSUME NEW k \in Keys PROVE all[k] = Documents(truth)[k]
            <3>1. CASE NewestSaved(k)
                BY <2>2, <3>1 DEF NewestSaved
            <3>2. CASE NewestRetained(k) /\ saved[k].rev < truth[k].rev
                <4>1. PICK a \in DOMAIN ready : ready[a].key = k /\ ready[a].rev = truth[k].rev
                    BY <3>2 DEF NewestRetained
                <4>2. ready[a].val = truth[k].val
                    BY <1>2, <4>1 DEF SourceInv
                <4>3. \A b \in DOMAIN ready : ready[b].key = k => ready[b].rev <= ready[a].rev
                    BY <1>2, <4>1 DEF SourceInv
                <4>4. all[k] = Outcome(ready[a])
                    BY <2>2, <3>2, <4>1, <4>3
                <4>5. truth[k] \in Rows
                    BY <2>1
                <4>6. truth[k] = [rev |-> truth[k].rev, val |-> truth[k].val]
                    BY <4>5 DEF Rows
                <4> QED BY <1>1, <4>1, <4>2, <4>4, <4>6 DEF Outcome
            <3> QED BY <2>1, <3>1, <3>2
        <2> QED BY <1>1, <2>2, <2>3 DEF IsDocuments, all
    <1> QED BY <1>1, <1>2 DEF Export, ExportIsActive

(* A source starts with a checkpoint of what it serves and no jobs. *)
LEMMA SourceInitial == Init => SourceInv
    <1> SUFFICES ASSUME Init PROVE SourceInv
        OBVIOUS
    <1>1. PICK some \in SUBSET Keys :
            truth = [k \in Keys |-> IF k \in some THEN [rev |-> 1, val |-> Old] ELSE None]
        BY DEF Init
    <1>2. saved = truth /\ ready = <<>>
        BY DEF Init
    <1>3. /\ [rev |-> 1, val |-> Old] \in Rows /\ None \in Rows /\ Old # Gone
          /\ None.rev = 0 /\ None.val = Gone
        BY MigrationAssumption DEF Rows, None
    <1>4. /\ truth \in [Keys -> Rows]
          /\ \A k \in Keys : \/ truth[k] = None
                             \/ truth[k] = [rev |-> 1, val |-> Old]
        BY <1>1, <1>3
    <1>5. \A k \in Keys : truth[k].rev = 0 => truth[k] = None
        BY <1>4
    <1>6. IsDocuments(truth)
        BY <1>3, <1>4 DEF IsDocuments
    <1>7. Documents(truth) = truth
        BY <1>6, DocumentsOf
    <1>8. \A k \in Keys : truth[k].rev \in Nat
        BY <1>4 DEF Rows
    <1>9. <<>> \in Seq(Jobs) /\ DOMAIN <<>> = {}
        OBVIOUS
    <1> QED BY <1>2, <1>4, <1>5, <1>6, <1>7, <1>8, <1>9 DEF SourceInv, NewestSaved, Ordered

(* A mutation is newer than all that the source has of its document. *)
LEMMA SourceChangesKeep ==
    ASSUME SourceInv, NEW k \in Keys, NEW v \in {New, Gone}, SourceChanges(k, v)
    PROVE  SourceInv'
    <1> DEFINE r == truth[k].rev + 1
               job == [key |-> k, rev |-> r, val |-> v]
    <1>1. /\ truth \in [Keys -> Rows] /\ \A j \in Keys : truth[j].rev = 0 => truth[j] = None
          /\ truth' = [truth EXCEPT ![k] = [rev |-> r, val |-> v]]
          /\ saved' = saved /\ direction' = direction
        BY DEF SourceInv, SourceChanges
    <1>2. \A j \in Keys : truth[j].rev \in Nat
        BY <1>1 DEF Rows
    <1>3. r \in Nat \ {0} /\ r > truth[k].rev /\ [rev |-> r, val |-> v] \in Rows /\ job \in Jobs
        BY <1>2 DEF Rows, Jobs
    <1>4. /\ truth' \in [Keys -> Rows] /\ truth'[k] = [rev |-> r, val |-> v]
          /\ \A j \in Keys : j # k => truth'[j] = truth[j]
        BY <1>1, <1>3
    <1>5. \A j \in Keys : truth'[j].rev = 0 => truth'[j] = None
        BY <1>1, <1>3, <1>4
    <1>6. ASSUME ToPostgres
          PROVE  /\ IsDocuments(saved')
                 /\ ready' \in Seq(Jobs) /\ Ordered(ready')
                 /\ \A j \in Keys : saved'[j].rev <= truth'[j].rev
                 /\ \A a \in DOMAIN ready' :
                      /\ ready'[a].rev <= truth'[ready'[a].key].rev
                      /\ ready'[a].rev = truth'[ready'[a].key].rev
                           => ready'[a].val = truth'[ready'[a].key].val
                 /\ \A j \in Keys : \/ NewestSaved(j)'
                                    \/ NewestRetained(j)' /\ saved'[j].rev < truth'[j].rev
        <2>1. /\ IsDocuments(saved) /\ ready \in Seq(Jobs) /\ Ordered(ready)
              /\ \A j \in Keys : saved[j].rev <= truth[j].rev
              /\ \A a \in DOMAIN ready :
                   /\ ready[a].rev <= truth[ready[a].key].rev
                   /\ ready[a].rev = truth[ready[a].key].rev => ready[a].val = truth[ready[a].key].val
              /\ \A j \in Keys : \/ NewestSaved(j)
                                 \/ NewestRetained(j) /\ saved[j].rev < truth[j].rev
            BY <1>6 DEF SourceInv
        <2>2. ready' = Append(ready, job)
            BY <1>6 DEF SourceChanges
        <2>3. /\ ready' \in Seq(Jobs) /\ DOMAIN ready' = DOMAIN ready \cup {Len(ready) + 1}
              /\ ready'[Len(ready) + 1] = job
              /\ \A a \in DOMAIN ready : ready'[a] = ready[a] /\ ready[a] \in Jobs
              /\ DOMAIN ready = 1..Len(ready) /\ Len(ready) \in Nat
            BY <1>3, <2>1, <2>2
        <2>4. /\ \A a \in DOMAIN ready : ready[a].key \in Keys /\ ready[a].rev \in Nat
              /\ \A j \in Keys : saved[j].rev \in Nat
              /\ job.key = k /\ job.rev = r /\ job.val = v
            BY <2>1, <2>3 DEF Jobs, Rows, IsDocuments
        <2> HIDE DEF job
        <2>5. Ordered(ready')
            <3> SUFFICES ASSUME NEW a \in DOMAIN ready', NEW b \in DOMAIN ready', a < b,
                                ready'[a].key = ready'[b].key
                         PROVE  ready'[a].rev < ready'[b].rev
                BY DEF Ordered
            <3>1. a \in DOMAIN ready
                BY <2>3
            <3>2. CASE b \in DOMAIN ready
                BY <2>1, <2>3, <3>1, <3>2 DEF Ordered
            <3>3. CASE b = Len(ready) + 1
                <4>1. ready[a].key = k /\ ready[a].rev <= truth[k].rev
                    BY <2>1, <2>3, <2>4, <3>1, <3>3
                <4> QED BY <1>2, <1>3, <2>3, <2>4, <3>1, <3>3, <4>1
            <3> QED BY <2>3, <3>2, <3>3
        <2>6. \A j \in Keys : saved[j].rev <= truth'[j].rev
            BY <1>2, <1>3, <1>4, <2>1, <2>4
        <2>7. ASSUME NEW a \in DOMAIN ready'
              PROVE  /\ ready'[a].rev <= truth'[ready'[a].key].rev
                     /\ ready'[a].rev = truth'[ready'[a].key].rev
                           => ready'[a].val = truth'[ready'[a].key].val
            <3>1. CASE a \in DOMAIN ready /\ ready[a].key # k
                BY <1>4, <2>1, <2>3, <2>4, <3>1
            <3>2. CASE a \in DOMAIN ready /\ ready[a].key = k
                <4>1. ready'[a].key = k /\ truth'[k].rev = r /\ ready'[a].rev <= truth[k].rev
                    BY <1>4, <2>1, <2>3, <3>2
                <4> QED BY <1>2, <1>3, <2>3, <2>4, <3>2, <4>1
            <3>3. CASE a = Len(ready) + 1
                BY <1>3, <1>4, <2>3, <2>4, <3>3
            <3> QED BY <2>3, <3>1, <3>2, <3>3
        <2>8. ASSUME NEW j \in Keys
              PROVE  \/ NewestSaved(j)'
                     \/ NewestRetained(j)' /\ saved'[j].rev < truth'[j].rev
            <3>1. CASE j = k
                <4>1. NewestRetained(k)'
                    BY <1>4, <2>3, <2>4 DEF NewestRetained
                <4>2. saved[k].rev < truth'[k].rev
                    BY <1>2, <1>3, <1>4, <2>1, <2>4
                <4> QED BY <1>1, <3>1, <4>1, <4>2
            <3>2. CASE j # k /\ NewestSaved(j)
                <4>1. Documents(truth')[j] = Documents(truth)[j]
                    BY <1>4, <3>2 DEF Documents
                <4>2. \A a \in DOMAIN ready' : ready'[a].key = j => a \in DOMAIN ready
                    BY <2>3, <2>4, <3>2
                <4>3. \A a \in DOMAIN ready' : ready'[a].key = j => ready'[a].rev <= saved[j].rev
                    BY <2>3, <3>2, <4>2 DEF NewestSaved
                <4> QED BY <1>1, <3>2, <4>1, <4>3 DEF NewestSaved
            <3>3. CASE j # k /\ NewestRetained(j) /\ saved[j].rev < truth[j].rev
                <4>1. NewestRetained(j)'
                    BY <1>4, <2>3, <3>3 DEF NewestRetained
                <4> QED BY <1>1, <1>4, <3>3, <4>1
            <3> QED BY <2>1, <3>1, <3>2, <3>3
        <2> QED BY <1>1, <2>1, <2>3, <2>5, <2>6, <2>7, <2>8
    <1>7. ToPostgres' => ToPostgres
        BY <1>1 DEF ToPostgres
    <1> HIDE DEF r, job
    <1> QED BY <1>4, <1>5, <1>6, <1>7 DEF SourceInv

(* A checkpoint has what is served, and the compaction behind it keeps no job
   that a deletion it drops has made obsolete. *)
LEMMA SourceCheckpointsKeep ==
    ASSUME SourceInv, SourceCheckpoints
    PROVE  SourceInv'
    <1>1. /\ truth' = truth /\ direction' = direction /\ saved' = Documents(truth)
          /\ truth \in [Keys -> Rows] /\ \A j \in Keys : truth[j].rev = 0 => truth[j] = None
        BY DEF SourceInv, SourceCheckpoints
    <1>2. /\ IsDocuments(saved')
          /\ \A k \in Keys : /\ saved'[k].rev <= truth[k].rev
                             /\ truth[k].val = Gone => saved'[k] = None
                             /\ truth[k].val # Gone => saved'[k] = truth[k]
        BY <1>1, DocumentsFacts
    <1>3. PICK kept \in SUBSET ToSet(ready) :
             /\ \A i \in kept, j \in ToSet(ready) \ kept :
                   j.key = i.key /\ j.val = Gone => j.rev < i.rev
             /\ ready' = Retained(ready, kept)
        BY DEF SourceCheckpoints
    <1>4. ASSUME ToPostgres
          PROVE  /\ ready' \in Seq(Jobs) /\ Ordered(ready')
                 /\ \A a \in DOMAIN ready' :
                      /\ ready'[a].rev <= truth[ready'[a].key].rev
                      /\ ready'[a].rev = truth[ready'[a].key].rev
                           => ready'[a].val = truth[ready'[a].key].val
                 /\ \A j \in Keys : \/ NewestSaved(j)'
                                    \/ NewestRetained(j)' /\ saved'[j].rev < truth[j].rev
        <2>1. /\ IsDocuments(saved) /\ ready \in Seq(Jobs) /\ Ordered(ready)
              /\ \A a \in DOMAIN ready :
                   /\ ready[a].rev <= truth[ready[a].key].rev
                   /\ ready[a].rev = truth[ready[a].key].rev => ready[a].val = truth[ready[a].key].val
              /\ \A j \in Keys : NewestSaved(j) \/ NewestRetained(j)
            BY <1>4 DEF SourceInv
        <2>2. /\ ready' \in Seq(Jobs) /\ Ordered(ready')
              /\ \A i \in DOMAIN ready' :
                    \E a \in DOMAIN ready : ready[a] \in kept /\ ready'[i] = ready[a]
              /\ \A a \in DOMAIN ready : ready[a] \in kept =>
                    \E i \in DOMAIN ready' : ready'[i] = ready[a]
            BY <1>3, <2>1, RetainedFacts
        <2>3. /\ \A a \in DOMAIN ready : /\ ready[a] \in Jobs /\ ready[a] \in ToSet(ready)
                                         /\ ready[a].rev \in Nat \ {0}
              /\ \A j \in Keys : truth[j].rev \in Nat /\ saved'[j].rev \in Nat
            <3>1. \A a \in DOMAIN ready : ready[a] \in Jobs
                BY <2>1
            <3>2. \A a \in DOMAIN ready : ready[a] \in ToSet(ready)
                BY Zenon DEF ToSet
            <3>3. \A a \in DOMAIN ready : ready[a].rev \in Nat \ {0}
                BY <3>1 DEF Jobs
            <3>4. \A j \in Keys : truth[j].rev \in Nat /\ saved'[j].rev \in Nat
                BY <1>1, <1>2 DEF Rows, IsDocuments
            <3> QED BY <3>1, <3>2, <3>3, <3>4
        <2>4. ASSUME NEW j \in Keys
              PROVE  \/ NewestSaved(j)'
                     \/ NewestRetained(j)' /\ saved'[j].rev < truth[j].rev
            <3>1. saved'[j] = Documents(truth')[j]
                BY <1>1
            <3>2. CASE truth[j].val # Gone
                <4>1. \A i \in DOMAIN ready' : ready'[i].key = j => ready'[i].rev <= truth[j].rev
                    BY <2>1, <2>2
                <4> QED BY <1>2, <3>1, <3>2, <4>1 DEF NewestSaved
            <3>3. CASE truth[j].val = Gone /\ \A i \in DOMAIN ready' : ready'[i].key # j
                BY <3>1, <3>3 DEF NewestSaved
            <3>4. CASE truth[j].val = Gone /\ \E i \in DOMAIN ready' : ready'[i].key = j
                <4>1. PICK i \in DOMAIN ready' : ready'[i].key = j
                    BY <3>4
                <4>2. PICK a \in DOMAIN ready : ready[a] \in kept /\ ready'[i] = ready[a]
                    BY <2>2
                <4>3. ready[a].key = j /\ ready[a].rev > 0 /\ ready[a].rev <= truth[j].rev
                    BY <2>1, <2>3, <4>1, <4>2
                <4>4. NewestRetained(j)
                    <5>1. CASE NewestSaved(j)
                        <6>1. saved[j] = None /\ ready[a].rev <= saved[j].rev
                            BY <1>1, <3>4, <4>3, <5>1 DEF NewestSaved, Documents
                        <6>2. saved[j].rev = 0
                            BY <6>1 DEF None
                        <6> QED BY <2>3, <4>3, <6>1, <6>2
                    <5> QED BY <2>1, <5>1
                <4>5. PICK b \in DOMAIN ready : ready[b].key = j /\ ready[b].rev = truth[j].rev
                    BY <4>4 DEF NewestRetained
                <4>6. ready[b].val = Gone
                    BY <2>1, <3>4, <4>5
                <4>7. ready[b] \in kept
                    <5>1. CASE ready[b] \notin kept
                        <6>1. ready[b].rev < ready[a].rev
                            BY <1>3, <2>3, <4>2, <4>3, <4>5, <4>6, <5>1
                        <6> QED BY <2>3, <4>3, <4>5, <6>1
                    <5> QED BY <5>1
                <4>8. NewestRetained(j)'
                    BY <1>1, <2>2, <4>5, <4>7 DEF NewestRetained
                <4>9. saved'[j].rev < truth[j].rev
                    <5>1. saved'[j].rev = 0
                        BY <1>2, <3>4 DEF None
                    <5> QED BY <2>3, <4>3, <5>1
                <4> QED BY <4>8, <4>9
            <3> QED BY <3>2, <3>3, <3>4
        <2> QED BY <2>1, <2>2, <2>4
    <1>5. ToPostgres' => ToPostgres
        BY <1>1 DEF ToPostgres
    <1> QED BY <1>1, <1>2, <1>4, <1>5 DEF SourceInv

(* Only the application of the source changes it. *)
LEMMA SourceNext ==
    ASSUME SourceInv, [Next]_vars
    PROVE  SourceInv'
    <1>1. CASE UNCHANGED <<direction, source>>
        BY <1>1 DEF source, SourceInv, NewestSaved, NewestRetained, ToPostgres
    <1>2. CASE Open \/ Run \/ Ends \/ UNCHANGED vars
        BY <1>1, <1>2 DEF Open, Run, Ends, vars, source, Reconcile, NextBatch, Activate,
                          SaveCheckpoint, SaveProgress, Finish, Verify, Report
    <1> QED BY <1>2, SourceChangesKeep, SourceCheckpointsKeep DEF Next

(* An embedded source exports exactly what its application serves, however its
   log was compacted: load_active() replays the retained ready jobs over a
   checkpoint that may be newer than they are. *)
THEOREM ExportIsServed == Spec => []ExportIsActive
    <1>1. Init => SourceInv
        BY SourceInitial
    <1>2. SourceInv /\ [Next]_vars => SourceInv'
        BY SourceNext
    <1>3. SourceInv => ExportIsActive
        BY SourceExports
    <1> QED BY <1>1, <1>2, <1>3, PTL DEF Spec
-----------------------------------------------------------------------------
(* Batches                                                                 *)

Rest(documents, after) == {k \in Keys : k > after /\ documents[k] # None}
UpTo(rest, k) == {j \in rest : j <= k}

(* Initial parts of sets of keys are finite, and larger ones have more keys. *)
LEMMA UpToFacts ==
    ASSUME NEW S \in SUBSET Nat, NEW T \in SUBSET Nat, NEW i \in Nat, NEW k \in Nat,
           UpTo(S, i) \subseteq UpTo(T, k)
    PROVE  /\ Cardinality(UpTo(S, i)) \in Nat /\ Cardinality(UpTo(T, k)) \in Nat
           /\ Cardinality(UpTo(S, i)) <= Cardinality(UpTo(T, k))
           /\ UpTo(S, i) # UpTo(T, k) => Cardinality(UpTo(S, i)) < Cardinality(UpTo(T, k))
    <1>1. IsFiniteSet(0..k)
        BY FS_Interval
    <1>2. UpTo(T, k) \subseteq 0..k
        <2>1. \A j \in UpTo(T, k) : j \in T /\ j <= k
            BY Zenon DEF UpTo
        <2>2. ASSUME NEW j \in UpTo(T, k) PROVE j \in 0..k
            <3>1. j \in Nat /\ j <= k
                BY <2>1
            <3> QED BY <3>1
        <2> QED BY <2>2
    <1>3. IsFiniteSet(UpTo(T, k))
        BY <1>1, <1>2, FS_Subset
    <1>4. /\ IsFiniteSet(UpTo(S, i)) /\ Cardinality(UpTo(S, i)) <= Cardinality(UpTo(T, k))
          /\ Cardinality(UpTo(S, i)) = Cardinality(UpTo(T, k)) => UpTo(S, i) = UpTo(T, k)
        BY <1>3, FS_Subset
    <1>5. Cardinality(UpTo(S, i)) \in Nat /\ Cardinality(UpTo(T, k)) \in Nat
        BY <1>3, <1>4, FS_CardinalityType
    <1> QED BY <1>4, <1>5

(* The keys of a batch among the rest. *)
LEMMA BatchKeys ==
    ASSUME NEW documents, NEW after
    PROVE  /\ ReadBatch(documents, after).keys =
                 {k \in Rest(documents, after) :
                     Cardinality(UpTo(Rest(documents, after), k)) <= BatchSize}
           /\ ReadBatch(documents, after).complete =
                 (ReadBatch(documents, after).keys = Rest(documents, after))
           /\ ReadBatch(documents, after).next =
                 IF ReadBatch(documents, after).keys = {} THEN after
                 ELSE Max(ReadBatch(documents, after).keys)
    BY Zenon DEF ReadBatch, Rest, UpTo

(* A batch is an initial part of the rest, empty only if there is none; it
   ends with its largest key. *)
LEMMA BatchFacts ==
    ASSUME NEW documents, NEW after \in Nat, NEW B, B = ReadBatch(documents, after),
           NEW rest, rest = Rest(documents, after)
    PROVE  /\ B.keys \subseteq rest
           /\ \A j \in rest, k \in B.keys : j <= k => j \in B.keys
           /\ B.complete = (B.keys = rest)
           /\ B.keys = {} => rest = {} /\ B.next = after
           /\ B.next \in Nat /\ after <= B.next /\ \A k \in B.keys : k <= B.next
           /\ B.keys # {} => B.next \in B.keys
    <1>1. /\ B.keys = {k \in rest : Cardinality(UpTo(rest, k)) <= BatchSize}
          /\ B.complete = (B.keys = rest)
          /\ B.next = IF B.keys = {} THEN after ELSE Max(B.keys)
        BY BatchKeys
    <1>2. rest \in SUBSET Nat /\ BatchSize \in Nat \ {0} /\ \A k \in rest : k > after
        BY MigrationAssumption DEF Rest
    <1>3. \A j, k \in rest : j <= k => /\ Cardinality(UpTo(rest, j)) <= Cardinality(UpTo(rest, k))
                                       /\ Cardinality(UpTo(rest, j)) \in Nat
                                       /\ Cardinality(UpTo(rest, k)) \in Nat
        <2> SUFFICES ASSUME NEW j \in rest, NEW k \in rest, j <= k
                     PROVE  /\ Cardinality(UpTo(rest, j)) <= Cardinality(UpTo(rest, k))
                            /\ Cardinality(UpTo(rest, j)) \in Nat
                            /\ Cardinality(UpTo(rest, k)) \in Nat
            OBVIOUS
        <2>1. UpTo(rest, j) \subseteq UpTo(rest, k)
            BY <1>2 DEF UpTo
        <2> QED BY <1>2, <2>1, UpToFacts
    <1>4. \A j \in rest, k \in B.keys : j <= k => j \in B.keys
        BY <1>1, <1>2, <1>3
    <1>5. ASSUME rest # {} PROVE B.keys # {}
        <2>1. PICK k \in rest : \A j \in rest : k <= j
            BY <1>2, <1>5, LeastOf
        <2>2. UpTo(rest, k) = {k}
            BY <1>2, <2>1 DEF UpTo
        <2>3. Cardinality(UpTo(rest, k)) = 1
            BY <2>2, FS_Singleton
        <2> QED BY <1>1, <1>2, <2>1, <2>3
    <1>6. ASSUME B.keys # {}
          PROVE  Max(B.keys) \in B.keys /\ \A k \in B.keys : Max(B.keys) >= k
        <2> DEFINE room(k) == BatchSize - Cardinality(UpTo(rest, k))
        <2>1. \A k \in B.keys : k \in rest /\ room(k) \in Nat
            BY <1>1, <1>2, <1>3
        <2> DEFINE rooms == {room(k) : k \in B.keys}
        <2>2. PICK r \in rooms : \A q \in rooms : r <= q
            <3>1. rooms \in SUBSET Nat
                BY <2>1
            <3>2. rooms # {}
                BY <1>6
            <3> HIDE DEF rooms
            <3> QED BY <3>1, <3>2, LeastOf
        <2>3. PICK m \in B.keys : r = room(m)
            BY <2>2
        <2>4. \A k \in B.keys : room(m) <= room(k)
            BY <2>2, <2>3
        <2>5. ASSUME NEW k \in B.keys, m < k PROVE FALSE
            <3>0. k \in rest /\ m \in rest /\ k \in Nat /\ m \in Nat
                BY <1>2, <2>1
            <3>1. UpTo(rest, m) \subseteq UpTo(rest, k) /\ k \in UpTo(rest, k) /\ k \notin UpTo(rest, m)
                <4> HIDE DEF room, rooms
                <4> QED BY <1>2, <2>5, <3>0 DEF UpTo
            <3>2. Cardinality(UpTo(rest, m)) < Cardinality(UpTo(rest, k))
                BY <1>2, <2>1, <3>1, UpToFacts
            <3> QED BY <1>2, <1>3, <2>1, <2>4, <2>5, <3>2
        <2>6. \A k \in B.keys : m >= k
            BY <1>2, <2>1, <2>5
        <2> QED BY <2>6, Zenon DEF Max
    <1>7. CASE B.keys = {}
        BY <1>1, <1>4, <1>5, <1>7
    <1>8. CASE B.keys # {}
        <2>1. B.next = Max(B.keys)
            BY <1>1, <1>8
        <2> QED BY <1>1, <1>2, <1>4, <1>6, <1>8, <2>1
    <1> QED BY <1>7, <1>8

(* Min() of keys is one of them and the least. *)
LEMMA MinFacts ==
    ASSUME NEW S \in SUBSET Nat, S # {}
    PROVE  Min(S) \in S /\ \A k \in S : Min(S) <= k
    <1>1. \E v \in S : \A w \in S : v <= w
        BY LeastOf
    <1> QED BY <1>1, Zenon DEF Min

(* When one index is a prefix of another one, so is its batch. *)
LEMMA PrefixBatch ==
    ASSUME NEW old, NEW all, NEW after \in Nat,
           \A k \in Keys : old[k] # None => old[k] = all[k],
           \A j, k \in Keys : j < k /\ old[k] # None => old[j] = all[j],
           NEW actual, actual = ReadBatch(old, after),
           NEW expected, expected = ReadBatch(all, after)
    PROVE  /\ \A k \in actual.keys :
                 /\ k \in expected.keys /\ old[k] = all[k]
                 /\ \A j \in expected.keys : j < k => j \in actual.keys
           /\ actual.complete \/ (actual.keys # {} /\ ~expected.complete)
    <1> DEFINE a == Rest(old, after)
               e == Rest(all, after)
    <1>1. /\ actual.keys = {k \in a : Cardinality(UpTo(a, k)) <= BatchSize}
          /\ actual.complete = (actual.keys = a)
          /\ expected.keys = {k \in e : Cardinality(UpTo(e, k)) <= BatchSize}
          /\ expected.complete = (expected.keys = e)
        BY BatchKeys
    <1>2. /\ a \in SUBSET Nat /\ e \in SUBSET Nat /\ BatchSize \in Nat
          /\ a \subseteq Keys /\ e \subseteq Keys
        BY MigrationAssumption DEF Rest
    <1>3. a \subseteq e
        BY DEF Rest
    <1>4. ASSUME NEW k \in a PROVE UpTo(a, k) = UpTo(e, k)
        <2>1. ASSUME NEW j \in e, j < k PROVE j \in a
            <3>1. k \in Keys /\ old[k] # None /\ j \in Keys /\ j > after /\ all[j] # None
                BY DEF Rest
            <3>2. old[j] = all[j]
                BY <2>1, <3>1
            <3> QED BY <3>1, <3>2 DEF Rest
        <2>2. k \in Nat
            BY <1>2
        <2> HIDE DEF a, e
        <2>3. ASSUME NEW j \in e, j <= k PROVE j \in a
            <3>1. j \in Nat
                BY <1>2
            <3>2. j < k \/ j = k
                BY <2>2, <2>3, <3>1
            <3> QED BY <1>4, <2>1, <3>2
        <2> QED BY <1>3, <2>3, Zenon DEF UpTo
    <1>5. (actual.keys = {} => a = {}) /\ \A j \in a, k \in actual.keys : j <= k => j \in actual.keys
        BY BatchFacts
    <1>6. \A k \in a : old[k] = all[k]
        BY DEF Rest
    <1>7. \A j \in e, k \in a : j < k => j \in a
        BY <1>2 DEF Rest
    <1> HIDE DEF a, e
    <1>8. ASSUME NEW k \in actual.keys
          PROVE  /\ k \in expected.keys /\ old[k] = all[k]
                 /\ \A j \in expected.keys : j < k => j \in actual.keys
        <2>1. k \in expected.keys
            BY <1>1, <1>3, <1>4
        <2>2. ASSUME NEW j \in expected.keys, j < k PROVE j \in actual.keys
            <3>1. j \in e /\ k \in a /\ j \in Nat /\ k \in Nat
                BY <1>1, <1>2
            <3> QED BY <1>5, <1>7, <2>2, <3>1
        <2> QED BY <1>1, <1>6, <2>1, <2>2
    <1>9. ASSUME ~actual.complete PROVE actual.keys # {} /\ ~expected.complete
        <2>1. PICK k \in a : k \notin actual.keys
            BY <1>1, <1>9
        <2>2. k \in e /\ k \notin expected.keys
            BY <1>1, <1>3, <1>4, <2>1
        <2>3. expected.keys # e
            BY <2>2
        <2> QED BY <1>1, <1>5, <2>1, <2>3
    <1> QED BY <1>8, <1>9
-----------------------------------------------------------------------------
(* The steps of the runner                                                 *)

(* What read_batch() of the destination reads is on disk. *)
LEMMA DestinationOnDisk ==
    ASSUME RunnerTypes, pc # "idle"
    PROVE  Destination = Documents(dest)
    <1>1. CASE ToPostgres
        BY <1>1 DEF Destination
    <1>2. CASE ~ToPostgres
        BY <1>2, DocumentsOf DEF Destination, RunnerTypes
    <1> QED BY <1>1, <1>2

(* The first of the pending documents are written. *)
WritesOnly(K) ==
    /\ pc = "write" /\ K \subseteq pending
    /\ \A j \in K, k \in pending \ K : j < k
    /\ dest' \in [Keys -> Rows]
    /\ \A k \in Keys : dest'[k] = IF k \in K THEN snapshot[k] ELSE dest[k]
    /\ pending' = pending \ K
    /\ ~ToPostgres => memory' = dest'
    /\ UNCHANGED <<direction, source, recorded, snapshot, pc, cursor, progress, batch,
                   runs, excused>>

(* Writing the first pending documents keeps the invariant. *)
LEMMA WriteKeeps ==
    ASSUME MigrationInv, NEW K, WritesOnly(K)
    PROVE  MigrationInv'
    <1>1. /\ pc = "write" /\ pc' = "write" /\ K \subseteq pending /\ pending' = pending \ K
          /\ dest' \in [Keys -> Rows]
          /\ \A k \in Keys : dest'[k] = IF k \in K THEN snapshot[k] ELSE dest[k]
          /\ ToPostgres' = ToPostgres /\ (~ToPostgres => memory' = dest')
          /\ Copying /\ Copying'
          /\ truth' = truth /\ recorded' = recorded /\ snapshot' = snapshot /\ cursor' = cursor
          /\ progress' = progress /\ batch' = batch /\ runs' = runs /\ excused' = excused
        BY DEF WritesOnly, ToPostgres, Copying, source
    <1>2. /\ IsDocuments(snapshot) /\ runs > 0 /\ runs \in Nat /\ progress.last \in Nat
          /\ dest \in [Keys -> Rows]
          /\ batch = ReadBatch(snapshot, progress.last) /\ pending \subseteq batch.keys
        BY <1>1 DEF MigrationInv, RunnerTypes, BatchInv
    <1> DEFINE rest == Rest(snapshot, progress.last)
    <1>3. /\ batch.keys \subseteq rest /\ \A j \in rest, k \in batch.keys : j <= k => j \in batch.keys
        BY <1>2, BatchFacts
    <1>4. \A k \in batch.keys : /\ k \in Keys /\ k > progress.last /\ k \in Nat
                                /\ snapshot[k] # None /\ snapshot[k].val # Gone
        BY <1>2, <1>3, MigrationAssumption DEF Rest, IsDocuments
    <1>5. \A k \in Keys : Documents(dest')[k] = IF k \in K THEN snapshot[k] ELSE Documents(dest)[k]
        BY <1>1, <1>2, <1>4 DEF Documents
    <1>6. RunnerTypes'
        <2>1. ASSUME ~ToPostgres PROVE IsDocuments(dest')
            <3>1. IsDocuments(dest)
                BY <2>1 DEF MigrationInv, RunnerTypes
            <3> QED BY <1>1, <1>2, <3>1 DEF IsDocuments
        <2> QED BY <1>1, <2>1 DEF MigrationInv, RunnerTypes
    <1>7. BatchInv'
        <2>1. ASSUME NEW j \in batch.keys \ (pending \ K), NEW k \in pending \ K PROVE j < k
            BY <1>1, <2>1 DEF MigrationInv, BatchInv, WritesOnly
        <2> QED BY <1>1, <1>2, <2>1 DEF BatchInv
    <1>8. CopyInv'
        <2>1. ASSUME NEW k \in Keys
              PROVE  Documents(dest')[k] = IF Written(k)' THEN snapshot[k] ELSE None
            <3>1. Documents(dest)[k] = IF Written(k) THEN snapshot[k] ELSE None
                BY <1>1 DEF MigrationInv, CopyInv
            <3>2. CASE k \in K
                BY <1>1, <1>2, <1>5, <3>2 DEF Written
            <3>3. CASE k \notin K
                <4>1. Written(k)' <=> Written(k)
                    BY <1>1, <3>3 DEF Written
                <4> QED BY <1>5, <3>1, <3>3, <4>1
            <3> QED BY <3>2, <3>3
        <2> QED BY <1>1, <2>1 DEF MigrationInv, CopyInv
    <1>9. ASSUME ~excused PROVE PrefixInv'
        <2> DEFINE all == Documents(truth)
        <2>1. /\ dest = Documents(dest) /\ snapshot = all
              /\ \A k \in Keys : dest[k] # None => dest[k] = all[k]
              /\ \A j, k \in Keys : j < k /\ dest[k] # None => dest[j] = all[j]
            BY <1>1, <1>9 DEF MigrationInv, PrefixInv
        <2>2. dest' = Documents(dest')
            <3>1. \A k \in Keys : dest'[k] = Documents(dest')[k]
                BY <1>1, <1>5, <2>1
            <3>2. Documents(dest') = [k \in Keys |-> Documents(dest')[k]]
                BY Zenon DEF Documents
            <3> QED BY <1>1, <3>1, <3>2
        <2>3. ASSUME NEW j \in Keys, NEW k \in K, j < k PROVE dest'[j] = all[j]
            <3>1. Documents(dest)[j] = IF Written(j) THEN snapshot[j] ELSE None
                BY <1>1 DEF MigrationInv, CopyInv
            <3>2. CASE j \in K \/ snapshot[j] = None \/ Written(j)
                BY <1>1, <2>1, <3>1, <3>2
            <3>3. CASE j \notin K /\ snapshot[j] # None /\ ~Written(j)
                <4>1. j \in Nat /\ k \in Nat /\ k \in batch.keys /\ j \in rest
                    BY <1>1, <1>2, <1>4, <3>3, MigrationAssumption DEF Written, Rest
                <4>2. j \in batch.keys
                    BY <1>3, <2>3, <4>1
                <4>3. j \in pending \ K
                    BY <1>1, <3>3, <4>2 DEF Written
                <4>4. k < j
                    BY <4>3 DEF WritesOnly
                <4> QED BY <2>3, <4>1, <4>4
            <3> QED BY <3>2, <3>3
        <2>4. ASSUME NEW j \in Keys, NEW k \in Keys, j < k, dest'[k] # None
              PROVE  dest'[j] = all[j]
            <3>1. CASE k \in K
                BY <2>3, <2>4, <3>1
            <3>2. CASE k \notin K
                BY <1>1, <2>1, <2>4, <3>2
            <3> QED BY <3>1, <3>2
        <2>5. \A k \in Keys : dest'[k] # None => dest'[k] = all[k]
            BY <1>1, <2>1
        <2>6. recorded # NoProgress => recorded.run = all
            BY <1>9 DEF MigrationInv, PrefixInv
        <2>7. Documents(truth)' = all
            BY <1>1
        <2> HIDE DEF all
        <2> QED BY <1>1, <1>2, <2>1, <2>2, <2>4, <2>5, <2>6, <2>7 DEF PrefixInv
    <1>10. ProgressBehindData'
        <2> SUFFICES ASSUME recorded # NoProgress, NEW k \in 1..recorded.last \cap Keys
                     PROVE  /\ recorded.run[k] = None \/ Documents(dest')[k] # None
                            /\ ~excused => recorded.run[k] = Documents(dest')[k]
            BY <1>1, Zenon DEF ProgressBehindData
        <2>1. /\ recorded.run[k] = None \/ Documents(dest)[k] # None
              /\ ~excused => recorded.run[k] = Documents(dest)[k]
            BY DEF MigrationInv, ProgressBehindData
        <2>2. k \in K => snapshot[k] # None
            BY <1>1, <1>2, <1>4
        <2>3. ~excused => recorded.run = snapshot
            BY <1>1 DEF MigrationInv, PrefixInv
        <2> QED BY <1>5, <2>1, <2>2, <2>3
    <1> QED BY <1>1, <1>6, <1>7, <1>8, <1>9, <1>10
        DEF MigrationInv, ReconcileInv, RefusedOnlyIfChanged, PrefixInv

(* A refusal leaves everything on disk and needs an excuse. *)
LEMMA RefuseKeeps ==
    ASSUME MigrationInv, pc # "idle", Refuse, excused,
           UNCHANGED <<direction, source, dest, recorded, snapshot, memory, runs, excused>>
    PROVE  MigrationInv'
    BY DEF MigrationInv, RunnerTypes, ReconcileInv, BatchInv, CopyInv, PrefixInv, Copying,
           ProgressBehindData, RefusedOnlyIfChanged, Refuse, ToPostgres

(* migrate() starts: the run it finds recorded is its own unless the source
   has changed. *)
LEMMA OpenKeeps ==
    ASSUME SourceInv, MigrationInv, Open
    PROVE  MigrationInv'
    <1>1. /\ pc = "idle" /\ runs' = runs + 1 /\ runs \in Nat
          /\ snapshot' = Documents(truth) /\ IsDocuments(snapshot')
          /\ ToPostgres' = ToPostgres /\ truth' = truth
          /\ dest' = dest /\ recorded' = recorded /\ excused' = excused
          /\ ~ToPostgres => memory' = dest
        BY SourceExports DEF Open, MigrationInv, RunnerTypes, ToPostgres, source
    <1>2. runs' \in Nat /\ runs' > 0
        BY <1>1
    <1>3. PrefixInv' /\ ProgressBehindData'
        BY <1>1, <1>2 DEF MigrationInv, PrefixInv, ProgressBehindData
    <1>4. CASE pc' = "refused" /\ UNCHANGED <<cursor, progress, batch, pending>> /\ OtherRun(snapshot')
        <2>1. excused
            BY <1>1, <1>4 DEF MigrationInv, PrefixInv, OtherRun
        <2> QED BY <1>1, <1>2, <1>3, <1>4, <2>1
            DEF MigrationInv, RunnerTypes, ReconcileInv, BatchInv, CopyInv, Copying,
                RefusedOnlyIfChanged
    <1>5. CASE /\ pc' = "reconcile" /\ cursor' = 0
               /\ progress' = [Start EXCEPT !.run = snapshot']
        <2>1. progress' = [run |-> snapshot', last |-> 0, complete |-> FALSE]
            BY <1>5 DEF Start
        <2>2. \A k \in Keys : ~(k <= 0)
            BY MigrationAssumption
        <2>3. RunnerTypes'
            <3>1. /\ progress'.last = 0 /\ progress'.complete = FALSE
                  /\ progress'.last \in Nat /\ cursor' \in Nat
                BY <1>5, <2>1
            <3>2. progress' = [run |-> snapshot', last |-> progress'.last,
                               complete |-> progress'.complete]
                BY <2>1, <3>1, Zenon
            <3> QED BY <1>1, <1>2, <1>5, <3>1, <3>2 DEF MigrationInv, RunnerTypes, Copying
        <2>4. ReconcileInv'
            BY <1>5, <2>2 DEF ReconcileInv
        <2> QED BY <1>3, <1>5, <2>3, <2>4
            DEF MigrationInv, BatchInv, CopyInv, Copying, RefusedOnlyIfChanged
    <1> QED BY <1>4, <1>5 DEF Open, Refuse

(* A round of reconcile(): what it compares is equal up to the new cursor, and
   a destination without an excuse passes. *)
LEMMA ReconcileKeeps ==
    ASSUME MigrationInv, Reconcile
    PROVE  MigrationInv'
    <1> DEFINE expected == ReadBatch(snapshot, cursor)
               actual == ReadBatch(Documents(dest), cursor)
               prefix == \A k \in actual.keys :
                            /\ k \in expected.keys /\ Documents(dest)[k] = snapshot[k]
                            /\ \A j \in expected.keys : j < k => j \in actual.keys
    <1>1. /\ pc = "reconcile" /\ cursor \in Nat /\ IsDocuments(snapshot)
          /\ \A k \in Keys : k <= cursor => Documents(dest)[k] = snapshot[k]
          /\ UNCHANGED <<direction, source, dest, recorded, snapshot, memory, runs, excused>>
        BY DEF Reconcile, MigrationInv, ReconcileInv, RunnerTypes
    <1>2. Destination = Documents(dest)
        BY <1>1, DestinationOnDisk DEF MigrationInv
    <1>3. \/ /\ ~prefix \/ (~actual.complete /\ (actual.keys = {} \/ expected.complete))
             /\ Refuse
          \/ /\ prefix
             /\ cursor' = actual.next
             /\ progress' = [progress EXCEPT !.last = actual.next,
                                             !.complete = actual.complete /\ expected.complete
                                                            /\ actual.keys = expected.keys]
             /\ pc' = IF actual.complete THEN "copy" ELSE "reconcile"
             /\ UNCHANGED <<batch, pending>>
        BY <1>2 DEF Reconcile
    <1>4. ASSUME ~excused
          PROVE  prefix /\ (actual.complete \/ (actual.keys # {} /\ ~expected.complete))
        <2>1. /\ \A k \in Keys : Documents(dest)[k] # None => Documents(dest)[k] = snapshot[k]
              /\ \A j, k \in Keys : j < k /\ Documents(dest)[k] # None => Documents(dest)[j] = snapshot[j]
            BY <1>1, <1>4 DEF MigrationInv, PrefixInv
        <2> QED BY <1>1, <2>1, PrefixBatch
    <1>a. /\ actual.keys \subseteq Rest(Documents(dest), cursor)
          /\ actual.complete = (actual.keys = Rest(Documents(dest), cursor))
          /\ actual.keys = {} => Rest(Documents(dest), cursor) = {} /\ actual.next = cursor
          /\ \A j \in Rest(Documents(dest), cursor), k \in actual.keys : j <= k => j \in actual.keys
          /\ actual.next \in Nat /\ cursor <= actual.next /\ \A k \in actual.keys : k <= actual.next
          /\ actual.keys # {} => actual.next \in actual.keys
        BY <1>1, BatchFacts
    <1>e. /\ expected.keys \subseteq Rest(snapshot, cursor)
          /\ expected.complete = (expected.keys = Rest(snapshot, cursor))
          /\ \A j \in Rest(snapshot, cursor), k \in expected.keys : j <= k => j \in expected.keys
        BY <1>1, BatchFacts
    <1> HIDE DEF actual, expected
    <1>5. CASE Refuse
        <2>1. CASE excused
            BY <1>1, <1>5, <2>1, RefuseKeeps
        <2>2. CASE ~excused
            <3>1. pc' = "refused"
                BY <1>5 DEF Refuse
            <3>2. pc' # "refused"
                BY <1>3, <1>4, <2>2
            <3> QED BY <3>1, <3>2
        <2> QED BY <2>1, <2>2
    <1>6. CASE /\ prefix
               /\ cursor' = actual.next
               /\ progress' = [progress EXCEPT !.last = actual.next,
                                               !.complete = actual.complete /\ expected.complete
                                                              /\ actual.keys = expected.keys]
               /\ pc' = IF actual.complete THEN "copy" ELSE "reconcile"
               /\ UNCHANGED <<batch, pending>>
        <2>1. ASSUME NEW k \in Keys, k <= actual.next
              PROVE  Documents(dest)[k] = snapshot[k]
            <3>1. k \in Nat
                BY MigrationAssumption
            <3>2. CASE k <= cursor
                BY <1>1, <3>2
            <3>3. CASE k > cursor /\ k \in actual.keys
                BY <1>6, <3>3
            <3>4. CASE k > cursor /\ k \notin actual.keys
                <4>1. actual.next \in actual.keys
                    BY <1>1, <1>a, <2>1, <3>1, <3>4
                <4>2. Documents(dest)[k] = None
                    BY <1>a, <2>1, <3>4, <4>1 DEF Rest
                <4>3. actual.next \in expected.keys /\ \A j \in expected.keys : j < actual.next => j \in actual.keys
                    BY <1>6, <4>1
                <4>4. k < actual.next
                    BY <1>a, <2>1, <3>1, <3>4, <4>1
                <4>5. snapshot[k] = None
                    BY <1>e, <2>1, <3>4, <4>3, <4>4 DEF Rest
                <4> QED BY <4>2, <4>5
            <3> QED BY <1>1, <3>1, <3>2, <3>3, <3>4
        <2>2. /\ progress' = [run |-> snapshot, last |-> progress'.last, complete |-> progress'.complete]
              /\ progress'.last = actual.next
              /\ progress'.complete => expected.complete /\ actual.keys = expected.keys
            <3>1. progress = [run |-> snapshot, last |-> progress.last, complete |-> progress.complete]
                BY <1>1 DEF MigrationInv, RunnerTypes
            <3> DEFINE done == actual.complete /\ expected.complete /\ actual.keys = expected.keys
            <3>a. progress' = [progress EXCEPT !.last = actual.next, !.complete = done]
                BY <1>6, Zenon
            <3> HIDE DEF done
            <3>2. progress' = [run |-> snapshot, last |-> actual.next, complete |-> done]
                <4>1. PICK l, c : progress = [run |-> snapshot, last |-> l, complete |-> c]
                    BY <3>1, Zenon
                <4> QED BY <3>a, <4>1
            <3>3. progress'.complete = done
                BY <3>2
            <3> QED BY <3>2, <3>3 DEF done
        <2>3. ASSUME actual.complete, NEW k \in Keys, k > actual.next
              PROVE  /\ Documents(dest)[k] = None
                     /\ progress'.complete => snapshot[k] = None
            <3>1. k \in Nat /\ k > cursor /\ k \notin actual.keys
                BY <1>1, <1>a, <2>3, MigrationAssumption
            <3> QED BY <1>a, <1>e, <2>2, <2>3, <3>1 DEF Rest
        <2>4. /\ truth' = truth /\ dest' = dest /\ recorded' = recorded /\ snapshot' = snapshot
              /\ memory' = memory /\ runs' = runs /\ excused' = excused /\ ToPostgres' = ToPostgres
            BY <1>1 DEF source, ToPostgres
        <2>5. pc' \in {"copy", "reconcile"} /\ (pc' = "copy" => actual.complete)
            BY <1>6
        <2>6. RunnerTypes'
            BY <1>1, <1>6, <1>a, <2>2, <2>4, <2>5 DEF MigrationInv, RunnerTypes, Copying
        <2>7. CopyInv'
            <3>1. ASSUME NEW k \in Keys, pc' = "copy"
                  PROVE  /\ Documents(dest)[k] = IF Written(k)' THEN snapshot[k] ELSE None
                         /\ progress'.complete /\ k > progress'.last => snapshot[k] = None
                <4>1. k \in Nat /\ (Written(k)' <=> k <= actual.next)
                    BY <2>2, <3>1, MigrationAssumption DEF Written
                <4>2. CASE k <= actual.next
                    BY <1>a, <2>1, <2>2, <4>1, <4>2
                <4>3. CASE k > actual.next
                    BY <1>a, <2>2, <2>3, <2>5, <3>1, <4>1, <4>3
                <4> QED BY <1>a, <4>1, <4>2, <4>3
            <3> QED BY <2>4, <2>5, <3>1 DEF CopyInv, Copying
        <2>8. PrefixInv' /\ ProgressBehindData'
            BY <1>1, <2>4, <2>5 DEF MigrationInv, PrefixInv, ProgressBehindData
        <2>9. ReconcileInv'
            BY <1>6, <2>1, <2>4 DEF ReconcileInv
        <2> QED BY <2>5, <2>6, <2>7, <2>8, <2>9 DEF MigrationInv, BatchInv, RefusedOnlyIfChanged
    <1> QED BY <1>3, <1>5, <1>6

(* The next batch is all pending. *)
LEMMA NextBatchKeeps ==
    ASSUME MigrationInv, NextBatch
    PROVE  MigrationInv'
    <1>1. /\ pc = "copy" /\ pc' = "write" /\ Copying /\ Copying' /\ ~progress.complete
          /\ batch' = ReadBatch(snapshot, progress.last) /\ pending' = batch'.keys
          /\ truth' = truth /\ dest' = dest /\ recorded' = recorded /\ snapshot' = snapshot
          /\ memory' = memory /\ cursor' = cursor /\ progress' = progress
          /\ runs' = runs /\ excused' = excused /\ ToPostgres' = ToPostgres
        BY DEF NextBatch, Copying, source, ToPostgres
    <1>2. RunnerTypes'
        BY <1>1 DEF MigrationInv, RunnerTypes
    <1>3. BatchInv'
        BY <1>1 DEF BatchInv
    <1>4. CopyInv'
        <2>1. \A k \in Keys : Written(k)' <=> Written(k)
            BY <1>1 DEF Written
        <2> QED BY <1>1, <2>1 DEF MigrationInv, CopyInv
    <1>5. PrefixInv' /\ ProgressBehindData'
        BY <1>1 DEF MigrationInv, PrefixInv, ProgressBehindData
    <1> QED BY <1>1, <1>2, <1>3, <1>4, <1>5 DEF MigrationInv, ReconcileInv, RefusedOnlyIfChanged

(* activate() of one document: it refuses only what a used destination had. *)
LEMMA ActivateKeeps ==
    ASSUME MigrationInv, Activate
    PROVE  MigrationInv'
    <1> DEFINE k == Min(pending)
    <1>1. /\ ToPostgres /\ pc = "write" /\ pending # {} /\ Copying
          /\ UNCHANGED <<direction, source, recorded, snapshot, memory, runs, excused>>
        BY DEF Activate, Copying
    <1>2. /\ dest \in [Keys -> Rows] /\ IsDocuments(snapshot) /\ progress.last \in Nat
          /\ batch = ReadBatch(snapshot, progress.last) /\ pending \subseteq batch.keys
        BY <1>1 DEF MigrationInv, RunnerTypes, BatchInv
    <1>3. batch.keys \subseteq Rest(snapshot, progress.last)
        BY <1>2, BatchFacts
    <1>4. \A j \in pending : j \in Keys /\ j > progress.last /\ snapshot[j] # None
        BY <1>2, <1>3 DEF Rest
    <1>5. k \in pending /\ \A j \in pending : k <= j
        <2>1. pending \in SUBSET Nat
            BY <1>4, MigrationAssumption
        <2> QED BY <1>1, <2>1, MinFacts
    <1>6. k \in Keys /\ snapshot[k] # None /\ snapshot[k] \in Rows /\ snapshot[k].rev > 0
        BY <1>2, <1>4, <1>5 DEF IsDocuments
    <1>7. \/ /\ dest[k].rev >= snapshot[k].rev /\ dest[k] # snapshot[k]
             /\ Refuse /\ dest' = dest
          \/ /\ dest' = [dest EXCEPT ![k] = snapshot[k]] /\ pending' = pending \ {k}
             /\ UNCHANGED <<pc, cursor, progress, batch>>
        BY DEF Activate
    <1> HIDE DEF k
    <1>8. CASE /\ dest[k].rev >= snapshot[k].rev /\ dest[k] # snapshot[k]
               /\ Refuse /\ dest' = dest
        <2>1. ASSUME ~excused PROVE FALSE
            <3>1. Documents(dest)[k] = None /\ dest = Documents(dest)
                <4>1. k \in Nat /\ k > progress.last
                    BY <1>4, <1>5, <1>6, MigrationAssumption
                <4>2. ~Written(k)
                    BY <1>2, <1>5, <4>1 DEF Written
                <4> QED BY <1>1, <1>6, <2>1, <4>2 DEF MigrationInv, CopyInv, PrefixInv
            <3>2. dest[k].rev = 0
                BY <3>1 DEF None
            <3>3. snapshot[k].rev \in Nat
                BY <1>6 DEF Rows
            <3> QED BY <1>6, <1>8, <3>2, <3>3
        <2> QED BY <1>1, <1>8, <2>1, RefuseKeeps
    <1>9. CASE /\ dest' = [dest EXCEPT ![k] = snapshot[k]] /\ pending' = pending \ {k}
               /\ UNCHANGED <<pc, cursor, progress, batch>>
        <2>1. /\ dest' \in [Keys -> Rows]
              /\ \A j \in Keys : dest'[j] = IF j \in {k} THEN snapshot[j] ELSE dest[j]
            BY <1>2, <1>6, <1>9
        <2>2. \A j \in {k}, i \in pending \ {k} : j < i
            BY <1>4, <1>5, <1>6, MigrationAssumption
        <2>3. WritesOnly({k})
            BY <1>1, <1>5, <1>9, <2>1, <2>2 DEF WritesOnly
        <2> QED BY <2>3, WriteKeeps
    <1> QED BY <1>7, <1>8, <1>9

(* The checkpoint of an embedded destination: a pending document is never
   there already, since reconcile() found none behind its cursor. *)
LEMMA SaveCheckpointKeeps ==
    ASSUME MigrationInv, SaveCheckpoint
    PROVE  MigrationInv'
    <1>1. /\ ~ToPostgres /\ pc = "write" /\ Copying
          /\ UNCHANGED <<direction, source, recorded, snapshot, runs, excused>>
        BY DEF SaveCheckpoint, Copying
    <1>2. /\ IsDocuments(dest) /\ memory = dest /\ IsDocuments(snapshot) /\ progress.last \in Nat
          /\ batch = ReadBatch(snapshot, progress.last) /\ pending \subseteq batch.keys
        BY <1>1 DEF MigrationInv, RunnerTypes, BatchInv
    <1>3. batch.keys \subseteq Rest(snapshot, progress.last)
        BY <1>2, BatchFacts
    <1>4. ASSUME NEW k \in pending PROVE memory[k] = None
        <2>1. k \in Keys /\ k \in Nat /\ k > progress.last
            BY <1>2, <1>3, MigrationAssumption DEF Rest
        <2>2. ~Written(k)
            BY <1>2, <1>4, <2>1 DEF Written
        <2>3. Documents(dest)[k] = None
            BY <1>1, <2>1, <2>2 DEF MigrationInv, CopyInv
        <2> QED BY <1>2, <2>3, DocumentsOf
    <1>5. /\ memory' = [k \in Keys |-> IF k \in pending THEN snapshot[k] ELSE memory[k]]
          /\ dest' = memory' /\ pending' = {}
          /\ UNCHANGED <<pc, cursor, progress, batch>>
        BY <1>4 DEF SaveCheckpoint, SavedDocuments
    <1>6. /\ dest' \in [Keys -> Rows]
          /\ \A k \in Keys : dest'[k] = IF k \in pending THEN snapshot[k] ELSE dest[k]
        BY <1>2, <1>5 DEF IsDocuments
    <1>7. WritesOnly(pending)
        BY <1>1, <1>5, <1>6 DEF WritesOnly
    <1> QED BY <1>7, WriteKeeps

(* save_progress(): what it records is on disk. *)
LEMMA SaveProgressKeeps ==
    ASSUME MigrationInv, SaveProgress
    PROVE  MigrationInv'
    <1>1. /\ pc = "write" /\ pc' = "copy" /\ Copying /\ Copying' /\ pending = {}
          /\ recorded' = Copied /\ progress' = Copied
          /\ truth' = truth /\ dest' = dest /\ snapshot' = snapshot
          /\ memory' = memory /\ cursor' = cursor /\ batch' = batch /\ pending' = pending
          /\ runs' = runs /\ excused' = excused /\ ToPostgres' = ToPostgres
        BY DEF SaveProgress, Copying, source, ToPostgres
    <1>2. /\ IsDocuments(snapshot) /\ runs > 0 /\ progress.last \in Nat
          /\ progress = [run |-> snapshot, last |-> progress.last, complete |-> progress.complete]
          /\ batch = ReadBatch(snapshot, progress.last)
        BY <1>1 DEF MigrationInv, RunnerTypes, BatchInv
    <1> DEFINE rest == Rest(snapshot, progress.last)
    <1>3. /\ batch.keys \subseteq rest
          /\ \A j \in rest, k \in batch.keys : j <= k => j \in batch.keys
          /\ batch.complete = (batch.keys = rest)
          /\ batch.next \in Nat /\ progress.last <= batch.next
          /\ \A k \in batch.keys : k <= batch.next
          /\ batch.keys = {} => batch.next = progress.last
          /\ batch.keys # {} => batch.next \in batch.keys
        BY <1>2, BatchFacts
    <1>4. /\ Copied = [run |-> snapshot, last |-> batch.next, complete |-> batch.complete]
          /\ Copied.run = snapshot /\ Copied.last = batch.next /\ Copied.complete = batch.complete
        <2>1. PICK l, c : progress = [run |-> snapshot, last |-> l, complete |-> c]
            BY <1>2, Zenon
        <2>2. Copied = [run |-> snapshot, last |-> batch.next, complete |-> batch.complete]
            <3> DEFINE b == batch.complete
            <3>1. Copied = [progress EXCEPT !.last = batch.next, !.complete = b]
                BY DEF Copied
            <3> SUFFICES Copied = [run |-> snapshot, last |-> batch.next, complete |-> b]
                OBVIOUS
            <3> HIDE DEF b
            <3> QED BY <2>1, <3>1
        <2>3. Copied.run = snapshot /\ Copied.last = batch.next
            BY <2>2
        <2>4. Copied.complete = batch.complete
            BY <2>2, Zenon
        <2> QED BY <2>2, <2>3, <2>4
    <1>5. ASSUME NEW k \in Keys
          PROVE  /\ k \in Nat
                 /\ k <= batch.next => Documents(dest)[k] = snapshot[k]
                 /\ k > batch.next => Documents(dest)[k] = None
                 /\ k > batch.next /\ batch.complete => snapshot[k] = None
        <2>1. /\ k \in Nat
              /\ Documents(dest)[k] = IF Written(k) THEN snapshot[k] ELSE None
            BY <1>1, MigrationAssumption DEF MigrationInv, CopyInv
        <2>2. Written(k) <=> k <= progress.last \/ k \in batch.keys
            BY <1>1 DEF Written
        <2>3. ASSUME k <= batch.next PROVE Documents(dest)[k] = snapshot[k]
            <3>1. CASE Written(k)
                BY <2>1, <3>1
            <3>2. CASE ~Written(k) /\ snapshot[k] = None
                BY <2>1, <3>2
            <3>3. CASE ~Written(k) /\ snapshot[k] # None
                <4>1. k \in rest
                    BY <1>2, <2>1, <2>2, <3>3 DEF Rest
                <4>2. batch.next \in batch.keys
                    BY <1>2, <1>3, <2>1, <2>2, <2>3, <3>3
                <4> HIDE DEF rest
                <4>3. k \in batch.keys
                    BY <1>3, <2>3, <4>1, <4>2
                <4> QED BY <2>2, <3>3, <4>3
            <3> QED BY <3>1, <3>2, <3>3
        <2>4. ASSUME k > batch.next PROVE k \notin batch.keys /\ ~Written(k)
            <3> HIDE DEF rest
            <3> QED BY <1>2, <1>3, <2>1, <2>2, <2>4
        <2>5. ASSUME k > batch.next, batch.complete PROVE snapshot[k] = None
            <3>1. k \notin rest
                BY <1>3, <2>4, <2>5
            <3>2. k > progress.last
                BY <1>2, <1>3, <2>1, <2>5
            <3> QED BY <3>1, <3>2 DEF Rest
        <2> QED BY <2>1, <2>3, <2>4, <2>5
    <1> HIDE DEF rest
    <1>6. RunnerTypes'
        BY <1>1, <1>2, <1>3, <1>4 DEF MigrationInv, RunnerTypes
    <1>7. CopyInv'
        <2>1. ASSUME NEW k \in Keys
              PROVE  /\ Documents(dest)[k] = IF Written(k)' THEN snapshot[k] ELSE None
                     /\ progress'.complete /\ k > progress'.last => snapshot[k] = None
            <3>1. Written(k)' <=> k <= batch.next
                BY <1>1, <1>4 DEF Written
            <3>2. k <= batch.next \/ k > batch.next
                BY <1>3, <1>5
            <3>3. ~(k <= batch.next) => k > batch.next
                BY <3>2
            <3> QED BY <1>1, <1>4, <1>5, <3>1, <3>3
        <2> QED BY <1>1, <2>1 DEF CopyInv
    <1>8. PrefixInv'
        BY <1>1, <1>2, <1>4 DEF MigrationInv, PrefixInv
    <1>9. ProgressBehindData'
        <2>1. ASSUME NEW k \in 1..batch.next \cap Keys PROVE snapshot[k] = Documents(dest)[k]
            <3>1. k \in Keys /\ k <= batch.next
                BY <1>3
            <3> QED BY <1>5, <3>1
        <2>2. /\ recorded'.run = snapshot /\ recorded'.last = batch.next
              /\ dest' = dest
            BY <1>1, <1>4
        <2>3. \A k \in 1..recorded'.last \cap Keys : recorded'.run[k] = Documents(dest')[k]
            BY <2>1, <2>2
        <2>4. \A k \in 1..recorded'.last \cap Keys :
                 recorded'.run[k] = None \/ Documents(dest')[k] # None
            BY <2>3
        <2> QED BY <2>3, <2>4, Zenon DEF ProgressBehindData
    <1> QED BY <1>1, <1>6, <1>7, <1>8, <1>9
        DEF MigrationInv, ReconcileInv, BatchInv, RefusedOnlyIfChanged

(* finish(), the audit and the report: the disk holds the snapshot, so that the
   audit has nothing to find. *)
LEMMA FinishKeeps ==
    ASSUME MigrationInv, Finish \/ Verify \/ Report
    PROVE  MigrationInv'
    <1>1. /\ pc \in {"copy", "verify", "report"} /\ Copying /\ progress.complete
          /\ truth' = truth /\ dest' = dest /\ snapshot' = snapshot
          /\ memory' = memory /\ cursor' = cursor /\ progress' = progress
          /\ batch' = batch /\ pending' = pending
          /\ runs' = runs /\ excused' = excused /\ ToPostgres' = ToPostgres
        BY DEF Finish, Verify, Report, Refuse, MigrationInv, CopyInv, Copying, source, ToPostgres
    <1>2. /\ IsDocuments(snapshot) /\ runs > 0 /\ progress.last \in Nat
          /\ progress = [run |-> snapshot, last |-> progress.last, complete |-> progress.complete]
        BY <1>1 DEF MigrationInv, RunnerTypes
    <1>3. Documents(dest) = snapshot
        <2>1. ASSUME NEW k \in Keys PROVE Documents(dest)[k] = snapshot[k]
            <3>1. Documents(dest)[k] = IF k <= progress.last THEN snapshot[k] ELSE None
                BY <1>1 DEF MigrationInv, CopyInv, Written
            <3>2. k > progress.last => snapshot[k] = None
                BY <1>1 DEF MigrationInv, CopyInv
            <3>3. k <= progress.last \/ k > progress.last
                BY <1>2, MigrationAssumption
            <3> QED BY <3>1, <3>2, <3>3
        <2>2. Documents(dest) = [k \in Keys |-> Documents(dest)[k]]
            BY Zenon DEF Documents
        <2> QED BY <1>2, <2>1, <2>2 DEF IsDocuments
    <1>4. Destination = snapshot
        BY <1>1, <1>3, DestinationOnDisk DEF MigrationInv
    <1>5. /\ pc' \in {"verify", "report", "done"}
          /\ recorded' = recorded \/ (pc' = "verify" /\ recorded' = progress)
        BY <1>4 DEF Finish, Verify, Report
    <1>6. RunnerTypes'
        BY <1>1, <1>2, <1>5 DEF MigrationInv, RunnerTypes, Copying
    <1>7. CopyInv'
        <2>1. \A k \in Keys : Written(k)' <=> Written(k)
            BY <1>1, <1>5 DEF Written
        <2> QED BY <1>1, <1>5, <2>1 DEF MigrationInv, CopyInv
    <1>8. PrefixInv'
        BY <1>1, <1>2, <1>5 DEF MigrationInv, PrefixInv
    <1>9. ProgressBehindData'
        <2>1. CASE recorded' = recorded
            BY <1>1, <2>1 DEF MigrationInv, ProgressBehindData
        <2>2. CASE recorded' = progress
            <3>1. recorded'.run = snapshot
                BY <1>2, <2>2
            <3> QED BY <1>1, <1>3, <3>1 DEF ProgressBehindData
        <2> QED BY <1>5, <2>1, <2>2
    <1> QED BY <1>1, <1>3, <1>5, <1>6, <1>7, <1>8, <1>9
        DEF MigrationInv, ReconcileInv, BatchInv, RefusedOnlyIfChanged

(* The command ends or dies: only the disk is left. *)
LEMMA EndsKeeps ==
    ASSUME MigrationInv, Ends
    PROVE  MigrationInv'
    <1>1. /\ pc' = "idle" /\ cursor' = 0 /\ truth' = truth /\ dest' = dest /\ recorded' = recorded
          /\ runs' = runs /\ excused' = excused /\ ToPostgres' = ToPostgres
        BY DEF Ends, source, ToPostgres
    <1> QED BY <1>1 DEF MigrationInv, RunnerTypes, ReconcileInv, BatchInv, CopyInv, PrefixInv,
                        Copying, ProgressBehindData, RefusedOnlyIfChanged

(* A change of the source is an excuse for every run that has started; before
   the first one the destination is empty or has an excuse. *)
LEMMA SourceMoves ==
    ASSUME MigrationInv,
           \/ \E k \in Keys, v \in {New, Gone} : SourceChanges(k, v)
           \/ SourceCheckpoints
    PROVE  MigrationInv'
    <1>1. /\ dest' = dest /\ recorded' = recorded /\ snapshot' = snapshot
          /\ memory' = memory /\ cursor' = cursor /\ progress' = progress
          /\ batch' = batch /\ pending' = pending /\ pc' = pc
          /\ runs' = runs /\ ToPostgres' = ToPostgres
          /\ \/ truth' = truth /\ excused' = excused
             \/ excused' = (excused \/ runs > 0)
        BY DEF SourceChanges, SourceCheckpoints, runner, ToPostgres
    <1>2. /\ RunnerTypes' /\ ReconcileInv' /\ BatchInv'
          /\ pc \in {"report", "done"} => Documents(dest) = snapshot
        BY <1>1 DEF MigrationInv, RunnerTypes, ReconcileInv, BatchInv, Copying
    <1>3. CopyInv'
        <2>1. \A k \in Keys : Written(k)' <=> Written(k)
            BY <1>1 DEF Written
        <2> QED BY <1>1, <2>1 DEF MigrationInv, CopyInv, Copying
    <1>4. excused => excused'
        BY <1>1
    <1>5. PrefixInv'
        <2>1. CASE truth' = truth /\ excused' = excused
            BY <1>1, <2>1 DEF MigrationInv, PrefixInv
        <2>2. CASE excused' = (excused \/ runs > 0)
            <3> SUFFICES ASSUME ~excused, ~(runs > 0) PROVE PrefixInv'
                BY <2>2 DEF PrefixInv
            <3>1. runs = 0 /\ pc = "idle" /\ recorded = NoProgress
                BY DEF MigrationInv, RunnerTypes
            <3>2. dest = Nothing /\ dest = Documents(dest)
                BY <3>1 DEF MigrationInv, PrefixInv
            <3>3. \A k \in Keys : dest[k] = None
                BY <3>2 DEF Nothing
            <3> QED BY <1>1, <3>1, <3>2, <3>3 DEF PrefixInv
        <2> QED BY <1>1, <2>1, <2>2
    <1>6. ProgressBehindData' /\ RefusedOnlyIfChanged'
        BY <1>1, <1>4 DEF MigrationInv, ProgressBehindData, RefusedOnlyIfChanged
    <1> QED BY <1>1, <1>2, <1>3, <1>5, <1>6 DEF MigrationInv

(* No command has run, and a used destination is an excuse. *)
LEMMA MigrationInitial == Init => MigrationInv
    <1> SUFFICES ASSUME Init PROVE MigrationInv
        OBVIOUS
    <1>1. /\ pc = "idle" /\ cursor = 0 /\ runs = 0 /\ recorded = NoProgress
          /\ excused = (dest # Nothing)
        BY DEF Init
    <1>0. excused \/ dest = Nothing
        BY <1>1, Zenon
    <1>2. PICK rows \in {Nothing} \cup {[Nothing EXCEPT ![k] = row] : k \in Keys,
                           row \in {[rev |-> 1, val |-> New], [rev |-> 2, val |-> Gone]}} :
             dest = IF ToPostgres THEN rows ELSE Documents(rows)
        BY DEF Init
    <1>3. /\ None \in Rows /\ None.rev = 0 /\ None.val = Gone
          /\ [rev |-> 1, val |-> New] \in Rows /\ [rev |-> 2, val |-> Gone] \in Rows
          /\ Nothing \in [Keys -> Rows] /\ \A k \in Keys : Nothing[k] = None
        BY DEF None, Rows, Nothing
    <1>4. rows \in [Keys -> Rows] /\ \A j \in Keys : rows[j].rev = 0 => rows[j] = None
        <2>1. CASE rows = Nothing
            BY <1>3, <2>1
        <2>2. ASSUME NEW k \in Keys, NEW row \in {[rev |-> 1, val |-> New], [rev |-> 2, val |-> Gone]},
                     rows = [Nothing EXCEPT ![k] = row]
              PROVE  rows \in [Keys -> Rows] /\ \A j \in Keys : rows[j].rev = 0 => rows[j] = None
            <3>1. row \in Rows /\ row.rev # 0
                BY <1>3
            <3> HIDE DEF Nothing
            <3>2. rows[k] = row /\ \A j \in Keys : j # k => rows[j] = None
                BY <1>3, <2>2
            <3> QED BY <1>3, <2>2, <3>1, <3>2
        <2> QED BY <2>1, <2>2
    <1>5. IsDocuments(Documents(rows))
        BY <1>4, DocumentsFacts
    <1>6. dest \in [Keys -> Rows] /\ (~ToPostgres => IsDocuments(dest))
        BY <1>2, <1>4, <1>5 DEF IsDocuments
    <1>7. RunnerTypes
        BY <1>1, <1>6 DEF RunnerTypes, Copying
    <1>8. IsDocuments(Nothing) /\ Documents(Nothing) = Nothing
        <2>1. IsDocuments(Nothing)
            BY <1>3 DEF IsDocuments
        <2> QED BY <2>1, DocumentsOf
    <1>9. PrefixInv
        <2>1. excused \/ dest = Nothing
            BY <1>0
        <2>2. CASE excused
            BY <2>2 DEF PrefixInv
        <2>3. CASE dest = Nothing
            BY <1>1, <1>3, <1>8, <2>3 DEF PrefixInv
        <2> QED BY <2>1, <2>2, <2>3
    <1> QED BY <1>1, <1>7, <1>9 DEF MigrationInv, ReconcileInv, BatchInv, CopyInv, Copying,
                                    ProgressBehindData, RefusedOnlyIfChanged

(* Every step keeps the invariant. *)
LEMMA MigrationNext ==
    ASSUME SourceInv, MigrationInv, [Next]_vars
    PROVE  MigrationInv'
    <1>1. CASE UNCHANGED vars
        BY <1>1 DEF vars, runner, source, MigrationInv, RunnerTypes, ReconcileInv, BatchInv, CopyInv,
                    Written, PrefixInv, Copying, ProgressBehindData, RefusedOnlyIfChanged, ToPostgres
    <1>2. CASE Run
        BY <1>2, ReconcileKeeps, NextBatchKeeps, ActivateKeeps, SaveCheckpointKeeps,
           SaveProgressKeeps, FinishKeeps DEF Run
    <1> QED BY <1>1, <1>2, SourceMoves, OpenKeeps, EndsKeeps DEF Next
-----------------------------------------------------------------------------
(* Theorems                                                                *)

(* A run can be resumed after a death at any step: the progress it finds on
   disk is behind the data, and migrate() refuses to go on only if the source
   has changed or the destination was used before. *)
THEOREM RunsResume == Spec => []ResumeInv
    <1>1. Init => SourceInv /\ MigrationInv
        BY SourceInitial, MigrationInitial
    <1>2. SourceInv /\ MigrationInv /\ [Next]_vars => (SourceInv /\ MigrationInv)'
        BY SourceNext, MigrationNext
    <1>3. MigrationInv => ResumeInv
        BY DEF MigrationInv, ResumeInv
    <1> QED BY <1>1, <1>2, <1>3, PTL DEF Spec

(* A complete report is true of the disk, in both directions: the destination
   holds the documents of the snapshot and no others when write_report() runs. *)
THEOREM ReportsAreTrue == Spec => ReportIsTrue
    <1>1. Init => SourceInv /\ MigrationInv
        BY SourceInitial, MigrationInitial
    <1>2. SourceInv /\ MigrationInv /\ [Next]_vars => (SourceInv /\ MigrationInv)'
        BY SourceNext, MigrationNext
    <1>3. MigrationInv /\ [Next]_vars => [pc' = "done" => Documents(dest') = snapshot]_vars
        <2> SUFFICES ASSUME MigrationInv, Next, pc' = "done"
                     PROVE  Documents(dest') = snapshot
            OBVIOUS
        <2>1. pc \in {"report", "done"} /\ dest' = dest
            <3>1. CASE \/ \E k \in Keys, v \in {New, Gone} : SourceChanges(k, v)
                       \/ SourceCheckpoints
                BY <3>1 DEF SourceChanges, SourceCheckpoints, runner
            <3>2. CASE Open \/ Ends
                BY <3>2 DEF Open, Refuse, Ends
            <3>3. CASE Reconcile \/ NextBatch
                BY <3>3 DEF Reconcile, NextBatch, Refuse
            <3>4. CASE Activate \/ SaveCheckpoint \/ SaveProgress
                BY <3>4 DEF Activate, SaveCheckpoint, SaveProgress, Refuse
            <3>5. CASE Finish \/ Verify \/ Report
                BY <3>5 DEF Finish, Verify, Report, Refuse
            <3> QED BY <3>1, <3>2, <3>3, <3>4, <3>5 DEF Next, Run
        <2> QED BY <2>1 DEF MigrationInv
    <1> QED BY <1>1, <1>2, <1>3, PTL DEF Spec, ReportIsTrue
=============================================================================
