------------------------------- MODULE JobLog -------------------------------
(***************************************************************************)
(* AppendOnlyJobStore: the job log as the words of a file.  A frame is a   *)
(* magic word, a length word, a checksum word and the words of the body.   *)
(* persist() appends a frame word by word and syncs it, so a failed write  *)
(* or a crash leaves any part of it behind; open() repairs a torn tail;    *)
(* truncate_prefix() replaces a prefix by the latest records of its jobs.  *)
(*                                                                         *)
(* Words stand for the 4-byte fields of the header and for pieces of the   *)
(* payload.  mutex_ is held from the first word of persist() to its end.   *)
(***************************************************************************)
EXTENDS Naturals, Sequences, FiniteSets

CONSTANTS
    MaxJobs,          \* bound: jobs 1..MaxJobs, numbered as they are created
    Sizes,            \* body sizes, in words
    MaxTerminalJobs,  \* JobRetentionPolicy::max_terminal_jobs
    MaxTerminalWords, \* JobRetentionPolicy::max_terminal_bytes
    NoRecord,         \* nothing is being written
    NoPosition,       \* no checkpoint is under way
    MaxAppends,       \* bound: calls of persist()
    MaxTornWrites,    \* bound: writes that fail before the frame is complete
    MaxSyncFaults,    \* bound: failed fsync calls
    MaxCrashes        \* bound: crashes

ASSUME JobLogConstants ==
    /\ MaxJobs \in Nat /\ MaxAppends \in Nat
    /\ Sizes \subseteq Nat \ {0}
    /\ MaxTerminalJobs \in Nat /\ MaxTerminalWords \in Nat
    /\ MaxTornWrites \in Nat /\ MaxSyncFaults \in Nat /\ MaxCrashes \in Nat
    /\ NoPosition \notin Nat

(* One persisted state of a job; seq orders the persist() calls, and with  *)
(* them updated_at_ms.                                                     *)
Record == [job : 1..MaxJobs, seq : 1..MaxAppends, terminal : BOOLEAN,
           size : Sizes]

ASSUME NoRecordAssumption == NoRecord \notin Record

-----------------------------------------------------------------------------
(* Frames                                                                  *)

Magic == [kind |-> "magic", rec |-> NoRecord, n |-> 0]
LengthWord(size) == [kind |-> "length", rec |-> NoRecord, n |-> size]
Checksum(r) == [kind |-> "checksum", rec |-> r, n |-> 0]
Body(r, i) == [kind |-> "body", rec |-> r, n |-> i]

HeaderWords == 3

Frame(r) ==
    <<Magic, LengthWord(r.size), Checksum(r)>> \o [i \in 1..r.size |-> Body(r, i)]

FrameLen(r) == HeaderWords + r.size

(* The header at offset p is readable: the magic word, and a length within *)
(* the limit.  The magic word of a later frame, read as a length, is not.  *)
HeaderValid(blob, p) ==
    blob[p + 1] = Magic /\ blob[p + 2].kind = "length"

(* The payload has the checksum of the header.                             *)
PayloadIntact(blob, p) ==
    /\ blob[p + 3].kind = "checksum"
    /\ LET r == blob[p + 3].rec IN
       SubSeq(blob, p + HeaderWords + 1, p + HeaderWords + blob[p + 2].n)
            = [i \in 1..r.size |-> Body(r, i)]

(* What a scan finds: it stops at offset n, or the log is corrupt.         *)
Stop(n) == [ok |-> TRUE, n |-> n, records |-> <<>>]
Corrupt == [ok |-> FALSE, n |-> 0, records |-> <<>>]
Found(r, rest) == [rest EXCEPT !.records = <<r>> \o @]

(* valid_prefix(), whose loop latest_jobs() repeats: the length of the     *)
(* intact prefix and the records in it, or corrupt_index.                  *)
ValidPrefix(blob) ==
    LET from[p \in 0..Len(blob)] ==
          IF p + HeaderWords > Len(blob) THEN Stop(p)
          ELSE IF ~HeaderValid(blob, p) THEN Corrupt
          ELSE LET end == p + HeaderWords + blob[p + 2].n IN
               IF end > Len(blob) THEN Stop(p)
               ELSE IF PayloadIntact(blob, p)
               THEN Found(blob[p + 3].rec, from[end])
               ELSE IF end = Len(blob) THEN Stop(p) ELSE Corrupt
    IN from[0]

Intact(blob) == SubSeq(blob, 1, ValidPrefix(blob).n)

(* What latest_jobs() decodes.                                             *)
Readable(blob) ==
    LET found == ValidPrefix(blob) IN IF found.ok THEN found.records ELSE <<>>

-----------------------------------------------------------------------------
VARIABLES
    file,        \* the words of the log file
    synced,      \* how many of them are on the device
    fd,          \* fd_ >= 0
    bytes,       \* bytes_
    writing,     \* the record persist() is appending, or NoRecord
    offset,      \* words of its frame written so far
    position,    \* a represented_position read by checkpoint_embedded()
    covers,      \* history: records in the log when it was read
    refused,     \* open() failed with corrupt_index
    acked,       \* history: records persist() acknowledged or open() read
    represented, \* history: records a truncation was entitled to drop
    appends, torn, syncFaults, crashes

process == <<fd, bytes, writing, offset, position, covers, refused>>
counters == <<appends, torn, syncFaults, crashes>>
vars == <<file, synced, process, acked, represented, counters>>

RangeOf(s) == {s[i] : i \in DOMAIN s}

Init ==
    /\ file = <<>> /\ synced = 0
    /\ fd = FALSE /\ bytes = 0
    /\ writing = NoRecord /\ offset = 0
    /\ position = NoPosition /\ covers = {}
    /\ refused = FALSE
    /\ acked = {} /\ represented = {}
    /\ appends = 0 /\ torn = 0 /\ syncFaults = 0 /\ crashes = 0

Idle == fd /\ writing = NoRecord

(* Mutant: the torn tail stays in the file.                                *)
OpenUnrepaired ==
    /\ ~fd /\ ~refused
    /\ ValidPrefix(file).ok
    /\ synced' = Len(file)
    /\ bytes' = Len(file)
    /\ fd' = TRUE
    /\ acked' = acked \cup RangeOf(Readable(file))
    /\ UNCHANGED <<file, writing, offset, position, covers, refused,
                   represented, counters>>

(* open_file(): cut the torn tail, sync, start counting from there.  What  *)
(* load_latest() then returns is known to the coordinator, acknowledged    *)
(* before the crash or not.                                                *)
Open ==
    /\ ~fd /\ ~refused
    /\ ValidPrefix(file).ok
    /\ file' = Intact(file)
    /\ synced' = Len(file')
    /\ bytes' = Len(file')
    /\ fd' = TRUE
    /\ acked' = acked \cup RangeOf(Readable(file))
    /\ UNCHANGED <<writing, offset, position, covers, refused, represented,
                   counters>>

OpenRefused ==
    /\ ~fd /\ ~refused
    /\ ~ValidPrefix(file).ok
    /\ refused' = TRUE
    /\ UNCHANGED <<file, synced, fd, bytes, writing, offset, position, covers,
                   acked, represented, counters>>

(* The jobs a caller persists: the ones it knows to be unfinished, and the *)
(* next new one.                                                           *)
Finished(j) == \E r \in acked : r.job = j /\ r.terminal
Created(j) == \E r \in acked : r.job = j
Persistable(j) ==
    ~Finished(j) /\ \A earlier \in 1..j-1 : Created(earlier)

BeginPersist(r) ==
    /\ Idle
    /\ appends < MaxAppends
    /\ r.seq = appends + 1
    /\ Persistable(r.job)
    /\ writing' = r
    /\ offset' = 0
    /\ appends' = appends + 1
    /\ UNCHANGED <<file, synced, fd, bytes, position, covers, refused, acked,
                   represented, torn, syncFaults, crashes>>

(* The loop around write(): any number of words goes out per call.         *)
WriteWord ==
    /\ writing # NoRecord
    /\ offset < FrameLen(writing)
    /\ file' = Append(file, Frame(writing)[offset + 1])
    /\ offset' = offset + 1
    /\ UNCHANGED <<synced, fd, bytes, writing, position, covers, refused, acked,
                   represented, counters>>

EndPersist == writing' = NoRecord /\ offset' = 0

(* write() fails: persist() reports it and leaves the words where they are.*)
WriteFails ==
    /\ writing # NoRecord
    /\ offset < FrameLen(writing)
    /\ torn < MaxTornWrites
    /\ torn' = torn + 1
    /\ EndPersist
    /\ UNCHANGED <<file, synced, fd, bytes, position, covers, refused, acked,
                   represented, appends, syncFaults, crashes>>

SyncSucceeds ==
    /\ writing # NoRecord
    /\ offset = FrameLen(writing)
    /\ synced' = Len(file)
    /\ bytes' = bytes + FrameLen(writing)
    /\ acked' = acked \cup {writing}
    /\ EndPersist
    /\ UNCHANGED <<file, fd, position, covers, refused, represented, counters>>

(* fsync() fails: persist() reports it, bytes_ does not count the frame.   *)
SyncFails ==
    /\ writing # NoRecord
    /\ offset = FrameLen(writing)
    /\ syncFaults < MaxSyncFaults
    /\ syncFaults' = syncFaults + 1
    /\ EndPersist
    /\ UNCHANGED <<file, synced, fd, bytes, position, covers, refused, acked,
                   represented, appends, torn, crashes>>

-----------------------------------------------------------------------------
(* checkpoint_embedded() and truncate_prefix()                             *)

(* Mutant: the size of the file is taken while a frame is being written.   *)
ReadPositionUnlocked ==
    /\ fd
    /\ position = NoPosition
    /\ position' = Len(file)
    /\ covers' = RangeOf(Readable(file))
    /\ UNCHANGED <<file, synced, fd, bytes, writing, offset, refused, acked,
                   represented, counters>>

(* size_bytes(); a job is published before its ready record is written, so *)
(* the checkpoint captured afterwards represents every record in the log.  *)
ReadPosition ==
    /\ Idle
    /\ position = NoPosition
    /\ position' = bytes
    /\ covers' = RangeOf(Readable(file))
    /\ UNCHANGED <<file, synced, fd, bytes, writing, offset, refused, acked,
                   represented, counters>>

(* The last record of every job in a sequence of records.                  *)
Latest(recs) ==
    {recs[i] : i \in {k \in DOMAIN recs :
        \A later \in DOMAIN recs : later > k => recs[later].job # recs[k].job}}

(* terminal_jobs, newest first, as far as the retention policy allows; a   *)
(* record that does not fit is passed over.                                *)
RetainedTerminal(terminals) ==
    LET scan[age \in 0..MaxAppends] ==
          IF age = 0 THEN [kept |-> {}, words |-> 0]
          ELSE LET before == scan[age - 1]
                   next == {r \in terminals : r.seq = MaxAppends + 1 - age}
                   fits == {r \in next :
                              /\ Cardinality(before.kept) < MaxTerminalJobs
                              /\ FrameLen(r) <= MaxTerminalWords - before.words}
               IN  IF fits = {} THEN before
                   ELSE [kept |-> before.kept \cup fits,
                         words |-> before.words
                                    + FrameLen(CHOOSE r \in fits : TRUE)]
    IN scan[MaxAppends].kept

(* Mutant: the retention policy is applied to unfinished jobs too.         *)
SelectedByPolicy(recs) == RetainedTerminal(Latest(recs))

(* What is kept of a prefix: its unfinished jobs and a bounded history.    *)
Selected(recs) ==
    LET latest == Latest(recs) IN
    {r \in latest : ~r.terminal}
        \cup RetainedTerminal({r \in latest : r.terminal})

(* The frames of a set of records, one per job, in order of creation.      *)
FramesInOrder(selected) ==
    LET upTo[j \in 0..MaxJobs] ==
          IF j = 0 THEN <<>>
          ELSE LET own == {r \in selected : r.job = j} IN
               IF own = {} THEN upTo[j - 1]
               ELSE upTo[j - 1] \o Frame(CHOOSE r \in own : TRUE)
    IN upTo[MaxJobs]

IsBoundary(n) ==
    LET prefix == ValidPrefix(SubSeq(file, 1, n)) IN prefix.ok /\ prefix.n = n

Truncatable ==
    /\ ValidPrefix(file).ok
    /\ position <= ValidPrefix(file).n
    /\ IsBoundary(position)

EndTruncate == position' = NoPosition /\ covers' = {}

(* Mutant: the kept records are written after the newer frames.            *)
CompactedTailFirst ==
    SubSeq(file, position + 1, ValidPrefix(file).n)
        \o FramesInOrder(Selected(Readable(SubSeq(file, 1, position))))

(* The new file replaces the old one by rename, then fd_ is reopened.      *)
Compacted ==
    FramesInOrder(Selected(Readable(SubSeq(file, 1, position))))
        \o SubSeq(file, position + 1, ValidPrefix(file).n)

NothingToCompact == position = 0 /\ ValidPrefix(file).n = Len(file)

TruncatePrefix ==
    /\ Idle /\ position # NoPosition
    /\ Truncatable
    /\ \/ NothingToCompact /\ UNCHANGED <<file, synced, bytes, fd>>
       \/ /\ ~NothingToCompact
          /\ file' = Compacted
          /\ synced' = Len(file')
          /\ \/ fd' = TRUE /\ bytes' = Len(file')
             \/ fd' = FALSE /\ bytes' = bytes  \* the reopen fails
    /\ represented' = represented \cup {r \in covers : r.terminal}
    /\ EndTruncate
    /\ UNCHANGED <<writing, offset, refused, acked, counters>>

(* A check of truncate_prefix() fails, or the new file cannot be written:  *)
(* the log stays as it is.                                                 *)
TruncateFails ==
    /\ Idle /\ position # NoPosition
    /\ EndTruncate
    /\ UNCHANGED <<file, synced, fd, bytes, writing, offset, refused, acked,
                   represented, counters>>

(* The process dies: words that were not synced may be lost from the end.  *)
Crash(n) ==
    /\ crashes < MaxCrashes
    /\ crashes' = crashes + 1
    /\ n \in synced..Len(file)
    /\ file' = SubSeq(file, 1, n)
    /\ synced' = n
    /\ fd' = FALSE
    /\ EndPersist
    /\ EndTruncate
    /\ UNCHANGED <<bytes, refused, acked, represented, appends, torn, syncFaults>>

Next ==
    \/ Open \/ OpenRefused
    \/ \E r \in Record : BeginPersist(r)
    \/ WriteWord \/ WriteFails \/ SyncSucceeds \/ SyncFails
    \/ ReadPosition \/ TruncatePrefix \/ TruncateFails
    \/ \E n \in 0..Len(file) : Crash(n)

Spec == Init /\ [][Next]_vars

-----------------------------------------------------------------------------
(* Properties                                                              *)

(* What a crash can leave of the file.                                     *)
Survivors == {SubSeq(file, 1, n) : n \in synced..Len(file)}

(* Whatever a crash leaves of the log, open() accepts it: a torn frame is  *)
(* always the last one.                                                    *)
ReopenAccepted == \A blob \in Survivors : ValidPrefix(blob).ok

(* Every record whose persist() returned success can be read back, or a    *)
(* newer one of its job, unless the job finished and the checkpoint of a   *)
(* completed compaction represents it.                                     *)
AckedReadable ==
    \A blob \in Survivors :
        LET known == RangeOf(Readable(blob)) \cup represented IN
        \A r \in acked : \E k \in known : k.job = r.job /\ k.seq >= r.seq

(* A crash at any moment, after any failed fsync, leaves a log that open() *)
(* accepts and that holds every record persist() acknowledged.  A write    *)
(* that fails in the middle of a frame ends this promise: persist() leaves *)
(* the words in the file and the next call appends after them.             *)
LogReadable == torn = 0 => ReopenAccepted /\ AckedReadable

(* load_latest() takes the last record it finds of a job: whatever writes  *)
(* and syncs fail and wherever the log is compacted or cut, the records of *)
(* a job are found in the order in which they were persisted.              *)
LastIsNewest ==
    \A blob \in Survivors :
        LET recs == Readable(blob) IN
        \A i, j \in DOMAIN recs :
            i < j /\ recs[i].job = recs[j].job => recs[i].seq < recs[j].seq

(* A position read for a checkpoint stays usable: however many records are *)
(* appended before truncate_prefix(), it is still a frame boundary, and    *)
(* the prefix holds exactly the records the checkpoint covers, as long as  *)
(* every write and sync succeeds (bytes_ counts only what was synced).     *)
PositionUsable ==
    Idle /\ position # NoPosition /\ torn = 0 /\ syncFaults = 0 =>
        /\ Truncatable
        /\ RangeOf(Readable(SubSeq(file, 1, position))) \subseteq covers

(* The record log that the words of the file stand for.                    *)
Abstract == INSTANCE RecordLog WITH
    records <- Readable(file),
    committed <- Len(Readable(SubSeq(file, 1, synced)))

(* Until a write fails, the log of words implements the log of records:    *)
(* writing is atomic, and a crash loses only records that were never       *)
(* acknowledged.                                                           *)
ImplementsRecordLog ==
    Abstract!Init /\ [][torn' = 0 => [Abstract!Next]_<<Abstract!vars>>]_vars

=============================================================================
