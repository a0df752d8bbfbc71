----------------------------- MODULE RecordLog -----------------------------
(***************************************************************************)
(* What the ingestion coordinator relies on in the durable job log: a      *)
(* sequence of records of which a prefix is committed.  A crash may lose   *)
(* only what is not committed; compaction rewrites a prefix to one record  *)
(* per unfinished job and some of the finished ones.                       *)
(***************************************************************************)
EXTENDS Naturals, Sequences

CONSTANT Record       \* records: [job, seq, terminal, size]

VARIABLES records, committed

vars == <<records, committed>>

Init == records = <<>> /\ committed = 0

AppendRecord ==
    LET new == records' IN
    /\ UNCHANGED committed
    /\ new # <<>> /\ new[Len(new)] \in Record
    /\ records = SubSeq(new, 1, Len(new) - 1)

Commit ==
    /\ committed' = Len(records)
    /\ UNCHANGED records

(* A crash.                                                                *)
Lose ==
    /\ Len(records') \in committed..Len(records)
    /\ records' = SubSeq(records, 1, Len(records'))
    /\ committed' = Len(records')

RangeOf(s) == {s[i] : i \in DOMAIN s}

(* The last record of every job in a sequence of records.                  *)
Latest(recs) ==
    {recs[i] : i \in {k \in DOMAIN recs :
        \A later \in DOMAIN recs : later > k => recs[later].job # recs[k].job}}

(* The first p records of old become the first records of new.             *)
Compacts(old, new, p) ==
    LET kept == Len(new) - (Len(old) - p)
        latest == Latest(SubSeq(old, 1, p))
        rewritten == RangeOf(SubSeq(new, 1, kept))
    IN  /\ kept \in 0..p
        /\ SubSeq(new, kept + 1, Len(new)) = SubSeq(old, p + 1, Len(old))
        /\ rewritten \subseteq latest
        /\ {r \in latest : ~r.terminal} \subseteq rewritten

Compact ==
    LET old == records
        new == records'
    IN  /\ \E p \in 0..Len(old) : Compacts(old, new, p)
        /\ committed' = Len(new)

Next == AppendRecord \/ Commit \/ Lose \/ Compact

Spec == Init /\ [][Next]_vars

=============================================================================
