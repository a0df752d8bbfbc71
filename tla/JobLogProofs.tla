---------------------------- MODULE JobLogProofs ----------------------------
(***************************************************************************)
(* Proofs about JobLog, for any jobs and sizes of records, any retention   *)
(* policy and any number of appends, failing writes and syncs and crashes: *)
(* the log reopens with what was acknowledged, positions stay usable, the  *)
(* records of a job are found in order, and the log of words implements    *)
(* the log of records.                                                     *)
(***************************************************************************)
EXTENDS JobLog, FiniteSetTheorems, WellFoundedInduction, TLAPS

(* The words of a file. *)
Words == [kind : {"magic", "length", "checksum", "body"},
          rec : Record \cup {NoRecord}, n : Nat]

(* The frame of a record is at offset p. *)
FrameAt(blob, p, r) == \A w \in 1..FrameLen(r) : blob[p + w] = Frame(r)[w]

(* A blob begins with the frames of some records, which end at offsets. *)
Holds(blob, recs, at) ==
    /\ recs \in Seq(Record) /\ at \in [0..Len(recs) -> 0..Len(blob)] /\ at[0] = 0
    /\ \A i \in 1..Len(recs) : /\ at[i] = at[i - 1] + FrameLen(recs[i])
                               /\ FrameAt(blob, at[i - 1], recs[i])

(* A part of a frame is at offset p: it ends the blob, or another frame was
   begun behind it. *)
Partial(blob, p, r, k) ==
    /\ r \in Record /\ k \in 1..(FrameLen(r) - 1)
    /\ \A w \in 1..k : blob[p + w] = Frame(r)[w]
    /\ p + k <= Len(blob)
    /\ p + k < Len(blob) => blob[p + k + 1] = Magic

(* Nothing that can be read is at offset p. *)
Stopped(blob, p) == p = Len(blob) \/ \E r, k : Partial(blob, p, r, k)

(* ... and all of it is one torn frame at most. *)
Clean(blob, p) == p = Len(blob) \/ \E r, k : Partial(blob, p, r, k) /\ p + k = Len(blob)
-----------------------------------------------------------------------------
(* Numbers                                                                 *)

(* A set of numbers that is not empty has a least one. *)
LEMMA LeastOf ==
    ASSUME NEW S \in SUBSET Nat, S # {}
    PROVE  \E v \in S : \A w \in S : v <= w
    <1>1. PICK v \in S : \A w \in S : ~ (<<w, v>> \in OpToRel(<, Nat))
        BY NatLessThanWellFounded, WFMin, Zenon
    <1>2. ASSUME NEW w \in S, w < v
          PROVE  FALSE
        <2>1. <<w, v>> \in Nat \X Nat /\ <<w, v>>[1] < <<w, v>>[2]
            BY <1>2
        <2> QED BY <1>1, <1>2, <2>1, Zenon DEF OpToRel
    <1>3. \A w \in S : v <= w
        BY <1>2
    <1> QED BY <1>3

(* A set that has 0, and every number whose predecessor it has, has every
   number. *)
LEMMA ReachesAll ==
    ASSUME NEW S, 0 \in S, \A n \in Nat : n \in S => n + 1 \in S
    PROVE  Nat \subseteq S
    <1> SUFFICES ASSUME Nat \ S # {} PROVE FALSE
        OBVIOUS
    <1>1. PICK v \in Nat \ S : \A w \in Nat \ S : v <= w
        BY LeastOf, Nat \ S \in SUBSET Nat
    <1>2. v - 1 \in Nat /\ v - 1 \in S /\ (v - 1) + 1 = v
        BY <1>1
    <1> QED BY <1>1, <1>2

-----------------------------------------------------------------------------
(* Frames                                                                  *)

(* One sequence behind another. *)
LEMMA Concatenated ==
    ASSUME NEW W, NEW a \in Seq(W), NEW b \in Seq(W)
    PROVE  /\ a \o b \in Seq(W) /\ Len(a \o b) = Len(a) + Len(b)
           /\ \A i \in 1..Len(a) : (a \o b)[i] = a[i]
           /\ \A i \in 1..Len(b) : (a \o b)[Len(a) + i] = b[i]
    OBVIOUS

(* An initial part of a sequence. *)
LEMMA Cut ==
    ASSUME NEW W, NEW a \in Seq(W), NEW n \in 0..Len(a)
    PROVE  /\ SubSeq(a, 1, n) \in Seq(W) /\ Len(SubSeq(a, 1, n)) = n
           /\ \A i \in 1..n : SubSeq(a, 1, n)[i] = a[i]
    OBVIOUS

(* A part of a sequence. *)
LEMMA Part ==
    ASSUME NEW W, NEW a \in Seq(W), NEW lo \in Nat, NEW hi \in Nat, lo <= hi, hi <= Len(a)
    PROVE  /\ SubSeq(a, lo + 1, hi) \in Seq(W) /\ Len(SubSeq(a, lo + 1, hi)) = hi - lo
           /\ \A i \in 1..(hi - lo) : SubSeq(a, lo + 1, hi)[i] = a[lo + i]
    OBVIOUS

(* The words of a frame. *)
LEMMA FrameFacts ==
    ASSUME NEW r \in Record
    PROVE  /\ r.size \in Nat /\ r.size >= 1 /\ FrameLen(r) \in Nat /\ FrameLen(r) = 3 + r.size
           /\ Frame(r) \in Seq(Words) /\ Len(Frame(r)) = FrameLen(r)
           /\ Frame(r)[1] = Magic /\ Frame(r)[2] = LengthWord(r.size) /\ Frame(r)[3] = Checksum(r)
           /\ \A w \in 1..r.size : Frame(r)[3 + w] = Body(r, w)
    <1>1. r.size \in Nat /\ r.size >= 1
        <2>1. r.size \in Sizes
            BY DEF Record
        <2>2. r.size \in Nat \ {0}
            BY <2>1, JobLogConstants, Zenon
        <2> QED BY <2>2
    <1>2. FrameLen(r) \in Nat /\ FrameLen(r) = 3 + r.size
        BY <1>1 DEF FrameLen, HeaderWords
    <1> DEFINE header == <<Magic, LengthWord(r.size), Checksum(r)>>
               body == [i \in 1..r.size |-> Body(r, i)]
    <1>3. header \in Seq(Words) /\ Len(header) = 3
        <2>1. Magic \in Words /\ LengthWord(r.size) \in Words /\ Checksum(r) \in Words
            BY <1>1 DEF Magic, LengthWord, Checksum, Words
        <2> QED BY <2>1
    <1>4. body \in Seq(Words) /\ Len(body) = r.size
        <2>1. \A i \in 1..r.size : Body(r, i) \in Words
            BY <1>1 DEF Body, Words
        <2> QED BY <1>1, <2>1
    <1>5. Frame(r) = header \o body
        BY DEF Frame
    <1>6. header[1] = Magic /\ header[2] = LengthWord(r.size) /\ header[3] = Checksum(r)
        OBVIOUS
    <1>7. \A w \in 1..r.size : body[w] = Body(r, w)
        OBVIOUS
    <1> HIDE DEF header, body
    <1>8. /\ header \o body \in Seq(Words) /\ Len(header \o body) = Len(header) + Len(body)
          /\ \A i \in 1..Len(header) : (header \o body)[i] = header[i]
          /\ \A i \in 1..Len(body) : (header \o body)[Len(header) + i] = body[i]
        BY <1>3, <1>4, Concatenated
    <1>8b. Frame(r) \in Seq(Words) /\ Len(Frame(r)) = FrameLen(r)
        <2>1. FrameLen(r) = Len(header) + Len(body)
            BY <1>2, <1>3, <1>4
        <2> QED BY <1>5, <1>8, <2>1, Zenon
    <1>9. \A w \in 1..3 : Frame(r)[w] = header[w]
        BY <1>3, <1>5, <1>8, Zenon
    <1>10. \A w \in 1..r.size : Frame(r)[3 + w] = body[w]
        <2>1. \A w \in 1..Len(body) : Frame(r)[Len(header) + w] = body[w]
            BY <1>5, <1>8, Zenon
        <2> QED BY <1>3, <1>4, <2>1, Zenon
    <1>11. Frame(r)[1] = Magic /\ Frame(r)[2] = LengthWord(r.size) /\ Frame(r)[3] = Checksum(r)
        <2>1. 1 \in 1..3 /\ 2 \in 1..3 /\ 3 \in 1..3
            OBVIOUS
        <2> QED BY <1>6, <1>9, <2>1, Zenon
    <1>12. \A w \in 1..r.size : Frame(r)[3 + w] = Body(r, w)
        BY <1>7, <1>10
    <1> QED BY <1>1, <1>2, <1>8b, <1>11, <1>12

(* The kinds of words differ. *)
LEMMA KindFacts ==
    ASSUME NEW r, NEW n
    PROVE  /\ Magic.kind = "magic" /\ LengthWord(n).kind = "length" /\ LengthWord(n).n = n
           /\ Checksum(r).kind = "checksum" /\ Checksum(r).rec = r
           /\ Body(r, n) # Magic
    BY DEF Magic, LengthWord, Checksum, Body

(* A frame is read as its record. *)
LEMMA FrameIsRead ==
    ASSUME NEW blob \in Seq(Words), NEW p \in Nat, NEW r \in Record,
           FrameAt(blob, p, r), p + FrameLen(r) <= Len(blob)
    PROVE  /\ HeaderValid(blob, p) /\ PayloadIntact(blob, p)
           /\ blob[p + 2].n = r.size /\ blob[p + 3].rec = r
    <1>1. /\ r.size \in Nat /\ r.size >= 1 /\ FrameLen(r) = 3 + r.size
          /\ Frame(r)[1] = Magic /\ Frame(r)[2] = LengthWord(r.size) /\ Frame(r)[3] = Checksum(r)
          /\ \A w \in 1..r.size : Frame(r)[3 + w] = Body(r, w)
        BY FrameFacts
    <1>2. blob[p + 1] = Magic /\ blob[p + 2] = LengthWord(r.size) /\ blob[p + 3] = Checksum(r)
        BY <1>1 DEF FrameAt
    <1>3. /\ blob[p + 2].kind = "length" /\ blob[p + 2].n = r.size
          /\ blob[p + 3].kind = "checksum" /\ blob[p + 3].rec = r
        BY <1>2, KindFacts
    <1>4. SubSeq(blob, p + 3 + 1, p + 3 + r.size) = [i \in 1..r.size |-> Body(r, i)]
        <2> DEFINE part == SubSeq(blob, p + 3 + 1, p + 3 + r.size)
        <2>1. part \in Seq(Words) /\ Len(part) = r.size
            BY <1>1
        <2>2. ASSUME NEW i \in 1..r.size PROVE part[i] = Body(r, i)
            <3>1. part[i] = blob[p + 3 + i]
                BY <1>1
            <3>2. blob[p + (3 + i)] = Frame(r)[3 + i]
                BY <1>1 DEF FrameAt
            <3>3. p + (3 + i) = p + 3 + i
                OBVIOUS
            <3>4. Frame(r)[3 + i] = Body(r, i)
                BY <1>1
            <3> HIDE DEF part
            <3> QED BY <3>1, <3>2, <3>3, <3>4, Zenon
        <2> HIDE DEF part
        <2>3. part = [i \in 1..Len(part) |-> part[i]]
            BY <2>1
        <2>4. part = [i \in 1..r.size |-> Body(r, i)]
            BY <2>1, <2>2, <2>3, Zenon
        <2> QED BY <2>4, Zenon DEF part
    <1> QED BY <1>2, <1>3, <1>4 DEF HeaderValid, PayloadIntact, HeaderWords

-----------------------------------------------------------------------------
(* Scans                                                                   *)

(* What valid_prefix() finds from offset p on, given what it finds behind. *)
ScanAt(blob, p, from) ==
    IF p + HeaderWords > Len(blob) THEN Stop(p)
    ELSE IF ~HeaderValid(blob, p) THEN Corrupt
    ELSE LET end == p + HeaderWords + blob[p + 2].n IN
         IF end > Len(blob) THEN Stop(p)
         ELSE IF PayloadIntact(blob, p) THEN Found(blob[p + 3].rec, from[end])
         ELSE IF end = Len(blob) THEN Stop(p) ELSE Corrupt

IsScan(from, blob) == from = [p \in 0..Len(blob) |-> ScanAt(blob, p, from)]

(* A scan depends only on what is behind it. *)
LEMMA ScanAgrees ==
    ASSUME NEW blob \in Seq(Words), NEW p \in 0..Len(blob), NEW f, NEW g,
           \A q \in (p + 1)..Len(blob) : f[q] = g[q]
    PROVE  ScanAt(blob, p, f) = ScanAt(blob, p, g)
    <1> DEFINE end == p + HeaderWords + blob[p + 2].n
    <1>1. CASE p + HeaderWords > Len(blob)
        BY <1>1, Zenon DEF ScanAt
    <1>2. CASE ~(p + HeaderWords > Len(blob)) /\ end > Len(blob)
        BY <1>2, Zenon DEF ScanAt
    <1>3. CASE ~(p + HeaderWords > Len(blob)) /\ ~(end > Len(blob))
        <2>1. p + 2 \in 1..Len(blob)
            BY <1>3 DEF HeaderWords
        <2>2. blob[p + 2] \in Words
            BY <2>1
        <2>3. blob[p + 2].n \in Nat
            BY <2>2 DEF Words
        <2>4. end \in (p + 1)..Len(blob)
            BY <1>3, <2>3 DEF HeaderWords
        <2>5. f[end] = g[end]
            BY <2>4
        <2> QED BY <1>3, <2>5, Zenon DEF ScanAt
    <1> QED BY <1>1, <1>2, <1>3, Zenon

(* valid_prefix() is a scan from the beginning. *)
LEMMA ScanRuns ==
    ASSUME NEW blob \in Seq(Words)
    PROVE  \E from : IsScan(from, blob) /\ ValidPrefix(blob) = from[0]
    <1> DEFINE L == Len(blob)
               Runs(f, m) == \A p \in (L - m)..L : p >= 0 => f[p] = ScanAt(blob, p, f)
               S == {m \in Nat : m <= L => \E f : Runs(f, m)}
    <1>0. L \in Nat
        OBVIOUS
    <1>1. 0 \in S
        <2> DEFINE f == [p \in 0..L |-> ScanAt(blob, p, <<>>)]
        <2>1. \A q \in (L + 1)..L : <<>>[q] = f[q]
            BY <1>0
        <2>2. L \in 0..Len(blob)
            BY <1>0
        <2>3. f[L] = ScanAt(blob, L, <<>>)
            BY <2>2
        <2> HIDE DEF f
        <2>4. ScanAt(blob, L, <<>>) = ScanAt(blob, L, f)
            BY <2>1, <2>2, ScanAgrees
        <2>5. Runs(f, 0)
            <3>1. \A p \in (L - 0)..L : p = L
                BY <1>0
            <3> QED BY <2>3, <2>4, <3>1, Zenon
        <2> QED BY <2>5
    <1>2. ASSUME NEW m \in Nat, m \in S PROVE m + 1 \in S
        <2>0. m + 1 \in Nat
            OBVIOUS
        <2> SUFFICES ASSUME m + 1 <= L PROVE \E g : Runs(g, m + 1)
            BY <2>0, Zenon
        <2>1. PICK f : Runs(f, m)
            BY <1>0, <1>2
        <2> DEFINE P == L - (m + 1)
                   g == [p \in 0..L |-> IF p = P THEN ScanAt(blob, P, f) ELSE f[p]]
        <2>2. P \in 0..L /\ P \in 0..Len(blob)
            BY <1>0
        <2>3. \A q \in (P + 1)..Len(blob) : f[q] = g[q]
            BY <1>0, <2>2
        <2>4. g[P] = ScanAt(blob, P, f)
            BY <2>2
        <2>5. ASSUME NEW p \in (P + 1)..L
              PROVE  g[p] = ScanAt(blob, p, g)
            <3>1. p \in (L - m)..L /\ p >= 0 /\ p \in 0..Len(blob)
                BY <1>0, <2>2
            <3>2. f[p] = ScanAt(blob, p, f)
                BY <2>1, <3>1
            <3>3. g[p] = f[p]
                BY <2>3
            <3>4. \A q \in (p + 1)..Len(blob) : f[q] = g[q]
                BY <2>2, <2>3, <3>1
            <3> HIDE DEF g
            <3>5. ScanAt(blob, p, f) = ScanAt(blob, p, g)
                BY <3>1, <3>4, ScanAgrees
            <3> QED BY <3>2, <3>3, <3>5, Zenon
        <2> HIDE DEF g
        <2>6. ScanAt(blob, P, f) = ScanAt(blob, P, g)
            BY <2>2, <2>3, ScanAgrees
        <2>7. Runs(g, m + 1)
            <3>1. \A p \in (L - (m + 1))..L : p = P \/ p \in (P + 1)..L
                BY <1>0
            <3> QED BY <2>4, <2>5, <2>6, <3>1, Zenon
        <2> QED BY <2>7
    <1>3. \E f : Runs(f, L)
        <2>1. L \in S
            <3> HIDE DEF S
            <3>1. Nat \subseteq S
                BY <1>1, <1>2, ReachesAll, Zenon
            <3> QED BY <1>0, <3>1
        <2> QED BY <1>0, <2>1
    <1>4. \E f : IsScan(f, blob)
        <2>1. PICK f : Runs(f, L)
            BY <1>3
        <2> DEFINE g == [p \in 0..L |-> f[p]]
        <2>2. ASSUME NEW p \in 0..Len(blob) PROVE g[p] = ScanAt(blob, p, g)
            <3>1. f[p] = ScanAt(blob, p, f)
                BY <1>0, <2>1
            <3>2. \A q \in (p + 1)..Len(blob) : f[q] = g[q]
                BY <1>0
            <3>3. g[p] = f[p]
                OBVIOUS
            <3> HIDE DEF g
            <3>4. ScanAt(blob, p, f) = ScanAt(blob, p, g)
                BY <3>2, ScanAgrees
            <3> QED BY <3>1, <3>3, <3>4, Zenon
        <2>3. IsScan(g, blob)
            BY <2>2, Zenon DEF IsScan
        <2> QED BY <2>3
    <1> DEFINE from == CHOOSE f : IsScan(f, blob)
    <1>5. IsScan(from, blob)
        BY <1>4, Zenon
    <1>6. ValidPrefix(blob) = from[0]
        BY Zenon DEF ValidPrefix, IsScan, ScanAt
    <1> QED BY <1>5, <1>6, Zenon

(* What a scan finds at an offset. *)
LEMMA ScanUnfolds ==
    ASSUME NEW blob, NEW from, IsScan(from, blob), NEW p \in 0..Len(blob)
    PROVE  from[p] = ScanAt(blob, p, from)
    BY Zenon DEF IsScan

-----------------------------------------------------------------------------
(* Files                                                                   *)

(* The offsets of the frames increase. *)
LEMMA OffsetFacts ==
    ASSUME NEW blob, NEW recs, NEW at, Holds(blob, recs, at), Len(blob) \in Nat
    PROVE  /\ Len(recs) \in Nat /\ DOMAIN recs = 1..Len(recs) /\ at[0] = 0
           /\ \A i \in 1..Len(recs) : recs[i] \in Record /\ at[i] = at[i - 1] + FrameLen(recs[i])
           /\ \A i \in 0..Len(recs) : at[i] \in Nat /\ at[i] <= Len(blob)
           /\ \A i, j \in 0..Len(recs) : i < j => at[i] < at[j]
    <1>1. /\ Len(recs) \in Nat /\ at[0] = 0 /\ recs \in Seq(Record) /\ DOMAIN recs = 1..Len(recs)
          /\ at \in [0..Len(recs) -> 0..Len(blob)]
          /\ \A i \in 1..Len(recs) : at[i] = at[i - 1] + FrameLen(recs[i])
        BY DEF Holds
    <1>2. \A i \in 1..Len(recs) : recs[i] \in Record
        BY <1>1
    <1>3. \A i \in 0..Len(recs) : at[i] \in Nat /\ at[i] <= Len(blob)
        BY <1>1
    <1>4. \A i \in 1..Len(recs) : at[i - 1] < at[i]
        <2> SUFFICES ASSUME NEW i \in 1..Len(recs) PROVE at[i - 1] < at[i]
            OBVIOUS
        <2>1. FrameLen(recs[i]) \in Nat /\ FrameLen(recs[i]) >= 4
            BY <1>2, FrameFacts
        <2>2. at[i - 1] \in Nat /\ at[i] = at[i - 1] + FrameLen(recs[i])
            BY <1>1, <1>3
        <2> QED BY <2>1, <2>2
    <1>5. \A i, j \in 0..Len(recs) : i < j => at[i] < at[j]
        <2> DEFINE S == {j \in Nat : j <= Len(recs) => \A i \in 0..Len(recs) : i < j => at[i] < at[j]}
        <2>1. 0 \in S
            OBVIOUS
        <2>2. ASSUME NEW j \in Nat, j \in S PROVE j + 1 \in S
            <3> SUFFICES ASSUME j + 1 <= Len(recs), NEW i \in 0..Len(recs), i < j + 1
                         PROVE  at[i] < at[j + 1]
                OBVIOUS
            <3>1. at[j] < at[j + 1] /\ at[j] \in Nat /\ at[j + 1] \in Nat /\ at[i] \in Nat
                BY <1>1, <1>3, <1>4
            <3>2. i = j \/ at[i] < at[j]
                BY <1>1, <2>2
            <3> QED BY <3>1, <3>2
        <2>3. Nat \subseteq S
            <3> HIDE DEF S
            <3> QED BY <2>1, <2>2, ReachesAll, Zenon
        <2> QED BY <1>1, <2>3
    <1> QED BY <1>1, <1>2, <1>3, <1>5

(* A scan ends at a torn frame, which is accepted if it ends the blob. *)
LEMMA ScanStops ==
    ASSUME NEW blob \in Seq(Words), NEW p \in 0..Len(blob), NEW from
    PROVE  /\ Stopped(blob, p) => ScanAt(blob, p, from) \in {Stop(p), Corrupt}
           /\ Clean(blob, p) => ScanAt(blob, p, from) = Stop(p)
    <1>0. Len(blob) \in Nat /\ p \in Nat
        OBVIOUS
    <1>1. CASE p = Len(blob)
        <2>1. p + HeaderWords > Len(blob)
            BY <1>0, <1>1 DEF HeaderWords
        <2> QED BY <2>1, Zenon DEF ScanAt
    <1>2. ASSUME NEW r, NEW k, Partial(blob, p, r, k)
          PROVE  /\ ScanAt(blob, p, from) \in {Stop(p), Corrupt}
                 /\ p + k = Len(blob) => ScanAt(blob, p, from) = Stop(p)
        <2> DEFINE end == p + HeaderWords + blob[p + 2].n
        <2>1. /\ r \in Record /\ k \in 1..(FrameLen(r) - 1) /\ p + k <= Len(blob)
              /\ \A w \in 1..k : blob[p + w] = Frame(r)[w]
              /\ p + k < Len(blob) => blob[p + k + 1] = Magic
            BY <1>2 DEF Partial
        <2>2. /\ r.size \in Nat /\ FrameLen(r) = 3 + r.size
              /\ Frame(r)[1] = Magic /\ Frame(r)[2] = LengthWord(r.size)
              /\ Frame(r)[3] = Checksum(r)
            BY <2>1, FrameFacts
        <2>3. CASE p + HeaderWords > Len(blob)
            BY <2>3, Zenon DEF ScanAt
        <2>4. CASE ~(p + HeaderWords > Len(blob)) /\ k = 1
            <3>1. p + k < Len(blob) /\ p + k + 1 = p + 2
                BY <1>0, <2>4 DEF HeaderWords
            <3>2. blob[p + 2] = Magic
                BY <2>1, <3>1
            <3>3. blob[p + 2].kind # "length"
                BY <3>2, KindFacts
            <3>4. ~HeaderValid(blob, p)
                BY <3>3 DEF HeaderValid
            <3>5. p + k # Len(blob)
                BY <1>0, <2>1, <3>1
            <3> QED BY <2>4, <3>4, <3>5, Zenon DEF ScanAt
        <2>5. CASE ~(p + HeaderWords > Len(blob)) /\ k # 1
            <3>1. blob[p + 2] = LengthWord(r.size)
                BY <2>1, <2>2, <2>5
            <3>2. blob[p + 2].n = r.size
                BY <3>1, KindFacts
            <3>3. end = p + FrameLen(r)
                BY <1>0, <2>2, <3>2 DEF HeaderWords
            <3>4. CASE p + k = Len(blob)
                <4>1. end > Len(blob)
                    BY <1>0, <2>1, <2>2, <3>3, <3>4
                <4>2. HeaderValid(blob, p)
                    <5>1. blob[p + 1] = Magic
                        BY <2>1, <2>2
                    <5>2. blob[p + 2].kind = "length"
                        BY <3>1, KindFacts
                    <5> QED BY <5>1, <5>2 DEF HeaderValid
                <4> QED BY <2>5, <4>1, <4>2, Zenon DEF ScanAt
            <3>5. CASE p + k # Len(blob)
                <4>1. blob[p + k + 1] = Magic
                    BY <1>0, <2>1, <3>5
                <4>2. ASSUME ~(end > Len(blob)) PROVE ~PayloadIntact(blob, p)
                    <5>1. CASE k = 2
                        <6>1. blob[p + 3] = Magic
                            BY <4>1, <5>1, <1>0
                        <6>2. blob[p + 3].kind # "checksum"
                            BY <6>1, KindFacts
                        <6> QED BY <6>2 DEF PayloadIntact
                    <5>2. CASE k # 2
                        <6>1. k - 2 \in 1..r.size /\ k \in Nat
                            BY <2>1, <2>2, <2>5, <5>2
                        <6>2. blob[p + 3] = Checksum(r)
                            BY <2>1, <2>2, <2>5, <5>2, <6>1
                        <6>3. blob[p + 3].rec = r
                            BY <6>2, KindFacts
                        <6> DEFINE part == SubSeq(blob, p + HeaderWords + 1, p + HeaderWords + blob[p + 2].n)
                        <6>4. part[k - 2] = blob[p + k + 1]
                            <7>1. p + 3 + r.size <= Len(blob)
                                BY <1>0, <2>2, <3>3, <4>2
                            <7>2. part = SubSeq(blob, p + 3 + 1, p + 3 + r.size)
                                BY <3>2 DEF HeaderWords
                            <7>3. SubSeq(blob, p + 3 + 1, p + 3 + r.size)[k - 2] = blob[p + 3 + (k - 2)]
                                BY <1>0, <2>2, <6>1, <7>1
                            <7>4. p + 3 + (k - 2) = p + k + 1
                                BY <1>0, <6>1
                            <7> QED BY <7>2, <7>3, <7>4, Zenon
                        <6> HIDE DEF part
                        <6>5. [i \in 1..r.size |-> Body(r, i)][k - 2] = Body(r, k - 2)
                            BY <6>1
                        <6>6. Body(r, k - 2) # Magic
                            BY KindFacts
                        <6>7. part # [i \in 1..r.size |-> Body(r, i)]
                            BY <4>1, <6>4, <6>5, <6>6, Zenon
                        <6> QED BY <6>3, <6>7, Zenon DEF PayloadIntact, part
                    <5> QED BY <5>1, <5>2
                <4> QED BY <2>5, <3>5, <4>2, Zenon DEF ScanAt
            <3> QED BY <3>4, <3>5, Zenon
        <2> QED BY <2>3, <2>4, <2>5, Zenon
    <1> QED BY <1>1, <1>2, Zenon DEF Stopped, Clean

(* The frame at an offset is found, and the scan goes on behind it. *)
LEMMA ScanFinds ==
    ASSUME NEW blob \in Seq(Words), NEW p \in Nat, NEW r \in Record, NEW from,
           FrameAt(blob, p, r), p + FrameLen(r) <= Len(blob)
    PROVE  ScanAt(blob, p, from) = Found(r, from[p + FrameLen(r)])
    <1>1. /\ HeaderValid(blob, p) /\ PayloadIntact(blob, p)
          /\ blob[p + 2].n = r.size /\ blob[p + 3].rec = r
        BY FrameIsRead
    <1>2. r.size \in Nat /\ FrameLen(r) = 3 + r.size /\ Len(blob) \in Nat
        BY FrameFacts
    <1>3. /\ ~(p + HeaderWords > Len(blob))
          /\ p + HeaderWords + blob[p + 2].n = p + FrameLen(r)
          /\ ~(p + FrameLen(r) > Len(blob))
        <2>1. ~(p + 3 > Len(blob)) /\ p + 3 + r.size = p + FrameLen(r) /\ ~(p + FrameLen(r) > Len(blob))
            BY <1>2
        <2> QED BY <1>1, <2>1, Zenon DEF HeaderWords
    <1> QED BY <1>1, <1>3, Zenon DEF ScanAt

(* What is found in front of the rest of a scan. *)
LEMMA FoundFacts ==
    ASSUME NEW r, NEW ok, NEW n, NEW rest
    PROVE  Found(r, [ok |-> ok, n |-> n, records |-> rest])
                = [ok |-> ok, n |-> n, records |-> <<r>> \o rest]
    <1> DEFINE old == [ok |-> ok, n |-> n, records |-> rest]
    <1>1. Found(r, old) = [old EXCEPT !.records = <<r>> \o old.records]
        BY DEF Found
    <1>2. old.records = rest
        OBVIOUS
    <1>3. \A s : [old EXCEPT !.records = s] = [ok |-> ok, n |-> n, records |-> s]
        OBVIOUS
    <1> QED BY <1>1, <1>2, <1>3

(* A scan of frames with nothing readable behind them finds their records,
   or the log is corrupt; a torn frame at the end does not make it so. *)
LEMMA Scanned ==
    ASSUME NEW blob \in Seq(Words), NEW recs, NEW at, Holds(blob, recs, at),
           Stopped(blob, at[Len(recs)])
    PROVE  /\ \/ ValidPrefix(blob) = [ok |-> TRUE, n |-> at[Len(recs)], records |-> recs]
              \/ ValidPrefix(blob) = [ok |-> FALSE, n |-> 0, records |-> recs]
           /\ Clean(blob, at[Len(recs)]) =>
                ValidPrefix(blob) = [ok |-> TRUE, n |-> at[Len(recs)], records |-> recs]
    <1> DEFINE m == Len(recs)
    <1>1. PICK from : IsScan(from, blob) /\ ValidPrefix(blob) = from[0]
        BY ScanRuns
    <1>2. /\ Len(blob) \in Nat /\ m \in Nat /\ at[0] = 0 /\ recs \in Seq(Record)
          /\ \A i \in 1..m : recs[i] \in Record /\ at[i] = at[i - 1] + FrameLen(recs[i])
          /\ \A i \in 0..m : at[i] \in Nat /\ at[i] <= Len(blob)
        <2>1. Len(blob) \in Nat /\ recs \in Seq(Record)
            BY DEF Holds
        <2> QED BY <2>1, OffsetFacts
    <1>3. \A i \in 1..m : FrameAt(blob, at[i - 1], recs[i])
        BY DEF Holds
    <1> DEFINE base == from[at[m]]
    <1>4. base = ScanAt(blob, at[m], from) /\ at[m] \in 0..Len(blob)
        BY <1>1, <1>2, ScanUnfolds
    <1>5. base \in {Stop(at[m]), Corrupt} /\ (Clean(blob, at[m]) => base = Stop(at[m]))
        BY <1>4, ScanStops
    <1>6. base = [ok |-> base.ok, n |-> base.n, records |-> <<>>]
        BY <1>5 DEF Stop, Corrupt
    <1> HIDE DEF base
    <1> DEFINE S == {j \in Nat : j <= m =>
                       from[at[m - j]] = [ok |-> base.ok, n |-> base.n,
                                          records |-> SubSeq(recs, m - j + 1, m)]}
    <1>7. 0 \in S
        <2>1. SubSeq(recs, m - 0 + 1, m) = <<>> /\ m - 0 = m
            BY <1>2
        <2> QED BY <1>6, <2>1 DEF base
    <1>8. ASSUME NEW j \in Nat, j \in S PROVE j + 1 \in S
        <2>0. j + 1 \in Nat
            OBVIOUS
        <2> SUFFICES ASSUME j + 1 <= m
                     PROVE  from[at[m - (j + 1)]] = [ok |-> base.ok, n |-> base.n,
                                          records |-> SubSeq(recs, m - (j + 1) + 1, m)]
            BY <2>0, Zenon
        <2> DEFINE i == m - j
                   rest == SubSeq(recs, i + 1, m)
        <2>1. /\ i \in 1..m /\ i - 1 = m - (j + 1) /\ i - 1 \in 0..m
              /\ m - (j + 1) + 1 = i
            BY <1>2
        <2>2. from[at[i]] = [ok |-> base.ok, n |-> base.n, records |-> rest]
            BY <1>2, <1>8
        <2> HIDE DEF i
        <2>3. /\ recs[i] \in Record /\ at[i] = at[i - 1] + FrameLen(recs[i])
              /\ at[i - 1] \in Nat /\ at[i] \in Nat /\ at[i] <= Len(blob)
              /\ at[i - 1] \in 0..Len(blob)
            BY <1>2, <2>1
        <2>4. FrameAt(blob, at[i - 1], recs[i])
            BY <1>3, <2>1
        <2>5. from[at[i - 1]] = ScanAt(blob, at[i - 1], from)
            BY <1>1, <2>3, ScanUnfolds
        <2>6. ScanAt(blob, at[i - 1], from) = Found(recs[i], from[at[i]])
            BY <2>3, <2>4, ScanFinds
        <2>7. <<recs[i]>> \o rest = SubSeq(recs, i, m)
            BY <1>2, <2>1
        <2>8. Found(recs[i], from[at[i]]) =
                [ok |-> base.ok, n |-> base.n, records |-> <<recs[i]>> \o rest]
            <3> HIDE DEF rest
            <3>1. Found(recs[i], [ok |-> base.ok, n |-> base.n, records |-> rest])
                    = [ok |-> base.ok, n |-> base.n, records |-> <<recs[i]>> \o rest]
                BY FoundFacts
            <3> QED BY <2>2, <3>1, Zenon
        <2> HIDE DEF rest
        <2> QED BY <2>1, <2>5, <2>6, <2>7, <2>8, Zenon
    <1>9. Nat \subseteq S
        <2> HIDE DEF S
        <2> QED BY <1>7, <1>8, ReachesAll, Zenon
    <1>10. from[0] = [ok |-> base.ok, n |-> base.n, records |-> recs]
        <2>1. m - m = 0 /\ SubSeq(recs, m - m + 1, m) = recs
            BY <1>2
        <2>2. m \in S
            BY <1>2, <1>9
        <2>3. from[at[m - m]] = [ok |-> base.ok, n |-> base.n, records |-> SubSeq(recs, m - m + 1, m)]
            BY <1>2, <2>2
        <2> QED BY <1>2, <2>1, <2>3, Zenon
    <1>11. CASE base = Stop(at[m])
        <2>1. base.ok = TRUE /\ base.n = at[m]
            BY <1>11 DEF Stop
        <2> QED BY <1>1, <1>10, <2>1, Zenon
    <1>12. CASE base # Stop(at[m])
        <2>1. base.ok = FALSE /\ base.n = 0
            BY <1>5, <1>12 DEF Corrupt
        <2> QED BY <1>1, <1>5, <1>10, <1>12, <2>1, Zenon
    <1> QED BY <1>11, <1>12, Zenon

(* The same, of what valid_prefix() and latest_jobs() return. *)
LEMMA ReadFacts ==
    ASSUME NEW blob \in Seq(Words), NEW recs, NEW at, Holds(blob, recs, at),
           Stopped(blob, at[Len(recs)])
    PROVE  /\ ValidPrefix(blob).ok => /\ ValidPrefix(blob).n = at[Len(recs)] /\ Readable(blob) = recs
                                      /\ Intact(blob) = SubSeq(blob, 1, at[Len(recs)])
           /\ ~ValidPrefix(blob).ok => Readable(blob) = <<>>
           /\ Clean(blob, at[Len(recs)]) => ValidPrefix(blob).ok
    <1>1. CASE ValidPrefix(blob) = [ok |-> TRUE, n |-> at[Len(recs)], records |-> recs]
        <2>1. /\ ValidPrefix(blob).ok = TRUE /\ ValidPrefix(blob).n = at[Len(recs)]
              /\ ValidPrefix(blob).records = recs
            BY <1>1
        <2> QED BY <2>1, Zenon DEF Readable, Intact
    <1>2. CASE ValidPrefix(blob) # [ok |-> TRUE, n |-> at[Len(recs)], records |-> recs]
        <2>1. ~Clean(blob, at[Len(recs)])
            BY <1>2, Scanned
        <2>2. ValidPrefix(blob) = [ok |-> FALSE, n |-> 0, records |-> recs]
            BY <1>2, Scanned
        <2>3. ValidPrefix(blob).ok = FALSE
            BY <2>2
        <2> QED BY <2>1, <2>3, Zenon DEF Readable
    <1> QED BY <1>1, <1>2, Zenon

(* The first j offsets. *)
FirstOffsets(at, j) == [i \in 0..j |-> at[i]]

(* Every initial part of such a blob is such a blob. *)
LEMMA CutHolds ==
    ASSUME NEW blob \in Seq(Words), NEW recs, NEW at, Holds(blob, recs, at),
           Stopped(blob, at[Len(recs)]), NEW n \in 0..Len(blob)
    PROVE  \E j \in 0..Len(recs) :
               /\ at[j] <= n /\ (j < Len(recs) => n < at[j + 1])
               /\ Holds(SubSeq(blob, 1, n), SubSeq(recs, 1, j), FirstOffsets(at, j))
               /\ Stopped(SubSeq(blob, 1, n), at[j])
               /\ Clean(blob, at[Len(recs)]) => Clean(SubSeq(blob, 1, n), at[j])
    <1> DEFINE m == Len(recs)
               cut == SubSeq(blob, 1, n)
               above == {i \in 1..m : n < at[i]}
    <1>1. /\ Len(blob) \in Nat /\ n \in Nat /\ m \in Nat /\ at[0] = 0 /\ recs \in Seq(Record)
          /\ \A i \in 1..m : recs[i] \in Record /\ at[i] = at[i - 1] + FrameLen(recs[i])
          /\ \A i \in 0..m : at[i] \in Nat /\ at[i] <= Len(blob)
          /\ \A i, j \in 0..m : i < j => at[i] < at[j]
        <2>1. Len(blob) \in Nat /\ recs \in Seq(Record)
            BY DEF Holds
        <2> QED BY <2>1, OffsetFacts
    <1>2. \A i \in 1..m : FrameAt(blob, at[i - 1], recs[i])
        BY DEF Holds
    <1>3. cut \in Seq(Words) /\ Len(cut) = n /\ \A i \in 1..n : cut[i] = blob[i]
        BY Cut
    <1> HIDE DEF cut
    <1>4. \E j \in 0..m : at[j] <= n /\ (j < m => n < at[j + 1])
        <2>1. CASE above = {}
            <3>1. at[m] <= n
                <4>1. CASE m = 0
                    BY <1>1, <4>1
                <4>2. CASE m # 0
                    <5>1. m \in 1..m /\ at[m] \in Nat
                        BY <1>1, <4>2
                    <5>2. ~(n < at[m])
                        BY <2>1, <5>1
                    <5> QED BY <1>1, <5>1, <5>2
                <4> QED BY <4>1, <4>2
            <3> QED BY <1>1, <3>1
        <2>2. CASE above # {}
            <3>1. above \in SUBSET Nat
                BY <1>1
            <3>2. PICK i \in above : \A k \in above : i <= k
                BY <2>2, <3>1, LeastOf
            <3>3. i \in 1..m /\ n < at[i] /\ i - 1 \in 0..m /\ at[i - 1] \in Nat
                BY <1>1, <3>2
            <3>4. i - 1 # 0 => ~(n < at[i - 1])
                BY <1>1, <3>2, <3>3
            <3>5. at[i - 1] <= n
                BY <1>1, <3>3, <3>4
            <3>6. (i - 1) + 1 = i
                BY <3>3
            <3> QED BY <3>3, <3>5, <3>6
        <2> QED BY <2>1, <2>2
    <1>5. PICK j \in 0..m : at[j] <= n /\ (j < m => n < at[j + 1])
        BY <1>4
    <1> DEFINE first == SubSeq(recs, 1, j)
               offs == FirstOffsets(at, j)
    <1>6. first \in Seq(Record) /\ Len(first) = j /\ \A i \in 1..j : first[i] = recs[i]
        BY <1>1, Cut
    <1>7. offs = [i \in 0..j |-> at[i]] /\ \A i \in 0..j : offs[i] = at[i]
        BY DEF FirstOffsets
    <1> HIDE DEF first, offs
    <1>8. Holds(cut, first, offs)
        <2>1. offs \in [0..Len(first) -> 0..Len(cut)]
            <3>1. \A i \in 0..j : at[i] \in 0..n
                <4> SUFFICES ASSUME NEW i \in 0..j PROVE at[i] \in 0..n
                    OBVIOUS
                <4>1. i \in 0..m /\ at[i] \in Nat /\ at[j] \in Nat /\ (i = j \/ at[i] < at[j])
                    BY <1>1
                <4> QED BY <1>1, <1>5, <4>1
            <3> QED BY <1>3, <1>6, <1>7, <3>1
        <2>2. offs[0] = 0
            BY <1>1, <1>7
        <2>3. ASSUME NEW i \in 1..Len(first)
              PROVE  offs[i] = offs[i - 1] + FrameLen(first[i]) /\ FrameAt(cut, offs[i - 1], first[i])
            <3>1. /\ i \in 1..j /\ i \in 1..m /\ i - 1 \in 0..j /\ i \in 0..j
                  /\ i - 1 \in 0..m /\ i \in 0..m
                BY <1>1, <1>6
            <3>2. offs[i] = at[i] /\ offs[i - 1] = at[i - 1] /\ first[i] = recs[i]
                BY <1>6, <1>7, <3>1
            <3>3. at[i] = at[i - 1] + FrameLen(recs[i]) /\ FrameAt(blob, at[i - 1], recs[i])
                BY <1>1, <1>2, <3>1
            <3>4. at[i] <= n /\ at[i] \in Nat /\ at[i - 1] \in Nat /\ FrameLen(recs[i]) \in Nat
                <4>1. /\ at[i] \in Nat /\ at[i - 1] \in Nat /\ at[j] \in Nat
                      /\ (i = j \/ at[i] < at[j]) /\ recs[i] \in Record
                    BY <1>1, <3>1
                <4>2. at[i] <= n
                    BY <1>1, <1>5, <4>1
                <4>3. FrameLen(recs[i]) \in Nat
                    BY <4>1, FrameFacts
                <4> QED BY <4>1, <4>2, <4>3
            <3>5. FrameAt(cut, at[i - 1], recs[i])
                <4> SUFFICES ASSUME NEW w \in 1..FrameLen(recs[i])
                             PROVE  cut[at[i - 1] + w] = Frame(recs[i])[w]
                    BY DEF FrameAt
                <4>1. at[i - 1] + w \in 1..n
                    BY <1>1, <3>3, <3>4
                <4> QED BY <1>3, <3>3, <4>1 DEF FrameAt
            <3> QED BY <3>2, <3>3, <3>5, Zenon
        <2> QED BY <1>6, <2>1, <2>2, <2>3 DEF Holds
    <1>9. CASE at[j] = n
        BY <1>3, <1>5, <1>8, <1>9, Zenon DEF Stopped, Clean, first, offs, cut
    <1>10. CASE at[j] # n /\ j < m
        <2> DEFINE k == n - at[j]
                   r == recs[j + 1]
        <2>1. /\ j + 1 \in 1..m /\ (j + 1) - 1 = j /\ r \in Record /\ at[j] \in Nat
              /\ at[j + 1] = at[j] + FrameLen(r) /\ FrameAt(blob, at[j], r)
            <3>1. j + 1 \in 1..m /\ (j + 1) - 1 = j
                BY <1>1, <1>10
            <3>2. at[j] \in Nat
                BY <1>1
            <3> QED BY <1>1, <1>2, <3>1, <3>2
        <2>2. FrameLen(r) \in Nat
            BY <2>1, FrameFacts
        <2> HIDE DEF r
        <2>3. k \in 1..(FrameLen(r) - 1) /\ at[j] + k = n
            BY <1>1, <1>5, <1>10, <2>1, <2>2
        <2>4. \A w \in 1..k : cut[at[j] + w] = Frame(r)[w]
            <3> SUFFICES ASSUME NEW w \in 1..k PROVE cut[at[j] + w] = Frame(r)[w]
                OBVIOUS
            <3>1. at[j] + w \in 1..n /\ w \in 1..FrameLen(r)
                <4>1. w \in Nat /\ w >= 1 /\ w <= k
                    BY <2>3
                <4> QED BY <1>1, <2>1, <2>2, <2>3, <4>1
            <3> QED BY <1>3, <2>1, <3>1 DEF FrameAt
        <2>5. Partial(cut, at[j], r, k)
            BY <1>1, <1>3, <2>1, <2>3, <2>4 DEF Partial
        <2> HIDE DEF k
        <2>6. Stopped(cut, at[j]) /\ Clean(cut, at[j])
            BY <1>3, <2>3, <2>5 DEF Stopped, Clean
        <2> QED BY <1>5, <1>8, <2>6, Zenon DEF first, offs, cut
    <1>11. CASE at[j] # n /\ ~(j < m)
        <2>1. j = m /\ at[m] < n /\ at[m] \in Nat
            BY <1>1, <1>5, <1>11
        <2>2. ASSUME NEW r, NEW k, Partial(blob, at[m], r, k)
              PROVE  /\ Stopped(cut, at[m])
                     /\ at[m] + k = Len(blob) => Clean(cut, at[m])
            <3>1. /\ r \in Record /\ k \in 1..(FrameLen(r) - 1) /\ at[m] + k <= Len(blob)
                  /\ \A w \in 1..k : blob[at[m] + w] = Frame(r)[w]
                  /\ at[m] + k < Len(blob) => blob[at[m] + k + 1] = Magic
                BY <2>2 DEF Partial
            <3>2. FrameLen(r) \in Nat
                BY <3>1, FrameFacts
            <3>3. CASE n <= at[m] + k
                <4> DEFINE q == n - at[m]
                <4>1. q \in 1..(FrameLen(r) - 1) /\ q \in 1..k /\ at[m] + q = n
                    BY <1>1, <2>1, <3>1, <3>2, <3>3
                <4>2. \A w \in 1..q : cut[at[m] + w] = Frame(r)[w]
                    <5> SUFFICES ASSUME NEW w \in 1..q PROVE cut[at[m] + w] = Frame(r)[w]
                        OBVIOUS
                    <5>1. at[m] + w \in 1..n /\ w \in 1..k
                        BY <1>1, <2>1, <3>1, <4>1
                    <5> QED BY <1>3, <3>1, <5>1
                <4> HIDE DEF q
                <4>3. Partial(cut, at[m], r, q)
                    BY <1>1, <1>3, <2>1, <3>1, <4>1, <4>2 DEF Partial
                <4> QED BY <1>3, <4>1, <4>3 DEF Stopped, Clean
            <3>4. CASE ~(n <= at[m] + k)
                <4>1. \A w \in 1..k : cut[at[m] + w] = Frame(r)[w]
                    <5> SUFFICES ASSUME NEW w \in 1..k PROVE cut[at[m] + w] = Frame(r)[w]
                        OBVIOUS
                    <5>1. at[m] + w \in 1..n
                        BY <1>1, <2>1, <3>1, <3>2, <3>4
                    <5> QED BY <1>3, <3>1, <5>1
                <4>2. at[m] + k + 1 \in 1..n /\ at[m] + k < Len(blob) /\ at[m] + k < n
                    BY <1>1, <2>1, <3>1, <3>2, <3>4
                <4>3. cut[at[m] + k + 1] = Magic
                    BY <1>3, <3>1, <4>2
                <4>4. at[m] + k <= Len(cut) /\ at[m] + k # Len(blob)
                    BY <1>1, <1>3, <2>1, <3>1, <3>2, <4>2
                <4>5. Partial(cut, at[m], r, k)
                    BY <3>1, <4>1, <4>3, <4>4 DEF Partial
                <4> QED BY <4>4, <4>5 DEF Stopped
            <3> QED BY <3>3, <3>4
        <2>3. at[m] # Len(blob)
            BY <1>1, <2>1
        <2>4. Stopped(cut, at[j]) /\ (Clean(blob, at[m]) => Clean(cut, at[j]))
            BY <2>1, <2>2, <2>3, Zenon DEF Stopped, Clean
        <2> QED BY <1>5, <1>8, <2>4, Zenon DEF first, offs, cut
    <1> QED BY <1>9, <1>10, <1>11, Zenon

(* Words behind the frames do not matter. *)
LEMMA HoldsLonger ==
    ASSUME NEW blob \in Seq(Words), NEW long \in Seq(Words), NEW recs, NEW at,
           Holds(blob, recs, at), Len(blob) <= Len(long),
           \A i \in 1..Len(blob) : long[i] = blob[i]
    PROVE  Holds(long, recs, at)
    <1> DEFINE m == Len(recs)
    <1>1. /\ Len(blob) \in Nat /\ m \in Nat /\ at[0] = 0 /\ Len(long) \in Nat
          /\ \A i \in 1..m : recs[i] \in Record /\ at[i] = at[i - 1] + FrameLen(recs[i])
          /\ \A i \in 0..m : at[i] \in Nat /\ at[i] <= Len(blob)
        <2>1. Len(blob) \in Nat /\ Len(long) \in Nat
            OBVIOUS
        <2>2. /\ m \in Nat /\ at[0] = 0
              /\ \A i \in 1..m : recs[i] \in Record /\ at[i] = at[i - 1] + FrameLen(recs[i])
              /\ \A i \in 0..m : at[i] \in Nat /\ at[i] <= Len(blob)
            BY <2>1, OffsetFacts
        <2> QED BY <2>1, <2>2
    <1>2. at \in [0..m -> 0..Len(long)] /\ recs \in Seq(Record)
        <2>1. at \in [0..m -> 0..Len(blob)] /\ recs \in Seq(Record)
            BY DEF Holds
        <2>2. 0..Len(blob) \subseteq 0..Len(long)
            BY <1>1
        <2> QED BY <2>1, <2>2
    <1>3. ASSUME NEW i \in 1..m PROVE FrameAt(long, at[i - 1], recs[i])
        <2>1. /\ at[i] \in Nat /\ at[i - 1] \in Nat /\ at[i] <= Len(blob) /\ recs[i] \in Record
              /\ at[i] = at[i - 1] + FrameLen(recs[i])
            BY <1>1
        <2>2. FrameLen(recs[i]) \in Nat
            BY <2>1, FrameFacts
        <2>3. FrameAt(blob, at[i - 1], recs[i])
            BY DEF Holds
        <2> SUFFICES ASSUME NEW w \in 1..FrameLen(recs[i])
                     PROVE  long[at[i - 1] + w] = Frame(recs[i])[w]
            BY DEF FrameAt
        <2>4. at[i - 1] + w \in 1..Len(blob)
            BY <1>1, <2>1, <2>2
        <2> QED BY <2>3, <2>4 DEF FrameAt
    <1> QED BY <1>1, <1>2, <1>3 DEF Holds

(* Where the frames end when one more is complete. *)
MoreOffsets(at, m, r) == [i \in 0..(m + 1) |-> IF i = m + 1 THEN at[m] + FrameLen(r) ELSE at[i]]

(* One more frame is complete. *)
LEMMA HoldsMore ==
    ASSUME NEW blob \in Seq(Words), NEW recs, NEW at, Holds(blob, recs, at), NEW r \in Record,
           FrameAt(blob, at[Len(recs)], r), at[Len(recs)] + FrameLen(r) <= Len(blob)
    PROVE  /\ Holds(blob, Append(recs, r), MoreOffsets(at, Len(recs), r))
           /\ MoreOffsets(at, Len(recs), r)[Len(recs) + 1] = at[Len(recs)] + FrameLen(r)
           /\ \A i \in 0..Len(recs) : MoreOffsets(at, Len(recs), r)[i] = at[i]
    <1> DEFINE m == Len(recs)
               more == MoreOffsets(at, m, r)
               long == Append(recs, r)
    <1>1. /\ Len(blob) \in Nat /\ m \in Nat /\ at[0] = 0 /\ recs \in Seq(Record)
          /\ \A i \in 1..m : recs[i] \in Record /\ at[i] = at[i - 1] + FrameLen(recs[i])
          /\ \A i \in 0..m : at[i] \in Nat /\ at[i] <= Len(blob)
        <2>1. Len(blob) \in Nat /\ recs \in Seq(Record)
            BY DEF Holds
        <2> QED BY <2>1, OffsetFacts
    <1>2. FrameLen(r) \in Nat
        BY FrameFacts
    <1>3. /\ more[m + 1] = at[m] + FrameLen(r) /\ \A i \in 0..m : more[i] = at[i]
          /\ more = [i \in 0..(m + 1) |-> more[i]]
        BY <1>1 DEF MoreOffsets
    <1>4. /\ long \in Seq(Record) /\ Len(long) = m + 1 /\ long[m + 1] = r
          /\ \A i \in 1..m : long[i] = recs[i]
        BY <1>1
    <1> HIDE DEF more, long
    <1>5. more \in [0..Len(long) -> 0..Len(blob)] /\ more[0] = 0
        <2>1. \A i \in 0..(m + 1) : more[i] \in 0..Len(blob)
            <3> SUFFICES ASSUME NEW i \in 0..(m + 1) PROVE more[i] \in 0..Len(blob)
                OBVIOUS
            <3>1. CASE i = m + 1
                <4>1. at[m] \in Nat
                    BY <1>1
                <4> QED BY <1>1, <1>2, <1>3, <3>1, <4>1
            <3>2. CASE i \in 0..m
                <4>1. more[i] = at[i] /\ at[i] \in Nat /\ at[i] <= Len(blob)
                    BY <1>1, <1>3, <3>2
                <4> QED BY <1>1, <4>1
            <3> QED BY <1>1, <3>1, <3>2
        <2>2. more \in [0..(m + 1) -> 0..Len(blob)]
            BY <1>3, <2>1
        <2>3. 0 \in 0..m
            BY <1>1
        <2>4. more[0] = 0
            BY <1>1, <1>3, <2>3
        <2> QED BY <1>4, <2>2, <2>4
    <1>6. ASSUME NEW i \in 1..Len(long)
          PROVE  more[i] = more[i - 1] + FrameLen(long[i]) /\ FrameAt(blob, more[i - 1], long[i])
        <2>1. CASE i = m + 1
            <3>1. i - 1 = m /\ m \in 0..m
                BY <1>1, <2>1
            <3>2. more[i - 1] = at[m] /\ more[i] = at[m] + FrameLen(r) /\ long[i] = r
                BY <1>3, <1>4, <2>1, <3>1
            <3> QED BY <3>2, Zenon
        <2>2. CASE i \in 1..m
            <3>1. i \in 0..m /\ i - 1 \in 0..m
                BY <1>1, <2>2
            <3>2. more[i] = at[i] /\ more[i - 1] = at[i - 1] /\ long[i] = recs[i]
                BY <1>3, <1>4, <2>2, <3>1
            <3>3. at[i] = at[i - 1] + FrameLen(recs[i]) /\ FrameAt(blob, at[i - 1], recs[i])
                BY <2>2 DEF Holds
            <3> QED BY <3>2, <3>3, Zenon
        <2> QED BY <1>1, <1>4, <2>1, <2>2
    <1>7. Holds(blob, long, more)
        BY <1>4, <1>5, <1>6 DEF Holds
    <1> QED BY <1>3, <1>7 DEF long, more

(* Where the frames of one blob behind another end. *)
JoinedOffsets(atA, m, atB, k) ==
    [i \in 0..(m + k) |-> IF i <= m THEN atA[i] ELSE atA[m] + atB[i - m]]

(* A blob is nothing but the frames of some records. *)
AllFrames(blob, recs, at) ==
    blob \in Seq(Words) /\ Holds(blob, recs, at) /\ at[Len(recs)] = Len(blob)

(* One blob of frames behind another. *)
LEMMA FramesJoined ==
    ASSUME NEW a, NEW recsA, NEW atA, AllFrames(a, recsA, atA),
           NEW b, NEW recsB, NEW atB, AllFrames(b, recsB, atB)
    PROVE  \E at : AllFrames(a \o b, recsA \o recsB, at)
    <1> DEFINE m == Len(recsA)
               k == Len(recsB)
               at == JoinedOffsets(atA, m, atB, k)
               ab == a \o b
               recs == recsA \o recsB
    <1>0. /\ a \in Seq(Words) /\ Holds(a, recsA, atA) /\ atA[m] = Len(a)
          /\ b \in Seq(Words) /\ Holds(b, recsB, atB) /\ atB[k] = Len(b)
        BY DEF AllFrames
    <1> USE <1>0
    <1>1. /\ Len(a) \in Nat /\ m \in Nat /\ atA[0] = 0 /\ recsA \in Seq(Record)
          /\ \A i \in 1..m : recsA[i] \in Record /\ atA[i] = atA[i - 1] + FrameLen(recsA[i])
          /\ \A i \in 0..m : atA[i] \in Nat /\ atA[i] <= Len(a)
        <2>1. Len(a) \in Nat /\ recsA \in Seq(Record)
            BY DEF Holds
        <2> QED BY <2>1, OffsetFacts
    <1>2. /\ Len(b) \in Nat /\ k \in Nat /\ atB[0] = 0 /\ recsB \in Seq(Record)
          /\ \A i \in 1..k : recsB[i] \in Record /\ atB[i] = atB[i - 1] + FrameLen(recsB[i])
          /\ \A i \in 0..k : atB[i] \in Nat /\ atB[i] <= Len(b)
        <2>1. Len(b) \in Nat /\ recsB \in Seq(Record)
            BY DEF Holds
        <2> QED BY <2>1, OffsetFacts
    <1>3. /\ ab \in Seq(Words) /\ Len(ab) = Len(a) + Len(b)
          /\ \A i \in 1..Len(a) : ab[i] = a[i]
          /\ \A i \in 1..Len(b) : ab[Len(a) + i] = b[i]
        BY Concatenated
    <1>4. /\ recs \in Seq(Record) /\ Len(recs) = m + k
          /\ \A i \in 1..m : recs[i] = recsA[i]
          /\ \A i \in 1..k : recs[m + i] = recsB[i]
        BY <1>1, <1>2, Concatenated
    <1>5. /\ at = [i \in 0..(m + k) |-> at[i]]
          /\ \A i \in 0..m : at[i] = atA[i]
          /\ \A i \in 0..k : at[m + i] = Len(a) + atB[i]
        <2>1. at = [i \in 0..(m + k) |-> at[i]] /\ \A i \in 0..m : at[i] = atA[i]
            BY <1>1, <1>2 DEF JoinedOffsets
        <2>2. ASSUME NEW i \in 0..k PROVE at[m + i] = Len(a) + atB[i]
            <3>1. CASE i = 0
                <4>1. m + i = m /\ m \in 0..m /\ Len(a) + 0 = Len(a)
                    BY <1>1, <3>1
                <4> QED BY <1>2, <2>1, <3>1, <4>1
            <3>2. CASE i # 0
                <4>1. m + i \in 0..(m + k) /\ ~(m + i <= m) /\ (m + i) - m = i
                    BY <1>1, <1>2, <3>2
                <4> QED BY <4>1 DEF JoinedOffsets
            <3> QED BY <3>1, <3>2
        <2> QED BY <2>1, <2>2
    <1> HIDE DEF at, ab, recs
    <1>6. at \in [0..Len(recs) -> 0..Len(ab)] /\ at[0] = 0
        <2>1. ASSUME NEW i \in 0..(m + k) PROVE at[i] \in 0..Len(ab)
            <3>1. CASE i \in 0..m
                <4>1. at[i] = atA[i] /\ atA[i] \in Nat /\ atA[i] <= Len(a)
                    BY <1>1, <1>5, <3>1
                <4> QED BY <1>1, <1>2, <1>3, <4>1
            <3>2. CASE i \notin 0..m
                <4>1. i - m \in 0..k /\ m + (i - m) = i
                    BY <1>1, <1>2, <3>2
                <4>2. at[i] = Len(a) + atB[i - m] /\ atB[i - m] \in Nat /\ atB[i - m] <= Len(b)
                    BY <1>2, <1>5, <4>1
                <4> QED BY <1>1, <1>2, <1>3, <4>2
            <3> QED BY <3>1, <3>2
        <2>2. at \in [0..(m + k) -> 0..Len(ab)]
            BY <1>5, <2>1
        <2>3. at[0] = 0
            <3>1. 0 \in 0..m
                BY <1>1
            <3> QED BY <1>1, <1>5, <3>1
        <2> QED BY <1>4, <2>2, <2>3
    <1>7. ASSUME NEW i \in 1..Len(recs)
          PROVE  at[i] = at[i - 1] + FrameLen(recs[i]) /\ FrameAt(ab, at[i - 1], recs[i])
        <2>1. CASE i \in 1..m
            <3>1. i \in 0..m /\ i - 1 \in 0..m
                BY <1>1, <2>1
            <3>2. at[i] = atA[i] /\ at[i - 1] = atA[i - 1] /\ recs[i] = recsA[i]
                BY <1>4, <1>5, <2>1, <3>1
            <3>3. /\ atA[i] = atA[i - 1] + FrameLen(recsA[i]) /\ recsA[i] \in Record
                  /\ atA[i - 1] \in Nat /\ atA[i] \in Nat /\ atA[i] <= Len(a)
                BY <1>1, <2>1, <3>1
            <3>4. FrameAt(a, atA[i - 1], recsA[i])
                BY <2>1 DEF Holds
            <3>5. FrameLen(recsA[i]) \in Nat
                BY <3>3, FrameFacts
            <3>6. FrameAt(ab, atA[i - 1], recsA[i])
                <4> SUFFICES ASSUME NEW w \in 1..FrameLen(recsA[i])
                             PROVE  ab[atA[i - 1] + w] = Frame(recsA[i])[w]
                    BY DEF FrameAt
                <4>1. atA[i - 1] + w \in 1..Len(a)
                    <5> DEFINE p == atA[i - 1]
                               q == atA[i]
                               f == FrameLen(recsA[i])
                               L == Len(a)
                    <5>1. p \in Nat /\ q = p + f /\ f \in Nat /\ q <= L /\ L \in Nat /\ w \in 1..f
                        BY <1>1, <3>3, <3>5
                    <5> HIDE <1>0 DEF p, q, f, L
                    <5>2. p + w \in 1..L
                        BY <5>1
                    <5> QED BY <5>2 DEF p, L
                <4> QED BY <1>3, <3>4, <4>1 DEF FrameAt
            <3> QED BY <3>2, <3>3, <3>6, Zenon
        <2>2. CASE i \notin 1..m
            <3> DEFINE j == i - m
            <3>1. j \in 1..k /\ m + j = i /\ m + (j - 1) = i - 1 /\ j \in 0..k /\ j - 1 \in 0..k
                BY <1>1, <1>2, <1>4, <2>2
            <3> HIDE DEF j
            <3>2. /\ at[i] = Len(a) + atB[j] /\ at[i - 1] = Len(a) + atB[j - 1]
                  /\ recs[i] = recsB[j]
                BY <1>4, <1>5, <3>1
            <3>3. /\ atB[j] = atB[j - 1] + FrameLen(recsB[j]) /\ recsB[j] \in Record
                  /\ atB[j - 1] \in Nat /\ atB[j] \in Nat /\ atB[j] <= Len(b)
                BY <1>2, <3>1
            <3>4. FrameAt(b, atB[j - 1], recsB[j])
                BY <3>1 DEF Holds
            <3>5. FrameLen(recsB[j]) \in Nat
                BY <3>3, FrameFacts
            <3>6. FrameAt(ab, Len(a) + atB[j - 1], recsB[j])
                <4> SUFFICES ASSUME NEW w \in 1..FrameLen(recsB[j])
                             PROVE  ab[Len(a) + atB[j - 1] + w] = Frame(recsB[j])[w]
                    BY DEF FrameAt
                <4>1. atB[j - 1] + w \in 1..Len(b)
                    BY <1>2, <3>3, <3>5
                <4>2. Len(a) + (atB[j - 1] + w) = Len(a) + atB[j - 1] + w
                    BY <1>1, <3>3
                <4>3. ab[Len(a) + (atB[j - 1] + w)] = b[atB[j - 1] + w]
                    BY <1>3, <4>1
                <4>4. b[atB[j - 1] + w] = Frame(recsB[j])[w]
                    BY <3>4 DEF FrameAt
                <4> QED BY <4>2, <4>3, <4>4, Zenon
            <3>7. Len(a) + atB[j] = Len(a) + atB[j - 1] + FrameLen(recsB[j])
                BY <1>1, <3>3, <3>5
            <3> QED BY <3>2, <3>6, <3>7, Zenon
        <2> QED BY <2>1, <2>2
    <1>8. Holds(ab, recs, at)
        BY <1>4, <1>6, <1>7 DEF Holds
    <1>9. at[m + k] = Len(a) + atB[k]
        <2>1. k \in 0..k
            BY <1>2
        <2> QED BY <1>5, <2>1
    <1>10. at[Len(recs)] = Len(ab)
        BY <1>3, <1>4, <1>9, Zenon
    <1>11. AllFrames(ab, recs, at)
        BY <1>3, <1>8, <1>10, Zenon DEF AllFrames
    <1> QED BY <1>11, Zenon DEF ab, recs

(* Where the frames from the p-th on end, counted from its beginning. *)
LastOffsets(at, p, m) == [i \in 0..(m - p) |-> at[p + i] - at[p]]

(* The frames from one on. *)
LEMMA HoldsRest ==
    ASSUME NEW blob \in Seq(Words), NEW recs, NEW at, Holds(blob, recs, at), NEW p \in 0..Len(recs)
    PROVE  LET m == Len(recs)
               rest == SubSeq(blob, at[p] + 1, at[m])
           IN  /\ rest \in Seq(Words) /\ Len(rest) = at[m] - at[p] /\ Len(SubSeq(recs, p + 1, m)) = m - p
               /\ Holds(rest, SubSeq(recs, p + 1, m), LastOffsets(at, p, m))
               /\ LastOffsets(at, p, m)[m - p] = Len(rest)
    <1> DEFINE m == Len(recs)
               rest == SubSeq(blob, at[p] + 1, at[m])
               last == SubSeq(recs, p + 1, m)
               offs == LastOffsets(at, p, m)
    <1>1. /\ Len(blob) \in Nat /\ m \in Nat /\ at[0] = 0 /\ recs \in Seq(Record)
          /\ \A i \in 1..m : recs[i] \in Record /\ at[i] = at[i - 1] + FrameLen(recs[i])
          /\ \A i \in 0..m : at[i] \in Nat /\ at[i] <= Len(blob)
          /\ \A i, j \in 0..m : i < j => at[i] < at[j]
        <2>1. Len(blob) \in Nat /\ recs \in Seq(Record)
            BY DEF Holds
        <2> QED BY <2>1, OffsetFacts
    <1>2. /\ at[p] \in Nat /\ at[m] \in Nat /\ at[p] <= at[m] /\ at[m] <= Len(blob)
          /\ p \in Nat /\ m - p \in Nat
        BY <1>1
    <1>3. /\ rest \in Seq(Words) /\ Len(rest) = at[m] - at[p]
          /\ \A w \in 1..(at[m] - at[p]) : rest[w] = blob[at[p] + w]
        <2> DEFINE lo == at[p]
                   hi == at[m]
        <2>1. lo \in Nat /\ hi \in Nat /\ lo <= hi /\ hi <= Len(blob)
            BY <1>2
        <2> HIDE DEF lo, hi
        <2>2. /\ SubSeq(blob, lo + 1, hi) \in Seq(Words) /\ Len(SubSeq(blob, lo + 1, hi)) = hi - lo
              /\ \A w \in 1..(hi - lo) : SubSeq(blob, lo + 1, hi)[w] = blob[lo + w]
            BY <2>1, Part
        <2> QED BY <2>2, Zenon DEF lo, hi
    <1>4. /\ last \in Seq(Record) /\ Len(last) = m - p
          /\ \A i \in 1..(m - p) : last[i] = recs[p + i]
        <2>1. p <= m /\ m <= Len(recs)
            BY <1>1
        <2> QED BY <1>1, <1>2, <2>1, Part
    <1>5. offs = [i \in 0..(m - p) |-> offs[i]] /\ \A i \in 0..(m - p) : offs[i] = at[p + i] - at[p]
        BY DEF LastOffsets
    <1> HIDE DEF rest, last, offs
    <1>6. ASSUME NEW i \in 0..(m - p)
          PROVE  at[p + i] \in Nat /\ offs[i] \in 0..Len(rest) /\ offs[i] = at[p + i] - at[p]
        <2>1. p + i \in 0..m
            BY <1>1, <1>2
        <2>2. at[p + i] \in Nat /\ at[p] <= at[p + i] /\ at[p + i] <= at[m]
            <3>1. at[p + i] \in Nat
                BY <1>1, <2>1
            <3>2. i = 0 \/ at[p] < at[p + i]
                BY <1>1, <1>2, <2>1
            <3>3. p + i = m \/ at[p + i] < at[m]
                BY <1>1, <1>2, <2>1
            <3>4. i = 0 => p + i = p
                BY <1>2
            <3> QED BY <1>2, <3>1, <3>2, <3>3, <3>4
        <2> QED BY <1>2, <1>3, <1>5, <2>2
    <1>7. offs \in [0..Len(last) -> 0..Len(rest)] /\ offs[0] = 0
        <2>1. offs \in [0..(m - p) -> 0..Len(rest)]
            BY <1>5, <1>6
        <2>2. offs[0] = 0
            <3>1. 0 \in 0..(m - p) /\ p + 0 = p
                BY <1>2
            <3> QED BY <1>2, <1>5, <3>1
        <2> QED BY <1>4, <2>1, <2>2
    <1>8. ASSUME NEW i \in 1..Len(last)
          PROVE  offs[i] = offs[i - 1] + FrameLen(last[i]) /\ FrameAt(rest, offs[i - 1], last[i])
        <2>1. /\ i \in 0..(m - p) /\ i - 1 \in 0..(m - p) /\ p + i \in 1..m
              /\ p + (i - 1) = (p + i) - 1 /\ i \in 1..(m - p)
            BY <1>1, <1>2, <1>4
        <2>2. last[i] = recs[p + i]
            BY <1>4, <2>1
        <2>3. /\ recs[p + i] \in Record
              /\ at[p + i] = at[p + (i - 1)] + FrameLen(recs[p + i])
            BY <1>1, <2>1
        <2>4. FrameAt(blob, at[p + (i - 1)], recs[p + i])
            BY <2>1 DEF Holds
        <2>5. FrameLen(recs[p + i]) \in Nat
            BY <2>3, FrameFacts
        <2>6. /\ offs[i] = at[p + i] - at[p] /\ offs[i] \in 0..Len(rest) /\ at[p + i] \in Nat
              /\ offs[i - 1] = at[p + (i - 1)] - at[p] /\ at[p + (i - 1)] \in Nat
              /\ offs[i - 1] \in 0..Len(rest)
            BY <1>6, <2>1
        <2> DEFINE A == at[p + i]
                   B == at[p + (i - 1)]
                   F == FrameLen(recs[p + i])
        <2>7a. /\ A \in Nat /\ B \in Nat /\ F \in Nat /\ A = B + F
               /\ offs[i] = A - at[p] /\ offs[i - 1] = B - at[p]
            BY <2>3, <2>5, <2>6, Zenon
        <2> HIDE DEF A, B, F
        <2>7b. offs[i] = offs[i - 1] + F
            BY <1>2, <2>7a
        <2>7. offs[i] = offs[i - 1] + FrameLen(recs[p + i])
            BY <2>7b DEF F
        <2>8. FrameAt(rest, offs[i - 1], recs[p + i])
            <3> SUFFICES ASSUME NEW w \in 1..FrameLen(recs[p + i])
                         PROVE  rest[offs[i - 1] + w] = Frame(recs[p + i])[w]
                BY DEF FrameAt
            <3>0. w \in Nat /\ w >= 1 /\ w <= F
                BY <2>5 DEF F
            <3>1. offs[i - 1] + w \in 1..(at[m] - at[p])
                <4>1. offs[i] \in 0..Len(rest) /\ offs[i - 1] \in 0..Len(rest) /\ Len(rest) \in Nat
                    BY <1>3, <2>6
                <4>2. offs[i - 1] + w \in 1..Len(rest)
                    <5> DEFINE before == offs[i - 1]
                               after == offs[i]
                               all == Len(rest)
                    <5>1. /\ before \in 0..all /\ after \in 0..all /\ all \in Nat
                          /\ after = before + F /\ F \in Nat
                        BY <2>7a, <2>7b, <4>1, Zenon
                    <5> HIDE DEF before, after, all
                    <5>2. before + w \in 1..all
                        BY <3>0, <5>1
                    <5> QED BY <5>2 DEF before, all
                <4> QED BY <1>3, <4>2, Zenon
            <3>2. rest[offs[i - 1] + w] = blob[at[p] + (offs[i - 1] + w)]
                BY <1>3, <3>1
            <3>3. at[p] + (offs[i - 1] + w) = at[p + (i - 1)] + w
                <4>1. at[p] + (offs[i - 1] + w) = B + w
                    BY <1>2, <2>7a, <3>0
                <4> QED BY <4>1 DEF B
            <3>4. blob[at[p + (i - 1)] + w] = Frame(recs[p + i])[w]
                BY <2>4 DEF FrameAt
            <3> QED BY <3>2, <3>3, <3>4, Zenon
        <2> QED BY <2>2, <2>7, <2>8, Zenon
    <1>9. Holds(rest, last, offs)
        BY <1>4, <1>7, <1>8 DEF Holds
    <1>10. offs[m - p] = Len(rest)
        <2>1. m - p \in 0..(m - p) /\ p + (m - p) = m
            BY <1>2
        <2> QED BY <1>3, <1>5, <2>1
    <1> QED BY <1>3, <1>4, <1>9, <1>10, Zenon DEF rest, last, offs

-----------------------------------------------------------------------------
(* Compaction                                                              *)

(* The records of a job come in the order in which they were persisted. *)
Ordered(recs) ==
    \A i, j \in DOMAIN recs : i < j /\ recs[i].job = recs[j].job => recs[i].seq < recs[j].seq

(* A set with at most one record of a job. *)
OnePerJob(S) == \A r, q \in S : r.job = q.job => r = q

(* What `latest` is in truncate_prefix(): one record of every job, the last. *)
LEMMA LatestFacts ==
    ASSUME NEW recs \in Seq(Record)
    PROVE  /\ Latest(recs) \subseteq RangeOf(recs) /\ Latest(recs) \subseteq Record
           /\ OnePerJob(Latest(recs))
           /\ \A i \in 1..Len(recs) : \E j \in 1..Len(recs) :
                  i <= j /\ recs[j] \in Latest(recs) /\ recs[j].job = recs[i].job
    <1> DEFINE m == Len(recs)
               isLast(k) == \A later \in DOMAIN recs : later > k => recs[later].job # recs[k].job
    <1>1. m \in Nat /\ DOMAIN recs = 1..m /\ \A i \in 1..m : recs[i] \in Record
        OBVIOUS
    <1>2. /\ \A r \in Latest(recs) : \E k \in 1..m : r = recs[k] /\ isLast(k)
          /\ \A k \in 1..m : isLast(k) => recs[k] \in Latest(recs)
        BY <1>1, Zenon DEF Latest
    <1>3. Latest(recs) \subseteq RangeOf(recs)
        BY <1>1, <1>2, Zenon DEF RangeOf
    <1>4. Latest(recs) \subseteq Record
        BY <1>1, <1>2, Zenon
    <1>5. OnePerJob(Latest(recs))
        <2> SUFFICES ASSUME NEW r \in Latest(recs), NEW q \in Latest(recs), r.job = q.job
                     PROVE  r = q
            BY DEF OnePerJob
        <2>1. PICK k \in 1..m : r = recs[k] /\ isLast(k)
            BY <1>2, Zenon
        <2>2. PICK l \in 1..m : q = recs[l] /\ isLast(l)
            BY <1>2, Zenon
        <2>3. ~(l > k) /\ ~(k > l)
            BY <1>1, <2>1, <2>2, Zenon
        <2>4. k = l
            BY <1>1, <2>3
        <2> QED BY <2>1, <2>2, <2>4
    <1>6. ASSUME NEW i \in 1..m
          PROVE  \E j \in 1..m : i <= j /\ recs[j] \in Latest(recs) /\ recs[j].job = recs[i].job
        <2> DEFINE S == {d \in 0..m : m - d \in 1..m /\ recs[m - d].job = recs[i].job}
        <2>1. S \in SUBSET Nat
            BY <1>1
        <2>2. m - i \in S
            <3>1. m - i \in 0..m /\ m - (m - i) = i
                BY <1>1
            <3> QED BY <3>1
        <2>3. PICK d \in S : \A e \in S : d <= e
            BY <2>1, <2>2, LeastOf
        <2> DEFINE j == m - d
        <2>4. j \in 1..m /\ recs[j].job = recs[i].job /\ i <= j
            <3>1. d \in 0..m /\ m - d \in 1..m /\ recs[m - d].job = recs[i].job
                BY <2>3
            <3>2. d <= m - i
                BY <2>2, <2>3
            <3>3. i <= m - d
                BY <1>1, <3>1, <3>2
            <3> QED BY <3>1, <3>3
        <2>5. isLast(j)
            <3> SUFFICES ASSUME NEW l \in DOMAIN recs, l > j, recs[l].job = recs[j].job
                         PROVE  FALSE
                BY Zenon
            <3>1. l \in 1..m /\ m - l \in 0..m /\ m - (m - l) = l
                BY <1>1
            <3>2. m - l \in S
                BY <2>4, <3>1
            <3>3. d <= m - l
                BY <2>3, <3>2
            <3> QED BY <1>1, <3>1, <3>3
        <2> QED BY <1>2, <2>4, <2>5, Zenon
    <1> QED BY <1>3, <1>4, <1>5, <1>6

(* One round of the retention rule of truncate_prefix(). *)
RetainRound(terminals, age, before) ==
    LET next == {r \in terminals : r.seq = MaxAppends + 1 - age}
        fits == {r \in next : /\ Cardinality(before.kept) < MaxTerminalJobs
                              /\ FrameLen(r) <= MaxTerminalWords - before.words}
    IN  IF fits = {} THEN before
        ELSE [kept |-> before.kept \cup fits,
              words |-> before.words + FrameLen(CHOOSE r \in fits : TRUE)]

(* The retention rule keeps some of the finished jobs it is given. *)
LEMMA RetainedFacts ==
    ASSUME NEW terminals
    PROVE  RetainedTerminal(terminals) \subseteq terminals
    <1> DEFINE Runs(f, m) ==
                   f = [age \in 0..m |-> IF age = 0 THEN [kept |-> {}, words |-> 0]
                                         ELSE RetainRound(terminals, age, f[age - 1])]
               S == {m \in Nat : \E f : Runs(f, m)}
    <1>1. 0 \in S
        <2>1. Runs([age \in 0..0 |-> [kept |-> {}, words |-> 0]], 0)
            OBVIOUS
        <2> QED BY <2>1
    <1>2. ASSUME NEW m \in Nat, m \in S PROVE m + 1 \in S
        <2>1. PICK f : Runs(f, m)
            BY <1>2
        <2> DEFINE g == [age \in 0..(m + 1) |-> IF age <= m THEN f[age]
                                                ELSE RetainRound(terminals, m + 1, f[m])]
        <2>2. \A age \in 0..m : f[age] = IF age = 0 THEN [kept |-> {}, words |-> 0]
                                         ELSE RetainRound(terminals, age, f[age - 1])
            BY <2>1
        <2>3. ASSUME NEW age \in 0..(m + 1)
              PROVE  g[age] = IF age = 0 THEN [kept |-> {}, words |-> 0]
                              ELSE RetainRound(terminals, age, g[age - 1])
            <3>1. CASE age \in 0..m
                <4>1. age # 0 => g[age - 1] = f[age - 1]
                    BY <3>1
                <4>2. g[age] = f[age]
                    BY <3>1
                <4> HIDE DEF g
                <4> QED BY <2>2, <3>1, <4>1, <4>2, Zenon
            <3>2. CASE age = m + 1
                <4>1. g[age] = RetainRound(terminals, m + 1, f[m]) /\ g[age - 1] = f[m] /\ age # 0
                    BY <3>2
                <4> HIDE DEF g
                <4> QED BY <3>2, <4>1, Zenon
            <3> QED BY <3>1, <3>2
        <2>4. Runs(g, m + 1)
            BY <2>3, Zenon
        <2>5. m + 1 \in Nat
            OBVIOUS
        <2> QED BY <2>4, <2>5, Zenon
    <1>3. MaxAppends \in S /\ MaxAppends \in Nat
        <2>1. Nat \subseteq S
            <3> HIDE DEF S
            <3> QED BY <1>1, <1>2, ReachesAll, Zenon
        <2> QED BY <2>1, JobLogConstants
    <1> DEFINE scan == CHOOSE f : Runs(f, MaxAppends)
    <1>4. Runs(scan, MaxAppends)
        <2>1. \E f : Runs(f, MaxAppends)
            BY <1>3
        <2> QED BY <2>1, Zenon
    <1>5. RetainedTerminal(terminals) = scan[MaxAppends].kept
        BY Zenon DEF RetainedTerminal, RetainRound
    <1>6. \A age \in 0..MaxAppends : scan[age] = IF age = 0 THEN [kept |-> {}, words |-> 0]
                                                ELSE RetainRound(terminals, age, scan[age - 1])
        BY <1>4, Zenon
    <1> HIDE DEF scan
    <1> DEFINE T == {m \in Nat : m <= MaxAppends => scan[m].kept \subseteq terminals}
    <1>7. 0 \in T
        <2>1. 0 \in 0..MaxAppends
            BY <1>3
        <2>2. scan[0] = [kept |-> {}, words |-> 0]
            BY <1>6, <2>1, Zenon
        <2>3. scan[0].kept = {}
            BY <2>2
        <2> QED BY <2>3
    <1>8. ASSUME NEW m \in Nat, m \in T PROVE m + 1 \in T
        <2> SUFFICES ASSUME m + 1 <= MaxAppends PROVE scan[m + 1].kept \subseteq terminals
            OBVIOUS
        <2>1. m + 1 \in 0..MaxAppends /\ m + 1 # 0 /\ (m + 1) - 1 = m
            BY <1>3
        <2>2. scan[m + 1] = RetainRound(terminals, m + 1, scan[m])
            BY <1>6, <2>1, Zenon
        <2>3. scan[m].kept \subseteq terminals
            BY <1>3, <1>8
        <2> DEFINE fits == {r \in {r \in terminals : r.seq = MaxAppends + 1 - (m + 1)} :
                              /\ Cardinality(scan[m].kept) < MaxTerminalJobs
                              /\ FrameLen(r) <= MaxTerminalWords - scan[m].words}
                   more == [kept |-> scan[m].kept \cup fits,
                            words |-> scan[m].words + FrameLen(CHOOSE r \in fits : TRUE)]
        <2>4. scan[m + 1] = IF fits = {} THEN scan[m] ELSE more
            BY <2>2, Zenon DEF RetainRound
        <2>5. fits \subseteq terminals /\ more.kept = scan[m].kept \cup fits
            OBVIOUS
        <2> HIDE DEF fits, more
        <2>6. scan[m + 1] = scan[m] \/ scan[m + 1] = more
            BY <2>4
        <2> QED BY <2>3, <2>5, <2>6, Zenon
    <1>9. Nat \subseteq T
        <2> HIDE DEF T
        <2> QED BY <1>7, <1>8, ReachesAll, Zenon
    <1>10. scan[MaxAppends].kept \subseteq terminals
        BY <1>3, <1>9
    <1> QED BY <1>5, <1>10

(* What is kept of a prefix: only latest records, and those of unfinished
   jobs for certain. *)
LEMMA SelectedFacts ==
    ASSUME NEW recs \in Seq(Record)
    PROVE  /\ Selected(recs) \subseteq Latest(recs) /\ Selected(recs) \subseteq Record
           /\ OnePerJob(Selected(recs))
           /\ \A r \in Latest(recs) : ~r.terminal => r \in Selected(recs)
    <1> DEFINE latest == Latest(recs)
               finished == {r \in latest : r.terminal}
    <1>1. latest \subseteq Record /\ OnePerJob(latest)
        BY LatestFacts
    <1>2. RetainedTerminal(finished) \subseteq finished
        BY RetainedFacts
    <1>3. Selected(recs) = {r \in latest : ~r.terminal} \cup RetainedTerminal(finished)
        BY Zenon DEF Selected
    <1>4. Selected(recs) \subseteq latest
        <2> HIDE DEF latest
        <2> QED BY <1>2, <1>3
    <1> QED BY <1>1, <1>3, <1>4, Zenon DEF OnePerJob

(* The selected records of the first jobs, in order of creation. *)
Gathers(kept, selected, j) ==
    /\ kept \in Seq(Record)
    /\ \A i \in 1..Len(kept) : kept[i] \in selected /\ kept[i].job <= j
    /\ \A i, k \in 1..Len(kept) : i < k => kept[i].job < kept[k].job
    /\ \A r \in selected : r.job <= j => \E i \in 1..Len(kept) : kept[i] = r

(* The next job has no selected record. *)
LEMMA GathersNone ==
    ASSUME NEW selected \in SUBSET Record, NEW kept, NEW j \in Nat, Gathers(kept, selected, j),
           \A r \in selected : r.job # j + 1
    PROVE  Gathers(kept, selected, j + 1)
    <1>1. \A r \in selected : r.job \in Int
        <2>1. \A r \in selected : r.job \in 1..MaxJobs
            BY DEF Record
        <2> QED BY <2>1
    <1>2. /\ kept \in Seq(Record) /\ \A i \in 1..Len(kept) : kept[i] \in selected /\ kept[i].job <= j
          /\ \A i, k \in 1..Len(kept) : i < k => kept[i].job < kept[k].job
          /\ \A r \in selected : r.job <= j => \E i \in 1..Len(kept) : kept[i] = r
        BY DEF Gathers
    <1>3. \A i \in 1..Len(kept) : kept[i].job <= j + 1
        <2> SUFFICES ASSUME NEW i \in 1..Len(kept) PROVE kept[i].job <= j + 1
            OBVIOUS
        <2>1. kept[i].job \in Int /\ kept[i].job <= j
            BY <1>1, <1>2
        <2> QED BY <2>1
    <1>4. \A r \in selected : r.job <= j + 1 => r.job <= j
        BY <1>1
    <1> QED BY <1>2, <1>3, <1>4, Zenon DEF Gathers

(* The next job has one. *)
LEMMA GathersOne ==
    ASSUME NEW selected \in SUBSET Record, OnePerJob(selected), NEW kept, NEW j \in Nat,
           Gathers(kept, selected, j), NEW r \in selected, r.job = j + 1
    PROVE  Gathers(Append(kept, r), selected, j + 1)
    <1> DEFINE long == Append(kept, r)
               m == Len(kept)
    <1>1. \A q \in selected : q.job \in Int
        <2>1. \A q \in selected : q.job \in 1..MaxJobs
            BY DEF Record
        <2> QED BY <2>1
    <1>2. /\ kept \in Seq(Record) /\ \A i \in 1..m : kept[i] \in selected /\ kept[i].job <= j
          /\ \A i, k \in 1..m : i < k => kept[i].job < kept[k].job
          /\ \A q \in selected : q.job <= j => \E i \in 1..m : kept[i] = q
        BY DEF Gathers
    <1>3. /\ long \in Seq(Record) /\ Len(long) = m + 1 /\ m \in Nat /\ long[m + 1] = r
          /\ \A i \in 1..m : long[i] = kept[i]
        BY <1>2
    <1> HIDE DEF long
    <1>4. \A i \in 1..m : kept[i].job \in Int
        BY <1>1, <1>2
    <1>5. ASSUME NEW i \in 1..(m + 1) PROVE long[i] \in selected /\ long[i].job <= j + 1
        <2>1. CASE i = m + 1
            BY <1>3, <2>1
        <2>2. CASE i \in 1..m
            <3>1. kept[i].job \in Int /\ kept[i].job <= j
                BY <1>2, <1>4, <2>2
            <3>2. kept[i].job <= j + 1
                BY <3>1
            <3> QED BY <1>2, <1>3, <2>2, <3>2
        <2> QED BY <1>3, <2>1, <2>2
    <1>6. ASSUME NEW i \in 1..(m + 1), NEW k \in 1..(m + 1), i < k PROVE long[i].job < long[k].job
        <2>1. i \in 1..m
            BY <1>3, <1>6
        <2>2. CASE k = m + 1
            <3>1. kept[i].job \in Int /\ kept[i].job <= j
                BY <1>2, <1>4, <2>1
            <3>2. kept[i].job < j + 1
                BY <3>1
            <3> QED BY <1>3, <2>1, <2>2, <3>2
        <2>3. CASE k \in 1..m
            BY <1>2, <1>3, <1>6, <2>1, <2>3
        <2> QED BY <1>3, <2>2, <2>3
    <1>7. ASSUME NEW q \in selected, q.job <= j + 1 PROVE \E i \in 1..(m + 1) : long[i] = q
        <2>1. CASE q.job = j + 1
            <3>1. q = r
                BY <2>1 DEF OnePerJob
            <3>2. m + 1 \in 1..(m + 1)
                BY <1>3
            <3> QED BY <1>3, <3>1, <3>2
        <2>2. CASE q.job # j + 1
            <3>1. q.job <= j
                BY <1>1, <1>7, <2>2
            <3>2. PICK i \in 1..m : kept[i] = q
                BY <1>2, <3>1
            <3>3. i \in 1..(m + 1)
                BY <1>3
            <3> QED BY <1>3, <3>2, <3>3
        <2> QED BY <2>1, <2>2
    <1>8. Gathers(long, selected, j + 1)
        BY <1>3, <1>5, <1>6, <1>7 DEF Gathers
    <1> QED BY <1>8 DEF long

(* A frame behind frames. *)
LEMMA FramesMore ==
    ASSUME NEW blob, NEW recs, NEW at, AllFrames(blob, recs, at), NEW r \in Record
    PROVE  AllFrames(blob \o Frame(r), Append(recs, r), MoreOffsets(at, Len(recs), r))
    <1> DEFINE long == blob \o Frame(r)
    <1>1. /\ blob \in Seq(Words) /\ Holds(blob, recs, at) /\ at[Len(recs)] = Len(blob)
          /\ Len(blob) \in Nat /\ recs \in Seq(Record) /\ Len(recs) \in Nat
        BY DEF AllFrames, Holds
    <1>2. Frame(r) \in Seq(Words) /\ Len(Frame(r)) = FrameLen(r) /\ FrameLen(r) \in Nat
        BY FrameFacts
    <1>3. /\ long \in Seq(Words) /\ Len(long) = Len(blob) + FrameLen(r)
          /\ \A i \in 1..Len(blob) : long[i] = blob[i]
          /\ \A i \in 1..FrameLen(r) : long[Len(blob) + i] = Frame(r)[i]
        <2>1. /\ long \in Seq(Words) /\ Len(long) = Len(blob) + Len(Frame(r))
              /\ \A i \in 1..Len(blob) : long[i] = blob[i]
              /\ \A i \in 1..Len(Frame(r)) : long[Len(blob) + i] = Frame(r)[i]
            <3> DEFINE f == Frame(r)
            <3>1. f \in Seq(Words) /\ blob \in Seq(Words)
                BY <1>1, <1>2
            <3> HIDE DEF f
            <3>2. /\ blob \o f \in Seq(Words) /\ Len(blob \o f) = Len(blob) + Len(f)
                  /\ \A i \in 1..Len(blob) : (blob \o f)[i] = blob[i]
                  /\ \A i \in 1..Len(f) : (blob \o f)[Len(blob) + i] = f[i]
                BY <3>1, Concatenated
            <3> QED BY <3>2, Zenon DEF f
        <2> HIDE DEF long
        <2> QED BY <1>2, <2>1, Zenon
    <1> HIDE DEF long
    <1>4. Holds(long, recs, at)
        <2>1. Len(blob) <= Len(long)
            BY <1>1, <1>2, <1>3
        <2> QED BY <1>1, <1>3, <2>1, HoldsLonger
    <1>5. FrameAt(long, at[Len(recs)], r) /\ at[Len(recs)] + FrameLen(r) <= Len(long)
        <2>1. Len(blob) + FrameLen(r) <= Len(long)
            BY <1>1, <1>2, <1>3
        <2> QED BY <1>1, <1>3, <2>1, Zenon DEF FrameAt
    <1> DEFINE more == MoreOffsets(at, Len(recs), r)
    <1>6. Holds(long, Append(recs, r), more) /\ more[Len(recs) + 1] = at[Len(recs)] + FrameLen(r)
        BY <1>3, <1>4, <1>5, HoldsMore
    <1>7. Len(Append(recs, r)) = Len(recs) + 1
        BY <1>1
    <1> QED BY <1>1, <1>3, <1>6, <1>7, Zenon DEF AllFrames, long

(* No frames. *)
LEMMA NoFrames ==
    AllFrames(<<>>, <<>>, [i \in 0..0 |-> 0])
    <1> DEFINE at == [i \in 0..0 |-> 0]
    <1>1. <<>> \in Seq(Words) /\ Len(<<>>) = 0
        OBVIOUS
    <1>2. <<>> \in Seq(Record)
        OBVIOUS
    <1>3. at \in [0..0 -> 0..0] /\ at[0] = 0
        OBVIOUS
    <1>4. \A i \in 1..0 : FALSE
        OBVIOUS
    <1> HIDE DEF at
    <1>5. Holds(<<>>, <<>>, at)
        BY <1>1, <1>2, <1>3, <1>4 DEF Holds
    <1> QED BY <1>1, <1>3, <1>5 DEF AllFrames, at

(* What truncate_prefix() writes for the records it keeps. *)
LEMMA FramesInOrderFacts ==
    ASSUME NEW selected \in SUBSET Record, OnePerJob(selected)
    PROVE  \E kept, at : /\ AllFrames(FramesInOrder(selected), kept, at)
                         /\ Gathers(kept, selected, MaxJobs)
    <1> DEFINE own(j) == {r \in selected : r.job = j}
               Body1(f, j) == IF own(j) = {} THEN f[j - 1]
                              ELSE f[j - 1] \o Frame(CHOOSE r \in own(j) : TRUE)
               Runs(f, m) == f = [j \in 0..m |-> IF j = 0 THEN <<>> ELSE Body1(f, j)]
               S == {m \in Nat : \E f : Runs(f, m)}
    <1>1. 0 \in S
        <2>1. Runs([j \in 0..0 |-> <<>>], 0)
            OBVIOUS
        <2> QED BY <2>1
    <1>2. ASSUME NEW m \in Nat, m \in S PROVE m + 1 \in S
        <2>1. PICK f : Runs(f, m)
            BY <1>2
        <2> DEFINE last == IF own(m + 1) = {} THEN f[m]
                           ELSE f[m] \o Frame(CHOOSE r \in own(m + 1) : TRUE)
                   g == [j \in 0..(m + 1) |-> IF j <= m THEN f[j] ELSE last]
        <2>2. \A j \in 0..m : f[j] = IF j = 0 THEN <<>> ELSE Body1(f, j)
            BY <2>1
        <2>3. ASSUME NEW j \in 0..(m + 1)
              PROVE  g[j] = IF j = 0 THEN <<>> ELSE Body1(g, j)
            <3>1. CASE j \in 0..m
                <4>1. j # 0 => g[j - 1] = f[j - 1]
                    BY <3>1
                <4>2. g[j] = f[j]
                    BY <3>1
                <4> HIDE DEF g, own
                <4> QED BY <2>2, <3>1, <4>1, <4>2, Zenon
            <3>2. CASE j = m + 1
                <4> HIDE DEF last
                <4>1. g[j] = last /\ g[j - 1] = f[m] /\ j # 0
                    BY <3>2
                <4> HIDE DEF g, own
                <4> QED BY <3>2, <4>1, Zenon DEF last
            <3> QED BY <3>1, <3>2
        <2>4. Runs(g, m + 1)
            <3> HIDE DEF own, last
            <3> QED BY <2>3, Zenon
        <2>5. m + 1 \in Nat
            OBVIOUS
        <2> QED BY <2>4, <2>5, Zenon
    <1>3. MaxJobs \in S /\ MaxJobs \in Nat
        <2>1. Nat \subseteq S
            <3> HIDE DEF S
            <3> QED BY <1>1, <1>2, ReachesAll, Zenon
        <2> QED BY <2>1, JobLogConstants
    <1> DEFINE upTo == CHOOSE f : Runs(f, MaxJobs)
    <1>4. Runs(upTo, MaxJobs)
        <2>1. \E f : Runs(f, MaxJobs)
            BY <1>3
        <2> QED BY <2>1, Zenon
    <1>5. FramesInOrder(selected) = upTo[MaxJobs]
        BY Zenon DEF FramesInOrder
    <1>6. \A j \in 0..MaxJobs : upTo[j] = IF j = 0 THEN <<>> ELSE Body1(upTo, j)
        BY <1>4, Zenon
    <1> HIDE DEF upTo
    <1> DEFINE Good(j) == \E kept, at : AllFrames(upTo[j], kept, at) /\ Gathers(kept, selected, j)
               T == {j \in Nat : j <= MaxJobs => Good(j)}
    <1>7. 0 \in T
        <2>1. 0 \in 0..MaxJobs
            BY <1>3
        <2>2. upTo[0] = <<>>
            BY <1>6, <2>1, Zenon
        <2>3. Gathers(<<>>, selected, 0)
            <3>1. <<>> \in Seq(Record)
                OBVIOUS
            <3>2. \A r \in selected : ~(r.job <= 0)
                <4>1. \A r \in selected : r.job \in 1..MaxJobs
                    BY DEF Record
                <4> QED BY <4>1
            <3> QED BY <3>1, <3>2 DEF Gathers
        <2> QED BY <2>2, <2>3, NoFrames
    <1>8. ASSUME NEW j \in Nat, j \in T PROVE j + 1 \in T
        <2>0. j + 1 \in Nat
            OBVIOUS
        <2> SUFFICES ASSUME j + 1 <= MaxJobs PROVE Good(j + 1)
            BY <2>0, Zenon
        <2>1. j + 1 \in 0..MaxJobs /\ j + 1 # 0 /\ (j + 1) - 1 = j /\ j <= MaxJobs
            BY <1>3
        <2>2. upTo[j + 1] = IF own(j + 1) = {} THEN upTo[j]
                            ELSE upTo[j] \o Frame(CHOOSE r \in own(j + 1) : TRUE)
            BY <1>6, <2>1, Zenon
        <2>3. Good(j)
            BY <1>8, <2>1, Zenon
        <2>4. PICK kept, at : AllFrames(upTo[j], kept, at) /\ Gathers(kept, selected, j)
            BY <2>3, Zenon
        <2>5. CASE own(j + 1) = {}
            <3>1. \A r \in selected : r.job # j + 1
                BY <2>5
            <3>2. Gathers(kept, selected, j + 1)
                BY <2>4, <3>1, GathersNone
            <3>3. upTo[j + 1] = upTo[j]
                BY <2>2, <2>5
            <3> QED BY <2>4, <3>2, <3>3, Zenon
        <2>6. CASE own(j + 1) # {}
            <3> DEFINE r == CHOOSE r \in own(j + 1) : TRUE
            <3>1. r \in selected /\ r.job = j + 1
                BY <2>6
            <3>2. upTo[j + 1] = upTo[j] \o Frame(r)
                BY <2>2, <2>6, Zenon
            <3> HIDE DEF r
            <3>3. Gathers(Append(kept, r), selected, j + 1)
                BY <2>4, <3>1, GathersOne
            <3>4. r \in Record
                BY <3>1
            <3>5. AllFrames(upTo[j] \o Frame(r), Append(kept, r), MoreOffsets(at, Len(kept), r))
                BY <2>4, <3>4, FramesMore
            <3> QED BY <3>2, <3>3, <3>5, Zenon
        <2> QED BY <2>5, <2>6
    <1>9. Nat \subseteq T
        <2> HIDE DEF T
        <2> QED BY <1>7, <1>8, ReachesAll, Zenon
    <1>10. Good(MaxJobs)
        <2>1. MaxJobs \in T /\ MaxJobs <= MaxJobs
            BY <1>3, <1>9
        <2> QED BY <2>1, Zenon
    <1> QED BY <1>5, <1>10, Zenon

-----------------------------------------------------------------------------
(* The invariant                                                           *)

LogTypes ==
    /\ file \in Seq(Words) /\ synced \in 0..Len(file)
    /\ fd \in BOOLEAN /\ bytes \in Nat
    /\ writing \in Record \cup {NoRecord} /\ offset \in Nat
    /\ writing # NoRecord => fd /\ offset <= FrameLen(writing) /\ writing.seq = appends
    /\ position \in Nat \cup {NoPosition}
    /\ position # NoPosition => fd
    /\ appends \in Nat /\ torn \in Nat /\ syncFaults \in Nat
    /\ acked \subseteq Record

(* persist() has written the whole frame. *)
Complete == writing # NoRecord /\ offset = FrameLen(writing)

(* What is behind the frames that can be read: nothing, and the last frame
   may be the one that is being synced, *)
EndsWhole(recs, at) ==
    /\ at[Len(recs)] = Len(file)
    /\ writing # NoRecord => \/ offset = 0
                             \/ /\ Complete /\ Len(recs) > 0
                                /\ recs[Len(recs)] = writing

(* the frame that is being written, *)
EndsWriting(recs, at) ==
    /\ writing # NoRecord /\ Partial(file, at[Len(recs)], writing, offset)
    /\ at[Len(recs)] + offset = Len(file)

(* a torn frame, left by a crash or by a write that failed, *)
EndsTorn(recs, at) ==
    /\ writing = NoRecord
    /\ \E r, k : /\ Partial(file, at[Len(recs)], r, k)
                 /\ torn = 0 => ~fd /\ at[Len(recs)] + k = Len(file)

(* or the frames persist() wrote behind one. *)
EndsBlocked(recs, at) ==
    /\ writing # NoRecord /\ torn # 0
    /\ \E r, k : /\ Partial(file, at[Len(recs)], r, k)
                 /\ at[Len(recs)] + k = Len(file) => offset = 0

Ended(recs, at) ==
    EndsWhole(recs, at) \/ EndsWriting(recs, at) \/ EndsTorn(recs, at) \/ EndsBlocked(recs, at)

(* The record that is being written is newer than the others. *)
Sequenced(recs) ==
    /\ Ordered(recs)
    /\ \A i \in 1..Len(recs) : recs[i].seq <= appends
    /\ writing # NoRecord /\ offset < FrameLen(writing) =>
         \A i \in 1..Len(recs) : recs[i].seq < appends

(* A record, or a newer one of its job, is among the first n or represented. *)
Known(r, recs, n) ==
    \/ \E i \in 1..n : recs[i].job = r.job /\ recs[i].seq >= r.seq
    \/ \E q \in represented : q.job = r.job /\ q.seq >= r.seq

(* What was acknowledged is known from synced words. *)
AckedKnown(recs, at) ==
    \E n \in 0..Len(recs) : at[n] <= synced /\ \A r \in acked : Known(r, recs, n)

(* The frames that bytes_ may have counted. *)
Settled(recs) == IF Complete THEN Len(recs) - 1 ELSE Len(recs)

BytesCounted(recs, at) ==
    fd => /\ bytes <= at[Settled(recs)]
          /\ syncFaults = 0 => bytes = at[Settled(recs)]

(* The records before a position are those it was read for. *)
Covered(recs, n) == \A i \in 1..n : recs[i] \in covers

PositionCovered(recs, at) ==
    position # NoPosition =>
        \E n \in 0..Settled(recs) :
            /\ Covered(recs, n) /\ position <= at[n]
            /\ syncFaults = 0 => position = at[n]

LogInv(recs, at) ==
    /\ Holds(file, recs, at) /\ Ended(recs, at) /\ Sequenced(recs)
    /\ torn = 0 => AckedKnown(recs, at) /\ BytesCounted(recs, at) /\ PositionCovered(recs, at)

(* The inductive invariant: the file is the frames of some records and then
   something that cannot be read. *)
Inv == LogTypes /\ \E recs, at : LogInv(recs, at)
-----------------------------------------------------------------------------
(* What the invariant says                                                 *)

(* Facts about the frames of the file. *)
LEMMA FileFacts ==
    ASSUME LogTypes, NEW recs, NEW at, LogInv(recs, at)
    PROVE  /\ Holds(file, recs, at) /\ file \in Seq(Words) /\ Len(file) \in Nat
           /\ recs \in Seq(Record) /\ Len(recs) \in Nat /\ DOMAIN recs = 1..Len(recs)
           /\ at \in [0..Len(recs) -> 0..Len(file)] /\ at[0] = 0
           /\ \A i \in 1..Len(recs) : recs[i] \in Record /\ at[i] = at[i - 1] + FrameLen(recs[i])
           /\ \A i \in 0..Len(recs) : at[i] \in Nat /\ at[i] <= Len(file)
           /\ \A i, j \in 0..Len(recs) : i < j => at[i] < at[j]
    <1>1. Holds(file, recs, at) /\ file \in Seq(Words) /\ Len(file) \in Nat
        BY DEF LogInv, LogTypes
    <1>2. recs \in Seq(Record) /\ at \in [0..Len(recs) -> 0..Len(file)]
        BY <1>1 DEF Holds
    <1>3. /\ Len(recs) \in Nat /\ DOMAIN recs = 1..Len(recs) /\ at[0] = 0
          /\ \A i \in 1..Len(recs) : recs[i] \in Record /\ at[i] = at[i - 1] + FrameLen(recs[i])
          /\ \A i \in 0..Len(recs) : at[i] \in Nat /\ at[i] <= Len(file)
          /\ \A i, j \in 0..Len(recs) : i < j => at[i] < at[j]
        BY <1>1, OffsetFacts
    <1> QED BY <1>1, <1>2, <1>3, Zenon

(* Sequence numbers and jobs are numbers. *)
LEMMA RecordFacts ==
    ASSUME NEW r \in Record
    PROVE  r.seq \in Nat /\ r.job \in Nat /\ r.job \in 1..MaxJobs /\ r # NoRecord
    <1>1. r.seq \in 1..MaxAppends /\ r.job \in 1..MaxJobs
        BY DEF Record
    <1> QED BY <1>1, NoRecordAssumption

(* Nothing behind the frames can be read; until a write fails it is at most
   one torn frame. *)
LEMMA FileStops ==
    ASSUME LogTypes, NEW recs, NEW at, LogInv(recs, at)
    PROVE  Stopped(file, at[Len(recs)]) /\ (torn = 0 => Clean(file, at[Len(recs)]))
    <1>1. Ended(recs, at)
        BY DEF LogInv
    <1>2. CASE EndsWhole(recs, at)
        BY <1>2 DEF EndsWhole, Stopped, Clean
    <1>3. CASE EndsWriting(recs, at)
        BY <1>3, Zenon DEF EndsWriting, Stopped, Clean
    <1>4. CASE EndsTorn(recs, at)
        BY <1>4, Zenon DEF EndsTorn, Stopped, Clean
    <1>5. CASE EndsBlocked(recs, at)
        BY <1>5, Zenon DEF EndsBlocked, Stopped
    <1> QED BY <1>1, <1>2, <1>3, <1>4, <1>5 DEF Ended

(* What can be read of the file. *)
LEMMA FileRead ==
    ASSUME LogTypes, NEW recs, NEW at, LogInv(recs, at)
    PROVE  /\ ValidPrefix(file).ok => /\ ValidPrefix(file).n = at[Len(recs)] /\ Readable(file) = recs
                                      /\ Intact(file) = SubSeq(file, 1, at[Len(recs)])
           /\ torn = 0 => ValidPrefix(file).ok
    <1>1. file \in Seq(Words) /\ Holds(file, recs, at)
        BY FileFacts
    <1>2. Stopped(file, at[Len(recs)]) /\ (torn = 0 => Clean(file, at[Len(recs)]))
        BY FileStops
    <1> QED BY <1>1, <1>2, ReadFacts

(* The first n words of the file hold j frames and nothing else that can be
   read. *)
CutAt(recs, at, n, j) ==
    /\ j \in 0..Len(recs) /\ at[j] <= n /\ (j < Len(recs) => n < at[j + 1])
    /\ Holds(SubSeq(file, 1, n), SubSeq(recs, 1, j), FirstOffsets(at, j))
    /\ Stopped(SubSeq(file, 1, n), at[j])
    /\ torn = 0 => Clean(SubSeq(file, 1, n), at[j])

(* What a crash may leave. *)
LEMMA FileCut ==
    ASSUME LogTypes, NEW recs, NEW at, LogInv(recs, at), NEW n \in 0..Len(file)
    PROVE  /\ SubSeq(file, 1, n) \in Seq(Words) /\ Len(SubSeq(file, 1, n)) = n
           /\ \E j : CutAt(recs, at, n, j)
    <1>1. file \in Seq(Words) /\ Holds(file, recs, at)
        BY FileFacts
    <1>2. Stopped(file, at[Len(recs)]) /\ (torn = 0 => Clean(file, at[Len(recs)]))
        BY FileStops
    <1>3. PICK j \in 0..Len(recs) :
               /\ at[j] <= n /\ (j < Len(recs) => n < at[j + 1])
               /\ Holds(SubSeq(file, 1, n), SubSeq(recs, 1, j), FirstOffsets(at, j))
               /\ Stopped(SubSeq(file, 1, n), at[j])
               /\ Clean(file, at[Len(recs)]) => Clean(SubSeq(file, 1, n), at[j])
        BY <1>1, <1>2, CutHolds
    <1>4. CutAt(recs, at, n, j)
        BY <1>2, <1>3, Zenon DEF CutAt
    <1> QED BY <1>1, <1>4, Cut

(* ... and what can be read of it. *)
LEMMA CutRead ==
    ASSUME LogTypes, NEW recs, NEW at, LogInv(recs, at), NEW n \in 0..Len(file),
           NEW j, CutAt(recs, at, n, j)
    PROVE  LET cut == SubSeq(file, 1, n) IN
           /\ ValidPrefix(cut).ok => ValidPrefix(cut).n = at[j] /\ Readable(cut) = SubSeq(recs, 1, j)
           /\ ~ValidPrefix(cut).ok => Readable(cut) = <<>>
           /\ torn = 0 => ValidPrefix(cut).ok
    <1> DEFINE cut == SubSeq(file, 1, n)
               first == SubSeq(recs, 1, j)
               offs == FirstOffsets(at, j)
    <1>1. cut \in Seq(Words)
        BY FileCut
    <1>2. recs \in Seq(Record) /\ j \in 0..Len(recs) /\ Len(recs) \in Nat
        BY FileFacts DEF CutAt
    <1>3. Len(first) = j
        BY <1>2, Cut
    <1>4. offs[j] = at[j]
        <2>1. j \in 0..j
            BY <1>2
        <2> QED BY <2>1 DEF FirstOffsets
    <1>5. /\ Holds(cut, first, offs) /\ Stopped(cut, at[j])
          /\ torn = 0 => Clean(cut, at[j])
        BY DEF CutAt
    <1> HIDE DEF cut, first, offs
    <1>6. Stopped(cut, offs[Len(first)])
        BY <1>3, <1>4, <1>5
    <1>7. /\ ValidPrefix(cut).ok => ValidPrefix(cut).n = offs[Len(first)] /\ Readable(cut) = first
          /\ ~ValidPrefix(cut).ok => Readable(cut) = <<>>
          /\ Clean(cut, offs[Len(first)]) => ValidPrefix(cut).ok
        BY <1>1, <1>5, <1>6, ReadFacts
    <1> QED BY <1>3, <1>4, <1>5, <1>7, Zenon DEF cut, first

(* Records in front of a cut are not behind it. *)
LEMMA CutOrder ==
    ASSUME LogTypes, NEW recs, NEW at, LogInv(recs, at), NEW n \in 0..Len(file),
           NEW j, CutAt(recs, at, n, j), NEW i \in 0..Len(recs), at[i] <= n
    PROVE  i <= j
    <1>1. /\ Len(recs) \in Nat /\ \A k \in 0..Len(recs) : at[k] \in Nat
          /\ \A k, l \in 0..Len(recs) : k < l => at[k] < at[l]
          /\ n \in Nat
        BY FileFacts
    <1>2. j \in 0..Len(recs) /\ (j < Len(recs) => n < at[j + 1])
        BY DEF CutAt
    <1> SUFFICES ASSUME j < i PROVE FALSE
        BY <1>1, <1>2
    <1>3. j + 1 \in 0..Len(recs) /\ n < at[j + 1] /\ at[j + 1] \in Nat /\ at[i] \in Nat
        BY <1>1, <1>2
    <1>4. at[j + 1] <= at[i]
        <2>1. CASE j + 1 = i
            BY <1>3, <2>1
        <2>2. CASE j + 1 # i
            <3>1. j + 1 < i
                BY <1>1, <1>2, <2>2
            <3>2. at[j + 1] < at[i]
                BY <1>1, <1>3, <3>1
            <3> QED BY <1>3, <3>2
        <2> QED BY <2>1, <2>2
    <1> QED BY <1>1, <1>3, <1>4

(* The records of a job are found in order, whatever happened. *)
LEMMA InvLastIsNewest == Inv => LastIsNewest
    <1> SUFFICES ASSUME Inv PROVE LastIsNewest
        OBVIOUS
    <1>1. LogTypes
        BY DEF Inv
    <1>2. PICK recs, at : LogInv(recs, at)
        BY DEF Inv
    <1>3. Ordered(recs) /\ recs \in Seq(Record)
        BY <1>1, <1>2, FileFacts DEF LogInv, Sequenced
    <1>4. ASSUME NEW n \in synced..Len(file)
          PROVE  Ordered(Readable(SubSeq(file, 1, n)))
        <2> DEFINE cut == SubSeq(file, 1, n)
        <2>1. n \in 0..Len(file)
            BY <1>1 DEF LogTypes
        <2>2. PICK j : CutAt(recs, at, n, j)
            BY <1>1, <1>2, <2>1, FileCut
        <2>3. Readable(cut) = SubSeq(recs, 1, j) \/ Readable(cut) = <<>>
            BY <1>1, <1>2, <2>1, <2>2, CutRead
        <2>4. j \in 0..Len(recs)
            BY <2>2 DEF CutAt
        <2> HIDE DEF cut
        <2>5. CASE Readable(cut) = <<>>
            <3>1. DOMAIN <<>> = {}
                OBVIOUS
            <3> QED BY <2>5, <3>1 DEF Ordered, cut
        <2>6. CASE Readable(cut) = SubSeq(recs, 1, j)
            <3> DEFINE first == SubSeq(recs, 1, j)
            <3>1. first \in Seq(Record) /\ Len(first) = j /\ \A i \in 1..j : first[i] = recs[i]
                BY <1>3, <2>4, Cut
            <3>2. DOMAIN first = 1..j /\ 1..j \subseteq DOMAIN recs
                BY <1>3, <2>4, <3>1
            <3> HIDE DEF first
            <3>3. Ordered(first)
                BY <1>3, <3>1, <3>2, Zenon DEF Ordered
            <3> QED BY <2>6, <3>3 DEF first, cut
        <2> QED BY <2>3, <2>5, <2>6
    <1>5. ASSUME NEW blob \in Survivors PROVE Ordered(Readable(blob))
        BY <1>4 DEF Survivors
    <1> QED BY <1>5, Zenon DEF LastIsNewest, Ordered

(* Until a write fails, what a crash leaves can be opened and has what was
   acknowledged. *)
LEMMA InvLogReadable == Inv => LogReadable
    <1> SUFFICES ASSUME Inv, torn = 0 PROVE ReopenAccepted /\ AckedReadable
        BY DEF LogReadable
    <1>1. LogTypes
        BY DEF Inv
    <1>2. PICK recs, at : LogInv(recs, at)
        BY DEF Inv
    <1>3. recs \in Seq(Record) /\ Len(recs) \in Nat
        BY <1>1, <1>2, FileFacts
    <1>4. PICK s \in 0..Len(recs) : at[s] <= synced /\ \A r \in acked : Known(r, recs, s)
        BY <1>2 DEF LogInv, AckedKnown
    <1>5. ASSUME NEW n \in synced..Len(file)
          PROVE  /\ ValidPrefix(SubSeq(file, 1, n)).ok
                 /\ \A r \in acked : \E k \in RangeOf(Readable(SubSeq(file, 1, n))) \cup represented :
                        k.job = r.job /\ k.seq >= r.seq
        <2> DEFINE cut == SubSeq(file, 1, n)
        <2>1. n \in 0..Len(file) /\ synced <= n /\ synced \in Nat /\ n \in Nat
            BY <1>1 DEF LogTypes
        <2>2. PICK j : CutAt(recs, at, n, j)
            BY <1>1, <1>2, <2>1, FileCut
        <2>3. ValidPrefix(cut).ok /\ Readable(cut) = SubSeq(recs, 1, j)
            BY <1>1, <1>2, <2>1, <2>2, CutRead
        <2>4. j \in 0..Len(recs)
            BY <2>2 DEF CutAt
        <2>5. s <= j
            <3>1. at[s] \in Nat
                BY <1>1, <1>2, FileFacts
            <3>2. at[s] <= n
                BY <1>4, <2>1, <3>1
            <3> QED BY <1>1, <1>2, <2>1, <2>2, <3>2, CutOrder
        <2> DEFINE first == SubSeq(recs, 1, j)
        <2>6. first \in Seq(Record) /\ Len(first) = j /\ \A i \in 1..j : first[i] = recs[i]
            BY <1>3, <2>4, Cut
        <2>7. DOMAIN first = 1..j
            BY <2>6
        <2> HIDE DEF cut, first
        <2>8. ASSUME NEW r \in acked
              PROVE  \E k \in RangeOf(first) \cup represented : k.job = r.job /\ k.seq >= r.seq
            <3>1. CASE \E q \in represented : q.job = r.job /\ q.seq >= r.seq
                BY <3>1
            <3>2. CASE \E i \in 1..s : recs[i].job = r.job /\ recs[i].seq >= r.seq
                <4>1. PICK i \in 1..s : recs[i].job = r.job /\ recs[i].seq >= r.seq
                    BY <3>2
                <4>2. i \in 1..j
                    BY <1>3, <2>4, <2>5
                <4>3. first[i] = recs[i] /\ first[i] \in RangeOf(first)
                    BY <2>6, <2>7, <4>2, Zenon DEF RangeOf
                <4> QED BY <4>1, <4>3
            <3> QED BY <1>4, <3>1, <3>2 DEF Known
        <2> QED BY <2>3, <2>8 DEF cut, first
    <1>6. ReopenAccepted
        BY <1>5, Zenon DEF ReopenAccepted, Survivors
    <1>7. AckedReadable
        BY <1>5, Zenon DEF AckedReadable, Survivors
    <1> QED BY <1>6, <1>7

(* A position is a boundary and has in front of it what it was read for. *)
LEMMA InvPositionUsable == Inv => PositionUsable
    <1> SUFFICES ASSUME Inv, Idle, position # NoPosition, torn = 0, syncFaults = 0
                 PROVE  /\ Truncatable
                        /\ RangeOf(Readable(SubSeq(file, 1, position))) \subseteq covers
        BY DEF PositionUsable
    <1>1. LogTypes
        BY DEF Inv
    <1>2. PICK recs, at : LogInv(recs, at)
        BY DEF Inv
    <1>3. /\ recs \in Seq(Record) /\ Len(recs) \in Nat
          /\ \A i \in 0..Len(recs) : at[i] \in Nat /\ at[i] <= Len(file)
          /\ \A i, j \in 0..Len(recs) : i < j => at[i] < at[j]
        BY <1>1, <1>2, FileFacts
    <1>4. Settled(recs) = Len(recs)
        BY DEF Settled, Complete, Idle
    <1>5. PICK c \in 0..Len(recs) : Covered(recs, c) /\ position = at[c]
        BY <1>2, <1>4 DEF LogInv, PositionCovered
    <1>6. position \in 0..Len(file) /\ position \in Nat
        <2>1. Len(file) \in Nat /\ at[c] \in Nat /\ at[c] <= Len(file)
            BY <1>1, <1>2, <1>3, FileFacts
        <2> QED BY <1>5, <2>1
    <1> DEFINE cut == SubSeq(file, 1, position)
    <1>7. PICK j : CutAt(recs, at, position, j)
        BY <1>1, <1>2, <1>6, FileCut
    <1>8. /\ ValidPrefix(cut).ok /\ ValidPrefix(cut).n = at[j]
          /\ Readable(cut) = SubSeq(recs, 1, j)
        BY <1>1, <1>2, <1>6, <1>7, CutRead
    <1>9. j = c
        <2>1. at[c] <= position
            BY <1>5, <1>6
        <2>2. c <= j
            BY <1>1, <1>2, <1>6, <1>7, <2>1, CutOrder
        <2>3. j \in 0..Len(recs) /\ at[j] <= position
            BY <1>7 DEF CutAt
        <2>4. ~(c < j)
            <3>1. at[c] \in Nat /\ at[j] \in Nat
                BY <1>3, <2>3
            <3> QED BY <1>3, <1>5, <2>3, <3>1
        <2> QED BY <1>3, <2>2, <2>3, <2>4
    <1>10. ValidPrefix(file).ok /\ ValidPrefix(file).n = at[Len(recs)]
        BY <1>1, <1>2, FileRead
    <1>11. position <= ValidPrefix(file).n
        <2>1. c = Len(recs) \/ c < Len(recs)
            BY <1>3
        <2>2. at[c] \in Nat /\ at[Len(recs)] \in Nat /\ (c = Len(recs) \/ at[c] < at[Len(recs)])
            BY <1>3, <2>1
        <2>3. at[c] <= at[Len(recs)]
            BY <2>2
        <2> QED BY <1>5, <1>10, <2>3
    <1>12. Truncatable
        BY <1>5, <1>8, <1>9, <1>10, <1>11, Zenon DEF Truncatable, IsBoundary, cut
    <1>13. RangeOf(Readable(cut)) \subseteq covers
        <2> DEFINE first == SubSeq(recs, 1, c)
        <2>1. first \in Seq(Record) /\ Len(first) = c /\ \A i \in 1..c : first[i] = recs[i]
            BY <1>3, Cut
        <2>2. DOMAIN first = 1..c
            BY <2>1
        <2>3. Readable(cut) = first
            BY <1>8, <1>9
        <2> HIDE DEF first, cut
        <2> QED BY <1>5, <2>1, <2>2, <2>3, Zenon DEF RangeOf, Covered
    <1> QED BY <1>12, <1>13

-----------------------------------------------------------------------------
(* The steps                                                               *)

(* The parts of the invariant after a step. *)
LEMMA LogInvNext ==
    ASSUME NEW recs, NEW at, Holds(file', recs, at), Ended(recs, at)', Sequenced(recs)',
           torn' = 0 => AckedKnown(recs, at)' /\ BytesCounted(recs, at)' /\ PositionCovered(recs, at)'
    PROVE  LogInv(recs, at)'
    BY DEF LogInv

(* At first the log is empty. *)
LEMMA LogInitial ==
    ASSUME Init
    PROVE  LogTypes /\ LogInv(<<>>, [i \in 0..0 |-> 0])
    <1> DEFINE at == [i \in 0..0 |-> 0]
    <1>1. AllFrames(<<>>, <<>>, at)
        BY NoFrames
    <1>2. Len(<<>>) = 0 /\ \A i \in 1..0 : FALSE
        OBVIOUS
    <1>3. LogTypes
        <2>1. file \in Seq(Words) /\ synced \in 0..Len(file)
            BY DEF Init
        <2> QED BY <2>1, Zenon DEF Init, LogTypes
    <1> HIDE DEF at
    <1>4. Holds(file, <<>>, at) /\ at[0] = 0 /\ Len(file) = 0
        BY <1>1, <1>2 DEF AllFrames, Init
    <1>5. Ended(<<>>, at)
        BY <1>2, <1>4 DEF Ended, EndsWhole, Init
    <1>6. Sequenced(<<>>)
        BY <1>2 DEF Sequenced, Ordered, Init
    <1>7. AckedKnown(<<>>, at)
        <2>1. 0 \in 0..Len(<<>>)
            BY <1>2
        <2> QED BY <1>4, <2>1 DEF AckedKnown, Init
    <1>8. BytesCounted(<<>>, at) /\ PositionCovered(<<>>, at)
        BY DEF BytesCounted, PositionCovered, Init
    <1>9. LogInv(<<>>, at)
        BY <1>4, <1>5, <1>6, <1>7, <1>8 DEF LogInv
    <1> QED BY <1>3, <1>9 DEF at

(* Nothing is written. *)
LEMMA FileKept ==
    ASSUME LogTypes, NEW recs, NEW at, LogInv(recs, at),
           UNCHANGED <<file, synced, fd, bytes, writing, offset, acked, appends, torn, syncFaults>>,
           represented \subseteq represented',
           (position' = position /\ covers' = covers) \/ position' = NoPosition
    PROVE  LogTypes' /\ LogInv(recs, at)'
    <1>1. LogTypes'
        BY DEF LogTypes
    <1>2. Holds(file', recs, at)
        BY DEF LogInv
    <1>3. Ended(recs, at)'
        <2>1. Ended(recs, at)
            BY DEF LogInv
        <2> QED BY <2>1 DEF Ended, EndsWhole, EndsWriting, EndsTorn, EndsBlocked, Complete
    <1>4. Sequenced(recs)'
        <2>1. Sequenced(recs)
            BY DEF LogInv
        <2> QED BY <2>1 DEF Sequenced
    <1>5. ASSUME torn' = 0
          PROVE  AckedKnown(recs, at)' /\ BytesCounted(recs, at)' /\ PositionCovered(recs, at)'
        <2>1. AckedKnown(recs, at) /\ BytesCounted(recs, at) /\ PositionCovered(recs, at)
            BY <1>5 DEF LogInv
        <2>2. AckedKnown(recs, at)'
            BY <2>1 DEF AckedKnown, Known
        <2>3. BytesCounted(recs, at)'
            BY <2>1 DEF BytesCounted, Settled, Complete
        <2>4. PositionCovered(recs, at)'
            BY <2>1 DEF PositionCovered, Covered, Settled, Complete
        <2> QED BY <2>2, <2>3, <2>4
    <1> QED BY <1>1, <1>2, <1>3, <1>4, <1>5, LogInvNext

(* The readable part of the file has all the frames. *)
LEMMA IntactHolds ==
    ASSUME LogTypes, NEW recs, NEW at, LogInv(recs, at)
    PROVE  LET intact == SubSeq(file, 1, at[Len(recs)]) IN
           intact \in Seq(Words) /\ Len(intact) = at[Len(recs)] /\ Holds(intact, recs, at)
    <1> DEFINE m == Len(recs)
               intact == SubSeq(file, 1, at[m])
    <1>1. /\ recs \in Seq(Record) /\ m \in Nat /\ at \in [0..m -> 0..Len(file)] /\ Len(file) \in Nat
          /\ \A i \in 0..m : at[i] \in Nat /\ at[i] <= Len(file)
        BY FileFacts
    <1>2. m \in 0..m /\ at[m] \in 0..Len(file) /\ at[m] <= at[m]
        BY <1>1
    <1>3. intact \in Seq(Words) /\ Len(intact) = at[m] /\ \E j : CutAt(recs, at, at[m], j)
        BY <1>2, FileCut
    <1>4. PICK j : CutAt(recs, at, at[m], j)
        BY <1>3
    <1>5. m <= j
        BY <1>2, <1>4, CutOrder
    <1>6. j = m
        <2>1. j \in 0..m
            BY <1>4 DEF CutAt
        <2> QED BY <1>1, <1>5, <2>1
    <1>7. SubSeq(recs, 1, m) = recs /\ FirstOffsets(at, m) = at
        BY <1>1 DEF FirstOffsets
    <1>8. Holds(intact, recs, at)
        BY <1>4, <1>6, <1>7 DEF CutAt
    <1> QED BY <1>3, <1>8

(* open() reads what is intact and cuts the rest. *)
LEMMA OpenKeeps ==
    ASSUME LogTypes, NEW recs, NEW at, LogInv(recs, at), Open
    PROVE  LogTypes' /\ LogInv(recs, at)' /\ Readable(file) = recs /\ synced' = at[Len(recs)]
    <1> DEFINE m == Len(recs)
    <1>1. /\ recs \in Seq(Record) /\ m \in Nat /\ DOMAIN recs = 1..m
          /\ \A i \in 0..m : at[i] \in Nat
          /\ \A i \in 1..m : recs[i] \in Record
        BY FileFacts
    <1>2. Readable(file) = recs /\ file' = SubSeq(file, 1, at[m])
        BY FileRead DEF Open
    <1>3. file' \in Seq(Words) /\ Len(file') = at[m] /\ Holds(file', recs, at)
        BY <1>2, IntactHolds
    <1>4. synced' = at[m] /\ bytes' = at[m] /\ at[m] \in Nat /\ fd' = TRUE
        BY <1>1, <1>3 DEF Open
    <1>5. /\ UNCHANGED <<writing, offset, position, appends, torn, syncFaults, represented, covers>>
          /\ ~fd /\ acked' = acked \cup RangeOf(recs)
        BY <1>2 DEF Open, counters
    <1>6. writing = NoRecord /\ position = NoPosition
        BY <1>5 DEF LogTypes
    <1>7. LogTypes'
        <2>1. synced' \in 0..Len(file')
            BY <1>3, <1>4
        <2>2. acked' \subseteq Record
            BY <1>1, <1>5 DEF LogTypes, RangeOf
        <2> QED BY <1>3, <1>4, <1>5, <1>6, <2>1, <2>2, Zenon DEF LogTypes
    <1>8. Ended(recs, at)'
        BY <1>3, <1>5, <1>6 DEF Ended, EndsWhole
    <1>9. Sequenced(recs)'
        <2>1. Sequenced(recs)
            BY DEF LogInv
        <2> QED BY <1>5, <1>6, <2>1 DEF Sequenced
    <1>10. ASSUME torn' = 0
           PROVE  AckedKnown(recs, at)' /\ BytesCounted(recs, at)' /\ PositionCovered(recs, at)'
        <2>1. PICK n \in 0..m : \A r \in acked : Known(r, recs, n)
            BY <1>5, <1>10 DEF LogInv, AckedKnown
        <2>2. ASSUME NEW r \in acked' PROVE Known(r, recs, m)'
            <3>1. CASE r \in acked
                <4>1. Known(r, recs, n) /\ 1..n \subseteq 1..m
                    BY <1>1, <2>1, <3>1
                <4> QED BY <1>5, <4>1, Zenon DEF Known
            <3>2. CASE r \in RangeOf(recs)
                <4>1. PICK i \in 1..m : r = recs[i]
                    BY <1>1, <3>2 DEF RangeOf
                <4>2. recs[i].job = r.job /\ recs[i].seq >= r.seq
                    BY <1>1, <4>1, RecordFacts
                <4> QED BY <4>2, Zenon DEF Known
            <3> QED BY <1>5, <2>2, <3>1, <3>2
        <2>3. m \in 0..m /\ at[m] <= synced'
            BY <1>1, <1>4
        <2>4. AckedKnown(recs, at)'
            BY <2>2, <2>3, Zenon DEF AckedKnown
        <2>5. Settled(recs)' = m
            BY <1>5, <1>6 DEF Settled, Complete
        <2>6. BytesCounted(recs, at)'
            BY <1>4, <2>5 DEF BytesCounted
        <2>7. PositionCovered(recs, at)'
            BY <1>5, <1>6 DEF PositionCovered
        <2> QED BY <2>4, <2>6, <2>7
    <1>11. LogInv(recs, at)'
        BY <1>3, <1>8, <1>9, <1>10, LogInvNext
    <1> QED BY <1>2, <1>4, <1>7, <1>11

(* persist() begins with a number no record has. *)
LEMMA BeginKeeps ==
    ASSUME LogTypes, NEW recs, NEW at, LogInv(recs, at), NEW r \in Record, BeginPersist(r)
    PROVE  LogTypes' /\ LogInv(recs, at)'
    <1> DEFINE m == Len(recs)
    <1>1. m \in Nat /\ \A i \in 1..m : recs[i] \in Record
        BY FileFacts
    <1>2. /\ UNCHANGED <<file, synced, fd, bytes, position, covers, acked, represented, torn, syncFaults>>
          /\ fd /\ writing = NoRecord /\ writing' = r /\ offset' = 0 /\ appends' = appends + 1
          /\ r.seq = appends + 1
        BY DEF BeginPersist, Idle
    <1>3. appends \in Nat /\ r # NoRecord /\ FrameLen(r) \in Nat /\ 0 < FrameLen(r)
        BY FrameFacts, RecordFacts DEF LogTypes
    <1>4. LogTypes'
        <2>1. offset' \in Nat /\ appends' \in Nat /\ offset' <= FrameLen(writing') /\ writing'.seq = appends'
            BY <1>2, <1>3
        <2> QED BY <1>2, <2>1 DEF LogTypes
    <1>5. Ended(recs, at)'
        <2>1. Ended(recs, at)
            BY DEF LogInv
        <2>2. CASE EndsWhole(recs, at)
            BY <1>2, <2>2 DEF Ended, EndsWhole
        <2>3. CASE EndsTorn(recs, at)
            <3>1. PICK q, k : Partial(file, at[m], q, k) /\ torn # 0
                BY <1>2, <2>3 DEF EndsTorn
            <3>2. EndsBlocked(recs, at)'
                BY <1>2, <1>3, <3>1, Zenon DEF EndsBlocked
            <3> QED BY <3>2 DEF Ended
        <2> QED BY <1>2, <2>1, <2>2, <2>3 DEF Ended, EndsWriting, EndsBlocked
    <1>6. Sequenced(recs)'
        <2>1. Ordered(recs) /\ \A i \in 1..m : recs[i].seq <= appends
            BY DEF LogInv, Sequenced
        <2>2. \A i \in 1..m : recs[i].seq <= appends' /\ recs[i].seq < appends'
            BY <1>1, <1>2, <1>3, <2>1, RecordFacts
        <2> QED BY <2>1, <2>2 DEF Sequenced
    <1>7. ASSUME torn' = 0
          PROVE  AckedKnown(recs, at)' /\ BytesCounted(recs, at)' /\ PositionCovered(recs, at)'
        <2>1. AckedKnown(recs, at) /\ BytesCounted(recs, at) /\ PositionCovered(recs, at)
            BY <1>2, <1>7 DEF LogInv
        <2>2. Settled(recs) = m /\ Settled(recs)' = m
            BY <1>2, <1>3 DEF Settled, Complete
        <2>3. AckedKnown(recs, at)'
            BY <1>2, <2>1 DEF AckedKnown, Known
        <2>4. BytesCounted(recs, at)'
            BY <1>2, <2>1, <2>2 DEF BytesCounted
        <2>5. PositionCovered(recs, at)'
            BY <1>2, <2>1, <2>2 DEF PositionCovered, Covered
        <2> QED BY <2>3, <2>4, <2>5
    <1>8. Holds(file', recs, at)
        BY <1>2 DEF LogInv
    <1> QED BY <1>4, <1>5, <1>6, <1>7, <1>8, LogInvNext

(* Without a record being written, the last conditions are these. *)
LEMMA EndedWrite ==
    ASSUME LogTypes, NEW recs, NEW at, LogInv(recs, at), writing # NoRecord,
           UNCHANGED <<file, fd, position, covers, represented, appends>>, synced' \in 0..Len(file),
           writing' = NoRecord, offset' = 0, bytes' \in Nat, torn' \in Nat, syncFaults' \in Nat,
           acked' \subseteq Record,
           (offset = FrameLen(writing) /\ torn' = torn) \/ torn' # 0,
           torn' = 0 => AckedKnown(recs, at)' /\ BytesCounted(recs, at)' /\ PositionCovered(recs, at)'
    PROVE  LogTypes' /\ LogInv(recs, at)'
    <1>1. LogTypes'
        BY DEF LogTypes
    <1>2. Holds(file', recs, at)
        BY DEF LogInv
    <1>3. Sequenced(recs)'
        <2>1. Sequenced(recs)
            BY DEF LogInv
        <2> QED BY <2>1 DEF Sequenced
    <1>4. Ended(recs, at)'
        <2>1. Ended(recs, at)
            BY DEF LogInv
        <2>2. CASE EndsWhole(recs, at)
            BY <2>2 DEF Ended, EndsWhole
        <2>3. CASE EndsBlocked(recs, at)
            <3>1. PICK q, k : Partial(file, at[Len(recs)], q, k)
                BY <2>3 DEF EndsBlocked
            <3>2. torn' # 0
                BY <2>3 DEF EndsBlocked
            <3>3. EndsTorn(recs, at)'
                BY <3>1, <3>2, Zenon DEF EndsTorn
            <3> QED BY <3>3 DEF Ended
        <2>4. CASE EndsWriting(recs, at)
            <3>1. Partial(file, at[Len(recs)], writing, offset)
                BY <2>4 DEF EndsWriting
            <3>2. offset # FrameLen(writing)
                <4>1. writing \in Record /\ offset \in 1..(FrameLen(writing) - 1)
                    BY <3>1 DEF Partial
                <4>2. FrameLen(writing) \in Nat
                    BY <4>1, FrameFacts
                <4> QED BY <4>1, <4>2
            <3>3. EndsTorn(recs, at)'
                BY <3>1, <3>2, Zenon DEF EndsTorn
            <3> QED BY <3>3 DEF Ended
        <2> QED BY <2>1, <2>2, <2>3, <2>4 DEF Ended, EndsTorn
    <1> QED BY <1>1, <1>2, <1>3, <1>4, LogInvNext

(* A failed write ends what is promised. *)
LEMMA WriteFailsKeeps ==
    ASSUME LogTypes, NEW recs, NEW at, LogInv(recs, at), WriteFails
    PROVE  LogTypes' /\ LogInv(recs, at)' /\ torn' # 0
    <1>1. torn \in Nat /\ bytes \in Nat /\ syncFaults \in Nat /\ synced \in 0..Len(file) /\ acked \subseteq Record
        BY DEF LogTypes
    <1>2. /\ UNCHANGED <<file, synced, fd, bytes, position, covers, acked, represented, appends, syncFaults>>
          /\ writing # NoRecord /\ writing' = NoRecord /\ offset' = 0 /\ torn' = torn + 1
        BY DEF WriteFails, EndPersist
    <1>3. torn' # 0 /\ torn' \in Nat
        BY <1>1, <1>2
    <1> QED BY <1>1, <1>2, <1>3, EndedWrite

(* Until a write fails, a frame that is complete is the last one. *)
LEMMA CompleteLast ==
    ASSUME LogTypes, NEW recs, NEW at, LogInv(recs, at), Complete, torn = 0
    PROVE  /\ Len(recs) \in Nat \ {0} /\ recs[Len(recs)] = writing /\ at[Len(recs)] = Len(file)
           /\ Settled(recs) = Len(recs) - 1
           /\ at[Len(recs)] = at[Len(recs) - 1] + FrameLen(writing)
           /\ FrameLen(writing) \in Nat /\ writing \in Record
    <1> DEFINE m == Len(recs)
    <1>1. /\ m \in Nat /\ \A i \in 1..m : at[i] = at[i - 1] + FrameLen(recs[i])
        BY FileFacts
    <1>2. writing \in Record /\ writing # NoRecord /\ offset = FrameLen(writing)
        BY DEF Complete, LogTypes
    <1>3. FrameLen(writing) \in Nat /\ FrameLen(writing) > 0
        BY <1>2, FrameFacts
    <1>4. EndsWhole(recs, at)
        <2>1. Ended(recs, at)
            BY DEF LogInv
        <2>2. ~EndsWriting(recs, at)
            <3> SUFFICES ASSUME EndsWriting(recs, at) PROVE FALSE
                OBVIOUS
            <3>1. offset \in 1..(FrameLen(writing) - 1)
                BY DEF EndsWriting, Partial
            <3> QED BY <1>2, <1>3, <3>1
        <2> QED BY <1>2, <2>1, <2>2 DEF Ended, EndsTorn, EndsBlocked
    <1>5. m > 0 /\ recs[m] = writing /\ at[m] = Len(file)
        BY <1>2, <1>3, <1>4 DEF EndsWhole
    <1>6. m \in 1..m /\ m \in Nat \ {0}
        BY <1>1, <1>5
    <1>7. at[m] = at[m - 1] + FrameLen(writing)
        BY <1>1, <1>5, <1>6
    <1>8. Settled(recs) = m - 1
        BY DEF Settled
    <1> QED BY <1>2, <1>3, <1>5, <1>6, <1>7, <1>8

(* A failed fsync leaves a frame that bytes_ does not count. *)
LEMMA SyncFailsKeeps ==
    ASSUME LogTypes, NEW recs, NEW at, LogInv(recs, at), SyncFails
    PROVE  LogTypes' /\ LogInv(recs, at)'
    <1> DEFINE m == Len(recs)
    <1>1. torn \in Nat /\ bytes \in Nat /\ syncFaults \in Nat /\ synced \in 0..Len(file) /\ acked \subseteq Record
        BY DEF LogTypes
    <1>2. /\ UNCHANGED <<file, synced, fd, bytes, position, covers, acked, represented, appends, torn>>
          /\ writing # NoRecord /\ writing' = NoRecord /\ offset' = 0 /\ syncFaults' = syncFaults + 1
          /\ offset = FrameLen(writing)
        BY DEF SyncFails, EndPersist
    <1>3. syncFaults' \in Nat /\ syncFaults' # 0
        BY <1>1, <1>2
    <1>4. ASSUME torn' = 0
          PROVE  AckedKnown(recs, at)' /\ BytesCounted(recs, at)' /\ PositionCovered(recs, at)'
        <2>1. AckedKnown(recs, at) /\ BytesCounted(recs, at) /\ PositionCovered(recs, at)
            BY <1>2, <1>4 DEF LogInv
        <2>2. Complete /\ torn = 0
            BY <1>2, <1>4 DEF Complete
        <2>3. /\ m \in Nat \ {0} /\ Settled(recs) = m - 1
              /\ at[m] = at[m - 1] + FrameLen(writing) /\ FrameLen(writing) \in Nat
            BY <2>2, CompleteLast
        <2>4. Settled(recs)' = m
            BY <1>2 DEF Settled, Complete
        <2>5. at[m - 1] \in Nat /\ at[m] \in Nat
            <3>1. m \in 0..m /\ m - 1 \in 0..m
                BY <2>3
            <3> QED BY <3>1, FileFacts
        <2>6. AckedKnown(recs, at)'
            BY <1>2, <2>1 DEF AckedKnown, Known
        <2>7. BytesCounted(recs, at)'
            <3>1. fd => bytes <= at[m - 1]
                BY <2>1, <2>3 DEF BytesCounted
            <3>2. fd' => bytes' <= at[m]
                BY <1>1, <1>2, <2>3, <2>5, <3>1
            <3> QED BY <1>3, <2>4, <3>2 DEF BytesCounted
        <2>8. PositionCovered(recs, at)'
            <3> SUFFICES ASSUME position' # NoPosition PROVE PositionCovered(recs, at)'
                BY DEF PositionCovered
            <3>1. PICK n \in 0..(m - 1) : Covered(recs, n) /\ position <= at[n]
                BY <1>2, <2>1, <2>3 DEF PositionCovered
            <3>2. n \in 0..m
                BY <2>3
            <3>3. Covered(recs, n)' /\ position' <= at[n]
                BY <1>2, <3>1 DEF Covered
            <3> QED BY <1>3, <2>4, <3>2, <3>3, Zenon DEF PositionCovered
        <2> QED BY <2>6, <2>7, <2>8
    <1> QED BY <1>1, <1>2, <1>3, <1>4, EndedWrite

(* persist() acknowledges the last record. *)
LEMMA SyncSucceedsKeeps ==
    ASSUME LogTypes, NEW recs, NEW at, LogInv(recs, at), SyncSucceeds
    PROVE  LogTypes' /\ LogInv(recs, at)'
    <1> DEFINE m == Len(recs)
    <1>1. torn \in Nat /\ bytes \in Nat /\ syncFaults \in Nat /\ writing \in Record \cup {NoRecord}
        BY DEF LogTypes
    <1>2. /\ UNCHANGED <<file, fd, position, covers, represented, appends, torn, syncFaults>>
          /\ writing # NoRecord /\ writing' = NoRecord /\ offset' = 0
          /\ synced' = Len(file) /\ bytes' = bytes + FrameLen(writing)
          /\ acked' = acked \cup {writing} /\ offset = FrameLen(writing)
        BY DEF SyncSucceeds, EndPersist, counters
    <1>3. FrameLen(writing) \in Nat
        BY <1>1, <1>2, FrameFacts
    <1>4. bytes' \in Nat /\ synced' \in 0..Len(file) /\ acked' \subseteq Record
        <2>1. Len(file) \in Nat
            BY FileFacts
        <2>2. acked' \subseteq Record
            BY <1>1, <1>2 DEF LogTypes
        <2> QED BY <1>1, <1>2, <1>3, <2>1, <2>2
    <1>5. ASSUME torn' = 0
          PROVE  AckedKnown(recs, at)' /\ BytesCounted(recs, at)' /\ PositionCovered(recs, at)'
        <2>1. AckedKnown(recs, at) /\ BytesCounted(recs, at) /\ PositionCovered(recs, at)
            BY <1>2, <1>5 DEF LogInv
        <2>2. Complete /\ torn = 0
            BY <1>2, <1>5 DEF Complete
        <2>3. /\ m \in Nat \ {0} /\ recs[m] = writing /\ at[m] = Len(file) /\ Settled(recs) = m - 1
              /\ at[m] = at[m - 1] + FrameLen(writing) /\ writing \in Record
            BY <2>2, CompleteLast
        <2>4. Settled(recs)' = m
            BY <1>2 DEF Settled, Complete
        <2>5. at[m - 1] \in Nat /\ at[m] \in Nat /\ m \in 0..m
            <3>1. m \in 0..m /\ m - 1 \in 0..m
                BY <2>3
            <3> QED BY <3>1, FileFacts
        <2>6. AckedKnown(recs, at)'
            <3>1. PICK n \in 0..m : \A r \in acked : Known(r, recs, n)
                BY <2>1 DEF AckedKnown
            <3>2. ASSUME NEW r \in acked' PROVE Known(r, recs, m)'
                <4>1. CASE r \in acked
                    <5>1. Known(r, recs, n) /\ 1..n \subseteq 1..m
                        BY <2>3, <3>1, <4>1
                    <5> QED BY <1>2, <5>1, Zenon DEF Known
                <4>2. CASE r = writing
                    <5>1. m \in 1..m /\ recs[m].job = r.job /\ recs[m].seq >= r.seq
                        BY <2>3, <4>2, RecordFacts
                    <5> QED BY <5>1, Zenon DEF Known
                <4> QED BY <1>2, <3>2, <4>1, <4>2
            <3>3. at[m] <= synced'
                BY <1>2, <2>3, <2>5
            <3> QED BY <2>5, <3>2, <3>3, Zenon DEF AckedKnown
        <2>7. BytesCounted(recs, at)'
            <3>1. fd => bytes <= at[m - 1] /\ (syncFaults = 0 => bytes = at[m - 1])
                BY <2>1, <2>3 DEF BytesCounted
            <3>2. fd' => bytes' <= at[m] /\ (syncFaults' = 0 => bytes' = at[m])
                BY <1>1, <1>2, <1>3, <2>3, <2>5, <3>1
            <3> QED BY <2>4, <3>2 DEF BytesCounted
        <2>8. PositionCovered(recs, at)'
            <3> SUFFICES ASSUME position' # NoPosition PROVE PositionCovered(recs, at)'
                BY DEF PositionCovered
            <3>1. PICK n \in 0..(m - 1) : /\ Covered(recs, n) /\ position <= at[n]
                                          /\ syncFaults = 0 => position = at[n]
                BY <1>2, <2>1, <2>3 DEF PositionCovered
            <3>2. n \in 0..m
                BY <2>3
            <3>3. Covered(recs, n)' /\ position' <= at[n] /\ (syncFaults' = 0 => position' = at[n])
                BY <1>2, <3>1 DEF Covered
            <3> QED BY <2>4, <3>2, <3>3, Zenon DEF PositionCovered
        <2> QED BY <2>6, <2>7, <2>8
    <1> QED BY <1>1, <1>2, <1>4, <1>5, EndedWrite

(* A position is read when no frame is being written. *)
LEMMA ReadPositionKeeps ==
    ASSUME LogTypes, NEW recs, NEW at, LogInv(recs, at), ReadPosition
    PROVE  LogTypes' /\ LogInv(recs, at)'
    <1> DEFINE m == Len(recs)
    <1>1. /\ UNCHANGED <<file, synced, fd, bytes, writing, offset, acked, represented,
                         appends, torn, syncFaults>>
          /\ position' = bytes /\ covers' = RangeOf(Readable(file)) /\ fd /\ writing = NoRecord
        BY DEF ReadPosition, Idle, counters
    <1>2. bytes \in Nat
        BY DEF LogTypes
    <1>3. LogTypes'
        BY <1>1, <1>2 DEF LogTypes
    <1>4. Holds(file', recs, at) /\ Ended(recs, at) /\ Sequenced(recs)
        BY <1>1 DEF LogInv
    <1>5. Ended(recs, at)'
        BY <1>1, <1>4 DEF Ended, EndsWhole, EndsWriting, EndsTorn, EndsBlocked, Complete
    <1>6. Sequenced(recs)'
        BY <1>1, <1>4 DEF Sequenced
    <1>7. ASSUME torn' = 0
          PROVE  AckedKnown(recs, at)' /\ BytesCounted(recs, at)' /\ PositionCovered(recs, at)'
        <2>1. AckedKnown(recs, at) /\ BytesCounted(recs, at)
            BY <1>1, <1>7 DEF LogInv
        <2>2. m \in Nat /\ DOMAIN recs = 1..m
            BY FileFacts
        <2>3. Readable(file) = recs
            BY <1>1, <1>7, FileRead
        <2>4. Settled(recs) = m /\ Settled(recs)' = m
            BY <1>1 DEF Settled, Complete
        <2>5. m \in 0..m /\ Covered(recs, m)'
            BY <1>1, <2>2, <2>3 DEF Covered, RangeOf
        <2>6. bytes <= at[m] /\ (syncFaults = 0 => bytes = at[m])
            BY <1>1, <2>1, <2>4 DEF BytesCounted
        <2>7. PositionCovered(recs, at)'
            BY <1>1, <2>4, <2>5, <2>6 DEF PositionCovered
        <2>8. AckedKnown(recs, at)'
            BY <1>1, <2>1 DEF AckedKnown, Known
        <2>9. BytesCounted(recs, at)'
            BY <1>1, <2>1, <2>4 DEF BytesCounted
        <2> QED BY <2>7, <2>8, <2>9
    <1> QED BY <1>3, <1>4, <1>5, <1>6, <1>7, LogInvNext

(* What one more word does to the file. *)
LEMMA WordWritten ==
    ASSUME LogTypes, NEW recs, NEW at, LogInv(recs, at), WriteWord
    PROVE  /\ writing \in Record /\ FrameLen(writing) \in Nat /\ FrameLen(writing) > 3
           /\ offset \in Nat /\ offset < FrameLen(writing) /\ offset' = offset + 1
           /\ file' \in Seq(Words) /\ Len(file') = Len(file) + 1 /\ Len(file) \in Nat
           /\ \A i \in 1..Len(file) : file'[i] = file[i]
           /\ file'[Len(file) + 1] = Frame(writing)[offset + 1]
           /\ UNCHANGED <<synced, fd, bytes, writing, position, covers, acked, represented,
                          appends, torn, syncFaults>>
           /\ Holds(file', recs, at) /\ LogTypes'
    <1>1. /\ file' = Append(file, Frame(writing)[offset + 1]) /\ offset' = offset + 1
          /\ offset < FrameLen(writing) /\ writing # NoRecord
          /\ UNCHANGED <<synced, fd, bytes, writing, position, covers, acked, represented,
                         appends, torn, syncFaults>>
        BY DEF WriteWord, counters
    <1>2. writing \in Record /\ offset \in Nat /\ file \in Seq(Words) /\ synced \in 0..Len(file)
        BY <1>1 DEF LogTypes
    <1>3. /\ FrameLen(writing) \in Nat /\ FrameLen(writing) > 3
          /\ Frame(writing) \in Seq(Words) /\ Len(Frame(writing)) = FrameLen(writing)
        BY <1>2, FrameFacts
    <1> DEFINE w == Frame(writing)[offset + 1]
    <1>4. w \in Words
        <2>1. offset + 1 \in 1..Len(Frame(writing))
            BY <1>1, <1>2, <1>3
        <2> QED BY <1>3, <2>1
    <1>5. file' = Append(file, w)
        BY <1>1
    <1> HIDE DEF w
    <1>6. /\ file' \in Seq(Words) /\ Len(file') = Len(file) + 1 /\ Len(file) \in Nat
          /\ \A i \in 1..Len(file) : file'[i] = file[i]
          /\ file'[Len(file) + 1] = w
        BY <1>2, <1>4, <1>5
    <1>7. Holds(file', recs, at)
        <2>1. Holds(file, recs, at) /\ Len(file) <= Len(file')
            BY <1>6 DEF LogInv
        <2> QED BY <1>2, <1>6, <2>1, HoldsLonger
    <1>8. LogTypes'
        <2>1. synced' \in 0..Len(file') /\ offset' \in Nat /\ offset' <= FrameLen(writing')
            BY <1>1, <1>2, <1>3, <1>6
        <2> QED BY <1>1, <1>6, <2>1, Zenon DEF LogTypes
    <1> QED BY <1>1, <1>2, <1>3, <1>6, <1>7, <1>8 DEF w

(* A word inside a frame, or behind a torn one. *)
LEMMA WriteInside ==
    ASSUME LogTypes, NEW recs, NEW at, LogInv(recs, at), WriteWord, Ended(recs, at)',
           torn = 0 => offset + 1 # FrameLen(writing)
    PROVE  LogInv(recs, at)'
    <1>1. /\ FrameLen(writing) \in Nat /\ offset \in Nat /\ offset < FrameLen(writing) /\ offset' = offset + 1
          /\ UNCHANGED <<synced, fd, bytes, writing, position, covers, acked, represented,
                         appends, torn, syncFaults>>
          /\ Holds(file', recs, at)
        BY WordWritten
    <1>2. writing # NoRecord
        BY DEF WriteWord
    <1>3. Sequenced(recs)'
        <2>1. Sequenced(recs)
            BY DEF LogInv
        <2> QED BY <1>1, <1>2, <2>1 DEF Sequenced
    <1>4. ASSUME torn' = 0
          PROVE  AckedKnown(recs, at)' /\ BytesCounted(recs, at)' /\ PositionCovered(recs, at)'
        <2>1. AckedKnown(recs, at) /\ BytesCounted(recs, at) /\ PositionCovered(recs, at)
            BY <1>1, <1>4 DEF LogInv
        <2>2. ~Complete /\ ~Complete'
            BY <1>1, <1>4 DEF Complete
        <2>3. Settled(recs)' = Settled(recs)
            BY <2>2 DEF Settled
        <2>4. AckedKnown(recs, at)'
            BY <1>1, <2>1 DEF AckedKnown, Known
        <2>5. BytesCounted(recs, at)'
            BY <1>1, <2>1, <2>3 DEF BytesCounted
        <2>6. PositionCovered(recs, at)'
            BY <1>1, <2>1, <2>3 DEF PositionCovered, Covered
        <2> QED BY <2>4, <2>5, <2>6
    <1> QED BY <1>1, <1>3, <1>4, LogInvNext

(* A blob with one more word. *)
OneMore(blob, long, word) ==
    /\ Len(blob) \in Nat /\ Len(long) = Len(blob) + 1
    /\ \A i \in 1..Len(blob) : long[i] = blob[i]
    /\ long[Len(blob) + 1] = word

(* The first words of a frame are at offset p. *)
Begun(blob, p, r, k) == \A w \in 1..k : blob[p + w] = Frame(r)[w]

(* A longer part of a frame. *)
LEMMA PartGrows ==
    ASSUME NEW blob, NEW long, NEW p \in Nat, NEW r \in Record, NEW k \in Nat,
           p + k = Len(blob), k < FrameLen(r),
           OneMore(blob, long, Frame(r)[k + 1]), Begun(blob, p, r, k)
    PROVE  Begun(long, p, r, k + 1) /\ (k + 1 < FrameLen(r) => Partial(long, p, r, k + 1))
    <1>1. FrameLen(r) \in Nat
        BY FrameFacts
    <1>2. /\ Len(blob) \in Nat /\ Len(long) = Len(blob) + 1
          /\ \A i \in 1..Len(blob) : long[i] = blob[i]
          /\ long[Len(blob) + 1] = Frame(r)[k + 1]
        BY DEF OneMore
    <1>3. ASSUME NEW w \in 1..(k + 1) PROVE long[p + w] = Frame(r)[w]
        <2>1. CASE w = k + 1
            <3>1. p + w = Len(blob) + 1
                BY <2>1
            <3> QED BY <1>2, <2>1, <3>1
        <2>2. CASE w # k + 1
            <3>1. w \in 1..k /\ p + w \in 1..Len(blob)
                BY <2>2
            <3> QED BY <1>2, <3>1 DEF Begun
        <2> QED BY <2>1, <2>2
    <1>4. ASSUME k + 1 < FrameLen(r) PROVE Partial(long, p, r, k + 1)
        <2>1. k + 1 \in 1..(FrameLen(r) - 1) /\ p + (k + 1) <= Len(long) /\ ~(p + (k + 1) < Len(long))
            BY <1>1, <1>2, <1>4
        <2> QED BY <1>3, <2>1 DEF Partial
    <1> QED BY <1>3, <1>4 DEF Begun

(* One more frame ends at offset n. *)
Extended(recs, at, at2, n) ==
    at2[Len(recs) + 1] = n /\ \A i \in 0..Len(recs) : at2[i] = at[i]

(* The last word of a frame. *)
LEMMA WriteCompletes ==
    ASSUME LogTypes, NEW recs, NEW at, LogInv(recs, at), WriteWord, EndsWriting(recs, at),
           offset + 1 = FrameLen(writing),
           NEW recs2, recs2 = Append(recs, writing), NEW at2, at2 = MoreOffsets(at, Len(recs), writing)
    PROVE  LogInv(recs2, at2)' /\ Extended(recs, at, at2, Len(file'))
    <1> DEFINE m == Len(recs)
    <1>1. /\ writing \in Record /\ FrameLen(writing) \in Nat /\ FrameLen(writing) > 3
          /\ offset \in Nat /\ offset < FrameLen(writing) /\ offset' = offset + 1
          /\ file' \in Seq(Words) /\ Len(file') = Len(file) + 1 /\ Len(file) \in Nat
          /\ \A i \in 1..Len(file) : file'[i] = file[i]
          /\ file'[Len(file) + 1] = Frame(writing)[offset + 1]
          /\ UNCHANGED <<synced, fd, bytes, writing, position, covers, acked, represented,
                         appends, torn, syncFaults>>
          /\ Holds(file', recs, at)
        BY WordWritten
    <1>2. /\ recs \in Seq(Record) /\ m \in Nat
          /\ \A i \in 0..m : at[i] \in Nat
          /\ \A i \in 1..m : recs[i] \in Record
        BY FileFacts
    <1>3. at[m] \in Nat /\ at[m] + offset = Len(file) /\ \A w \in 1..offset : file[at[m] + w] = Frame(writing)[w]
        BY <1>2 DEF EndsWriting, Partial
    <1>4. \A w \in 1..(offset + 1) : file'[at[m] + w] = Frame(writing)[w]
        <2>1. OneMore(file, file', Frame(writing)[offset + 1])
            BY <1>1, Zenon DEF OneMore
        <2>2. Begun(file, at[m], writing, offset)
            BY <1>3, Zenon DEF Begun
        <2>3. at[m] \in Nat /\ at[m] + offset = Len(file)
            BY <1>3
        <2>4. Begun(file', at[m], writing, offset + 1)
            BY <1>1, <2>1, <2>2, <2>3, PartGrows
        <2> QED BY <2>4, Zenon DEF Begun
    <1>5. FrameAt(file', at[m], writing) /\ at[m] + FrameLen(writing) <= Len(file')
        <2>1. at[m] + FrameLen(writing) <= Len(file')
            BY <1>1, <1>3
        <2> QED BY <1>4, <2>1 DEF FrameAt
    <1>6. /\ Holds(file', recs2, at2) /\ at2[m + 1] = at[m] + FrameLen(writing)
          /\ \A i \in 0..m : at2[i] = at[i]
        BY <1>1, <1>5, HoldsMore
    <1>7. /\ Len(recs2) = m + 1 /\ recs2[m + 1] = writing
          /\ \A i \in 1..m : recs2[i] = recs[i]
        BY <1>1, <1>2
    <1>8. writing # NoRecord /\ writing.seq = appends /\ Complete'
        BY <1>1 DEF WriteWord, LogTypes, Complete
    <1>9. at2[m + 1] = Len(file')
        <2> DEFINE p == at[m]
                   L == Len(file)
                   L2 == Len(file')
                   f == FrameLen(writing)
        <2>1. p \in Nat /\ p + offset = L /\ L2 = L + 1 /\ offset \in Nat /\ f = offset + 1
            BY <1>1, <1>3
        <2> HIDE DEF p, L, L2, f
        <2>2. p + f = L2
            BY <2>1
        <2> QED BY <1>6, <2>2, Zenon DEF p, L2, f
    <1>10. Ended(recs2, at2)'
        <2>1. Len(recs2) > 0
            BY <1>2, <1>7
        <2> QED BY <1>1, <1>7, <1>8, <1>9, <2>1 DEF Ended, EndsWhole
    <1>11. Sequenced(recs2)'
        <2>1. Ordered(recs) /\ \A i \in 1..m : recs[i].seq < appends
            BY <1>1, <1>8 DEF LogInv, Sequenced
        <2>2. appends \in Nat
            BY DEF LogTypes
        <2>3. \A i \in 1..m : recs[i].seq \in Nat
            BY <1>2, RecordFacts
        <2>4. DOMAIN recs = 1..m /\ DOMAIN recs2 = 1..(m + 1)
            BY <1>1, <1>2
        <2>5. Ordered(recs2)
            <3> SUFFICES ASSUME NEW i \in 1..(m + 1), NEW j \in 1..(m + 1), i < j, recs2[i].job = recs2[j].job
                         PROVE  recs2[i].seq < recs2[j].seq
                BY <2>4 DEF Ordered
            <3>1. i \in 1..m
                BY <1>2
            <3>2. CASE j \in 1..m
                BY <1>7, <2>1, <2>4, <3>1, <3>2 DEF Ordered
            <3>3. CASE j = m + 1
                BY <1>7, <1>8, <2>1, <3>1, <3>3
            <3> QED BY <1>2, <3>2, <3>3
        <2>6. \A i \in 1..Len(recs2) : recs2[i].seq <= appends
            BY <1>2, <1>7, <1>8, <2>1, <2>2, <2>3
        <2> QED BY <1>1, <2>5, <2>6 DEF Sequenced
    <1>12. ASSUME torn' = 0
           PROVE  AckedKnown(recs2, at2)' /\ BytesCounted(recs2, at2)' /\ PositionCovered(recs2, at2)'
        <2>1. AckedKnown(recs, at) /\ BytesCounted(recs, at) /\ PositionCovered(recs, at)
            BY <1>1, <1>12 DEF LogInv
        <2>2. Settled(recs) = m /\ Settled(recs2)' = m
            <3>1. (m + 1) - 1 = m /\ ~Complete
                BY <1>1, <1>2 DEF Complete
            <3> QED BY <1>7, <1>8, <3>1 DEF Settled
        <2>3. AckedKnown(recs2, at2)'
            <3>1. PICK n \in 0..m : at[n] <= synced /\ \A r \in acked : Known(r, recs, n)
                BY <2>1 DEF AckedKnown
            <3>2. n \in 0..Len(recs2) /\ at2[n] <= synced'
                BY <1>1, <1>2, <1>6, <1>7, <3>1
            <3>3. \A i \in 1..n : recs2[i] = recs[i]
                BY <1>2, <1>7
            <3>4. \A r \in acked' : Known(r, recs2, n)'
                BY <1>1, <3>1, <3>3 DEF Known
            <3> QED BY <3>2, <3>4, Zenon DEF AckedKnown
        <2>4. BytesCounted(recs2, at2)'
            <3>1. at2[m] = at[m]
                BY <1>2, <1>6
            <3> QED BY <1>1, <2>1, <2>2, <3>1 DEF BytesCounted
        <2>5. PositionCovered(recs2, at2)'
            <3> SUFFICES ASSUME position' # NoPosition PROVE PositionCovered(recs2, at2)'
                BY DEF PositionCovered
            <3>1. PICK n \in 0..m : /\ Covered(recs, n) /\ position <= at[n]
                                    /\ syncFaults = 0 => position = at[n]
                BY <1>1, <2>1, <2>2 DEF PositionCovered
            <3>2. at2[n] = at[n] /\ \A i \in 1..n : recs2[i] = recs[i]
                BY <1>2, <1>6, <1>7
            <3>3. Covered(recs2, n)' /\ position' <= at2[n] /\ (syncFaults' = 0 => position' = at2[n])
                BY <1>1, <3>1, <3>2 DEF Covered
            <3> QED BY <2>2, <3>3, Zenon DEF PositionCovered
        <2> QED BY <2>3, <2>4, <2>5
    <1>13. LogInv(recs2, at2)'
        BY <1>6, <1>10, <1>11, <1>12, LogInvNext
    <1> QED BY <1>6, <1>9, <1>13 DEF Extended

(* A word goes into a frame, completes one, or is behind a torn one. *)
LEMMA WriteWordKeeps ==
    ASSUME LogTypes, NEW recs, NEW at, LogInv(recs, at), WriteWord
    PROVE  /\ LogTypes'
           /\ \/ LogInv(recs, at)'
              \/ \E recs2, at2 : /\ recs2 = Append(recs, writing) /\ LogInv(recs2, at2)'
                                 /\ Extended(recs, at, at2, Len(file'))
    <1> DEFINE m == Len(recs)
    <1>1. /\ writing \in Record /\ FrameLen(writing) \in Nat /\ FrameLen(writing) > 3
          /\ offset \in Nat /\ offset < FrameLen(writing) /\ offset' = offset + 1
          /\ UNCHANGED <<writing, torn>> /\ LogTypes' /\ Len(file) \in Nat /\ Len(file') = Len(file) + 1
        BY WordWritten
    <1>2. OneMore(file, file', Frame(writing)[offset + 1])
        <2>1. /\ Len(file') = Len(file) + 1 /\ Len(file) \in Nat
              /\ \A i \in 1..Len(file) : file'[i] = file[i]
              /\ file'[Len(file) + 1] = Frame(writing)[offset + 1]
            BY WordWritten
        <2> QED BY <2>1, Zenon DEF OneMore
    <1>3. m \in Nat /\ at[m] \in Nat
        <2>1. m \in Nat /\ \A i \in 0..m : at[i] \in Nat
            BY FileFacts
        <2> QED BY <2>1
    <1>4. writing # NoRecord
        BY DEF WriteWord
    <1>5. Ended(recs, at)
        BY DEF LogInv
    <1>6. CASE EndsWhole(recs, at)
        <2>1. offset = 0 /\ at[m] = Len(file)
            BY <1>1, <1>4, <1>6 DEF EndsWhole, Complete
        <2>2. Begun(file, at[m], writing, 0)
            BY DEF Begun
        <2>3. at[m] + 0 = Len(file) /\ 0 \in Nat /\ 0 < FrameLen(writing) /\ 0 + 1 = 1
            BY <1>1, <1>3, <2>1
        <2>4. OneMore(file, file', Frame(writing)[0 + 1])
            BY <1>2, <2>1
        <2>5. 0 + 1 < FrameLen(writing) => Partial(file', at[m], writing, 0 + 1)
            BY <1>1, <1>3, <2>2, <2>3, <2>4, PartGrows
        <2>6. Partial(file', at[m], writing, 1)
            BY <1>1, <2>5
        <2>7. EndsWriting(recs, at)'
            <3>1. offset' = 1 /\ at[m] + offset' = Len(file')
                BY <1>1, <2>1
            <3> QED BY <1>1, <1>4, <2>6, <3>1 DEF EndsWriting
        <2>8. Ended(recs, at)' /\ offset + 1 # FrameLen(writing)
            BY <1>1, <2>1, <2>7 DEF Ended
        <2>9. LogInv(recs, at)'
            BY <2>8, WriteInside
        <2> QED BY <1>1, <2>9
    <1>7. CASE EndsWriting(recs, at)
        <2>1. at[m] + offset = Len(file) /\ Begun(file, at[m], writing, offset)
            BY <1>7, Zenon DEF EndsWriting, Partial, Begun
        <2>2. CASE offset + 1 = FrameLen(writing)
            <3>1. PICK recs2, at2 : recs2 = Append(recs, writing) /\ at2 = MoreOffsets(at, m, writing)
                OBVIOUS
            <3>2. LogInv(recs2, at2)' /\ Extended(recs, at, at2, Len(file'))
                BY <1>7, <2>2, <3>1, WriteCompletes
            <3> QED BY <1>1, <3>1, <3>2
        <2>3. CASE offset + 1 # FrameLen(writing)
            <3>1. offset + 1 < FrameLen(writing)
                BY <1>1, <2>3
            <3>2. Partial(file', at[m], writing, offset + 1)
                BY <1>1, <1>2, <1>3, <2>1, <3>1, PartGrows
            <3>3. EndsWriting(recs, at)'
                <4>1. at[m] + (offset + 1) = Len(file')
                    <5> DEFINE p == at[m]
                               L == Len(file)
                               L2 == Len(file')
                    <5>1. p \in Nat /\ p + offset = L /\ L2 = L + 1 /\ offset \in Nat
                        BY <1>1, <1>3, <2>1
                    <5> HIDE DEF p, L, L2
                    <5>2. p + (offset + 1) = L2
                        BY <5>1
                    <5> QED BY <5>2 DEF p, L2
                <4> QED BY <1>1, <1>4, <3>2, <4>1 DEF EndsWriting
            <3>4. Ended(recs, at)'
                BY <3>3 DEF Ended
            <3>5. LogInv(recs, at)'
                BY <2>3, <3>4, WriteInside
            <3> QED BY <1>1, <3>5
        <2> QED BY <2>2, <2>3
    <1>8. CASE EndsBlocked(recs, at)
        <2>1. PICK r, k : Partial(file, at[m], r, k) /\ (at[m] + k = Len(file) => offset = 0)
            BY <1>8 DEF EndsBlocked
        <2>2. torn # 0
            BY <1>8 DEF EndsBlocked
        <2>3. /\ r \in Record /\ k \in 1..(FrameLen(r) - 1) /\ at[m] + k <= Len(file)
              /\ at[m] + k < Len(file) => file[at[m] + k + 1] = Magic
              /\ \A w \in 1..k : file[at[m] + w] = Frame(r)[w]
            BY <2>1, Zenon DEF Partial
        <2>4. k \in Nat /\ k >= 1
            BY <2>3
        <2>5. file'[at[m] + k + 1] = Magic
            <3>1. CASE at[m] + k = Len(file)
                <4>1. file'[Len(file) + 1] = Frame(writing)[1]
                    <5>1. offset + 1 = 1
                        BY <2>1, <3>1
                    <5> QED BY <1>2, <5>1 DEF OneMore
                <4>2. Frame(writing)[1] = Magic
                    BY <1>1, FrameFacts
                <4> QED BY <3>1, <4>1, <4>2
            <3>2. CASE at[m] + k # Len(file)
                <4> DEFINE p == at[m]
                <4>1. p + k < Len(file) /\ p + k + 1 \in 1..Len(file)
                    <5>1. p \in Nat /\ p + k <= Len(file) /\ p + k # Len(file)
                        BY <1>3, <2>3, <3>2
                    <5> HIDE DEF p
                    <5> QED BY <1>1, <2>4, <5>1
                <4>2. file'[p + k + 1] = file[p + k + 1]
                    <5> HIDE DEF p
                    <5> QED BY <1>2, <4>1, Zenon DEF OneMore
                <4> QED BY <2>3, <4>1, <4>2
            <3> QED BY <3>1, <3>2
        <2>6. at[m] + k <= Len(file') /\ at[m] + k # Len(file')
            <3> DEFINE p == at[m]
            <3>1. p \in Nat /\ p + k <= Len(file)
                BY <1>3, <2>3
            <3> HIDE DEF p
            <3>2. p + k <= Len(file') /\ p + k # Len(file')
                BY <1>1, <2>4, <3>1
            <3> QED BY <3>2 DEF p
        <2>7. \A w \in 1..k : file'[at[m] + w] = Frame(r)[w]
            <3> SUFFICES ASSUME NEW w \in 1..k PROVE file'[at[m] + w] = Frame(r)[w]
                OBVIOUS
            <3> DEFINE p == at[m]
            <3>1. p \in Nat /\ p + k <= Len(file)
                BY <1>3, <2>3
            <3> HIDE DEF p
            <3>2. p + w \in 1..Len(file)
                BY <1>1, <2>4, <3>1
            <3>3. file'[p + w] = file[p + w]
                BY <1>2, <3>2, Zenon DEF OneMore
            <3>4. file[p + w] = Frame(r)[w]
                BY <2>3 DEF p
            <3> QED BY <3>3, <3>4 DEF p
        <2>8. Partial(file', at[m], r, k)
            BY <2>3, <2>5, <2>6, <2>7, Zenon DEF Partial
        <2>9. EndsBlocked(recs, at)'
            BY <1>1, <1>4, <2>2, <2>6, <2>8, Zenon DEF EndsBlocked
        <2>10. Ended(recs, at)'
            BY <2>9 DEF Ended
        <2>11. LogInv(recs, at)'
            BY <2>2, <2>10, WriteInside
        <2> QED BY <1>1, <2>11
    <1> QED BY <1>4, <1>5, <1>6, <1>7, <1>8 DEF Ended, EndsTorn

(* A crash keeps the first records. *)
LEMMA CrashKeeps ==
    ASSUME LogTypes, NEW recs, NEW at, LogInv(recs, at), NEW n \in 0..Len(file), Crash(n),
           NEW j, CutAt(recs, at, n, j),
           NEW recs2, recs2 = SubSeq(recs, 1, j), NEW at2, at2 = FirstOffsets(at, j)
    PROVE  LogTypes' /\ LogInv(recs2, at2)'
    <1> DEFINE m == Len(recs)
    <1>1. /\ UNCHANGED <<bytes, acked, represented, appends, torn, syncFaults>>
          /\ file' = SubSeq(file, 1, n) /\ synced' = n /\ fd' = FALSE /\ synced <= n
          /\ writing' = NoRecord /\ offset' = 0 /\ position' = NoPosition
        BY DEF Crash, EndPersist, EndTruncate
    <1>2. file' \in Seq(Words) /\ Len(file') = n
        BY <1>1, FileCut
    <1>3. LogTypes'
        <2>1. synced' \in 0..Len(file')
            BY <1>1, <1>2
        <2>2. offset' \in Nat
            BY <1>1
        <2> QED BY <1>1, <1>2, <2>1, <2>2, Zenon DEF LogTypes
    <1>4. /\ recs \in Seq(Record) /\ m \in Nat /\ DOMAIN recs = 1..m
          /\ \A i \in 0..m : at[i] \in Nat
        BY FileFacts
    <1>5. j \in 0..m /\ Holds(file', recs2, at2)
        BY <1>1 DEF CutAt
    <1>6. /\ Len(recs2) = j /\ DOMAIN recs2 = 1..j /\ \A i \in 1..j : recs2[i] = recs[i]
        BY <1>4, <1>5, Cut
    <1>7. j \in Nat /\ \A i \in 0..j : at2[i] = at[i]
        BY <1>5 DEF FirstOffsets
    <1>8. at2[j] = at[j]
        BY <1>7
    <1>9. Ended(recs2, at2)'
        <2>1. Stopped(file', at[j]) /\ (torn = 0 => Clean(file', at[j]))
            BY <1>1 DEF CutAt
        <2>2. CASE at[j] = Len(file')
            BY <1>1, <1>6, <1>8, <2>2 DEF Ended, EndsWhole
        <2>3. CASE at[j] # Len(file')
            <3>1. EndsTorn(recs2, at2)'
                <4>1. PICK r, k : Partial(file', at[j], r, k) /\ (torn = 0 => at[j] + k = Len(file'))
                    BY <2>1, <2>3, Zenon DEF Stopped, Clean
                <4> QED BY <1>1, <1>6, <1>8, <4>1, Zenon DEF EndsTorn
            <3> QED BY <3>1 DEF Ended
        <2> QED BY <2>2, <2>3
    <1>10. Sequenced(recs2)'
        <2>1. Ordered(recs) /\ \A i \in 1..m : recs[i].seq <= appends
            BY DEF LogInv, Sequenced
        <2>2. 1..j \subseteq 1..m
            BY <1>4, <1>5
        <2>3. Ordered(recs2)
            <3> SUFFICES ASSUME NEW a \in 1..j, NEW b \in 1..j, a < b, recs2[a].job = recs2[b].job
                         PROVE  recs2[a].seq < recs2[b].seq
                BY <1>6 DEF Ordered
            <3>1. a \in 1..m /\ b \in 1..m /\ recs2[a] = recs[a] /\ recs2[b] = recs[b]
                BY <1>6, <2>2
            <3> QED BY <1>4, <2>1, <3>1 DEF Ordered
        <2>4. \A i \in 1..j : recs2[i].seq <= appends
            BY <1>6, <2>1, <2>2, Zenon
        <2> QED BY <1>1, <1>6, <2>3, <2>4 DEF Sequenced
    <1>11. ASSUME torn' = 0
           PROVE  AckedKnown(recs2, at2)' /\ BytesCounted(recs2, at2)' /\ PositionCovered(recs2, at2)'
        <2>1. PICK s \in 0..m : at[s] <= synced /\ \A r \in acked : Known(r, recs, s)
            BY <1>1, <1>11 DEF LogInv, AckedKnown
        <2>2. at[s] <= n
            <3>1. at[s] \in Nat /\ synced \in Nat /\ n \in Nat
                BY <1>4 DEF LogTypes
            <3> QED BY <1>1, <2>1, <3>1
        <2>3. s <= j
            BY <2>2, CutOrder
        <2>4. s \in 0..j
            BY <1>5, <2>3
        <2>5. \A i \in 1..s : recs2[i] = recs[i]
            BY <1>6, <1>7, <2>4
        <2>6. \A r \in acked' : Known(r, recs2, s)'
            BY <1>1, <2>1, <2>5 DEF Known
        <2>7. at2[s] <= synced'
            BY <1>1, <1>7, <2>2, <2>4
        <2>8. AckedKnown(recs2, at2)'
            BY <1>6, <2>4, <2>6, <2>7, Zenon DEF AckedKnown
        <2> QED BY <1>1, <2>8 DEF BytesCounted, PositionCovered
    <1> QED BY <1>3, <1>5, <1>9, <1>10, <1>11, LogInvNext

(* What truncate_prefix() is given is a boundary between two frames. *)
LEMMA BoundaryFacts ==
    ASSUME LogTypes, NEW recs, NEW at, LogInv(recs, at), position # NoPosition, Truncatable
    PROVE  /\ ValidPrefix(file).n = at[Len(recs)] /\ Readable(file) = recs
           /\ \E p \in 0..Len(recs) : /\ position = at[p]
                                      /\ Readable(SubSeq(file, 1, position)) = SubSeq(recs, 1, p)
    <1> DEFINE m == Len(recs)
               cut == SubSeq(file, 1, position)
    <1>1. /\ ValidPrefix(file).ok /\ position <= ValidPrefix(file).n
          /\ ValidPrefix(cut).ok /\ ValidPrefix(cut).n = position
        BY Zenon DEF Truncatable, IsBoundary
    <1>2. ValidPrefix(file).n = at[m] /\ Readable(file) = recs
        BY <1>1, FileRead
    <1>3. position \in 0..Len(file)
        <2>1. position \in Nat
            BY DEF LogTypes
        <2>2. m \in Nat /\ Len(file) \in Nat /\ \A i \in 0..m : at[i] \in Nat /\ at[i] <= Len(file)
            BY FileFacts
        <2>3. at[m] \in Nat /\ at[m] <= Len(file) /\ position <= at[m]
            BY <1>1, <1>2, <2>2
        <2> QED BY <2>1, <2>2, <2>3
    <1>4. PICK j : CutAt(recs, at, position, j)
        BY <1>3, FileCut
    <1>5. ValidPrefix(cut).n = at[j] /\ Readable(cut) = SubSeq(recs, 1, j)
        BY <1>1, <1>3, <1>4, CutRead
    <1>6. j \in 0..m
        BY <1>4 DEF CutAt
    <1> QED BY <1>1, <1>2, <1>5, <1>6

(* The records that are kept of the first p, and those behind them. *)
KeptOf(recs, p, kept) ==
    /\ kept \in Seq(Record)
    /\ \A i \in 1..Len(kept) : /\ kept[i] \in Latest(SubSeq(recs, 1, p))
                               /\ \E k \in 1..p : kept[i] = recs[k]
    /\ \A i, k \in 1..Len(kept) : i < k => kept[i].job # kept[k].job
    /\ \A r \in Latest(SubSeq(recs, 1, p)) : ~r.terminal => \E i \in 1..Len(kept) : kept[i] = r

(* The selected records are such. *)
LEMMA KeptFacts ==
    ASSUME NEW recs \in Seq(Record), NEW p \in 0..Len(recs), NEW kept,
           Gathers(kept, Selected(SubSeq(recs, 1, p)), MaxJobs)
    PROVE  KeptOf(recs, p, kept)
    <1> DEFINE first == SubSeq(recs, 1, p)
    <1>1. first \in Seq(Record) /\ Len(first) = p /\ \A i \in 1..p : first[i] = recs[i]
        BY Cut
    <1>2. DOMAIN first = 1..p
        BY <1>1
    <1>3. Gathers(kept, Selected(first), MaxJobs)
        OBVIOUS
    <1> HIDE DEF first
    <1>4. /\ Selected(first) \subseteq Latest(first) /\ Selected(first) \subseteq Record
          /\ \A r \in Latest(first) : ~r.terminal => r \in Selected(first)
        BY <1>1, SelectedFacts
    <1>5. Latest(first) \subseteq RangeOf(first)
        BY <1>1, LatestFacts
    <1>6. /\ kept \in Seq(Record)
          /\ \A i \in 1..Len(kept) : kept[i] \in Selected(first)
          /\ \A i, k \in 1..Len(kept) : i < k => kept[i].job < kept[k].job
          /\ \A r \in Selected(first) : r.job <= MaxJobs => \E i \in 1..Len(kept) : kept[i] = r
        BY <1>3 DEF Gathers
    <1>7. \A r \in Record : r.job \in Nat /\ r.job <= MaxJobs
        <2>1. \A r \in Record : r.job \in 1..MaxJobs
            BY RecordFacts
        <2> QED BY <2>1, JobLogConstants
    <1>8. ASSUME NEW i \in 1..Len(kept) PROVE kept[i] \in Latest(first) /\ \E k \in 1..p : kept[i] = recs[k]
        <2>1. kept[i] \in Latest(first) /\ kept[i] \in RangeOf(first)
            BY <1>4, <1>5, <1>6
        <2>2. PICK k \in 1..p : kept[i] = first[k]
            BY <1>2, <2>1 DEF RangeOf
        <2> QED BY <1>1, <2>1, <2>2
    <1>9. \A i, k \in 1..Len(kept) : i < k => kept[i].job # kept[k].job
        BY <1>4, <1>6, <1>7
    <1>10. \A r \in Latest(first) : ~r.terminal => \E i \in 1..Len(kept) : kept[i] = r
        BY <1>4, <1>6, <1>7
    <1> QED BY <1>6, <1>8, <1>9, <1>10, Zenon DEF KeptOf, first

(* The file truncate_prefix() writes. *)
LEMMA CompactedFacts ==
    ASSUME LogTypes, NEW recs, NEW at, LogInv(recs, at), NEW p \in 0..Len(recs),
           position = at[p], Readable(SubSeq(file, 1, position)) = SubSeq(recs, 1, p),
           ValidPrefix(file).n = at[Len(recs)]
    PROVE  \E kept, at2 : /\ KeptOf(recs, p, kept)
                          /\ AllFrames(Compacted, kept \o SubSeq(recs, p + 1, Len(recs)), at2)
    <1> DEFINE m == Len(recs)
               first == SubSeq(recs, 1, p)
               last == SubSeq(recs, p + 1, m)
               head == FramesInOrder(Selected(first))
               rest == SubSeq(file, at[p] + 1, at[m])
               offs == LastOffsets(at, p, m)
    <1>1. recs \in Seq(Record) /\ m \in Nat /\ file \in Seq(Words) /\ Holds(file, recs, at)
        BY FileFacts
    <1>2. first \in Seq(Record)
        BY <1>1, Cut
    <1>3. Selected(first) \in SUBSET Record /\ OnePerJob(Selected(first))
        <2> HIDE DEF first
        <2> QED BY <1>2, SelectedFacts
    <1>4. PICK kept, atA : AllFrames(head, kept, atA) /\ Gathers(kept, Selected(first), MaxJobs)
        <2> HIDE DEF first
        <2> QED BY <1>3, FramesInOrderFacts
    <1>5. KeptOf(recs, p, kept)
        BY <1>1, <1>4, KeptFacts
    <1>6. /\ rest \in Seq(Words) /\ Len(last) = m - p /\ Holds(rest, last, offs)
          /\ offs[m - p] = Len(rest)
        BY <1>1, HoldsRest
    <1>7. head \in Seq(Words) /\ Holds(head, kept, atA) /\ atA[Len(kept)] = Len(head)
        BY <1>4 DEF AllFrames
    <1>8. Compacted = head \o rest
        BY DEF Compacted
    <1>9. kept \in Seq(Record) /\ last \in Seq(Record)
        BY <1>5, <1>6 DEF KeptOf, Holds
    <1>10. AllFrames(rest, last, offs)
        BY <1>6 DEF AllFrames
    <1> HIDE DEF head, rest, last, offs
    <1>11. PICK at2 : AllFrames(head \o rest, kept \o last, at2)
        BY <1>4, <1>10, FramesJoined
    <1>12. AllFrames(Compacted, kept \o last, at2)
        BY <1>8, <1>11
    <1> QED BY <1>5, <1>12 DEF last

(* The kept records and then the newer ones. *)
LEMMA JoinedRecords ==
    ASSUME NEW recs \in Seq(Record), NEW p \in 0..Len(recs), NEW kept \in Seq(Record), NEW recs2,
           recs2 = kept \o SubSeq(recs, p + 1, Len(recs))
    PROVE  /\ recs2 \in Seq(Record) /\ Len(recs2) = Len(kept) + (Len(recs) - p)
           /\ \A i \in 1..Len(kept) : recs2[i] = kept[i]
           /\ \A i \in 1..(Len(recs) - p) : recs2[Len(kept) + i] = recs[p + i]
    <1> DEFINE last == SubSeq(recs, p + 1, Len(recs))
    <1>1. Len(recs) \in Nat /\ p \in Nat /\ p <= Len(recs) /\ Len(recs) <= Len(recs)
        OBVIOUS
    <1>2. /\ last \in Seq(Record) /\ Len(last) = Len(recs) - p
          /\ \A i \in 1..(Len(recs) - p) : last[i] = recs[p + i]
        BY <1>1, Part
    <1> HIDE DEF last
    <1>3. /\ kept \o last \in Seq(Record) /\ Len(kept \o last) = Len(kept) + Len(last)
          /\ \A i \in 1..Len(kept) : (kept \o last)[i] = kept[i]
          /\ \A i \in 1..Len(last) : (kept \o last)[Len(kept) + i] = last[i]
        <2>1. last \in Seq(Record)
            BY <1>2
        <2> QED BY <2>1, Concatenated
    <1>4. recs2 = kept \o last
        BY DEF last
    <1> QED BY <1>2, <1>3, <1>4, Zenon

(* The records of a compacted log. *)
CompactionOf(recs, p, kept, recs2) ==
    KeptOf(recs, p, kept) /\ recs2 = kept \o SubSeq(recs, p + 1, Len(recs))

(* A compacted log is ordered. *)
LEMMA CompactedOrder ==
    ASSUME NEW recs \in Seq(Record), NEW p \in 0..Len(recs), NEW kept, NEW recs2,
           CompactionOf(recs, p, kept, recs2), Ordered(recs)
    PROVE  /\ Ordered(recs2)
           /\ \A i \in 1..Len(recs2) : \E k \in 1..Len(recs) : recs2[i] = recs[k]
    <1> DEFINE m == Len(recs)
               a == Len(kept)
    <1>1. /\ kept \in Seq(Record) /\ \A i \in 1..a : \E k \in 1..p : kept[i] = recs[k]
          /\ \A i, k \in 1..a : i < k => kept[i].job # kept[k].job
        BY DEF CompactionOf, KeptOf
    <1>2. /\ recs2 \in Seq(Record) /\ Len(recs2) = a + (m - p)
          /\ \A i \in 1..a : recs2[i] = kept[i]
          /\ \A i \in 1..(m - p) : recs2[a + i] = recs[p + i]
        <2>1. kept \in Seq(Record) /\ recs2 = kept \o SubSeq(recs, p + 1, Len(recs))
            BY <1>1 DEF CompactionOf
        <2> QED BY <2>1, JoinedRecords
    <1>3. a \in Nat /\ m \in Nat /\ p \in Nat /\ p <= m /\ DOMAIN recs = 1..m /\ DOMAIN recs2 = 1..(a + (m - p))
        BY <1>1, <1>2
    <1>4. ASSUME NEW i \in 1..(a + (m - p))
          PROVE  \/ i \in 1..a /\ \E k \in 1..p : recs2[i] = recs[k]
                 \/ i > a /\ p + (i - a) \in 1..m /\ p + (i - a) > p /\ recs2[i] = recs[p + (i - a)]
        <2>1. CASE i \in 1..a
            BY <1>1, <1>2, <2>1
        <2>2. CASE i \notin 1..a
            <3>1. i - a \in 1..(m - p) /\ a + (i - a) = i /\ i > a /\ p + (i - a) \in 1..m /\ p + (i - a) > p
                BY <1>3, <2>2
            <3>2. recs2[a + (i - a)] = recs[p + (i - a)]
                BY <1>2, <3>1
            <3> QED BY <3>1, <3>2
        <2> QED BY <2>1, <2>2
    <1>5. Ordered(recs2)
        <2> SUFFICES ASSUME NEW i \in 1..(a + (m - p)), NEW j \in 1..(a + (m - p)), i < j,
                            recs2[i].job = recs2[j].job
                     PROVE  recs2[i].seq < recs2[j].seq
            BY <1>3 DEF Ordered
        <2>1. CASE j \in 1..a
            <3>1. i \in 1..a
                BY <1>3, <2>1
            <3>2. recs2[i] = kept[i] /\ recs2[j] = kept[j] /\ kept[i].job # kept[j].job
                BY <1>1, <1>2, <2>1, <3>1
            <3> QED BY <3>2
        <2>2. CASE j \notin 1..a
            <3> DEFINE l == p + (j - a)
            <3>1. l \in 1..m /\ l > p /\ recs2[j] = recs[l] /\ l = p + (j - a)
                BY <1>4, <2>2
            <3>2. PICK k \in 1..m : recs2[i] = recs[k] /\ k < l
                <4>1. CASE i \in 1..a
                    <5>1. PICK k \in 1..p : recs2[i] = recs[k]
                        BY <1>1, <1>2, <4>1
                    <5>2. k \in 1..m /\ k < l
                        BY <1>3, <3>1
                    <5> QED BY <5>1, <5>2
                <4>2. CASE i \notin 1..a
                    <5>1. p + (i - a) \in 1..m /\ recs2[i] = recs[p + (i - a)]
                        BY <1>4, <4>2
                    <5>2. p + (i - a) < l
                        BY <1>3, <3>1
                    <5> QED BY <5>1, <5>2
                <4> QED BY <4>1, <4>2
            <3> HIDE DEF l
            <3> QED BY <1>3, <3>1, <3>2 DEF Ordered
        <2> QED BY <2>1, <2>2
    <1>6. \A i \in 1..Len(recs2) : \E k \in 1..m : recs2[i] = recs[k]
        <2> SUFFICES ASSUME NEW i \in 1..(a + (m - p)) PROVE \E k \in 1..m : recs2[i] = recs[k]
            BY <1>2
        <2>1. 1..p \subseteq 1..m
            BY <1>3
        <2> QED BY <1>4, <2>1
    <1> QED BY <1>5, <1>6

(* Nothing that was known is forgotten: a record that is dropped is
   superseded, or finished and covered. *)
LEMMA CompactedKnows ==
    ASSUME NEW recs \in Seq(Record), NEW p \in 0..Len(recs), NEW kept, NEW recs2,
           CompactionOf(recs, p, kept, recs2), Ordered(recs), Covered(recs, p),
           NEW n \in 0..Len(recs), NEW r, Known(r, recs, n), r.seq \in Nat,
           represented' = represented \cup {q \in covers : q.terminal}
    PROVE  Known(r, recs2, Len(recs2))'
    <1> DEFINE m == Len(recs)
               a == Len(kept)
               first == SubSeq(recs, 1, p)
    <1>1. /\ kept \in Seq(Record)
          /\ \A q \in Latest(first) : ~q.terminal => \E i \in 1..a : kept[i] = q
        BY DEF CompactionOf, KeptOf
    <1>2. /\ Len(recs2) = a + (m - p)
          /\ \A i \in 1..a : recs2[i] = kept[i]
          /\ \A i \in 1..(m - p) : recs2[a + i] = recs[p + i]
        <2>1. kept \in Seq(Record) /\ recs2 = kept \o SubSeq(recs, p + 1, Len(recs))
            BY <1>1 DEF CompactionOf
        <2>2. recs2 \in Seq(Record) /\ Len(recs2) = Len(kept) + (Len(recs) - p)
            BY <2>1, JoinedRecords
        <2>3. \A i \in 1..Len(kept) : recs2[i] = kept[i]
            BY <2>1, JoinedRecords
        <2>4. \A i \in 1..(Len(recs) - p) : recs2[Len(kept) + i] = recs[p + i]
            BY <2>1, JoinedRecords
        <2> QED BY <2>2, <2>3, <2>4
    <1>3. a \in Nat /\ m \in Nat /\ p \in Nat /\ p <= m /\ n \in Nat /\ n <= m /\ DOMAIN recs = 1..m
        BY <1>1
    <1>4. CASE \E q \in represented : q.job = r.job /\ q.seq >= r.seq
        BY <1>4, Zenon DEF Known
    <1>5. ASSUME NEW i \in 1..n, recs[i].job = r.job, recs[i].seq >= r.seq
          PROVE  Known(r, recs2, Len(recs2))'
        <2>1. CASE i <= p
            <3>1. first \in Seq(Record) /\ Len(first) = p /\ \A k \in 1..p : first[k] = recs[k]
                BY <1>3, Cut
            <3>2. i \in 1..p
                BY <1>3, <2>1
            <3> HIDE DEF first
            <3>3. PICK k \in 1..p : i <= k /\ first[k] \in Latest(first) /\ first[k].job = first[i].job
                BY <3>1, <3>2, LatestFacts
            <3>4. recs[k] \in Latest(first) /\ recs[k].job = r.job /\ k \in 1..m /\ i \in 1..m
                BY <1>3, <1>5, <3>1, <3>2, <3>3
            <3>5. recs[k].seq >= r.seq
                <4>1. CASE i = k
                    BY <1>5, <4>1
                <4>2. CASE i # k
                    <5>1. i < k
                        BY <1>3, <3>3, <4>2
                    <5>2. recs[i].seq < recs[k].seq
                        BY <1>3, <1>5, <3>4, <5>1 DEF Ordered
                    <5>3. recs[i].seq \in Nat /\ recs[k].seq \in Nat
                        BY <3>4, RecordFacts
                    <5> QED BY <1>5, <5>2, <5>3
                <4> QED BY <4>1, <4>2
            <3>6. CASE recs[k].terminal
                <4>1. recs[k] \in covers
                    BY DEF Covered
                <4>2. recs[k] \in represented'
                    BY <3>6, <4>1
                <4> QED BY <3>4, <3>5, <4>2, Zenon DEF Known
            <3>7. CASE ~recs[k].terminal
                <4>1. PICK h \in 1..a : kept[h] = recs[k]
                    BY <1>1, <3>4, <3>7
                <4>2. h \in 1..Len(recs2) /\ recs2[h] = recs[k]
                    BY <1>2, <1>3, <4>1
                <4> QED BY <3>4, <3>5, <4>2, Zenon DEF Known
            <3> QED BY <3>6, <3>7
        <2>2. CASE ~(i <= p)
            <3>1. i - p \in 1..(m - p) /\ p + (i - p) = i /\ a + (i - p) \in 1..Len(recs2)
                BY <1>2, <1>3, <2>2
            <3>2. recs2[a + (i - p)] = recs[i]
                BY <1>2, <3>1
            <3> QED BY <1>5, <3>1, <3>2, Zenon DEF Known
        <2> QED BY <2>1, <2>2
    <1> QED BY <1>4, <1>5, Zenon DEF Known

(* The log is replaced. *)
LEMMA CompactKeeps ==
    ASSUME LogTypes, NEW recs, NEW at, LogInv(recs, at), writing = NoRecord,
           NEW p \in 0..Len(recs), position = at[p], position # NoPosition,
           NEW kept, NEW recs2, CompactionOf(recs, p, kept, recs2),
           NEW at2, AllFrames(file', recs2, at2), synced' = Len(file'),
           fd' \in BOOLEAN, fd' => bytes' = Len(file'), bytes' \in Nat,
           represented' = represented \cup {q \in covers : q.terminal}, position' = NoPosition,
           UNCHANGED <<writing, offset, acked, appends, torn, syncFaults>>
    PROVE  LogTypes' /\ LogInv(recs2, at2)'
    <1> DEFINE m == Len(recs)
    <1>1. file' \in Seq(Words) /\ Holds(file', recs2, at2) /\ at2[Len(recs2)] = Len(file')
        BY DEF AllFrames
    <1>2. Len(file') \in Nat /\ Len(recs2) \in Nat
        <2>1. recs2 \in Seq(Record)
            BY <1>1 DEF Holds
        <2> QED BY <1>1, <2>1
    <1>3. LogTypes'
        <2>1. synced' \in 0..Len(file')
            BY <1>2
        <2> QED BY <1>1, <2>1, Zenon DEF LogTypes
    <1>4. Ended(recs2, at2)'
        BY <1>1 DEF Ended, EndsWhole
    <1>5. /\ recs \in Seq(Record) /\ m \in Nat
          /\ \A i \in 0..m : at[i] \in Nat
          /\ \A i, j \in 0..m : i < j => at[i] < at[j]
        BY FileFacts
    <1>6. Ordered(recs) /\ \A i \in 1..m : recs[i].seq <= appends
        BY DEF LogInv, Sequenced
    <1>7. Ordered(recs2) /\ \A i \in 1..Len(recs2) : \E k \in 1..m : recs2[i] = recs[k]
        <2>1. recs \in Seq(Record) /\ Ordered(recs)
            BY <1>5, <1>6
        <2> QED BY <2>1, CompactedOrder
    <1>8. Sequenced(recs2)'
        <2>1. \A i \in 1..Len(recs2) : recs2[i].seq <= appends
            BY <1>6, <1>7, Zenon
        <2> QED BY <1>7, <2>1 DEF Sequenced
    <1>9. ASSUME torn' = 0
          PROVE  AckedKnown(recs2, at2)' /\ BytesCounted(recs2, at2)' /\ PositionCovered(recs2, at2)'
        <2>1. PICK s \in 0..m : \A r \in acked : Known(r, recs, s)
            BY <1>9 DEF LogInv, AckedKnown
        <2>2. Covered(recs, p)
            <3>1. Settled(recs) = m
                BY DEF Settled, Complete
            <3>2. PICK c \in 0..m : Covered(recs, c) /\ position <= at[c]
                BY <1>9, <3>1 DEF LogInv, PositionCovered
            <3>3. p <= c
                <4>1. at[p] \in Nat /\ at[c] \in Nat /\ at[p] <= at[c] /\ (c < p => at[c] < at[p])
                    BY <1>5, <3>2
                <4> QED BY <1>5, <4>1
            <3>4. 1..p \subseteq 1..c
                BY <1>5, <3>3
            <3> QED BY <3>2, <3>4, Zenon DEF Covered
        <2>3. ASSUME NEW r \in acked PROVE Known(r, recs2, Len(recs2))'
            <3>1. Known(r, recs, s) /\ r.seq \in Nat
                BY <2>1, RecordFacts DEF LogTypes
            <3> QED BY <1>5, <1>6, <2>2, <3>1, CompactedKnows
        <2>4. Len(recs2) \in 0..Len(recs2) /\ at2[Len(recs2)] <= synced'
            BY <1>1, <1>2
        <2>5. AckedKnown(recs2, at2)'
            BY <2>3, <2>4, Zenon DEF AckedKnown
        <2>6. Settled(recs2)' = Len(recs2)
            BY DEF Settled, Complete
        <2>7. BytesCounted(recs2, at2)'
            BY <1>1, <1>2, <2>6 DEF BytesCounted
        <2> QED BY <2>5, <2>7 DEF PositionCovered
    <1> QED BY <1>1, <1>3, <1>4, <1>8, <1>9, LogInvNext

(* truncate_prefix() leaves the log or compacts it. *)
LEMMA TruncateKeeps ==
    ASSUME LogTypes, NEW recs, NEW at, LogInv(recs, at), TruncatePrefix
    PROVE  /\ LogTypes'
           /\ \/ LogInv(recs, at)' /\ UNCHANGED <<file, synced>>
              \/ \E p, kept, recs2, at2 :
                     /\ p \in 0..Len(recs) /\ CompactionOf(recs, p, kept, recs2)
                     /\ LogInv(recs2, at2)' /\ synced' = Len(file') /\ Readable(file) = recs
    <1>1. /\ fd /\ writing = NoRecord /\ position # NoPosition /\ Truncatable
          /\ represented' = represented \cup {q \in covers : q.terminal} /\ position' = NoPosition
          /\ UNCHANGED <<writing, offset, acked, appends, torn, syncFaults>>
        BY DEF TruncatePrefix, Idle, EndTruncate, counters
    <1>2. CASE UNCHANGED <<file, synced, bytes, fd>>
        <2>1. LogTypes' /\ LogInv(recs, at)'
            BY <1>1, <1>2, FileKept
        <2> QED BY <1>2, <2>1
    <1>3. CASE /\ file' = Compacted /\ synced' = Len(file')
               /\ (fd' = TRUE /\ bytes' = Len(file')) \/ (fd' = FALSE /\ bytes' = bytes)
        <2>1. ValidPrefix(file).n = at[Len(recs)] /\ Readable(file) = recs
            BY <1>1, BoundaryFacts
        <2>2. PICK p \in 0..Len(recs) : /\ position = at[p]
                                        /\ Readable(SubSeq(file, 1, position)) = SubSeq(recs, 1, p)
            BY <1>1, BoundaryFacts
        <2>3. PICK kept, at2 : /\ KeptOf(recs, p, kept)
                               /\ AllFrames(Compacted, kept \o SubSeq(recs, p + 1, Len(recs)), at2)
            BY <2>1, <2>2, CompactedFacts
        <2>4. PICK recs2 : recs2 = kept \o SubSeq(recs, p + 1, Len(recs))
            OBVIOUS
        <2>5. CompactionOf(recs, p, kept, recs2)
            BY <2>3, <2>4, Zenon DEF CompactionOf
        <2>6. AllFrames(file', recs2, at2)
            BY <1>3, <2>3, <2>4, Zenon
        <2>7. bytes' \in Nat /\ fd' \in BOOLEAN /\ (fd' => bytes' = Len(file'))
            <3>1. file' \in Seq(Words) /\ bytes \in Nat
                BY <2>6 DEF AllFrames, LogTypes
            <3>2. Len(file') \in Nat
                BY <3>1
            <3> QED BY <1>3, <3>1, <3>2
        <2>8. LogTypes' /\ LogInv(recs2, at2)'
            BY <1>1, <1>3, <2>2, <2>5, <2>6, <2>7, CompactKeeps
        <2> QED BY <1>3, <2>1, <2>5, <2>8
    <1> QED BY <1>2, <1>3 DEF TruncatePrefix

(* Every step keeps the invariant. *)
LEMMA LogStep == Inv /\ [Next]_vars => Inv'
    <1> SUFFICES ASSUME Inv, [Next]_vars PROVE Inv'
        OBVIOUS
    <1>1. LogTypes
        BY DEF Inv
    <1>2. PICK recs, at : LogInv(recs, at)
        BY DEF Inv
    <1> SUFFICES LogTypes' /\ \E recs2, at2 : LogInv(recs2, at2)'
        BY DEF Inv
    <1>3. CASE Open
        BY <1>1, <1>2, <1>3, OpenKeeps
    <1>4. CASE OpenRefused
        <2>1. /\ UNCHANGED <<file, synced, fd, bytes, writing, offset, acked, appends, torn, syncFaults>>
              /\ UNCHANGED <<represented, position, covers>>
            BY <1>4 DEF OpenRefused, counters
        <2> QED BY <1>1, <1>2, <2>1, FileKept
    <1>5. CASE \E r \in Record : BeginPersist(r)
        BY <1>1, <1>2, <1>5, BeginKeeps
    <1>6. CASE WriteWord
        BY <1>1, <1>2, <1>6, WriteWordKeeps
    <1>7. CASE WriteFails
        BY <1>1, <1>2, <1>7, WriteFailsKeeps
    <1>8. CASE SyncSucceeds
        BY <1>1, <1>2, <1>8, SyncSucceedsKeeps
    <1>9. CASE SyncFails
        BY <1>1, <1>2, <1>9, SyncFailsKeeps
    <1>10. CASE ReadPosition
        BY <1>1, <1>2, <1>10, ReadPositionKeeps
    <1>11. CASE TruncatePrefix
        BY <1>1, <1>2, <1>11, TruncateKeeps
    <1>12. CASE TruncateFails
        <2>1. /\ UNCHANGED <<file, synced, fd, bytes, writing, offset, acked, appends, torn, syncFaults>>
              /\ UNCHANGED represented /\ position' = NoPosition
            BY <1>12 DEF TruncateFails, EndTruncate, counters
        <2> QED BY <1>1, <1>2, <2>1, FileKept
    <1>13. CASE \E n \in 0..Len(file) : Crash(n)
        <2>1. PICK n \in 0..Len(file) : Crash(n)
            BY <1>13
        <2>2. PICK j : CutAt(recs, at, n, j)
            BY <1>1, <1>2, FileCut
        <2>3. PICK recs2, at2 : recs2 = SubSeq(recs, 1, j) /\ at2 = FirstOffsets(at, j)
            OBVIOUS
        <2>4. LogTypes' /\ LogInv(recs2, at2)'
            BY <1>1, <1>2, <2>1, <2>2, <2>3, CrashKeeps
        <2> QED BY <2>4
    <1>14. CASE UNCHANGED vars
        <2>1. /\ UNCHANGED <<file, synced, fd, bytes, writing, offset, acked, appends, torn, syncFaults>>
              /\ UNCHANGED <<represented, position, covers>>
            BY <1>14 DEF vars, process, counters
        <2> QED BY <1>1, <1>2, <2>1, FileKept
    <1> QED BY <1>3, <1>4, <1>5, <1>6, <1>7, <1>8, <1>9, <1>10, <1>11, <1>12, <1>13, <1>14 DEF Next

(* The file is always the frames of some records, behind which nothing can
   be read. *)
LEMMA LogInvariant == Spec => []Inv
    <1>1. Init => Inv
        BY LogInitial DEF Inv
    <1>2. Inv /\ [Next]_vars => Inv'
        BY LogStep
    <1> QED BY <1>1, <1>2, PTL DEF Spec

(* A crash at any moment leaves a log that open() accepts and that has every
   record persist() acknowledged, until a write fails in the middle of a
   frame. *)
THEOREM LogSurvives == Spec => []LogReadable
    BY LogInvariant, InvLogReadable, PTL

(* A position that checkpoint_embedded() reads is a frame boundary when
   truncate_prefix() gets it, and has in front of it what it was read for. *)
THEOREM PositionsStayUsable == Spec => []PositionUsable
    BY LogInvariant, InvPositionUsable, PTL

(* Whatever fails, what load_latest() takes for the state of a job is the
   newest one. *)
THEOREM NewestIsLast == Spec => []LastIsNewest
    BY LogInvariant, InvLastIsNewest, PTL

-----------------------------------------------------------------------------
(* The log of words implements the log of records                          *)

(* A blob stands for records of which the first k are in its first n words. *)
View(blob, n, recs, at, k) ==
    /\ blob \in Seq(Words) /\ Holds(blob, recs, at) /\ Clean(blob, at[Len(recs)])
    /\ n \in 0..Len(blob) /\ k \in 0..Len(recs)
    /\ at[k] <= n /\ (k < Len(recs) => n < at[k + 1])

(* What is read of such a blob. *)
LEMMA ViewRead ==
    ASSUME NEW blob, NEW n, NEW recs, NEW at, NEW k, View(blob, n, recs, at, k)
    PROVE  /\ Readable(blob) = recs /\ Len(Readable(SubSeq(blob, 1, n))) = k
           /\ recs \in Seq(Record) /\ Len(recs) \in Nat /\ k \in Nat /\ k <= Len(recs)
    <1> DEFINE m == Len(recs)
    <1>1. /\ blob \in Seq(Words) /\ Holds(blob, recs, at) /\ Clean(blob, at[m])
          /\ n \in 0..Len(blob) /\ k \in 0..m /\ at[k] <= n /\ (k < m => n < at[k + 1])
        BY DEF View
    <1>2. Stopped(blob, at[m])
        BY <1>1, Zenon DEF Clean, Stopped
    <1>3. Readable(blob) = recs
        BY <1>1, <1>2, ReadFacts
    <1>4. recs \in Seq(Record)
        BY <1>1 DEF Holds
    <1>5. Len(blob) \in Nat
        BY <1>1
    <1>6. /\ m \in Nat /\ \A i \in 0..m : at[i] \in Nat
          /\ \A i, j \in 0..m : i < j => at[i] < at[j]
        BY <1>1, <1>5, OffsetFacts
    <1> DEFINE cut == SubSeq(blob, 1, n)
    <1>7. PICK j \in 0..m : /\ at[j] <= n /\ (j < m => n < at[j + 1])
                            /\ Holds(cut, SubSeq(recs, 1, j), FirstOffsets(at, j))
                            /\ Stopped(cut, at[j]) /\ Clean(cut, at[j])
        BY <1>1, <1>2, CutHolds
    <1>8. j = k
        <2>1. at[j] \in Nat /\ at[k] \in Nat /\ n \in Nat /\ j \in Nat /\ k \in Nat
            BY <1>1, <1>6
        <2>2. ASSUME NEW x \in 0..m, NEW y \in 0..m, x < y, n < at[x + 1], at[y] <= n PROVE FALSE
            <3>1. x + 1 \in 0..m /\ at[x + 1] \in Nat /\ at[y] \in Nat
                BY <1>6, <2>2
            <3>2. x + 1 = y \/ x + 1 < y
                BY <1>6, <2>2
            <3>3. at[x + 1] <= at[y]
                BY <1>6, <3>1, <3>2
            <3> QED BY <2>1, <2>2, <3>1, <3>3
        <2>3. ~(j < k)
            <3> SUFFICES ASSUME j < k PROVE FALSE
                OBVIOUS
            <3>1. j < m
                BY <1>1, <1>6
            <3> QED BY <1>1, <1>7, <2>2, <3>1
        <2>4. ~(k < j)
            <3> SUFFICES ASSUME k < j PROVE FALSE
                OBVIOUS
            <3>1. k < m
                BY <1>6, <2>1
            <3> QED BY <1>1, <1>7, <2>2, <3>1
        <2> QED BY <2>1, <2>3, <2>4
    <1>9. cut \in Seq(Words)
        BY <1>1, Cut
    <1> DEFINE first == SubSeq(recs, 1, j)
               offs == FirstOffsets(at, j)
    <1>10. Len(first) = j
        BY <1>4, Cut
    <1>11. offs[j] = at[j]
        <2>1. j \in 0..j
            BY <1>6
        <2> QED BY <2>1 DEF FirstOffsets
    <1>12. Holds(cut, first, offs)
        BY <1>7
    <1> HIDE DEF cut, first, offs
    <1>13. Stopped(cut, offs[Len(first)]) /\ Clean(cut, offs[Len(first)])
        BY <1>7, <1>10, <1>11
    <1>14. Readable(cut) = first
        BY <1>9, <1>12, <1>13, ReadFacts
    <1>15. Len(Readable(cut)) = k
        BY <1>8, <1>10, <1>14
    <1> QED BY <1>1, <1>3, <1>4, <1>6, <1>15 DEF cut

(* Until a write fails, the file stands for its records. *)
LEMMA LogView ==
    ASSUME LogTypes, NEW recs, NEW at, LogInv(recs, at), torn = 0
    PROVE  \E k : View(file, synced, recs, at, k) /\ CutAt(recs, at, synced, k)
    <1>1. synced \in 0..Len(file) /\ file \in Seq(Words)
        BY DEF LogTypes
    <1>2. PICK k : CutAt(recs, at, synced, k)
        BY <1>1, FileCut
    <1>3. Holds(file, recs, at) /\ Clean(file, at[Len(recs)])
        BY FileFacts, FileStops
    <1>4. View(file, synced, recs, at, k)
        BY <1>1, <1>2, <1>3, Zenon DEF View, CutAt
    <1> QED BY <1>2, <1>4

(* ... and the next one for its own. *)
LEMMA NextView ==
    ASSUME LogTypes', NEW recs, NEW at, LogInv(recs, at)', torn' = 0,
           NEW k, k \in 0..Len(recs), at[k] <= synced', k < Len(recs) => synced' < at[k + 1]
    PROVE  View(file', synced', recs, at, k)
    <1>1. synced' \in 0..Len(file') /\ file' \in Seq(Words)
        BY DEF LogTypes
    <1>2. Holds(file', recs, at) /\ Ended(recs, at)'
        BY DEF LogInv
    <1>3. Clean(file', at[Len(recs)])
        <2>1. CASE EndsWhole(recs, at)'
            BY <2>1 DEF EndsWhole, Clean
        <2>2. CASE EndsWriting(recs, at)'
            BY <2>2, Zenon DEF EndsWriting, Clean
        <2>3. CASE EndsTorn(recs, at)'
            BY <2>3, Zenon DEF EndsTorn, Clean
        <2> QED BY <1>2, <2>1, <2>2, <2>3 DEF Ended, EndsBlocked
    <1> QED BY <1>1, <1>2, <1>3, Zenon DEF View

(* The records the compaction keeps are no more than there were. *)
LEMMA KeptShorter ==
    ASSUME NEW recs \in Seq(Record), NEW p \in 0..Len(recs), NEW kept, KeptOf(recs, p, kept)
    PROVE  Len(kept) \in 0..p
    <1> DEFINE a == Len(kept)
               f == [i \in 1..a |-> CHOOSE k \in 1..p : kept[i] = recs[k]]
    <1>1. /\ kept \in Seq(Record) /\ \A i \in 1..a : \E k \in 1..p : kept[i] = recs[k]
          /\ \A i, k \in 1..a : i < k => kept[i].job # kept[k].job
        BY DEF KeptOf
    <1>2. a \in Nat /\ p \in Nat
        BY <1>1
    <1>3. \A i \in 1..a : f[i] \in 1..p /\ kept[i] = recs[f[i]]
        BY <1>1
    <1>4. f \in [1..a -> 1..p]
        BY <1>3
    <1> HIDE DEF f
    <1>5. ASSUME NEW i \in 1..a, NEW k \in 1..a, f[i] = f[k] PROVE i = k
        <2>1. kept[i] = kept[k]
            BY <1>3, <1>5
        <2>2. ~(i < k) /\ ~(k < i)
            BY <1>1, <2>1
        <2> QED BY <1>2, <2>2
    <1>6. f \in Injection(1..a, 1..p)
        BY <1>4, <1>5 DEF Injection, IsInjective
    <1>7. /\ IsFiniteSet(1..a) /\ Cardinality(1..a) = (IF 1 > a THEN 0 ELSE a - 1 + 1)
          /\ IsFiniteSet(1..p) /\ Cardinality(1..p) = (IF 1 > p THEN 0 ELSE p - 1 + 1)
        <2>1. 1 \in Int /\ a \in Int /\ p \in Int
            BY <1>2
        <2> HIDE DEF a
        <2>2. IsFiniteSet(1..a) /\ Cardinality(1..a) = (IF 1 > a THEN 0 ELSE a - 1 + 1)
            BY <2>1, FS_Interval
        <2>3. IsFiniteSet(1..p) /\ Cardinality(1..p) = (IF 1 > p THEN 0 ELSE p - 1 + 1)
            BY <2>1, FS_Interval
        <2> QED BY <2>2, <2>3
    <1>8. Cardinality(1..a) = a /\ Cardinality(1..p) = p
        BY <1>2, <1>7
    <1>9. Cardinality(1..a) <= Cardinality(1..p)
        BY <1>6, <1>7, FS_Injection
    <1> QED BY <1>2, <1>8, <1>9

(* What the record log sees of a step. *)
Sees(recs, k, recs2, k2) ==
    /\ Readable(file) = recs /\ Len(Readable(SubSeq(file, 1, synced))) = k
    /\ Readable(file)' = recs2 /\ Len(Readable(SubSeq(file, 1, synced)))' = k2

(* It is what the file stands for before and after it. *)
LEMMA SeesViews ==
    ASSUME NEW recs, NEW at, NEW k, View(file, synced, recs, at, k),
           NEW recs2, NEW at2, NEW k2, View(file', synced', recs2, at2, k2)
    PROVE  Sees(recs, k, recs2, k2)
    <1>1. Readable(file) = recs /\ Len(Readable(SubSeq(file, 1, synced))) = k
        BY ViewRead
    <1>2. Readable(file') = recs2 /\ Len(Readable(SubSeq(file', 1, synced'))) = k2
        BY ViewRead
    <1> QED BY <1>1, <1>2 DEF Sees

(* A record is appended. *)
LEMMA SeesAppend ==
    ASSUME NEW recs \in Seq(Record), NEW k, NEW r \in Record, Sees(recs, k, Append(recs, r), k)
    PROVE  Abstract!AppendRecord
    <1> DEFINE new == Append(recs, r)
    <1>1. Len(new) = Len(recs) + 1 /\ new # <<>> /\ new[Len(new)] = r /\ SubSeq(new, 1, Len(new) - 1) = recs
        OBVIOUS
    <1>2. Sees(recs, k, new, k)
        OBVIOUS
    <1> HIDE DEF new
    <1> QED BY <1>1, <1>2 DEF Sees, Abstract!AppendRecord

(* The records are committed. *)
LEMMA SeesCommit ==
    ASSUME NEW recs, NEW k, Sees(recs, k, recs, Len(recs))
    PROVE  Abstract!Commit
    BY DEF Sees, Abstract!Commit

(* Records that were not committed are lost. *)
LEMMA SeesLose ==
    ASSUME NEW recs \in Seq(Record), NEW k, NEW j \in 0..Len(recs), k \in Nat, k <= j,
           Sees(recs, k, SubSeq(recs, 1, j), j)
    PROVE  Abstract!Lose
    <1> DEFINE new == SubSeq(recs, 1, j)
    <1>1. Len(new) = j /\ j \in k..Len(recs)
        BY Cut
    <1>2. Sees(recs, k, new, j) /\ new = SubSeq(recs, 1, j)
        OBVIOUS
    <1> HIDE DEF new
    <1> QED BY <1>1, <1>2 DEF Sees, Abstract!Lose

(* Nothing happens. *)
LEMMA SeesNothing ==
    ASSUME NEW recs, NEW k, Sees(recs, k, recs, k)
    PROVE  UNCHANGED <<Abstract!vars>>
    BY DEF Sees, Abstract!vars

(* A prefix is compacted. *)
LEMMA SeesCompact ==
    ASSUME NEW recs \in Seq(Record), NEW k, NEW p \in 0..Len(recs), NEW kept, NEW recs2,
           CompactionOf(recs, p, kept, recs2), Sees(recs, k, recs2, Len(recs2))
    PROVE  Abstract!Compact
    <1> DEFINE m == Len(recs)
               a == Len(kept)
               latest == Latest(SubSeq(recs, 1, p))
    <1>1. /\ kept \in Seq(Record) /\ recs2 = kept \o SubSeq(recs, p + 1, m)
          /\ \A i \in 1..a : kept[i] \in latest
          /\ \A r \in latest : ~r.terminal => \E i \in 1..a : kept[i] = r
        BY DEF CompactionOf, KeptOf
    <1>2. recs2 \in Seq(Record) /\ Len(recs2) = a + (m - p)
        BY <1>1, JoinedRecords
    <1>3. \A i \in 1..a : recs2[i] = kept[i]
        BY <1>1, JoinedRecords
    <1>4. \A i \in 1..(m - p) : recs2[a + i] = recs[p + i]
        BY <1>1, JoinedRecords
    <1>5. a \in 0..p
        BY KeptShorter DEF CompactionOf
    <1>6. a \in Nat /\ m \in Nat /\ p \in Nat /\ p <= m /\ Len(recs2) - (m - p) = a
        BY <1>2, <1>5
    <1>7. SubSeq(recs2, a + 1, Len(recs2)) = SubSeq(recs, p + 1, m)
        <2> DEFINE x == SubSeq(recs2, a + 1, Len(recs2))
                   y == SubSeq(recs, p + 1, m)
        <2>1. a <= Len(recs2) /\ Len(recs2) <= Len(recs2) /\ Len(recs2) \in Nat /\ m <= m
            BY <1>2, <1>6
        <2>2. /\ x \in Seq(Record) /\ Len(x) = Len(recs2) - a
              /\ \A i \in 1..(Len(recs2) - a) : x[i] = recs2[a + i]
            BY <1>2, <1>6, <2>1, Part
        <2>3. /\ y \in Seq(Record) /\ Len(y) = m - p
              /\ \A i \in 1..(m - p) : y[i] = recs[p + i]
            BY <1>6, <2>1, Part
        <2>4. Len(recs2) - a = m - p
            BY <1>2, <1>6
        <2> HIDE DEF x, y
        <2>5. Len(x) = Len(y) /\ \A i \in 1..Len(x) : x[i] = y[i]
            BY <1>4, <2>2, <2>3, <2>4, Zenon
        <2>6. x \in [1..Len(x) -> Record] /\ y \in [1..Len(x) -> Record]
            BY <2>2, <2>3, <2>5
        <2>7. x = y
            BY <2>5, <2>6
        <2> QED BY <2>7 DEF x, y
    <1>8. RangeOf(SubSeq(recs2, 1, a)) = {kept[i] : i \in 1..a}
        <2> DEFINE x == SubSeq(recs2, 1, a)
        <2>1. x \in Seq(Record) /\ Len(x) = a /\ \A i \in 1..a : x[i] = recs2[i]
            <3>1. a \in 0..Len(recs2)
                BY <1>2, <1>6
            <3> QED BY <1>2, <3>1, Cut
        <2>2. DOMAIN x = 1..a
            BY <2>1
        <2> HIDE DEF x
        <2>3. RangeOf(x) = {kept[i] : i \in 1..a}
            BY <1>3, <2>1, <2>2 DEF RangeOf
        <2> QED BY <2>3 DEF x
    <1>9. RangeOf(SubSeq(recs2, 1, a)) \subseteq latest
        BY <1>1, <1>8
    <1>10. {r \in latest : ~r.terminal} \subseteq RangeOf(SubSeq(recs2, 1, a))
        BY <1>1, <1>8
    <1>11. \A s : Abstract!RangeOf(s) = RangeOf(s) /\ Abstract!Latest(s) = Latest(s)
        BY DEF Abstract!RangeOf, RangeOf, Abstract!Latest, Latest
    <1>12. Abstract!Compacts(recs, recs2, p)
        <2> HIDE DEF a, latest, m
        <2>1. Len(recs2) - (Len(recs) - p) = a /\ Len(recs) = m
            BY <1>6 DEF m
        <2>2. SubSeq(recs2, a + 1, Len(recs2)) = SubSeq(recs, p + 1, Len(recs))
            BY <1>7, <2>1
        <2>3. Abstract!Latest(SubSeq(recs, 1, p)) = latest
            BY <1>11 DEF latest
        <2>4. Abstract!RangeOf(SubSeq(recs2, 1, a)) = RangeOf(SubSeq(recs2, 1, a))
            BY <1>11
        <2> QED BY <1>5, <1>9, <1>10, <2>1, <2>2, <2>3, <2>4, Zenon DEF Abstract!Compacts
    <1> HIDE DEF a, latest, m
    <1> QED BY <1>12 DEF Sees, Abstract!Compact

(* What the record log makes of a step. *)
Refined == Abstract!Next \/ UNCHANGED <<Abstract!vars>>

(* Nothing is written or lost. *)
LEMMA KeptRefines ==
    ASSUME UNCHANGED <<file, synced>>
    PROVE  Refined
    <1>1. Sees(Readable(file), Len(Readable(SubSeq(file, 1, synced))),
               Readable(file), Len(Readable(SubSeq(file, 1, synced))))
        BY DEF Sees
    <1>2. PICK recs, k : Sees(recs, k, recs, k)
        BY <1>1
    <1> QED BY <1>2, SeesNothing DEF Refined

(* open() commits what it reads. *)
LEMMA OpenRefines ==
    ASSUME LogTypes, NEW recs, NEW at, LogInv(recs, at), torn = 0, Open
    PROVE  Refined
    <1>1. PICK k : View(file, synced, recs, at, k)
        BY LogView
    <1>2. LogTypes' /\ LogInv(recs, at)' /\ synced' = at[Len(recs)] /\ torn' = 0
        BY OpenKeeps DEF Open, counters
    <1>3. Len(recs) \in Nat /\ \A i \in 0..Len(recs) : at[i] \in Nat
        BY FileFacts
    <1>4. Len(recs) \in 0..Len(recs) /\ at[Len(recs)] <= synced' /\ ~(Len(recs) < Len(recs))
        BY <1>2, <1>3
    <1>5. View(file', synced', recs, at, Len(recs))
        BY <1>2, <1>4, NextView
    <1> QED BY <1>1, <1>5, SeesViews, SeesCommit DEF Refined, Abstract!Next

(* So does a successful fsync. *)
LEMMA SyncRefines ==
    ASSUME LogTypes, NEW recs, NEW at, LogInv(recs, at), torn = 0, SyncSucceeds
    PROVE  Refined
    <1>1. PICK k : View(file, synced, recs, at, k)
        BY LogView
    <1>2. LogTypes' /\ LogInv(recs, at)' /\ synced' = Len(file) /\ torn' = 0
        BY SyncSucceedsKeeps DEF SyncSucceeds, counters
    <1>3. Len(recs) \in Nat /\ \A i \in 0..Len(recs) : at[i] \in Nat /\ at[i] <= Len(file)
        BY FileFacts
    <1>4. Len(recs) \in 0..Len(recs) /\ at[Len(recs)] <= synced' /\ ~(Len(recs) < Len(recs))
        BY <1>2, <1>3
    <1>5. View(file', synced', recs, at, Len(recs))
        BY <1>2, <1>4, NextView
    <1> QED BY <1>1, <1>5, SeesViews, SeesCommit DEF Refined, Abstract!Next

(* The last word of a frame appends its record, the others nothing. *)
LEMMA WriteRefines ==
    ASSUME LogTypes, NEW recs, NEW at, LogInv(recs, at), torn = 0, WriteWord
    PROVE  Refined
    <1> DEFINE m == Len(recs)
    <1>1. PICK k : View(file, synced, recs, at, k)
        BY LogView
    <1>2. k \in 0..m /\ at[k] <= synced /\ (k < m => synced < at[k + 1])
        BY <1>1 DEF View
    <1>3. LogTypes' /\ torn' = 0 /\ synced' = synced
        BY WriteWordKeeps DEF WriteWord, counters
    <1>4. /\ recs \in Seq(Record) /\ m \in Nat /\ writing \in Record /\ Len(file) \in Nat
          /\ Len(file') = Len(file) + 1 /\ synced \in 0..Len(file)
        BY FileFacts, WordWritten DEF LogTypes
    <1>5. CASE LogInv(recs, at)'
        <2>1. View(file', synced', recs, at, k)
            BY <1>2, <1>3, <1>5, NextView
        <2> QED BY <1>1, <2>1, SeesViews, SeesNothing DEF Refined
    <1>6. ASSUME NEW recs2, NEW at2, recs2 = Append(recs, writing), LogInv(recs2, at2)',
                 Extended(recs, at, at2, Len(file'))
          PROVE  Refined
        <2>1. Len(recs2) = m + 1
            BY <1>4, <1>6
        <2>2. at2[m + 1] = Len(file') /\ \A i \in 0..m : at2[i] = at[i]
            BY <1>6 DEF Extended
        <2>3. k \in 0..Len(recs2) /\ at2[k] <= synced'
            BY <1>2, <1>3, <1>4, <2>1, <2>2
        <2>4. synced' < at2[k + 1]
            <3>1. CASE k = m
                <4>1. synced < Len(file')
                    BY <1>4
                <4> QED BY <1>3, <2>2, <3>1, <4>1
            <3>2. CASE k # m
                <4>1. k < m /\ k + 1 \in 0..m
                    BY <1>2, <1>4, <3>2
                <4> QED BY <1>2, <1>3, <2>2, <4>1
            <3> QED BY <3>1, <3>2
        <2>5. View(file', synced', recs2, at2, k)
            BY <1>3, <1>6, <2>3, <2>4, NextView
        <2>6. Sees(recs, k, recs2, k)
            BY <1>1, <2>5, SeesViews
        <2>7. Abstract!AppendRecord
            BY <1>4, <1>6, <2>6, SeesAppend
        <2> QED BY <2>7 DEF Refined, Abstract!Next
    <1> QED BY <1>5, <1>6, WriteWordKeeps

(* truncate_prefix() compacts and commits. *)
LEMMA TruncateRefines ==
    ASSUME LogTypes, NEW recs, NEW at, LogInv(recs, at), torn = 0, TruncatePrefix
    PROVE  Refined
    <1>1. PICK k : View(file, synced, recs, at, k)
        BY LogView
    <1>2. LogTypes' /\ torn' = 0 /\ recs \in Seq(Record)
        BY FileFacts, TruncateKeeps DEF TruncatePrefix, counters
    <1>3. CASE UNCHANGED <<file, synced>>
        BY <1>3, KeptRefines
    <1>4. ASSUME NEW p, NEW kept, NEW recs2, NEW at2, p \in 0..Len(recs),
                 CompactionOf(recs, p, kept, recs2), LogInv(recs2, at2)', synced' = Len(file')
          PROVE  Refined
        <2>1. Holds(file', recs2, at2) /\ file' \in Seq(Words)
            BY <1>2, <1>4 DEF LogInv, LogTypes
        <2>2. Len(file') \in Nat
            BY <2>1
        <2>3. Len(recs2) \in Nat /\ \A i \in 0..Len(recs2) : at2[i] \in Nat /\ at2[i] <= Len(file')
            BY <2>1, <2>2, OffsetFacts
        <2>4. Len(recs2) \in 0..Len(recs2) /\ at2[Len(recs2)] <= synced' /\ ~(Len(recs2) < Len(recs2))
            BY <1>4, <2>3
        <2>5. View(file', synced', recs2, at2, Len(recs2))
            BY <1>2, <1>4, <2>4, NextView
        <2>6. Sees(recs, k, recs2, Len(recs2))
            BY <1>1, <2>5, SeesViews
        <2>7. Abstract!Compact
            BY <1>2, <1>4, <2>6, SeesCompact
        <2> QED BY <2>7 DEF Refined, Abstract!Next
    <1> QED BY <1>3, <1>4, TruncateKeeps

(* A crash loses what is not committed. *)
LEMMA CrashRefines ==
    ASSUME LogTypes, NEW recs, NEW at, LogInv(recs, at), torn = 0, NEW n \in 0..Len(file), Crash(n)
    PROVE  Refined
    <1>1. PICK k : View(file, synced, recs, at, k)
        BY LogView
    <1>2. PICK j : CutAt(recs, at, n, j)
        BY FileCut
    <1>3. PICK recs2, at2 : recs2 = SubSeq(recs, 1, j) /\ at2 = FirstOffsets(at, j)
        OBVIOUS
    <1>4. LogTypes' /\ LogInv(recs2, at2)'
        BY <1>2, <1>3, CrashKeeps
    <1>5. torn' = 0 /\ synced' = n /\ synced <= n
        BY DEF Crash
    <1>6. recs \in Seq(Record) /\ Len(recs) \in Nat /\ j \in 0..Len(recs) /\ at[j] <= n
        BY <1>2, FileFacts DEF CutAt
    <1>7. k \in 0..Len(recs) /\ at[k] <= synced
        BY <1>1 DEF View
    <1>8. k <= j
        <2>1. at[k] \in Nat /\ synced \in Nat /\ n \in Nat
            BY <1>7, FileFacts DEF LogTypes
        <2>2. at[k] <= n
            BY <1>5, <1>7, <2>1
        <2> QED BY <1>2, <1>7, <2>2, CutOrder
    <1>9. Len(recs2) = j
        BY <1>3, <1>6, Cut
    <1>10. at2[j] = at[j]
        <2>1. j \in 0..j
            BY <1>6
        <2> QED BY <1>3, <2>1 DEF FirstOffsets
    <1>11. j \in 0..Len(recs2) /\ at2[j] <= synced' /\ ~(j < Len(recs2))
        BY <1>5, <1>6, <1>9, <1>10
    <1>12. View(file', synced', recs2, at2, j)
        BY <1>4, <1>5, <1>11, NextView
    <1>13. Sees(recs, k, recs2, j)
        BY <1>1, <1>12, SeesViews
    <1>14. Abstract!Lose
        BY <1>3, <1>6, <1>7, <1>8, <1>13, SeesLose
    <1> QED BY <1>14 DEF Refined, Abstract!Next

(* Until a write fails, every step is one of the record log. *)
LEMMA RefinedStep ==
    ASSUME Inv, [Next]_vars, torn' = 0
    PROVE  Refined
    <1>1. LogTypes
        BY DEF Inv
    <1>2. PICK recs, at : LogInv(recs, at)
        BY DEF Inv
    <1>3. torn \in Nat
        BY <1>1 DEF LogTypes
    <1>4. CASE WriteFails
        BY <1>1, <1>2, <1>4, WriteFailsKeeps
    <1>5. CASE Open
        BY <1>1, <1>2, <1>5, OpenRefines DEF Open, counters
    <1>6. CASE SyncSucceeds
        BY <1>1, <1>2, <1>6, SyncRefines DEF SyncSucceeds, counters
    <1>7. CASE WriteWord
        BY <1>1, <1>2, <1>7, WriteRefines DEF WriteWord, counters
    <1>8. CASE TruncatePrefix
        BY <1>1, <1>2, <1>8, TruncateRefines DEF TruncatePrefix, counters
    <1>9. CASE \E n \in 0..Len(file) : Crash(n)
        BY <1>1, <1>2, <1>9, CrashRefines DEF Crash
    <1>10. CASE OpenRefused \/ SyncFails \/ ReadPosition \/ TruncateFails \/ UNCHANGED vars
        <2>1. UNCHANGED <<file, synced>>
            BY <1>10 DEF OpenRefused, SyncFails, ReadPosition, TruncateFails, vars
        <2> QED BY <2>1, KeptRefines
    <1>11. CASE \E r \in Record : BeginPersist(r)
        <2>1. UNCHANGED <<file, synced>>
            BY <1>11 DEF BeginPersist
        <2> QED BY <2>1, KeptRefines
    <1> QED BY <1>4, <1>5, <1>6, <1>7, <1>8, <1>9, <1>10, <1>11 DEF Next

(* Until a write fails in the middle of a frame, the words of the file are a
   log of records: a record is appended at once, a crash loses only records
   that were not committed, and compaction keeps every unfinished job. *)
THEOREM LogImplementsRecordLog == Spec => ImplementsRecordLog
    <1>1. Init => Abstract!Init
        <2> SUFFICES ASSUME Init PROVE Abstract!Init
            OBVIOUS
        <2>1. PICK recs, at : recs = <<>> /\ LogTypes /\ LogInv(recs, at)
            BY LogInitial
        <2>2. torn = 0
            BY DEF Init
        <2>3. PICK k : View(file, synced, recs, at, k)
            BY <2>1, <2>2, LogView
        <2>4. Readable(file) = recs /\ Len(Readable(SubSeq(file, 1, synced))) = k /\ k \in Nat /\ k <= Len(recs)
            BY <2>3, ViewRead
        <2>5. k = 0
            BY <2>1, <2>4
        <2> QED BY <2>1, <2>4, <2>5 DEF Abstract!Init
    <1>2. Inv /\ [Next]_vars => [torn' = 0 => [Abstract!Next]_<<Abstract!vars>>]_vars
        BY RefinedStep DEF Refined
    <1> QED BY <1>1, <1>2, LogInvariant, PTL DEF Spec, ImplementsRecordLog
=============================================================================
