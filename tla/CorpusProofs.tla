---------------------------- MODULE CorpusProofs ----------------------------
(***************************************************************************)
(* Proofs about Corpus, for any documents, texts and saving threads, any   *)
(* limits and any number of mutations, failures, crashes and reopenings:   *)
(* saves never go back, what save() reported is on disk, and a restart     *)
(* keeps what was acknowledged.                                            *)
(***************************************************************************)
EXTENDS Corpus, FiniteSetTheorems, WellFoundedInduction, TLAPS

(* A corpus: tombstones are of its documents, those of the graph of deleted
   ones. *)
IsCorpus(c) ==
    /\ c \in Corpora
    /\ c.deleted \subseteq DOMAIN c.docs
    /\ \A h \in c.graph.removed : h[1] \in c.deleted

(* The types of the variables, and what goes with a mode. *)
TypeOK ==
    /\ mode \in {"up", "down", "refused"}
    /\ IsCorpus(corpus)
    /\ wal \in Seq(Records \cup {Torn})
    /\ file # NoFile => IsCorpus(file)
    /\ published \in Nat \cup {-1}
    /\ published # -1 => file # NoFile
    /\ pc \in [Savers -> {"idle", "snapped", "saved"}]
    /\ call \in [Savers -> {"none", "save", "checkpoint"}]
    /\ snap \in [Savers -> Corpora] /\ \A t \in Savers : IsCorpus(snap[t])
    /\ mode # "up" => \A t \in Savers : pc[t] = "idle"
    /\ acked \in [Uris -> Texts \cup {NoText}]
    /\ unprotected \subseteq Uris
    /\ diverged \in BOOLEAN /\ overlapping \in BOOLEAN

-----------------------------------------------------------------------------
(* Saves                                                                   *)

(* d came out of c by further mutations. *)
Precedes(c, d) ==
    /\ Len(c.docs) <= Len(d.docs)
    /\ \A i \in DOMAIN c.docs : c.docs[i] = d.docs[i]
    /\ c.deleted \subseteq d.deleted

(* The corpus and the snapshots of it that are being saved. *)
Active == {t \in Savers : pc[t] # "idle"}
Versions == {corpus} \cup {snap[t] : t \in Active}

(* Epochs order the versions, and the file among them. *)
OrderInv ==
    mode = "up" =>
        /\ published <= corpus.epoch
        /\ \A c, d \in Versions : c.epoch <= d.epoch => Precedes(c, d)
        /\ \A c \in Versions :
             /\ c.epoch <= corpus.epoch
             /\ published <= c.epoch => Precedes(Parsed, c)
             /\ c.epoch <= published => Precedes(c, Parsed)

(* A save that is over left the file at its epoch or a later one. *)
SavedInv == \A t \in Savers : pc[t] = "saved" => snap[t].epoch <= published

-----------------------------------------------------------------------------
(* Restarts                                                                *)

(* The documents of a name, deleted ones included. *)
Named(c, u) == {id \in DOMAIN c.docs : c.docs[id].uri = u}

(* Two corpora have the same documents of a name, under the same ids. *)
AgreeOn(c, d, u) ==
    /\ Named(c, u) = Named(d, u)
    /\ \A id \in Named(c, u) : /\ c.docs[id] = d.docs[id]
                               /\ id \in c.deleted <=> id \in d.deleted

(* One document of that name, with that text. *)
Serves(c, u, t) ==
    IF t = NoText THEN FindByUri(c, u) = {}
    ELSE \E id \in FindByUri(c, u) : FindByUri(c, u) = {id} /\ c.docs[id].text = t

(* The documents SurvivesRestart speaks of. *)
Protected == Uris \ unprotected

(* While nothing went wrong the log reproduces the corpus; a corpus that
   refused what its log has still agrees with it on protected documents. *)
LogFollows ==
    mode = "up" =>
        /\ ~diverged => TornAt(wal) = {}
        /\ ~overlapping /\ Replayed.ok => \A u \in Protected : AgreeOn(Replayed.c, corpus, u)
        /\ ~overlapping /\ ~diverged => Replayed.ok /\ Replayed.c.docs = corpus.docs

(* A process that is down can be opened unless something went wrong before. *)
LogUsable ==
    /\ overlapping => wal # <<>>
    /\ mode = "down" /\ ~diverged /\ ~overlapping => Replayed.ok /\ ~CorruptInterior

(* A restart would serve what was acknowledged. *)
RestartServes ==
    mode # "refused" /\ Replayed.ok /\ ~(overlapping /\ Removes(Readable(wal))) =>
        \A u \in Protected : Serves(Replayed.c, u, acked[u])

(* The running corpus serves what was acknowledged. *)
UpServes == mode = "up" => \A u \in Protected : Serves(corpus, u, acked[u])

(* In a log without removals every record of a protected document has the
   text that was acknowledged. *)
AddsAcked ==
    ~Removes(Readable(wal)) =>
        \A u \in Protected, i \in DOMAIN Readable(wal) :
            Readable(wal)[i].uri = u => Readable(wal)[i].text = acked[u]

(* A snapshot that may still reach the file has what the log does not have. *)
Untouched(u) == ~Removes(Readable(wal)) /\ \A i \in DOMAIN Readable(wal) : Readable(wal)[i].uri # u

SnapInv ==
    \A t \in Active, u \in Protected :
        /\ \A i, j \in FindByUri(snap[t], u) : i = j
        /\ published <= snap[t].epoch /\ Untouched(u) => AgreeOn(snap[t], corpus, u)

(* What is at least as new as the snapshot of a checkpoint has every
   protected document: the log may be truncated. *)
CheckpointInv ==
    \A t \in Active, u \in Protected : call[t] = "checkpoint" =>
        /\ \A s \in Active : snap[t].epoch <= snap[s].epoch => AgreeOn(snap[s], corpus, u)
        /\ snap[t].epoch <= published => AgreeOn(Parsed, corpus, u)

(* The inductive invariant. *)
RestartInv ==
    /\ LogFollows /\ LogUsable /\ RestartServes /\ UpServes /\ AddsAcked
    /\ SnapInv /\ CheckpointInv /\ RefusedOnlyIfDiverged
-----------------------------------------------------------------------------
(* Numbers                                                                 *)

(* A set of numbers that is not empty has a least one. *)
LEMMA LeastOf ==
    ASSUME NEW S \in SUBSET Nat, S # {}
    PROVE  \E v \in S : \A w \in S : v <= w
    <1>1. PICK v \in S : \A w \in S : ~ (<<w, v>> \in OpToRel(<, Nat))
        BY NatLessThanWellFounded, WFMin, Zenon
    <1>2. ASSUME NEW w \in S, w < v
          PROVE  FALSE
        <2>1. <<w, v>> \in Nat \X Nat /\ <<w, v>>[1] < <<w, v>>[2]
            BY <1>2
        <2> QED BY <1>1, <1>2, <2>1, Zenon DEF OpToRel
    <1>3. \A w \in S : v <= w
        BY <1>2
    <1> QED BY <1>3

(* A set that has 0, and every number whose predecessor it has, has every
   number. *)
LEMMA ReachesAll ==
    ASSUME NEW S, 0 \in S, \A n \in Nat : n \in S => n + 1 \in S
    PROVE  Nat \subseteq S
    <1> SUFFICES ASSUME Nat \ S # {} PROVE FALSE
        OBVIOUS
    <1>1. PICK v \in Nat \ S : \A w \in Nat \ S : v <= w
        BY LeastOf, Nat \ S \in SUBSET Nat
    <1>2. v - 1 \in Nat /\ v - 1 \in S /\ (v - 1) + 1 = v
        BY <1>1
    <1> QED BY <1>1, <1>2

(* find_by_uri_locked() returns one of the documents it looks at. *)
LEMMA FirstOfIsOne ==
    ASSUME NEW S \in SUBSET Nat, S # {}
    PROVE  FirstOf(S) \in S /\ \A other \in S : FirstOf(S) <= other
    <1>1. \E v \in S : \A w \in S : v <= w
        BY LeastOf
    <1> QED BY <1>1 DEF FirstOf

-----------------------------------------------------------------------------
(* Operators on a corpus                                                   *)

(* The corpus of a new process. *)
LEMMA EmptyFacts ==
    IsCorpus(Empty) /\ Empty.docs = <<>> /\ Empty.deleted = {} /\ Empty.epoch = 0
    BY DEF IsCorpus, Empty, Corpora, NoGraph, Graphs

(* The fields of a corpus. *)
LEMMA CorpusFields ==
    ASSUME NEW c, IsCorpus(c)
    PROVE  /\ c.docs \in Seq(Documents) /\ c.epoch \in Nat
           /\ DOMAIN c.docs = 1..Len(c.docs) /\ Len(c.docs) \in Nat
           /\ c.deleted \subseteq DOMAIN c.docs /\ DOMAIN c.docs \subseteq Nat
           /\ \A i \in DOMAIN c.docs : c.docs[i] \in Documents
           /\ c # NoFile
    BY CorpusAssumption DEF IsCorpus, Corpora

(* The chunks of a document are chunks. *)
LEMMA ChunksTyped ==
    ASSUME NEW c, IsCorpus(c)
    PROVE  /\ \A id \in DOMAIN c.docs : ChunksOf(c, id) \subseteq ChunkIds
           /\ Chunks(c) \subseteq ChunkIds
    <1>1. ASSUME NEW id \in DOMAIN c.docs PROVE ChunksOf(c, id) \subseteq ChunkIds
        <2>1. id \in Nat
            BY CorpusFields
        <2>2. 1..ChunkCount[c.docs[id].text] \subseteq Nat
            OBVIOUS
        <2> QED BY <2>1, <2>2 DEF ChunksOf, ChunkIds
    <1> QED BY <1>1 DEF Chunks

(* add_document_locked() appends one document. *)
LEMMA AddedFacts ==
    ASSUME NEW c, IsCorpus(c), NEW u \in Uris, NEW t \in Texts
    PROVE  /\ IsCorpus(Added(c, u, t))
           /\ Added(c, u, t).docs = Append(c.docs, [uri |-> u, text |-> t])
           /\ Added(c, u, t).deleted = c.deleted
           /\ Added(c, u, t).epoch = c.epoch + 1
    <1> DEFINE d == Added(c, u, t)
    <1>1. /\ d = [c EXCEPT !.docs = Append(@, [uri |-> u, text |-> t]), !.epoch = @ + 1]
          /\ c \in Corpora
        BY DEF Added, IsCorpus
    <1>2. [uri |-> u, text |-> t] \in Documents
        BY DEF Documents
    <1>3. /\ d.docs = Append(c.docs, [uri |-> u, text |-> t])
          /\ d.deleted = c.deleted /\ d.epoch = c.epoch + 1 /\ d.graph = c.graph
        BY <1>1 DEF Corpora
    <1>4. d \in Corpora
        <2>1. c.docs \in Seq(Documents) /\ c.epoch \in Nat
            BY <1>1 DEF Corpora
        <2>2. Append(c.docs, [uri |-> u, text |-> t]) \in Seq(Documents) /\ c.epoch + 1 \in Nat
            BY <1>2, <2>1
        <2> QED BY <1>1, <2>2 DEF Corpora
    <1>5. DOMAIN c.docs \subseteq DOMAIN d.docs
        BY <1>1, <1>2, <1>3 DEF Corpora
    <1> HIDE DEF d
    <1>6. IsCorpus(d)
        BY <1>3, <1>4, <1>5 DEF IsCorpus
    <1> QED BY <1>3, <1>6 DEF d

(* remove_document_locked() leaves a tombstone. *)
LEMMA RemovedFacts ==
    ASSUME NEW c, IsCorpus(c), NEW id \in DOMAIN c.docs
    PROVE  /\ IsCorpus(Removed(c, id))
           /\ Removed(c, id).docs = c.docs
           /\ Removed(c, id).deleted = c.deleted \cup {id}
           /\ Removed(c, id).epoch = c.epoch + 1
    <1> DEFINE d == Removed(c, id)
               chunks == ChunksOf(c, id)
               removed == IF c.graph.built THEN c.graph.removed \cup chunks ELSE c.graph.removed
    <1>0. c \in Corpora /\ chunks \subseteq ChunkIds /\ id \in Nat
        BY ChunksTyped, CorpusFields DEF IsCorpus
    <1>1. \A h \in chunks : h[1] = id
        BY DEF ChunksOf
    <1>2. d = [c EXCEPT !.deleted = @ \cup {id}, !.epoch = @ + 1, !.graph.removed = removed]
        BY <1>0 DEF Removed, Corpora, Graphs
    <1>3. removed \subseteq ChunkIds /\ \A h \in removed : h[1] \in c.deleted \cup {id}
        BY <1>0, <1>1 DEF IsCorpus, Corpora, Graphs
    <1> HIDE DEF removed, chunks
    <1>4. /\ d.docs = c.docs /\ d.deleted = c.deleted \cup {id} /\ d.epoch = c.epoch + 1
          /\ d.graph.removed = removed
        BY <1>0, <1>2 DEF Corpora, Graphs
    <1>5. d \in Corpora
        <2>1. c.deleted \cup {id} \in SUBSET Nat /\ c.epoch + 1 \in Nat
            BY <1>0 DEF Corpora
        <2>2. [c.graph EXCEPT !.removed = removed] \in Graphs
            BY <1>0, <1>3 DEF Corpora, Graphs
        <2>3. d = [c EXCEPT !.deleted = c.deleted \cup {id}, !.epoch = c.epoch + 1,
                            !.graph = [c.graph EXCEPT !.removed = removed]]
            BY <1>0, <1>2 DEF Corpora
        <2> HIDE DEF d
        <2> QED BY <1>0, <2>1, <2>2, <2>3 DEF Corpora
    <1> HIDE DEF d
    <1>6. IsCorpus(d)
        BY <1>3, <1>4, <1>5 DEF IsCorpus
    <1> QED BY <1>4, <1>6 DEF d

(* build_locked() changes no document. *)
LEMMA BuiltFacts ==
    ASSUME NEW c, IsCorpus(c)
    PROVE  /\ IsCorpus(Built(c))
           /\ Built(c).docs = c.docs /\ Built(c).deleted = c.deleted
           /\ Built(c).epoch = c.epoch + 1
    <1> DEFINE d == Built(c)
               graph == IF Cardinality(Chunks(c)) >= HnswThreshold
                        THEN [built |-> TRUE, nodes |-> Chunks(c), removed |-> {}]
                        ELSE c.graph
    <1>0. c \in Corpora /\ Chunks(c) \subseteq ChunkIds
        BY ChunksTyped DEF IsCorpus
    <1>1. d = [c EXCEPT !.embedded = Chunks(c), !.epoch = @ + 1, !.graph = graph]
        BY <1>0 DEF Built, Corpora
    <1>2. graph \in Graphs /\ \A h \in graph.removed : h[1] \in c.deleted
        BY <1>0 DEF Graphs, Corpora, IsCorpus
    <1> HIDE DEF graph
    <1>3. /\ d.docs = c.docs /\ d.deleted = c.deleted /\ d.epoch = c.epoch + 1
          /\ d.graph = graph
        BY <1>0, <1>1 DEF Corpora
    <1>4. d \in Corpora
        <2>1. c.epoch + 1 \in Nat
            BY <1>0 DEF Corpora
        <2> HIDE DEF d
        <2> QED BY <1>0, <1>1, <1>2, <2>1 DEF Corpora
    <1> HIDE DEF d
    <1>5. IsCorpus(d)
        BY <1>2, <1>3, <1>4 DEF IsCorpus
    <1> QED BY <1>3, <1>5 DEF d

(* What load() reads has the documents of the file. *)
LEMMA LoadedFacts ==
    ASSUME TypeOK
    PROVE  /\ IsCorpus(Parsed) /\ IsCorpus(Loaded)
           /\ Loaded.docs = Parsed.docs /\ Loaded.deleted = Parsed.deleted
           /\ Loaded.epoch = IF published = -1 THEN 0 ELSE published
           /\ file # NoFile => Parsed.docs = file.docs /\ Parsed.deleted = file.deleted
           /\ file = NoFile => Parsed.docs = <<>> /\ Parsed.deleted = {}
    <1>1. CASE file = NoFile
        <2>1. Parsed = Empty
            BY <1>1 DEF Parsed
        <2>2. IsCorpus(Empty) /\ Empty.docs = <<>> /\ Empty.deleted = {} /\ Empty.epoch = 0
            BY EmptyFacts
        <2>3. Loaded = Empty
            BY <1>1, <2>1 DEF Loaded, TypeOK, Empty
        <2> QED BY <1>1, <2>1, <2>2, <2>3 DEF TypeOK
    <1>2. CASE file # NoFile
        <2>1. Parsed = [file EXCEPT !.graph.removed = {}, !.epoch = 0] /\ IsCorpus(file)
            BY <1>2 DEF Parsed, TypeOK
        <2>2. /\ Parsed \in Corpora /\ Parsed.docs = file.docs
              /\ Parsed.deleted = file.deleted /\ Parsed.graph.removed = {}
              /\ Parsed.epoch = 0
            BY <2>1 DEF IsCorpus, Corpora, Graphs
        <2>3. IsCorpus(Parsed)
            BY <2>1, <2>2 DEF IsCorpus
        <2> DEFINE epoch == IF published = -1 THEN Parsed.epoch ELSE published
        <2>4. epoch \in Nat /\ Loaded = [Parsed EXCEPT !.epoch = epoch]
            BY <2>2 DEF TypeOK, Loaded, Corpora
        <2> HIDE DEF epoch
        <2>5. /\ Loaded \in Corpora /\ Loaded.docs = Parsed.docs
              /\ Loaded.deleted = Parsed.deleted /\ Loaded.graph = Parsed.graph
              /\ Loaded.epoch = epoch
            BY <2>2, <2>4 DEF Corpora
        <2>6. IsCorpus(Loaded)
            BY <2>2, <2>3, <2>5 DEF IsCorpus
        <2> QED BY <1>2, <2>2, <2>3, <2>5, <2>6 DEF epoch
    <1> QED BY <1>1, <1>2
-----------------------------------------------------------------------------
(* Agreement and order                                                     *)

(* Corpora that differ in embeddings, graph and epoch at most. *)
SameData(c, d) == c.docs = d.docs /\ c.deleted = d.deleted

(* Agreement on a name is an equivalence that looks only at documents and
   tombstones. *)
LEMMA AgreeFacts ==
    ASSUME NEW c, NEW d, NEW e, NEW u
    PROVE  /\ SameData(c, d) => AgreeOn(c, d, u)
           /\ AgreeOn(c, d, u) => AgreeOn(d, c, u)
           /\ AgreeOn(c, d, u) /\ AgreeOn(d, e, u) => AgreeOn(c, e, u)
    BY DEF AgreeOn, Named, SameData

(* Corpora that agree on a name answer searches for it alike. *)
LEMMA AgreeFinds ==
    ASSUME NEW c, NEW d, NEW u, AgreeOn(c, d, u)
    PROVE  /\ FindByUri(c, u) = FindByUri(d, u)
           /\ \A id \in FindByUri(c, u) : c.docs[id] = d.docs[id]
    <1>1. /\ FindByUri(c, u) = {id \in Named(c, u) : id \notin c.deleted}
          /\ FindByUri(d, u) = {id \in Named(d, u) : id \notin d.deleted}
        BY DEF FindByUri, Named, Live
    <1> QED BY <1>1 DEF AgreeOn

(* Corpora that agree on a name serve the same under it. *)
LEMMA AgreeServes ==
    ASSUME NEW c, NEW d, NEW u, AgreeOn(c, d, u), NEW t, Serves(d, u, t)
    PROVE  Serves(c, u, t)
    <1>1. /\ FindByUri(c, u) = FindByUri(d, u)
          /\ \A id \in FindByUri(c, u) : c.docs[id] = d.docs[id]
        BY AgreeFinds
    <1> QED BY <1>1 DEF Serves

(* An addition changes nothing under other names, and is found. *)
LEMMA AddedAgrees ==
    ASSUME NEW c, IsCorpus(c), NEW d, NEW u, NEW t,
           d.docs = Append(c.docs, [uri |-> u, text |-> t]), d.deleted = c.deleted
    PROVE  /\ \A v : v # u => AgreeOn(d, c, v)
           /\ FindByUri(d, u) = FindByUri(c, u) \cup {Len(c.docs) + 1}
           /\ d.docs[Len(c.docs) + 1].text = t
           /\ Len(c.docs) + 1 \notin FindByUri(c, u)
           /\ \A id \in FindByUri(c, u) : d.docs[id] = c.docs[id]
    <1> DEFINE n == Len(c.docs)
    <1>1. /\ c.docs \in Seq(Documents) /\ n \in Nat /\ DOMAIN c.docs = 1..n
          /\ c.deleted \subseteq 1..n
        BY CorpusFields
    <1>2. /\ DOMAIN d.docs = 1..(n + 1)
          /\ d.docs[n + 1] = [uri |-> u, text |-> t]
          /\ \A i \in 1..n : d.docs[i] = c.docs[i]
        BY <1>1
    <1>3. /\ n + 1 \notin 1..n /\ n + 1 \notin c.deleted
          /\ \A i : i \in 1..(n + 1) <=> i \in 1..n \/ i = n + 1
        BY <1>1
    <1> HIDE DEF n
    <1>4. \A v : v # u => AgreeOn(d, c, v)
        BY <1>1, <1>2, <1>3 DEF AgreeOn, Named
    <1>5. /\ FindByUri(d, u) = FindByUri(c, u) \cup {n + 1}
          /\ n + 1 \notin FindByUri(c, u)
          /\ \A id \in FindByUri(c, u) : d.docs[id] = c.docs[id]
        BY <1>1, <1>2, <1>3 DEF FindByUri, Live
    <1>6. d.docs[n + 1].text = t
        <2>1. [uri |-> u, text |-> t].text = t
            OBVIOUS
        <2> QED BY <1>2, <2>1, Zenon
    <1> QED BY <1>4, <1>5, <1>6, Zenon DEF n

(* A removal changes nothing under other names, and is found no more. *)
LEMMA RemovedAgrees ==
    ASSUME NEW c, IsCorpus(c), NEW d, NEW id \in DOMAIN c.docs,
           d.docs = c.docs, d.deleted = c.deleted \cup {id}
    PROVE  /\ \A v : v # c.docs[id].uri => AgreeOn(d, c, v)
           /\ \A v : FindByUri(d, v) = FindByUri(c, v) \ {id}
    BY DEF AgreeOn, Named, FindByUri, Live

(* The order of versions is one, and both operations go up in it. *)
LEMMA OrderFacts ==
    /\ \A c, d : IsCorpus(c) /\ SameData(c, d) => Precedes(c, d) /\ Precedes(d, c)
    /\ \A c, d, e : IsCorpus(c) /\ IsCorpus(d) /\ IsCorpus(e)
                    /\ Precedes(c, d) /\ Precedes(d, e) => Precedes(c, e)
    /\ \A c, d : IsCorpus(c) /\ IsCorpus(d) /\ Precedes(c, d) /\ Precedes(d, c)
                    => SameData(c, d)
    <1>1. ASSUME NEW c, NEW d, IsCorpus(c), SameData(c, d) PROVE Precedes(c, d) /\ Precedes(d, c)
        <2>1. Len(c.docs) \in Nat
            BY <1>1, CorpusFields
        <2> QED BY <1>1, <2>1 DEF Precedes, SameData
    <1>2. ASSUME NEW c, NEW d, NEW e, IsCorpus(c), IsCorpus(d), IsCorpus(e),
                 Precedes(c, d), Precedes(d, e)
          PROVE  Precedes(c, e)
        <2>1. /\ DOMAIN c.docs = 1..Len(c.docs) /\ Len(c.docs) \in Nat
              /\ DOMAIN d.docs = 1..Len(d.docs) /\ Len(d.docs) \in Nat
              /\ Len(e.docs) \in Nat
            BY <1>2, CorpusFields
        <2> QED BY <1>2, <2>1 DEF Precedes
    <1>3. ASSUME NEW c, NEW d, IsCorpus(c), IsCorpus(d), Precedes(c, d), Precedes(d, c)
          PROVE  SameData(c, d)
        <2>1. /\ c.docs \in Seq(Documents) /\ d.docs \in Seq(Documents)
              /\ DOMAIN c.docs = 1..Len(c.docs) /\ Len(c.docs) \in Nat
              /\ DOMAIN d.docs = 1..Len(d.docs) /\ Len(d.docs) \in Nat
            BY <1>3, CorpusFields
        <2>2. Len(c.docs) = Len(d.docs) /\ \A i \in 1..Len(c.docs) : c.docs[i] = d.docs[i]
            BY <1>3, <2>1 DEF Precedes
        <2>3. c.docs = d.docs
            BY <2>1, <2>2
        <2> QED BY <1>3, <2>3 DEF Precedes, SameData
    <1> QED BY <1>1, <1>2, <1>3

(* No document is ever taken out: the later version counts at least as many
   mutations. *)
LEMMA OrderCounts ==
    ASSUME NEW c, NEW d, IsCorpus(c), IsCorpus(d), Precedes(c, d)
    PROVE  /\ Mutations(c) \in Nat /\ Mutations(d) \in Nat
           /\ Mutations(c) <= Mutations(d)
    <1>1. /\ Len(c.docs) \in Nat /\ Len(d.docs) \in Nat
          /\ c.deleted \subseteq 1..Len(c.docs) /\ d.deleted \subseteq 1..Len(d.docs)
        BY CorpusFields
    <1>2. IsFiniteSet(c.deleted) /\ IsFiniteSet(d.deleted)
        <2>1. /\ c.deleted \in SUBSET Nat /\ \A id \in c.deleted : id <= Len(c.docs)
              /\ d.deleted \in SUBSET Nat /\ \A id \in d.deleted : id <= Len(d.docs)
            BY <1>1
        <2> QED BY <1>1, <2>1, FS_BoundedSetOfNaturals
    <1>3. /\ Cardinality(c.deleted) \in Nat /\ Cardinality(d.deleted) \in Nat
          /\ Cardinality(c.deleted) <= Cardinality(d.deleted)
        BY <1>2, FS_CardinalityType, FS_Subset DEF Precedes
    <1> QED BY <1>1, <1>3 DEF Mutations, Precedes

-----------------------------------------------------------------------------
(* One record of the log                                                   *)

(* A state of the loop of open_wal(). *)
IsReplayed(s) == s = [c |-> s.c, ok |-> s.ok] /\ IsCorpus(s.c) /\ s.ok \in BOOLEAN

(* What find_by_uri_locked() looks at are documents. *)
LEMMA FindIsIds ==
    ASSUME NEW c, IsCorpus(c), NEW u
    PROVE  FindByUri(c, u) \subseteq DOMAIN c.docs /\ FindByUri(c, u) \in SUBSET Nat
    BY CorpusFields DEF FindByUri, Live

(* A removal never fails. *)
LEMMA ReplayRemoval ==
    ASSUME NEW s, IsReplayed(s), NEW id \in Nat
    PROVE  LET r == ReplayRecord(s, RemoveRecord(id))
           IN  /\ IsReplayed(r) /\ r.ok = s.ok
               /\ r.c.docs = s.c.docs
               /\ r.c.deleted = IF s.ok THEN s.c.deleted \cup ({id} \cap DOMAIN s.c.docs)
                                ELSE s.c.deleted
               /\ s.c.epoch <= r.c.epoch
    <1> DEFINE r == ReplayRecord(s, RemoveRecord(id))
    <1>0. s.c.epoch \in Nat /\ s.ok \in BOOLEAN
        BY CorpusFields DEF IsReplayed
    <1>1. CASE ~s.ok
        <2>1. r = s
            BY <1>1 DEF ReplayRecord
        <2> HIDE DEF r
        <2>2. s.c.epoch <= r.c.epoch
            BY <1>0, <2>1
        <2> QED BY <1>1, <2>1, <2>2, Zenon DEF r
    <1>2. CASE s.ok /\ id \in Live(s.c)
        <2>1. r = [s EXCEPT !.c = Removed(s.c, id)]
            BY <1>2 DEF ReplayRecord, RemoveRecord, IsReplayed
        <2>2. r.c = Removed(s.c, id) /\ r.ok = s.ok /\ r = [c |-> r.c, ok |-> r.ok]
            BY <2>1 DEF IsReplayed
        <2>3. id \in DOMAIN s.c.docs /\ IsCorpus(s.c)
            BY <1>2 DEF Live, IsReplayed
        <2>4. /\ IsCorpus(r.c) /\ r.c.docs = s.c.docs
              /\ r.c.deleted = s.c.deleted \cup {id} /\ r.c.epoch = s.c.epoch + 1
            BY <2>2, <2>3, RemovedFacts
        <2> QED BY <1>0, <1>2, <2>2, <2>3, <2>4 DEF IsReplayed
    <1>3. CASE s.ok /\ id \notin Live(s.c)
        <2>1. r = s
            BY <1>3 DEF ReplayRecord, RemoveRecord
        <2>2. {id} \cap DOMAIN s.c.docs \subseteq s.c.deleted
            BY <1>3 DEF Live
        <2> HIDE DEF r
        <2>3. s.c.epoch <= r.c.epoch
            BY <1>0, <2>1
        <2>4. r.c.deleted = s.c.deleted \cup ({id} \cap DOMAIN s.c.docs)
            BY <2>1, <2>2
        <2> QED BY <1>3, <2>1, <2>3, <2>4 DEF r
    <1> QED BY <1>0, <1>1, <1>2, <1>3

(* The tombstone an upsert of u leaves. *)
Tombstone(c, u) == IF FindByUri(c, u) = {} THEN {} ELSE {FirstOf(FindByUri(c, u))}

(* An addition is an upsert; it fails if the corpus is full. *)
LEMMA ReplayAddition ==
    ASSUME NEW s, IsReplayed(s), NEW u \in Uris, NEW t \in Texts, s.ok
    PROVE  LET r == ReplayRecord(s, AddRecord(u, t))
           IN  /\ IsReplayed(r)
               /\ r.ok <=> Len(s.c.docs) < MaxDocuments /\ Fits(s.c, t)
               /\ r.ok => r.c.docs = Append(s.c.docs, [uri |-> u, text |-> t])
               /\ ~r.ok => r.c.docs = s.c.docs
               /\ r.c.deleted = s.c.deleted \cup Tombstone(s.c, u)
               /\ s.c.epoch <= r.c.epoch
    <1> DEFINE r == ReplayRecord(s, AddRecord(u, t))
               ids == FindByUri(s.c, u)
               base == IF ids = {} THEN s.c ELSE Removed(s.c, FirstOf(ids))
               fits == Len(base.docs) < MaxDocuments /\ Fits(base, t)
    <1>1. r = [c |-> IF fits THEN Added(base, u, t) ELSE base, ok |-> fits]
        BY DEF ReplayRecord, AddRecord
    <1>2. IsCorpus(s.c) /\ s.c.epoch \in Nat
        BY CorpusFields DEF IsReplayed
    <1>3. /\ IsCorpus(base) /\ base.docs = s.c.docs
          /\ base.deleted = s.c.deleted \cup Tombstone(s.c, u)
          /\ s.c.epoch <= base.epoch
        <2>1. CASE ids = {}
            BY <1>2, <2>1 DEF Tombstone
        <2>2. CASE ids # {}
            <3>1. FirstOf(ids) \in DOMAIN s.c.docs
                BY <1>2, <2>2, FindIsIds, FirstOfIsOne
            <3>2. base = Removed(s.c, FirstOf(ids)) /\ Tombstone(s.c, u) = {FirstOf(ids)}
                BY <2>2 DEF Tombstone
            <3> HIDE DEF base, ids
            <3> QED BY <1>2, <3>1, <3>2, RemovedFacts
        <2> QED BY <2>1, <2>2
    <1>4. Fits(base, t) <=> Fits(s.c, t)
        BY <1>3 DEF Fits, Chunks, ChunksOf
    <1> HIDE DEF base
    <1>5. /\ IsCorpus(Added(base, u, t))
          /\ Added(base, u, t).docs = Append(base.docs, [uri |-> u, text |-> t])
          /\ Added(base, u, t).deleted = base.deleted
          /\ Added(base, u, t).epoch = base.epoch + 1
        BY <1>3, AddedFacts
    <1>6. base.epoch \in Nat
        BY <1>3, CorpusFields
    <1>7. fits \in BOOLEAN
        BY DEF Fits
    <1>8. fits <=> Len(s.c.docs) < MaxDocuments /\ Fits(s.c, t)
        BY <1>3, <1>4
    <1> HIDE DEF fits
    <1>9. CASE fits
        <2>1. r.c = Added(base, u, t) /\ r.ok = TRUE /\ r = [c |-> r.c, ok |-> r.ok]
            BY <1>1, <1>9
        <2> HIDE DEF r
        <2>2. IsReplayed(r)
            BY <1>5, <2>1 DEF IsReplayed
        <2> QED BY <1>2, <1>3, <1>5, <1>6, <1>8, <1>9, <2>1, <2>2 DEF r
    <1>10. CASE ~fits
        <2>1. r.c = base /\ r.ok = FALSE /\ r = [c |-> r.c, ok |-> r.ok]
            BY <1>1, <1>10
        <2> HIDE DEF r
        <2>2. IsReplayed(r)
            BY <1>3, <2>1 DEF IsReplayed
        <2> QED BY <1>2, <1>3, <1>8, <1>10, <2>1, <2>2 DEF r
    <1> QED BY <1>9, <1>10
(* The records of a log are additions and removals. *)
LEMMA RecordKinds ==
    ASSUME NEW record \in Records
    PROVE  \/ \E u \in Uris, t \in Texts : record = AddRecord(u, t)
           \/ \E id \in Nat : record = RemoveRecord(id)
    <1>1. CASE record \in [op : {"add_document"}, uri : Uris, text : Texts]
        <2>1. record = AddRecord(record.uri, record.text) /\ record.uri \in Uris /\ record.text \in Texts
            BY <1>1 DEF AddRecord
        <2> QED BY <2>1, Zenon
    <1>2. CASE record \in [op : {"remove_document"}, doc_id : Nat]
        <2>1. record = RemoveRecord(record.doc_id) /\ record.doc_id \in Nat
            BY <1>2 DEF RemoveRecord
        <2> QED BY <2>1, Zenon
    <1> QED BY <1>1, <1>2 DEF Records

(* The document an upsert removes is one of that name. *)
LEMMA TombstoneFacts ==
    ASSUME NEW c, IsCorpus(c), NEW u
    PROVE  Tombstone(c, u) \subseteq FindByUri(c, u)
    BY FindIsIds, FirstOfIsOne DEF Tombstone

(* A record that cannot be replayed ends the replay. *)
LEMMA ReplayStops ==
    ASSUME NEW s, IsReplayed(s), ~s.ok, NEW record
    PROVE  ReplayRecord(s, record) = s
    BY DEF ReplayRecord, IsReplayed

(* Replaying a record goes up in the order, and looks only at documents and
   tombstones. *)
LEMMA ReplayStep ==
    ASSUME NEW s, IsReplayed(s), NEW record \in Records
    PROVE  LET r == ReplayRecord(s, record)
           IN  /\ IsReplayed(r) /\ Precedes(s.c, r.c)
               /\ s.c.epoch <= r.c.epoch /\ (r.ok => s.ok)
    <1> DEFINE r == ReplayRecord(s, record)
    <1>0. /\ IsCorpus(s.c) /\ s.ok \in BOOLEAN /\ s.c.epoch \in Nat
          /\ DOMAIN s.c.docs = 1..Len(s.c.docs) /\ Len(s.c.docs) \in Nat
          /\ s.c.docs \in Seq(Documents)
        BY CorpusFields DEF IsReplayed
    <1>1. CASE ~s.ok
        <2>1. r = s
            BY <1>1, ReplayStops
        <2>2. Precedes(s.c, s.c)
            BY <1>0, OrderFacts DEF SameData
        <2> HIDE DEF r
        <2>3. s.c.epoch <= r.c.epoch
            BY <1>0, <2>1
        <2> QED BY <2>1, <2>2, <2>3, Zenon DEF r
    <1>2. ASSUME s.ok, NEW u \in Uris, NEW t \in Texts, record = AddRecord(u, t)
          PROVE  IsReplayed(r) /\ Precedes(s.c, r.c) /\ s.c.epoch <= r.c.epoch
        <2> HIDE DEF r
        <2>1. /\ IsReplayed(r)
              /\ r.ok => r.c.docs = Append(s.c.docs, [uri |-> u, text |-> t])
              /\ ~r.ok => r.c.docs = s.c.docs
              /\ r.c.deleted = s.c.deleted \cup Tombstone(s.c, u)
              /\ s.c.epoch <= r.c.epoch
            BY <1>2, ReplayAddition DEF r
        <2>2. [uri |-> u, text |-> t] \in Documents
            BY <1>2 DEF Documents
        <2>3. CASE r.ok
            <3>1. /\ Len(r.c.docs) = Len(s.c.docs) + 1
                  /\ \A i \in 1..Len(s.c.docs) : r.c.docs[i] = s.c.docs[i]
                BY <1>0, <2>1, <2>2, <2>3
            <3> QED BY <1>0, <2>1, <3>1 DEF Precedes
        <2>4. CASE ~r.ok
            BY <1>0, <2>1, <2>4 DEF Precedes
        <2> QED BY <2>1, <2>3, <2>4
    <1>3. ASSUME s.ok, NEW id \in Nat, record = RemoveRecord(id)
          PROVE  IsReplayed(r) /\ Precedes(s.c, r.c) /\ s.c.epoch <= r.c.epoch
        <2> HIDE DEF r
        <2>1. /\ IsReplayed(r) /\ r.c.docs = s.c.docs
              /\ r.c.deleted = s.c.deleted \cup ({id} \cap DOMAIN s.c.docs)
              /\ s.c.epoch <= r.c.epoch
            BY <1>3, ReplayRemoval DEF r
        <2> QED BY <1>0, <2>1 DEF Precedes
    <1> HIDE DEF r
    <1>4. IsReplayed(r) /\ Precedes(s.c, r.c) /\ s.c.epoch <= r.c.epoch
        BY <1>0, <1>1, <1>2, <1>3, RecordKinds DEF r
    <1>5. r.ok => s.ok
        BY <1>1, <1>0, ReplayStops DEF r
    <1> QED BY <1>4, <1>5 DEF r

(* Corpora with the same documents replay a record alike. *)
LEMMA ReplaySame ==
    ASSUME NEW s, IsReplayed(s), NEW z, IsReplayed(z), SameData(s.c, z.c), s.ok = z.ok,
           NEW record \in Records
    PROVE  /\ SameData(ReplayRecord(s, record).c, ReplayRecord(z, record).c)
           /\ ReplayRecord(s, record).ok = ReplayRecord(z, record).ok
    <1>1. CASE ~s.ok
        BY <1>1, ReplayStops
    <1>2. ASSUME s.ok, NEW u \in Uris, NEW t \in Texts, record = AddRecord(u, t)
          PROVE  /\ SameData(ReplayRecord(s, record).c, ReplayRecord(z, record).c)
                 /\ ReplayRecord(s, record).ok = ReplayRecord(z, record).ok
        <2> DEFINE r == ReplayRecord(s, record)
                   q == ReplayRecord(z, record)
        <2>1. /\ IsReplayed(r)
              /\ r.ok <=> Len(s.c.docs) < MaxDocuments /\ Fits(s.c, t)
              /\ r.ok => r.c.docs = Append(s.c.docs, [uri |-> u, text |-> t])
              /\ ~r.ok => r.c.docs = s.c.docs
              /\ r.c.deleted = s.c.deleted \cup Tombstone(s.c, u)
            BY <1>2, ReplayAddition
        <2>2. /\ IsReplayed(q)
              /\ q.ok <=> Len(z.c.docs) < MaxDocuments /\ Fits(z.c, t)
              /\ q.ok => q.c.docs = Append(z.c.docs, [uri |-> u, text |-> t])
              /\ ~q.ok => q.c.docs = z.c.docs
              /\ q.c.deleted = z.c.deleted \cup Tombstone(z.c, u)
            BY <1>2, ReplayAddition
        <2>3. Fits(s.c, t) <=> Fits(z.c, t)
            BY DEF SameData, Fits, Chunks, ChunksOf
        <2>4. Tombstone(s.c, u) = Tombstone(z.c, u)
            BY DEF SameData, Tombstone, FindByUri, Live
        <2> HIDE DEF r, q
        <2>5. r.ok \in BOOLEAN /\ q.ok \in BOOLEAN
            BY <2>1, <2>2 DEF IsReplayed
        <2>6. s.c.docs = z.c.docs /\ s.c.deleted = z.c.deleted
            BY DEF SameData
        <2>7. r.ok = q.ok
            BY <2>1, <2>2, <2>3, <2>5, <2>6
        <2>8. SameData(r.c, q.c)
            BY <2>1, <2>2, <2>4, <2>5, <2>6, <2>7 DEF SameData
        <2> QED BY <2>7, <2>8 DEF r, q
    <1>3. ASSUME s.ok, NEW id \in Nat, record = RemoveRecord(id)
          PROVE  /\ SameData(ReplayRecord(s, record).c, ReplayRecord(z, record).c)
                 /\ ReplayRecord(s, record).ok = ReplayRecord(z, record).ok
        <2> DEFINE r == ReplayRecord(s, record)
                   q == ReplayRecord(z, record)
        <2>1. /\ r.ok = s.ok /\ r.c.docs = s.c.docs
              /\ r.c.deleted = s.c.deleted \cup ({id} \cap DOMAIN s.c.docs)
            BY <1>3, ReplayRemoval
        <2>2. /\ q.ok = z.ok /\ q.c.docs = z.c.docs
              /\ q.c.deleted = z.c.deleted \cup ({id} \cap DOMAIN z.c.docs)
            BY <1>3, ReplayRemoval
        <2> HIDE DEF r, q
        <2> QED BY <2>1, <2>2 DEF SameData, r, q
    <1> QED BY <1>1, <1>2, <1>3, RecordKinds

-----------------------------------------------------------------------------
(* The replay of a log                                                     *)

(* The states of the loop of open_wal(). *)
IsReplay(after, c, log) ==
    after = [n \in 0..Len(log) |-> IF n = 0 THEN [c |-> c, ok |-> TRUE]
                                   ELSE ReplayRecord(after[n - 1], log[n])]

(* The states of the loop exist. *)
LEMMA ReplayRuns ==
    ASSUME NEW c, NEW log, Len(log) \in Nat
    PROVE  \E after : IsReplay(after, c, log) /\ ReplayOver(c, log) = after[Len(log)]
    <1> DEFINE Runs(f, m) ==
                   f = [n \in 0..m |-> IF n = 0 THEN [c |-> c, ok |-> TRUE]
                                       ELSE ReplayRecord(f[n - 1], log[n])]
               S == {m \in Nat : \E f : Runs(f, m)}
    <1>1. 0 \in S
        <2>1. Runs([n \in 0..0 |-> [c |-> c, ok |-> TRUE]], 0)
            OBVIOUS
        <2> QED BY <2>1
    <1>2. ASSUME NEW m \in Nat, m \in S PROVE m + 1 \in S
        <2>1. PICK f : Runs(f, m)
            BY <1>2
        <2> DEFINE g == [n \in 0..(m + 1) |-> IF n <= m THEN f[n]
                                              ELSE ReplayRecord(f[m], log[m + 1])]
        <2>2. \A n \in 0..m : f[n] = IF n = 0 THEN [c |-> c, ok |-> TRUE]
                                     ELSE ReplayRecord(f[n - 1], log[n])
            BY <2>1
        <2>3. ASSUME NEW n \in 0..(m + 1)
              PROVE  g[n] = IF n = 0 THEN [c |-> c, ok |-> TRUE] ELSE ReplayRecord(g[n - 1], log[n])
            <3>1. CASE n \in 0..m
                <4>1. n # 0 => g[n - 1] = f[n - 1]
                    BY <3>1
                <4>2. g[n] = f[n]
                    BY <3>1
                <4> HIDE DEF g
                <4> QED BY <2>2, <3>1, <4>1, <4>2, Zenon
            <3>2. CASE n = m + 1
                BY <3>2
            <3> QED BY <3>1, <3>2
        <2>4. Runs(g, m + 1)
            BY <2>3, Zenon
        <2>5. m + 1 \in Nat
            OBVIOUS
        <2> QED BY <2>4, <2>5, Zenon
    <1>3. Len(log) \in S
        <2> HIDE DEF S
        <2>1. Nat \subseteq S
            BY <1>1, <1>2, ReachesAll, Zenon
        <2> QED BY <2>1
    <1>4. \E f : Runs(f, Len(log))
        BY <1>3
    <1> DEFINE after == CHOOSE f : Runs(f, Len(log))
    <1>5. Runs(after, Len(log))
        BY <1>4, Zenon
    <1>6. ReplayOver(c, log) = after[Len(log)]
        BY DEF ReplayOver
    <1>7. IsReplay(after, c, log)
        BY <1>5, Zenon DEF IsReplay
    <1> QED BY <1>6, <1>7, Zenon

(* Each state of the loop comes from the one before it. *)
LEMMA ReplayUnfolds ==
    ASSUME NEW c, NEW log, Len(log) \in Nat, NEW after, IsReplay(after, c, log)
    PROVE  /\ after[0] = [c |-> c, ok |-> TRUE]
           /\ \A n \in 1..Len(log) : after[n] = ReplayRecord(after[n - 1], log[n])
    <1>1. \A n \in 0..Len(log) : after[n] = IF n = 0 THEN [c |-> c, ok |-> TRUE]
                                            ELSE ReplayRecord(after[n - 1], log[n])
        BY Zenon DEF IsReplay
    <1>2. 0 \in 0..Len(log) /\ \A n \in 1..Len(log) : n \in 0..Len(log) /\ n # 0
        OBVIOUS
    <1> QED BY <1>1, <1>2, Zenon

(* Every state of the loop is a corpus that came out of the one it began
   with. *)
LEMMA ReplayStates ==
    ASSUME NEW c, IsCorpus(c), NEW log \in Seq(Records), NEW after, IsReplay(after, c, log)
    PROVE  \A n \in 0..Len(log) : /\ IsReplayed(after[n]) /\ Precedes(c, after[n].c)
                                  /\ c.epoch <= after[n].c.epoch
    <1> DEFINE S == {m \in Nat : m <= Len(log) => /\ IsReplayed(after[m]) /\ Precedes(c, after[m].c)
                                                  /\ c.epoch <= after[m].c.epoch}
    <1>0. /\ Len(log) \in Nat /\ c.epoch \in Nat
          /\ after[0] = [c |-> c, ok |-> TRUE]
          /\ \A n \in 1..Len(log) : after[n] = ReplayRecord(after[n - 1], log[n])
        BY CorpusFields, ReplayUnfolds
    <1>1. 0 \in S
        <2>1. after[0].c = c /\ after[0].ok = TRUE /\ after[0] = [c |-> after[0].c, ok |-> after[0].ok]
            BY <1>0
        <2>2. IsReplayed(after[0])
            BY <2>1 DEF IsReplayed
        <2>3. Precedes(c, c)
            BY OrderFacts DEF SameData
        <2> QED BY <1>0, <2>1, <2>2, <2>3
    <1>2. ASSUME NEW m \in Nat, m \in S PROVE m + 1 \in S
        <2> SUFFICES ASSUME m + 1 <= Len(log)
                     PROVE  /\ IsReplayed(after[m + 1]) /\ Precedes(c, after[m + 1].c)
                            /\ c.epoch <= after[m + 1].c.epoch
            OBVIOUS
        <2>1. /\ IsReplayed(after[m]) /\ Precedes(c, after[m].c) /\ c.epoch <= after[m].c.epoch
              /\ log[m + 1] \in Records
              /\ after[m + 1] = ReplayRecord(after[m], log[m + 1])
            BY <1>0, <1>2
        <2>2. /\ IsReplayed(after[m + 1]) /\ Precedes(after[m].c, after[m + 1].c)
              /\ after[m].c.epoch <= after[m + 1].c.epoch
            BY <2>1, ReplayStep
        <2>3. IsCorpus(after[m].c) /\ IsCorpus(after[m + 1].c)
            BY <2>1, <2>2 DEF IsReplayed
        <2>4. after[m].c.epoch \in Nat /\ after[m + 1].c.epoch \in Nat
            BY <2>3, CorpusFields
        <2>5. Precedes(c, after[m + 1].c)
            BY <2>1, <2>2, <2>3, OrderFacts
        <2> QED BY <1>0, <2>1, <2>2, <2>4, <2>5
    <1>3. Nat \subseteq S
        <2> HIDE DEF S
        <2> QED BY <1>1, <1>2, ReachesAll, Zenon
    <1> QED BY <1>0, <1>3

(* What the loop leaves is a corpus that came out of the first by mutations. *)
LEMMA ReplayFacts ==
    ASSUME NEW c, IsCorpus(c), NEW log \in Seq(Records)
    PROVE  /\ IsReplayed(ReplayOver(c, log)) /\ Precedes(c, ReplayOver(c, log).c)
           /\ c.epoch <= ReplayOver(c, log).c.epoch
           /\ log = <<>> => ReplayOver(c, log) = [c |-> c, ok |-> TRUE]
    <1>1. Len(log) \in Nat /\ Len(log) \in 0..Len(log) /\ (log = <<>> => Len(log) = 0)
        OBVIOUS
    <1>2. PICK after : IsReplay(after, c, log) /\ ReplayOver(c, log) = after[Len(log)]
        BY <1>1, ReplayRuns
    <1>3. \A n \in 0..Len(log) : /\ IsReplayed(after[n]) /\ Precedes(c, after[n].c)
                                 /\ c.epoch <= after[n].c.epoch
        BY <1>2, ReplayStates
    <1>4. after[0] = [c |-> c, ok |-> TRUE]
        BY <1>1, <1>2, ReplayUnfolds
    <1> QED BY <1>1, <1>2, <1>3, <1>4, Zenon
(* One more record is one more round of the loop. *)
LEMMA ReplayAppend ==
    ASSUME NEW c, IsCorpus(c), NEW log \in Seq(Records), NEW record \in Records
    PROVE  ReplayOver(c, Append(log, record)) = ReplayRecord(ReplayOver(c, log), record)
    <1> DEFINE long == Append(log, record)
               k == Len(log)
    <1>1. /\ k \in Nat /\ long \in Seq(Records) /\ Len(long) = k + 1 /\ Len(long) \in Nat
          /\ long[k + 1] = record /\ \A n \in 1..k : long[n] = log[n]
        OBVIOUS
    <1> HIDE DEF long
    <1>2. PICK f : IsReplay(f, c, log) /\ ReplayOver(c, log) = f[k]
        BY <1>1, ReplayRuns
    <1>3. PICK g : IsReplay(g, c, long) /\ ReplayOver(c, long) = g[Len(long)]
        BY <1>1, ReplayRuns
    <1>4. /\ f[0] = [c |-> c, ok |-> TRUE]
          /\ \A n \in 1..k : f[n] = ReplayRecord(f[n - 1], log[n])
        BY <1>1, <1>2, ReplayUnfolds
    <1>5. /\ g[0] = [c |-> c, ok |-> TRUE]
          /\ \A n \in 1..Len(long) : g[n] = ReplayRecord(g[n - 1], long[n])
        BY <1>1, <1>3, ReplayUnfolds
    <1> DEFINE S == {m \in Nat : m <= k => f[m] = g[m]}
    <1>6. 0 \in S
        BY <1>4, <1>5
    <1>7. ASSUME NEW m \in Nat, m \in S PROVE m + 1 \in S
        <2> SUFFICES ASSUME m + 1 <= k PROVE f[m + 1] = g[m + 1]
            OBVIOUS
        <2>1. /\ m + 1 \in 1..k /\ m + 1 \in 1..Len(long) /\ (m + 1) - 1 = m /\ f[m] = g[m]
              /\ long[m + 1] = log[m + 1]
            BY <1>1, <1>7
        <2> QED BY <1>4, <1>5, <2>1, Zenon
    <1>8. Nat \subseteq S
        <2> HIDE DEF S
        <2> QED BY <1>6, <1>7, ReachesAll, Zenon
    <1>9. f[k] = g[k]
        BY <1>1, <1>8
    <1>10. k + 1 \in 1..Len(long) /\ (k + 1) - 1 = k
        BY <1>1
    <1>11. g[k + 1] = ReplayRecord(g[k], record)
        BY <1>1, <1>5, <1>10, Zenon
    <1> QED BY <1>1, <1>2, <1>3, <1>9, <1>11, Zenon DEF long

(* The replay does not depend on epochs or on the dense half. *)
LEMMA ReplayBases ==
    ASSUME NEW c, IsCorpus(c), NEW d, IsCorpus(d), SameData(c, d), NEW log \in Seq(Records)
    PROVE  /\ SameData(ReplayOver(c, log).c, ReplayOver(d, log).c)
           /\ ReplayOver(c, log).ok = ReplayOver(d, log).ok
    <1> DEFINE k == Len(log)
    <1>1. k \in Nat /\ \A n \in 1..k : log[n] \in Records
        OBVIOUS
    <1>2. PICK f : IsReplay(f, c, log) /\ ReplayOver(c, log) = f[k]
        BY <1>1, ReplayRuns
    <1>3. PICK g : IsReplay(g, d, log) /\ ReplayOver(d, log) = g[k]
        BY <1>1, ReplayRuns
    <1>4. /\ f[0] = [c |-> c, ok |-> TRUE]
          /\ \A n \in 1..k : f[n] = ReplayRecord(f[n - 1], log[n])
        BY <1>1, <1>2, ReplayUnfolds
    <1>5. /\ g[0] = [c |-> d, ok |-> TRUE]
          /\ \A n \in 1..k : g[n] = ReplayRecord(g[n - 1], log[n])
        BY <1>1, <1>3, ReplayUnfolds
    <1>6. \A n \in 0..k : IsReplayed(f[n]) /\ IsReplayed(g[n])
        BY <1>2, <1>3, ReplayStates
    <1> DEFINE S == {m \in Nat : m <= k => SameData(f[m].c, g[m].c) /\ f[m].ok = g[m].ok}
    <1>7. 0 \in S
        <2>1. f[0].c = c /\ g[0].c = d /\ f[0].ok = TRUE /\ g[0].ok = TRUE
            BY <1>4, <1>5
        <2> QED BY <2>1
    <1>8. ASSUME NEW m \in Nat, m \in S PROVE m + 1 \in S
        <2> SUFFICES ASSUME m + 1 <= k
                     PROVE  SameData(f[m + 1].c, g[m + 1].c) /\ f[m + 1].ok = g[m + 1].ok
            OBVIOUS
        <2>1. /\ m + 1 \in 1..k /\ m \in 0..k /\ (m + 1) - 1 = m
              /\ SameData(f[m].c, g[m].c) /\ f[m].ok = g[m].ok
            BY <1>1, <1>8
        <2>2. /\ IsReplayed(f[m]) /\ IsReplayed(g[m]) /\ log[m + 1] \in Records
              /\ f[m + 1] = ReplayRecord(f[m], log[m + 1])
              /\ g[m + 1] = ReplayRecord(g[m], log[m + 1])
            BY <1>1, <1>4, <1>5, <1>6, <2>1, Zenon
        <2> QED BY <2>1, <2>2, ReplaySame
    <1>9. Nat \subseteq S
        <2> HIDE DEF S
        <2> QED BY <1>7, <1>8, ReachesAll, Zenon
    <1>10. k \in S /\ k <= k
        BY <1>1, <1>9
    <1> QED BY <1>2, <1>3, <1>10

(* What an addition does to the documents of its name, and to the others. *)
LEMMA AdditionEffects ==
    ASSUME NEW s, IsReplayed(s), s.ok, NEW v \in Uris, NEW t \in Texts,
           NEW r, r = ReplayRecord(s, AddRecord(v, t)), r.ok
    PROVE  /\ \A u : u # v => AgreeOn(r.c, s.c, u)
           /\ (\A i, j \in FindByUri(s.c, v) : i = j) =>
                /\ FindByUri(r.c, v) = {Len(s.c.docs) + 1}
                /\ r.c.docs[Len(s.c.docs) + 1].text = t
    <1> DEFINE tomb == Tombstone(s.c, v)
    <1>1. /\ r.c.docs = Append(s.c.docs, [uri |-> v, text |-> t])
          /\ r.c.deleted = s.c.deleted \cup tomb
        BY ReplayAddition
    <1>2. /\ IsCorpus(s.c) /\ tomb \subseteq FindByUri(s.c, v)
          /\ s.c.docs \in Seq(Documents) /\ DOMAIN s.c.docs = 1..Len(s.c.docs) /\ Len(s.c.docs) \in Nat
          /\ s.c.deleted \subseteq 1..Len(s.c.docs)
        BY TombstoneFacts, CorpusFields DEF IsReplayed
    <1>3. /\ DOMAIN r.c.docs = 1..(Len(s.c.docs) + 1)
          /\ r.c.docs[Len(s.c.docs) + 1] = [uri |-> v, text |-> t]
          /\ \A i \in 1..Len(s.c.docs) : r.c.docs[i] = s.c.docs[i]
        BY <1>1, <1>2
    <1>4. \A id \in tomb : id \in DOMAIN s.c.docs /\ s.c.docs[id].uri = v
        BY <1>2 DEF FindByUri, Live
    <1>5. [uri |-> v, text |-> t].uri = v /\ [uri |-> v, text |-> t].text = t
        OBVIOUS
    <1>6. /\ Len(s.c.docs) + 1 \notin 1..Len(s.c.docs)
          /\ \A i : i \in 1..(Len(s.c.docs) + 1) <=> i \in 1..Len(s.c.docs) \/ i = Len(s.c.docs) + 1
        BY <1>2
    <1> HIDE DEF tomb
    <1>7. \A u : u # v => AgreeOn(r.c, s.c, u)
        BY <1>1, <1>2, <1>3, <1>4, <1>5, <1>6 DEF AgreeOn, Named
    <1>8. ASSUME \A i, j \in FindByUri(s.c, v) : i = j
          PROVE  FindByUri(r.c, v) = {Len(s.c.docs) + 1}
        <2>1. FindByUri(s.c, v) \subseteq tomb
            BY <1>2, <1>8, TombstoneFacts, FindIsIds, FirstOfIsOne DEF tomb, Tombstone
        <2>2. Len(s.c.docs) + 1 \in FindByUri(r.c, v)
            BY <1>1, <1>2, <1>3, <1>4, <1>5, <1>6 DEF FindByUri, Live
        <2>3. ASSUME NEW id \in FindByUri(r.c, v), id # Len(s.c.docs) + 1 PROVE FALSE
            <3>1. id \in FindByUri(s.c, v) /\ id \notin tomb
                BY <1>1, <1>2, <1>3, <1>6, <2>3 DEF FindByUri, Live
            <3> QED BY <2>1, <3>1
        <2> QED BY <2>2, <2>3
    <1>9. r.c.docs[Len(s.c.docs) + 1].text = t
        BY <1>3, <1>5, Zenon
    <1> QED BY <1>7, <1>8, <1>9

(* Replaying a removal leaves documents of other names alone. *)
LEMMA RemovalEffects ==
    ASSUME NEW s, IsReplayed(s), NEW id \in Nat, NEW r, r = ReplayRecord(s, RemoveRecord(id)),
           NEW u, id \in DOMAIN s.c.docs => s.c.docs[id].uri # u
    PROVE  AgreeOn(r.c, s.c, u)
    <1>1. /\ r.c.docs = s.c.docs
          /\ r.c.deleted = IF s.ok THEN s.c.deleted \cup ({id} \cap DOMAIN s.c.docs) ELSE s.c.deleted
        BY ReplayRemoval
    <1> QED BY <1>1 DEF AgreeOn, Named

(* What a log without removals says about a name, and a corpus has of it. *)
OneFound(c, u) == \A i, j \in FindByUri(c, u) : i = j
Mentions(log, u) == \E i \in DOMAIN log : log[i].uri = u
AlwaysSays(log, u, x) == \A i \in DOMAIN log : log[i].uri = u => log[i].text = x
FoundWith(c, u, x) == \E id : FindByUri(c, u) = {id} /\ c.docs[id].text = x

(* A log without removals, replayed over any corpus, leaves every name it
   does not mention alone, and one document of each name it does mention. *)
LEMMA ReplayAdds ==
    ASSUME NEW c, IsCorpus(c), NEW log \in Seq(Records), ~Removes(log), ReplayOver(c, log).ok,
           NEW u, OneFound(c, u), NEW x, AlwaysSays(log, u, x)
    PROVE  IF Mentions(log, u) THEN FoundWith(ReplayOver(c, log).c, u, x)
           ELSE AgreeOn(ReplayOver(c, log).c, c, u)
    <1> USE DEF OneFound, Mentions, AlwaysSays, FoundWith
    <1> DEFINE k == Len(log)
               Touched(m) == \E i \in 1..m : log[i].uri = u
               One(s) == \E id : FindByUri(s.c, u) = {id} /\ s.c.docs[id].text = x
    <1>1. k \in Nat /\ DOMAIN log = 1..k /\ \A n \in 1..k : log[n] \in Records
        OBVIOUS
    <1>2. PICK f : IsReplay(f, c, log) /\ ReplayOver(c, log) = f[k]
        BY <1>1, ReplayRuns
    <1>3. /\ f[0] = [c |-> c, ok |-> TRUE]
          /\ \A n \in 1..k : f[n] = ReplayRecord(f[n - 1], log[n])
        BY <1>1, <1>2, ReplayUnfolds
    <1>4. \A n \in 0..k : IsReplayed(f[n])
        BY <1>2, ReplayStates
    <1> DEFINE S == {m \in Nat : m <= k /\ f[m].ok =>
                        IF Touched(m) THEN One(f[m]) ELSE AgreeOn(f[m].c, c, u)}
    <1>5. 0 \in S
        <2>1. f[0].c = c /\ ~Touched(0)
            BY <1>3
        <2>2. AgreeOn(c, c, u)
            BY AgreeFacts DEF SameData
        <2> QED BY <2>1, <2>2
    <1>6. ASSUME NEW m \in Nat, m \in S PROVE m + 1 \in S
        <2> SUFFICES ASSUME m + 1 <= k, f[m + 1].ok
                     PROVE  IF Touched(m + 1) THEN One(f[m + 1]) ELSE AgreeOn(f[m + 1].c, c, u)
            OBVIOUS
        <2> DEFINE s == f[m]
                   r == f[m + 1]
        <2>1. /\ m + 1 \in 1..k /\ m \in 0..k /\ (m + 1) - 1 = m /\ m <= k
            BY <1>1
        <2>2. /\ IsReplayed(s) /\ log[m + 1] \in Records
              /\ r = ReplayRecord(s, log[m + 1])
            BY <1>1, <1>3, <1>4, <2>1, Zenon
        <2>3. s.ok
            BY <2>2, ReplayStep
        <2>4. IF Touched(m) THEN One(s) ELSE AgreeOn(s.c, c, u)
            BY <1>6, <2>1, <2>3
        <2>5. PICK v \in Uris, t \in Texts : log[m + 1] = AddRecord(v, t)
            <3>1. log[m + 1].op # "remove_document"
                BY <1>1, <2>1 DEF Removes
            <3> QED BY <2>2, <3>1, RecordKinds DEF RemoveRecord
        <2>6. log[m + 1].uri = v /\ log[m + 1].text = t
            BY <2>5 DEF AddRecord
        <2>7. Touched(m + 1) <=> Touched(m) \/ v = u
            <3>1. \A i : i \in 1..(m + 1) <=> i \in 1..m \/ i = m + 1
                OBVIOUS
            <3> QED BY <2>6, <3>1
        <2> HIDE DEF s, r, Touched
        <2>8. CASE v # u
            <3>0. \A w : w # v => AgreeOn(r.c, s.c, w)
                <4>1. r.ok /\ r = ReplayRecord(s, AddRecord(v, t))
                    BY <2>2, <2>5 DEF r
                <4> QED BY <2>2, <2>3, <2>5, <4>1, AdditionEffects
            <3>1. AgreeOn(r.c, s.c, u)
                BY <2>8, <3>0
            <3>2. CASE Touched(m)
                <4>1. One(s)
                    BY <2>4, <3>2
                <4>2. /\ FindByUri(r.c, u) = FindByUri(s.c, u)
                      /\ \A id \in FindByUri(r.c, u) : r.c.docs[id] = s.c.docs[id]
                    BY <3>1, AgreeFinds
                <4>3. One(r)
                    BY <4>1, <4>2
                <4> QED BY <2>7, <3>2, <4>3 DEF r
            <3>3. CASE ~Touched(m)
                <4>1. AgreeOn(r.c, c, u)
                    BY <2>4, <3>1, <3>3, AgreeFacts
                <4> QED BY <2>7, <2>8, <3>3, <4>1 DEF r
            <3> QED BY <3>2, <3>3
        <2>9. CASE v = u
            <3>1. \A i, j \in FindByUri(s.c, u) : i = j
                <4>1. CASE Touched(m)
                    BY <2>4, <4>1
                <4>2. CASE ~Touched(m)
                    BY <2>4, <4>2, AgreeFinds
                <4> QED BY <4>1, <4>2
            <3>2. t = x
                BY <1>1, <2>1, <2>6, <2>9
            <3>3. /\ FindByUri(r.c, u) = {Len(s.c.docs) + 1}
                  /\ r.c.docs[Len(s.c.docs) + 1].text = x
                BY <2>2, <2>3, <2>5, <2>9, <3>1, <3>2, AdditionEffects DEF r
            <3>4. One(r)
                BY <3>3, Zenon
            <3> QED BY <2>7, <2>9, <3>4 DEF r
        <2> QED BY <2>8, <2>9
    <1>7. Nat \subseteq S
        <2> HIDE DEF S
        <2> QED BY <1>5, <1>6, ReachesAll, Zenon
    <1>8. k \in S /\ k <= k
        BY <1>1, <1>7
    <1>9. IF Touched(k) THEN One(f[k]) ELSE AgreeOn(f[k].c, c, u)
        BY <1>2, <1>8
    <1>10. Touched(k) <=> \E i \in DOMAIN log : log[i].uri = u
        BY <1>1
    <1> HIDE DEF Touched
    <1> QED BY <1>2, <1>9, <1>10

(* The readable part of a log: frames behind a torn one do not count. *)
LEMMA ReadableFacts ==
    ASSUME NEW log \in Seq(Records \cup {Torn})
    PROVE  /\ Readable(log) \in Seq(Records)
           /\ TornAt(log) = {} => Readable(log) = log
           /\ Len(Readable(log)) <= Len(log)
           /\ \A i \in DOMAIN Readable(log) : i \in DOMAIN log /\ Readable(log)[i] = log[i]
    <1>1. CASE TornAt(log) = {}
        <2>1. \A i \in 1..Len(log) : log[i] \in Records
            BY <1>1 DEF TornAt
        <2>2. log \in Seq(Records)
            BY <2>1
        <2> QED BY <1>1, <2>2 DEF Readable
    <1>2. CASE TornAt(log) # {}
        <2> DEFINE f == FirstOf(TornAt(log))
        <2>1. TornAt(log) \in SUBSET Nat
            BY DEF TornAt
        <2>2. f \in TornAt(log) /\ \A i \in TornAt(log) : f <= i
            BY <1>2, <2>1, FirstOfIsOne
        <2>3. f \in 1..Len(log) /\ Len(log) \in Nat
            BY <2>2 DEF TornAt
        <2>4. Readable(log) = SubSeq(log, 1, f - 1)
            BY <1>2 DEF Readable
        <2> HIDE DEF f
        <2>5. \A i \in 1..(f - 1) : i \in DOMAIN log /\ log[i] \in Records
            BY <2>2, <2>3 DEF TornAt
        <2>6. /\ Len(Readable(log)) = f - 1
              /\ \A i \in 1..(f - 1) : Readable(log)[i] = log[i]
              /\ DOMAIN Readable(log) = 1..(f - 1)
              /\ Readable(log) \in Seq(Records)
            BY <2>3, <2>4, <2>5
        <2> QED BY <1>2, <2>3, <2>5, <2>6
    <1> QED BY <1>1, <1>2

(* A record is read back unless it, or a frame before it, is torn. *)
LEMMA ReadableAppend ==
    ASSUME NEW log \in Seq(Records \cup {Torn}), NEW record \in Records \cup {Torn}
    PROVE  /\ Append(log, record) \in Seq(Records \cup {Torn})
           /\ TornAt(log) # {} => TornAt(Append(log, record)) # {}
           /\ record = Torn => TornAt(Append(log, record)) # {}
           /\ TornAt(log) # {} \/ record = Torn => Readable(Append(log, record)) = Readable(log)
           /\ TornAt(log) = {} /\ record # Torn =>
                /\ TornAt(Append(log, record)) = {}
                /\ Readable(Append(log, record)) = Append(Readable(log), record)
    <1> DEFINE long == Append(log, record)
               k == Len(log)
    <1>1. /\ k \in Nat /\ long \in Seq(Records \cup {Torn}) /\ Len(long) = k + 1
          /\ DOMAIN long = 1..(k + 1) /\ DOMAIN log = 1..k
          /\ long[k + 1] = record /\ \A n \in 1..k : long[n] = log[n]
          /\ \A i : i \in 1..(k + 1) <=> i \in 1..k \/ i = k + 1
        OBVIOUS
    <1> HIDE DEF long
    <1>2. TornAt(long) = TornAt(log) \cup (IF record = Torn THEN {k + 1} ELSE {})
        BY <1>1 DEF TornAt
    <1>3. TornAt(long) \in SUBSET Nat /\ TornAt(log) \in SUBSET Nat
        BY <1>1 DEF TornAt
    <1>4. CASE TornAt(log) # {}
        <2> DEFINE f == FirstOf(TornAt(log))
        <2>1. f \in TornAt(log) /\ \A i \in TornAt(log) : f <= i
            BY <1>3, <1>4, FirstOfIsOne
        <2>2. f \in 1..k
            BY <1>1, <2>1 DEF TornAt
        <2>3. FirstOf(TornAt(long)) \in TornAt(long) /\ \A i \in TornAt(long) : FirstOf(TornAt(long)) <= i
            BY <1>2, <1>3, <1>4, FirstOfIsOne
        <2> HIDE DEF f
        <2>4. f \in TornAt(long) /\ \A i \in TornAt(long) : f <= i
            BY <1>1, <1>2, <2>1, <2>2
        <2>5. FirstOf(TornAt(long)) = f
            BY <1>3, <2>3, <2>4
        <2>6. Readable(long) = SubSeq(long, 1, f - 1) /\ Readable(log) = SubSeq(log, 1, f - 1)
            BY <1>2, <1>4, <2>5 DEF Readable, f
        <2>7. SubSeq(long, 1, f - 1) = SubSeq(log, 1, f - 1)
            BY <1>1, <2>2
        <2> QED BY <1>1, <1>2, <1>4, <2>6, <2>7 DEF long
    <1>5. CASE TornAt(log) = {} /\ record = Torn
        <2>1. TornAt(long) = {k + 1}
            BY <1>2, <1>5
        <2>2. FirstOf(TornAt(long)) = k + 1
            BY <1>3, <2>1, FirstOfIsOne
        <2>3. Readable(long) = SubSeq(long, 1, (k + 1) - 1) /\ Readable(log) = log
            BY <1>5, <2>1, <2>2 DEF Readable
        <2>4. SubSeq(long, 1, (k + 1) - 1) = log
            BY <1>1
        <2> QED BY <1>1, <1>5, <2>1, <2>3, <2>4 DEF long
    <1>6. CASE TornAt(log) = {} /\ record # Torn
        <2>1. TornAt(long) = {}
            BY <1>2, <1>6
        <2> QED BY <1>1, <1>6, <2>1 DEF Readable, long
    <1> QED BY <1>4, <1>5, <1>6
-----------------------------------------------------------------------------
(* The steps of a mutation                                                 *)

(* A state of a mutation under way. *)
IsWork(s) ==
    /\ s = [wal |-> s.wal, c |-> s.c, ok |-> s.ok, clean |-> s.clean]
    /\ s.wal \in Seq(Records \cup {Torn}) /\ IsCorpus(s.c)
    /\ s.ok \in BOOLEAN /\ s.clean \in BOOLEAN

(* The outcomes of Wal::append(). *)
Outcomes == {"ok", "unwritten", "torn", "unsynced"}

(* A step that does nothing, one that is in the log and in the corpus, and
   one that is at most in the log. *)
Idles(s, r) == r.wal = s.wal /\ r.c = s.c /\ ~r.ok /\ r.clean = s.clean
Takes(s, r, record, c) == r.wal = Append(s.wal, record) /\ r.c = c /\ r.ok /\ r.clean = s.clean
Strays(s, r, record) ==
    /\ r.wal = Append(s.wal, record) \/ r.wal = Append(s.wal, Torn)
    /\ r.c = s.c /\ ~r.ok /\ ~r.clean

(* The steps of add_document_locked(), by their effect. *)
LEMMA AddToKinds ==
    ASSUME NEW s, IsWork(s), NEW u \in Uris, NEW t \in Texts, NEW o \in Outcomes
    PROVE  LET r == AddTo(s, u, t, o)
           IN  /\ IsWork(r)
               /\ \/ Idles(s, r)
                  \/ /\ Takes(s, r, AddRecord(u, t), Added(s.c, u, t))
                     /\ Len(s.c.docs) < MaxDocuments /\ Fits(s.c, t)
                  \/ Strays(s, r, AddRecord(u, t))
    <1> DEFINE r == AddTo(s, u, t, o)
               accepted == o = "ok" /\ Fits(s.c, t)
               add == AddRecord(u, t)
    <1>0. /\ add \in Records
          /\ Append(s.wal, add) \in Seq(Records \cup {Torn})
          /\ Append(s.wal, Torn) \in Seq(Records \cup {Torn})
          /\ s.ok \in BOOLEAN /\ s.clean \in BOOLEAN
          /\ s = [wal |-> s.wal, c |-> s.c, ok |-> s.ok, clean |-> s.clean]
          /\ s.wal \in Seq(Records \cup {Torn}) /\ IsCorpus(s.c)
        BY DEF AddRecord, Records, IsWork
    <1>1. CASE Len(s.c.docs) >= MaxDocuments
        <2>1. r = [s EXCEPT !.ok = FALSE]
            BY <1>1 DEF AddTo
        <2>2. r = [wal |-> s.wal, c |-> s.c, ok |-> FALSE, clean |-> s.clean]
            BY <1>0, <2>1
        <2> HIDE DEF r
        <2>3. r.wal = s.wal /\ r.c = s.c /\ r.ok = FALSE /\ r.clean = s.clean
            BY <2>2
        <2> QED BY <1>0, <2>2, <2>3 DEF IsWork, Idles, r
    <1>2. CASE ~(Len(s.c.docs) >= MaxDocuments)
        <2>1. r = [wal   |-> Logged(s.wal, add, o),
                   c     |-> IF accepted THEN Added(s.c, u, t) ELSE s.c,
                   ok    |-> accepted,
                   clean |-> s.clean /\ (accepted \/ o = "unwritten")]
            BY <1>2 DEF AddTo
        <2>2. Len(s.c.docs) < MaxDocuments
            <3>1. Len(s.c.docs) \in Nat /\ MaxDocuments \in Nat
                BY <1>0, CorpusFields, CorpusAssumption
            <3> QED BY <1>2, <3>1
        <2>3. accepted \in BOOLEAN /\ IsCorpus(Added(s.c, u, t))
            BY <1>0, AddedFacts DEF Fits
        <2>4. /\ o = "unwritten" => Logged(s.wal, add, o) = s.wal
              /\ o = "torn" => Logged(s.wal, add, o) = Append(s.wal, Torn)
              /\ o \in {"ok", "unsynced"} => Logged(s.wal, add, o) = Append(s.wal, add)
            BY DEF Logged
        <2>5. /\ r.wal = Logged(s.wal, add, o)
              /\ r.c = IF accepted THEN Added(s.c, u, t) ELSE s.c
              /\ r.ok = accepted
              /\ r.clean = (s.clean /\ (accepted \/ o = "unwritten"))
              /\ r = [wal |-> r.wal, c |-> r.c, ok |-> r.ok, clean |-> r.clean]
            BY <2>1
        <2>6. Logged(s.wal, add, o) \in Seq(Records \cup {Torn})
            BY <1>0, <2>4 DEF Outcomes
        <2> HIDE DEF r, add
        <2>7. IsWork(r)
            BY <1>0, <2>3, <2>5, <2>6 DEF IsWork
        <2>8. CASE accepted
            <3>1. Takes(s, r, add, Added(s.c, u, t))
                BY <1>0, <2>3, <2>4, <2>5, <2>8 DEF Takes
            <3> QED BY <2>2, <2>7, <2>8, <3>1 DEF r, add
        <2>9. CASE ~accepted /\ o = "unwritten"
            <3>1. Idles(s, r)
                BY <1>0, <2>3, <2>4, <2>5, <2>9 DEF Idles
            <3> QED BY <2>7, <3>1 DEF r
        <2>10. CASE ~accepted /\ o # "unwritten"
            <3>1. Strays(s, r, add)
                BY <1>0, <2>3, <2>4, <2>5, <2>10 DEF Strays, Outcomes
            <3> QED BY <2>7, <3>1 DEF r, add
        <2> QED BY <2>8, <2>9, <2>10
    <1> QED BY <1>1, <1>2

(* The steps of remove_document_locked(), by their effect. *)
LEMMA RemoveFromKinds ==
    ASSUME NEW s, IsWork(s), NEW id \in DOMAIN s.c.docs, NEW o \in Outcomes
    PROVE  LET r == RemoveFrom(s, id, o)
           IN  /\ IsWork(r)
               /\ \/ Idles(s, r)
                  \/ Takes(s, r, RemoveRecord(id), Removed(s.c, id))
                  \/ Strays(s, r, RemoveRecord(id))
    <1> DEFINE r == RemoveFrom(s, id, o)
               rem == RemoveRecord(id)
    <1>0. /\ s.ok \in BOOLEAN /\ s.clean \in BOOLEAN
          /\ s.wal \in Seq(Records \cup {Torn}) /\ IsCorpus(s.c)
        BY DEF IsWork
    <1>1. id \in Nat
        BY <1>0, CorpusFields
    <1>2. /\ rem \in Records
          /\ Append(s.wal, rem) \in Seq(Records \cup {Torn})
          /\ Append(s.wal, Torn) \in Seq(Records \cup {Torn})
        BY <1>0, <1>1 DEF RemoveRecord, Records
    <1>3. IsCorpus(Removed(s.c, id))
        BY <1>0, RemovedFacts
    <1>4. /\ o = "unwritten" => Logged(s.wal, rem, o) = s.wal
          /\ o = "torn" => Logged(s.wal, rem, o) = Append(s.wal, Torn)
          /\ o \in {"ok", "unsynced"} => Logged(s.wal, rem, o) = Append(s.wal, rem)
        BY DEF Logged
    <1>5. /\ r.wal = Logged(s.wal, rem, o)
          /\ r.c = IF o = "ok" THEN Removed(s.c, id) ELSE s.c
          /\ r.ok = (o = "ok")
          /\ r.clean = (s.clean /\ o \in {"ok", "unwritten"})
          /\ r = [wal |-> r.wal, c |-> r.c, ok |-> r.ok, clean |-> r.clean]
        BY DEF RemoveFrom
    <1>6. Logged(s.wal, rem, o) \in Seq(Records \cup {Torn})
        BY <1>0, <1>2, <1>4 DEF Outcomes
    <1> HIDE DEF r, rem
    <1>7. IsWork(r)
        BY <1>0, <1>3, <1>5, <1>6 DEF IsWork
    <1>8. CASE o = "ok"
        <2>1. Takes(s, r, rem, Removed(s.c, id))
            BY <1>0, <1>4, <1>5, <1>8 DEF Takes
        <2> QED BY <1>7, <2>1 DEF r, rem
    <1>9. CASE o = "unwritten"
        <2>1. Idles(s, r)
            BY <1>0, <1>4, <1>5, <1>9 DEF Idles
        <2> QED BY <1>7, <2>1 DEF r
    <1>10. CASE o \in {"torn", "unsynced"}
        <2>1. Strays(s, r, rem)
            BY <1>0, <1>4, <1>5, <1>10 DEF Strays
        <2> QED BY <1>7, <2>1 DEF r, rem
    <1> QED BY <1>8, <1>9, <1>10 DEF Outcomes

(* The corpus a mutation began with, and the one it left. *)
Climbs(c, d) == Precedes(c, d) /\ (d = c \/ c.epoch < d.epoch)

(* Each step of a mutation goes up in the order of versions, or does nothing. *)
LEMMA WorkClimbs ==
    ASSUME NEW s, IsWork(s), NEW o \in Outcomes
    PROVE  /\ \A u \in Uris, t \in Texts : Climbs(s.c, AddTo(s, u, t, o).c)
           /\ \A id \in DOMAIN s.c.docs : Climbs(s.c, RemoveFrom(s, id, o).c)
    <1>0. /\ IsCorpus(s.c) /\ s.c.docs \in Seq(Documents) /\ s.c.epoch \in Nat
          /\ DOMAIN s.c.docs = 1..Len(s.c.docs) /\ Len(s.c.docs) \in Nat
        BY CorpusFields DEF IsWork
    <1>1. Climbs(s.c, s.c)
        BY <1>0, OrderFacts DEF Climbs, SameData
    <1>2. ASSUME NEW u \in Uris, NEW t \in Texts PROVE Climbs(s.c, AddTo(s, u, t, o).c)
        <2>1. \/ AddTo(s, u, t, o).c = s.c
              \/ AddTo(s, u, t, o).c = Added(s.c, u, t)
            BY AddToKinds DEF Idles, Takes, Strays
        <2>2. /\ Added(s.c, u, t).docs = Append(s.c.docs, [uri |-> u, text |-> t])
              /\ Added(s.c, u, t).deleted = s.c.deleted
              /\ Added(s.c, u, t).epoch = s.c.epoch + 1
            BY <1>0, AddedFacts
        <2>3. [uri |-> u, text |-> t] \in Documents
            BY DEF Documents
        <2>4. Climbs(s.c, Added(s.c, u, t))
            BY <1>0, <2>2, <2>3 DEF Climbs, Precedes
        <2> QED BY <1>1, <2>1, <2>4
    <1>3. ASSUME NEW id \in DOMAIN s.c.docs PROVE Climbs(s.c, RemoveFrom(s, id, o).c)
        <2>1. \/ RemoveFrom(s, id, o).c = s.c
              \/ RemoveFrom(s, id, o).c = Removed(s.c, id)
            BY RemoveFromKinds DEF Idles, Takes, Strays
        <2>2. /\ Removed(s.c, id).docs = s.c.docs
              /\ Removed(s.c, id).deleted = s.c.deleted \cup {id}
              /\ Removed(s.c, id).epoch = s.c.epoch + 1
            BY <1>0, RemovedFacts
        <2>3. Climbs(s.c, Removed(s.c, id))
            BY <1>0, <2>2 DEF Climbs, Precedes
        <2> QED BY <1>1, <2>1, <2>3
    <1> QED BY <1>2, <1>3

(* So do two steps. *)
LEMMA ClimbsTwice ==
    ASSUME NEW c, NEW d, NEW e, IsCorpus(c), IsCorpus(d), IsCorpus(e), Climbs(c, d), Climbs(d, e)
    PROVE  Climbs(c, e)
    <1>1. c.epoch \in Nat /\ d.epoch \in Nat /\ e.epoch \in Nat
        BY CorpusFields
    <1>2. Precedes(c, e)
        BY OrderFacts DEF Climbs
    <1> QED BY <1>1, <1>2 DEF Climbs
-----------------------------------------------------------------------------
(* Types                                                                   *)

(* A call that mutates the documents of u: an addition, a removal, or an
   upsert that finds an old version. *)
Works(s, u, t) ==
    \/ t \in Texts /\ \E o \in Outcomes : s = AddTo(Begun, u, t, o)
    \/ /\ t \in Texts /\ FindByUri(corpus, u) # {}
       /\ \E o1, o2 \in Outcomes :
            s = AddTo(RemoveFrom(Begun, FirstOf(FindByUri(corpus, u)), o1), u, t, o2)
    \/ /\ t = NoText
       /\ \E id \in FindByUri(corpus, u), o \in Outcomes : s = RemoveFrom(Begun, id, o)

(* The actions that mutate documents. *)
Mutate == \/ \E u \in Uris, t \in Texts : AddDocument(u, t) \/ UpsertDocument(u, t)
          \/ \E id \in Live(corpus) : RemoveDocument(id)

(* Every mutation is such a call. *)
LEMMA MutationKinds ==
    ASSUME TypeOK, Mutate
    PROVE  \E u, t, s, outs : /\ u \in Uris /\ t \in Texts \cup {NoText}
                              /\ Works(s, u, t) /\ Mutated(s, u, t, outs)
    <1>0. AppendOutcome \subseteq Outcomes
        BY DEF AppendOutcome, Outcomes
    <1>1. ASSUME NEW u \in Uris, NEW t \in Texts, AddDocument(u, t)
          PROVE  \E s, outs : Works(s, u, t) /\ Mutated(s, u, t, outs)
        <2>1. PICK o \in AppendOutcome : Mutated(AddTo(Begun, u, t, o), u, t, {o})
            BY <1>1 DEF AddDocument
        <2>2. Works(AddTo(Begun, u, t, o), u, t)
            BY <1>0 DEF Works
        <2> QED BY <2>1, <2>2
    <1>2. ASSUME NEW u \in Uris, NEW t \in Texts, UpsertDocument(u, t), FindByUri(corpus, u) # {}
          PROVE  \E s, outs : Works(s, u, t) /\ Mutated(s, u, t, outs)
        <2>1. PICK o1 \in AppendOutcome, o2 \in AppendOutcome :
                Mutated(AddTo(RemoveFrom(Begun, FirstOf(FindByUri(corpus, u)), o1), u, t, o2),
                        u, t, {o1, o2})
            BY <1>2 DEF UpsertDocument
        <2>2. Works(AddTo(RemoveFrom(Begun, FirstOf(FindByUri(corpus, u)), o1), u, t, o2), u, t)
            BY <1>0, <1>2 DEF Works
        <2> QED BY <2>1, <2>2
    <1>3. ASSUME NEW id \in Live(corpus), RemoveDocument(id)
          PROVE  /\ corpus.docs[id].uri \in Uris
                 /\ \E s, outs : /\ Works(s, corpus.docs[id].uri, NoText)
                                 /\ Mutated(s, corpus.docs[id].uri, NoText, outs)
        <2>0. corpus.docs[id] \in Documents
            BY CorpusFields DEF TypeOK, Live
        <2>1. PICK o \in AppendOutcome :
                Mutated(RemoveFrom(Begun, id, o), corpus.docs[id].uri, NoText, {o})
            BY <1>3 DEF RemoveDocument
        <2>2. id \in FindByUri(corpus, corpus.docs[id].uri)
            BY DEF FindByUri
        <2>3. Works(RemoveFrom(Begun, id, o), corpus.docs[id].uri, NoText)
            BY <1>0, <2>2 DEF Works
        <2> QED BY <2>0, <2>1, <2>3 DEF Documents
    <1>4. ASSUME NEW u \in Uris, NEW t \in Texts, UpsertDocument(u, t), FindByUri(corpus, u) = {}
          PROVE  AddDocument(u, t)
        BY <1>4 DEF UpsertDocument
    <1> QED BY <1>1, <1>2, <1>3, <1>4 DEF Mutate

(* The beginning of a mutation and each of its steps. *)
LEMMA BegunFacts ==
    ASSUME TypeOK
    PROVE  /\ IsWork(Begun) /\ Begun.wal = wal /\ Begun.c = corpus
           /\ Begun.ok = TRUE /\ Begun.clean = TRUE
    BY DEF TypeOK, IsWork, Begun

(* What a mutation leaves came out of the corpus by further mutations. *)
LEMMA WorksFacts ==
    ASSUME TypeOK, NEW u \in Uris, NEW t, NEW s, Works(s, u, t)
    PROVE  IsWork(s) /\ Climbs(corpus, s.c)
    <1>0. IsWork(Begun) /\ Begun.c = corpus /\ IsCorpus(corpus)
        BY BegunFacts DEF TypeOK
    <1>1. ASSUME t \in Texts, NEW o \in Outcomes, s = AddTo(Begun, u, t, o)
          PROVE  IsWork(s) /\ Climbs(corpus, s.c)
        BY <1>0, <1>1, AddToKinds, WorkClimbs
    <1>2. ASSUME NEW id \in FindByUri(corpus, u), NEW o \in Outcomes
          PROVE  /\ IsWork(RemoveFrom(Begun, id, o))
                 /\ Climbs(corpus, RemoveFrom(Begun, id, o).c)
        <2>1. id \in DOMAIN Begun.c.docs
            BY <1>0, FindIsIds
        <2> QED BY <1>0, <2>1, RemoveFromKinds, WorkClimbs
    <1>3. ASSUME t \in Texts, FindByUri(corpus, u) # {}, NEW o1 \in Outcomes, NEW o2 \in Outcomes,
                 s = AddTo(RemoveFrom(Begun, FirstOf(FindByUri(corpus, u)), o1), u, t, o2)
          PROVE  IsWork(s) /\ Climbs(corpus, s.c)
        <2> DEFINE id == FirstOf(FindByUri(corpus, u))
                   r == RemoveFrom(Begun, id, o1)
        <2>1. id \in FindByUri(corpus, u)
            BY <1>0, <1>3, FindIsIds, FirstOfIsOne
        <2>2. IsWork(r) /\ Climbs(corpus, r.c)
            BY <1>2, <2>1
        <2>3. s = AddTo(r, u, t, o2)
            BY <1>3
        <2> HIDE DEF r, id
        <2>4. IsWork(s) /\ Climbs(r.c, s.c)
            BY <1>3, <2>2, <2>3, AddToKinds, WorkClimbs
        <2> QED BY <1>0, <2>2, <2>4, ClimbsTwice DEF IsWork
    <1> QED BY <1>1, <1>2, <1>3 DEF Works
(* build() changes no document, and does not lower the epoch. *)
LEMMA BuildFacts ==
    ASSUME TypeOK, Build
    PROVE  /\ IsCorpus(corpus') /\ SameData(corpus', corpus)
           /\ corpus'.epoch \in {corpus.epoch, corpus.epoch + 1}
           /\ UNCHANGED <<mode, wal, file, published, savers, faults, crashes, history>>
    <1>0. IsCorpus(corpus) /\ corpus \in Corpora
        BY DEF TypeOK, IsCorpus
    <1>1. CASE corpus' = Built(corpus)
        BY <1>0, <1>1, BuiltFacts DEF SameData, Build
    <1>2. ASSUME NEW some \in SUBSET (Chunks(corpus) \ corpus.embedded),
                 corpus' = [corpus EXCEPT !.embedded = @ \cup some]
          PROVE  IsCorpus(corpus') /\ SameData(corpus', corpus) /\ corpus'.epoch = corpus.epoch
        <2>1. corpus.embedded \cup some \in SUBSET ChunkIds
            BY <1>0, ChunksTyped DEF Corpora
        <2>2. /\ corpus' \in Corpora /\ corpus'.docs = corpus.docs
              /\ corpus'.deleted = corpus.deleted /\ corpus'.graph = corpus.graph
              /\ corpus'.epoch = corpus.epoch
            BY <1>0, <1>2, <2>1 DEF Corpora
        <2> QED BY <1>0, <2>2 DEF IsCorpus, SameData
    <1> QED BY <1>1, <1>2 DEF Build

(* The log and the file of a corpus that is opened. *)
LEMMA OpenFacts ==
    ASSUME TypeOK, Open
    PROVE  /\ IsCorpus(corpus') /\ SameData(corpus', Replayed.c)
           /\ Loaded.epoch <= corpus'.epoch
           /\ Precedes(Parsed, corpus')
           /\ IsCorpus(Replayed.c)
    <1>0. /\ IsCorpus(Parsed) /\ IsCorpus(Loaded) /\ SameData(Loaded, Parsed)
          /\ Readable(wal) \in Seq(Records)
        BY LoadedFacts, ReadableFacts DEF TypeOK, SameData
    <1>1. /\ IsCorpus(Replayed.c) /\ Precedes(Loaded, Replayed.c)
          /\ Loaded.epoch <= Replayed.c.epoch
          /\ Readable(wal) = <<>> => Replayed.c = Loaded
        BY <1>0, ReplayFacts DEF Replayed, IsReplayed
    <1>2. Loaded.epoch \in Nat /\ Replayed.c.epoch \in Nat
        BY <1>0, <1>1, CorpusFields
    <1>3. /\ IsCorpus(corpus') /\ SameData(corpus', Replayed.c) /\ Loaded.epoch <= corpus'.epoch
        <2>1. CASE Readable(wal) = <<>>
            BY <1>0, <1>1, <1>2, <2>1 DEF Open, SameData
        <2>2. CASE Readable(wal) # <<>>
            BY <1>1, <1>2, <2>2, BuiltFacts DEF Open, SameData
        <2> QED BY <2>1, <2>2
    <1>4. Precedes(Parsed, corpus')
        <2>1. Precedes(Parsed, Loaded) /\ Precedes(Replayed.c, corpus')
            BY <1>0, <1>1, <1>3, OrderFacts DEF SameData
        <2> QED BY <1>0, <1>1, <1>3, <2>1, OrderFacts
    <1> QED BY <1>1, <1>3, <1>4

(* A saver that comes to rest changes nothing about the others. *)
LEMMA AtRestFacts ==
    ASSUME TypeOK, NEW t \in Savers, AtRest(t)
    PROVE  /\ pc' \in [Savers -> {"idle", "snapped", "saved"}]
           /\ call' \in [Savers -> {"none", "save", "checkpoint"}]
           /\ snap' \in [Savers -> Corpora] /\ \A s \in Savers : IsCorpus(snap'[s])
           /\ pc'[t] = "idle"
           /\ \A s \in Savers \ {t} : pc'[s] = pc[s] /\ call'[s] = call[s] /\ snap'[s] = snap[s]
    <1>1. IsCorpus(Empty) /\ Empty \in Corpora
        BY EmptyFacts DEF IsCorpus
    <1> QED BY <1>1 DEF TypeOK, AtRest

(* A saver that begins has the corpus, and changes nothing about the others. *)
LEMMA SnapshotFacts ==
    ASSUME TypeOK, NEW t \in Savers, NEW kind \in {"save", "checkpoint"}, Snapshot(t, kind)
    PROVE  /\ pc' \in [Savers -> {"idle", "snapped", "saved"}]
           /\ call' \in [Savers -> {"none", "save", "checkpoint"}]
           /\ snap' \in [Savers -> Corpora] /\ \A s \in Savers : IsCorpus(snap'[s])
           /\ pc'[t] = "snapped" /\ call'[t] = kind /\ snap'[t] = corpus
           /\ \A s \in Savers \ {t} : pc'[s] = pc[s] /\ call'[s] = call[s] /\ snap'[s] = snap[s]
    <1>1. corpus \in Corpora
        BY DEF TypeOK, IsCorpus
    <1> QED BY <1>1 DEF TypeOK, Snapshot

(* A process that ends takes its savers with it. *)
LEMMA DownFacts ==
    ASSUME TypeOK, Down
    PROVE  /\ pc' \in [Savers -> {"idle", "snapped", "saved"}]
           /\ call' \in [Savers -> {"none", "save", "checkpoint"}]
           /\ snap' \in [Savers -> Corpora] /\ \A s \in Savers : IsCorpus(snap'[s])
           /\ \A s \in Savers : pc'[s] = "idle"
           /\ IsCorpus(corpus') /\ mode' = "down"
           /\ UNCHANGED <<file, acked, diverged, overlapping>>
    <1>1. IsCorpus(Empty) /\ Empty \in Corpora
        BY EmptyFacts DEF IsCorpus
    <1> QED BY <1>1 DEF TypeOK, Down

(* The record a crash may leave behind. *)
LEMMA CrashInUpsertFacts ==
    ASSUME TypeOK, NEW u \in Uris, CrashInUpsert(u)
    PROVE  \E id \in FindByUri(corpus, u) :
                /\ RemoveRecord(id) \in Records /\ id \in Nat
                /\ wal' = Append(wal, RemoveRecord(id))
    <1>1. FirstOf(FindByUri(corpus, u)) \in FindByUri(corpus, u)
        BY FindIsIds, FirstOfIsOne DEF TypeOK, CrashInUpsert
    <1>2. FirstOf(FindByUri(corpus, u)) \in Nat
        BY <1>1, FindIsIds DEF TypeOK
    <1>3. RemoveRecord(FirstOf(FindByUri(corpus, u))) \in Records
        BY <1>2 DEF RemoveRecord, Records
    <1> QED BY <1>1, <1>2, <1>3 DEF CrashInUpsert

(* The types hold initially ... *)
LEMMA InitTypeOK == Init => TypeOK
    <1> SUFFICES ASSUME Init PROVE TypeOK
        OBVIOUS
    <1>1. IsCorpus(Empty) /\ Empty \in Corpora
        BY EmptyFacts DEF IsCorpus
    <1>2. <<>> \in Seq(Records \cup {Torn})
        OBVIOUS
    <1>3. wal \in Seq(Records \cup {Torn}) /\ IsCorpus(corpus)
        BY <1>1, <1>2, Zenon DEF Init
    <1> QED BY <1>1, <1>3 DEF Init, TypeOK

(* ... and are kept by every step. *)
LEMMA NextTypeOK == TypeOK /\ [Next]_vars => TypeOK'
    <1> SUFFICES ASSUME TypeOK, [Next]_vars PROVE TypeOK'
        OBVIOUS
    <1>1. CASE Mutate
        <2>1. PICK u, t, s, outs :
                u \in Uris /\ t \in Texts \cup {NoText} /\ Works(s, u, t) /\ Mutated(s, u, t, outs)
            BY <1>1, MutationKinds
        <2>2. IsWork(s)
            BY <2>1, WorksFacts
        <2>3. IsCorpus(corpus') /\ wal' \in Seq(Records \cup {Torn})
            BY <2>1, <2>2 DEF Mutated, IsWork
        <2>4. /\ acked' \in [Uris -> Texts \cup {NoText}] /\ unprotected' \subseteq Uris
            BY <2>1 DEF Mutated, TypeOK
        <2>5. diverged' \in BOOLEAN
            BY <2>1, <2>2 DEF Mutated, TypeOK, IsWork
        <2> QED BY <2>1, <2>3, <2>4, <2>5 DEF Mutated, TypeOK, savers
    <1>2. CASE Build
        <2>1. IsCorpus(corpus') /\ UNCHANGED <<mode, wal, file, published, savers, history>>
            BY <1>2, BuildFacts
        <2> QED BY <2>1 DEF TypeOK, savers, history
    <1>3. ASSUME NEW t \in Savers, NEW kind \in {"save", "checkpoint"}, Snapshot(t, kind)
          PROVE  TypeOK'
        <2>1. mode = "up" /\ UNCHANGED <<mode, corpus, wal, file, published, history>>
            BY <1>3 DEF Snapshot
        <2> QED BY <1>3, <2>1, SnapshotFacts DEF TypeOK, history
    <1>4. ASSUME NEW t \in Savers, Publish(t)
          PROVE  TypeOK'
        <2>1. /\ UNCHANGED <<mode, corpus, wal, call, snap, acked, unprotected, diverged>>
              /\ pc' = [pc EXCEPT ![t] = "saved"] /\ pc[t] = "snapped"
            BY <1>4 DEF Publish
        <2>2. /\ file' # NoFile => IsCorpus(file')
              /\ published' \in Nat \cup {-1}
              /\ published' # -1 => file' # NoFile
              /\ overlapping' \in BOOLEAN
            <3>1. CASE Superseded(snap[t])
                BY <1>4, <3>1 DEF Publish, TypeOK
            <3>2. CASE ~Superseded(snap[t])
                <4>1. IsCorpus(snap[t])
                    BY DEF TypeOK
                <4>2. snap[t].epoch \in Nat /\ snap[t] # NoFile
                    BY <4>1, CorpusFields
                <4> QED BY <1>4, <3>2, <4>1, <4>2 DEF Publish, TypeOK
            <3> QED BY <3>1, <3>2
        <2> QED BY <2>1, <2>2 DEF TypeOK
    <1>5. ASSUME NEW t \in Savers, AtRest(t), UNCHANGED <<mode, corpus, file, published, acked, unprotected>>,
                 wal' \in {wal, <<>>}, diverged' \in BOOLEAN, overlapping' \in BOOLEAN
          PROVE  TypeOK'
        <2>1. <<>> \in Seq(Records \cup {Torn})
            OBVIOUS
        <2>2. wal' \in Seq(Records \cup {Torn})
            BY <1>5, <2>1, Zenon DEF TypeOK
        <2> QED BY <1>5, <2>2, AtRestFacts DEF TypeOK
    <1>6. ASSUME NEW t \in Savers, PublishFails(t) \/ SaveReturns(t) \/ TruncateFails(t) \/ Truncate(t)
          PROVE  TypeOK'
        <2>1. /\ AtRest(t) /\ UNCHANGED <<mode, corpus, file, published, acked, unprotected>>
              /\ wal' \in {wal, <<>>}
            BY <1>6 DEF PublishFails, SaveReturns, TruncateFails, Truncate, history
        <2>2. diverged' \in BOOLEAN /\ overlapping' \in BOOLEAN
            BY <1>6 DEF PublishFails, SaveReturns, TruncateFails, Truncate, history, TypeOK
        <2> QED BY <1>5, <2>1, <2>2
    <1>7. ASSUME Down, published' \in {published, -1}, wal' \in Seq(Records \cup {Torn}),
                 unprotected' \subseteq Uris
          PROVE  TypeOK'
        BY <1>7, DownFacts DEF TypeOK
    <1>8. CASE Crash
        <2>1. Append(wal, Torn) \in Seq(Records \cup {Torn})
            BY DEF TypeOK
        <2> QED BY <1>7, <1>8, <2>1 DEF Crash, TypeOK
    <1>9. CASE Close
        BY <1>7, <1>9 DEF Close, TypeOK
    <1>10. ASSUME NEW u \in Uris, CrashInUpsert(u) PROVE TypeOK'
        <2>1. wal' \in Seq(Records \cup {Torn})
            BY <1>10, CrashInUpsertFacts DEF TypeOK
        <2> QED BY <1>7, <1>10, <2>1 DEF CrashInUpsert, TypeOK
    <1>11. CASE Open
        <2>1. IsCorpus(corpus')
            BY <1>11, OpenFacts
        <2>2. diverged' \in BOOLEAN /\ unprotected' \subseteq Uris
            BY <1>11 DEF Open, TypeOK
        <2>3. mode = "down" /\ UNCHANGED <<wal, file, published, savers, acked, overlapping>> /\ mode' = "up"
            BY <1>11 DEF Open
        <2> QED BY <2>1, <2>2, <2>3 DEF TypeOK, savers
    <1>12. CASE OpenRefused
        BY <1>12 DEF OpenRefused, TypeOK, savers, history
    <1>13. CASE UNCHANGED vars
        BY <1>13 DEF TypeOK, vars
    <1> QED BY <1>1, <1>2, <1>3, <1>4, <1>6, <1>8, <1>9, <1>10, <1>11, <1>12, <1>13 DEF Next, Mutate

(* The types of the variables, and that the deleted documents of a corpus are
   among its documents and the tombstones of its graph among theirs. *)
THEOREM Types == Spec => []TypeOK
    BY InitTypeOK, NextTypeOK, PTL DEF Spec
-----------------------------------------------------------------------------
(* Saves never go back                                                     *)

(* A corpus whose log has no record keeps the epoch of its file. *)
LEMMA OpenEpochs ==
    ASSUME TypeOK, Open
    PROVE  /\ published <= corpus'.epoch
           /\ corpus'.epoch <= published => Precedes(corpus', Parsed)
    <1>0. /\ IsCorpus(Parsed) /\ IsCorpus(Loaded) /\ SameData(Loaded, Parsed)
          /\ Loaded.epoch = IF published = -1 THEN 0 ELSE published
          /\ Readable(wal) \in Seq(Records)
        BY LoadedFacts, ReadableFacts DEF TypeOK, SameData
    <1>1. /\ Loaded.epoch <= corpus'.epoch /\ IsCorpus(corpus')
        BY OpenFacts
    <1>2. Loaded.epoch \in Nat /\ corpus'.epoch \in Nat /\ published \in Nat \cup {-1}
        BY <1>0, <1>1, CorpusFields DEF TypeOK
    <1>3. published <= corpus'.epoch
        BY <1>0, <1>1, <1>2
    <1>4. CASE Readable(wal) = <<>>
        <2>1. corpus' = Loaded
            BY <1>4 DEF Open
        <2>2. Precedes(Loaded, Parsed)
            BY <1>0, OrderFacts
        <2> QED BY <1>3, <2>1, <2>2
    <1>5. CASE Readable(wal) # <<>>
        <2>1. IsCorpus(Replayed.c) /\ Loaded.epoch <= Replayed.c.epoch
            BY <1>0, ReplayFacts DEF Replayed, IsReplayed
        <2>2. corpus'.epoch = Replayed.c.epoch + 1 /\ Replayed.c.epoch \in Nat
            BY <1>5, <2>1, BuiltFacts, CorpusFields DEF Open
        <2>3. ~(corpus'.epoch <= published)
            BY <1>0, <1>2, <2>1, <2>2
        <2> QED BY <1>3, <2>3
    <1> QED BY <1>4, <1>5

(* A change of the corpus that goes up, or changes no document. *)
Rises(c, d) ==
    /\ IsCorpus(d) /\ Precedes(c, d) /\ c.epoch <= d.epoch
    /\ d.epoch = c.epoch => SameData(d, c)

(* A mutation rises. *)
LEMMA ClimbRises ==
    ASSUME NEW c, NEW d, IsCorpus(c), IsCorpus(d), Climbs(c, d)
    PROVE  Rises(c, d)
    <1>1. c.epoch \in Nat /\ d.epoch \in Nat
        BY CorpusFields
    <1> QED BY <1>1 DEF Rises, Climbs, SameData

(* The versions are corpora, and so is what load() reads. *)
LEMMA VersionFacts ==
    ASSUME TypeOK
    PROVE  /\ \A c \in Versions : IsCorpus(c) /\ c.epoch \in Nat
           /\ IsCorpus(Parsed)
           /\ published \in Nat \cup {-1}
    <1>1. \A c \in Versions : IsCorpus(c)
        BY DEF Versions, Active, TypeOK
    <1> QED BY <1>1, CorpusFields, LoadedFacts DEF TypeOK

(* load() reads the file and nothing else. *)
LEMMA SameParsed ==
    ASSUME file' = file
    PROVE  Parsed' = Parsed
    BY DEF Parsed

(* Order survives a change of the corpus. *)
LEMMA RiseOrder ==
    ASSUME TypeOK, TypeOK', OrderInv, Rises(corpus, corpus'), mode = "up",
           UNCHANGED <<mode, file, published, pc, snap>>
    PROVE  OrderInv'
    <1> DEFINE olds == {snap[t] : t \in Active}
    <1>0. /\ Versions = {corpus} \cup olds /\ Versions' = {corpus'} \cup olds
          /\ Parsed' = Parsed /\ published' = published
        BY SameParsed DEF Versions, Active
    <1> HIDE DEF olds
    <1>1. /\ \A c \in Versions : IsCorpus(c) /\ c.epoch \in Nat
          /\ \A c \in Versions' : IsCorpus(c) /\ c.epoch \in Nat
          /\ IsCorpus(Parsed) /\ published \in Nat \cup {-1}
        <2>1. \A c \in Versions' : IsCorpus(c)
            BY <1>0, VersionFacts DEF TypeOK
        <2> QED BY <2>1, VersionFacts, CorpusFields
    <1>2. /\ published <= corpus.epoch
          /\ \A c, d \in Versions : c.epoch <= d.epoch => Precedes(c, d)
          /\ \A c \in Versions :
               /\ c.epoch <= corpus.epoch
               /\ published <= c.epoch => Precedes(Parsed, c)
               /\ c.epoch <= published => Precedes(c, Parsed)
        BY DEF OrderInv
    <1>3. /\ corpus.epoch <= corpus'.epoch /\ Precedes(corpus, corpus')
          /\ corpus.epoch \in Nat /\ corpus'.epoch \in Nat
          /\ IsCorpus(corpus) /\ IsCorpus(corpus')
        BY <1>0, <1>1 DEF Rises
    <1>4. corpus'.epoch = corpus.epoch => Precedes(corpus', corpus)
        BY <1>3, OrderFacts DEF Rises
    <1>5. published <= corpus'.epoch
        BY <1>1, <1>2, <1>3
    <1>6. ASSUME NEW c \in olds
          PROVE  /\ Precedes(c, corpus') /\ c.epoch <= corpus'.epoch
                 /\ corpus'.epoch <= c.epoch => Precedes(corpus', c)
        <2>1. c \in Versions /\ corpus \in Versions
            BY <1>0
        <2>2. c.epoch <= corpus.epoch /\ Precedes(c, corpus) /\ IsCorpus(c) /\ c.epoch \in Nat
            BY <1>1, <1>2, <2>1
        <2>3. Precedes(c, corpus') /\ c.epoch <= corpus'.epoch
            BY <1>3, <2>2, OrderFacts
        <2>4. ASSUME corpus'.epoch <= c.epoch PROVE Precedes(corpus', c)
            <3>1. corpus'.epoch = corpus.epoch /\ corpus.epoch <= c.epoch
                BY <1>3, <2>2, <2>4
            <3>2. Precedes(corpus', corpus) /\ Precedes(corpus, c)
                BY <1>2, <1>4, <2>1, <3>1
            <3> QED BY <1>3, <2>2, <3>2, OrderFacts
        <2> QED BY <2>3, <2>4
    <1>7. Precedes(corpus', corpus')
        BY <1>3, OrderFacts DEF SameData
    <1>8. \A c, d \in Versions' : c.epoch <= d.epoch => Precedes(c, d)
        BY <1>0, <1>2, <1>6, <1>7
    <1>9. \A c \in Versions' : c.epoch <= corpus'.epoch
        BY <1>0, <1>3, <1>6
    <1>10. Precedes(Parsed, corpus')
        <2>1. Precedes(Parsed, corpus)
            BY <1>0, <1>2
        <2> QED BY <1>1, <1>3, <2>1, OrderFacts
    <1>11. corpus'.epoch <= published => Precedes(corpus', Parsed)
        <2> SUFFICES ASSUME corpus'.epoch <= published PROVE Precedes(corpus', Parsed)
            OBVIOUS
        <2>1. corpus'.epoch = corpus.epoch /\ corpus.epoch <= published
            BY <1>1, <1>2, <1>3
        <2>2. Precedes(corpus', corpus) /\ Precedes(corpus, Parsed)
            BY <1>0, <1>2, <1>4, <2>1
        <2> QED BY <1>1, <1>3, <2>2, OrderFacts
    <1> QED BY <1>0, <1>2, <1>5, <1>8, <1>9, <1>10, <1>11 DEF OrderInv

(* Order survives a saver that comes or goes. *)
LEMMA FewerOrder ==
    ASSUME TypeOK, OrderInv, Versions' \subseteq Versions, mode = "up",
           UNCHANGED <<mode, corpus, file, published>>
    PROVE  OrderInv'
    <1>1. Parsed' = Parsed
        BY SameParsed
    <1> QED BY <1>1 DEF OrderInv

(* What is published is one of the versions. *)
LEMMA PublishOrder ==
    ASSUME TypeOK, TypeOK', OrderInv, SavedInv, NEW t \in Savers, Publish(t)
    PROVE  /\ OrderInv' /\ SavedInv'
           /\ file # NoFile => Mutations(file') >= Mutations(file)
    <1>0. /\ mode = "up" /\ t \in Active /\ snap[t] \in Versions /\ corpus \in Versions
          /\ UNCHANGED <<mode, corpus, snap>> /\ pc' = [pc EXCEPT ![t] = "saved"]
          /\ pc[t] = "snapped"
        BY DEF Publish, Active, Versions, TypeOK
    <1>1. Versions' = Versions
        <2>1. Active' = Active
            BY <1>0 DEF Active, TypeOK
        <2> QED BY <1>0, <2>1 DEF Versions
    <1>2. /\ \A c \in Versions : IsCorpus(c) /\ c.epoch \in Nat
          /\ IsCorpus(Parsed) /\ published \in Nat \cup {-1}
        BY VersionFacts
    <1>3. CASE Superseded(snap[t])
        <2>1. UNCHANGED <<file, published>>
            BY <1>3 DEF Publish
        <2>2. OrderInv'
            BY <1>0, <1>1, <2>1, FewerOrder
        <2>3. snap[t].epoch <= published
            BY <1>0, <1>2, <1>3 DEF Superseded
        <2>4. SavedInv'
            BY <1>0, <2>1, <2>3 DEF SavedInv, TypeOK
        <2>5. ASSUME file # NoFile PROVE Mutations(file') >= Mutations(file)
            <3>1. IsCorpus(file) /\ Precedes(file, file)
                BY <2>5, OrderFacts DEF TypeOK, SameData
            <3>2. Mutations(file) \in Nat
                BY <3>1, OrderCounts
            <3> QED BY <2>1, <3>2
        <2> QED BY <2>2, <2>4, <2>5
    <1>4. CASE ~Superseded(snap[t])
        <2>1. file' = snap[t] /\ published' = snap[t].epoch /\ published <= snap[t].epoch
            BY <1>0, <1>2, <1>4 DEF Publish, Superseded
        <2>2. SameData(Parsed', snap[t]) /\ IsCorpus(Parsed')
            <3>1. file' # NoFile
                BY <1>0, <1>2, <2>1, CorpusFields
            <3>2. /\ IsCorpus(Parsed') /\ Parsed'.docs = file'.docs /\ Parsed'.deleted = file'.deleted
                <4>1. (IsCorpus(Parsed) /\ (file # NoFile => Parsed.docs = file.docs /\ Parsed.deleted = file.deleted))'
                    BY LoadedFacts, PTL
                <4> QED BY <3>1, <4>1
            <3> QED BY <2>1, <3>2 DEF SameData
        <2>3. Precedes(Parsed', snap[t]) /\ Precedes(snap[t], Parsed')
            BY <2>2, <1>0, <1>2, OrderFacts DEF SameData
        <2>4. ASSUME NEW c \in Versions
              PROVE  /\ snap[t].epoch <= c.epoch => Precedes(Parsed', c)
                     /\ c.epoch <= snap[t].epoch => Precedes(c, Parsed')
            <3>1. /\ snap[t].epoch <= c.epoch => Precedes(snap[t], c)
                  /\ c.epoch <= snap[t].epoch => Precedes(c, snap[t])
                BY <1>0 DEF OrderInv
            <3> QED BY <1>0, <1>2, <2>2, <2>3, <3>1, OrderFacts
        <2>5. OrderInv'
            BY <1>0, <1>1, <2>1, <2>4 DEF OrderInv
        <2>6. SavedInv'
            <3>1. ASSUME NEW s \in Savers, pc'[s] = "saved" PROVE snap[s].epoch <= snap[t].epoch
                <4>1. CASE s = t
                    BY <1>0, <1>2, <4>1
                <4>2. CASE s # t
                    <5>1. snap[s].epoch <= published /\ snap[s] \in Versions
                        BY <1>0, <3>1, <4>2 DEF SavedInv, TypeOK, Versions, Active
                    <5> QED BY <1>0, <1>2, <2>1, <5>1
                <4> QED BY <4>1, <4>2
            <3> QED BY <1>0, <2>1, <3>1 DEF SavedInv
        <2>7. ASSUME file # NoFile PROVE Mutations(file') >= Mutations(file)
            <3>1. Precedes(Parsed, snap[t])
                BY <1>0, <2>1 DEF OrderInv
            <3>2. Mutations(Parsed) = Mutations(file)
                BY <2>7, LoadedFacts DEF Mutations
            <3>3. Mutations(Parsed) <= Mutations(snap[t]) /\ Mutations(Parsed) \in Nat /\ Mutations(snap[t]) \in Nat
                BY <1>0, <1>2, <3>1, OrderCounts
            <3> QED BY <2>1, <3>2, <3>3
        <2> QED BY <2>5, <2>6, <2>7
    <1> QED BY <1>3, <1>4

(* The mutations of a file can be counted. *)
LEMMA FileCounts ==
    ASSUME TypeOK, file # NoFile
    PROVE  Mutations(file) \in Nat
    <1>1. IsCorpus(file) /\ Precedes(file, file)
        BY OrderFacts DEF TypeOK, SameData
    <1> QED BY <1>1, OrderCounts

(* The inductive invariant of the saves. *)
SaveInv == OrderInv /\ SavedInv

(* It holds initially ... *)
LEMMA InitSaveInv == Init => SaveInv
    <1> SUFFICES ASSUME Init PROVE SaveInv
        OBVIOUS
    <1>1. Versions = {Empty} /\ published = -1 /\ corpus = Empty /\ file = NoFile
        BY DEF Init, Versions, Active
    <1>2. Precedes(Empty, Empty) /\ Empty.epoch = 0 /\ IsCorpus(Empty)
        BY EmptyFacts, OrderFacts DEF SameData
    <1>3. Parsed = Empty
        BY <1>1 DEF Parsed
    <1>4. OrderInv
        BY <1>1, <1>2, <1>3 DEF OrderInv
    <1> QED BY <1>4 DEF SaveInv, SavedInv, Init

(* ... and is kept by every step, and the file does not go back. *)
LEMMA NextSaveInv ==
    ASSUME TypeOK, TypeOK', SaveInv, [Next]_vars
    PROVE  SaveInv' /\ (file # NoFile => Mutations(file') >= Mutations(file))
    <1>0. OrderInv /\ SavedInv
        BY DEF SaveInv
    <1>a. ASSUME file' = file, OrderInv', SavedInv'
          PROVE  SaveInv' /\ (file # NoFile => Mutations(file') >= Mutations(file))
        BY <1>a, FileCounts DEF SaveInv
    <1>b. ASSUME mode = "up", IsCorpus(corpus'), Rises(corpus, corpus'), UNCHANGED <<mode, file, published, pc, snap>>
          PROVE  SaveInv' /\ (file # NoFile => Mutations(file') >= Mutations(file))
        <2>1. OrderInv'
            BY <1>0, <1>b, RiseOrder
        <2>2. SavedInv'
            BY <1>0, <1>b DEF SavedInv
        <2> QED BY <1>a, <1>b, <2>1, <2>2
    <1>1. CASE Mutate
        <2>1. PICK u, t, s, outs :
                u \in Uris /\ t \in Texts \cup {NoText} /\ Works(s, u, t) /\ Mutated(s, u, t, outs)
            BY <1>1, MutationKinds
        <2>2. IsWork(s) /\ Climbs(corpus, s.c)
            BY <2>1, WorksFacts
        <2>3. Rises(corpus, corpus') /\ IsCorpus(corpus')
            BY <2>1, <2>2, ClimbRises DEF Mutated, IsWork, TypeOK
        <2>4. mode = "up" /\ UNCHANGED <<mode, file, published, pc, snap>>
            BY <2>1 DEF Mutated, savers
        <2> QED BY <1>b, <2>3, <2>4
    <1>2. CASE Build
        <2>1. /\ IsCorpus(corpus') /\ SameData(corpus', corpus)
              /\ corpus'.epoch \in {corpus.epoch, corpus.epoch + 1}
              /\ UNCHANGED <<mode, file, published, pc, snap>> /\ mode = "up"
            BY <1>2, BuildFacts DEF savers, Build
        <2>2. corpus.epoch \in Nat /\ IsCorpus(corpus)
            BY CorpusFields DEF TypeOK
        <2>3. Precedes(corpus, corpus')
            BY <2>1, <2>2, OrderFacts DEF SameData
        <2>4. Rises(corpus, corpus')
            BY <2>1, <2>2, <2>3 DEF Rises
        <2> QED BY <1>b, <2>1, <2>4
    <1>3. ASSUME NEW t \in Savers, NEW kind \in {"save", "checkpoint"}, Snapshot(t, kind)
          PROVE  SaveInv' /\ (file # NoFile => Mutations(file') >= Mutations(file))
        <2>1. mode = "up" /\ UNCHANGED <<mode, corpus, file, published>>
            BY <1>3 DEF Snapshot
        <2>2. Versions' \subseteq Versions
            BY <1>3, <2>1, SnapshotFacts DEF Versions, Active
        <2>3. OrderInv'
            BY <1>0, <2>1, <2>2, FewerOrder
        <2>4. SavedInv'
            BY <1>0, <1>3, <2>1, SnapshotFacts DEF SavedInv
        <2> QED BY <1>a, <2>1, <2>3, <2>4
    <1>4. ASSUME NEW t \in Savers, Publish(t)
          PROVE  SaveInv' /\ (file # NoFile => Mutations(file') >= Mutations(file))
        BY <1>0, <1>4, PublishOrder DEF SaveInv
    <1>5. ASSUME NEW t \in Savers, PublishFails(t) \/ SaveReturns(t) \/ TruncateFails(t) \/ Truncate(t)
          PROVE  SaveInv' /\ (file # NoFile => Mutations(file') >= Mutations(file))
        <2>1. /\ AtRest(t) /\ UNCHANGED <<mode, corpus, file, published>>
              /\ pc[t] # "idle"
            BY <1>5 DEF PublishFails, SaveReturns, TruncateFails, Truncate, TypeOK
        <2>2. mode = "up"
            BY <2>1 DEF TypeOK
        <2>3. Versions' \subseteq Versions
            BY <2>1, AtRestFacts DEF Versions, Active
        <2>4. OrderInv'
            BY <1>0, <2>1, <2>2, <2>3, FewerOrder
        <2>5. SavedInv'
            BY <1>0, <2>1, AtRestFacts DEF SavedInv
        <2> QED BY <1>a, <2>1, <2>4, <2>5
    <1>6. CASE Crash \/ Close \/ \E u \in Uris : CrashInUpsert(u)
        <2>1. Down
            BY <1>6 DEF Crash, Close, CrashInUpsert
        <2>2. /\ \A s \in Savers : pc'[s] = "idle"
              /\ mode' = "down" /\ file' = file
            BY <2>1, DownFacts
        <2> QED BY <1>a, <2>2 DEF OrderInv, SavedInv
    <1>7. CASE Open
        <2>1. /\ \A s \in Savers : pc'[s] = "idle" /\ file' = file /\ published' = published
              /\ file' = file
            BY <1>7 DEF Open, savers, TypeOK
        <2>2. Versions' = {corpus'} /\ Parsed' = Parsed
            BY <2>1, <1>7, SameParsed DEF Versions, Active, Open
        <2>3. /\ published <= corpus'.epoch
              /\ corpus'.epoch <= published => Precedes(corpus', Parsed)
              /\ Precedes(Parsed, corpus')
              /\ IsCorpus(corpus')
            BY <1>7, OpenEpochs, OpenFacts
        <2>4. Precedes(corpus', corpus') /\ corpus'.epoch <= corpus'.epoch
            BY <2>3, OrderFacts, CorpusFields DEF SameData
        <2>5. OrderInv' /\ SavedInv'
            BY <1>7, <2>1, <2>2, <2>3, <2>4 DEF OrderInv, SavedInv, Open
        <2> QED BY <1>a, <2>1, <2>5
    <1>8. CASE OpenRefused
        <2>1. /\ file' = file /\ mode' = "refused" /\ UNCHANGED <<pc, snap, published>>
            BY <1>8 DEF OpenRefused, savers
        <2> QED BY <1>0, <1>a, <2>1 DEF OrderInv, SavedInv
    <1>9. CASE UNCHANGED vars
        <2>1. UNCHANGED <<mode, corpus, file, published, pc, snap>>
            BY <1>9 DEF vars
        <2>2. OrderInv' /\ SavedInv'
            BY <1>0, <2>1 DEF OrderInv, SavedInv, Versions, Active, Parsed
        <2> QED BY <1>a, <2>1, <2>2
    <1> QED BY <1>1, <1>2, <1>3, <1>4, <1>5, <1>6, <1>7, <1>8, <1>9 DEF Next, Mutate

(* Whenever save() has reported success, the file holds the state of that
   call or a newer one. *)
LEMMA SaveInvSays ==
    ASSUME TypeOK, SaveInv
    PROVE  SavedIsOnDisk
    <1> SUFFICES ASSUME NEW t \in Savers, pc[t] = "saved"
                 PROVE  file # NoFile /\ Mutations(file) >= Mutations(snap[t])
        BY DEF SavedIsOnDisk
    <1>1. /\ mode = "up" /\ snap[t] \in Versions /\ snap[t].epoch <= published
        BY DEF TypeOK, Versions, Active, SaveInv, SavedInv
    <1>2. /\ IsCorpus(snap[t]) /\ snap[t].epoch \in Nat /\ IsCorpus(Parsed)
        BY <1>1, VersionFacts
    <1>3. file # NoFile
        BY <1>1, <1>2 DEF TypeOK
    <1>4. Precedes(snap[t], Parsed)
        BY <1>1 DEF SaveInv, OrderInv
    <1>5. Mutations(snap[t]) <= Mutations(Parsed) /\ Mutations(snap[t]) \in Nat /\ Mutations(Parsed) \in Nat
        BY <1>2, <1>4, OrderCounts
    <1>6. Mutations(Parsed) = Mutations(file)
        BY <1>3, LoadedFacts DEF Mutations
    <1> QED BY <1>3, <1>5, <1>6

(* Epochs order the versions of a corpus and its file. *)
LEMMA SavesOrdered == Spec => [](TypeOK /\ SaveInv)
    <1>1. TypeOK /\ SaveInv /\ [Next]_vars => TypeOK' /\ SaveInv'
        BY NextTypeOK, NextSaveInv
    <1> QED BY InitTypeOK, InitSaveInv, <1>1, PTL DEF Spec

(* When save() has reported success the file holds the state of the call or
   a newer one: any number of threads, reopenings in one process included. *)
THEOREM SavesAreOnDisk == Spec => []SavedIsOnDisk
    <1>1. TypeOK /\ SaveInv => SavedIsOnDisk
        BY SaveInvSays
    <1> QED BY SavesOrdered, <1>1, PTL

(* Corpus::save() drops a snapshot that is older than what reached the path:
   no step replaces the file by an older one. *)
THEOREM SavesNeverGoBack == Spec => FileNeverGoesBack
    <1>1. TypeOK /\ TypeOK' /\ SaveInv /\ [Next]_vars =>
            [file # NoFile => Mutations(file') >= Mutations(file)]_vars
        BY NextSaveInv
    <1> QED BY SavesOrdered, <1>1, PTL DEF Spec, FileNeverGoesBack
-----------------------------------------------------------------------------
(* A mutation and the log                                                  *)

(* What a restart would make of a log. *)
Recovered(log) == ReplayOver(Loaded, Readable(log))

(* Replaying any log leaves a corpus. *)
LEMMA RecoveredFacts ==
    ASSUME TypeOK, NEW log \in Seq(Records \cup {Torn})
    PROVE  IsReplayed(Recovered(log)) /\ IsCorpus(Recovered(log).c) /\ Recovered(log).ok \in BOOLEAN
    <1>1. IsCorpus(Loaded) /\ Readable(log) \in Seq(Records)
        BY LoadedFacts, ReadableFacts
    <1> QED BY <1>1, ReplayFacts DEF Recovered, IsReplayed

(* A frame that cannot be read, or is behind one, is as if it were not there. *)
Lost(log, record) == TornAt(log) # {} \/ record = Torn

(* A record appended to the log and what a restart then makes of it. *)
LEMMA LogStep ==
    ASSUME TypeOK, NEW log \in Seq(Records \cup {Torn}), NEW record \in Records \cup {Torn}
    PROVE  /\ Lost(log, record) =>
                /\ TornAt(Append(log, record)) # {}
                /\ Readable(Append(log, record)) = Readable(log)
                /\ Recovered(Append(log, record)) = Recovered(log)
           /\ ~Lost(log, record) =>
                /\ TornAt(Append(log, record)) = {} /\ record \in Records
                /\ Readable(Append(log, record)) = Append(Readable(log), record)
                /\ Recovered(Append(log, record)) = ReplayRecord(Recovered(log), record)
    <1>0. IsCorpus(Loaded) /\ Readable(log) \in Seq(Records)
        BY LoadedFacts, ReadableFacts
    <1>1. CASE Lost(log, record)
        BY <1>1, ReadableAppend DEF Lost, Recovered
    <1>2. CASE ~Lost(log, record)
        <2>1. /\ TornAt(Append(log, record)) = {} /\ record \in Records
              /\ Readable(Append(log, record)) = Append(Readable(log), record)
            BY <1>2, ReadableAppend DEF Lost
        <2>2. ReplayOver(Loaded, Append(Readable(log), record)) =
                    ReplayRecord(ReplayOver(Loaded, Readable(log)), record)
            BY <1>0, <2>1, ReplayAppend
        <2> QED BY <1>2, <2>1, <2>2 DEF Recovered
    <1> QED BY <1>1, <1>2

(* A record about u, as a mutation of u writes it when its corpus is c. *)
About(record, c, u) ==
    \/ \E t \in Texts : record = AddRecord(u, t)
    \/ \E id \in Named(c, u) : record = RemoveRecord(id)

(* Records about a document are records. *)
LEMMA AboutFacts ==
    ASSUME NEW c, IsCorpus(c), NEW u \in Uris, NEW record, About(record, c, u)
    PROVE  /\ record \in Records
           /\ record.op = "remove_document" \/ (record.op = "add_document" /\ record.uri = u)
    <1>1. ASSUME NEW t \in Texts, record = AddRecord(u, t)
          PROVE  record \in Records /\ record.op = "add_document" /\ record.uri = u
        BY <1>1 DEF AddRecord, Records
    <1>2. ASSUME NEW id \in Named(c, u), record = RemoveRecord(id)
          PROVE  record \in Records /\ record.op = "remove_document"
        <2>1. id \in Nat
            BY CorpusFields DEF Named
        <2> QED BY <1>2, <2>1 DEF RemoveRecord, Records
    <1> QED BY <1>1, <1>2, Zenon DEF About

(* Replaying a record about u changes no document of another name that the
   recovered corpus and the running one agree on. *)
LEMMA ReplayElsewhere ==
    ASSUME NEW z, IsReplayed(z), NEW c, IsCorpus(c), NEW u \in Uris, NEW record, About(record, c, u),
           NEW r, r = ReplayRecord(z, record), r.ok,
           NEW v, v # u
    PROVE  /\ z.ok
           /\ AgreeOn(z.c, c, v) \/ record.op # "remove_document" => AgreeOn(r.c, z.c, v)
    <1>0. record \in Records
        BY AboutFacts
    <1>1. z.ok
        BY <1>0, ReplayStep
    <1>2. ASSUME NEW t \in Texts, record = AddRecord(u, t)
          PROVE  AgreeOn(r.c, z.c, v)
        <2>1. r = ReplayRecord(z, AddRecord(u, t))
            BY <1>2
        <2> QED BY <1>1, <2>1, AdditionEffects
    <1>3. ASSUME NEW id \in Named(c, u), record = RemoveRecord(id), AgreeOn(z.c, c, v)
          PROVE  AgreeOn(r.c, z.c, v)
        <2>1. id \in Nat /\ c.docs[id].uri = u
            BY CorpusFields DEF Named
        <2>2. id \notin Named(c, v)
            BY <2>1 DEF Named
        <2>3. id \in DOMAIN z.c.docs => z.c.docs[id].uri # v
            BY <1>3, <2>2 DEF AgreeOn, Named
        <2>4. r = ReplayRecord(z, RemoveRecord(id))
            BY <1>3
        <2> QED BY <2>1, <2>3, <2>4, RemovalEffects
    <1>4. ASSUME NEW id \in Named(c, u), record = RemoveRecord(id)
          PROVE  record.op = "remove_document"
        BY <1>4 DEF RemoveRecord
    <1> QED BY <1>1, <1>2, <1>3, <1>4 DEF About

(* A step of a mutation of u. *)
Step(s, r, u) ==
    \/ Idles(s, r)
    \/ \E t \in Texts : /\ Takes(s, r, AddRecord(u, t), Added(s.c, u, t))
                        /\ Len(s.c.docs) < MaxDocuments /\ Fits(s.c, t)
    \/ \E id \in Named(s.c, u) : Takes(s, r, RemoveRecord(id), Removed(s.c, id))
    \/ \E record : About(record, s.c, u) /\ Strays(s, r, record)

(* How far a mutation of u got: it left the other documents alone, in memory
   and in the log, and while it is clean the log has what memory has. *)
Torns(s) ==
    /\ TornAt(wal) # {} => TornAt(s.wal) # {}
    /\ s.clean /\ TornAt(wal) = {} => TornAt(s.wal) = {}

(* The log has the records it had, and records about u. *)
Extends(s, u) ==
    /\ Len(wal) <= Len(s.wal)
    /\ Len(Readable(wal)) <= Len(Readable(s.wal))
    /\ \A i \in DOMAIN Readable(s.wal) :
         IF i \in DOMAIN Readable(wal) THEN Readable(s.wal)[i] = Readable(wal)[i]
         ELSE \/ Readable(s.wal)[i].op = "remove_document"
              \/ Readable(s.wal)[i].op = "add_document" /\ Readable(s.wal)[i].uri = u

(* Memory and log treat the other protected documents alike. *)
Elsewhere(s, u) ==
    \A v \in Protected \ {u} :
        /\ AgreeOn(s.c, corpus, v)
        /\ ~overlapping /\ Recovered(s.wal).ok => AgreeOn(Recovered(s.wal).c, s.c, v)
        /\ Recovered(s.wal).ok /\ ~Removes(Readable(s.wal)) =>
             Recovered(wal).ok /\ AgreeOn(Recovered(s.wal).c, Recovered(wal).c, v)

(* While nothing went wrong the log has what memory has. *)
Follows(s) ==
    ~overlapping /\ ~diverged /\ s.clean =>
        Recovered(s.wal).ok /\ Recovered(s.wal).c.docs = s.c.docs

(* All of it. *)
Progress(s, u) == IsWork(s) /\ Torns(s) /\ Extends(s, u) /\ Elsewhere(s, u) /\ Follows(s)

(* The invariant says it of a mutation that begins ... *)
LEMMA ProgressBegins ==
    ASSUME TypeOK, RestartInv, mode = "up", NEW u
    PROVE  Progress(Begun, u)
    <1>0. IsWork(Begun) /\ Begun.wal = wal /\ Begun.c = corpus /\ Begun.clean
        BY BegunFacts
    <1>1. Replayed = Recovered(wal)
        BY DEF Replayed, Recovered
    <1>2. LogFollows
        BY DEF RestartInv
    <1>3. Torns(Begun)
        BY <1>0 DEF Torns
    <1>4. Extends(Begun, u)
        <2>1. Len(wal) \in Nat /\ Len(Readable(wal)) \in Nat
            BY ReadableFacts DEF TypeOK
        <2> QED BY <1>0, <2>1 DEF Extends
    <1>5. Elsewhere(Begun, u)
        <2> SUFFICES ASSUME NEW v \in Protected \ {u}
                     PROVE  /\ AgreeOn(corpus, corpus, v)
                            /\ ~overlapping /\ Recovered(wal).ok => AgreeOn(Recovered(wal).c, corpus, v)
                            /\ AgreeOn(Recovered(wal).c, Recovered(wal).c, v)
            BY <1>0, Zenon DEF Elsewhere
        <2> QED BY <1>1, <1>2, AgreeFacts DEF LogFollows, SameData
    <1>6. Follows(Begun)
        BY <1>0, <1>1, <1>2 DEF Follows, LogFollows
    <1> QED BY <1>0, <1>3, <1>4, <1>5, <1>6 DEF Progress
(* A frame about u at the end of the log. *)
LEMMA AppendProgress ==
    ASSUME TypeOK, NEW u \in Uris, NEW s, Progress(s, u), NEW r, IsWork(r),
           NEW record \in Records \cup {Torn}, record = Torn \/ About(record, s.c, u),
           r.wal = Append(s.wal, record), r.clean => s.clean /\ record # Torn
    PROVE  /\ Torns(r) /\ Extends(r, u)
           /\ \A v \in Protected \ {u} :
                /\ ~overlapping /\ Recovered(r.wal).ok => AgreeOn(Recovered(r.wal).c, s.c, v)
                /\ Recovered(r.wal).ok /\ ~Removes(Readable(r.wal)) =>
                     Recovered(wal).ok /\ AgreeOn(Recovered(r.wal).c, Recovered(wal).c, v)
    <1>0. /\ s.wal \in Seq(Records \cup {Torn}) /\ IsCorpus(s.c) /\ wal \in Seq(Records \cup {Torn})
          /\ s.clean \in BOOLEAN /\ r.clean \in BOOLEAN
          /\ Torns(s) /\ Extends(s, u) /\ Elsewhere(s, u)
        BY DEF Progress, IsWork, TypeOK
    <1>1. /\ Readable(s.wal) \in Seq(Records) /\ Readable(wal) \in Seq(Records)
          /\ Len(wal) \in Nat /\ Len(s.wal) \in Nat
        BY <1>0, ReadableFacts
    <1>2. /\ Lost(s.wal, record) =>
                /\ TornAt(r.wal) # {}
                /\ Readable(r.wal) = Readable(s.wal)
                /\ Recovered(r.wal) = Recovered(s.wal)
          /\ ~Lost(s.wal, record) =>
                /\ TornAt(r.wal) = {} /\ record \in Records
                /\ Readable(r.wal) = Append(Readable(s.wal), record)
                /\ Recovered(r.wal) = ReplayRecord(Recovered(s.wal), record)
        BY <1>0, LogStep
    <1>3. Torns(r)
        <2>1. ASSUME TornAt(wal) # {} PROVE TornAt(r.wal) # {}
            BY <1>0, <1>2, <2>1 DEF Torns, Lost
        <2>2. ASSUME r.clean, TornAt(wal) = {} PROVE TornAt(r.wal) = {}
            BY <1>0, <1>2, <2>2 DEF Torns, Lost
        <2> QED BY <2>1, <2>2 DEF Torns
    <1>4. Len(r.wal) = Len(s.wal) + 1
        BY <1>0
    <1>5. CASE Lost(s.wal, record)
        <2>1. Readable(r.wal) = Readable(s.wal) /\ Recovered(r.wal) = Recovered(s.wal)
            BY <1>2, <1>5
        <2>2. Len(wal) <= Len(r.wal)
            BY <1>0, <1>1, <1>4 DEF Extends
        <2>3. Extends(r, u)
            BY <1>0, <2>1, <2>2, Zenon DEF Extends
        <2> QED BY <1>0, <1>3, <2>1, <2>3, Zenon DEF Elsewhere
    <1>6. CASE ~Lost(s.wal, record)
        <2>0. /\ TornAt(r.wal) = {} /\ record \in Records /\ About(record, s.c, u)
              /\ Readable(r.wal) = Append(Readable(s.wal), record)
              /\ Recovered(r.wal) = ReplayRecord(Recovered(s.wal), record)
            BY <1>2, <1>6 DEF Lost
        <2>1. record.op = "remove_document" \/ (record.op = "add_document" /\ record.uri = u)
            BY <1>0, <2>0, AboutFacts
        <2>2. /\ Len(Readable(r.wal)) = Len(Readable(s.wal)) + 1
              /\ Readable(r.wal)[Len(Readable(s.wal)) + 1] = record
              /\ DOMAIN Readable(r.wal) = DOMAIN Readable(s.wal) \cup {Len(Readable(s.wal)) + 1}
              /\ \A i \in DOMAIN Readable(s.wal) : Readable(r.wal)[i] = Readable(s.wal)[i]
              /\ Len(Readable(s.wal)) \in Nat /\ Len(Readable(wal)) \in Nat
              /\ DOMAIN Readable(wal) = 1..Len(Readable(wal))
            BY <1>1, <2>0
        <2>3. Extends(r, u)
            <3>1. /\ Len(wal) <= Len(r.wal) /\ Len(Readable(wal)) <= Len(Readable(r.wal))
                  /\ Len(Readable(s.wal)) + 1 \notin DOMAIN Readable(wal)
                BY <1>0, <1>1, <1>4, <2>2 DEF Extends
            <3>2. ASSUME NEW i \in DOMAIN Readable(s.wal)
                  PROVE  IF i \in DOMAIN Readable(wal) THEN Readable(r.wal)[i] = Readable(wal)[i]
                         ELSE \/ Readable(r.wal)[i].op = "remove_document"
                              \/ Readable(r.wal)[i].op = "add_document" /\ Readable(r.wal)[i].uri = u
                <4>1. Readable(r.wal)[i] = Readable(s.wal)[i]
                    BY <2>2
                <4> QED BY <1>0, <4>1, Zenon DEF Extends
            <3>3. ASSUME NEW i, i = Len(Readable(s.wal)) + 1
                  PROVE  IF i \in DOMAIN Readable(wal) THEN Readable(r.wal)[i] = Readable(wal)[i]
                         ELSE \/ Readable(r.wal)[i].op = "remove_document"
                              \/ Readable(r.wal)[i].op = "add_document" /\ Readable(r.wal)[i].uri = u
                BY <2>1, <2>2, <3>1, <3>3
            <3>4. \A i \in DOMAIN Readable(r.wal) : i \in DOMAIN Readable(s.wal) \/ i = Len(Readable(s.wal)) + 1
                BY <2>2
            <3> HIDE <2>2
            <3> QED BY <3>1, <3>2, <3>3, <3>4, Zenon DEF Extends
        <2>4. IsReplayed(Recovered(s.wal))
            BY <1>0, RecoveredFacts
        <2>5. ASSUME NEW v \in Protected \ {u}, Recovered(r.wal).ok
              PROVE  /\ Recovered(s.wal).ok
                     /\ AgreeOn(Recovered(s.wal).c, s.c, v) \/ record.op # "remove_document"
                            => AgreeOn(Recovered(r.wal).c, Recovered(s.wal).c, v)
            <3>1. v # u /\ IsCorpus(s.c) /\ About(record, s.c, u)
                BY <1>0, <2>0
            <3>2. ASSUME NEW z, NEW y, IsReplayed(z) /\ y = ReplayRecord(z, record) /\ y.ok
                  PROVE  z.ok
                BY <3>1, <3>2, ReplayElsewhere
            <3>3. ASSUME NEW z, NEW y, IsReplayed(z) /\ y = ReplayRecord(z, record) /\ y.ok
                  PROVE  AgreeOn(z.c, s.c, v) \/ record.op # "remove_document" => AgreeOn(y.c, z.c, v)
                BY <3>1, <3>3, ReplayElsewhere
            <3> QED BY <2>0, <2>4, <2>5, <3>2, <3>3, Zenon
        <2>6. ASSUME NEW v \in Protected \ {u}, Recovered(r.wal).ok, ~overlapping
              PROVE  AgreeOn(Recovered(r.wal).c, s.c, v)
            <3>1. AgreeOn(Recovered(s.wal).c, s.c, v)
                BY <1>0, <2>5, <2>6 DEF Elsewhere
            <3>2. AgreeOn(Recovered(r.wal).c, Recovered(s.wal).c, v)
                BY <2>5, <2>6, <3>1
            <3> QED BY <3>1, <3>2, AgreeFacts
        <2>7. ASSUME NEW v \in Protected \ {u}, Recovered(r.wal).ok, ~Removes(Readable(r.wal))
              PROVE  Recovered(wal).ok /\ AgreeOn(Recovered(r.wal).c, Recovered(wal).c, v)
            <3>1. record.op # "remove_document" /\ ~Removes(Readable(s.wal))
                BY <2>2, <2>7 DEF Removes
            <3>2. Recovered(s.wal).ok /\ AgreeOn(Recovered(r.wal).c, Recovered(s.wal).c, v)
                BY <2>5, <2>7, <3>1
            <3>3. Recovered(wal).ok /\ AgreeOn(Recovered(s.wal).c, Recovered(wal).c, v)
                BY <1>0, <3>1, <3>2 DEF Elsewhere
            <3> QED BY <3>2, <3>3, AgreeFacts
        <2> QED BY <1>3, <2>3, <2>6, <2>7
    <1> QED BY <1>5, <1>6

(* ... each step of the mutation keeps it ... *)
LEMMA StepProgress ==
    ASSUME TypeOK, NEW u \in Uris, NEW s, Progress(s, u), NEW r, IsWork(r), Step(s, r, u),
           ~diverged => TornAt(wal) = {}
    PROVE  Progress(r, u)
    <1>0. /\ s.wal \in Seq(Records \cup {Torn}) /\ IsCorpus(s.c)
          /\ s.clean \in BOOLEAN /\ r.clean \in BOOLEAN
          /\ Torns(s) /\ Extends(s, u) /\ Elsewhere(s, u) /\ Follows(s)
        BY DEF Progress, IsWork
    <1>1. CASE Idles(s, r)
        <2>1. r.wal = s.wal /\ r.c = s.c /\ r.clean = s.clean
            BY <1>1 DEF Idles
        <2>2. Torns(r) /\ Follows(r)
            BY <1>0, <2>1 DEF Torns, Follows
        <2>3. Extends(r, u)
            BY <1>0, <2>1, Zenon DEF Extends
        <2>4. Elsewhere(r, u)
            BY <1>0, <2>1, Zenon DEF Elsewhere
        <2> QED BY <2>2, <2>3, <2>4 DEF Progress
    <1>2. ASSUME NEW record, About(record, s.c, u), Strays(s, r, record)
          PROVE  Progress(r, u)
        <2>1. record \in Records \cup {Torn}
            BY <1>0, <1>2, AboutFacts
        <2>2. PICK frame \in {record, Torn} : r.wal = Append(s.wal, frame)
            BY <1>2 DEF Strays
        <2>3. r.c = s.c /\ ~r.clean /\ frame \in Records \cup {Torn}
              /\ (frame = Torn \/ About(frame, s.c, u))
            BY <1>2, <2>1, <2>2 DEF Strays
        <2>4. /\ Torns(r) /\ Extends(r, u)
              /\ \A v \in Protected \ {u} :
                   /\ ~overlapping /\ Recovered(r.wal).ok => AgreeOn(Recovered(r.wal).c, s.c, v)
                   /\ Recovered(r.wal).ok /\ ~Removes(Readable(r.wal)) =>
                        Recovered(wal).ok /\ AgreeOn(Recovered(r.wal).c, Recovered(wal).c, v)
            BY <2>2, <2>3, AppendProgress
        <2>5. Elsewhere(r, u)
            BY <1>0, <2>3, <2>4 DEF Elsewhere
        <2>6. Follows(r)
            BY <2>3 DEF Follows
        <2> QED BY <2>4, <2>5, <2>6 DEF Progress
    <1>3. ASSUME NEW record, About(record, s.c, u), NEW c, Takes(s, r, record, c),
                 \A v : v # u => AgreeOn(c, s.c, v),
                 \A z : IsReplayed(z) /\ z.ok /\ z.c.docs = s.c.docs =>
                    ReplayRecord(z, record).ok /\ ReplayRecord(z, record).c.docs = c.docs
          PROVE  Progress(r, u)
        <2>1. record \in Records /\ record # Torn
            BY <1>0, <1>3, AboutFacts, CorpusAssumption
        <2>2. r.wal = Append(s.wal, record) /\ r.c = c /\ r.clean = s.clean
            BY <1>3 DEF Takes
        <2>3. record \in Records \cup {Torn} /\ (record = Torn \/ About(record, s.c, u))
              /\ (r.clean => s.clean /\ record # Torn)
            BY <1>3, <2>1, <2>2
        <2>4. /\ Torns(r) /\ Extends(r, u)
              /\ \A v \in Protected \ {u} :
                   /\ ~overlapping /\ Recovered(r.wal).ok => AgreeOn(Recovered(r.wal).c, s.c, v)
                   /\ Recovered(r.wal).ok /\ ~Removes(Readable(r.wal)) =>
                        Recovered(wal).ok /\ AgreeOn(Recovered(r.wal).c, Recovered(wal).c, v)
            BY <2>2, <2>3, AppendProgress
        <2>5. Elsewhere(r, u)
            <3>1. ASSUME NEW v \in Protected \ {u} PROVE AgreeOn(r.c, s.c, v) /\ AgreeOn(s.c, r.c, v)
                BY <1>3, <2>2, AgreeFacts
            <3>2. ASSUME NEW v \in Protected \ {u} PROVE AgreeOn(r.c, corpus, v)
                BY <1>0, <3>1, AgreeFacts DEF Elsewhere
            <3>3. ASSUME NEW v \in Protected \ {u}, ~overlapping, Recovered(r.wal).ok
                  PROVE  AgreeOn(Recovered(r.wal).c, r.c, v)
                BY <2>4, <3>1, <3>3, AgreeFacts
            <3> QED BY <2>4, <3>2, <3>3 DEF Elsewhere
        <2>6. Follows(r)
            <3> SUFFICES ASSUME ~overlapping, ~diverged, r.clean
                         PROVE  Recovered(r.wal).ok /\ Recovered(r.wal).c.docs = r.c.docs
                BY DEF Follows
            <3>1. TornAt(s.wal) = {}
                BY <1>0, <2>2 DEF Torns
            <3>2. Recovered(r.wal) = ReplayRecord(Recovered(s.wal), record)
                BY <1>0, <2>1, <2>2, <3>1, LogStep DEF Lost
            <3>3. /\ IsReplayed(Recovered(s.wal)) /\ Recovered(s.wal).ok
                  /\ Recovered(s.wal).c.docs = s.c.docs
                BY <1>0, <2>2, RecoveredFacts DEF Follows
            <3> QED BY <1>3, <2>2, <3>2, <3>3
        <2> QED BY <2>4, <2>5, <2>6 DEF Progress
    <1>4. ASSUME NEW t \in Texts, Takes(s, r, AddRecord(u, t), Added(s.c, u, t)),
                 Len(s.c.docs) < MaxDocuments, Fits(s.c, t)
          PROVE  Progress(r, u)
        <2>1. About(AddRecord(u, t), s.c, u)
            BY DEF About
        <2>2. /\ Added(s.c, u, t).docs = Append(s.c.docs, [uri |-> u, text |-> t])
              /\ Added(s.c, u, t).deleted = s.c.deleted
            BY <1>0, AddedFacts
        <2>3. \A v : v # u => AgreeOn(Added(s.c, u, t), s.c, v)
            BY <1>0, <2>2, AddedAgrees
        <2>4. ASSUME NEW z, IsReplayed(z), z.ok, z.c.docs = s.c.docs
              PROVE  /\ ReplayRecord(z, AddRecord(u, t)).ok
                     /\ ReplayRecord(z, AddRecord(u, t)).c.docs = Added(s.c, u, t).docs
            <3>1. Len(z.c.docs) < MaxDocuments /\ Fits(z.c, t)
                <4>1. Chunks(z.c) = Chunks(s.c)
                    BY <2>4 DEF Chunks, ChunksOf
                <4> QED BY <1>4, <2>4, <4>1 DEF Fits
            <3>2. /\ ReplayRecord(z, AddRecord(u, t)).ok
                  /\ ReplayRecord(z, AddRecord(u, t)).c.docs = Append(z.c.docs, [uri |-> u, text |-> t])
                BY <2>4, <3>1, ReplayAddition
            <3> QED BY <2>2, <2>4, <3>2
        <2> QED BY <1>3, <1>4, <2>1, <2>3, <2>4
    <1>5. ASSUME NEW id \in Named(s.c, u), Takes(s, r, RemoveRecord(id), Removed(s.c, id))
          PROVE  Progress(r, u)
        <2>0. id \in DOMAIN s.c.docs /\ s.c.docs[id].uri = u /\ id \in Nat
            BY <1>0, CorpusFields DEF Named
        <2>1. About(RemoveRecord(id), s.c, u)
            BY DEF About
        <2>2. /\ Removed(s.c, id).docs = s.c.docs
              /\ Removed(s.c, id).deleted = s.c.deleted \cup {id}
            BY <1>0, <2>0, RemovedFacts
        <2>3. \A v : v # u => AgreeOn(Removed(s.c, id), s.c, v)
            BY <1>0, <2>0, <2>2, RemovedAgrees
        <2>4. ASSUME NEW z, IsReplayed(z), z.ok, z.c.docs = s.c.docs
              PROVE  /\ ReplayRecord(z, RemoveRecord(id)).ok
                     /\ ReplayRecord(z, RemoveRecord(id)).c.docs = Removed(s.c, id).docs
            BY <2>0, <2>2, <2>4, ReplayRemoval
        <2> QED BY <1>3, <1>5, <2>1, <2>3, <2>4
    <1> QED BY <1>1, <1>2, <1>4, <1>5 DEF Step
(* The steps of add_document_locked() are such steps ... *)
LEMMA AddStep ==
    ASSUME NEW s, IsWork(s), NEW u \in Uris, NEW t \in Texts, NEW o \in Outcomes
    PROVE  IsWork(AddTo(s, u, t, o)) /\ Step(s, AddTo(s, u, t, o), u)
    <1>1. About(AddRecord(u, t), s.c, u)
        BY DEF About
    <1> DEFINE r == AddTo(s, u, t, o)
    <1>2. /\ IsWork(r)
          /\ \/ Idles(s, r)
             \/ /\ Takes(s, r, AddRecord(u, t), Added(s.c, u, t))
                /\ Len(s.c.docs) < MaxDocuments /\ Fits(s.c, t)
             \/ Strays(s, r, AddRecord(u, t))
        BY AddToKinds
    <1> HIDE DEF r
    <1>3. Step(s, r, u)
        BY <1>1, <1>2, Zenon DEF Step
    <1> QED BY <1>2, <1>3 DEF r

(* ... and those of remove_document_locked(). *)
LEMMA RemoveStep ==
    ASSUME NEW s, IsWork(s), NEW u \in Uris, NEW id \in Named(s.c, u), NEW o \in Outcomes
    PROVE  IsWork(RemoveFrom(s, id, o)) /\ Step(s, RemoveFrom(s, id, o), u)
    <1>1. About(RemoveRecord(id), s.c, u) /\ id \in DOMAIN s.c.docs
        BY DEF About, Named
    <1> DEFINE r == RemoveFrom(s, id, o)
    <1>2. /\ IsWork(r)
          /\ \/ Idles(s, r)
             \/ Takes(s, r, RemoveRecord(id), Removed(s.c, id))
             \/ Strays(s, r, RemoveRecord(id))
        BY <1>1, RemoveFromKinds
    <1> HIDE DEF r
    <1>3. Step(s, r, u)
        BY <1>1, <1>2, Zenon DEF Step
    <1> QED BY <1>2, <1>3 DEF r

(* The document an upsert replaces. *)
LEMMA UpsertFinds ==
    ASSUME TypeOK, NEW u, FindByUri(corpus, u) # {}
    PROVE  FirstOf(FindByUri(corpus, u)) \in FindByUri(corpus, u)
    BY FindIsIds, FirstOfIsOne DEF TypeOK

(* ... and so it is true of its end. *)
LEMMA WorksProgress ==
    ASSUME TypeOK, RestartInv, mode = "up", NEW u \in Uris, NEW t, NEW s, Works(s, u, t)
    PROVE  Progress(s, u)
    <1>0. /\ IsWork(Begun) /\ Begun.c = corpus /\ Progress(Begun, u)
          /\ ~diverged => TornAt(wal) = {}
        BY BegunFacts, ProgressBegins DEF RestartInv, LogFollows
    <1>1. \A id \in FindByUri(corpus, u) : id \in Named(Begun.c, u)
        BY <1>0 DEF FindByUri, Live, Named
    <1>2. ASSUME NEW o \in Outcomes, t \in Texts, s = AddTo(Begun, u, t, o)
          PROVE  Progress(s, u)
        BY <1>0, <1>2, AddStep, StepProgress
    <1>3. ASSUME NEW o \in Outcomes, NEW id \in FindByUri(corpus, u)
          PROVE  IsWork(RemoveFrom(Begun, id, o)) /\ Progress(RemoveFrom(Begun, id, o), u)
        BY <1>0, <1>1, RemoveStep, StepProgress
    <1>4. ASSUME NEW o1 \in Outcomes, NEW o2 \in Outcomes, t \in Texts, FindByUri(corpus, u) # {},
                 s = AddTo(RemoveFrom(Begun, FirstOf(FindByUri(corpus, u)), o1), u, t, o2)
          PROVE  Progress(s, u)
        <2> DEFINE r == RemoveFrom(Begun, FirstOf(FindByUri(corpus, u)), o1)
        <2>1. IsWork(r) /\ Progress(r, u) /\ s = AddTo(r, u, t, o2)
            BY <1>3, <1>4, UpsertFinds
        <2> HIDE DEF r
        <2> QED BY <1>0, <1>4, <2>1, AddStep, StepProgress
    <1> QED BY <1>2, <1>3, <1>4 DEF Works

(* Two documents of a name are more than one. *)
LEMMA TwoFound ==
    ASSUME NEW c, IsCorpus(c), NEW u \in Uris, NEW t \in Texts,
           ~(Cardinality(FindByUri(Added(c, u, t), u)) > 1)
    PROVE  FindByUri(c, u) = {}
    <1> DEFINE F == FindByUri(c, u)
               x == Len(c.docs) + 1
    <1>1. FindByUri(Added(c, u, t), u) = F \cup {x} /\ x \notin F
        <2>1. /\ Added(c, u, t).docs = Append(c.docs, [uri |-> u, text |-> t])
              /\ Added(c, u, t).deleted = c.deleted
            BY AddedFacts
        <2> QED BY <2>1, AddedAgrees
    <1>2. IsFiniteSet(F)
        <2>1. F \subseteq 1..Len(c.docs) /\ Len(c.docs) \in Nat
            BY FindIsIds, CorpusFields
        <2>2. IsFiniteSet(1..Len(c.docs))
            BY <2>1, FS_Interval
        <2> QED BY <2>1, <2>2, FS_Subset
    <1>3. Cardinality(F \cup {x}) = Cardinality(F) + 1 /\ Cardinality(F) \in Nat
        BY <1>1, <1>2, FS_AddElement, FS_CardinalityType
    <1>4. Cardinality(F) = 0
        BY <1>1, <1>3
    <1> QED BY <1>2, <1>4, FS_EmptySet

(* A mutation that leaves u protected did nothing, or did all it should and
   is in the log, where no record is lost, with no checkpoint under way. *)
NothingDone(s) == s.c = corpus /\ s.wal = wal /\ ~s.ok

(* A document was added and none of that name was there. *)
AddDone(s, u, t) ==
    /\ t \in Texts /\ FindByUri(corpus, u) = {}
    /\ s.wal = Append(wal, AddRecord(u, t)) /\ s.c = Added(corpus, u, t)

(* An upsert replaced the only document of that name. *)
ReplaceDone(s, u, t) ==
    /\ t \in Texts
    /\ \E id : /\ FindByUri(corpus, u) = {id}
               /\ s.wal = Append(Append(wal, RemoveRecord(id)), AddRecord(u, t))
               /\ s.c = Added(Removed(corpus, id), u, t)

(* The only document of that name was removed. *)
RemoveDone(s, u, t) ==
    /\ t = NoText
    /\ \E id : /\ FindByUri(corpus, u) = {id}
               /\ s.wal = Append(wal, RemoveRecord(id)) /\ s.c = Removed(corpus, id)

(* One of them, with an intact log. *)
AllDone(s, u, t) ==
    /\ s.ok /\ s.clean /\ ~diverged /\ ~CheckpointUnderway
    /\ AddDone(s, u, t) \/ ReplaceDone(s, u, t) \/ RemoveDone(s, u, t)

(* What serves a text has at most one document of that name. *)
LEMMA FoundIsOne ==
    ASSUME NEW c, NEW u, NEW t, Serves(c, u, t)
    PROVE  \A i, j \in FindByUri(c, u) : i = j
    BY DEF Serves

(* These are all the mutations after which u is protected. *)
LEMMA ProtectedMutation ==
    ASSUME TypeOK, RestartInv, NEW u \in Uris, NEW t, NEW s, NEW outs,
           Works(s, u, t), Mutated(s, u, t, outs), u \notin unprotected'
    PROVE  u \in Protected /\ (NothingDone(s) \/ AllDone(s, u, t))
    <1>0. /\ IsWork(Begun) /\ Begun.wal = wal /\ Begun.c = corpus /\ Begun.ok = TRUE /\ Begun.clean = TRUE
          /\ IsCorpus(corpus) /\ mode = "up"
        BY BegunFacts DEF TypeOK, Mutated
    <1>1. IsWork(s) /\ s.ok \in BOOLEAN /\ s.clean \in BOOLEAN
        BY WorksFacts DEF IsWork
    <1>2. /\ u \in Protected
          /\ ~s.ok => s.clean /\ s.c = corpus
          /\ s.ok => ~diverged /\ s.clean /\ ~CheckpointUnderway
          /\ ~(Cardinality(FindByUri(s.c, u)) > 1)
        <2> DEFINE bad == \/ ~s.ok /\ ~(s.clean /\ s.c = corpus)
                          \/ s.ok /\ (diverged' \/ CheckpointUnderway)
                          \/ Cardinality(FindByUri(s.c, u)) > 1
        <2>1. unprotected' = IF bad THEN unprotected \cup {u} ELSE unprotected
            BY DEF Mutated
        <2>2. diverged' = (diverged \/ ~s.clean)
            BY DEF Mutated
        <2>3. ~bad /\ u \notin unprotected
            BY <2>1
        <2> QED BY <1>1, <2>2, <2>3 DEF Protected
    <1>3. \A i, j \in FindByUri(corpus, u) : i = j
        BY <1>0, <1>2, FoundIsOne DEF RestartInv, UpServes
    <1>4. ASSUME NEW o \in Outcomes, t \in Texts, s = AddTo(Begun, u, t, o)
          PROVE  NothingDone(s) \/ AllDone(s, u, t)
        <2>1. \/ Idles(Begun, s)
              \/ Takes(Begun, s, AddRecord(u, t), Added(corpus, u, t))
              \/ Strays(Begun, s, AddRecord(u, t))
            BY <1>0, <1>4, AddToKinds
        <2>2. ~Strays(Begun, s, AddRecord(u, t))
            BY <1>2 DEF Strays
        <2>3. CASE Idles(Begun, s)
            BY <1>0, <2>3 DEF Idles, NothingDone
        <2>4. CASE Takes(Begun, s, AddRecord(u, t), Added(corpus, u, t))
            <3>1. /\ s.ok /\ s.clean /\ s.c = Added(corpus, u, t)
                  /\ s.wal = Append(wal, AddRecord(u, t))
                BY <1>0, <2>4 DEF Takes
            <3>2. FindByUri(corpus, u) = {}
                BY <1>0, <1>2, <1>4, <3>1, TwoFound
            <3> QED BY <1>2, <1>4, <3>1, <3>2 DEF AllDone, AddDone
        <2> QED BY <2>1, <2>2, <2>3, <2>4
    <1>5. ASSUME NEW o \in Outcomes, NEW id \in FindByUri(corpus, u)
          PROVE  LET r == RemoveFrom(Begun, id, o)
                 IN  /\ IsWork(r)
                     /\ \/ r.c = corpus /\ r.wal = wal /\ ~r.ok
                        \/ /\ r.wal = Append(wal, RemoveRecord(id)) /\ r.c = Removed(corpus, id)
                           /\ r.ok /\ r.clean
                        \/ ~r.ok /\ ~r.clean
        <2>1. id \in DOMAIN Begun.c.docs
            BY <1>0, FindIsIds
        <2> DEFINE r == RemoveFrom(Begun, id, o)
        <2>2. /\ IsWork(r)
              /\ \/ Idles(Begun, r)
                 \/ Takes(Begun, r, RemoveRecord(id), Removed(corpus, id))
                 \/ Strays(Begun, r, RemoveRecord(id))
            BY <1>0, <2>1, RemoveFromKinds
        <2> HIDE DEF r
        <2>3. /\ Idles(Begun, r) => r.c = corpus /\ r.wal = wal /\ ~r.ok
              /\ Takes(Begun, r, RemoveRecord(id), Removed(corpus, id)) =>
                    /\ r.wal = Append(wal, RemoveRecord(id)) /\ r.c = Removed(corpus, id)
                    /\ r.ok /\ r.clean
              /\ Strays(Begun, r, RemoveRecord(id)) => ~r.ok /\ ~r.clean
            BY <1>0 DEF Idles, Takes, Strays
        <2> QED BY <2>2, <2>3, Zenon DEF r
    <1>6. ASSUME NEW o1 \in Outcomes, NEW o2 \in Outcomes, t \in Texts, FindByUri(corpus, u) # {},
                 s = AddTo(RemoveFrom(Begun, FirstOf(FindByUri(corpus, u)), o1), u, t, o2)
          PROVE  NothingDone(s) \/ AllDone(s, u, t)
        <2> DEFINE id == FirstOf(FindByUri(corpus, u))
                   r == RemoveFrom(Begun, id, o1)
        <2>0. id \in FindByUri(corpus, u)
            BY <1>6, UpsertFinds
        <2>1. FindByUri(corpus, u) = {id}
            BY <1>3, <2>0
        <2>2. /\ IsWork(r)
              /\ \/ r.c = corpus /\ r.wal = wal /\ ~r.ok
                 \/ /\ r.wal = Append(wal, RemoveRecord(id)) /\ r.c = Removed(corpus, id)
                    /\ r.ok /\ r.clean
                 \/ ~r.ok /\ ~r.clean
            BY <1>5, <2>0
        <2>3. s = AddTo(r, u, t, o2)
            BY <1>6
        <2> HIDE DEF r, id
        <2>4. \/ Idles(r, s)
              \/ Takes(r, s, AddRecord(u, t), Added(r.c, u, t))
              \/ Strays(r, s, AddRecord(u, t))
            BY <1>6, <2>2, <2>3, AddToKinds
        <2>5. ~Strays(r, s, AddRecord(u, t))
            BY <1>2 DEF Strays
        <2>6. r.clean
            BY <1>2, <2>4, <2>5 DEF Idles, Takes
        <2>7. CASE r.c = corpus /\ r.wal = wal /\ ~r.ok
            <3>1. CASE Idles(r, s)
                BY <2>7, <3>1 DEF Idles, NothingDone
            <3>2. CASE Takes(r, s, AddRecord(u, t), Added(r.c, u, t))
                <4>1. s.c = Added(corpus, u, t)
                    BY <2>7, <3>2 DEF Takes
                <4>2. FindByUri(corpus, u) = {}
                    BY <1>0, <1>2, <1>6, <4>1, TwoFound
                <4> QED BY <1>6, <4>2
            <3> QED BY <2>4, <2>5, <3>1, <3>2
        <2>8. CASE r.wal = Append(wal, RemoveRecord(id)) /\ r.c = Removed(corpus, id) /\ r.ok /\ r.clean
            <3>1. r.c # corpus
                <4>1. id \in DOMAIN corpus.docs
                    BY <1>0, <2>0, FindIsIds
                <4>2. Removed(corpus, id).epoch = corpus.epoch + 1 /\ corpus.epoch \in Nat
                    BY <1>0, <4>1, RemovedFacts, CorpusFields
                <4> QED BY <2>8, <4>2
            <3>2. ~Idles(r, s)
                BY <1>2, <3>1 DEF Idles
            <3>3. /\ s.ok /\ s.clean /\ s.wal = Append(Append(wal, RemoveRecord(id)), AddRecord(u, t))
                  /\ s.c = Added(Removed(corpus, id), u, t)
                BY <2>4, <2>5, <2>8, <3>2 DEF Takes
            <3>4. ReplaceDone(s, u, t)
                BY <1>6, <2>1, <3>3 DEF ReplaceDone
            <3> QED BY <1>2, <3>3, <3>4 DEF AllDone
        <2> QED BY <2>2, <2>6, <2>7, <2>8
    <1>7. ASSUME NEW id \in FindByUri(corpus, u), NEW o \in Outcomes, s = RemoveFrom(Begun, id, o), t = NoText
          PROVE  NothingDone(s) \/ AllDone(s, u, t)
        <2>1. \/ s.c = corpus /\ s.wal = wal /\ ~s.ok
              \/ /\ s.wal = Append(wal, RemoveRecord(id)) /\ s.c = Removed(corpus, id)
                 /\ s.ok /\ s.clean
              \/ ~s.ok /\ ~s.clean
            BY <1>5, <1>7
        <2>2. CASE s.c = corpus /\ s.wal = wal /\ ~s.ok
            BY <2>2 DEF NothingDone
        <2>3. CASE s.wal = Append(wal, RemoveRecord(id)) /\ s.c = Removed(corpus, id) /\ s.ok /\ s.clean
            <3>1. FindByUri(corpus, u) = {id}
                BY <1>3
            <3>2. RemoveDone(s, u, t)
                BY <1>7, <2>3, <3>1 DEF RemoveDone
            <3> QED BY <1>2, <2>3, <3>2 DEF AllDone
        <2> QED BY <1>2, <2>1, <2>2, <2>3
    <1> QED BY <1>2, <1>4, <1>6, <1>7 DEF Works
(* Memory and replay take an addition alike. *)
LEMMA AddBoth ==
    ASSUME NEW z, IsReplayed(z), z.ok, NEW c, IsCorpus(c), z.c.docs = c.docs,
           NEW u \in Uris, NEW t \in Texts, AgreeOn(z.c, c, u), FindByUri(c, u) = {},
           NEW r, r = ReplayRecord(z, AddRecord(u, t)), r.ok
    PROVE  AgreeOn(r.c, Added(c, u, t), u)
    <1> DEFINE d == Added(c, u, t)
               doc == [uri |-> u, text |-> t]
    <1>1. d.docs = Append(c.docs, doc) /\ d.deleted = c.deleted /\ IsCorpus(d)
        BY AddedFacts
    <1>2. FindByUri(z.c, u) = {}
        BY AgreeFinds
    <1>3. Tombstone(z.c, u) = {}
        BY <1>2 DEF Tombstone
    <1>4. r.c.docs = Append(c.docs, doc) /\ r.c.deleted = z.c.deleted
        <2>1. r.c.docs = Append(z.c.docs, doc) /\ r.c.deleted = z.c.deleted \cup Tombstone(z.c, u)
            BY ReplayAddition
        <2> QED BY <1>3, <2>1
    <1>5. IsCorpus(z.c)
        BY DEF IsReplayed
    <1>6. Named(r.c, u) = Named(d, u) /\ \A id \in Named(r.c, u) : r.c.docs[id] = d.docs[id]
        BY <1>1, <1>4 DEF Named
    <1>7. ASSUME NEW id \in Named(d, u) PROVE id \in r.c.deleted <=> id \in d.deleted
        <2>0. /\ c.docs \in Seq(Documents) /\ DOMAIN c.docs = 1..Len(c.docs) /\ Len(c.docs) \in Nat
              /\ c.deleted \subseteq DOMAIN c.docs /\ z.c.deleted \subseteq DOMAIN c.docs
            BY <1>5, CorpusFields
        <2>1. doc \in Documents
            BY DEF Documents
        <2>2. \/ id = Len(c.docs) + 1
              \/ id \in DOMAIN c.docs /\ d.docs[id] = c.docs[id]
            BY <1>1, <2>0, <2>1 DEF Named
        <2>3. CASE id = Len(c.docs) + 1
            BY <1>1, <1>4, <2>0, <2>3
        <2>4. CASE id \in DOMAIN c.docs /\ d.docs[id] = c.docs[id]
            <3>1. id \in Named(c, u) /\ id \in Named(z.c, u)
                BY <2>4 DEF Named, AgreeOn
            <3> QED BY <1>1, <1>4, <3>1 DEF AgreeOn
        <2> QED BY <2>2, <2>3, <2>4
    <1> QED BY <1>6, <1>7 DEF AgreeOn

(* Memory and replay take a removal alike. *)
LEMMA RemoveBoth ==
    ASSUME NEW z, IsReplayed(z), z.ok, NEW c, IsCorpus(c), z.c.docs = c.docs,
           NEW u, NEW id \in DOMAIN c.docs, AgreeOn(z.c, c, u),
           NEW r, r = ReplayRecord(z, RemoveRecord(id))
    PROVE  /\ IsReplayed(r) /\ r.ok /\ r.c.docs = Removed(c, id).docs
           /\ AgreeOn(r.c, Removed(c, id), u)
    <1> DEFINE d == Removed(c, id)
    <1>0. id \in Nat
        BY CorpusFields
    <1>1. d.docs = c.docs /\ d.deleted = c.deleted \cup {id}
        BY RemovedFacts
    <1>2. IsReplayed(r) /\ r.ok /\ r.c.docs = z.c.docs /\ r.c.deleted = z.c.deleted \cup {id}
        <2>1. /\ IsReplayed(r) /\ r.ok = z.ok /\ r.c.docs = z.c.docs
              /\ r.c.deleted = IF z.ok THEN z.c.deleted \cup ({id} \cap DOMAIN z.c.docs)
                               ELSE z.c.deleted
            BY <1>0, ReplayRemoval
        <2> QED BY <2>1
    <1> HIDE DEF d
    <1>3. AgreeOn(r.c, d, u)
        BY <1>1, <1>2 DEF AgreeOn, Named
    <1> QED BY <1>1, <1>2, <1>3 DEF d

(* The new document is found, and nothing else of that name. *)
LEMMA AddServes ==
    ASSUME NEW c, IsCorpus(c), NEW u \in Uris, NEW t \in Texts, FindByUri(c, u) = {}
    PROVE  Serves(Added(c, u, t), u, t)
    <1>1. /\ Added(c, u, t).docs = Append(c.docs, [uri |-> u, text |-> t])
          /\ Added(c, u, t).deleted = c.deleted
        BY AddedFacts
    <1>2. /\ FindByUri(Added(c, u, t), u) = {Len(c.docs) + 1}
          /\ Added(c, u, t).docs[Len(c.docs) + 1].text = t
        BY <1>1, AddedAgrees
    <1> QED BY <1>2, CorpusAssumption DEF Serves

(* What a mutation that was done leaves, in memory and in the log. *)
LEMMA AllDoneFacts ==
    ASSUME TypeOK, RestartInv, mode = "up", NEW u \in Protected, NEW t, NEW s, IsWork(s), AllDone(s, u, t)
    PROVE  /\ Serves(s.c, u, t)
           /\ ~overlapping /\ Recovered(s.wal).ok => AgreeOn(Recovered(s.wal).c, s.c, u)
           /\ \/ Removes(Readable(s.wal))
              \/ /\ AddDone(s, u, t)
                 /\ Readable(s.wal) = Append(Readable(wal), AddRecord(u, t))
                 /\ Recovered(s.wal) = ReplayRecord(Recovered(wal), AddRecord(u, t))
    <1>0. /\ IsCorpus(corpus) /\ wal \in Seq(Records \cup {Torn}) /\ TornAt(wal) = {} /\ u \in Uris
          /\ Readable(wal) \in Seq(Records)
          /\ IsReplayed(Recovered(wal))
        BY RecoveredFacts, ReadableFacts DEF TypeOK, AllDone, RestartInv, LogFollows, Protected
    <1>1. ~overlapping => /\ Recovered(wal).ok /\ Recovered(wal).c.docs = corpus.docs
                          /\ AgreeOn(Recovered(wal).c, corpus, u)
        <2>1. Replayed = Recovered(wal)
            BY DEF Replayed, Recovered
        <2> QED BY <2>1 DEF AllDone, RestartInv, LogFollows
    <1>2. CASE AddDone(s, u, t)
        <2>1. AddRecord(u, t) \in Records /\ t \in Texts
            BY <1>0, <1>2 DEF AddRecord, Records, AddDone
        <2>2. ~Lost(wal, AddRecord(u, t))
            BY <1>0, <2>1, CorpusAssumption DEF Lost
        <2>3. /\ Readable(s.wal) = Append(Readable(wal), AddRecord(u, t))
              /\ Recovered(s.wal) = ReplayRecord(Recovered(wal), AddRecord(u, t))
            BY <1>0, <1>2, <2>1, <2>2, LogStep DEF AddDone
        <2>4. Serves(s.c, u, t)
            BY <1>0, <1>2, AddServes DEF AddDone
        <2>5. ASSUME ~overlapping, Recovered(s.wal).ok PROVE AgreeOn(Recovered(s.wal).c, s.c, u)
            <3> DEFINE z == Recovered(wal)
                       r == Recovered(s.wal)
            <3>1. /\ IsReplayed(z) /\ z.ok /\ z.c.docs = corpus.docs /\ AgreeOn(z.c, corpus, u)
                  /\ r = ReplayRecord(z, AddRecord(u, t)) /\ r.ok
                BY <1>0, <1>1, <2>3, <2>5
            <3> HIDE DEF z, r
            <3>2. AgreeOn(r.c, Added(corpus, u, t), u)
                BY <1>0, <1>2, <2>1, <3>1, AddBoth DEF AddDone
            <3> QED BY <1>2, <3>2 DEF r, AddDone
        <2> QED BY <1>2, <2>3, <2>4, <2>5
    <1>3. ASSUME NEW id, FindByUri(corpus, u) = {id}
          PROVE  LET w == Append(wal, RemoveRecord(id))
                     d == Removed(corpus, id)
                 IN  /\ IsCorpus(d) /\ FindByUri(d, u) = {}
                     /\ w \in Seq(Records \cup {Torn}) /\ TornAt(w) = {} /\ Removes(Readable(w))
                     /\ ~overlapping => /\ Recovered(w).ok /\ Recovered(w).c.docs = d.docs
                                        /\ AgreeOn(Recovered(w).c, d, u)
        <2> DEFINE w == Append(wal, RemoveRecord(id))
                   d == Removed(corpus, id)
        <2>1. id \in DOMAIN corpus.docs /\ id \in Nat
            BY <1>0, <1>3, FindIsIds
        <2>2. RemoveRecord(id) \in Records /\ RemoveRecord(id).op = "remove_document"
            BY <2>1 DEF RemoveRecord, Records
        <2>3. ~Lost(wal, RemoveRecord(id))
            BY <1>0, <2>2, CorpusAssumption DEF Lost
        <2>4. /\ TornAt(w) = {}
              /\ Readable(w) = Append(Readable(wal), RemoveRecord(id))
              /\ Recovered(w) = ReplayRecord(Recovered(wal), RemoveRecord(id))
            BY <1>0, <2>2, <2>3, LogStep
        <2>5. w \in Seq(Records \cup {Torn})
            BY <1>0, <2>2
        <2>6. Removes(Readable(w))
            <3>1. /\ Len(Readable(wal)) + 1 \in DOMAIN Append(Readable(wal), RemoveRecord(id))
                  /\ Append(Readable(wal), RemoveRecord(id))[Len(Readable(wal)) + 1] = RemoveRecord(id)
                BY <1>0, <2>2
            <3> QED BY <2>2, <2>4, <3>1 DEF Removes
        <2>7. IsCorpus(d) /\ d.docs = corpus.docs /\ d.deleted = corpus.deleted \cup {id}
            BY <1>0, <2>1, RemovedFacts
        <2>8. FindByUri(d, u) = {}
            <3> HIDE DEF d
            <3>1. FindByUri(d, u) = FindByUri(corpus, u) \ {id}
                BY <2>7 DEF FindByUri, Live
            <3> QED BY <1>3, <3>1
        <2>9. ASSUME ~overlapping
              PROVE  /\ Recovered(w).ok /\ Recovered(w).c.docs = d.docs
                     /\ AgreeOn(Recovered(w).c, d, u)
            <3> DEFINE z == Recovered(wal)
                       r == Recovered(w)
            <3>1. /\ IsReplayed(z) /\ z.ok /\ z.c.docs = corpus.docs /\ AgreeOn(z.c, corpus, u)
                  /\ r = ReplayRecord(z, RemoveRecord(id))
                BY <1>0, <1>1, <2>4, <2>9
            <3> HIDE DEF z, r, w
            <3>2. AgreeOn(r.c, Removed(corpus, id), u)
                BY <1>0, <2>1, <3>1, RemoveBoth
            <3>3. r.c.docs = z.c.docs
                BY <2>1, <3>1, ReplayRemoval
            <3>4. r.ok
                BY <1>0, <2>1, <3>1, RemoveBoth
            <3> QED BY <2>7, <3>1, <3>2, <3>3, <3>4 DEF r
        <2> QED BY <2>4, <2>5, <2>6, <2>7, <2>8, <2>9
    <1>4. CASE RemoveDone(s, u, t)
        <2>1. PICK id : /\ FindByUri(corpus, u) = {id}
                        /\ s.wal = Append(wal, RemoveRecord(id)) /\ s.c = Removed(corpus, id)
            BY <1>4 DEF RemoveDone
        <2>2. /\ FindByUri(s.c, u) = {} /\ Removes(Readable(s.wal))
              /\ ~overlapping => AgreeOn(Recovered(s.wal).c, s.c, u)
            BY <1>3, <2>1
        <2> QED BY <1>4, <2>2 DEF Serves, RemoveDone
    <1>5. CASE ReplaceDone(s, u, t)
        <2>1. PICK id : /\ FindByUri(corpus, u) = {id}
                        /\ s.wal = Append(Append(wal, RemoveRecord(id)), AddRecord(u, t))
                        /\ s.c = Added(Removed(corpus, id), u, t)
            BY <1>5 DEF ReplaceDone
        <2> DEFINE w == Append(wal, RemoveRecord(id))
                   d == Removed(corpus, id)
        <2>2. /\ IsCorpus(d) /\ FindByUri(d, u) = {}
              /\ w \in Seq(Records \cup {Torn}) /\ TornAt(w) = {} /\ Removes(Readable(w))
              /\ ~overlapping => /\ Recovered(w).ok /\ Recovered(w).c.docs = d.docs
                                 /\ AgreeOn(Recovered(w).c, d, u)
            BY <1>3, <2>1
        <2>3. s.wal = Append(w, AddRecord(u, t)) /\ s.c = Added(d, u, t)
            BY <2>1
        <2> HIDE DEF w, d
        <2>4. AddRecord(u, t) \in Records /\ t \in Texts
            BY <1>0, <1>5 DEF AddRecord, Records, ReplaceDone
        <2>5. ~Lost(w, AddRecord(u, t))
            BY <2>2, <2>4, CorpusAssumption DEF Lost
        <2>6. /\ Readable(s.wal) = Append(Readable(w), AddRecord(u, t))
              /\ Recovered(s.wal) = ReplayRecord(Recovered(w), AddRecord(u, t))
            BY <2>2, <2>3, <2>4, <2>5, LogStep
        <2>7. Serves(s.c, u, t)
            BY <1>0, <2>2, <2>3, <2>4, AddServes
        <2>8. Removes(Readable(s.wal))
            <3>1. Readable(w) \in Seq(Records)
                BY <2>2, ReadableFacts
            <3>2. \A i \in DOMAIN Readable(w) : /\ i \in DOMAIN Readable(s.wal)
                                                /\ Readable(s.wal)[i] = Readable(w)[i]
                BY <2>4, <2>6, <3>1
            <3> QED BY <2>2, <3>2 DEF Removes
        <2>9. ASSUME ~overlapping, Recovered(s.wal).ok PROVE AgreeOn(Recovered(s.wal).c, s.c, u)
            <3> DEFINE z == Recovered(w)
                       r == Recovered(s.wal)
            <3>1. /\ IsReplayed(z) /\ z.ok /\ z.c.docs = d.docs /\ AgreeOn(z.c, d, u)
                  /\ r = ReplayRecord(z, AddRecord(u, t)) /\ r.ok
                BY <2>2, <2>6, <2>9, RecoveredFacts
            <3> HIDE DEF z, r
            <3>2. AgreeOn(r.c, Added(d, u, t), u)
                BY <1>0, <2>2, <2>4, <3>1, AddBoth
            <3> QED BY <2>3, <3>2 DEF r
        <2> QED BY <2>7, <2>8, <2>9
    <1> QED BY <1>2, <1>4, <1>5 DEF AllDone
-----------------------------------------------------------------------------
(* Restarts                                                                *)

(* What Open replays. *)
LEMMA ReplayedIs == Replayed = Recovered(wal)
    BY DEF Replayed, Recovered

(* A step that leaves the file alone changes what a restart would make of the
   log only through the log. *)
LEMMA ReplayedLater ==
    ASSUME UNCHANGED <<file, published>>
    PROVE  /\ Loaded' = Loaded /\ Parsed' = Parsed
           /\ Replayed' = Recovered(wal')
    BY DEF Loaded, Parsed, Replayed, Recovered

(* A mutation keeps the invariant. *)
LEMMA MutationKeeps ==
    ASSUME TypeOK, TypeOK', RestartInv, Mutate
    PROVE  RestartInv'
    <1>0. PICK u, t, s, outs :
            u \in Uris /\ t \in Texts \cup {NoText} /\ Works(s, u, t) /\ Mutated(s, u, t, outs)
        BY MutationKinds
    <1>1. /\ mode = "up" /\ corpus' = s.c /\ wal' = s.wal
          /\ acked' = (IF s.ok THEN [acked EXCEPT ![u] = t] ELSE acked)
          /\ diverged' = (diverged \/ ~s.clean)
          /\ unprotected \subseteq unprotected' /\ unprotected' \subseteq unprotected \cup {u}
          /\ UNCHANGED <<mode, file, published, savers, overlapping>>
        BY <1>0 DEF Mutated
    <1>2. /\ IsWork(s) /\ s.ok \in BOOLEAN /\ s.clean \in BOOLEAN
          /\ s.wal \in Seq(Records \cup {Torn}) /\ wal \in Seq(Records \cup {Torn})
        BY <1>0, WorksFacts DEF IsWork, TypeOK
    <1>3. Torns(s) /\ Extends(s, u) /\ Elsewhere(s, u) /\ Follows(s)
        BY <1>0, <1>1, WorksProgress DEF Progress
    <1>4. /\ Replayed = Recovered(wal) /\ Replayed' = Recovered(s.wal)
          /\ Parsed' = Parsed /\ Active' = Active /\ snap' = snap /\ call' = call
          /\ published' = published
        BY <1>1, ReplayedIs, ReplayedLater DEF savers, Active
    <1>5. /\ Protected' \subseteq Protected /\ Protected \subseteq Protected' \cup {u}
          /\ \A v \in Protected' \ {u} : v \in Protected \ {u} /\ acked'[v] = acked[v]
        BY <1>0, <1>1 DEF Protected, TypeOK
    <1>6. LogFollows /\ LogUsable /\ RestartServes /\ UpServes /\ AddsAcked
          /\ SnapInv /\ CheckpointInv
        BY DEF RestartInv
    <1>7. ASSUME u \in Protected', ~NothingDone(s)
          PROVE  AllDone(s, u, t) /\ u \in Protected /\ acked'[u] = t /\ s.ok
        <2>1. u \notin unprotected' /\ AllDone(s, u, t) /\ u \in Protected
            BY <1>0, <1>7, ProtectedMutation DEF Protected
        <2>2. s.ok
            BY <2>1 DEF AllDone
        <2> QED BY <1>0, <1>1, <2>1, <2>2 DEF TypeOK
    <1>8. ASSUME u \in Protected', NothingDone(s)
          PROVE  s.c = corpus /\ s.wal = wal /\ u \in Protected /\ acked' = acked
        BY <1>1, <1>5, <1>8 DEF NothingDone
    <1>9. /\ ~Removes(Readable(s.wal)) => ~Removes(Readable(wal))
          /\ \A i \in DOMAIN Readable(wal) : i \in DOMAIN Readable(s.wal) /\ Readable(s.wal)[i] = Readable(wal)[i]
        <2>1. Readable(wal) \in Seq(Records) /\ Readable(s.wal) \in Seq(Records)
            BY <1>2, ReadableFacts
        <2>2. /\ DOMAIN Readable(wal) = 1..Len(Readable(wal)) /\ Len(Readable(wal)) \in Nat
              /\ DOMAIN Readable(s.wal) = 1..Len(Readable(s.wal)) /\ Len(Readable(s.wal)) \in Nat
              /\ Len(Readable(wal)) <= Len(Readable(s.wal))
            BY <1>3, <2>1 DEF Extends
        <2>3. ASSUME NEW i \in DOMAIN Readable(wal)
              PROVE  i \in DOMAIN Readable(s.wal) /\ Readable(s.wal)[i] = Readable(wal)[i]
            <3>1. i \in DOMAIN Readable(s.wal)
                BY <2>2
            <3> QED BY <1>3, <3>1, Zenon DEF Extends
        <2> QED BY <2>3, Zenon DEF Removes
    <1>10. LogFollows'
        <2>1. ASSUME ~diverged' PROVE TornAt(wal') = {}
            BY <1>1, <1>2, <1>3, <1>6, <2>1 DEF LogFollows, Torns
        <2>2. ASSUME ~overlapping', Replayed'.ok, NEW v \in Protected'
              PROVE  AgreeOn(Replayed'.c, corpus', v)
            <3>1. ~overlapping /\ Recovered(s.wal).ok
                BY <1>1, <1>4, <2>2
            <3>2. CASE v # u
                <4>1. AgreeOn(Recovered(s.wal).c, s.c, v)
                    BY <1>3, <1>5, <3>1, <3>2 DEF Elsewhere
                <4> QED BY <1>1, <1>4, <4>1
            <3>3. CASE v = u /\ NothingDone(s)
                <4>1. Replayed' = Replayed /\ corpus' = corpus /\ u \in Protected
                    BY <1>1, <1>4, <1>8, <2>2, <3>3
                <4> QED BY <1>1, <1>6, <2>2, <3>3, <4>1 DEF LogFollows
            <3>4. CASE v = u /\ ~NothingDone(s)
                <4>1. AgreeOn(Recovered(s.wal).c, s.c, u)
                    BY <1>1, <1>2, <1>7, <2>2, <3>1, <3>4, AllDoneFacts
                <4> QED BY <1>1, <1>4, <3>4, <4>1
            <3> QED BY <3>2, <3>3, <3>4
        <2>3. ASSUME ~overlapping', ~diverged' PROVE Replayed'.ok /\ Replayed'.c.docs = corpus'.docs
            <3>1. Recovered(s.wal).ok /\ Recovered(s.wal).c.docs = s.c.docs
                BY <1>1, <1>2, <1>3, <2>3 DEF Follows
            <3> QED BY <1>1, <1>4, <3>1
        <2> QED BY <2>1, <2>2, <2>3 DEF LogFollows
    <1>11. LogUsable'
        <2>1. ASSUME wal # <<>> PROVE wal' # <<>>
            BY <1>1, <1>2, <1>3, <2>1 DEF Extends
        <2> QED BY <1>1, <1>6, <2>1 DEF LogUsable
    <1>12. UpServes'
        <2> SUFFICES ASSUME NEW v \in Protected' PROVE Serves(s.c, v, acked'[v])
            BY <1>1 DEF UpServes
        <2>1. CASE v # u
            <3>1. AgreeOn(s.c, corpus, v) /\ Serves(corpus, v, acked[v]) /\ acked'[v] = acked[v]
                BY <1>1, <1>3, <1>5, <1>6, <2>1 DEF Elsewhere, UpServes
            <3> QED BY <3>1, AgreeServes
        <2>2. CASE v = u /\ NothingDone(s)
            BY <1>1, <1>6, <1>8, <2>2 DEF UpServes
        <2>3. CASE v = u /\ ~NothingDone(s)
            BY <1>1, <1>2, <1>7, <2>3, AllDoneFacts
        <2> QED BY <2>1, <2>2, <2>3
    <1>13. RestartServes'
        <2> SUFFICES ASSUME Recovered(s.wal).ok, ~(overlapping /\ Removes(Readable(s.wal))),
                            NEW v \in Protected'
                     PROVE  Serves(Recovered(s.wal).c, v, acked'[v])
            BY <1>1, <1>4 DEF RestartServes
        <2>1. Serves(s.c, v, acked'[v])
            BY <1>1, <1>12 DEF UpServes
        <2>2. CASE ~overlapping
            <3>1. AgreeOn(Recovered(s.wal).c, s.c, v)
                BY <1>1, <1>4, <1>10, <2>2 DEF LogFollows
            <3> QED BY <2>1, <3>1, AgreeServes
        <2>3. ASSUME overlapping, Recovered(wal).ok, NEW w \in Protected
              PROVE  Serves(Recovered(wal).c, w, acked[w])
            <3>1. ~Removes(Readable(wal))
                BY <1>9, <2>3
            <3> QED BY <1>1, <1>4, <1>6, <2>3, <3>1 DEF RestartServes
        <2>4. CASE overlapping /\ v # u
            <3>1. Recovered(wal).ok /\ AgreeOn(Recovered(s.wal).c, Recovered(wal).c, v)
                BY <1>3, <1>5, <2>4 DEF Elsewhere
            <3>2. Serves(Recovered(wal).c, v, acked[v]) /\ acked'[v] = acked[v]
                BY <1>5, <2>3, <2>4, <3>1
            <3> QED BY <3>1, <3>2, AgreeServes
        <2>5. CASE overlapping /\ v = u /\ NothingDone(s)
            BY <1>8, <2>3, <2>5
        <2>6. CASE overlapping /\ v = u /\ ~NothingDone(s)
            <3>0. AllDone(s, u, t) /\ u \in Protected /\ acked'[u] = t
                BY <1>7, <2>6
            <3>1. /\ AddDone(s, u, t)
                  /\ Recovered(s.wal) = ReplayRecord(Recovered(wal), AddRecord(u, t))
                BY <1>1, <1>2, <2>6, <3>0, AllDoneFacts
            <3> DEFINE z == Recovered(wal)
                       r == Recovered(s.wal)
            <3>2. IsReplayed(z) /\ t \in Texts /\ AddRecord(u, t) \in Records
                BY <1>0, <1>2, <3>1, RecoveredFacts DEF AddDone, AddRecord, Records
            <3>3. r = ReplayRecord(z, AddRecord(u, t)) /\ r.ok
                BY <3>1
            <3>4. z.ok
                <4> HIDE DEF z, r
                <4> QED BY <3>2, <3>3, ReplayStep
            <3>5. \A i, j \in FindByUri(z.c, u) : i = j
                BY <2>3, <2>6, <3>0, <3>4, FoundIsOne
            <3> HIDE DEF z, r
            <3>6. FindByUri(r.c, u) = {Len(z.c.docs) + 1} /\ r.c.docs[Len(z.c.docs) + 1].text = t
                <4>1. u \in Uris /\ IsReplayed(z) /\ z.ok /\ t \in Texts
                    BY <1>0, <3>2, <3>4
                <4>2. FindByUri(r.c, u) = {Len(z.c.docs) + 1}
                    BY <3>3, <3>5, <4>1, AdditionEffects
                <4>3. r.c.docs[Len(z.c.docs) + 1].text = t
                    BY <3>3, <3>5, <4>1, AdditionEffects
                <4> QED BY <4>2, <4>3
            <3>7. Serves(r.c, u, t)
                BY <3>2, <3>6, CorpusAssumption DEF Serves
            <3> QED BY <2>6, <3>0, <3>7 DEF r
        <2> QED BY <2>2, <2>4, <2>5, <2>6
    <1>14. ASSUME ~Removes(Readable(s.wal)), NEW i \in DOMAIN Readable(s.wal), i \notin DOMAIN Readable(wal)
           PROVE  Readable(s.wal)[i].uri = u
        <2>1. Readable(s.wal)[i].op # "remove_document"
            BY <1>14 DEF Removes
        <2> QED BY <1>3, <1>14, <2>1 DEF Extends
    <1>15. AddsAcked'
        <2> SUFFICES ASSUME ~Removes(Readable(s.wal)), NEW v \in Protected',
                            NEW i \in DOMAIN Readable(s.wal), Readable(s.wal)[i].uri = v
                     PROVE  Readable(s.wal)[i].text = acked'[v]
            BY <1>1 DEF AddsAcked
        <2>0. \A w \in Protected, j \in DOMAIN Readable(wal) :
                Readable(wal)[j].uri = w => Readable(wal)[j].text = acked[w]
            BY <1>6, <1>9 DEF AddsAcked
        <2>1. CASE v # u
            <3>1. i \in DOMAIN Readable(wal)
                BY <1>14, <2>1
            <3>2. Readable(s.wal)[i] = Readable(wal)[i] /\ v \in Protected /\ acked'[v] = acked[v]
                BY <1>5, <1>9, <2>1, <3>1
            <3> QED BY <2>0, <3>1, <3>2
        <2>2. CASE v = u /\ NothingDone(s)
            BY <1>8, <2>0, <2>2
        <2>3. CASE v = u /\ ~NothingDone(s)
            <3>0. AllDone(s, u, t) /\ u \in Protected /\ acked'[u] = t
                BY <1>7, <2>3
            <3>1. /\ AddDone(s, u, t)
                  /\ Readable(s.wal) = Append(Readable(wal), AddRecord(u, t))
                BY <1>1, <1>2, <2>3, <3>0, AllDoneFacts
            <3>2. Readable(wal) \in Seq(Records) /\ AddRecord(u, t) \in Records /\ AddRecord(u, t).text = t
                BY <1>0, <1>2, <3>1, ReadableFacts DEF AddDone, AddRecord, Records
            <3>3. CASE i \in DOMAIN Readable(wal)
                <4>1. Readable(s.wal)[i] = Readable(wal)[i]
                    BY <1>9, <3>3
                <4>2. Readable(wal)[i].text = acked[u]
                    BY <2>0, <2>3, <3>0, <3>3, <4>1
                <4>3. acked[u] = NoText
                    <5>1. Serves(corpus, u, acked[u]) /\ FindByUri(corpus, u) = {}
                        BY <1>1, <1>6, <3>0, <3>1 DEF UpServes, AddDone
                    <5> QED BY <5>1 DEF Serves
                <4>4. Readable(wal)[i].text \in Texts
                    <5>1. Readable(wal)[i] \in Records
                        BY <3>2, <3>3
                    <5>2. Readable(wal)[i].op # "remove_document"
                        BY <1>9, <3>3 DEF Removes
                    <5>3. PICK x \in Uris, y \in Texts : Readable(wal)[i] = AddRecord(x, y)
                        <6>1. ASSUME NEW id \in Nat, Readable(wal)[i] = RemoveRecord(id) PROVE FALSE
                            BY <5>2, <6>1 DEF RemoveRecord
                        <6> QED BY <5>1, <6>1, RecordKinds
                    <5> QED BY <5>3 DEF AddRecord
                <4> QED BY <4>2, <4>3, <4>4, CorpusAssumption
            <3>4. CASE i \notin DOMAIN Readable(wal)
                <4>1. Readable(s.wal)[i] = AddRecord(u, t)
                    BY <3>1, <3>2, <3>4
                <4> QED BY <2>3, <3>0, <3>2, <4>1
            <3> QED BY <3>3, <3>4
        <2> QED BY <2>1, <2>2, <2>3
    <1>16. ASSUME NEW v \in Protected', Untouched(v)'
           PROVE  Untouched(v)
        <2>1. ~Removes(Readable(s.wal)) /\ \A i \in DOMAIN Readable(s.wal) : Readable(s.wal)[i].uri # v
            BY <1>1, <1>16 DEF Untouched
        <2> QED BY <1>9, <2>1, Zenon DEF Untouched
    <1>17. ASSUME Untouched(u)', u \in Protected' PROVE NothingDone(s)
        <2> SUFFICES ASSUME ~NothingDone(s) PROVE FALSE
            OBVIOUS
        <2>1. ~Removes(Readable(s.wal)) /\ \A i \in DOMAIN Readable(s.wal) : Readable(s.wal)[i].uri # u
            BY <1>1, <1>17 DEF Untouched
        <2>2. AllDone(s, u, t) /\ u \in Protected
            BY <1>7, <1>17
        <2>3. /\ AddDone(s, u, t)
              /\ Readable(s.wal) = Append(Readable(wal), AddRecord(u, t))
            BY <1>1, <1>2, <2>1, <2>2, AllDoneFacts
        <2>4. Readable(wal) \in Seq(Records) /\ AddRecord(u, t) \in Records /\ AddRecord(u, t).uri = u
            BY <1>0, <1>2, <2>3, ReadableFacts DEF AddDone, AddRecord, Records
        <2>5. /\ Len(Readable(wal)) + 1 \in DOMAIN Readable(s.wal)
              /\ Readable(s.wal)[Len(Readable(wal)) + 1] = AddRecord(u, t)
            BY <2>3, <2>4
        <2> QED BY <2>1, <2>4, <2>5
    <1>18. SnapInv'
        <2> SUFFICES ASSUME NEW x \in Active, NEW v \in Protected'
                     PROVE  /\ \A i, j \in FindByUri(snap[x], v) : i = j
                            /\ published <= snap[x].epoch /\ Untouched(v)' => AgreeOn(snap[x], s.c, v)
            BY <1>1, <1>4 DEF SnapInv
        <2>1. /\ \A i, j \in FindByUri(snap[x], v) : i = j
              /\ published <= snap[x].epoch /\ Untouched(v) => AgreeOn(snap[x], corpus, v)
            BY <1>5, <1>6 DEF SnapInv
        <2>2. ASSUME published <= snap[x].epoch, Untouched(v)' PROVE AgreeOn(snap[x], s.c, v)
            <3>1. AgreeOn(snap[x], corpus, v)
                BY <1>16, <2>1, <2>2
            <3>2. CASE v # u
                <4>1. AgreeOn(s.c, corpus, v)
                    BY <1>3, <1>5, <3>2 DEF Elsewhere
                <4> QED BY <3>1, <4>1, AgreeFacts
            <3>3. CASE v = u
                BY <1>8, <1>17, <2>2, <3>1, <3>3
            <3> QED BY <3>2, <3>3
        <2> QED BY <2>1, <2>2
    <1>19. CheckpointInv'
        <2> SUFFICES ASSUME NEW x \in Active, NEW v \in Protected', call[x] = "checkpoint"
                     PROVE  /\ \A y \in Active : snap[x].epoch <= snap[y].epoch => AgreeOn(snap[y], s.c, v)
                            /\ snap[x].epoch <= published => AgreeOn(Parsed, s.c, v)
            BY <1>1, <1>4 DEF CheckpointInv
        <2>1. /\ \A y \in Active : snap[x].epoch <= snap[y].epoch => AgreeOn(snap[y], corpus, v)
              /\ snap[x].epoch <= published => AgreeOn(Parsed, corpus, v)
            BY <1>5, <1>6 DEF CheckpointInv
        <2>2. CASE v # u
            <3>1. AgreeOn(corpus, s.c, v)
                BY <1>3, <1>5, <2>2, AgreeFacts DEF Elsewhere
            <3> QED BY <2>1, <3>1, AgreeFacts
        <2>3. CASE v = u /\ NothingDone(s)
            BY <1>8, <2>1, <2>3
        <2>4. CASE v = u /\ ~NothingDone(s)
            <3>1. ~CheckpointUnderway
                BY <1>7, <2>4 DEF AllDone
            <3> QED BY <3>1 DEF CheckpointUnderway, Active
        <2> QED BY <2>2, <2>3, <2>4
    <1>20. RefusedOnlyIfDiverged'
        BY <1>1 DEF RefusedOnlyIfDiverged
    <1> QED BY <1>10, <1>11, <1>12, <1>13, <1>15, <1>18, <1>19, <1>20 DEF RestartInv
(* A change of the corpus that changes no document, and a saver that comes
   to rest. *)
LEMMA QuietKeeps ==
    ASSUME TypeOK, TypeOK', RestartInv, mode = "up", IsCorpus(corpus'), SameData(corpus', corpus),
           UNCHANGED <<mode, wal, file, published, acked, unprotected, diverged, overlapping>>,
           Active' \subseteq Active,
           \A t \in Active' : snap'[t] = snap[t] /\ call'[t] = call[t]
    PROVE  RestartInv'
    <1>0. LogFollows /\ LogUsable /\ RestartServes /\ UpServes /\ AddsAcked /\ SnapInv /\ CheckpointInv
        BY DEF RestartInv
    <1>1. /\ Replayed' = Replayed /\ Parsed' = Parsed /\ Protected' = Protected
        BY ReplayedLater, ReplayedIs DEF Protected
    <1>2. \A c, u : AgreeOn(c, corpus, u) => AgreeOn(c, corpus', u)
        BY AgreeFacts DEF SameData
    <1>3. LogFollows'
        BY <1>0, <1>1, <1>2 DEF LogFollows, SameData
    <1>4. LogUsable'
        BY <1>0, <1>1 DEF LogUsable, CorruptInterior
    <1>5. RestartServes'
        BY <1>0, <1>1 DEF RestartServes
    <1>6. UpServes'
        <2> SUFFICES ASSUME NEW u \in Protected PROVE Serves(corpus', u, acked[u])
            BY <1>1 DEF UpServes
        <2>1. Serves(corpus, u, acked[u]) /\ AgreeOn(corpus', corpus, u)
            BY <1>0, AgreeFacts DEF UpServes
        <2> QED BY <2>1, AgreeServes
    <1>7. AddsAcked'
        BY <1>0, <1>1 DEF AddsAcked
    <1>8. SnapInv'
        <2> SUFFICES ASSUME NEW x \in Active', NEW u \in Protected
                     PROVE  /\ \A i, j \in FindByUri(snap[x], u) : i = j
                            /\ published <= snap[x].epoch /\ Untouched(u) => AgreeOn(snap[x], corpus', u)
            BY <1>1 DEF SnapInv, Untouched
        <2> QED BY <1>0, <1>2 DEF SnapInv
    <1>9. CheckpointInv'
        <2> SUFFICES ASSUME NEW x \in Active', NEW u \in Protected, call[x] = "checkpoint"
                     PROVE  /\ \A y \in Active' : snap[x].epoch <= snap[y].epoch => AgreeOn(snap[y], corpus', u)
                            /\ snap[x].epoch <= published => AgreeOn(Parsed, corpus', u)
            BY <1>1 DEF CheckpointInv
        <2> QED BY <1>0, <1>2 DEF CheckpointInv
    <1>10. RefusedOnlyIfDiverged'
        BY DEF RefusedOnlyIfDiverged
    <1> QED BY <1>3, <1>4, <1>5, <1>6, <1>7, <1>8, <1>9, <1>10 DEF RestartInv

(* build() changes no document. *)
LEMMA BuildKeeps ==
    ASSUME TypeOK, TypeOK', RestartInv, Build
    PROVE  RestartInv'
    <1>1. /\ IsCorpus(corpus') /\ SameData(corpus', corpus) /\ mode = "up"
          /\ UNCHANGED <<mode, wal, file, published, savers, history>>
        BY BuildFacts DEF Build
    <1>2. Active' = Active /\ snap' = snap /\ call' = call
          /\ UNCHANGED <<mode, wal, file, published, acked, unprotected, diverged, overlapping>>
        BY <1>1 DEF savers, history, Active
    <1> QED BY <1>1, <1>2, QuietKeeps

(* A save that fails or returns. *)
LEMMA RestKeeps ==
    ASSUME TypeOK, TypeOK', RestartInv, NEW t \in Savers,
           PublishFails(t) \/ SaveReturns(t) \/ TruncateFails(t)
    PROVE  RestartInv'
    <1>1. /\ AtRest(t) /\ pc[t] # "idle"
          /\ UNCHANGED <<mode, corpus, wal, file, published, acked, unprotected, diverged, overlapping>>
        BY DEF PublishFails, SaveReturns, TruncateFails, history
    <1>2. mode = "up" /\ IsCorpus(corpus') /\ SameData(corpus', corpus)
        BY <1>1 DEF TypeOK, SameData
    <1>3. /\ Active' \subseteq Active
          /\ \A x \in Active' : snap'[x] = snap[x] /\ call'[x] = call[x]
        BY <1>1, AtRestFacts DEF Active
    <1> QED BY <1>1, <1>2, <1>3, QuietKeeps

(* A new snapshot is the corpus; what is as new as it has its documents. *)
LEMMA SnapshotKeeps ==
    ASSUME TypeOK, TypeOK', RestartInv, SaveInv, NEW t \in Savers, NEW kind \in {"save", "checkpoint"},
           Snapshot(t, kind)
    PROVE  RestartInv'
    <1>0. LogFollows /\ LogUsable /\ RestartServes /\ UpServes /\ AddsAcked /\ SnapInv /\ CheckpointInv
        BY DEF RestartInv
    <1>1. /\ mode = "up" /\ pc[t] = "idle"
          /\ UNCHANGED <<mode, corpus, wal, file, published, acked, unprotected, diverged, overlapping>>
        BY DEF Snapshot, history
    <1>2. /\ snap'[t] = corpus /\ t \notin Active
          /\ Active' = Active \cup {t}
          /\ \A x \in Active : snap'[x] = snap[x] /\ call'[x] = call[x]
        BY <1>1, SnapshotFacts DEF Active
    <1>3. /\ Replayed' = Replayed /\ Parsed' = Parsed /\ Protected' = Protected
        BY <1>1, ReplayedLater, ReplayedIs DEF Protected
    <1>4. LogFollows' /\ LogUsable' /\ RestartServes' /\ UpServes' /\ AddsAcked'
        <2>1. LogFollows'
            BY <1>0, <1>1, <1>3 DEF LogFollows
        <2>2. LogUsable'
            BY <1>0, <1>1, <1>3 DEF LogUsable, CorruptInterior
        <2>3. RestartServes' /\ UpServes'
            BY <1>0, <1>1, <1>3 DEF RestartServes, UpServes
        <2>4. AddsAcked'
            BY <1>0, <1>1, <1>3 DEF AddsAcked
        <2> QED BY <2>1, <2>2, <2>3, <2>4
    <1>5. \A u : AgreeOn(corpus, corpus, u)
        BY AgreeFacts DEF SameData
    <1>6. SnapInv'
        <2> SUFFICES ASSUME NEW x \in Active \cup {t}, NEW u \in Protected
                     PROVE  /\ \A i, j \in FindByUri(snap'[x], u) : i = j
                            /\ published <= snap'[x].epoch /\ Untouched(u) => AgreeOn(snap'[x], corpus, u)
            BY <1>1, <1>2, <1>3 DEF SnapInv, Untouched
        <2>1. CASE x = t
            <3>1. \A i, j \in FindByUri(corpus, u) : i = j
                BY <1>0, <1>1, FoundIsOne DEF UpServes
            <3> QED BY <1>2, <1>5, <2>1, <3>1
        <2>2. CASE x \in Active
            BY <1>0, <1>2, <2>2 DEF SnapInv
        <2> QED BY <2>1, <2>2
    <1>7. /\ corpus \in Versions /\ \A x \in Active : snap[x] \in Versions
          /\ \A c \in Versions : IsCorpus(c) /\ c.epoch \in Nat
          /\ IsCorpus(Parsed) /\ published \in Nat \cup {-1} /\ OrderInv
        BY VersionFacts DEF Versions, SaveInv
    <1>8. ASSUME NEW x \in Active, NEW u, corpus.epoch <= snap[x].epoch
          PROVE  AgreeOn(snap[x], corpus, u)
        <2>1. Precedes(corpus, snap[x]) /\ Precedes(snap[x], corpus)
            BY <1>1, <1>7, <1>8 DEF OrderInv
        <2>2. SameData(snap[x], corpus)
            BY <1>7, <2>1, OrderFacts
        <2> QED BY <2>2, AgreeFacts
    <1>9. ASSUME NEW u, corpus.epoch <= published
          PROVE  AgreeOn(Parsed, corpus, u)
        <2>1. Precedes(corpus, Parsed) /\ Precedes(Parsed, corpus)
            BY <1>1, <1>7, <1>9 DEF OrderInv
        <2>2. SameData(Parsed, corpus)
            BY <1>7, <2>1, OrderFacts
        <2> QED BY <2>2, AgreeFacts
    <1>10. CheckpointInv'
        <2> SUFFICES ASSUME NEW x \in Active \cup {t}, NEW u \in Protected, call'[x] = "checkpoint"
                     PROVE  /\ \A y \in Active \cup {t} :
                                 snap'[x].epoch <= snap'[y].epoch => AgreeOn(snap'[y], corpus, u)
                            /\ snap'[x].epoch <= published => AgreeOn(Parsed, corpus, u)
            BY <1>1, <1>2, <1>3 DEF CheckpointInv
        <2>1. CASE x = t
            BY <1>2, <1>5, <1>8, <1>9, <2>1
        <2>2. CASE x \in Active
            <3>1. /\ \A y \in Active : snap[x].epoch <= snap[y].epoch => AgreeOn(snap[y], corpus, u)
                  /\ snap[x].epoch <= published => AgreeOn(Parsed, corpus, u)
                BY <1>0, <1>2, <2>2 DEF CheckpointInv
            <3> QED BY <1>2, <1>5, <2>2, <3>1
        <2> QED BY <2>1, <2>2
    <1>11. RefusedOnlyIfDiverged'
        BY <1>1 DEF RefusedOnlyIfDiverged
    <1> QED BY <1>4, <1>6, <1>10, <1>11 DEF RestartInv

(* The file after a publication, and what a restart makes of it. *)
LEMMA PublishKeeps ==
    ASSUME TypeOK, TypeOK', RestartInv, SaveInv, NEW t \in Savers, Publish(t)
    PROVE  RestartInv'
    <1>0. LogFollows /\ LogUsable /\ RestartServes /\ UpServes /\ AddsAcked /\ SnapInv /\ CheckpointInv
        BY DEF RestartInv
    <1>1. /\ pc[t] = "snapped" /\ pc' = [pc EXCEPT ![t] = "saved"]
          /\ UNCHANGED <<mode, corpus, wal, call, snap, acked, unprotected, diverged>>
        BY DEF Publish
    <1>2. mode = "up" /\ Active' = Active /\ Protected' = Protected /\ t \in Active
        BY <1>1 DEF TypeOK, Active, Protected
    <1>3. CASE Superseded(snap[t])
        <2>1. UNCHANGED <<file, published, overlapping>>
            BY <1>3 DEF Publish
        <2>2. IsCorpus(corpus') /\ SameData(corpus', corpus)
            BY <1>1 DEF TypeOK, SameData
        <2> QED BY <1>1, <1>2, <2>1, <2>2, QuietKeeps
    <1>4. CASE ~Superseded(snap[t])
        <2>0. /\ snap[t] \in Versions /\ corpus \in Versions
              /\ \A c \in Versions : IsCorpus(c) /\ c.epoch \in Nat
              /\ IsCorpus(Parsed) /\ published \in Nat \cup {-1} /\ OrderInv
              /\ \A x \in Active : snap[x] \in Versions
            BY <1>2, VersionFacts DEF Versions, SaveInv
        <2>1. /\ file' = snap[t] /\ published' = snap[t].epoch /\ published <= snap[t].epoch
              /\ overlapping' = (overlapping \/ wal # <<>>)
            BY <1>4, <2>0 DEF Publish, Superseded
        <2>2. /\ IsCorpus(Parsed') /\ IsCorpus(Loaded')
              /\ SameData(Parsed', snap[t]) /\ SameData(Loaded', snap[t])
            <3>1. file' # NoFile
                BY <2>0, <2>1, CorpusFields
            <3>2. (/\ IsCorpus(Parsed) /\ IsCorpus(Loaded)
                   /\ Loaded.docs = Parsed.docs /\ Loaded.deleted = Parsed.deleted
                   /\ file # NoFile => Parsed.docs = file.docs /\ Parsed.deleted = file.deleted)'
                BY LoadedFacts, PTL
            <3> QED BY <2>1, <3>1, <3>2 DEF SameData
        <2> DEFINE L == Loaded'
                   log == Readable(wal)
                   R == ReplayOver(L, log)
        <2>3. Replayed' = R /\ log \in Seq(Records)
            BY <1>1, ReadableFacts DEF Replayed, TypeOK
        <2>4. wal = <<>> => log = <<>>
            BY DEF Readable, TornAt
        <2>5. log = <<>> => R = [c |-> L, ok |-> TRUE]
            BY <2>2, <2>3, ReplayFacts
        <2> HIDE DEF L, R
        <2>6. ASSUME NEW u \in Protected, Untouched(u) PROVE AgreeOn(L, corpus, u)
            <3>1. AgreeOn(snap[t], corpus, u) /\ AgreeOn(L, snap[t], u)
                BY <1>0, <1>2, <2>1, <2>2, <2>6, AgreeFacts DEF SnapInv, L
            <3> QED BY <3>1, AgreeFacts
        <2>7. LogFollows'
            <3>1. ASSUME ~diverged' PROVE TornAt(wal') = {}
                BY <1>0, <1>1, <1>2, <3>1 DEF LogFollows
            <3>2. ASSUME ~overlapping', NEW u \in Protected'
                  PROVE  AgreeOn(Replayed'.c, corpus', u)
                <4>1. log = <<>>
                    BY <2>1, <2>4, <3>2
                <4>2. Untouched(u)
                    BY <4>1 DEF Untouched, Removes
                <4>3. Replayed'.c = L
                    BY <2>3, <2>5, <4>1
                <4> QED BY <1>1, <1>2, <2>6, <3>2, <4>2, <4>3
            <3>3. ASSUME ~overlapping', ~diverged' PROVE Replayed'.ok /\ Replayed'.c.docs = corpus'.docs
                <4>1. log = <<>> /\ ~overlapping /\ ~diverged
                    BY <1>1, <2>1, <2>4, <3>3
                <4>2. Replayed'.c = L /\ Replayed'.ok
                    BY <2>3, <2>5, <4>1
                <4>3. Parsed.docs = corpus.docs
                    <5>1. Replayed.c.docs = corpus.docs
                        BY <1>0, <1>2, <4>1 DEF LogFollows
                    <5>2. Replayed = [c |-> Loaded, ok |-> TRUE] /\ Loaded.docs = Parsed.docs
                        BY <4>1, <2>3, ReplayFacts, LoadedFacts DEF Replayed
                    <5> QED BY <5>1, <5>2
                <4>4. Precedes(Parsed, snap[t]) /\ Precedes(snap[t], corpus)
                    BY <1>2, <2>0, <2>1 DEF OrderInv
                <4>5. snap[t].docs = corpus.docs
                    <5>1. /\ snap[t].docs \in Seq(Documents) /\ corpus.docs \in Seq(Documents)
                          /\ DOMAIN snap[t].docs = 1..Len(snap[t].docs) /\ Len(snap[t].docs) \in Nat
                          /\ DOMAIN corpus.docs = 1..Len(corpus.docs) /\ Len(corpus.docs) \in Nat
                        BY <2>0, CorpusFields
                    <5>2. Len(snap[t].docs) = Len(corpus.docs)
                        BY <4>3, <4>4, <5>1 DEF Precedes
                    <5> QED BY <4>4, <5>1, <5>2 DEF Precedes
                <4> QED BY <1>1, <2>2, <4>2, <4>5 DEF SameData, L
            <3> QED BY <3>1, <3>2, <3>3 DEF LogFollows
        <2>8. LogUsable'
            BY <1>0, <1>1, <1>2, <2>1 DEF LogUsable
        <2>9. RestartServes'
            <3> SUFFICES ASSUME R.ok, ~(overlapping' /\ Removes(log)), NEW u \in Protected
                         PROVE  Serves(R.c, u, acked[u])
                BY <1>1, <1>2, <2>3 DEF RestartServes
            <3>0. Serves(corpus, u, acked[u])
                BY <1>0, <1>2 DEF UpServes
            <3>1. ~Removes(log)
                <4>1. CASE wal = <<>>
                    BY <2>4, <4>1 DEF Removes
                <4>2. CASE wal # <<>>
                    BY <2>1, <4>2
                <4> QED BY <4>1, <4>2
            <3>2. \A i \in DOMAIN log : log[i].uri = u => log[i].text = acked[u]
                BY <1>0, <3>1 DEF AddsAcked
            <3>3. IsCorpus(L) /\ \A i, j \in FindByUri(L, u) : i = j
                <4>1. \A i, j \in FindByUri(snap[t], u) : i = j
                    BY <1>0, <1>2 DEF SnapInv
                <4> QED BY <2>2, <4>1 DEF FindByUri, Live, SameData, L
            <3>4. R = ReplayOver(L, log)
                BY DEF R
            <3>a. IF Mentions(log, u) THEN FoundWith(R.c, u, acked[u]) ELSE AgreeOn(R.c, L, u)
                <4>1. OneFound(L, u) /\ AlwaysSays(log, u, acked[u])
                    BY <3>2, <3>3 DEF OneFound, AlwaysSays
                <4> HIDE DEF log
                <4>2. /\ log \in Seq(Records) /\ ~Removes(log) /\ ReplayOver(L, log).ok /\ IsCorpus(L)
                    BY <2>3, <3>1, <3>3, <3>4
                <4> QED BY <3>4, <4>1, <4>2, ReplayAdds
            <3>5. CASE ~Mentions(log, u)
                <4>1. AgreeOn(R.c, L, u)
                    BY <3>a, <3>5
                <4>2. Untouched(u)
                    BY <3>1, <3>5 DEF Untouched, Mentions
                <4>3. AgreeOn(R.c, corpus, u)
                    BY <2>6, <4>1, <4>2, AgreeFacts
                <4> QED BY <3>0, <4>3, AgreeServes
            <3>6. CASE Mentions(log, u)
                <4>1. PICK id : FindByUri(R.c, u) = {id} /\ R.c.docs[id].text = acked[u]
                    BY <3>a, <3>6 DEF FoundWith
                <4>2. acked[u] # NoText
                    <5>1. PICK i \in DOMAIN log : log[i].uri = u
                        BY <3>6 DEF Mentions
                    <5>2. log[i] \in Records /\ log[i].op # "remove_document"
                        BY <2>3, <3>1 DEF Removes
                    <5>3. PICK x \in Uris, y \in Texts : log[i] = AddRecord(x, y)
                        <6>1. ASSUME NEW d \in Nat, log[i] = RemoveRecord(d) PROVE FALSE
                            BY <5>2, <6>1 DEF RemoveRecord
                        <6> QED BY <5>2, <6>1, RecordKinds
                    <5>4. log[i].text = y
                        BY <5>3 DEF AddRecord
                    <5> QED BY <3>2, <5>1, <5>4, CorpusAssumption
                <4> QED BY <4>1, <4>2 DEF Serves
            <3> QED BY <3>5, <3>6
        <2>10. UpServes' /\ AddsAcked'
            BY <1>0, <1>1, <1>2 DEF UpServes, AddsAcked
        <2>11. SnapInv'
            <3> SUFFICES ASSUME NEW x \in Active, NEW u \in Protected
                         PROVE  /\ \A i, j \in FindByUri(snap[x], u) : i = j
                                /\ published' <= snap[x].epoch /\ Untouched(u) => AgreeOn(snap[x], corpus, u)
                BY <1>1, <1>2 DEF SnapInv, Untouched
            <3>1. published' <= snap[x].epoch => published <= snap[x].epoch
                BY <2>0, <2>1
            <3> QED BY <1>0, <3>1 DEF SnapInv
        <2>12. CheckpointInv'
            <3> SUFFICES ASSUME NEW x \in Active, NEW u \in Protected, call[x] = "checkpoint"
                         PROVE  /\ \A y \in Active : snap[x].epoch <= snap[y].epoch => AgreeOn(snap[y], corpus, u)
                                /\ snap[x].epoch <= snap[t].epoch => AgreeOn(Parsed', corpus, u)
                BY <1>1, <1>2, <2>1 DEF CheckpointInv
            <3>1. \A y \in Active : snap[x].epoch <= snap[y].epoch => AgreeOn(snap[y], corpus, u)
                BY <1>0 DEF CheckpointInv
            <3>2. AgreeOn(Parsed', snap[t], u)
                BY <2>2, AgreeFacts
            <3> QED BY <1>2, <3>1, <3>2, AgreeFacts
        <2>13. RefusedOnlyIfDiverged'
            BY <1>1, <1>2 DEF RefusedOnlyIfDiverged
        <2> QED BY <2>7, <2>8, <2>9, <2>10, <2>11, <2>12, <2>13 DEF RestartInv
    <1> QED BY <1>3, <1>4
(* The file has every protected document when the log is truncated. *)
LEMMA TruncateKeeps ==
    ASSUME TypeOK, TypeOK', RestartInv, SaveInv, NEW t \in Savers, Truncate(t)
    PROVE  RestartInv'
    <1>0. LogFollows /\ LogUsable /\ RestartServes /\ UpServes /\ AddsAcked /\ SnapInv /\ CheckpointInv
        BY DEF RestartInv
    <1>1. /\ pc[t] = "saved" /\ call[t] = "checkpoint" /\ AtRest(t) /\ wal' = <<>>
          /\ diverged' = (<<file.docs, file.deleted>> # <<corpus.docs, corpus.deleted>>)
          /\ overlapping' = FALSE
          /\ UNCHANGED <<mode, corpus, file, published, acked, unprotected>>
        BY DEF Truncate
    <1>2. /\ mode = "up" /\ t \in Active /\ Protected' = Protected
          /\ Active' \subseteq Active /\ \A x \in Active' : snap'[x] = snap[x] /\ call'[x] = call[x]
        BY <1>1, AtRestFacts DEF TypeOK, Active, Protected
    <1>3. /\ snap[t].epoch <= published /\ snap[t].epoch \in Nat /\ published \in Nat \cup {-1}
          /\ \A x \in Active : snap[x].epoch \in Nat
        <2>1. \A x \in Active : snap[x] \in Versions
            BY DEF Versions
        <2> QED BY <1>1, <1>2, <2>1, VersionFacts DEF SaveInv, SavedInv
    <1>4. file # NoFile
        BY <1>3 DEF TypeOK
    <1>5. /\ IsCorpus(Loaded) /\ SameData(Loaded, Parsed) /\ Parsed.docs = file.docs
        BY <1>4, LoadedFacts DEF SameData
    <1>6. /\ Readable(<<>>) = <<>> /\ TornAt(<<>>) = {} /\ <<>> \in Seq(Records)
        BY DEF Readable, TornAt
    <1>7. Replayed' = [c |-> Loaded, ok |-> TRUE] /\ Parsed' = Parsed
        <2>1. Loaded' = Loaded /\ Parsed' = Parsed
            BY <1>1, ReplayedLater
        <2>2. ReplayOver(Loaded, <<>>) = [c |-> Loaded, ok |-> TRUE]
            BY <1>5, <1>6, ReplayFacts
        <2> QED BY <1>1, <1>6, <2>1, <2>2 DEF Replayed
    <1>8. ASSUME NEW u \in Protected PROVE AgreeOn(Loaded, corpus, u)
        <2>1. AgreeOn(Parsed, corpus, u) /\ AgreeOn(Loaded, Parsed, u)
            BY <1>0, <1>1, <1>2, <1>3, <1>5, AgreeFacts DEF CheckpointInv
        <2> QED BY <2>1, AgreeFacts
    <1>9. LogFollows'
        <2>1. TornAt(wal') = {}
            BY <1>1, <1>6
        <2>2. \A u \in Protected' : AgreeOn(Replayed'.c, corpus', u)
            BY <1>1, <1>2, <1>7, <1>8
        <2>3. ASSUME ~diverged' PROVE Replayed'.ok /\ Replayed'.c.docs = corpus'.docs
            <3>1. file.docs = corpus.docs
                BY <1>1, <2>3
            <3> QED BY <1>1, <1>5, <1>7, <3>1 DEF SameData
        <2> QED BY <2>1, <2>2, <2>3 DEF LogFollows
    <1>10. LogUsable'
        BY <1>1, <1>2 DEF LogUsable
    <1>11. UpServes'
        BY <1>0, <1>1, <1>2 DEF UpServes
    <1>12. RestartServes'
        <2> SUFFICES ASSUME NEW u \in Protected PROVE Serves(Loaded, u, acked[u])
            BY <1>1, <1>2, <1>7 DEF RestartServes
        <2>1. Serves(corpus, u, acked[u])
            BY <1>0, <1>2 DEF UpServes
        <2> QED BY <1>8, <2>1, AgreeServes
    <1>13. AddsAcked'
        BY <1>1, <1>6 DEF AddsAcked
    <1>14. SnapInv'
        <2> SUFFICES ASSUME NEW x \in Active', NEW u \in Protected
                     PROVE  /\ \A i, j \in FindByUri(snap[x], u) : i = j
                            /\ published <= snap[x].epoch => AgreeOn(snap[x], corpus, u)
            BY <1>1, <1>2 DEF SnapInv
        <2>1. \A i, j \in FindByUri(snap[x], u) : i = j
            BY <1>0, <1>2 DEF SnapInv
        <2>2. ASSUME published <= snap[x].epoch PROVE AgreeOn(snap[x], corpus, u)
            <3>1. snap[t].epoch <= snap[x].epoch
                BY <1>2, <1>3, <2>2
            <3> QED BY <1>0, <1>1, <1>2, <3>1 DEF CheckpointInv
        <2> QED BY <2>1, <2>2
    <1>15. CheckpointInv'
        <2> SUFFICES ASSUME NEW x \in Active', NEW u \in Protected, call[x] = "checkpoint"
                     PROVE  /\ \A y \in Active' : snap[x].epoch <= snap[y].epoch => AgreeOn(snap[y], corpus, u)
                            /\ snap[x].epoch <= published => AgreeOn(Parsed, corpus, u)
            BY <1>1, <1>2, <1>7 DEF CheckpointInv
        <2> QED BY <1>0, <1>2 DEF CheckpointInv
    <1>16. RefusedOnlyIfDiverged'
        BY <1>1, <1>2 DEF RefusedOnlyIfDiverged
    <1> QED BY <1>9, <1>10, <1>11, <1>12, <1>13, <1>14, <1>15, <1>16 DEF RestartInv

(* Loading after a crash finds the documents that loading in the same process
   finds. *)
LEMMA DownReplays ==
    ASSUME TypeOK, TypeOK', Down, published' \in {published, -1}, NEW log \in Seq(Records)
    PROVE  /\ IsCorpus(Loaded') /\ IsReplayed(ReplayOver(Loaded', log))
           /\ SameData(ReplayOver(Loaded', log).c, ReplayOver(Loaded, log).c)
           /\ ReplayOver(Loaded', log).ok = ReplayOver(Loaded, log).ok
    <1>1. Parsed' = Parsed
        BY DownFacts, SameParsed
    <1>2. IsCorpus(Loaded) /\ SameData(Loaded, Parsed)
        BY LoadedFacts DEF SameData
    <1>3. IsCorpus(Loaded') /\ SameData(Loaded', Parsed')
        <2>1. (IsCorpus(Loaded) /\ Loaded.docs = Parsed.docs /\ Loaded.deleted = Parsed.deleted)'
            BY LoadedFacts, PTL
        <2> QED BY <2>1 DEF SameData
    <1>4. SameData(Loaded', Loaded)
        BY <1>1, <1>2, <1>3 DEF SameData
    <1> QED BY <1>2, <1>3, <1>4, ReplayFacts, ReplayBases

(* A process that ends leaves a log that can be used as before. *)
LEMMA DownKeeps ==
    ASSUME TypeOK, TypeOK', RestartInv, mode = "up", Down, published' \in {published, -1},
           unprotected' = unprotected, wal' \in {wal, Append(wal, Torn)}
    PROVE  RestartInv'
    <1>0. LogFollows /\ LogUsable /\ RestartServes /\ UpServes /\ AddsAcked
        BY DEF RestartInv
    <1>1. /\ mode' = "down" /\ UNCHANGED <<file, acked, diverged, overlapping>>
          /\ Active' = {} /\ Protected' = Protected
        BY DownFacts DEF Active, Protected
    <1>2. wal \in Seq(Records \cup {Torn}) /\ Readable(wal) \in Seq(Records)
        BY ReadableFacts DEF TypeOK
    <1>3. Readable(wal') = Readable(wal)
        BY <1>2, ReadableAppend
    <1>4. /\ IsReplayed(Replayed') /\ SameData(Replayed'.c, Replayed.c) /\ Replayed'.ok = Replayed.ok
        BY <1>2, <1>3, DownReplays DEF Replayed
    <1>5. LogUsable'
        <2>1. wal # <<>> => wal' # <<>>
            BY <1>2
        <2>2. ASSUME ~diverged, ~overlapping PROVE Replayed'.ok /\ ~CorruptInterior'
            <3>1. Replayed.ok /\ TornAt(wal) = {}
                BY <1>0, <2>2 DEF LogFollows
            <3>2. ASSUME NEW i \in TornAt(wal'), i < Len(wal') PROVE FALSE
                <4>1. CASE wal' = wal
                    BY <3>1, <3>2, <4>1
                <4>2. CASE wal' = Append(wal, Torn)
                    <5>1. i \in DOMAIN wal /\ wal'[i] = wal[i]
                        BY <1>2, <3>2, <4>2 DEF TornAt
                    <5>2. i \in TornAt(wal)
                        BY <3>2, <5>1 DEF TornAt
                    <5> QED BY <3>1, <5>2
                <4> QED BY <4>1, <4>2
            <3> QED BY <1>4, <3>1, <3>2 DEF CorruptInterior
        <2> QED BY <1>0, <1>1, <2>1, <2>2 DEF LogUsable
    <1>6. RestartServes'
        <2> SUFFICES ASSUME Replayed.ok, ~(overlapping /\ Removes(Readable(wal))), NEW u \in Protected
                     PROVE  Serves(Replayed'.c, u, acked[u])
            BY <1>1, <1>3, <1>4 DEF RestartServes
        <2>1. Serves(Replayed.c, u, acked[u])
            BY <1>0 DEF RestartServes
        <2>2. AgreeOn(Replayed'.c, Replayed.c, u)
            BY <1>4, AgreeFacts
        <2> QED BY <2>1, <2>2, AgreeServes
    <1>7. AddsAcked'
        BY <1>0, <1>1, <1>3 DEF AddsAcked
    <1> QED BY <1>1, <1>5, <1>6, <1>7
            DEF RestartInv, LogFollows, UpServes, SnapInv, CheckpointInv, RefusedOnlyIfDiverged

(* The first record of an upsert alone is a removal of its document. *)
LEMMA CrashInUpsertKeeps ==
    ASSUME TypeOK, TypeOK', RestartInv, NEW u \in Uris, CrashInUpsert(u)
    PROVE  RestartInv'
    <1>0. LogFollows /\ LogUsable /\ RestartServes /\ UpServes /\ AddsAcked
        BY DEF RestartInv
    <1>1. /\ mode = "up" /\ Down /\ published' \in {published, -1}
          /\ unprotected' = unprotected \cup {u}
        BY DEF CrashInUpsert
    <1>2. /\ mode' = "down" /\ UNCHANGED <<file, acked, diverged, overlapping>>
          /\ Active' = {} /\ Protected' = Protected \ {u}
        BY <1>1, DownFacts DEF Active, Protected
    <1>3. PICK id \in FindByUri(corpus, u) :
            /\ RemoveRecord(id) \in Records /\ id \in Nat
            /\ wal' = Append(wal, RemoveRecord(id))
        BY CrashInUpsertFacts
    <1> DEFINE record == RemoveRecord(id)
    <1>4. wal \in Seq(Records \cup {Torn}) /\ Readable(wal) \in Seq(Records)
        BY ReadableFacts DEF TypeOK
    <1> DEFINE z == ReplayOver(Loaded', Readable(wal))
    <1>5. IsCorpus(Loaded') /\ IsReplayed(z) /\ SameData(z.c, Replayed.c) /\ z.ok = Replayed.ok
        BY <1>1, <1>4, DownReplays DEF Replayed
    <1>6. CASE TornAt(wal) # {}
        <2>1. Readable(wal') = Readable(wal)
            BY <1>3, <1>4, <1>6, ReadableAppend
        <2>2. SameData(Replayed'.c, Replayed.c) /\ Replayed'.ok = Replayed.ok
            BY <1>5, <2>1 DEF Replayed
        <2>3. LogUsable'
            <3>1. diverged /\ wal' # <<>>
                BY <1>0, <1>1, <1>3, <1>4, <1>6 DEF LogFollows
            <3> QED BY <1>2, <3>1 DEF LogUsable
        <2>4. RestartServes'
            <3> SUFFICES ASSUME Replayed.ok, ~(overlapping /\ Removes(Readable(wal))), NEW v \in Protected
                         PROVE  Serves(Replayed'.c, v, acked[v])
                BY <1>2, <2>1, <2>2 DEF RestartServes
            <3>1. Serves(Replayed.c, v, acked[v])
                BY <1>0, <1>1 DEF RestartServes
            <3>2. AgreeOn(Replayed'.c, Replayed.c, v)
                BY <2>2, AgreeFacts
            <3> QED BY <3>1, <3>2, AgreeServes
        <2>5. AddsAcked'
            BY <1>0, <1>2, <2>1 DEF AddsAcked
        <2> QED BY <1>2, <2>3, <2>4, <2>5
                DEF RestartInv, LogFollows, UpServes, SnapInv, CheckpointInv, RefusedOnlyIfDiverged
    <1>7. CASE TornAt(wal) = {}
        <2>1. record # Torn
            BY <1>3, CorpusAssumption
        <2>2. /\ TornAt(wal') = {} /\ Readable(wal') = Append(Readable(wal), record)
            BY <1>3, <1>4, <1>7, <2>1, ReadableAppend
        <2>3. Replayed' = ReplayRecord(z, record)
            BY <1>3, <1>4, <1>5, <2>2, ReplayAppend DEF Replayed
        <2> HIDE DEF z
        <2>4. Replayed'.ok = Replayed.ok
            <3>1. ReplayRecord(z, RemoveRecord(id)).ok = z.ok
                BY <1>3, <1>5, ReplayRemoval
            <3> QED BY <1>5, <2>3, <3>1
        <2>5. Removes(Readable(wal'))
            <3>1. /\ Len(Readable(wal)) + 1 \in DOMAIN Readable(wal')
                  /\ Readable(wal')[Len(Readable(wal)) + 1] = record
                BY <1>3, <1>4, <2>2
            <3>2. record.op = "remove_document"
                BY DEF RemoveRecord
            <3> QED BY <3>1, <3>2 DEF Removes
        <2>6. LogUsable'
            <3>1. wal' # <<>>
                BY <1>3, <1>4
            <3>2. ASSUME ~diverged, ~overlapping PROVE Replayed'.ok
                BY <1>0, <1>1, <2>4, <3>2 DEF LogFollows
            <3> QED BY <1>2, <2>2, <3>1, <3>2 DEF LogUsable, CorruptInterior
        <2>7. RestartServes'
            <3> SUFFICES ASSUME Replayed'.ok, ~overlapping, NEW v \in Protected, v # u
                         PROVE  Serves(Replayed'.c, v, acked[v])
                BY <1>2, <2>5 DEF RestartServes
            <3>1. Replayed.ok
                BY <2>4
            <3>2. Serves(Replayed.c, v, acked[v]) /\ AgreeOn(Replayed.c, corpus, v)
                BY <1>0, <1>1, <3>1 DEF RestartServes, LogFollows
            <3>3. AgreeOn(z.c, Replayed.c, v)
                BY <1>5, AgreeFacts
            <3>4. AgreeOn(z.c, corpus, v)
                BY <3>2, <3>3, AgreeFacts
            <3>5. id \in DOMAIN z.c.docs => z.c.docs[id].uri # v
                <4>1. corpus.docs[id].uri = u
                    BY DEF FindByUri
                <4>2. id \notin Named(corpus, v)
                    BY <4>1 DEF Named
                <4> QED BY <3>4, <4>2 DEF AgreeOn, Named
            <3>6. AgreeOn(Replayed'.c, z.c, v)
                BY <1>3, <1>5, <2>3, <3>5, RemovalEffects
            <3>7. AgreeOn(Replayed'.c, Replayed.c, v)
                BY <3>3, <3>6, AgreeFacts
            <3> QED BY <3>2, <3>7, AgreeServes
        <2>8. AddsAcked'
            BY <2>5 DEF AddsAcked
        <2> QED BY <1>2, <2>6, <2>7, <2>8
                DEF RestartInv, LogFollows, UpServes, SnapInv, CheckpointInv, RefusedOnlyIfDiverged
    <1> QED BY <1>6, <1>7

(* A corpus that was opened is what its log and file say. *)
LEMMA OpenKeeps ==
    ASSUME TypeOK, TypeOK', RestartInv, Open
    PROVE  RestartInv'
    <1>0. LogFollows /\ LogUsable /\ RestartServes /\ UpServes /\ AddsAcked
        BY DEF RestartInv
    <1>1. /\ mode = "down" /\ Replayed.ok /\ mode' = "up"
          /\ diverged' = (TornAt(wal) # {})
          /\ unprotected' = (IF overlapping /\ Removes(Readable(wal)) THEN Uris ELSE unprotected)
          /\ UNCHANGED <<wal, file, published, savers, acked, overlapping>>
        BY DEF Open
    <1>2. Replayed' = Replayed /\ SameData(corpus', Replayed.c)
        BY <1>1, ReplayedLater, ReplayedIs, OpenFacts
    <1>3. Active' = {} /\ Protected' \subseteq Protected
          /\ (overlapping /\ Removes(Readable(wal)) => Protected' = {})
        BY <1>1 DEF Active, Protected, savers, TypeOK
    <1>4. LogFollows'
        <2>1. \A u : AgreeOn(Replayed.c, corpus', u)
            BY <1>2, AgreeFacts
        <2> QED BY <1>1, <1>2, <2>1 DEF LogFollows, SameData
    <1>5. LogUsable'
        BY <1>0, <1>1 DEF LogUsable
    <1>6. ASSUME NEW u \in Protected' PROVE Serves(Replayed.c, u, acked[u])
        BY <1>0, <1>1, <1>3, <1>6 DEF RestartServes
    <1>7. RestartServes'
        BY <1>1, <1>2, <1>6 DEF RestartServes
    <1>8. UpServes'
        <2> SUFFICES ASSUME NEW u \in Protected' PROVE Serves(corpus', u, acked[u])
            BY <1>1 DEF UpServes
        <2>1. AgreeOn(corpus', Replayed.c, u)
            BY <1>2, AgreeFacts
        <2> QED BY <1>6, <2>1, AgreeServes
    <1>9. AddsAcked'
        BY <1>0, <1>1, <1>3 DEF AddsAcked
    <1> QED BY <1>1, <1>3, <1>4, <1>5, <1>7, <1>8, <1>9
            DEF RestartInv, SnapInv, CheckpointInv, RefusedOnlyIfDiverged

(* A log is refused only if something went wrong before. *)
LEMMA OpenRefusedKeeps ==
    ASSUME TypeOK, TypeOK', RestartInv, OpenRefused
    PROVE  RestartInv'
    <1>0. LogUsable /\ AddsAcked
        BY DEF RestartInv
    <1>1. /\ mode = "down" /\ mode' = "refused" /\ (~Replayed.ok \/ CorruptInterior)
          /\ UNCHANGED <<wal, file, published, savers, acked, unprotected, diverged, overlapping>>
        BY DEF OpenRefused, history
    <1>2. Active' = {} /\ Protected' = Protected
        BY <1>1 DEF Active, Protected, savers, TypeOK
    <1>3. RefusedOnlyIfDiverged'
        BY <1>0, <1>1 DEF RefusedOnlyIfDiverged, LogUsable
    <1>4. LogUsable' /\ AddsAcked'
        BY <1>0, <1>1, <1>2 DEF LogUsable, AddsAcked
    <1> QED BY <1>1, <1>2, <1>3, <1>4
            DEF RestartInv, LogFollows, RestartServes, UpServes, SnapInv, CheckpointInv

(* The invariant holds initially ... *)
LEMMA InitRestartInv == Init => RestartInv
    <1> SUFFICES ASSUME Init PROVE RestartInv
        OBVIOUS
    <1>0. TypeOK
        BY InitTypeOK
    <1>1. /\ mode = "up" /\ corpus = Empty /\ wal = <<>> /\ file = NoFile /\ published = -1
          /\ ~overlapping /\ Active = {} /\ \A u \in Uris : acked[u] = NoText
        BY DEF Init, Active
    <1>2. /\ Readable(<<>>) = <<>> /\ TornAt(<<>>) = {} /\ <<>> \in Seq(Records)
        BY DEF Readable, TornAt
    <1>3. /\ IsCorpus(Loaded) /\ Loaded.docs = <<>> /\ Loaded.deleted = {}
        BY <1>0, <1>1, LoadedFacts
    <1>4. Replayed = [c |-> Loaded, ok |-> TRUE]
        <2>1. ReplayOver(Loaded, <<>>) = [c |-> Loaded, ok |-> TRUE]
            BY <1>2, <1>3, ReplayFacts
        <2> QED BY <1>1, <1>2, <2>1 DEF Replayed
    <1>5. Empty.docs = <<>> /\ Empty.deleted = {} /\ SameData(Loaded, corpus)
        BY <1>1, <1>3, EmptyFacts DEF SameData
    <1>6. LogFollows
        BY <1>1, <1>2, <1>4, <1>5, AgreeFacts DEF LogFollows, SameData
    <1>7. LogUsable
        BY <1>1 DEF LogUsable
    <1>8. \A u : FindByUri(corpus, u) = {} /\ FindByUri(Loaded, u) = {}
        BY <1>1, <1>3, <1>5 DEF FindByUri, Live
    <1>9. RestartServes /\ UpServes
        BY <1>1, <1>4, <1>8 DEF RestartServes, UpServes, Serves, Protected
    <1>10. AddsAcked
        BY <1>1, <1>2 DEF AddsAcked
    <1> QED BY <1>1, <1>6, <1>7, <1>9, <1>10
            DEF RestartInv, SnapInv, CheckpointInv, RefusedOnlyIfDiverged

(* ... and is kept by every step. *)
LEMMA NextRestartInv ==
    ASSUME TypeOK, TypeOK', SaveInv, RestartInv, [Next]_vars
    PROVE  RestartInv'
    <1>1. CASE Mutate
        BY <1>1, MutationKeeps
    <1>2. CASE Build
        BY <1>2, BuildKeeps
    <1>3. ASSUME NEW t \in Savers, NEW kind \in {"save", "checkpoint"}, Snapshot(t, kind)
          PROVE  RestartInv'
        BY <1>3, SnapshotKeeps
    <1>4. ASSUME NEW t \in Savers, Publish(t) PROVE RestartInv'
        BY <1>4, PublishKeeps
    <1>5. ASSUME NEW t \in Savers, PublishFails(t) \/ SaveReturns(t) \/ TruncateFails(t) PROVE RestartInv'
        BY <1>5, RestKeeps
    <1>6. ASSUME NEW t \in Savers, Truncate(t) PROVE RestartInv'
        BY <1>6, TruncateKeeps
    <1>7. CASE Crash \/ Close
        <2>1. /\ mode = "up" /\ Down /\ published' \in {published, -1}
              /\ unprotected' = unprotected /\ wal' \in {wal, Append(wal, Torn)}
            BY <1>7 DEF Crash, Close
        <2> QED BY <2>1, DownKeeps
    <1>8. ASSUME NEW u \in Uris, CrashInUpsert(u) PROVE RestartInv'
        BY <1>8, CrashInUpsertKeeps
    <1>9. CASE Open
        BY <1>9, OpenKeeps
    <1>10. CASE OpenRefused
        BY <1>10, OpenRefusedKeeps
    <1>11. CASE UNCHANGED vars
        <2>1. UNCHANGED <<mode, corpus, wal, file, published, pc, call, snap, acked,
                          unprotected, diverged, overlapping>>
            BY <1>11 DEF vars
        <2>2. /\ Replayed' = Replayed /\ Parsed' = Parsed /\ Protected' = Protected /\ Active' = Active
            BY <2>1, ReplayedLater, ReplayedIs DEF Protected, Active
        <2>3. LogFollows' = LogFollows /\ LogUsable' = LogUsable /\ RestartServes' = RestartServes
            BY <2>1, <2>2 DEF LogFollows, LogUsable, RestartServes, CorruptInterior
        <2>4. UpServes' = UpServes /\ AddsAcked' = AddsAcked /\ SnapInv' = SnapInv
              /\ CheckpointInv' = CheckpointInv /\ RefusedOnlyIfDiverged' = RefusedOnlyIfDiverged
            BY <2>1, <2>2 DEF UpServes, AddsAcked, SnapInv, Untouched, CheckpointInv, RefusedOnlyIfDiverged
        <2> QED BY <2>3, <2>4 DEF RestartInv
    <1> QED BY <1>1, <1>2, <1>3, <1>4, <1>5, <1>6, <1>7, <1>8, <1>9, <1>10, <1>11 DEF Next, Mutate
(* Searches find the live documents that have a chunk. *)
LEMMA HitsAreLive ==
    ASSUME NEW c, IsCorpus(c)
    PROVE  {h[1] : h \in LexicalHits(c)} = {id \in Live(c) : ChunkCount[c.docs[id].text] > 0}
    <1>0. /\ DOMAIN c.docs \subseteq Nat /\ \A id \in DOMAIN c.docs : c.docs[id] \in Documents
        BY CorpusFields
    <1>1. \A id \in DOMAIN c.docs : ChunkCount[c.docs[id].text] \in Nat
        BY <1>0, CorpusAssumption DEF Documents
    <1>2. ASSUME NEW h \in LexicalHits(c)
          PROVE  h[1] \in Live(c) /\ ChunkCount[c.docs[h[1]].text] > 0
        <2>1. PICK id \in DOMAIN c.docs : h \in ChunksOf(c, id)
            BY DEF LexicalHits, Chunks
        <2>2. h[1] = id /\ h[2] \in 1..ChunkCount[c.docs[id].text]
            BY <2>1 DEF ChunksOf
        <2> QED BY <1>1, <2>1, <2>2 DEF LexicalHits, Live
    <1>3. ASSUME NEW id \in Live(c), ChunkCount[c.docs[id].text] > 0
          PROVE  \E h \in LexicalHits(c) : h[1] = id
        <2>1. id \in DOMAIN c.docs /\ id \notin c.deleted
            BY DEF Live
        <2>2. 1 \in 1..ChunkCount[c.docs[id].text]
            BY <1>1, <1>3, <2>1
        <2>3. <<id, 1>> \in ChunksOf(c, id) /\ <<id, 1>>[1] = id
            BY <2>2 DEF ChunksOf
        <2>4. <<id, 1>> \in LexicalHits(c)
            BY <2>1, <2>3 DEF LexicalHits, Chunks
        <2> QED BY <2>3, <2>4
    <1> QED BY <1>2, <1>3

(* It says what RestartKeeps says. *)
LEMMA RestartInvSays ==
    ASSUME TypeOK, RestartInv
    PROVE  RestartKeeps
    <1>0. IsCorpus(corpus) /\ UpServes /\ RefusedOnlyIfDiverged
        BY DEF TypeOK, RestartInv
    <1>1. SurvivesRestart
        <2> SUFFICES ASSUME mode = "up", NEW u \in Uris \ unprotected
                     PROVE  /\ Served(u) = {t \in {acked[u]} \ {NoText} : ChunkCount[t] > 0}
                            /\ Cardinality(FindByUri(corpus, u)) <= 1
            BY DEF SurvivesRestart
        <2>1. Serves(corpus, u, acked[u])
            BY <1>0 DEF UpServes, Protected
        <2> DEFINE F == FindByUri(corpus, u)
                   found == {id \in F : ChunkCount[corpus.docs[id].text] > 0}
        <2>2. Served(u) = {corpus.docs[id].text : id \in found}
            <3>1. {h[1] : h \in LexicalHits(corpus)} \cap {i \in DOMAIN corpus.docs : corpus.docs[i].uri = u}
                    = found
                BY <1>0, HitsAreLive DEF FindByUri, Live
            <3> QED BY <3>1 DEF Served
        <2>3. CASE acked[u] = NoText
            <3>1. F = {}
                BY <2>1, <2>3 DEF Serves
            <3>2. found = {} /\ Cardinality(F) = 0
                BY <3>1, FS_EmptySet
            <3> QED BY <2>2, <2>3, <3>2
        <2>4. CASE acked[u] # NoText
            <3>1. PICK id \in F : F = {id} /\ corpus.docs[id].text = acked[u]
                BY <2>1, <2>4 DEF Serves
            <3>2. Cardinality(F) = 1
                BY <3>1, FS_Singleton
            <3>3. {corpus.docs[i].text : i \in found} = {t \in {acked[u]} \ {NoText} : ChunkCount[t] > 0}
                BY <2>4, <3>1
            <3> QED BY <2>2, <3>2, <3>3
        <2> QED BY <2>3, <2>4
    <1>2. GraphFindsLive
        <2> SUFFICES ASSUME corpus.graph.built, NEW id \in Live(corpus),
                            NEW h \in ChunksOf(corpus, id), h \in corpus.graph.nodes
                     PROVE  h \in DenseHits(corpus)
            BY DEF GraphFindsLive
        <2>1. h[1] = id /\ id \notin corpus.deleted
            BY DEF ChunksOf, Live
        <2>2. h \notin corpus.graph.removed
            BY <1>0, <2>1 DEF IsCorpus
        <2> QED BY <2>2 DEF DenseHits
    <1> QED BY <1>0, <1>1, <1>2 DEF RestartKeeps

(* All invariants hold throughout. *)
LEMMA RestartsSafe == Spec => [](TypeOK /\ SaveInv /\ RestartInv)
    <1>1. TypeOK /\ SaveInv /\ RestartInv /\ [Next]_vars => (TypeOK /\ SaveInv /\ RestartInv)'
        BY NextTypeOK, NextSaveInv, NextRestartInv
    <1> QED BY InitTypeOK, InitSaveInv, InitRestartInv, <1>1, PTL DEF Spec

(* A restart keeps the corpus: a log is refused only after a mutation failed
   half-way or over a file that has a part of it, and the running corpus
   serves exactly what was acknowledged of every protected document. *)
THEOREM RestartsKeep == Spec => []RestartKeeps
    <1>1. TypeOK /\ SaveInv /\ RestartInv => RestartKeeps
        BY RestartInvSays
    <1> QED BY RestartsSafe, <1>1, PTL
=============================================================================
