------------------------ MODULE EmbeddedBackendProofs ------------------------
(***************************************************************************)
(* Proofs about EmbeddedBackend, for any documents, chunks, embeddings,    *)
(* policies and numbers of threads: the two tiers of the dense index stay  *)
(* consistent, the checkpoint on disk can be opened, searches show what    *)
(* was published, and the backend implements RevisionedBackend.            *)
(***************************************************************************)
EXTENDS EmbeddedBackend, TLAPS

(* A generation whose dense index can be searched and updated.  A chunk    *)
(* that the base does not show is in the delta, and its document is one of *)
(* delta_documents: that is why it also gets into the delta of the next    *)
(* generation, which is built from delta_documents and not from the delta. *)
GenerationInv(g) ==
    /\ \A k \in Chunks(g.docs) : \/ contains_base(g, k)
                                 \/ Owner[k] \in g.inDelta /\ k \in DOMAIN g.delta
    /\ g.dead \subseteq DOMAIN g.base
    /\ Compatible(g.docs)
    /\ g.dim = 0 \/ Dimension(g.docs) \in {0, g.dim}

(* A search in whose time nothing was published holds active chunks only.  *)
SearchInv(s, docs, revs) ==
    /\ \A d \in Doc : s.since[d] <= revs[d]
    /\ s.since = revs => s.keys \subseteq Chunks(docs) /\ ~s.failed
    /\ \A k \in Key : s.result[k] # NoDoc => s.result[k].rev >= s.since[Owner[k]]

BackendInv ==
    /\ TypeOK
    /\ GenerationInv(active)
    /\ Consistent(active.docs, latest)
    /\ \A t \in Thread : pc[t] = "save" => Compatible(snap[t].docs)
    /\ Loadable(file)
    /\ \A r \in Reader : SearchInv(search[r], active.docs, latest)
-----------------------------------------------------------------------------
(* Operators on generations                                                *)

(* Rows are functions from chunk keys to embeddings.                       *)
LEMMA RowsFacts ==
    /\ \A rows \in Rows : /\ DOMAIN rows \subseteq Key
                          /\ \A k \in DOMAIN rows : rows[k] \in Vec
    /\ \A keys \in SUBSET Key : \A rows \in [keys -> Vec] : rows \in Rows
    /\ NoRows \in Rows /\ DOMAIN NoRows = {}
    <1>1. ASSUME NEW keys \in SUBSET Key, NEW rows \in [keys -> Vec]
          PROVE  rows \in Rows
        BY <1>1 DEF Rows
    <1>2. ASSUME NEW rows \in Rows
          PROVE  DOMAIN rows \subseteq Key /\ \A k \in DOMAIN rows : rows[k] \in Vec
        <2>1. PICK keys \in SUBSET Key : rows \in [keys -> Vec]
            BY <1>2 DEF Rows
        <2> QED BY <2>1
    <1>3. NoRows \in [{} -> Vec] /\ DOMAIN NoRows = {}
        BY DEF NoRows
    <1> QED BY <1>1, <1>2, <1>3

Catalogs == [Doc -> Active \cup {NoDoc}]

(* A chunk of a catalog is a row of the document that owns it.             *)
LEMMA ChunkFacts ==
    ASSUME NEW docs \in Catalogs, NEW k \in Chunks(docs)
    PROVE  /\ k \in Key /\ Owner[k] \in Live(docs) /\ docs[Owner[k]] \in Active
           /\ docs[Owner[k]].doc \in Prepared /\ Embedding(docs, k) \in Vec
    <1>1. k \in Key /\ Owner[k] \in Doc /\ docs[Owner[k]] # NoDoc
        BY BackendConstants DEF Chunks
    <1>2. docs[Owner[k]] \in Active
        BY <1>1 DEF Catalogs
    <1>3. docs[Owner[k]].doc \in Prepared
        BY <1>2 DEF Active
    <1>4. docs[Owner[k]].doc.rows \in Rows
        BY <1>3 DEF Prepared
    <1>5. k \in DOMAIN docs[Owner[k]].doc.rows
        BY DEF Chunks
    <1>6. Embedding(docs, k) \in Vec
        BY <1>4, <1>5, RowsFacts DEF Embedding
    <1> QED BY <1>1, <1>2, <1>3, <1>6 DEF Live

(* The rows of a catalog, or some of them, are rows.                       *)
LEMMA SomeRows ==
    ASSUME NEW docs \in Catalogs, NEW keys \in SUBSET Chunks(docs)
    PROVE  [k \in keys |-> Embedding(docs, k)] \in Rows
    <1>1. keys \in SUBSET Key
        BY DEF Chunks
    <1>2. [k \in keys |-> Embedding(docs, k)] \in [keys -> Vec]
        BY ChunkFacts
    <1> QED BY <1>1, <1>2, RowsFacts

(* The dimension of a catalog is the one of any live document, as its      *)
(* documents have one identity.                                            *)
LEMMA DimensionFacts ==
    ASSUME NEW docs \in Catalogs
    PROVE  /\ Dimension(docs) \in Nat
           /\ Chunks(docs) = {} => Dimension(docs) = 0
           /\ Compatible(docs) => \A k \in Chunks(docs) :
                 Dimension(docs) = Dim[docs[Owner[k]].doc.ident] /\ Dimension(docs) # 0
    <1>1. CASE Chunks(docs) = {}
        BY <1>1 DEF Dimension
    <1>2. CASE Chunks(docs) # {}
        <2> DEFINE c == CHOOSE k \in Chunks(docs) : TRUE
        <2>1. c \in Chunks(docs)
            BY <1>2
        <2>2. Dimension(docs) = Dim[docs[Owner[c]].doc.ident]
            BY <1>2 DEF Dimension
        <2> HIDE DEF c
        <2>3. Owner[c] \in Live(docs) /\ docs[Owner[c]].doc \in Prepared
            BY <2>1, ChunkFacts
        <2>4. docs[Owner[c]].doc.ident \in Identity
            BY <2>3 DEF Prepared
        <2>5. Dimension(docs) \in Nat \ {0}
            BY <2>2, <2>4, BackendConstants
        <2>6. ASSUME Compatible(docs), NEW k \in Chunks(docs)
              PROVE  docs[Owner[k]].doc.ident = docs[Owner[c]].doc.ident
            <3>1. Owner[k] \in Live(docs)
                BY ChunkFacts
            <3> QED BY <2>3, <2>6, <3>1 DEF Compatible
        <2> QED BY <1>2, <2>2, <2>5, <2>6
    <1> QED BY <1>1, <1>2

(* The fields of a generation.                                             *)
LEMMA GenerationFacts ==
    ASSUME NEW g \in Generation
    PROVE  /\ g.docs \in Catalogs /\ g.inDelta \subseteq Doc /\ g.base \in Rows /\ g.dim \in Nat
           /\ g.dead \subseteq Key /\ g.delta \in Rows /\ g.number \in Nat
    BY DEF Generation, Catalogs

(* A publication builds a generation.                                      *)
LEMMA BuiltType ==
    ASSUME NEW g \in Generation, NEW docs \in Catalogs, NEW inDelta \in SUBSET Doc,
           NEW dead \in SUBSET Key
    PROVE  build_generation(g, docs, inDelta, dead) \in Generation
    <1>1. DeltaRows(g, docs, inDelta) \in Rows
        <2> DEFINE keys == {c \in Chunks(docs) : Owner[c] \in inDelta /\ ~contains_base(g, c)}
        <2>1. keys \in SUBSET Chunks(docs)
            OBVIOUS
        <2>2. DeltaRows(g, docs, inDelta) = [k \in keys |-> Embedding(docs, k)]
            BY DEF DeltaRows
        <2> HIDE DEF keys
        <2> QED BY <2>1, <2>2, SomeRows
    <1>2. g.base \in Rows /\ g.dim \in Nat /\ g.number + 1 \in Nat
        BY GenerationFacts
    <1> QED BY <1>1, <1>2 DEF build_generation, Generation, Catalogs

(* So does a compaction.                                                   *)
LEMMA CompactedType ==
    ASSUME NEW g, g.docs \in Catalogs, g.number \in Nat
    PROVE  CompactedGeneration(g) \in Generation
    <1>1. AllRows(g.docs) \in Rows
        BY SomeRows DEF AllRows
    <1>2. Dimension(g.docs) \in Nat
        BY DimensionFacts
    <1> QED BY <1>1, <1>2, RowsFacts DEF CompactedGeneration, Generation, Catalogs

(* A compacted generation has every row in its base.                       *)
LEMMA CompactedInv ==
    ASSUME NEW g, g.docs \in Catalogs, Compatible(g.docs)
    PROVE  GenerationInv(CompactedGeneration(g))
    <1> DEFINE h == CompactedGeneration(g)
    <1>1. /\ h.docs = g.docs /\ h.base = AllRows(g.docs) /\ h.dead = {}
          /\ h.dim = Dimension(g.docs)
        BY DEF CompactedGeneration
    <1>2. DOMAIN h.base = Chunks(g.docs)
        BY <1>1 DEF AllRows
    <1> SUFFICES GenerationInv(h)
        OBVIOUS
    <1> HIDE DEF h
    <1> QED BY <1>1, <1>2 DEF GenerationInv, contains_base
-----------------------------------------------------------------------------
(* Publications                                                            *)

(* The catalog after a publication for d: x is the new version or NoDoc.   *)
LEMMA CatalogStep ==
    ASSUME NEW docs \in Catalogs, NEW d \in Doc, NEW x \in Active \cup {NoDoc},
           NEW next, next = [docs EXCEPT ![d] = x]
    PROVE  /\ next \in Catalogs /\ next[d] = x /\ \A e \in Doc \ {d} : next[e] = docs[e]
           /\ \A k \in Key : Owner[k] # d => (k \in Chunks(next) <=> k \in Chunks(docs))
           /\ \A k \in Key : Owner[k] = d =>
                 (k \in Chunks(next) <=> x # NoDoc /\ k \in DOMAIN x.doc.rows)
    <1>1. /\ next \in Catalogs /\ next[d] = x /\ \A e \in Doc \ {d} : next[e] = docs[e]
        BY DEF Catalogs
    <1>2. \A k \in Key : Owner[k] \in Doc
        BY BackendConstants
    <1> QED BY <1>1, <1>2 DEF Chunks

(* The tombstones an update adds hide the rows the document had and has no *)
(* longer; all other base rows stay visible.                               *)
LEMMA BuiltInv ==
    ASSUME active \in Generation, GenerationInv(active),
           NEW d \in Doc, NEW x \in Active \cup {NoDoc},
           NEW docs, docs = [active.docs EXCEPT ![d] = x], Compatible(docs),
           NEW inDelta \in SUBSET Doc, active.inDelta \ {d} \subseteq inDelta,
           x # NoDoc => d \in inDelta,
           NEW keys, x # NoDoc => keys = DOMAIN x.doc.rows,
           NEW dead, dead = active.dead \cup Replaced(d, keys),
           with_delta_accepts(active, docs, DeltaRows(active, docs, inDelta), dead)
    PROVE  GenerationInv(build_generation(active, docs, inDelta, dead))
    <1> DEFINE h == build_generation(active, docs, inDelta, dead)
    <1>1. /\ h.docs = docs /\ h.inDelta = inDelta /\ h.base = active.base /\ h.dim = active.dim
          /\ h.dead = dead /\ h.delta = DeltaRows(active, docs, inDelta)
        BY DEF build_generation
    <1>2. active.docs \in Catalogs
        BY GenerationFacts
    <1>3. /\ \A k \in Key : Owner[k] # d => (k \in Chunks(docs) <=> k \in Chunks(active.docs))
          /\ \A k \in Key : Owner[k] = d =>
                 (k \in Chunks(docs) <=> x # NoDoc /\ k \in DOMAIN x.doc.rows)
        BY <1>2, CatalogStep
    <1>4. DOMAIN h.delta = {k \in Chunks(docs) : Owner[k] \in inDelta /\ ~contains_base(active, k)}
        BY <1>1 DEF DeltaRows
    <1>5. \A k \in Replaced(d, keys) : Owner[k] = d /\ k \notin keys
        BY DEF Replaced
    <1> SUFFICES GenerationInv(h)
        OBVIOUS
    <1> HIDE DEF h
    <1>6. ASSUME NEW k \in Chunks(docs)
          PROVE  contains_base(h, k) \/ (Owner[k] \in inDelta /\ k \in DOMAIN h.delta)
        <2>1. k \in Key
            BY DEF Chunks
        <2>2. k \notin Replaced(d, keys)
            BY <1>3, <1>5, <2>1
        <2>3. CASE contains_base(active, k)
            <3>1. k \in DOMAIN active.base /\ k \notin active.dead
                BY <2>3 DEF contains_base
            <3>2. k \in DOMAIN h.base /\ k \notin h.dead
                BY <1>1, <2>2, <3>1
            <3>3. contains_base(h, k)
                BY <3>2 DEF contains_base
            <3> QED BY <3>3
        <2>4. CASE ~contains_base(active, k)
            <3>1. Owner[k] \in inDelta
                <4>1. CASE Owner[k] = d
                    BY <1>3, <2>1, <4>1
                <4>2. CASE Owner[k] # d
                    BY <1>3, <2>1, <2>4, <4>2 DEF GenerationInv
                <4> QED BY <4>1, <4>2
            <3> QED BY <1>4, <2>4, <3>1
        <2> QED BY <2>3, <2>4
    <1>7. h.dead \subseteq DOMAIN h.base /\ (h.dim = 0 \/ Dimension(docs) \in {0, h.dim})
        BY <1>1 DEF with_delta_accepts
    <1> QED BY <1>1, <1>6, <1>7 DEF GenerationInv

(* A search is not disturbed by a generation of the same catalog, and      *)
(* knows of a publication by the revisions it began with.                  *)
LEMMA SearchInvPublish ==
    ASSUME NEW s \in Search, NEW docs, NEW revs \in [Doc -> 0..MaxRevision],
           SearchInv(s, docs, revs), NEW next, NEW d \in Doc, NEW rev \in 0..MaxRevision,
           rev > revs[d]
    PROVE  SearchInv(s, next, [revs EXCEPT ![d] = rev])
    <1> DEFINE revs2 == [revs EXCEPT ![d] = rev]
    <1>1. s.since \in [Doc -> 0..MaxRevision]
        BY DEF Search
    <1>2. \A e \in Doc : s.since[e] <= revs[e]
        BY DEF SearchInv
    <1>3. \A e \in Doc : s.since[e] <= revs2[e]
        BY <1>1, <1>2, BackendConstants
    <1>4. s.since[d] # revs2[d]
        BY <1>1, <1>2, BackendConstants
    <1> QED BY <1>3, <1>4 DEF SearchInv

(* activate() and erase().                                                 *)
LEMMA PublishKeeps ==
    ASSUME BackendInv, NEW d \in Doc, NEW rev \in 1..MaxRevision,
           NEW x \in Active \cup {NoDoc}, x # NoDoc => x.rev = rev,
           NEW docs, docs = [active.docs EXCEPT ![d] = x],
           NEW inDelta \in SUBSET Doc, active.inDelta \ {d} \subseteq inDelta,
           x # NoDoc => d \in inDelta,
           NEW keys, x # NoDoc => keys = DOMAIN x.doc.rows,
           NEW dead, dead = active.dead \cup Replaced(d, keys),
           Publish(d, rev, docs, inDelta, dead)
    PROVE  BackendInv'
    <1>1. /\ active' = build_generation(active, docs, inDelta, dead)
          /\ rev > latest[d] /\ latest' = [latest EXCEPT ![d] = rev]
          /\ Compatible(docs) /\ unscheduled' = TRUE
          /\ UNCHANGED <<pending, pc, snap, revisions, file, search, calls, searches, restarts>>
        BY DEF Publish
    <1>2. with_delta_accepts(active, docs, DeltaRows(active, docs, inDelta), dead)
        BY DEF Publish, build_generation
    <1>3. /\ active \in Generation /\ latest \in [Doc -> 0..MaxRevision]
          /\ search \in [Reader -> Search] /\ active.docs \in Catalogs
        BY GenerationFacts DEF BackendInv, TypeOK
    <1>4. docs \in Catalogs /\ docs[d] = x /\ \A e \in Doc \ {d} : docs[e] = active.docs[e]
        BY <1>3 DEF Catalogs
    <1>5. dead \in SUBSET Key /\ rev \in 0..MaxRevision
        BY <1>3, GenerationFacts, BackendConstants DEF Replaced, Chunks
    <1>6. active' \in Generation /\ active'.docs = docs
        BY <1>1, <1>3, <1>4, <1>5, BuiltType DEF build_generation
    <1>7. TypeOK'
        BY <1>1, <1>3, <1>5, <1>6 DEF BackendInv, TypeOK
    <1>8. GenerationInv(active')
        BY <1>1, <1>2, <1>3, BuiltInv DEF BackendInv
    <1>9. Consistent(active'.docs, latest')
        <2> SUFFICES ASSUME NEW e \in Doc, docs[e] # NoDoc
                     PROVE  latest'[e] = docs[e].rev
            BY <1>6 DEF Consistent, Live
        <2>1. CASE e = d
            BY <1>1, <1>3, <1>4, <2>1
        <2>2. CASE e # d
            <3>1. latest'[e] = latest[e] /\ docs[e] = active.docs[e]
                BY <1>1, <1>3, <1>4, <2>2
            <3> QED BY <3>1 DEF BackendInv, Consistent, Live
        <2> QED BY <2>1, <2>2
    <1>10. \A r \in Reader : SearchInv(search'[r], active'.docs, latest')
        BY <1>1, <1>3, <1>5, SearchInvPublish DEF BackendInv
    <1> QED BY <1>1, <1>7, <1>8, <1>9, <1>10 DEF BackendInv

(* Either publication, of any document.                                    *)
LEMMA WritersKeep ==
    ASSUME BackendInv, NEW d \in Doc, NEW rev \in 1..MaxRevision,
           (\E p \in PreparedFor(d) : activate(d, p, rev)) \/ erase(d, rev)
    PROVE  BackendInv'
    <1>1. active.inDelta \subseteq Doc
        BY GenerationFacts DEF BackendInv, TypeOK
    <1>2. ASSUME NEW p \in PreparedFor(d), activate(d, p, rev)
          PROVE  BackendInv'
        <2> DEFINE x == [rev |-> rev, doc |-> p]
        <2>1. x \in Active /\ x.rev = rev /\ DOMAIN p.rows = DOMAIN x.doc.rows
            BY DEF Active, PreparedFor
        <2>2. Publish(d, rev, [active.docs EXCEPT ![d] = x], active.inDelta \cup {d},
                      active.dead \cup Replaced(d, DOMAIN p.rows))
            BY <1>2 DEF activate
        <2> HIDE DEF x
        <2> QED BY <1>1, <2>1, <2>2, PublishKeeps
    <1>3. CASE erase(d, rev)
        <2>1. Publish(d, rev, [active.docs EXCEPT ![d] = NoDoc], active.inDelta \ {d},
                      active.dead \cup Replaced(d, {}))
            BY <1>3 DEF erase
        <2> QED BY <1>1, <2>1, PublishKeeps
    <1> QED BY <1>2, <1>3
-----------------------------------------------------------------------------
(* Maintenance, checkpoints and restarts                                   *)

(* A step that leaves catalog, revisions, file and searches alone.         *)
LEMMA QuietKeeps ==
    ASSUME BackendInv, TypeOK', GenerationInv(active'), active'.docs = active.docs,
           UNCHANGED <<latest, file, search>>,
           \A t \in Thread : pc'[t] = "save" => Compatible(snap'[t].docs)
    PROVE  BackendInv'
    <1>1. Consistent(active'.docs, latest') /\ Loadable(file')
        BY DEF BackendInv
    <1>2. \A r \in Reader : SearchInv(search'[r], active'.docs, latest')
        BY DEF BackendInv
    <1> QED BY <1>1, <1>2 DEF BackendInv

(* The type of a step of one thread.                                       *)
LEMMA ThreadType ==
    ASSUME TypeOK, NEW t \in Thread, NEW p \in Pc, NEW g \in Generation \cup {NoGeneration},
           pc' = [pc EXCEPT ![t] = p], snap' = [snap EXCEPT ![t] = g],
           g = NoGeneration <=> p \notin {"build", "save"}
    PROVE  /\ pc' \in [Thread -> Pc]
           /\ snap' \in [Thread -> Generation \cup {NoGeneration}]
           /\ \A u \in Thread : snap'[u] = NoGeneration <=> pc'[u] \notin {"build", "save"}
           /\ pc'[t] = p /\ snap'[t] = g
           /\ \A u \in Thread \ {t} : pc'[u] = pc[u] /\ snap'[u] = snap[u]
    BY DEF TypeOK

(* The worker's and the callers' steps before a build.                     *)
LEMMA ThreadsKeep ==
    ASSUME BackendInv,
           \/ schedule_maintenance \/ Wake \/ CheckStats
           \/ \E c \in Caller : CallCompact(c)
           \/ \E t \in Thread : CompactLoad(t)
    PROVE  BackendInv'
    <1>1. UNCHANGED <<latest, active, file, search, revisions, searches, restarts>>
        BY DEF schedule_maintenance, Wake, CheckStats, CallCompact, CompactLoad
    <1>2. unscheduled' \in BOOLEAN /\ pending' \in BOOLEAN
        BY DEF BackendInv, TypeOK, schedule_maintenance, Wake, CheckStats, CallCompact, CompactLoad
    <1>3. calls' \in 0..MaxCalls
        BY BackendConstants DEF BackendInv, TypeOK, schedule_maintenance, Wake, CheckStats,
           CallCompact, CompactLoad
    <1>4. \/ UNCHANGED <<pc, snap>>
          \/ \E t \in Thread, p \in Pc \ {"save"}, g \in Generation \cup {NoGeneration} :
                /\ pc' = [pc EXCEPT ![t] = p] /\ snap' = [snap EXCEPT ![t] = g]
                /\ g = NoGeneration <=> p \notin {"build", "save"}
        <2>1. /\ snap \in [Thread -> Generation \cup {NoGeneration}] /\ active \in Generation
              /\ \A u \in Thread : snap[u] = NoGeneration <=> pc[u] \notin {"build", "save"}
            BY DEF BackendInv, TypeOK
        <2>2. ASSUME NEW t \in Thread, pc[t] \notin {"build", "save"}
              PROVE  snap = [snap EXCEPT ![t] = NoGeneration]
            BY <2>1, <2>2
        <2>3. CASE schedule_maintenance
            BY <2>3 DEF schedule_maintenance
        <2>4. CASE Wake
            <3>1. /\ Worker \in Thread /\ pc[Worker] = "idle" /\ snap' = snap
                  /\ pc' = [pc EXCEPT ![Worker] = "stats"]
                BY <2>4 DEF Wake, Goto, Thread
            <3>2. snap' = [snap EXCEPT ![Worker] = NoGeneration]
                BY <2>2, <3>1
            <3>3. "stats" \in Pc \ {"save"}
                BY DEF Pc
            <3> QED BY <3>1, <3>2, <3>3
        <2>5. CASE CheckStats
            <3>1. /\ Worker \in Thread /\ pc[Worker] = "stats" /\ snap' = snap
                  /\ \/ pc' = [pc EXCEPT ![Worker] = "load"]
                     \/ pc' = [pc EXCEPT ![Worker] = "idle"]
                BY <2>5 DEF CheckStats, Goto, Thread
            <3> QED BY <2>2, <3>1 DEF Pc
        <2>6. ASSUME NEW c \in Caller, CallCompact(c)
              PROVE  /\ c \in Thread /\ pc[c] = "idle" /\ snap' = snap
                     /\ pc' = [pc EXCEPT ![c] = "load"]
            BY <2>6 DEF CallCompact, Goto, Thread
        <2>7. CASE \E c \in Caller : CallCompact(c)
            BY <2>2, <2>6, <2>7 DEF Pc
        <2>8. ASSUME NEW t \in Thread, CompactLoad(t)
              PROVE  \/ pc' = [pc EXCEPT ![t] = "build"] /\ snap' = [snap EXCEPT ![t] = active]
                     \/ pc' = [pc EXCEPT ![t] = "idle"] /\ snap' = [snap EXCEPT ![t] = NoGeneration]
            <3>1. pc[t] = "load"
                BY <2>8 DEF CompactLoad
            <3>2. snap = [snap EXCEPT ![t] = NoGeneration]
                BY <2>2, <3>1
            <3> QED BY <2>8, <3>2 DEF CompactLoad, Goto
        <2>9. CASE \E t \in Thread : CompactLoad(t)
            BY <2>1, <2>8, <2>9, BackendValues DEF Pc
        <2> QED BY <2>3, <2>4, <2>5, <2>7, <2>9
    <1>5. CASE UNCHANGED <<pc, snap>>
        <2>1. TypeOK'
            BY <1>1, <1>2, <1>3, <1>5 DEF BackendInv, TypeOK
        <2>2. \A u \in Thread : pc'[u] = "save" => Compatible(snap'[u].docs)
            BY <1>5 DEF BackendInv
        <2> QED BY <1>1, <2>1, <2>2, QuietKeeps DEF BackendInv
    <1>6. ASSUME NEW t \in Thread, NEW p \in Pc \ {"save"}, NEW g \in Generation \cup {NoGeneration},
                 pc' = [pc EXCEPT ![t] = p], snap' = [snap EXCEPT ![t] = g],
                 g = NoGeneration <=> p \notin {"build", "save"}
          PROVE  BackendInv'
        <2>1. /\ pc' \in [Thread -> Pc] /\ snap' \in [Thread -> Generation \cup {NoGeneration}]
              /\ \A u \in Thread : snap'[u] = NoGeneration <=> pc'[u] \notin {"build", "save"}
              /\ pc'[t] = p /\ \A u \in Thread \ {t} : pc'[u] = pc[u] /\ snap'[u] = snap[u]
            BY <1>6, ThreadType DEF BackendInv
        <2>2. TypeOK'
            BY <1>1, <1>2, <1>3, <2>1 DEF BackendInv, TypeOK
        <2>3. \A u \in Thread : pc'[u] = "save" => Compatible(snap'[u].docs)
            BY <2>1 DEF BackendInv
        <2> QED BY <1>1, <2>2, <2>3, QuietKeeps DEF BackendInv
    <1> QED BY <1>4, <1>5, <1>6

(* A compaction publishes the catalog it was built from, or nothing.       *)
LEMMA CompactPublishKeeps ==
    ASSUME BackendInv, NEW t \in Thread, CompactPublish(t)
    PROVE  BackendInv'
    <1>1. /\ active' = IF active = snap[t] THEN CompactedGeneration(active) ELSE active
          /\ snap' = [snap EXCEPT ![t] = NoGeneration] /\ pc' = [pc EXCEPT ![t] = "idle"]
          /\ UNCHANGED <<latest, unscheduled, pending, revisions, file, search, calls,
                         searches, restarts>>
        BY DEF CompactPublish, Goto
    <1>2. active \in Generation /\ active.docs \in Catalogs /\ active.number \in Nat
        BY GenerationFacts DEF BackendInv, TypeOK
    <1>3. active' \in Generation
        BY <1>1, <1>2, CompactedType
    <1>4. active'.docs = active.docs
        BY <1>1 DEF CompactedGeneration
    <1>5. GenerationInv(active')
        <2>1. GenerationInv(active) /\ Compatible(active.docs)
            BY DEF BackendInv, GenerationInv
        <2>2. GenerationInv(CompactedGeneration(active))
            BY <1>2, <2>1, CompactedInv
        <2> QED BY <1>1, <2>1, <2>2
    <1>6. "idle" \in Pc
        BY DEF Pc
    <1>7. /\ pc' \in [Thread -> Pc] /\ snap' \in [Thread -> Generation \cup {NoGeneration}]
          /\ \A u \in Thread : snap'[u] = NoGeneration <=> pc'[u] \notin {"build", "save"}
          /\ pc'[t] = "idle" /\ \A u \in Thread \ {t} : pc'[u] = pc[u] /\ snap'[u] = snap[u]
        BY <1>1, <1>6, ThreadType DEF BackendInv
    <1>8. TypeOK'
        BY <1>1, <1>3, <1>7 DEF BackendInv, TypeOK
    <1>9. \A u \in Thread : pc'[u] = "save" => Compatible(snap'[u].docs)
        BY <1>7 DEF BackendInv
    <1> QED BY <1>1, <1>4, <1>5, <1>8, <1>9, QuietKeeps

(* checkpoint() captures a catalog of one identity with its revisions.     *)
LEMMA CaptureKeeps ==
    ASSUME BackendInv, NEW c \in Caller, CheckpointCapture(c)
    PROVE  BackendInv'
    <1>1. /\ snap' = [snap EXCEPT ![c] = active] /\ pc' = [pc EXCEPT ![c] = "save"]
          /\ revisions' = [revisions EXCEPT ![c] = latest]
          /\ calls < MaxCalls /\ calls' = calls + 1
          /\ UNCHANGED <<latest, active, unscheduled, pending, file, search, searches, restarts>>
        BY DEF CheckpointCapture, Goto
    <1>2. c \in Thread /\ "save" \in Pc /\ active \in Generation
        BY DEF Thread, Pc, BackendInv, TypeOK
    <1>3. active = NoGeneration <=> "save" \notin {"build", "save"}
        BY <1>2, BackendValues
    <1>4. /\ pc' \in [Thread -> Pc] /\ snap' \in [Thread -> Generation \cup {NoGeneration}]
          /\ \A u \in Thread : snap'[u] = NoGeneration <=> pc'[u] \notin {"build", "save"}
          /\ snap'[c] = active /\ \A u \in Thread \ {c} : pc'[u] = pc[u] /\ snap'[u] = snap[u]
        BY <1>1, <1>2, <1>3, ThreadType DEF BackendInv
    <1>5. TypeOK'
        <2>1. calls' \in 0..MaxCalls
            BY <1>1, BackendConstants DEF BackendInv, TypeOK
        <2>2. revisions' \in [Thread -> [Doc -> 0..MaxRevision]]
            BY <1>1 DEF BackendInv, TypeOK
        <2> QED BY <1>1, <1>4, <2>1, <2>2 DEF BackendInv, TypeOK
    <1>6. \A u \in Thread : pc'[u] = "save" => Compatible(snap'[u].docs)
        BY <1>4 DEF BackendInv, GenerationInv
    <1> QED BY <1>1, <1>5, <1>6, QuietKeeps DEF BackendInv

(* The state after a checkpoint that was written or failed.                *)
LEMMA EndCheckpointFacts ==
    ASSUME BackendInv, NEW c \in Caller, EndCheckpoint(c), file' \in Checkpoint
    PROVE  /\ TypeOK'
           /\ \A u \in Thread : pc'[u] = "save" => Compatible(snap'[u].docs)
           /\ UNCHANGED <<latest, active, search>>
    <1>1. /\ snap' = [snap EXCEPT ![c] = NoGeneration] /\ pc' = [pc EXCEPT ![c] = "idle"]
          /\ revisions' = [revisions EXCEPT ![c] = NoRevisions]
          /\ UNCHANGED <<latest, active, unscheduled, pending, search, calls, searches, restarts>>
        BY DEF EndCheckpoint, Goto
    <1>2. c \in Thread /\ "idle" \in Pc
        BY DEF Thread, Pc
    <1>3. /\ pc' \in [Thread -> Pc] /\ snap' \in [Thread -> Generation \cup {NoGeneration}]
          /\ \A u \in Thread : snap'[u] = NoGeneration <=> pc'[u] \notin {"build", "save"}
          /\ pc'[c] = "idle" /\ \A u \in Thread \ {c} : pc'[u] = pc[u] /\ snap'[u] = snap[u]
        BY <1>1, <1>2, ThreadType DEF BackendInv
    <1>4. NoRevisions \in [Doc -> 0..MaxRevision]
        BY BackendConstants DEF NoRevisions
    <1>5. TypeOK'
        BY <1>1, <1>3, <1>4 DEF BackendInv, TypeOK
    <1>6. \A u \in Thread : pc'[u] = "save" => Compatible(snap'[u].docs)
        BY <1>3 DEF BackendInv
    <1> QED BY <1>1, <1>5, <1>6

(* The file that replaces the checkpoint passed validate_for_save().       *)
LEMMA CheckpointKeeps ==
    ASSUME BackendInv, NEW c \in Caller, CheckpointSave(c) \/ CheckpointFails(c)
    PROVE  BackendInv'
    <1>1. c \in Thread /\ pc[c] = "save" /\ EndCheckpoint(c)
        BY DEF CheckpointSave, CheckpointFails, Thread
    <1>2. snap[c] \in Generation /\ revisions[c] \in [Doc -> 0..MaxRevision]
        BY <1>1 DEF BackendInv, TypeOK
    <1>3. snap[c].docs \in Catalogs /\ snap[c].number \in Nat /\ Compatible(snap[c].docs)
        BY <1>1, <1>2, GenerationFacts DEF BackendInv
    <1>4. file' \in Checkpoint /\ Loadable(file')
        <2>1. CASE CheckpointFails(c)
            BY <2>1 DEF CheckpointFails, BackendInv, TypeOK
        <2>2. CASE CheckpointSave(c)
            <3>1. /\ file' = [docs |-> snap[c].docs, revs |-> revisions[c], number |-> snap[c].number]
                  /\ Consistent(snap[c].docs, revisions[c])
                BY <2>2 DEF CheckpointSave
            <3> QED BY <1>2, <1>3, <3>1 DEF Checkpoint, Loadable, Catalogs
        <2> QED BY <2>1, <2>2
    <1>5. /\ TypeOK' /\ \A u \in Thread : pc'[u] = "save" => Compatible(snap'[u].docs)
          /\ UNCHANGED <<latest, active, search>>
        BY <1>1, <1>4, EndCheckpointFacts
    <1> QED BY <1>4, <1>5 DEF BackendInv

(* A search that has not begun.                                            *)
LEMMA NoSearchFacts ==
    /\ NoSearch \in Search
    /\ \A docs, revs : revs \in [Doc -> 0..MaxRevision] => SearchInv(NoSearch, docs, revs)
    <1>1. [d \in Doc |-> 0] \in [Doc -> 0..MaxRevision] /\ NoResult \in [Key -> Active \cup {NoDoc}]
        BY BackendConstants DEF NoResult
    <1>2. NoSearch \in Search
        BY <1>1 DEF NoSearch, Search
    <1>3. ASSUME NEW docs, NEW revs \in [Doc -> 0..MaxRevision]
          PROVE  SearchInv(NoSearch, docs, revs)
        <2>1. /\ NoSearch.since = [d \in Doc |-> 0] /\ NoSearch.keys = {}
              /\ NoSearch.result = [k \in Key |-> NoDoc]
            BY DEF NoSearch, NoResult
        <2>2. ~NoSearch.failed
            BY DEF NoSearch
        <2> QED BY <2>1, <2>2, BackendConstants DEF SearchInv
    <1> QED BY <1>2, <1>3

(* A restart serves the checkpoint, with every row in the base.            *)
LEMMA RestartKeeps ==
    ASSUME BackendInv, Restart
    PROVE  BackendInv'
    <1> DEFINE g == [active EXCEPT !.docs = file.docs]
    <1>1. /\ latest' = file.revs /\ restarts < MaxRestarts /\ restarts' = restarts + 1
          /\ active' = [CompactedGeneration(g) EXCEPT !.number = file.number]
          /\ unscheduled' = FALSE /\ pending' = FALSE
          /\ pc' = [t \in Thread |-> "idle"] /\ snap' = [t \in Thread |-> NoGeneration]
          /\ revisions' = [t \in Thread |-> NoRevisions] /\ search' = [r \in Reader |-> NoSearch]
          /\ UNCHANGED <<file, calls, searches>>
        BY DEF Restart
    <1>2. active \in Generation /\ file \in Checkpoint /\ Loadable(file)
        BY DEF BackendInv, TypeOK
    <1>3. /\ file.docs \in Catalogs /\ file.revs \in [Doc -> 0..MaxRevision] /\ file.number \in Nat
          /\ Consistent(file.docs, file.revs) /\ Compatible(file.docs)
        BY <1>2 DEF Checkpoint, Catalogs, Loadable
    <1>4. g.docs = file.docs /\ g.number \in Nat
        BY <1>2 DEF Generation
    <1> HIDE DEF g
    <1>5. CompactedGeneration(g) \in Generation
        BY <1>3, <1>4, CompactedType
    <1>6. /\ active' \in Generation /\ active'.docs = file.docs
          /\ active'.base = CompactedGeneration(g).base /\ active'.dim = CompactedGeneration(g).dim
          /\ active'.dead = CompactedGeneration(g).dead
          /\ active'.delta = CompactedGeneration(g).delta
          /\ active'.inDelta = CompactedGeneration(g).inDelta
        <2>1. CompactedGeneration(g).docs = g.docs
            BY DEF CompactedGeneration
        <2> QED BY <1>1, <1>3, <1>4, <1>5, <2>1 DEF Generation
    <1>7. TypeOK'
        <2>1. NoRevisions \in [Doc -> 0..MaxRevision] /\ "idle" \in Pc
            BY BackendConstants DEF NoRevisions, Pc
        <2>2. restarts' \in 0..MaxRestarts
            BY <1>1, BackendConstants DEF BackendInv, TypeOK
        <2> QED BY <1>1, <1>3, <1>6, <2>1, <2>2, NoSearchFacts DEF BackendInv, TypeOK
    <1>8. GenerationInv(active')
        <2>1. GenerationInv(CompactedGeneration(g)) /\ CompactedGeneration(g).docs = file.docs
            BY <1>3, <1>4, CompactedInv DEF CompactedGeneration
        <2> QED BY <1>6, <2>1 DEF GenerationInv, contains_base
    <1>9. \A r \in Reader : SearchInv(search'[r], active'.docs, latest')
        BY <1>1, <1>3, NoSearchFacts
    <1> QED BY <1>1, <1>2, <1>3, <1>6, <1>7, <1>8, <1>9 DEF BackendInv
-----------------------------------------------------------------------------
(* Searches                                                                *)

(* A step of one reader.                                                   *)
LEMMA ReaderKeeps ==
    ASSUME BackendInv, NEW r \in Reader, NEW s \in Search, Searching(r),
           search' = [search EXCEPT ![r] = s], searches' \in 0..MaxSearches,
           SearchInv(s, active.docs, latest)
    PROVE  BackendInv'
    <1>1. UNCHANGED <<latest, active, unscheduled, pending, pc, snap, revisions, file, calls,
                      restarts>>
        BY DEF Searching
    <1>2. /\ search' \in [Reader -> Search]
          /\ search'[r] = s /\ \A q \in Reader \ {r} : search'[q] = search[q]
        BY DEF BackendInv, TypeOK
    <1>3. TypeOK'
        BY <1>1, <1>2 DEF BackendInv, TypeOK
    <1>4. \A q \in Reader : SearchInv(search'[q], active'.docs, latest')
        BY <1>1, <1>2 DEF BackendInv
    <1> QED BY <1>1, <1>3, <1>4 DEF BackendInv

(* What the fields of a search are worth.                                  *)
LEMMA SearchFacts ==
    ASSUME BackendInv, NEW r \in Reader
    PROVE  /\ search[r] \in Search /\ search[r].todo \subseteq SearchCall
           /\ search[r].keys \subseteq Key /\ search[r].since \in [Doc -> 0..MaxRevision]
           /\ SearchInv(search[r], active.docs, latest)
           /\ active.docs \in Catalogs /\ latest \in [Doc -> 0..MaxRevision]
           /\ searches \in 0..MaxSearches
    <1>1. search[r] \in Search
        BY DEF BackendInv, TypeOK
    <1> QED BY <1>1, GenerationFacts DEF BackendInv, TypeOK, Search

(* A search begins with the revisions published by then.                   *)
LEMMA BeginKeeps ==
    ASSUME BackendInv, NEW r \in Reader, BeginSearch(r)
    PROVE  BackendInv'
    <1>1. PICK mode \in {{"lexical"}, {"dense"}, {"lexical", "dense"}}, filter \in SUBSET Meta :
             search' = [search EXCEPT ![r] =
                 [NoSearch EXCEPT !.todo = mode \cup {"fetch"}, !.filter = filter, !.since = latest]]
        BY DEF BeginSearch
    <1> DEFINE s == [NoSearch EXCEPT !.todo = mode \cup {"fetch"}, !.filter = filter,
                                     !.since = latest]
    <1>2. latest \in [Doc -> 0..MaxRevision]
        BY SearchFacts
    <1>3. s \in Search
        <2>1. mode \cup {"fetch"} \in SUBSET SearchCall
            BY DEF SearchCall
        <2> QED BY <1>2, <2>1, NoSearchFacts DEF Search
    <1>4. /\ s.since = latest /\ s.keys = NoSearch.keys /\ s.failed = NoSearch.failed
          /\ s.result = NoSearch.result
        BY DEF NoSearch
    <1>5. NoSearch.keys = {} /\ ~NoSearch.failed /\ NoSearch.result = [k \in Key |-> NoDoc]
        BY DEF NoSearch, NoResult
    <1>6. searches' \in 0..MaxSearches /\ Searching(r)
        BY SearchFacts, BackendConstants DEF BeginSearch
    <1>7. search' = [search EXCEPT ![r] = s]
        BY <1>1
    <1> HIDE DEF s
    <1>8. SearchInv(s, active.docs, latest)
        BY <1>2, <1>4, <1>5, BackendConstants DEF SearchInv
    <1> QED BY <1>3, <1>6, <1>7, <1>8, ReaderKeeps

(* Candidates of either kind are active chunks.                            *)
LEMMA CandidatesKeep ==
    ASSUME BackendInv, NEW r \in Reader, NEW call \in SearchCall, NEW rows,
           rows \subseteq Chunks(active.docs), Candidates(r, call, rows)
    PROVE  BackendInv'
    <1>1. PICK hits \in SUBSET {k \in rows : Matches(r, k)} :
             search' = [search EXCEPT ![r].todo = @ \ {call}, ![r].keys = @ \cup hits]
        BY DEF Candidates
    <1> DEFINE s == [search[r] EXCEPT !.todo = search[r].todo \ {call},
                                      !.keys = search[r].keys \cup hits]
    <1>2. /\ search[r] \in Search /\ search[r].todo \subseteq SearchCall
          /\ search[r].keys \subseteq Key /\ SearchInv(search[r], active.docs, latest)
        BY SearchFacts
    <1>3. hits \subseteq Chunks(active.docs) /\ Chunks(active.docs) \subseteq Key
        BY DEF Chunks
    <1>4. s \in Search
        BY <1>2, <1>3 DEF Search
    <1>5. /\ s.since = search[r].since /\ s.result = search[r].result
          /\ s.keys = search[r].keys \cup hits
        BY <1>2 DEF Search
    <1>6. s.failed = search[r].failed
        BY <1>2 DEF Search
    <1>7. search' = [search EXCEPT ![r] = s]
        BY <1>1 DEF BackendInv, TypeOK
    <1>8. searches' \in 0..MaxSearches /\ Searching(r)
        BY SearchFacts DEF Candidates
    <1> HIDE DEF s
    <1>9. SearchInv(s, active.docs, latest)
        BY <1>2, <1>3, <1>5, <1>6 DEF SearchInv
    <1> QED BY <1>4, <1>7, <1>8, <1>9, ReaderKeeps

(* fetch() shows active versions, and fails only if a writer took some     *)
(* chunk away since the search began.                                      *)
LEMMA FetchKeeps ==
    ASSUME BackendInv, NEW r \in Reader, Fetch(r)
    PROVE  BackendInv'
    <1> DEFINE found == search[r].keys \cap Chunks(active.docs)
               result == IF found # search[r].keys THEN NoResult
                         ELSE [k \in Key |-> IF k \in found THEN active.docs[Owner[k]] ELSE NoDoc]
               failed == found # search[r].keys
               s == [search[r] EXCEPT !.todo = {}, !.failed = failed, !.result = result]
    <1>1. /\ search[r] \in Search /\ search[r].keys \subseteq Key
          /\ search[r].since \in [Doc -> 0..MaxRevision]
          /\ SearchInv(search[r], active.docs, latest)
          /\ active.docs \in Catalogs /\ latest \in [Doc -> 0..MaxRevision]
        BY SearchFacts
    <1>2. search' = [search EXCEPT ![r] = s]
        BY DEF Fetch, BackendInv, TypeOK
    <1>3. result \in [Key -> Active \cup {NoDoc}]
        BY <1>1, ChunkFacts DEF NoResult
    <1>4. failed \in BOOLEAN
        OBVIOUS
    <1>5. ASSUME NEW k \in Key, result[k] # NoDoc
          PROVE  result[k].rev >= search[r].since[Owner[k]]
        <2>1. k \in Chunks(active.docs) /\ result[k] = active.docs[Owner[k]]
            BY <1>5 DEF NoResult
        <2>2. Owner[k] \in Live(active.docs) /\ Owner[k] \in Doc
            BY <1>1, <2>1, ChunkFacts, BackendConstants
        <2>3. latest[Owner[k]] = result[k].rev
            BY <2>1, <2>2 DEF BackendInv, Consistent
        <2>4. search[r].since[Owner[k]] <= latest[Owner[k]]
            BY <1>1, <2>2 DEF SearchInv
        <2> QED BY <1>1, <2>2, <2>3, <2>4, BackendConstants
    <1>6. search[r].since = latest => ~failed
        BY <1>1 DEF SearchInv
    <1>7. search[r].since = latest => search[r].keys \subseteq Chunks(active.docs)
        BY <1>1 DEF SearchInv
    <1>8. searches' \in 0..MaxSearches /\ Searching(r)
        BY SearchFacts DEF Fetch
    <1> HIDE DEF found, result, failed
    <1>9. s \in Search
        BY <1>1, <1>3, <1>4 DEF Search
    <1>10. s.since = search[r].since /\ s.keys = search[r].keys /\ s.result = result
        BY <1>1 DEF Search
    <1>11. s.failed = failed
        BY <1>1 DEF Search
    <1> HIDE DEF s
    <1>12. SearchInv(s, active.docs, latest)
        <2>1. \A d \in Doc : s.since[d] <= latest[d]
            BY <1>1, <1>10 DEF SearchInv
        <2>2. s.since = latest => s.keys \subseteq Chunks(active.docs) /\ ~s.failed
            BY <1>6, <1>7, <1>10, <1>11
        <2>3. \A k \in Key : s.result[k] # NoDoc => s.result[k].rev >= s.since[Owner[k]]
            BY <1>5, <1>10
        <2> QED BY <2>1, <2>2, <2>3 DEF SearchInv
    <1> QED BY <1>2, <1>8, <1>9, <1>12, ReaderKeeps
-----------------------------------------------------------------------------
(* Theorems                                                                *)

(* The invariant holds at first.                                           *)
LEMMA BackendInitial == Init => BackendInv
    <1> SUFFICES ASSUME Init PROVE BackendInv
        OBVIOUS
    <1>1. /\ active.docs = [d \in Doc |-> NoDoc] /\ active.inDelta = {} /\ active.base = NoRows
          /\ active.dim = 0 /\ active.dead = {} /\ active.delta = NoRows /\ active.number = 0
          /\ active = [docs |-> [d \in Doc |-> NoDoc], inDelta |-> {}, base |-> NoRows, dim |-> 0,
                       dead |-> {}, delta |-> NoRows, number |-> 0]
        BY DEF Init, EmptyGeneration
    <1>2. active \in Generation
        BY <1>1, RowsFacts DEF Generation
    <1>3. NoRevisions \in [Doc -> 0..MaxRevision] /\ latest = NoRevisions
        BY BackendConstants DEF Init, NoRevisions
    <1>4. file \in Checkpoint /\ file.docs = [d \in Doc |-> NoDoc]
        BY <1>3 DEF Init, Checkpoint, EmptyGeneration
    <1>5. \A k \in Key : Owner[k] \in Doc
        BY BackendConstants
    <1>6. Live(active.docs) = {} /\ Chunks(active.docs) = {} /\ Live(file.docs) = {}
        BY <1>1, <1>4, <1>5 DEF Live, Chunks
    <1>7. TypeOK
        <2>1. "idle" \in Pc
            BY DEF Pc
        <2>2. unscheduled \in BOOLEAN /\ pending \in BOOLEAN
            BY DEF Init
        <2>3. /\ pc \in [Thread -> Pc] /\ snap \in [Thread -> Generation \cup {NoGeneration}]
              /\ \A t \in Thread : snap[t] = NoGeneration <=> pc[t] \notin {"build", "save"}
              /\ revisions \in [Thread -> [Doc -> 0..MaxRevision]] /\ search \in [Reader -> Search]
            BY <1>3, <2>1, NoSearchFacts DEF Init
        <2>4. calls \in 0..MaxCalls /\ searches \in 0..MaxSearches /\ restarts \in 0..MaxRestarts
            BY BackendConstants DEF Init
        <2> QED BY <1>2, <1>3, <1>4, <2>2, <2>3, <2>4 DEF TypeOK
    <1>8. GenerationInv(active) /\ Consistent(active.docs, latest) /\ Loadable(file)
        BY <1>1, <1>6 DEF GenerationInv, Consistent, Loadable, Compatible
    <1>9. \A r \in Reader : SearchInv(search[r], active.docs, latest)
        BY <1>3, NoSearchFacts DEF Init
    <1>10. \A t \in Thread : pc[t] # "save"
        BY DEF Init
    <1> QED BY <1>7, <1>8, <1>9, <1>10 DEF BackendInv

(* Every step keeps it.                                                    *)
LEMMA BackendStep == BackendInv /\ [Next]_vars => BackendInv'
    <1> SUFFICES ASSUME BackendInv, [Next]_vars PROVE BackendInv'
        OBVIOUS
    <1>1. \A t : t \in Caller \/ t = Worker => t \in Thread
        BY DEF Thread
    <1>2. DenseRows(active) \subseteq Chunks(active.docs) /\ LexicalRows = Chunks(active.docs)
        BY DEF DenseRows, LexicalRows
    <1>3. CASE UNCHANGED vars
        <2>1. TypeOK'
            BY <1>3 DEF vars, BackendInv, TypeOK
        <2> QED BY <1>3, <2>1 DEF vars, BackendInv
    <1>4. ASSUME NEW d \in Doc, NEW rev \in 1..MaxRevision,
                 (\E p \in PreparedFor(d) : activate(d, p, rev)) \/ erase(d, rev)
          PROVE  BackendInv'
        BY <1>4, WritersKeep
    <1>5. CASE schedule_maintenance
        BY <1>5, ThreadsKeep
    <1>6. CASE Maintenance
        BY <1>1, <1>6, ThreadsKeep, CompactPublishKeeps DEF Maintenance
    <1>7. ASSUME NEW c \in Caller, CallCompact(c) \/ CompactLoad(c) \/ CompactPublish(c)
          PROVE  BackendInv'
        BY <1>1, <1>7, ThreadsKeep, CompactPublishKeeps
    <1>8. ASSUME NEW c \in Caller,
                 CheckpointCapture(c) \/ CheckpointSave(c) \/ CheckpointFails(c)
          PROVE  BackendInv'
        BY <1>8, CaptureKeeps, CheckpointKeeps
    <1>9. CASE Restart
        BY <1>9, RestartKeeps
    <1>10. ASSUME NEW r \in Reader, BeginSearch(r) \/ Fetch(r)
           PROVE  BackendInv'
        BY <1>10, BeginKeeps, FetchKeeps
    <1>11. ASSUME NEW r \in Reader, Candidates(r, "lexical", LexicalRows)
           PROVE  BackendInv'
        BY <1>2, <1>11, CandidatesKeep DEF SearchCall
    <1>12. ASSUME NEW r \in Reader, Candidates(r, "dense", DenseRows(active))
           PROVE  BackendInv'
        BY <1>2, <1>12, CandidatesKeep DEF SearchCall
    <1> QED BY <1>3, <1>4, <1>5, <1>6, <1>7, <1>8, <1>9, <1>10, <1>11, <1>12 DEF Next

(* So it holds in every reachable state.                                   *)
LEMMA BackendInvariant == Spec => []BackendInv
    BY BackendInitial, BackendStep, PTL DEF Spec

(* The dimension that is left when a document is deleted.                  *)
LEMMA DimensionAfterErase ==
    ASSUME NEW docs \in Catalogs, Compatible(docs), NEW d \in Doc
    PROVE  Dimension([docs EXCEPT ![d] = NoDoc]) \in {0, Dimension(docs)}
    <1> DEFINE next == [docs EXCEPT ![d] = NoDoc]
    <1>1. next \in Catalogs /\ next[d] = NoDoc /\ \A e \in Doc \ {d} : next[e] = docs[e]
        BY DEF Catalogs
    <1> SUFFICES Dimension(next) \in {0, Dimension(docs)}
        OBVIOUS
    <1> HIDE DEF next
    <1>2. Live(next) \subseteq Live(docs) /\ \A e \in Live(next) : next[e] = docs[e]
        BY <1>1 DEF Live
    <1>3. Compatible(next)
        BY <1>2 DEF Compatible
    <1>4. CASE Chunks(next) = {}
        BY <1>1, <1>4, DimensionFacts
    <1>5. ASSUME NEW k \in Chunks(next) PROVE Dimension(next) = Dimension(docs)
        <2>1. Owner[k] \in Live(next)
            BY <1>1, <1>5, ChunkFacts
        <2>2. next[Owner[k]] = docs[Owner[k]]
            BY <1>2, <2>1
        <2>3. k \in Chunks(docs)
            BY <2>2 DEF Chunks
        <2>4. Dimension(next) = Dim[next[Owner[k]].doc.ident]
            BY <1>1, <1>3, DimensionFacts
        <2>5. Dimension(docs) = Dim[docs[Owner[k]].doc.ident]
            BY <2>3, DimensionFacts
        <2> QED BY <2>2, <2>4, <2>5
    <1> QED BY <1>4, <1>5

(* Through any sequence of replacements, deletions, compactions and        *)
(* restarts every row of the catalog is found in the base or the delta,    *)
(* and the next update can be laid over them.                              *)
THEOREM DenseStaysConsistent == Spec => []DenseConsistent
    <1>1. BackendInv => DenseVisible
        BY DEF BackendInv, GenerationInv, DenseVisible, DenseRows
    <1>2. BackendInv => DeltaAccepted
        <2> SUFFICES ASSUME BackendInv PROVE DeltaAccepted
            OBVIOUS
        <2>1. active.docs \in Catalogs /\ active.dim \in Nat /\ GenerationInv(active)
            BY GenerationFacts DEF BackendInv, TypeOK
        <2>2. ASSUME NEW docs, NEW inDelta, NEW d \in Doc, NEW keys,
                     active.dim = 0 \/ Dimension(docs) \in {0, active.dim}
              PROVE  with_delta_accepts(active, docs, DeltaRows(active, docs, inDelta),
                                        active.dead \cup Replaced(d, keys))
            <3>1. active.dead \cup Replaced(d, keys) \subseteq DOMAIN active.base
                BY <2>1 DEF GenerationInv, Replaced, contains_base
            <3>2. \A k \in DOMAIN DeltaRows(active, docs, inDelta) :
                     k \in DOMAIN active.base => k \in active.dead
                BY DEF DeltaRows, contains_base
            <3> QED BY <2>2, <3>1, <3>2 DEF with_delta_accepts
        <2>3. ASSUME NEW d \in Doc
              PROVE  active.dim = 0 \/ Dimension([active.docs EXCEPT ![d] = NoDoc]) \in {0, active.dim}
            BY <2>1, DimensionAfterErase DEF GenerationInv
        <2>4. ASSUME NEW d \in Doc
              PROVE  with_delta_accepts(active, [active.docs EXCEPT ![d] = NoDoc],
                         DeltaRows(active, [active.docs EXCEPT ![d] = NoDoc], active.inDelta \ {d}),
                         active.dead \cup Replaced(d, {}))
            BY <2>2, <2>3
        <2> QED BY <2>2, <2>4 DEF DeltaAccepted
    <1>3. BackendInv => DenseConsistent
        BY <1>1, <1>2 DEF BackendInv, DenseConsistent
    <1> QED BY <1>3, BackendInvariant, PTL

(* The checkpoint on disk can always be opened, whenever the process ends. *)
THEOREM CheckpointRestorable == Spec => []Restorable
    <1>1. BackendInv => Restorable
        BY DEF BackendInv, Restorable
    <1> QED BY <1>1, BackendInvariant, PTL

(* A search over several generations shows what was published before it    *)
(* began, and fails only when a writer published since.                    *)
THEOREM SearchesAreConsistent == Spec => []SearchConsistent
    <1>1. BackendInv => SearchConsistent
        <2> SUFFICES ASSUME BackendInv PROVE SearchConsistent
            OBVIOUS
        <2>1. ReadsPublished
            BY DEF BackendInv, SearchInv, ReadsPublished
        <2>2. OnlyWritersDisturb
            BY DEF BackendInv, SearchInv, OnlyWritersDisturb
        <2> QED BY <2>1, <2>2 DEF SearchConsistent
    <1> QED BY <1>1, BackendInvariant, PTL
-----------------------------------------------------------------------------
(* Refinement                                                              *)

Captured == {Versions(snap[c].docs, revisions[c]) : c \in {t \in Caller : pc[t] = "save"}}

(* What leaves catalog, revisions, file and the captured states alone is   *)
(* a stutter of the abstract backend.                                      *)
LEMMA QuietStutters ==
    ASSUME active'.docs = active.docs, UNCHANGED <<latest, file>>,
           \A c \in Caller : pc'[c] = "save" <=> pc[c] = "save",
           \A c \in Caller : pc[c] = "save" =>
                snap'[c] = snap[c] /\ revisions'[c] = revisions[c]
    PROVE  UNCHANGED Abstract!vars
    <1>1. Captured' = Captured
        BY DEF Captured
    <1>2. Versions(active.docs, latest)' = Versions(active.docs, latest)
        BY DEF Versions
    <1>3. Versions(file.docs, file.revs)' = Versions(file.docs, file.revs)
        BY DEF Versions
    <1> QED BY <1>1, <1>2, <1>3 DEF Abstract!vars, Captured

(* A publication publishes a newer version of its document.                *)
LEMMA PublishRefines ==
    ASSUME BackendInv, NEW d \in Doc, NEW rev \in 1..MaxRevision,
           NEW x \in Active \cup {NoDoc}, NEW inDelta, NEW dead,
           Publish(d, rev, [active.docs EXCEPT ![d] = x], inDelta, dead)
    PROVE  Abstract!Publish
    <1> DEFINE v == Versions(active.docs, latest)
    <1>1. /\ active'.docs = [active.docs EXCEPT ![d] = x] /\ latest' = [latest EXCEPT ![d] = rev]
          /\ rev > latest[d] /\ UNCHANGED <<pc, snap, revisions, file>>
        BY DEF Publish, build_generation
    <1>2. active.docs \in Catalogs /\ latest \in [Doc -> 0..MaxRevision]
        BY GenerationFacts DEF BackendInv, TypeOK
    <1>3. /\ v' = [v EXCEPT ![d] = v'[d]] /\ v'[d].rev > v[d].rev
          /\ v'[d].val \in Prepared \cup {NoDoc}
        <2>1. /\ active'.docs[d] = x /\ latest'[d] = rev
              /\ \A e \in Doc \ {d} : active'.docs[e] = active.docs[e] /\ latest'[e] = latest[e]
            BY <1>1, <1>2 DEF Catalogs
        <2>2. x # NoDoc => x.doc \in Prepared
            BY DEF Active
        <2>3. /\ v = [e \in Doc |-> [rev |-> latest[e], val |-> IF active.docs[e] = NoDoc
                                                   THEN NoDoc ELSE active.docs[e].doc]]
              /\ v' = [e \in Doc |-> [rev |-> latest'[e], val |-> IF active'.docs[e] = NoDoc
                                                   THEN NoDoc ELSE active'.docs[e].doc]]
            BY DEF Versions
        <2> HIDE DEF v
        <2>4. v'[d].rev = rev /\ v[d].rev = latest[d] /\ v'[d].val \in Prepared \cup {NoDoc}
            BY <2>1, <2>2, <2>3
        <2>5. \A e \in Doc \ {d} : v'[e] = v[e]
            BY <2>1, <2>3
        <2>6. v' = [v EXCEPT ![d] = v'[d]]
            BY <2>3, <2>5
        <2> QED BY <1>1, <2>4, <2>6
    <1>4. Captured' = Captured
        BY <1>1 DEF Captured
    <1>5. Versions(file.docs, file.revs)' = Versions(file.docs, file.revs)
        BY <1>1 DEF Versions
    <1> QED BY <1>3, <1>4, <1>5 DEF Abstract!Publish, Captured

(* Capturing, writing and giving up a checkpoint.                          *)
LEMMA CaptureRefines ==
    ASSUME BackendInv, NEW c \in Caller, CheckpointCapture(c)
    PROVE  Abstract!Capture
    <1>1. /\ snap' = [snap EXCEPT ![c] = active] /\ pc' = [pc EXCEPT ![c] = "save"]
          /\ revisions' = [revisions EXCEPT ![c] = latest] /\ pc[c] = "idle"
          /\ UNCHANGED <<latest, active, file>>
        BY DEF CheckpointCapture, Goto
    <1>2. /\ c \in Thread /\ Caller \subseteq Thread
          /\ pc = [t \in Thread |-> pc[t]] /\ snap = [t \in Thread |-> snap[t]]
          /\ revisions = [t \in Thread |-> revisions[t]]
        BY DEF Thread, BackendInv, TypeOK
    <1>3. /\ pc'[c] = "save" /\ snap'[c] = active /\ revisions'[c] = latest
          /\ \A u \in Caller \ {c} : pc'[u] = pc[u] /\ snap'[u] = snap[u] /\ revisions'[u] = revisions[u]
        BY <1>1, <1>2
    <1>4. Captured' = Captured \cup {Versions(active.docs, latest)}
        <2>1. Captured' = {Versions(snap'[u].docs, revisions'[u]) : u \in {t \in Caller : pc'[t] = "save"}}
            BY DEF Captured, Versions
        <2>2. {t \in Caller : pc'[t] = "save"} = {t \in Caller : pc[t] = "save"} \cup {c}
            BY <1>3
        <2> QED BY <1>1, <1>3, <2>1, <2>2 DEF Captured
    <1>5. /\ Versions(active.docs, latest)' = Versions(active.docs, latest)
          /\ Versions(file.docs, file.revs)' = Versions(file.docs, file.revs)
        BY <1>1 DEF Versions
    <1> QED BY <1>4, <1>5 DEF Abstract!Capture, Captured

(* The file becomes one of the captured states.                            *)
LEMMA SaveRefines ==
    ASSUME BackendInv, NEW c \in Caller, CheckpointSave(c) \/ CheckpointFails(c)
    PROVE  Abstract!Save
    <1>1. /\ snap' = [snap EXCEPT ![c] = NoGeneration] /\ pc' = [pc EXCEPT ![c] = "idle"]
          /\ revisions' = [revisions EXCEPT ![c] = NoRevisions] /\ pc[c] = "save"
          /\ UNCHANGED <<latest, active>>
        BY DEF CheckpointSave, CheckpointFails, EndCheckpoint, Goto
    <1>2. /\ c \in Thread /\ Caller \subseteq Thread
          /\ pc = [t \in Thread |-> pc[t]] /\ snap = [t \in Thread |-> snap[t]]
          /\ revisions = [t \in Thread |-> revisions[t]]
        BY DEF Thread, BackendInv, TypeOK
    <1>3. /\ pc'[c] = "idle"
          /\ \A u \in Caller \ {c} : pc'[u] = pc[u] /\ snap'[u] = snap[u] /\ revisions'[u] = revisions[u]
        BY <1>1, <1>2
    <1>4. Captured' \subseteq Captured
        <2>1. Captured' = {Versions(snap'[u].docs, revisions'[u]) : u \in {t \in Caller : pc'[t] = "save"}}
            BY DEF Captured, Versions
        <2> QED BY <1>3, <2>1 DEF Captured
    <1>5. Versions(snap[c].docs, revisions[c]) \in Captured
        BY <1>1 DEF Captured
    <1>6. \/ file' = file
          \/ file'.docs = snap[c].docs /\ file'.revs = revisions[c]
        BY DEF CheckpointSave, CheckpointFails
    <1>7. \/ Versions(file.docs, file.revs)' = Versions(file.docs, file.revs)
          \/ Versions(file.docs, file.revs)' = Versions(snap[c].docs, revisions[c])
        BY <1>6 DEF Versions
    <1>8. Versions(active.docs, latest)' = Versions(active.docs, latest)
        BY <1>1 DEF Versions
    <1> QED BY <1>4, <1>5, <1>7, <1>8 DEF Abstract!Save, Captured

(* A restart serves what is on disk.                                       *)
LEMMA RestartRefines ==
    ASSUME BackendInv, Restart
    PROVE  Abstract!Restore
    <1> DEFINE g == [active EXCEPT !.docs = file.docs]
    <1>1. /\ latest' = file.revs /\ active' = [CompactedGeneration(g) EXCEPT !.number = file.number]
          /\ pc' = [t \in Thread |-> "idle"] /\ file' = file
        BY DEF Restart
    <1>2. g.docs = file.docs
        BY DEF BackendInv, TypeOK, Generation
    <1> HIDE DEF g
    <1>3. active'.docs = file.docs
        BY <1>1, <1>2 DEF CompactedGeneration
    <1>4. Captured' = {}
        BY <1>1 DEF Captured, Thread
    <1>5. /\ Versions(active.docs, latest)' = Versions(file.docs, file.revs)
          /\ Versions(file.docs, file.revs)' = Versions(file.docs, file.revs)
        BY <1>1, <1>3 DEF Versions
    <1> QED BY <1>4, <1>5 DEF Abstract!Restore, Captured

(* The embedded backend is a RevisionedBackend: only newer revisions are   *)
(* published, a compaction changes nothing that is served, and the file is *)
(* a state that was served at one moment.                                  *)
THEOREM EmbeddedImplements == Spec => ImplementsBackend
    <1>1. Init => Abstract!Init
        <2> SUFFICES ASSUME Init PROVE Abstract!Init
            OBVIOUS
        <2>1. Captured = {}
            BY DEF Init, Captured, Thread
        <2>2. /\ Versions(active.docs, latest) = [d \in Doc |-> [rev |-> 0, val |-> NoDoc]]
              /\ Versions(file.docs, file.revs) = [d \in Doc |-> [rev |-> 0, val |-> NoDoc]]
            BY DEF Init, Versions, EmptyGeneration, NoRevisions
        <2> QED BY <2>1, <2>2 DEF Abstract!Init, Abstract!Nothing, Captured
    <1>2. BackendInv /\ [Next]_vars => [Abstract!Next]_(Abstract!vars)
        <2> SUFFICES ASSUME BackendInv, [Next]_vars
                     PROVE  [Abstract!Next]_(Abstract!vars)
            OBVIOUS
        <2>1. ASSUME NEW d \in Doc, NEW rev \in 1..MaxRevision, NEW p \in PreparedFor(d),
                     activate(d, p, rev)
              PROVE  Abstract!Publish
            <3> DEFINE x == [rev |-> rev, doc |-> p]
            <3>1. x \in Active \cup {NoDoc}
                BY DEF Active, PreparedFor
            <3>2. Publish(d, rev, [active.docs EXCEPT ![d] = x], active.inDelta \cup {d},
                          active.dead \cup Replaced(d, DOMAIN p.rows))
                BY <2>1 DEF activate
            <3> HIDE DEF x
            <3> QED BY <3>1, <3>2, PublishRefines
        <2>2. ASSUME NEW d \in Doc, NEW rev \in 1..MaxRevision, erase(d, rev)
              PROVE  Abstract!Publish
            BY <2>2, PublishRefines DEF erase
        <2>3. ASSUME NEW c \in Caller,
                     CheckpointCapture(c) \/ CheckpointSave(c) \/ CheckpointFails(c)
              PROVE  Abstract!Capture \/ Abstract!Save
            BY <2>3, CaptureRefines, SaveRefines
        <2>4. CASE Restart
            BY <2>4, RestartRefines DEF Abstract!Next
        <2>5. /\ Caller \subseteq Thread /\ Worker \in Thread /\ Worker \notin Caller
              /\ pc = [t \in Thread |-> pc[t]] /\ snap = [t \in Thread |-> snap[t]]
            BY BackendConstants DEF Thread, BackendInv, TypeOK
        <2>6. CASE schedule_maintenance \/ Wake \/ CheckStats
            BY <2>5, <2>6, QuietStutters DEF schedule_maintenance, Wake, CheckStats, Goto
        <2>7. ASSUME NEW c \in Caller, CallCompact(c)
              PROVE  UNCHANGED Abstract!vars
            BY <2>5, <2>7, QuietStutters DEF CallCompact, Goto
        <2>8. ASSUME NEW t \in Thread, CompactLoad(t)
              PROVE  UNCHANGED Abstract!vars
            BY <2>5, <2>8, QuietStutters DEF CompactLoad, Goto
        <2>9. ASSUME NEW t \in Thread, CompactPublish(t)
              PROVE  UNCHANGED Abstract!vars
            <3>1. active'.docs = active.docs
                BY <2>9 DEF CompactPublish, CompactedGeneration
            <3>2. /\ pc[t] = "build" /\ pc' = [pc EXCEPT ![t] = "idle"]
                  /\ snap' = [snap EXCEPT ![t] = NoGeneration] /\ UNCHANGED <<latest, file, revisions>>
                BY <2>9 DEF CompactPublish, Goto
            <3> QED BY <2>5, <3>1, <3>2, QuietStutters
        <2>10. ASSUME NEW r \in Reader, NEW call, NEW rows,
                      BeginSearch(r) \/ Candidates(r, call, rows) \/ Fetch(r)
               PROVE  UNCHANGED Abstract!vars
            BY <2>10, QuietStutters DEF BeginSearch, Candidates, Fetch, Searching
        <2>11. CASE UNCHANGED vars
            BY <2>11, QuietStutters DEF vars
        <2> QED BY <2>1, <2>2, <2>3, <2>4, <2>5, <2>6, <2>7, <2>8, <2>9, <2>10, <2>11
                DEF Next, Maintenance, Abstract!Next
    <1> QED BY <1>1, <1>2, BackendInvariant, PTL DEF Spec, ImplementsBackend, Abstract!Spec
=============================================================================
