------------------------------ MODULE HnswIndex ------------------------------
(***************************************************************************)
(* The HNSW graph (rag.cpp/src/index/hnsw.cpp) and the dense index that    *)
(* owns one (dense/native_hnsw.cpp) with its cache file                    *)
(* (dense/hnsw_sidecar.cpp).  A build stages every node and links them     *)
(* from several threads, which read each other's neighbour lists without a *)
(* lock; searches share the finished graph and freeze its adjacency into   *)
(* CSR form the first time; add(), remove() and compact() change a graph   *)
(* that has one owner.                                                     *)
(*                                                                         *)
(* Vectors are marks of a ruler, and ties of a sort go to the lower        *)
(* ordinal.  One read or one locked edit of one neighbour list is one step *)
(* of a linking thread.  The quantized mirrors (SQ8, PQ, sign codes) only  *)
(* order candidates and are left out: the native index switches them off.  *)
(***************************************************************************)
EXTENDS Integers, FiniteSets, Sequences, SequencesExt, FiniteSetsExt

CONSTANTS
    Mark,           \* Mark[i]: the vector of row i of a build
    Fresh,          \* Fresh[c]: the vector the owner's c-th change adds
    NativeRows,     \* how many rows the build of a native index is given,
    OwnerRows,      \* and that of a graph with one owner
    M,              \* HnswConfig::M
    EfConstruction, \* HnswConfig::ef_construction
    EfSearch,       \* HnswConfig::ef_search
    MaxLevel,       \* bound: random_level() returns at most this
    Workers,        \* hardware_concurrency()
    ParallelMin,    \* util::kParallelMin
    Searcher,       \* threads that search
    NoFile, NoIndex, NoVec,
    Query, Wanted,  \* the query vectors and result counts searches are checked for
    MaxBuilds, MaxSearches, MaxSaves    \* bounds

ASSUME HnswAssumption ==
    /\ M \in Nat \ {0} /\ EfConstruction \in Nat \ {0} /\ EfSearch \in Nat \ {0}
    /\ Workers \in Nat \ {0} /\ ParallelMin \in Nat \ {0} /\ MaxLevel \in Nat
    /\ Mark \in Seq(Int) /\ Fresh \in Seq(Int)
    /\ Query \subseteq Int /\ Wanted \subseteq Nat
    /\ \A n \in NativeRows \cup OwnerRows : n \in 1..Len(Mark)

VARIABLES
    graph,      \* graph_: the index that is served
    native,     \* a NativeHnswIndex owns the graph; otherwise a single owner
                \* also adds, removes and compacts
    draft,      \* the graph build_batch() is working on
    linker,     \* the state of each linking thread
    searcher,   \* the state of each searching thread
    file,       \* the sidecar on disk
    live,       \* history: the vector each id should be found with
    lists,      \* history: the neighbour lists the last linking left
    builds, searches, changes, saves    \* calls so far

vars == <<graph, native, draft, linker, searcher, file, live, lists, builds, searches, changes, saves>>

Id == 1..Len(Mark)
Block == 1..Workers
Layer == 0..MaxLevel

Dist(a, b) == IF a < b THEN b - a ELSE a - b

(* The member of S nearest to q, and the farthest.                         *)
Nearest(g, S, q) ==
    CHOOSE n \in S : \A o \in S : Dist(g.nodes[n].vec, q) <= Dist(g.nodes[o].vec, q)
Farthest(g, S, q) ==
    CHOOSE n \in S : \A o \in S : Dist(g.nodes[n].vec, q) >= Dist(g.nodes[o].vec, q)
Nearer(g, a, b, q) == Dist(g.nodes[a].vec, q) < Dist(g.nodes[b].vec, q)

(* The place of n when S is sorted by the distance to q.                   *)
Before(g, a, b, q) == Nearer(g, a, b, q) \/ (~Nearer(g, b, a, q) /\ a < b)
Rank(g, S, n, q) == Cardinality({o \in S : Before(g, o, n, q)})

-----------------------------------------------------------------------------
(* One graph                                                               *)

(* entry 0 stands for an index without nodes; the last three are history:  *)
(* how many threads linked it, whether a neighbour list that does not      *)
(* exist was written, and whether two searches froze it at once, or the    *)
(* graph it was loaded from.                                               *)
EmptyGraph ==
    [nodes |-> <<>>, entry |-> 0, maxLayer |-> -1, sealed |-> FALSE, csr |-> <<>>,
     deleted |-> {}, idIndex |-> NoIndex, blocks |-> 1, undefined |-> FALSE, raced |-> FALSE]

NewNode(id, vec, level) ==
    [id |-> id, vec |-> vec, superseded |-> FALSE, links |-> [l \in 1..(level + 1) |-> <<>>]]

Ords(g) == 1..Len(g.nodes)
maxM(layer) == IF layer = 0 THEN 2 * M ELSE M
HasLayer(g, n, layer) == layer < Len(g.nodes[n].links)

neighbours(g, n, layer) ==
    IF g.sealed
    THEN IF layer < Len(g.csr) THEN g.csr[layer + 1][n] ELSE <<>>
    ELSE IF HasLayer(g, n, layer) THEN g.nodes[n].links[layer + 1] ELSE <<>>

Adjacency(g) == [n \in Ords(g) |-> [layer \in Layer |-> neighbours(g, n, layer)]]

(* seal(): the lists of every layer become one block ...                   *)
Layers(g) == Max({0} \cup {Len(g.nodes[n].links) : n \in Ords(g)})
FilledCsr(g, layers) ==
    [l \in 1..layers |->
        [n \in Ords(g) |-> IF l <= Len(g.nodes[n].links) THEN g.nodes[n].links[l] ELSE <<>>]]
(* ... and those of the nodes are released.                                *)
Released(g) ==
    [g EXCEPT !.nodes = [n \in DOMAIN @ |-> [@[n] EXCEPT !.links = <<>>]], !.sealed = TRUE]

seal(g) ==
    IF g.sealed \/ Layers(g) = 0 THEN g
    ELSE Released([g EXCEPT !.csr = FilledCsr(g, Layers(g))])

(* Mutant: the highest layer is left out.                                  *)
TopLinkedBelow(g, n) == Max({0} \cup {l - 1 : l \in {k \in DOMAIN g.csr : g.csr[k][n] # <<>>}})

(* unpack_links(): a node gets its layers back up to the highest one on    *)
(* which it has a neighbour.                                               *)
TopLinked(g, n) == Max({0} \cup {l \in DOMAIN g.csr : g.csr[l][n] # <<>>})
UnpackedNodes(g) ==
    [n \in Ords(g) |->
        [g.nodes[n] EXCEPT !.links = [l \in 1..TopLinked(g, n) |-> g.csr[l][n]]]]
unseal(g) ==
    IF ~g.sealed THEN g
    ELSE [g EXCEPT !.nodes = UnpackedNodes(g), !.sealed = FALSE, !.csr = <<>>]

-----------------------------------------------------------------------------
(* search_layer_into(): the beam of width ef around q                      *)

BeamAt(n) == [cand |-> {n}, result |-> {n}, seen |-> {n}]

Admit(g, q, ef, beam, nb) ==
    LET full  == Cardinality(beam.result) >= ef
        worst == Farthest(g, beam.result, q)
        admit == ~full \/ Nearer(g, nb, worst, q)
        kept  == IF full THEN beam.result \ {worst} ELSE beam.result
    IN  CASE nb \in beam.seen -> beam
          [] nb \notin beam.seen /\ ~admit -> [beam EXCEPT !.seen = @ \cup {nb}]
          [] OTHER -> [cand |-> beam.cand \cup {nb}, result |-> kept \cup {nb},
                       seen |-> beam.seen \cup {nb}]

(* One turn of the loop: the nearest candidate is expanded, or is farther  *)
(* than a full result and ends the search.                                 *)
Expand(g, q, ef, layer, beam) ==
    LET c    == Nearest(g, beam.cand, q)
        list == neighbours(g, c, layer)
        after[i \in 0..Len(list)] ==
            IF i = 0 THEN [beam EXCEPT !.cand = @ \ {c}]
            ELSE Admit(g, q, ef, after[i - 1], list[i])
    IN  IF /\ Cardinality(beam.result) >= ef
           /\ Nearer(g, Farthest(g, beam.result, q), c, q)
        THEN [beam EXCEPT !.cand = {}]
        ELSE after[Len(list)]

search_layer(g, q, entry, layer, ef) ==
    LET turns == Len(g.nodes) + 1
        beam[i \in 0..turns] ==
            IF i = 0 THEN BeamAt(entry)
            ELSE LET b == beam[i - 1]
                 IN  IF b.cand = {} THEN b ELSE Expand(g, q, ef, layer, b)
    IN  beam[turns].result

(* The greedy descent from layer top to the one above layer down.          *)
Descend(g, q, entry, top, down) ==
    LET cur[i \in 0..(top - down)] ==
            IF i = 0 THEN entry
            ELSE Nearest(g, search_layer(g, q, cur[i - 1], top + 1 - i, 1), q)
    IN  IF top > down THEN cur[top - down] ELSE entry

-----------------------------------------------------------------------------
(* Neighbour selection                                                     *)

score_and_sort(g, node, cands) ==
    [i \in 1..Cardinality(cands) |->
        CHOOSE c \in cands : Rank(g, cands, c, g.nodes[node].vec) = i - 1]

select_neighbours_heuristic(g, node, scored, limit) ==
    LET Covered(c, picked) ==
            \E p \in ToSet(picked) : Nearer(g, p, node, g.nodes[c].vec)
        diverse[i \in 0..Len(scored)] ==
            IF i = 0 THEN <<>>
            ELSE LET picked == diverse[i - 1]
                 IN  IF Len(picked) >= limit \/ Covered(scored[i], picked)
                     THEN picked ELSE Append(picked, scored[i])
        filled[i \in 0..Len(scored)] ==
            IF i = 0 THEN diverse[Len(scored)]
            ELSE LET picked == filled[i - 1]
                 IN  IF Len(picked) >= limit \/ scored[i] \in ToSet(picked)
                     THEN picked ELSE Append(picked, scored[i])
    IN  filled[Len(scored)]

Selected(g, node, cands, layer) ==
    select_neighbours_heuristic(g, node, score_and_sort(g, node, cands), maxM(layer))

SetLinks(g, n, layer, list) ==
    IF HasLayer(g, n, layer) THEN [g EXCEPT !.nodes[n].links[layer + 1] = list]
    ELSE [g EXCEPT !.undefined = TRUE]
Links(g, n, layer) == IF HasLayer(g, n, layer) THEN g.nodes[n].links[layer + 1] ELSE <<>>

PushBack(list, node) == IF node \in ToSet(list) THEN list ELSE Append(list, node)

(* A back-link of connect(), pruned to the neighbour's own limit.          *)
BackLink(g, nb, node, layer) ==
    LET pushed == PushBack(Links(g, nb, layer), node)
    IN  SetLinks(g, nb, layer,
                 IF Len(pushed) > maxM(layer) THEN Selected(g, nb, ToSet(pushed), layer)
                 ELSE pushed)
(* Mutant: the neighbours do not learn of the node.                        *)
ConnectOneWay(g, node, layer, cands) ==
    SetLinks(g, node, layer, Selected(g, node, cands, layer))

(* connect() links both directions.                                        *)
connect(g, node, layer, cands) ==
    LET keep == Selected(g, node, cands, layer)
        linked[i \in 0..Len(keep)] ==
            IF i = 0 THEN SetLinks(g, node, layer, keep)
            ELSE BackLink(linked[i - 1], keep[i], node, layer)
    IN  linked[Len(keep)]

-----------------------------------------------------------------------------
(* Incremental changes                                                     *)

(* ensure_id_index(): later nodes win.                                     *)
IdIndex(g) ==
    IF g.idIndex # NoIndex THEN g.idIndex
    ELSE [id \in {g.nodes[n].id : n \in Ords(g)} |->
            Max({n \in Ords(g) : g.nodes[n].id = id})]

(* Mutant: the node the id had stays current.                              *)
AppendedBeside(g, id, vec, level) ==
    LET index == IdIndex(g)
    IN  [g EXCEPT !.nodes = Append(@, NewNode(id, vec, level)),
                  !.deleted = @ \ {id},
                  !.idIndex = [i \in DOMAIN index \cup {id} |->
                                    IF i = id THEN Len(g.nodes) + 1 ELSE index[i]]]

(* The node itself, before it is linked.                                   *)
Appended(g, id, vec, level) ==
    LET index == IdIndex(g)
        old   == [n \in Ords(g) |->
                    [g.nodes[n] EXCEPT !.superseded =
                        @ \/ (id \in DOMAIN index /\ n = index[id])]]
        ord   == Len(g.nodes) + 1
    IN  [g EXCEPT !.nodes = Append(old, NewNode(id, vec, level)),
                  !.deleted = @ \ {id},
                  !.idIndex = [i \in DOMAIN index \cup {id} |->
                                    IF i = id THEN ord ELSE index[i]]]

Promoted(g, ord, level) ==
    IF level > g.maxLayer THEN [g EXCEPT !.maxLayer = level, !.entry = ord] ELSE g

AddTo(g0, id, vec, level) ==
    LET g   == Appended(unseal(g0), id, vec, level)
        ord == Len(g.nodes)
        low == Min({level, g.maxLayer})
        \* [g, cur] after i layers, from low downwards, have been linked
        done[i \in 0..(low + 1)] ==
            IF i = 0
            THEN [g |-> g, cur |-> Descend(g, vec, g.entry, g.maxLayer, level)]
            ELSE LET up    == done[i - 1]
                     layer == low + 1 - i
                     found == search_layer(up.g, vec, up.cur, layer, EfConstruction)
                 IN  [g |-> connect(up.g, ord, layer, found), cur |-> Nearest(up.g, found, vec)]
    IN  IF g.maxLayer < 0 THEN Promoted(g, ord, level) ELSE Promoted(done[low + 1].g, ord, level)

Survivors(g) ==
    LET kept[n \in 0..Len(g.nodes)] ==
            IF n = 0 THEN <<>>
            ELSE IF g.nodes[n].id \in g.deleted \/ g.nodes[n].superseded THEN kept[n - 1]
            ELSE Append(kept[n - 1], g.nodes[n])
    IN  kept[Len(g.nodes)]
has_sequential_live_ids(g) ==
    /\ g.deleted = {}
    /\ \A n \in Ords(g) : ~g.nodes[n].superseded /\ g.nodes[n].id = n

-----------------------------------------------------------------------------
(* Searches                                                                *)

Returnable(g, n) == g.nodes[n].id \notin g.deleted /\ ~g.nodes[n].superseded
TopK(g, S, q, k) == {n \in S : Rank(g, S, n, q) < k}

WalkAllowed(g, q, k, ef, allowed) ==
    LET hop == search_layer(g, q, Descend(g, q, g.entry, g.maxLayer, 0), 0, ef)
    IN  TopK(g, {n \in hop : Returnable(g, n) /\ g.nodes[n].id \in allowed}, q, k)
HnswSearch(g, q, k) ==
    IF g.nodes = <<>> THEN {} ELSE WalkAllowed(g, q, k, Max({EfSearch, k}), Id)
search_filtered(g, q, k, allowed, boost) ==
    IF g.nodes = <<>> THEN {}
    ELSE WalkAllowed(g, q, k, Min({Max({EfSearch, k}) * Max({1, boost}), Len(g.nodes)}), allowed)
search_exact_filtered(g, q, k, allowed) ==
    TopK(g, {n \in Ords(g) : Returnable(g, n) /\ g.nodes[n].id \in allowed}, q, k)

(* Mutant: what the walk finds is all there is.                            *)
NativeHitsOfWalk(g, q, k, allowed, inOrder) ==
    LET rows   == Len(g.nodes)
        count  == Cardinality(allowed)
        wanted == Min({k, count})
    IN  IF inOrder THEN HnswSearch(g, q, Min({k, rows}))
        ELSE IF wanted = 0 THEN {}
        ELSE IF count = rows THEN HnswSearch(g, q, wanted)
        ELSE search_filtered(g, q, wanted, allowed, Max({4, rows \div count}))

(* NativeHnswIndex::search() once the graph is sealed.  inOrder: the list  *)
(* of allowed ids is the index's own list of keys.                         *)
NativeHits(g, q, k, allowed, inOrder) ==
    LET rows   == Len(g.nodes)
        count  == Cardinality(allowed)
        wanted == Min({k, count})
        hits   == IF count = rows THEN HnswSearch(g, q, wanted)
                  ELSE search_filtered(g, q, wanted, allowed, Max({4, rows \div count}))
    IN  IF inOrder THEN HnswSearch(g, q, Min({k, rows}))
        ELSE IF wanted = 0 THEN {}
        ELSE IF Cardinality(hits) < wanted THEN search_exact_filtered(g, q, wanted, allowed)
        ELSE hits

-----------------------------------------------------------------------------
(* build_batch(), phase 1: every row is staged with its level, the first   *)
(* one is the entry point, and parallel_for() splits the others.           *)

block_count(n) == IF n < ParallelMin THEN 1 ELSE Min({n, Workers})

Staged(rows, level) ==
    LET n == Len(rows)
    IN  IF n = 0 THEN EmptyGraph
        ELSE [EmptyGraph EXCEPT
                !.nodes = [i \in 1..n |-> NewNode(rows[i].id, rows[i].vec, level[i])],
                !.entry = 1, !.maxLayer = level[1], !.blocks = block_count(n - 1)]

IdleLinker ==
    [pc |-> "idle", node |-> 0, last |-> 0, top |-> 0, layer |-> 0, cur |-> 0,
     beam |-> BeamAt(0), todo |-> <<>>, pruned |-> <<>>]

(* The nodes thread b links, of the n - 1 after the first.                 *)
BlockOf(b, n) ==
    LET blocks == block_count(n - 1)
        chunk  == (n - 1 + blocks - 1) \div blocks
        lo     == 2 + (b - 1) * chunk
        hi     == IF b = blocks THEN n ELSE Min({lo + chunk - 1, n})
    IN  IF b > blocks \/ lo > hi THEN IdleLinker
        ELSE [IdleLinker EXCEPT !.pc = "entry", !.node = lo, !.last = hi]

Searching == \E r \in Searcher : searcher[r].pc # "idle"
RowVectors(n) == [id \in Id |-> IF id <= n THEN Mark[id] ELSE NoVec]

StartBuild(rows) ==
    \E level \in [1..Len(rows) -> Layer] :
        /\ draft' = Staged(rows, level)
        /\ linker' = [b \in Block |-> IF Len(rows) < 2 THEN IdleLinker ELSE BlockOf(b, Len(rows))]

(* NativeHnswIndex::build() makes a new graph beside the one being served; *)
(* a single owner builds a new one.                                        *)
Build(n) ==
    /\ draft = NoIndex /\ builds < MaxBuilds
    /\ IF native THEN n \in NativeRows ELSE n \in OwnerRows /\ graph = EmptyGraph
    /\ StartBuild([i \in 1..n |-> [id |-> i, vec |-> Mark[i]]])
    /\ live' = IF native THEN live ELSE RowVectors(n)
    /\ builds' = builds + 1
    /\ UNCHANGED <<graph, native, searcher, file, lists, searches, changes, saves>>

(* compact(): the surviving rows are built again.                          *)
Compact ==
    /\ ~native /\ draft = NoIndex /\ ~Searching /\ ~graph.undefined
    /\ graph.deleted # {} \/ \E n \in Ords(graph) : graph.nodes[n].superseded
    /\ StartBuild(Survivors(graph))
    /\ UNCHANGED <<graph, native, searcher, file, live, lists, builds, searches, changes, saves>>

-----------------------------------------------------------------------------
(* Phase 2: thread b links its nodes one after the other                   *)

Level(n) == Len(draft.nodes[n].links) - 1
Beam(l, layer, n) == [l EXCEPT !.pc = "walk", !.layer = layer, !.beam = BeamAt(n)]

LinkStep(b, pc) ==
    /\ draft # NoIndex
    /\ linker[b].pc = pc
    /\ UNCHANGED <<graph, native, searcher, file, live, lists, builds, searches, changes, saves>>

(* The entry point is read under entry_mu.                                 *)
ReadEntry(b) ==
    /\ LinkStep(b, "entry")
    /\ linker' = [linker EXCEPT ![b] =
                    [Beam(@, draft.maxLayer, draft.entry) EXCEPT !.top = draft.maxLayer]]
    /\ UNCHANGED draft

(* One neighbour list is read without a lock; a walk above the node's own  *)
(* level goes on below, the others give the candidates to link.            *)
Walk(b) ==
    /\ LinkStep(b, "walk")
    /\ LET l     == linker[b]
           q     == draft.nodes[l.node].vec
           above == l.layer > Level(l.node)
           beam  == Expand(draft, q, IF above THEN 1 ELSE EfConstruction, l.layer, l.beam)
           best  == Nearest(draft, beam.result, q)
       IN  linker' = [linker EXCEPT ![b] =
                        CASE beam.cand # {} -> [l EXCEPT !.beam = beam]
                          [] beam.cand = {} /\ above -> Beam(l, l.layer - 1, best)
                          [] OTHER -> [l EXCEPT !.beam = beam, !.cur = best, !.pc = "own"]]
    /\ UNCHANGED draft

(* connect_locked() publishes the node's own list ...                      *)
LinkOwn(b) ==
    /\ LinkStep(b, "own")
    /\ LET l    == linker[b]
           keep == Selected(draft, l.node, l.beam.result, l.layer)
       IN  /\ draft' = SetLinks(draft, l.node, l.layer, keep)
           /\ linker' = [linker EXCEPT ![b].pc = "back", ![b].todo = keep]

NextNode(l) ==
    IF l.node < l.last THEN [IdleLinker EXCEPT !.pc = "entry", !.node = l.node + 1, !.last = l.last]
    ELSE IdleLinker
(* What follows the edit of one neighbour.                                 *)
AfterNeighbour(l) ==
    CASE Len(l.todo) > 1 -> [l EXCEPT !.pc = "back", !.todo = Tail(@), !.pruned = <<>>]
      [] Len(l.todo) = 1 /\ l.layer > 0 ->
            [Beam(l, l.layer - 1, l.cur) EXCEPT !.todo = <<>>, !.pruned = <<>>]
      [] OTHER -> IF Level(l.node) > l.top
                  THEN [IdleLinker EXCEPT !.pc = "promote", !.node = l.node, !.last = l.last]
                  ELSE NextNode(l)

(* ... appends the node to each neighbour under that neighbour's lock ...  *)
LinkBack(b) ==
    /\ LinkStep(b, "back")
    /\ LET l      == linker[b]
           nb     == Head(l.todo)
           pushed == PushBack(Links(draft, nb, l.layer), l.node)
       IN  /\ draft' = SetLinks(draft, nb, l.layer, pushed)
           /\ linker' = [linker EXCEPT ![b] =
                IF Len(pushed) > maxM(l.layer)
                THEN [l EXCEPT !.pc = "prune",
                               !.pruned = Selected(draft, nb, ToSet(pushed), l.layer)]
                ELSE AfterNeighbour(l)]

(* Mutant: only the thread that finds its own append in excess prunes.     *)
LinkPruneOwn(b) ==
    /\ LinkStep(b, "prune")
    /\ LET l  == linker[b]
           nb == Head(l.todo)
       IN  /\ draft' = IF Len(Links(draft, nb, l.layer)) = maxM(l.layer) + 1
                       THEN SetLinks(draft, nb, l.layer, l.pruned) ELSE draft
           /\ linker' = [linker EXCEPT ![b] = AfterNeighbour(l)]

(* ... and writes the list it pruned meanwhile if it is still too long.    *)
LinkPrune(b) ==
    /\ LinkStep(b, "prune")
    /\ LET l  == linker[b]
           nb == Head(l.todo)
       IN  /\ draft' = IF Len(Links(draft, nb, l.layer)) > maxM(l.layer)
                       THEN SetLinks(draft, nb, l.layer, l.pruned) ELSE draft
           /\ linker' = [linker EXCEPT ![b] = AfterNeighbour(l)]

Promote(b) ==
    /\ LinkStep(b, "promote")
    /\ draft' = Promoted(draft, linker[b].node, Level(linker[b].node))
    /\ linker' = [linker EXCEPT ![b] = NextNode(@)]

(* All threads have joined: the graph is sealed, and replaces the old one  *)
(* when no search holds the lock.                                          *)
FinishBuild ==
    /\ draft # NoIndex /\ ~Searching
    /\ \A b \in Block : linker[b].pc = "idle"
    /\ graph' = seal(draft)
    /\ draft' = NoIndex
    /\ live' = IF native THEN RowVectors(Len(draft.nodes)) ELSE live
    /\ lists' = Adjacency(draft)
    /\ UNCHANGED <<native, linker, searcher, file, builds, searches, changes, saves>>

-----------------------------------------------------------------------------
(* Changes by a single owner                                               *)

Owned == ~native /\ draft = NoIndex /\ ~Searching /\ ~graph.undefined /\ changes < Len(Fresh)

Add(id, level) ==
    /\ Owned
    /\ graph' = AddTo(graph, id, Fresh[changes + 1], level)
    /\ live' = [live EXCEPT ![id] = Fresh[changes + 1]]
    /\ lists' = Adjacency(graph')
    /\ changes' = changes + 1
    /\ UNCHANGED <<native, draft, linker, searcher, file, builds, searches, saves>>

RemoveId(id) ==
    /\ Owned
    /\ graph' = [graph EXCEPT !.deleted = @ \cup {id}]
    /\ live' = [live EXCEPT ![id] = NoVec]
    /\ changes' = changes + 1
    /\ UNCHANGED <<native, draft, linker, searcher, file, lists, builds, searches, saves>>

-----------------------------------------------------------------------------
(* Searches, under a shared lock: each seals the graph first if nobody has *)

Sealing == \E r \in Searcher : searcher[r].pc \in {"layers", "fill", "release"}

SearchStep(r, pc) ==
    /\ searcher[r].pc = pc
    /\ UNCHANGED <<native, draft, linker, file, live, lists, builds, changes, saves>>

SearchBegin(r) ==
    /\ SearchStep(r, "idle")
    /\ graph.nodes # <<>> /\ ~graph.undefined
    /\ native \/ draft = NoIndex
    /\ searches < MaxSearches
    /\ searches' = searches + 1
    /\ searcher' = [searcher EXCEPT ![r] =
                        IF graph.sealed THEN [pc |-> "walk", layers |-> 0]
                        ELSE [pc |-> "layers", layers |-> 0]]
    /\ graph' = [graph EXCEPT !.raced = @ \/ (~graph.sealed /\ Sealing)]

(* seal() in three steps: the old blocks are dropped, filled again, and    *)
(* the nodes' own lists released.                                          *)
SealLayers(r) ==
    /\ SearchStep(r, "layers")
    /\ LET layers == Layers(graph)
       IN  IF layers = 0
           THEN /\ searcher' = [searcher EXCEPT ![r].pc = "walk"]
                /\ UNCHANGED graph
           ELSE /\ searcher' = [searcher EXCEPT ![r] = [pc |-> "fill", layers |-> layers]]
                /\ graph' = [graph EXCEPT !.csr = [l \in 1..layers |-> [n \in Ords(graph) |-> <<>>]]]
    /\ UNCHANGED searches

SealFill(r) ==
    /\ SearchStep(r, "fill")
    /\ graph' = [graph EXCEPT !.csr = FilledCsr(graph, searcher[r].layers)]
    /\ searcher' = [searcher EXCEPT ![r].pc = "release"]
    /\ UNCHANGED searches

SealRelease(r) ==
    /\ SearchStep(r, "release")
    /\ graph' = Released(graph)
    /\ searcher' = [searcher EXCEPT ![r] = [pc |-> "walk", layers |-> 0]]
    /\ UNCHANGED searches

(* The walk reads only; what it answers is the subject of the properties.  *)
SearchEnd(r) ==
    /\ SearchStep(r, "walk")
    /\ searcher' = [searcher EXCEPT ![r].pc = "idle"]
    /\ UNCHANGED <<graph, searches>>

-----------------------------------------------------------------------------
(* The cache file of a native index                                        *)

(* serialize() writes the per-node lists, unpacked if necessary, and       *)
(* neither the tombstones nor the superseded marks; lists, blocks and      *)
(* flawed are history.                                                     *)
serialize(g, history) ==
    [rows |-> Len(g.nodes), entry |-> g.entry, maxLayer |-> g.maxLayer,
     lists |-> history, blocks |-> g.blocks, flawed |-> g.undefined \/ g.raced,
     nodes |-> [n \in Ords(g) |->
                    LET nd == unseal(g).nodes[n]
                    IN  [id |-> nd.id, vec |-> nd.vec, links |-> nd.links]]]

(* deserialize(): an unsealed graph, or a refusal.                         *)
Parses(blob) ==
    LET n == Len(blob.nodes)
    IN  /\ \A i, j \in 1..n : blob.nodes[i].id = blob.nodes[j].id => i = j
        /\ IF n = 0 THEN blob.entry = 0 ELSE blob.entry \in 1..n
        /\ \A i \in 1..n : \A l \in DOMAIN blob.nodes[i].links :
                /\ Len(blob.nodes[i].links[l]) <= n
                /\ ToSet(blob.nodes[i].links[l]) \subseteq 1..n
deserialize(blob) ==
    LET g == [EmptyGraph EXCEPT
                !.nodes = [n \in DOMAIN blob.nodes |->
                            [id |-> blob.nodes[n].id, vec |-> blob.nodes[n].vec,
                             superseded |-> FALSE, links |-> blob.nodes[n].links]],
                !.entry = blob.entry, !.maxLayer = blob.maxLayer, !.blocks = blob.blocks,
                !.raced = blob.flawed]
    IN  [g EXCEPT !.idIndex = IdIndex(g)]
from_serialized(blob, rows) ==
    /\ Parses(blob)
    /\ Len(blob.nodes) = rows
    /\ has_sequential_live_ids(deserialize(blob))

(* write_hnsw_sidecar(), with the fingerprint of the rows.                 *)
Save ==
    /\ native /\ ~Searching /\ graph.nodes # <<>>
    /\ saves < MaxSaves
    /\ file' = serialize(graph, lists)
    /\ saves' = saves + 1
    /\ UNCHANGED <<graph, native, draft, linker, searcher, live, lists, builds, searches, changes>>

(* load_hnsw_sidecar(), when the rows of the backend are the first n: the  *)
(* file is used only with their fingerprint and keys.                      *)
Load(n) ==
    /\ native /\ file # NoFile /\ ~Searching /\ draft = NoIndex
    /\ file.rows = n /\ from_serialized(file, n)
    /\ graph' = deserialize(file)
    /\ live' = RowVectors(n)
    /\ lists' = file.lists
    /\ UNCHANGED <<native, draft, linker, searcher, file, builds, searches, changes, saves>>

-----------------------------------------------------------------------------
Init ==
    /\ graph = EmptyGraph /\ draft = NoIndex
    /\ native \in BOOLEAN
    /\ linker = [b \in Block |-> IdleLinker]
    /\ searcher = [r \in Searcher |-> [pc |-> "idle", layers |-> 0]]
    /\ file = NoFile
    /\ live = RowVectors(0)
    /\ lists = Adjacency(EmptyGraph)
    /\ builds = 0 /\ searches = 0 /\ changes = 0 /\ saves = 0

Link(b) ==
    ReadEntry(b) \/ Walk(b) \/ LinkOwn(b) \/ LinkBack(b) \/ LinkPrune(b) \/ Promote(b)
Search(r) ==
    SearchBegin(r) \/ SealLayers(r) \/ SealFill(r) \/ SealRelease(r) \/ SearchEnd(r)

Next ==
    \/ \E n \in NativeRows \cup OwnerRows : Build(n)
    \/ \E b \in Block : Link(b)
    \/ FinishBuild
    \/ Compact
    \/ \E id \in Id, level \in Layer : Add(id, level)
    \/ \E id \in Id : RemoveId(id)
    \/ \E r \in Searcher : Search(r)
    \/ Save
    \/ \E n \in NativeRows : Load(n)

Spec == Init /\ [][Next]_vars

-----------------------------------------------------------------------------
(* Properties                                                              *)

Ids == {graph.nodes[n].id : n \in Ords(graph)}
Walking == \E r \in Searcher : searcher[r].pc = "walk"

(* The whole index, and with rows missing.                                 *)
Filters(rows) == {rows \ S : S \in {{}} \cup {{i} : i \in rows}} \cup {{i} : i \in rows}

(* What a search for the k nearest to q among the allowed ids answers.     *)
Answer(q, k, allowed) ==
    IF native THEN NativeHits(graph, q, k, allowed, allowed = Ids)
    ELSE IF allowed = Ids THEN HnswSearch(graph, q, k)
    ELSE search_filtered(graph, q, k, allowed, 4)

(* No search returns an id that was removed or filtered out, or an id      *)
(* twice, or one with a vector it no longer has, whatever mix of builds,   *)
(* upserts, removals and compactions went before (the superseded marks and *)
(* tombstones of search()).                                                *)
HitsCurrent ==
    Walking => \A q \in Query, k \in Wanted, allowed \in Filters(Ids) :
        LET hits == Answer(q, k, allowed)
        IN  /\ \A n \in hits : /\ graph.nodes[n].id \in allowed
                               /\ live[graph.nodes[n].id] = graph.nodes[n].vec
            /\ \A n, o \in hits : graph.nodes[n].id = graph.nodes[o].id => n = o

(* A filtered search of the native index returns as many hits as exist,    *)
(* however badly the linking threads connected the graph: the exact scan   *)
(* fills in (native_hnsw.cpp, "hits.size() < wanted").                     *)
FilteredComplete ==
    (Walking /\ native) =>
        \A q \in Query, k \in Wanted, allowed \in Filters(Ids) :
            Cardinality(NativeHits(graph, q, k, allowed, FALSE)) = Min({k, Cardinality(allowed)})

(* A graph that one thread linked, and that is too small for a list of the *)
(* lowest layer to be pruned, can be walked from its entry point to every  *)
(* live vector, so that a search with a wide enough beam finds all of      *)
(* them, also after upserts, a change of the entry point and a compaction. *)
SerialGraphComplete ==
    (/\ Walking /\ ~graph.raced
     /\ graph.blocks = 1 /\ Len(graph.nodes) <= maxM(0) + 1) =>
        \A q \in Query :
            {graph.nodes[n].id : n \in HnswSearch(graph, q, Len(graph.nodes))}
                = {id \in Id : live[id] # NoVec}

(* No neighbour list outgrows its limit by more than the appends whose     *)
(* prune is still to come, and none names a node twice: the re-check under *)
(* the lock of connect_locked() misses no overflow.                        *)
ListsBounded ==
    draft # NoIndex =>
        \A n \in Ords(draft), layer \in Layer :
            LET list  == Links(draft, n, layer)
                owing == {b \in Block : /\ linker[b].pc = "prune" /\ linker[b].layer = layer
                                        /\ Head(linker[b].todo) = n}
            IN  /\ Len(list) <= maxM(layer) + Cardinality(owing)
                /\ IsInjective(list)

(* Freezing, unfreezing, saving and loading a graph change no neighbour    *)
(* list: "a sealed and an unsealed index answer every query identically"   *)
(* (hnsw.hpp).  The exception are two searches that both find a loaded or  *)
(* changed graph unfrozen: seal() runs under a shared lock, and the second *)
(* may fill the blocks from lists the first has released.                  *)
SealIsMemoization ==
    (~Sealing /\ ~graph.undefined /\ ~graph.raced) => Adjacency(graph) = lists

=============================================================================
