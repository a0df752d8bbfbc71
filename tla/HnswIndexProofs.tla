-------------------------- MODULE HnswIndexProofs --------------------------
(***************************************************************************)
(* Proofs about HnswIndex, for any vectors, limits, beam widths and        *)
(* levels, any number of linking and searching threads and any number of   *)
(* builds, changes, searches and saves: hits are current, filtered         *)
(* searches are complete, neighbour lists stay within their limits, and    *)
(* the layout of a graph never shows.                                      *)
(***************************************************************************)
EXTENDS HnswIndex, FiniteSetTheorems, WellFoundedInduction, TLAPS

(* The graphs of n nodes. *)
LinkLists(n) == {ls \in Seq(Seq(1..n)) : Len(ls) <= MaxLevel + 1}
Blocks(n) == {c \in Seq([1..n -> Seq(1..n)]) : Len(c) <= MaxLevel + 1}
Indexes(n) == UNION {[S -> 1..n] : S \in SUBSET Id}
Node(n) == [id : Id, vec : Int, superseded : BOOLEAN, links : LinkLists(n)]
Graphs(n) ==
    [nodes : Seq(Node(n)), entry : 0..n, maxLayer : -1..MaxLevel, sealed : BOOLEAN,
     csr : Blocks(n), deleted : SUBSET Id, idIndex : Indexes(n) \cup {NoIndex},
     blocks : Nat, undefined : BOOLEAN, raced : BOOLEAN]
IsGraph(g) ==
    /\ g \in Graphs(Len(g.nodes))
    /\ g.maxLayer >= 0 => g.entry \in Ords(g)

(* Walks have somewhere to start. *)
Rooted(g) == g.nodes # <<>> => g.maxLayer >= 0

(* Only the last node of an id is not superseded. *)
LastWins(g) == \A n, o \in Ords(g) : n < o /\ g.nodes[n].id = g.nodes[o].id => g.nodes[n].superseded

(* The node of an id that is not superseded is found by ensure_id_index(). *)
IndexFinds(g) ==
    \A n \in Ords(g) : ~g.nodes[n].superseded =>
        g.nodes[n].id \in DOMAIN IdIndex(g) /\ IdIndex(g)[g.nodes[n].id] = n

(* The rows of a native index. *)
IsRow(g, n) == g.nodes[n].id = n /\ g.nodes[n].vec = Mark[n] /\ ~g.nodes[n].superseded
Sequential(g) == g.deleted = {} /\ \A n \in Ords(g) : IsRow(g, n)

(* What a node has that can be returned is current. *)
Current(g) == \A n \in Ords(g) : Returnable(g, n) => live[g.nodes[n].id] = g.nodes[n].vec

GraphInv ==
    /\ IsGraph(graph) /\ Rooted(graph) /\ LastWins(graph) /\ Current(graph)
    /\ native => Sequential(graph)
    /\ ~native => IndexFinds(graph)
    /\ live \in [Id -> Int \cup {NoVec}] /\ native \in BOOLEAN /\ changes \in Nat

-----------------------------------------------------------------------------
(* The graph that is being built                                           *)

Beams(S) == [cand : SUBSET S, result : (SUBSET S) \ {{}}, seen : SUBSET S]

Linker(n) ==
    [pc : {"idle", "entry", "walk", "own", "back", "prune", "promote"}, node : 0..n, last : 0..n,
     top : -1..MaxLevel, layer : 0..MaxLevel, cur : 0..n, beam : Beams(0..n),
     todo : Seq(1..n), pruned : Seq(1..n)]

(* A list that respects its limit. *)
Limited(list, layer) == Len(list) <= maxM(layer) /\ IsInjective(list)

LinkerOK(l, n) ==
    /\ l \in Linker(n)
    /\ l.pc # "idle" => l.node \in 1..n /\ l.last \in 1..n
    /\ l.pc \in {"walk", "own"} => l.beam \in Beams(1..n)
    /\ l.pc = "walk" => l.beam.cand # {}
    /\ l.pc \in {"own", "back", "prune"} => l.cur \in 1..n
    /\ l.pc \in {"back", "prune"} => l.todo # <<>>
    /\ l.pc = "prune" => Limited(l.pruned, l.layer)

(* A graph before the first search or removal. *)
IsDraft(g) ==
    /\ IsGraph(g) /\ Rooted(g) /\ ~g.sealed /\ g.csr = <<>> /\ g.deleted = {}
    /\ g.idIndex = NoIndex
    /\ \A n \in Ords(g) : ~g.nodes[n].superseded /\ g.nodes[n].links # <<>>
    /\ \A n, o \in Ords(g) : g.nodes[n].id = g.nodes[o].id => n = o

(* The threads that still have to prune a list they made too long. *)
Owing(lk, n, layer) ==
    {b \in Block : lk[b].pc = "prune" /\ lk[b].layer = layer /\ Head(lk[b].todo) = n}
Bounded(g, lk) ==
    \A n \in Ords(g), layer \in Layer :
        /\ Len(Links(g, n, layer)) <= maxM(layer) + Cardinality(Owing(lk, n, layer))
        /\ IsInjective(Links(g, n, layer))

LinkersOK(g, lk) ==
    /\ lk \in [Block -> Linker(Len(g.nodes))]
    /\ \A b \in Block : LinkerOK(lk[b], Len(g.nodes))

DraftInv ==
    draft # NoIndex =>
        /\ IsDraft(draft) /\ LinkersOK(draft, linker) /\ Bounded(draft, linker)
        /\ IF native THEN Sequential(draft) ELSE Current(draft)

-----------------------------------------------------------------------------
(* Layouts and the file                                                    *)

SealPcs == {"layers", "fill", "release"}

SealInv ==
    /\ searcher \in [Searcher -> [pc : {"idle", "walk"} \cup SealPcs, layers : 0..(MaxLevel + 1)]]
    /\ graph.sealed \/ graph.csr = <<>> \/ \E r \in Searcher : searcher[r].pc \in {"fill", "release"}
    /\ ~graph.raced =>
         /\ \A r, s \in Searcher : searcher[r].pc \in SealPcs /\ searcher[s].pc \in SealPcs => r = s
         /\ \A r \in Searcher :
              /\ searcher[r].pc \in SealPcs => ~graph.sealed
              /\ searcher[r].pc = "fill" => searcher[r].layers = Layers(graph)
              /\ searcher[r].pc = "release" => graph.csr = FilledCsr(graph, Layers(graph))
         /\ ~graph.undefined => Adjacency(graph) = lists

FileInv ==
    file # NoFile =>
        LET g == deserialize(file)
        IN  /\ IsGraph(g) /\ Rooted(g) /\ Sequential(g) /\ ~g.sealed /\ g.csr = <<>>
            /\ file.rows = Len(g.nodes) /\ ~g.undefined
            /\ ~g.raced => Adjacency(g) = file.lists

Inv == GraphInv /\ DraftInv /\ SealInv /\ FileInv

-----------------------------------------------------------------------------
(* Numbers                                                                 *)

(* A set of numbers that is not empty has a least one. *)
LEMMA LeastOf ==
    ASSUME NEW S \in SUBSET Nat, S # {}
    PROVE  \E v \in S : \A w \in S : v <= w
    <1>1. PICK v \in S : \A w \in S : ~ (<<w, v>> \in OpToRel(<, Nat))
        BY NatLessThanWellFounded, WFMin, Zenon
    <1>2. ASSUME NEW w \in S, w < v
          PROVE  FALSE
        <2>1. <<w, v>> \in Nat \X Nat /\ <<w, v>>[1] < <<w, v>>[2]
            BY <1>2
        <2> QED BY <1>1, <1>2, <2>1, Zenon DEF OpToRel
    <1>3. \A w \in S : v <= w
        BY <1>2
    <1> QED BY <1>3

(* A set of numbers that is bounded has a greatest one. *)
LEMMA GreatestOf ==
    ASSUME NEW S \in SUBSET Nat, S # {}, NEW top \in Nat, \A v \in S : v <= top
    PROVE  /\ Max(S) \in S
           /\ \A w \in S : w <= Max(S)
    <1> DEFINE T == {top - v : v \in S}
    <1>1. T \in SUBSET Nat /\ T # {}
        <2>1. \A v \in S : top - v \in Nat
            OBVIOUS
        <2>2. PICK v \in S : TRUE
            OBVIOUS
        <2>3. top - v \in T
            BY <2>2
        <2> QED BY <2>1, <2>3
    <1>2. PICK t \in T : \A w \in T : t <= w
        <2> HIDE DEF T
        <2> QED BY <1>1, LeastOf
    <1>3. PICK v \in S : t = top - v
        BY <1>2
    <1>4. \A w \in S : v >= w
        <2> SUFFICES ASSUME NEW w \in S PROVE v >= w
            OBVIOUS
        <2>1. top - w \in T
            OBVIOUS
        <2>2. t <= top - w
            BY <1>2, <2>1
        <2> QED BY <1>3, <2>2
    <1>5. Max(S) \in S /\ \A w \in S : Max(S) >= w
        BY <1>4, Zenon DEF Max
    <1> QED BY <1>5

(* A set that has 0, and every number whose predecessor it has, has every
   number. *)
LEMMA ReachesAll ==
    ASSUME NEW S, 0 \in S, \A n \in Nat : n \in S => n + 1 \in S
    PROVE  Nat \subseteq S
    <1> SUFFICES ASSUME Nat \ S # {} PROVE FALSE
        OBVIOUS
    <1>1. PICK v \in Nat \ S : \A w \in Nat \ S : v <= w
        BY LeastOf, Nat \ S \in SUBSET Nat
    <1>2. v - 1 \in Nat /\ v - 1 \in S /\ (v - 1) + 1 = v
        BY <1>1
    <1> QED BY <1>1, <1>2

(* The values of a loop stay in a set that every turn stays in. *)
LEMMA LoopStays ==
    ASSUME NEW V, NEW m \in Nat, NEW f, f[0] \in V,
           \A i \in 1..m : f[i - 1] \in V => f[i] \in V
    PROVE  \A i \in 0..m : f[i] \in V
    <1> DEFINE S == {i \in Nat : i <= m => f[i] \in V}
    <1>1. 0 \in S
        OBVIOUS
    <1>2. ASSUME NEW i \in Nat, i \in S PROVE i + 1 \in S
        <2> SUFFICES ASSUME i + 1 <= m PROVE f[i + 1] \in V
            OBVIOUS
        <2>1. i + 1 \in 1..m /\ (i + 1) - 1 = i /\ f[i] \in V
            BY <1>2
        <2> QED BY <2>1
    <1>3. Nat \subseteq S
        <2> HIDE DEF S
        <2> QED BY <1>1, <1>2, ReachesAll, Zenon
    <1> QED BY <1>3

(* f has the values of a loop over V before and after each of m turns. *)
IsRun(f, V, base, m, step) ==
    f \in [0..m -> V] /\ f[0] = base /\ \A i \in 1..m : f[i] = step[i][f[i - 1]]

(* Every loop over a set of values has a run. *)
LEMMA LoopRuns ==
    ASSUME NEW V, NEW base \in V, NEW m \in Nat, NEW step \in [1..m -> [V -> V]]
    PROVE  \E f : IsRun(f, V, base, m, step)
    <1> DEFINE Runs(f, n) == IsRun(f, V, base, n, step)
               S == {n \in Nat : n <= m => \E f : Runs(f, n)}
    <1>1. 0 \in S
        <2>1. Runs([i \in 0..0 |-> base], 0)
            BY DEF IsRun
        <2> QED BY <2>1
    <1>2. ASSUME NEW n \in Nat, n \in S PROVE n + 1 \in S
        <2> SUFFICES ASSUME n + 1 <= m PROVE \E f : Runs(f, n + 1)
            OBVIOUS
        <2>1. PICK f : Runs(f, n)
            BY <1>2
        <2> USE DEF IsRun
        <2> DEFINE v == step[n + 1][f[n]]
                   g == [i \in 0..(n + 1) |-> IF i <= n THEN f[i] ELSE v]
        <2>2. v \in V
            <3>1. n + 1 \in 1..m /\ f[n] \in V
                BY <2>1
            <3> QED BY <3>1
        <2>3. g \in [0..(n + 1) -> V] /\ g[0] = base
            BY <2>1, <2>2
        <2>4. ASSUME NEW i \in 1..(n + 1) PROVE g[i] = step[i][g[i - 1]]
            <3>1. CASE i \in 1..n
                <4>1. g[i] = f[i] /\ g[i - 1] = f[i - 1]
                    BY <3>1
                <4>2. f[i] = step[i][f[i - 1]]
                    BY <2>1, <3>1
                <4> QED BY <4>1, <4>2, Zenon
            <3>2. CASE i = n + 1
                <4>1. g[i] = v /\ g[i - 1] = f[n]
                    BY <3>2
                <4> QED BY <3>2, <4>1, Zenon
            <3> QED BY <3>1, <3>2
        <2>5. Runs(g, n + 1)
            BY <2>3, <2>4, Zenon
        <2> QED BY <2>5, Zenon
    <1>3. m \in S
        <2>1. Nat \subseteq S
            <3> HIDE DEF S
            <3> QED BY <1>1, <1>2, ReachesAll, Zenon
        <2> QED BY <2>1
    <1>4. \E f : Runs(f, m)
        BY <1>3
    <1> QED BY <1>4, Zenon

(* The least and the greatest of two numbers. *)
LEMMA OfTwo ==
    ASSUME NEW a \in Int, NEW b \in Int
    PROVE  /\ Min({a, b}) \in {a, b} /\ Min({a, b}) <= a /\ Min({a, b}) <= b
           /\ Max({a, b}) \in {a, b} /\ a <= Max({a, b}) /\ b <= Max({a, b})
    <1>1. \E x \in {a, b} : \A y \in {a, b} : x <= y
        OBVIOUS
    <1>2. \E x \in {a, b} : \A y \in {a, b} : x >= y
        OBVIOUS
    <1>3. Min({a, b}) \in {a, b} /\ \A y \in {a, b} : Min({a, b}) <= y
        BY <1>1, Zenon DEF Min
    <1>4. Max({a, b}) \in {a, b} /\ \A y \in {a, b} : Max({a, b}) >= y
        BY <1>2, Zenon DEF Max
    <1> QED BY <1>3, <1>4
-----------------------------------------------------------------------------
(* Sorting by distance                                                     *)

LEMMA DistFacts == \A a, b \in Int : Dist(a, b) \in Nat
    BY DEF Dist

(* The nearest of some nodes is one of them. *)
LEMMA NearestFacts ==
    ASSUME NEW g, NEW S, S # {}, \A n \in S : g.nodes[n].vec \in Int, NEW q \in Int
    PROVE  Nearest(g, S, q) \in S
    <1> DEFINE d(n) == Dist(g.nodes[n].vec, q)
               T == {d(n) : n \in S}
    <1>1. \A n \in S : d(n) \in Nat
        BY DistFacts
    <1> HIDE DEF d
    <1>2. T \in SUBSET Nat /\ T # {}
        BY <1>1
    <1>3. PICK t \in T : \A w \in T : t <= w
        <2> HIDE DEF T
        <2> QED BY <1>2, LeastOf
    <1>4. PICK n \in S : t = d(n)
        BY <1>3
    <1>5. \A o \in S : d(n) <= d(o)
        BY <1>3, <1>4
    <1>6. \E m \in S : \A o \in S : Dist(g.nodes[m].vec, q) <= Dist(g.nodes[o].vec, q)
        BY <1>5, Zenon DEF d
    <1> QED BY <1>6, Zenon DEF Nearest

(* Sorting gives the members of a finite set different places, and no place
   is left empty. *)
LEMMA RankFacts ==
    ASSUME NEW g, NEW S \in SUBSET Nat, IsFiniteSet(S),
           \A n \in S : g.nodes[n].vec \in Int, NEW q \in Int
    PROVE  /\ Cardinality(S) \in Nat
           /\ \A n \in S : Rank(g, S, n, q) \in 0..(Cardinality(S) - 1)
           /\ \A n, o \in S : Rank(g, S, n, q) = Rank(g, S, o, q) => n = o
           /\ \A i \in 0..(Cardinality(S) - 1) : \E n \in S : Rank(g, S, n, q) = i
    <1> DEFINE d(n) == Dist(g.nodes[n].vec, q)
               B(n) == {o \in S : Before(g, o, n, q)}
               c == Cardinality(S)
               R(n) == Rank(g, S, n, q)
    <1>1. \A n \in S : d(n) \in Nat
        BY DistFacts
    <1>2. \A n, o \in S : Before(g, n, o, q) <=> d(n) < d(o) \/ (~ (d(o) < d(n)) /\ n < o)
        BY Zenon DEF Before, Nearer
    <1>3. c \in Nat
        BY FS_CardinalityType
    <1>4. \A n \in S : IsFiniteSet(B(n)) /\ R(n) = Cardinality(B(n)) /\ R(n) \in Nat
        <2> TAKE n \in S
        <2>1. B(n) \in SUBSET S
            OBVIOUS
        <2>2. IsFiniteSet(B(n))
            BY <2>1, FS_Subset
        <2> QED BY <2>2, FS_CardinalityType DEF Rank
    <1> HIDE DEF d
    <1>5. ASSUME NEW n \in S PROVE R(n) < c
        <2>1. n \notin B(n)
            BY <1>1, <1>2
        <2>2. B(n) \in SUBSET S /\ B(n) # S
            BY <2>1
        <2>3. Cardinality(B(n)) <= c /\ c # Cardinality(B(n))
            <3> HIDE DEF B
            <3> QED BY <2>2, FS_Subset
        <2> QED BY <1>3, <1>4, <2>3
    <1>6. ASSUME NEW n \in S, NEW o \in S, Before(g, n, o, q) PROVE R(n) < R(o)
        <2>1. n \notin B(n) /\ n \in B(o)
            BY <1>1, <1>2, <1>6
        <2>2. \A p \in S : Before(g, p, n, q) => Before(g, p, o, q)
            BY <1>1, <1>2, <1>6
        <2>3. B(n) \in SUBSET B(o) /\ B(n) # B(o)
            BY <2>1, <2>2
        <2>4. Cardinality(B(n)) <= Cardinality(B(o)) /\ Cardinality(B(o)) # Cardinality(B(n))
            <3> HIDE DEF B
            <3> QED BY <1>4, <2>3, FS_Subset
        <2>5. R(n) = Cardinality(B(n)) /\ R(o) = Cardinality(B(o)) /\ R(n) \in Nat /\ R(o) \in Nat
            BY <1>4
        <2> HIDE DEF B, R
        <2> QED BY <2>4, <2>5
    <1>7. ASSUME NEW n \in S, NEW o \in S, R(n) = R(o) PROVE n = o
        <2>1. n = o \/ Before(g, n, o, q) \/ Before(g, o, n, q)
            BY <1>1, <1>2
        <2>2. R(n) \in Nat /\ R(o) \in Nat
            BY <1>4
        <2> HIDE DEF R
        <2> QED BY <1>6, <1>7, <2>1, <2>2
    <1>8. \A n \in S : R(n) \in 0..(c - 1)
        <2> TAKE n \in S
        <2>1. R(n) \in Nat /\ R(n) < c
            BY <1>4, <1>5
        <2> HIDE DEF R, c
        <2> QED BY <1>3, <2>1
    <1>9. ASSUME NEW i \in 0..(c - 1) PROVE \E n \in S : R(n) = i
        <2> DEFINE f == [n \in S |-> R(n)]
                   T == 0..(c - 1)
        <2>1. f \in Injection(S, T)
            <3>1. f \in [S -> T]
                BY <1>8, Zenon
            <3>2. \A n, o \in S : f[n] = f[o] => n = o
                BY <1>7
            <3> HIDE DEF f, T
            <3> QED BY <3>1, <3>2, Zenon DEF Injection, IsInjective
        <2>2. IsFiniteSet(T) /\ Cardinality(T) = c
            <3>1. 0 \in Int /\ c - 1 \in Int /\ (IF 0 > c - 1 THEN 0 ELSE (c - 1) - 0 + 1) = c
                BY <1>3
            <3> HIDE DEF c
            <3> QED BY <3>1, FS_Interval, Zenon
        <2>3. f \in Surjection(S, T)
            <3> HIDE DEF f, T
            <3> QED BY <2>1, <2>2, FS_Injection
        <2>4. \A t \in T : \E n \in S : f[n] = t
            <3> HIDE DEF f, T
            <3> QED BY <2>3, Zenon DEF Surjection
        <2> QED BY <2>4
    <1> QED BY <1>3, <1>7, <1>8, <1>9, Zenon

(* The k best of a set are k, or all there are. *)
LEMMA TopKFacts ==
    ASSUME NEW g, NEW S \in SUBSET Nat, IsFiniteSet(S),
           \A n \in S : g.nodes[n].vec \in Int, NEW q \in Int, NEW k \in Nat
    PROVE  /\ TopK(g, S, q, k) \subseteq S /\ Cardinality(TopK(g, S, q, k)) \in Nat
           /\ Cardinality(TopK(g, S, q, k)) <= k
           /\ k <= Cardinality(S) => Cardinality(TopK(g, S, q, k)) = k
    <1> DEFINE K == TopK(g, S, q, k)
               R(n) == Rank(g, S, n, q)
               f == [n \in K |-> R(n)]
               T == 0..(k - 1)
    <1>1. K = {n \in S : R(n) < k}
        BY DEF TopK
    <1>2. /\ Cardinality(S) \in Nat
          /\ \A n \in S : R(n) \in 0..(Cardinality(S) - 1)
          /\ \A n, o \in S : R(n) = R(o) => n = o
          /\ \A i \in 0..(Cardinality(S) - 1) : \E n \in S : R(n) = i
        BY RankFacts
    <1> HIDE DEF K, R
    <1>3. K \subseteq S /\ \A n \in K : R(n) \in T
        BY <1>1, <1>2
    <1>4. f \in Injection(K, T)
        <2>1. f \in [K -> T]
            BY <1>3, Zenon
        <2>2. \A n, o \in K : f[n] = f[o] => n = o
            BY <1>2, <1>3
        <2> HIDE DEF f, T
        <2> QED BY <2>1, <2>2, Zenon DEF Injection, IsInjective
    <1>5. IsFiniteSet(T) /\ Cardinality(T) = k
        <2>1. 0 \in Int /\ k - 1 \in Int /\ (IF 0 > k - 1 THEN 0 ELSE (k - 1) - 0 + 1) = k
            OBVIOUS
        <2> QED BY <2>1, FS_Interval, Zenon
    <1>6. /\ IsFiniteSet(K) /\ Cardinality(K) <= k
          /\ Cardinality(K) = k <=> f \in Surjection(K, T)
        <2> HIDE DEF f, T
        <2> QED BY <1>4, <1>5, FS_Injection
    <1>7. ASSUME k <= Cardinality(S) PROVE Cardinality(K) = k
        <2>1. \A t \in T : \E n \in K : R(n) = t
            <3> TAKE t \in T
            <3>1. t \in 0..(Cardinality(S) - 1) /\ t < k
                BY <1>2, <1>7
            <3>2. PICK n \in S : R(n) = t
                BY <1>2, <3>1
            <3> QED BY <1>1, <3>1, <3>2
        <2>2. \A t \in T : \E n \in K : f[n] = t
            BY <2>1
        <2>3. f \in Surjection(K, T)
            <3>1. f \in [K -> T]
                BY <1>3, Zenon
            <3> HIDE DEF f, T
            <3> QED BY <2>2, <3>1, Zenon DEF Surjection
        <2> QED BY <1>6, <2>3
    <1>8. Cardinality(K) \in Nat
        BY <1>6, FS_CardinalityType
    <1> QED BY <1>3, <1>6, <1>7, <1>8 DEF K
-----------------------------------------------------------------------------
(* Neighbour selection                                                     *)

(* score_and_sort() lists every candidate once. *)
LEMMA SortFacts ==
    ASSUME NEW g, NEW node, NEW cands \in SUBSET Nat, IsFiniteSet(cands),
           \A n \in cands : g.nodes[n].vec \in Int, g.nodes[node].vec \in Int
    PROVE  LET scored == score_and_sort(g, node, cands)
               c == Cardinality(cands)
           IN  /\ c \in Nat /\ scored \in [1..c -> cands] /\ Len(scored) = c
               /\ \A i, j \in 1..c : scored[i] = scored[j] => i = j
    <1> DEFINE c == Cardinality(cands)
               q == g.nodes[node].vec
               R(n) == Rank(g, cands, n, q)
               scored == score_and_sort(g, node, cands)
    <1>1. c \in Nat /\ \A i \in 0..(c - 1) : \E n \in cands : R(n) = i
        <2>1. q \in Int /\ \A n \in cands : g.nodes[n].vec \in Int
            OBVIOUS
        <2> HIDE DEF q
        <2> QED BY <2>1, RankFacts
    <1>2. scored = [i \in 1..c |-> CHOOSE n \in cands : R(n) = i - 1]
        BY DEF score_and_sort
    <1> HIDE DEF R, scored, c
    <1>3. ASSUME NEW i \in 1..c PROVE scored[i] \in cands /\ R(scored[i]) = i - 1
        <2>1. i - 1 \in 0..(c - 1)
            BY <1>1
        <2>2. \E n \in cands : R(n) = i - 1
            BY <1>1, <2>1
        <2>3. scored[i] = CHOOSE n \in cands : R(n) = i - 1
            BY <1>2, Zenon
        <2> QED BY <2>2, <2>3, Zenon
    <1>4. scored \in [1..c -> cands]
        BY <1>2, <1>3
    <1>5. Len(scored) = c
        BY <1>1, <1>4
    <1>6. \A i, j \in 1..c : scored[i] = scored[j] => i = j
        BY <1>1, <1>3
    <1> QED BY <1>1, <1>4, <1>5, <1>6 DEF c, scored

(* What has been picked so far. *)
Picked(list, S, limit) ==
    /\ list \in Seq(S) /\ Len(list) <= limit /\ IsInjective(list)

LEMMA PickOne ==
    ASSUME NEW S, NEW limit \in Nat, NEW list, Picked(list, S, limit),
           NEW x \in S, x \notin ToSet(list), Len(list) < limit
    PROVE  /\ Picked(Append(list, x), S, limit) /\ Append(list, x) # <<>>
           /\ ToSet(Append(list, x)) = ToSet(list) \cup {x}
    <1> DEFINE more == Append(list, x)
               m == Len(list)
    <1>1. /\ list \in Seq(S) /\ m \in Nat /\ DOMAIN list = 1..m
          /\ \A a, b \in 1..m : list[a] = list[b] => a = b
          /\ \A a \in 1..m : list[a] # x
        BY DEF Picked, IsInjective, ToSet
    <1>2. /\ more \in Seq(S) /\ Len(more) = m + 1 /\ DOMAIN more = 1..(m + 1)
          /\ more[m + 1] = x /\ \A a \in 1..m : more[a] = list[a]
        BY <1>1
    <1> HIDE DEF more
    <1>3. IsInjective(more)
        <2> SUFFICES ASSUME NEW a \in 1..(m + 1), NEW b \in 1..(m + 1), more[a] = more[b]
                     PROVE  a = b
            BY <1>2, Zenon DEF IsInjective
        <2> QED BY <1>1, <1>2
    <1>4. ToSet(more) = ToSet(list) \cup {x}
        <2>1. ToSet(more) = {more[a] : a \in 1..(m + 1)} /\ ToSet(list) = {list[a] : a \in 1..m}
            BY <1>1, <1>2, Zenon DEF ToSet
        <2> QED BY <1>1, <1>2, <2>1
    <1>5. Len(more) <= limit /\ more # <<>>
        BY <1>1, <1>2
    <1> QED BY <1>2, <1>3, <1>4, <1>5, Zenon DEF Picked, more

(* The turns of the two loops of select_neighbours_heuristic(). *)
DiverseTurn(g, node, scored, limit, i, picked) ==
    IF Len(picked) >= limit \/ \E p \in ToSet(picked) : Nearer(g, p, node, g.nodes[scored[i]].vec)
    THEN picked ELSE Append(picked, scored[i])
FillTurn(scored, limit, i, picked) ==
    IF Len(picked) >= limit \/ scored[i] \in ToSet(picked)
    THEN picked ELSE Append(picked, scored[i])

(* Neighbours are picked once each, within the limit, and at least one. *)
LEMMA PickFacts ==
    ASSUME NEW g, NEW node, NEW S, NEW scored, Len(scored) \in Nat, scored \in [1..Len(scored) -> S],
           \A i, j \in 1..Len(scored) : scored[i] = scored[j] => i = j, NEW limit \in Nat \ {0}
    PROVE  LET list == select_neighbours_heuristic(g, node, scored, limit)
           IN  /\ Picked(list, S, limit)
               /\ Len(scored) > 0 => list # <<>>
    <1> DEFINE c == Len(scored)
               V == Seq(S)
               T1(i, l) == DiverseTurn(g, node, scored, limit, i, l)
               T2(i, l) == FillTurn(scored, limit, i, l)
               Runs1(f) == f = [i \in 0..c |-> IF i = 0 THEN <<>> ELSE T1(i, f[i - 1])]
               first == CHOOSE f : Runs1(f)
               Runs2(f) == f = [i \in 0..c |-> IF i = 0 THEN first[c] ELSE T2(i, f[i - 1])]
               second == CHOOSE f : Runs2(f)
    <1>1. select_neighbours_heuristic(g, node, scored, limit) = second[c]
        BY Zenon DEF select_neighbours_heuristic, DiverseTurn, FillTurn
    <1>2. \A i \in 1..c, l \in V : T1(i, l) \in V /\ T2(i, l) \in V
        <2> TAKE i \in 1..c, l \in V
        <2>1. scored[i] \in S
            OBVIOUS
        <2>2. Append(l, scored[i]) \in V
            BY <2>1
        <2> QED BY <2>2, Zenon DEF DiverseTurn, FillTurn
    <1> HIDE DEF T1, T2, V
    <1>3. Runs1(first)
        <2> DEFINE step == [i \in 1..c |-> [l \in V |-> T1(i, l)]]
        <2>1. step \in [1..c -> [V -> V]] /\ <<>> \in V
            BY <1>2 DEF V
        <2>2. PICK f : IsRun(f, V, <<>>, c, step)
            <3>1. c \in Nat
                OBVIOUS
            <3> HIDE DEF step, c
            <3> QED BY <2>1, <3>1, LoopRuns
        <2>3. \A i \in 1..c : f[i] = T1(i, f[i - 1])
            <3> TAKE i \in 1..c
            <3>1. f[i - 1] \in V
                BY <2>2 DEF IsRun
            <3> QED BY <2>2, <3>1 DEF IsRun
        <2>4. Runs1(f)
            BY <2>2, <2>3 DEF IsRun
        <2> QED BY <2>4, Zenon
    <1>4. \A i \in 0..c : first[i] = IF i = 0 THEN <<>> ELSE T1(i, first[i - 1])
        BY <1>3, Zenon
    <1> HIDE DEF first
    <1> DEFINE Seen(i) == {scored[j] : j \in 1..i}
               Good1(i) == /\ Picked(first[i], S, limit) /\ ToSet(first[i]) \subseteq Seen(i)
                           /\ i > 0 => first[i] # <<>>
               G1 == {i \in Nat : i <= c => Good1(i)}
    <1>5. 0 \in G1
        <2>1. first[0] = <<>>
            BY <1>4
        <2>2. Picked(<<>>, S, limit) /\ ToSet(<<>>) = {}
            BY DEF Picked, IsInjective, ToSet
        <2> QED BY <2>1, <2>2
    <1>6. ASSUME NEW i \in Nat, i \in G1 PROVE i + 1 \in G1
        <2> SUFFICES ASSUME i + 1 <= c PROVE Good1(i + 1)
            OBVIOUS
        <2> DEFINE l == first[i]
                   x == scored[i + 1]
        <2>1. Good1(i) /\ i + 1 \in 0..c /\ i + 1 # 0 /\ (i + 1) - 1 = i /\ i + 1 \in 1..c
            BY <1>6
        <2>2. first[i + 1] = T1(i + 1, l)
            BY <1>4, <2>1
        <2>3. x \in S /\ Seen(i) \subseteq Seen(i + 1) /\ x \in Seen(i + 1) /\ x \notin Seen(i)
            BY <2>1
        <2>4. CASE first[i + 1] = l /\ l # <<>>
            BY <2>1, <2>3, <2>4
        <2>5. CASE first[i + 1] = Append(l, x) /\ Len(l) < limit
            <3>1. x \notin ToSet(l) /\ Picked(l, S, limit)
                BY <2>1, <2>3
            <3>2. /\ Picked(Append(l, x), S, limit) /\ Append(l, x) # <<>>
                  /\ ToSet(Append(l, x)) = ToSet(l) \cup {x}
                <4>1. limit \in Nat /\ x \in S /\ Len(l) < limit
                    BY <2>3, <2>5
                <4> HIDE DEF l, x
                <4> QED BY <3>1, <4>1, PickOne
            <3> QED BY <2>1, <2>3, <2>5, <3>2
        <2>6. \/ first[i + 1] = l /\ l # <<>>
              \/ first[i + 1] = Append(l, x) /\ Len(l) < limit
            <3>1. l \in Seq(S)
                BY <2>1 DEF Picked
            <3>2. l = <<>> => Len(l) = 0 /\ ToSet(l) = {}
                BY DEF ToSet
            <3> HIDE DEF l, x
            <3>3. first[i + 1] = IF Len(l) >= limit \/ \E p \in ToSet(l) : Nearer(g, p, node, g.nodes[x].vec)
                                 THEN l ELSE Append(l, x)
                BY <2>2, Zenon DEF T1, DiverseTurn, x
            <3> QED BY <3>1, <3>2, <3>3
        <2> QED BY <2>4, <2>5, <2>6
    <1>7. Good1(c)
        <2>1. Nat \subseteq G1
            <3> HIDE DEF G1
            <3> QED BY <1>5, <1>6, ReachesAll, Zenon
        <2> QED BY <2>1
    <1>8. first[c] \in V
        BY <1>7 DEF Picked, V
    <1>9. Runs2(second)
        <2> DEFINE step == [i \in 1..c |-> [l \in V |-> T2(i, l)]]
        <2>1. step \in [1..c -> [V -> V]]
            BY <1>2
        <2>2. PICK f : IsRun(f, V, first[c], c, step)
            <3>1. c \in Nat
                OBVIOUS
            <3> HIDE DEF step, c
            <3> QED BY <1>8, <2>1, <3>1, LoopRuns
        <2>3. \A i \in 1..c : f[i] = T2(i, f[i - 1])
            <3> TAKE i \in 1..c
            <3>1. f[i - 1] \in V
                BY <2>2 DEF IsRun
            <3> QED BY <2>2, <3>1 DEF IsRun
        <2>4. Runs2(f)
            BY <2>2, <2>3 DEF IsRun
        <2> QED BY <2>4, Zenon
    <1>10. \A i \in 0..c : second[i] = IF i = 0 THEN first[c] ELSE T2(i, second[i - 1])
        BY <1>9, Zenon
    <1> HIDE DEF second
    <1> DEFINE W == {l \in Seq(S) : Picked(l, S, limit) /\ (c > 0 => l # <<>>)}
    <1>11. second[0] \in W
        BY <1>7, <1>10 DEF Picked
    <1>12. \A i \in 1..c : second[i - 1] \in W => second[i] \in W
        <2> SUFFICES ASSUME NEW i \in 1..c, second[i - 1] \in W PROVE second[i] \in W
            OBVIOUS
        <2> DEFINE l == second[i - 1]
                   x == scored[i]
        <2>1. second[i] = T2(i, l)
            BY <1>10
        <2>2. l \in Seq(S) /\ Picked(l, S, limit) /\ l # <<>> /\ x \in S
            OBVIOUS
        <2> HIDE DEF l, x
        <2>3. second[i] = IF Len(l) >= limit \/ x \in ToSet(l) THEN l ELSE Append(l, x)
            BY <2>1, Zenon DEF T2, FillTurn, x
        <2>4. CASE second[i] = l
            BY <2>2, <2>4
        <2>5. CASE second[i] = Append(l, x) /\ Len(l) < limit /\ x \notin ToSet(l)
            <3>1. Picked(Append(l, x), S, limit) /\ Append(l, x) # <<>>
                BY <2>2, <2>5, PickOne
            <3> QED BY <2>5, <3>1 DEF Picked
        <2> QED BY <2>2, <2>3, <2>4, <2>5
    <1>13. second[c] \in W
        <2> HIDE DEF W
        <2>1. \A i \in 0..c : second[i] \in W
            BY <1>11, <1>12, LoopStays
        <2> QED BY <2>1
    <1> QED BY <1>1, <1>13
-----------------------------------------------------------------------------
(* Graphs                                                                  *)

LEMMA GraphFacts ==
    ASSUME NEW g, IsGraph(g)
    PROVE  /\ Len(g.nodes) \in Nat /\ DOMAIN g.nodes = Ords(g)
           /\ Ords(g) \in SUBSET Nat /\ IsFiniteSet(Ords(g)) /\ Ords(g) = 1..Len(g.nodes)
           /\ g.nodes \in Seq(Node(Len(g.nodes)))
           /\ \A n \in Ords(g) :
                /\ g.nodes[n] \in Node(Len(g.nodes))
                /\ g.nodes[n].id \in Id /\ g.nodes[n].vec \in Int
                /\ g.nodes[n].superseded \in BOOLEAN
                /\ g.nodes[n].links \in Seq(Seq(Ords(g))) /\ Len(g.nodes[n].links) <= MaxLevel + 1
           /\ g.entry \in 0..Len(g.nodes) /\ g.maxLayer \in -1..MaxLevel
           /\ g.sealed \in BOOLEAN /\ g.undefined \in BOOLEAN /\ g.raced \in BOOLEAN
           /\ g.deleted \in SUBSET Id /\ g.blocks \in Nat
           /\ g.csr \in Seq([Ords(g) -> Seq(Ords(g))]) /\ Len(g.csr) <= MaxLevel + 1
           /\ g.idIndex \in Indexes(Len(g.nodes)) \cup {NoIndex}
           /\ g.maxLayer >= 0 => g.entry \in Ords(g)
    <1> DEFINE k == Len(g.nodes)
    <1>1. /\ g.nodes \in Seq(Node(k)) /\ g.entry \in 0..k /\ g.maxLayer \in -1..MaxLevel
          /\ g.sealed \in BOOLEAN /\ g.csr \in Blocks(k) /\ g.deleted \in SUBSET Id
          /\ g.idIndex \in Indexes(k) \cup {NoIndex} /\ g.blocks \in Nat
          /\ g.undefined \in BOOLEAN /\ g.raced \in BOOLEAN
          /\ g.maxLayer >= 0 => g.entry \in Ords(g)
        BY DEF IsGraph, Graphs
    <1>2. k \in Nat /\ DOMAIN g.nodes = 1..k /\ \A n \in 1..k : g.nodes[n] \in Node(k)
        BY <1>1
    <1>3. Ords(g) = 1..k
        BY DEF Ords
    <1>4. IsFiniteSet(1..k)
        BY <1>2, FS_Interval
    <1>5. \A n \in 1..k : /\ g.nodes[n].id \in Id /\ g.nodes[n].vec \in Int
                          /\ g.nodes[n].superseded \in BOOLEAN
                          /\ g.nodes[n].links \in LinkLists(k)
        BY <1>2 DEF Node
    <1>6. \A n \in 1..k : /\ g.nodes[n].links \in Seq(Seq(1..k))
                          /\ Len(g.nodes[n].links) <= MaxLevel + 1
        BY <1>5 DEF LinkLists
    <1>7. g.csr \in Seq([1..k -> Seq(1..k)]) /\ Len(g.csr) <= MaxLevel + 1
        BY <1>1 DEF Blocks
    <1>8. 1..k \in SUBSET Nat
        BY <1>2
    <1> HIDE DEF k
    <1>9. \A n \in 1..k : g.nodes[n] \in Node(k)
        BY <1>2
    <1>10. \A n \in 1..k :
              /\ g.nodes[n] \in Node(k)
              /\ g.nodes[n].id \in Id /\ g.nodes[n].vec \in Int
              /\ g.nodes[n].superseded \in BOOLEAN
              /\ g.nodes[n].links \in Seq(Seq(1..k)) /\ Len(g.nodes[n].links) <= MaxLevel + 1
        BY <1>5, <1>6, <1>9, Zenon
    <1> QED BY <1>1, <1>2, <1>3, <1>4, <1>7, <1>8, <1>10, Zenon DEF k

LEMMA LimitFacts == \A layer : maxM(layer) \in Nat \ {0}
    BY HnswAssumption DEF maxM

(* What connect() selects. *)
LEMMA SelectedFacts ==
    ASSUME NEW g, IsGraph(g), NEW node \in Ords(g), NEW cands \in SUBSET Ords(g), NEW layer
    PROVE  LET list == Selected(g, node, cands, layer)
           IN  /\ list \in Seq(Ords(g)) /\ Limited(list, layer)
               /\ \A i \in 1..Len(list) : list[i] \in cands
               /\ cands # {} => list # <<>>
    <1> DEFINE scored == score_and_sort(g, node, cands)
               c == Cardinality(cands)
               limit == maxM(layer)
    <1>1. /\ cands \in SUBSET Nat /\ IsFiniteSet(cands) /\ g.nodes[node].vec \in Int
          /\ \A n \in cands : g.nodes[n].vec \in Int
        <2>1. /\ Ords(g) \in SUBSET Nat /\ IsFiniteSet(Ords(g))
              /\ \A n \in Ords(g) : g.nodes[n].vec \in Int
            BY GraphFacts
        <2>2. IsFiniteSet(cands)
            BY <2>1, FS_Subset
        <2> QED BY <2>1, <2>2
    <1>2. /\ c \in Nat /\ scored \in [1..c -> cands] /\ Len(scored) = c
          /\ \A i, j \in 1..c : scored[i] = scored[j] => i = j
        BY <1>1, SortFacts
    <1>3. limit \in Nat \ {0}
        BY LimitFacts
    <1>4. Selected(g, node, cands, layer) = select_neighbours_heuristic(g, node, scored, limit)
        BY DEF Selected
    <1> HIDE DEF scored, limit
    <1> DEFINE list == select_neighbours_heuristic(g, node, scored, limit)
    <1>5. Picked(list, cands, limit) /\ (c > 0 => list # <<>>)
        <2>1. /\ Len(scored) \in Nat /\ scored \in [1..Len(scored) -> cands]
              /\ \A i, j \in 1..Len(scored) : scored[i] = scored[j] => i = j
            BY <1>2
        <2>2. Picked(list, cands, limit) /\ (Len(scored) > 0 => list # <<>>)
            BY <1>3, <2>1, PickFacts
        <2> QED BY <1>2, <2>2
    <1>6. cands # {} => c > 0
        BY <1>1, <1>2, FS_EmptySet
    <1> HIDE DEF list
    <1>7. list \in Seq(cands) /\ Len(list) <= limit /\ IsInjective(list)
        BY <1>5 DEF Picked
    <1>8. list \in Seq(Ords(g)) /\ \A i \in 1..Len(list) : list[i] \in cands
        BY <1>7
    <1> QED BY <1>4, <1>5, <1>6, <1>7, <1>8, Zenon DEF Limited, limit, list

(* h is g with other links. *)
Relinked(g, h) ==
    /\ h \in Graphs(Len(g.nodes)) /\ IsGraph(h) /\ Len(h.nodes) = Len(g.nodes)
    /\ h.entry = g.entry /\ h.maxLayer = g.maxLayer /\ h.sealed = g.sealed /\ h.csr = g.csr
    /\ h.deleted = g.deleted /\ h.idIndex = g.idIndex /\ h.blocks = g.blocks /\ h.raced = g.raced
    /\ \A n \in Ords(g) : /\ h.nodes[n].id = g.nodes[n].id /\ h.nodes[n].vec = g.nodes[n].vec
                          /\ h.nodes[n].superseded = g.nodes[n].superseded
                          /\ Len(h.nodes[n].links) = Len(g.nodes[n].links)

LEMMA RelinkedTwice ==
    ASSUME NEW f, NEW g, NEW h, Relinked(f, g), Relinked(g, h)
    PROVE  Relinked(f, h)
    BY DEF Relinked, Ords

LEMMA RelinkedSelf == \A g : IsGraph(g) => Relinked(g, g)
    BY DEF Relinked, IsGraph

(* Writing one neighbour list. *)
LEMMA SetLinksFacts ==
    ASSUME NEW g, IsGraph(g), NEW n \in Ords(g), NEW layer \in Nat, NEW list \in Seq(Ords(g))
    PROVE  LET h == SetLinks(g, n, layer, list)
           IN  /\ Relinked(g, h)
               /\ \A o \in Ords(g), k \in Nat :
                    Links(h, o, k) = IF o = n /\ k = layer /\ HasLayer(g, n, layer) THEN list
                                     ELSE Links(g, o, k)
    <1> DEFINE h == SetLinks(g, n, layer, list)
               nd == g.nodes[n]
               len == Len(g.nodes)
    <1>1. CASE ~HasLayer(g, n, layer)
        <2>1. h = [g EXCEPT !.undefined = TRUE]
            BY <1>1 DEF SetLinks
        <2>2. g \in Graphs(len) /\ (g.maxLayer >= 0 => g.entry \in Ords(g))
            BY DEF IsGraph
        <2>3. /\ h \in Graphs(len) /\ h.nodes = g.nodes /\ h.entry = g.entry /\ h.maxLayer = g.maxLayer
              /\ h.sealed = g.sealed /\ h.csr = g.csr /\ h.deleted = g.deleted
              /\ h.idIndex = g.idIndex /\ h.blocks = g.blocks /\ h.raced = g.raced
            BY <2>1, <2>2 DEF Graphs
        <2> HIDE DEF h
        <2>4. IsGraph(h)
            BY <2>2, <2>3 DEF IsGraph, Ords
        <2>5. Relinked(g, h)
            BY <2>3, <2>4 DEF Relinked
        <2>6. \A o \in Ords(g), k \in Nat : Links(h, o, k) = Links(g, o, k)
            BY <2>3 DEF Links, HasLayer
        <2> QED BY <1>1, <2>5, <2>6, Zenon DEF h
    <1>2. CASE HasLayer(g, n, layer)
        <2> DEFINE ls == [nd.links EXCEPT ![layer + 1] = list]
                   nd2 == [nd EXCEPT !.links = ls]
                   nodes2 == [g.nodes EXCEPT ![n] = nd2]
        <2>1. /\ len \in Nat /\ DOMAIN g.nodes = Ords(g) /\ Ords(g) = 1..len
              /\ g.nodes \in Seq(Node(len)) /\ nd \in Node(len)
              /\ nd.links \in Seq(Seq(Ords(g))) /\ Len(nd.links) <= MaxLevel + 1
            BY GraphFacts
        <2>2. g \in Graphs(len) /\ (g.maxLayer >= 0 => g.entry \in Ords(g))
            BY DEF IsGraph
        <2>3. h = [g EXCEPT !.nodes = nodes2]
            BY <1>2, Zenon DEF SetLinks
        <2>4. layer + 1 \in 1..Len(nd.links)
            BY <1>2, <2>1 DEF HasLayer
        <2>5. /\ ls \in Seq(Seq(Ords(g))) /\ Len(ls) = Len(nd.links)
              /\ \A k \in 1..Len(nd.links) : ls[k] = IF k = layer + 1 THEN list ELSE nd.links[k]
            BY <2>1, <2>4
        <2> HIDE DEF ls
        <2>6. /\ nd2 \in Node(len) /\ nd2.links = ls /\ nd2.id = nd.id /\ nd2.vec = nd.vec
              /\ nd2.superseded = nd.superseded
            <3>1. ls \in LinkLists(len)
                BY <2>1, <2>5 DEF LinkLists
            <3> QED BY <2>1, <3>1 DEF Node
        <2> HIDE DEF nd2, nd
        <2>7. /\ nodes2 \in Seq(Node(len)) /\ Len(nodes2) = len
              /\ \A o \in Ords(g) : nodes2[o] = IF o = n THEN nd2 ELSE g.nodes[o]
            BY <2>1, <2>6
        <2> HIDE DEF nodes2
        <2>8. /\ h \in Graphs(len) /\ h.nodes = nodes2 /\ h.entry = g.entry /\ h.maxLayer = g.maxLayer
              /\ h.sealed = g.sealed /\ h.csr = g.csr /\ h.deleted = g.deleted
              /\ h.idIndex = g.idIndex /\ h.blocks = g.blocks /\ h.raced = g.raced
            BY <2>2, <2>3, <2>7 DEF Graphs
        <2> HIDE DEF h
        <2>9. IsGraph(h)
            BY <2>1, <2>2, <2>7, <2>8 DEF IsGraph, Ords
        <2>10. \A o \in Ords(g) : /\ h.nodes[o].id = g.nodes[o].id /\ h.nodes[o].vec = g.nodes[o].vec
                                  /\ h.nodes[o].superseded = g.nodes[o].superseded
                                  /\ Len(h.nodes[o].links) = Len(g.nodes[o].links)
            BY <2>5, <2>6, <2>7, <2>8 DEF nd
        <2>11. Relinked(g, h)
            BY <2>7, <2>8, <2>9, <2>10 DEF Relinked
        <2>12. ASSUME NEW o \in Ords(g), NEW k \in Nat
               PROVE  Links(h, o, k) = IF o = n /\ k = layer THEN list ELSE Links(g, o, k)
            <3>1. HasLayer(h, o, k) <=> HasLayer(g, o, k)
                BY <2>10 DEF HasLayer
            <3>2. CASE o # n
                <4>1. h.nodes[o] = g.nodes[o]
                    BY <2>7, <2>8, <3>2
                <4> QED BY <3>2, <4>1, Zenon DEF Links, HasLayer
            <3>3. CASE o = n
                <4>1. h.nodes[o].links = ls /\ g.nodes[o].links = nd.links
                    BY <2>6, <2>7, <2>8, <3>3 DEF nd
                <4>2. HasLayer(g, o, k) <=> k + 1 \in 1..Len(nd.links)
                    BY <2>1, <4>1 DEF HasLayer
                <4>3. CASE HasLayer(g, o, k)
                    <5>1. Links(h, o, k) = ls[k + 1] /\ Links(g, o, k) = nd.links[k + 1]
                        BY <3>1, <4>1, <4>3, Zenon DEF Links
                    <5> QED BY <2>5, <3>3, <4>2, <4>3, <5>1
                <4>4. CASE ~HasLayer(g, o, k)
                    <5>1. Links(h, o, k) = <<>> /\ Links(g, o, k) = <<>>
                        BY <3>1, <4>4, Zenon DEF Links
                    <5>2. k # layer
                        BY <1>2, <3>3, <4>4
                    <5> QED BY <5>1, <5>2
                <4> QED BY <4>3, <4>4
            <3> QED BY <3>2, <3>3
        <2> QED BY <1>2, <2>11, <2>12, Zenon DEF h
    <1> QED BY <1>1, <1>2

LEMMA LinksFacts ==
    ASSUME NEW g, IsGraph(g), NEW n \in Ords(g), NEW layer \in Nat
    PROVE  Links(g, n, layer) \in Seq(Ords(g))
    <1>1. g.nodes[n].links \in Seq(Seq(Ords(g)))
        BY GraphFacts
    <1>2. CASE HasLayer(g, n, layer)
        <2>1. layer + 1 \in 1..Len(g.nodes[n].links)
            BY <1>1, <1>2 DEF HasLayer
        <2>2. Links(g, n, layer) = g.nodes[n].links[layer + 1]
            BY <1>2 DEF Links
        <2> QED BY <1>1, <2>1, <2>2
    <1>3. CASE ~HasLayer(g, n, layer)
        BY <1>3 DEF Links
    <1> QED BY <1>2, <1>3
LEMMA PushBackFacts ==
    ASSUME NEW S, NEW list \in Seq(S), NEW node \in S
    PROVE  /\ PushBack(list, node) \in Seq(S) /\ ToSet(PushBack(list, node)) \subseteq S
           /\ Len(PushBack(list, node)) <= Len(list) + 1
           /\ IsInjective(list) => IsInjective(PushBack(list, node))
    <1>1. CASE node \in ToSet(list)
        BY <1>1 DEF PushBack, ToSet
    <1>2. CASE node \notin ToSet(list)
        <2>1. PushBack(list, node) = Append(list, node)
            BY <1>2 DEF PushBack
        <2>2. ASSUME IsInjective(list) PROVE IsInjective(Append(list, node))
            <3>1. Picked(list, S, Len(list) + 1) /\ Len(list) + 1 \in Nat /\ Len(list) < Len(list) + 1
                BY <2>2 DEF Picked
            <3>2. Picked(Append(list, node), S, Len(list) + 1)
                BY <1>2, <3>1, PickOne
            <3> QED BY <3>2 DEF Picked
        <2>3. /\ Append(list, node) \in Seq(S) /\ Len(Append(list, node)) = Len(list) + 1
              /\ ToSet(Append(list, node)) \subseteq S
            BY DEF ToSet
        <2> QED BY <2>1, <2>2, <2>3
    <1> QED BY <1>1, <1>2

LEMMA BackLinkFacts ==
    ASSUME NEW g, IsGraph(g), NEW nb \in Ords(g), NEW node \in Ords(g), NEW layer \in Nat
    PROVE  Relinked(g, BackLink(g, nb, node, layer))
    <1> DEFINE pushed == PushBack(Links(g, nb, layer), node)
               list == IF Len(pushed) > maxM(layer) THEN Selected(g, nb, ToSet(pushed), layer)
                       ELSE pushed
    <1>1. pushed \in Seq(Ords(g)) /\ ToSet(pushed) \subseteq Ords(g)
        BY LinksFacts, PushBackFacts
    <1>2. list \in Seq(Ords(g))
        <2> HIDE DEF pushed
        <2>1. Selected(g, nb, ToSet(pushed), layer) \in Seq(Ords(g))
            BY <1>1, SelectedFacts
        <2> QED BY <1>1, <2>1
    <1>3. BackLink(g, nb, node, layer) = SetLinks(g, nb, layer, list)
        BY Zenon DEF BackLink
    <1> HIDE DEF list
    <1> QED BY <1>2, <1>3, SetLinksFacts

(* connect() changes links only. *)
LEMMA ConnectFacts ==
    ASSUME NEW g, IsGraph(g), NEW node \in Ords(g), NEW layer \in Nat, NEW cands \in SUBSET Ords(g)
    PROVE  Relinked(g, connect(g, node, layer, cands))
    <1> DEFINE keep == Selected(g, node, cands, layer)
               m == Len(keep)
               V == {h \in Graphs(Len(g.nodes)) : Relinked(g, h)}
               Turn(i, h) == BackLink(h, keep[i], node, layer)
               base == SetLinks(g, node, layer, keep)
               Runs(f) == f = [i \in 0..m |-> IF i = 0 THEN base ELSE Turn(i, f[i - 1])]
               linked == CHOOSE f : Runs(f)
    <1>1. connect(g, node, layer, cands) = linked[m]
        BY Zenon DEF connect
    <1>2. keep \in Seq(Ords(g)) /\ m \in Nat
        <2>1. keep \in Seq(Ords(g))
            BY SelectedFacts
        <2> QED BY <2>1
    <1> HIDE DEF keep
    <1>3. Relinked(g, base)
        BY <1>2, SetLinksFacts
    <1>4. base \in V
        BY <1>3 DEF Relinked
    <1>5. \A i \in 1..m, h \in V : Turn(i, h) \in V
        <2> TAKE i \in 1..m, h \in V
        <2>1. keep[i] \in Ords(g)
            BY <1>2
        <2>2. IsGraph(h) /\ Ords(h) = Ords(g) /\ Relinked(g, h)
            BY DEF Relinked, Ords
        <2>3. Relinked(h, Turn(i, h))
            BY <2>1, <2>2, BackLinkFacts
        <2> HIDE DEF Turn
        <2>4. Relinked(g, Turn(i, h))
            BY <2>2, <2>3, RelinkedTwice
        <2> QED BY <2>4 DEF Relinked
    <1> HIDE DEF V, Turn, base, m
    <1>6. Runs(linked)
        <2> DEFINE step == [i \in 1..m |-> [h \in V |-> Turn(i, h)]]
        <2>1. step \in [1..m -> [V -> V]]
            BY <1>5
        <2>2. PICK f : IsRun(f, V, base, m, step)
            <3> HIDE DEF step
            <3> QED BY <1>2, <1>4, <2>1, LoopRuns
        <2>3. \A i \in 1..m : f[i] = Turn(i, f[i - 1])
            <3> TAKE i \in 1..m
            <3>1. f[i - 1] \in V
                BY <2>2, <1>2 DEF IsRun
            <3> QED BY <2>2, <3>1 DEF IsRun
        <2>4. Runs(f)
            BY <2>2, <2>3 DEF IsRun
        <2> QED BY <2>4, Zenon
    <1>7. \A i \in 0..m : linked[i] = IF i = 0 THEN base ELSE Turn(i, linked[i - 1])
        BY <1>6, Zenon
    <1> HIDE DEF linked
    <1>8. linked[0] \in V
        BY <1>2, <1>4, <1>7
    <1>9. \A i \in 1..m : linked[i - 1] \in V => linked[i] \in V
        BY <1>2, <1>5, <1>7
    <1>10. linked[m] \in V
        <2>1. \A i \in 0..m : linked[i] \in V
            BY <1>2, <1>8, <1>9, LoopStays
        <2> QED BY <1>2, <2>1
    <1> QED BY <1>1, <1>10 DEF V
-----------------------------------------------------------------------------
(* Walks                                                                   *)

LEMMA NeighboursFacts ==
    ASSUME NEW g, IsGraph(g), NEW n \in Ords(g), NEW layer \in Nat
    PROVE  neighbours(g, n, layer) \in Seq(Ords(g))
    <1>1. CASE g.sealed
        <2>1. g.csr \in Seq([Ords(g) -> Seq(Ords(g))])
            BY GraphFacts
        <2>2. CASE layer < Len(g.csr)
            <3>1. layer + 1 \in 1..Len(g.csr)
                BY <2>1, <2>2
            <3>2. neighbours(g, n, layer) = g.csr[layer + 1][n]
                BY <1>1, <2>2 DEF neighbours
            <3> QED BY <2>1, <3>1, <3>2
        <2>3. CASE ~ (layer < Len(g.csr))
            BY <1>1, <2>3 DEF neighbours
        <2> QED BY <2>2, <2>3
    <1>2. CASE ~g.sealed
        <2>1. neighbours(g, n, layer) = Links(g, n, layer)
            BY <1>2 DEF neighbours, Links
        <2> QED BY <2>1, LinksFacts
    <1> QED BY <1>1, <1>2

(* A beam stays among nodes. *)
LEMMA AdmitFacts ==
    ASSUME NEW g, NEW S, NEW beam \in Beams(S), NEW nb \in S, NEW q, NEW ef
    PROVE  Admit(g, q, ef, beam, nb) \in Beams(S)
    <1> DEFINE worst == Farthest(g, beam.result, q)
               more(kept) == [cand |-> beam.cand \cup {nb}, result |-> kept \cup {nb},
                              seen |-> beam.seen \cup {nb}]
    <1>1. \/ Admit(g, q, ef, beam, nb) = beam
          \/ Admit(g, q, ef, beam, nb) = [beam EXCEPT !.seen = @ \cup {nb}]
          \/ Admit(g, q, ef, beam, nb) = more(beam.result)
          \/ Admit(g, q, ef, beam, nb) = more(beam.result \ {worst})
        <2> DEFINE full == Cardinality(beam.result) >= ef
                   admit == ~full \/ Nearer(g, nb, worst, q)
        <2>1. Admit(g, q, ef, beam, nb) =
                CASE nb \in beam.seen -> beam
                  [] nb \notin beam.seen /\ ~admit -> [beam EXCEPT !.seen = @ \cup {nb}]
                  [] OTHER -> more(IF full THEN beam.result \ {worst} ELSE beam.result)
            BY DEF Admit
        <2> HIDE DEF full, admit, worst
        <2> QED BY <2>1
    <1> HIDE DEF worst
    <1>2. more(beam.result) \in Beams(S) /\ more(beam.result \ {worst}) \in Beams(S)
        BY DEF Beams
    <1>3. [beam EXCEPT !.seen = @ \cup {nb}] \in Beams(S)
        BY DEF Beams
    <1> HIDE DEF more
    <1> QED BY <1>1, <1>2, <1>3

LEMMA ExpandFacts ==
    ASSUME NEW g, IsGraph(g), NEW beam \in Beams(Ords(g)), beam.cand # {}, NEW q \in Int,
           NEW ef, NEW layer \in Nat
    PROVE  Expand(g, q, ef, layer, beam) \in Beams(Ords(g))
    <1> DEFINE V == Beams(Ords(g))
               c == Nearest(g, beam.cand, q)
               list == neighbours(g, c, layer)
               m == Len(list)
               base == [beam EXCEPT !.cand = @ \ {c}]
               Turn(i, b) == Admit(g, q, ef, b, list[i])
               Runs(f) == f = [i \in 0..m |-> IF i = 0 THEN base ELSE Turn(i, f[i - 1])]
               after == CHOOSE f : Runs(f)
               stop == [beam EXCEPT !.cand = {}]
               far == Cardinality(beam.result) >= ef /\ Nearer(g, Farthest(g, beam.result, q), c, q)
    <1>1. Expand(g, q, ef, layer, beam) = IF far THEN stop ELSE after[m]
        BY Zenon DEF Expand
    <1>2. c \in Ords(g)
        <2>1. beam.cand \subseteq Ords(g)
            BY DEF Beams
        <2>2. \A n \in beam.cand : g.nodes[n].vec \in Int
            BY <2>1, GraphFacts
        <2>3. c \in beam.cand
            BY <2>2, NearestFacts
        <2> QED BY <2>1, <2>3
    <1> HIDE DEF c
    <1>3. list \in Seq(Ords(g)) /\ m \in Nat
        <2>1. list \in Seq(Ords(g))
            BY <1>2, NeighboursFacts
        <2> QED BY <2>1
    <1> HIDE DEF list
    <1>4. base \in V /\ stop \in V
        BY DEF Beams
    <1>5. \A i \in 1..m, b \in V : Turn(i, b) \in V
        <2> TAKE i \in 1..m, b \in V
        <2>1. list[i] \in Ords(g)
            BY <1>3
        <2> QED BY <2>1, AdmitFacts
    <1> HIDE DEF V, Turn, base, m, far, stop
    <1>6. Runs(after)
        <2> DEFINE step == [i \in 1..m |-> [b \in V |-> Turn(i, b)]]
        <2>1. step \in [1..m -> [V -> V]]
            BY <1>5
        <2>2. PICK f : IsRun(f, V, base, m, step)
            <3> HIDE DEF step
            <3> QED BY <1>3, <1>4, <2>1, LoopRuns
        <2>3. \A i \in 1..m : f[i] = Turn(i, f[i - 1])
            <3> TAKE i \in 1..m
            <3>1. f[i - 1] \in V
                BY <2>2, <1>3 DEF IsRun
            <3> QED BY <2>2, <3>1 DEF IsRun
        <2>4. Runs(f)
            BY <2>2, <2>3 DEF IsRun
        <2> QED BY <2>4, Zenon
    <1>7. \A i \in 0..m : after[i] = IF i = 0 THEN base ELSE Turn(i, after[i - 1])
        BY <1>6, Zenon
    <1> HIDE DEF after
    <1>8. after[0] \in V
        BY <1>3, <1>4, <1>7
    <1>9. \A i \in 1..m : after[i - 1] \in V => after[i] \in V
        BY <1>3, <1>5, <1>7
    <1>10. after[m] \in V
        <2>1. \A i \in 0..m : after[i] \in V
            BY <1>3, <1>8, <1>9, LoopStays
        <2> QED BY <1>3, <2>1
    <1> QED BY <1>1, <1>4, <1>10 DEF V

(* A search finds nodes. *)
LEMMA SearchFacts ==
    ASSUME NEW g, IsGraph(g), NEW q \in Int, NEW entry \in Ords(g), NEW layer \in Nat, NEW ef
    PROVE  /\ search_layer(g, q, entry, layer, ef) \in SUBSET Ords(g)
           /\ search_layer(g, q, entry, layer, ef) # {}
    <1> DEFINE V == Beams(Ords(g))
               m == Len(g.nodes) + 1
               base == BeamAt(entry)
               Turn(b) == IF b.cand = {} THEN b ELSE Expand(g, q, ef, layer, b)
               Runs(f) == f = [i \in 0..m |-> IF i = 0 THEN base ELSE Turn(f[i - 1])]
               beam == CHOOSE f : Runs(f)
    <1>1. search_layer(g, q, entry, layer, ef) = beam[m].result
        BY Zenon DEF search_layer
    <1>2. m \in Nat
        BY GraphFacts
    <1>3. base \in V
        BY DEF Beams, BeamAt
    <1>4. \A b \in V : Turn(b) \in V
        BY ExpandFacts
    <1> HIDE DEF V, Turn, base, m
    <1>5. Runs(beam)
        <2> DEFINE step == [i \in 1..m |-> [b \in V |-> Turn(b)]]
        <2>1. step \in [1..m -> [V -> V]]
            BY <1>4
        <2>2. PICK f : IsRun(f, V, base, m, step)
            <3> HIDE DEF step
            <3> QED BY <1>2, <1>3, <2>1, LoopRuns
        <2>3. \A i \in 1..m : f[i] = Turn(f[i - 1])
            <3> TAKE i \in 1..m
            <3>1. f[i - 1] \in V
                BY <2>2, <1>2 DEF IsRun
            <3> QED BY <2>2, <3>1 DEF IsRun
        <2>4. Runs(f)
            BY <2>2, <2>3 DEF IsRun
        <2> QED BY <2>4, Zenon
    <1>6. \A i \in 0..m : beam[i] = IF i = 0 THEN base ELSE Turn(beam[i - 1])
        BY <1>5, Zenon
    <1> HIDE DEF beam
    <1>7. beam[0] \in V
        BY <1>2, <1>3, <1>6
    <1>8. \A i \in 1..m : beam[i - 1] \in V => beam[i] \in V
        BY <1>2, <1>4, <1>6
    <1>9. beam[m] \in V
        <2>1. \A i \in 0..m : beam[i] \in V
            BY <1>2, <1>7, <1>8, LoopStays
        <2> QED BY <1>2, <2>1
    <1>10. beam[m].result \in (SUBSET Ords(g)) \ {{}}
        BY <1>9 DEF V, Beams
    <1> QED BY <1>1, <1>10

(* The greedy descent ends at a node. *)
LEMMA DescendFacts ==
    ASSUME NEW g, IsGraph(g), NEW q \in Int, NEW entry \in Ords(g), NEW top \in Int, NEW down \in Nat
    PROVE  Descend(g, q, entry, top, down) \in Ords(g)
    <1> DEFINE V == Ords(g)
               m == top - down
               Turn(i, n) == Nearest(g, search_layer(g, q, n, top + 1 - i, 1), q)
               Runs(f) == f = [i \in 0..m |-> IF i = 0 THEN entry ELSE Turn(i, f[i - 1])]
               cur == CHOOSE f : Runs(f)
    <1>1. Descend(g, q, entry, top, down) = IF top > down THEN cur[m] ELSE entry
        BY Zenon DEF Descend
    <1> SUFFICES ASSUME top > down PROVE cur[m] \in V
        BY <1>1
    <1>2. m \in Nat
        OBVIOUS
    <1>3. \A i \in 1..m, n \in V : Turn(i, n) \in V
        <2> TAKE i \in 1..m, n \in V
        <2> DEFINE found == search_layer(g, q, n, top + 1 - i, 1)
        <2>1. top + 1 - i \in Nat
            OBVIOUS
        <2>2. found \in SUBSET Ords(g) /\ found # {}
            BY <2>1, SearchFacts
        <2> HIDE DEF found
        <2>3. \A o \in found : g.nodes[o].vec \in Int
            BY <2>2, GraphFacts
        <2>4. Nearest(g, found, q) \in found
            BY <2>2, <2>3, NearestFacts
        <2> QED BY <2>2, <2>4 DEF found
    <1> HIDE DEF V, Turn, m
    <1>4. entry \in V
        BY DEF V
    <1>5. Runs(cur)
        <2> DEFINE step == [i \in 1..m |-> [n \in V |-> Turn(i, n)]]
        <2>1. step \in [1..m -> [V -> V]]
            BY <1>3
        <2>2. PICK f : IsRun(f, V, entry, m, step)
            <3> HIDE DEF step
            <3> QED BY <1>2, <1>4, <2>1, LoopRuns
        <2>3. \A i \in 1..m : f[i] = Turn(i, f[i - 1])
            <3> TAKE i \in 1..m
            <3>1. f[i - 1] \in V
                BY <2>2, <1>2 DEF IsRun
            <3> QED BY <2>2, <3>1 DEF IsRun
        <2>4. Runs(f)
            BY <2>2, <2>3 DEF IsRun
        <2> QED BY <2>4, Zenon
    <1>6. \A i \in 0..m : cur[i] = IF i = 0 THEN entry ELSE Turn(i, cur[i - 1])
        BY <1>5, Zenon
    <1> HIDE DEF cur
    <1>7. cur[0] \in V
        BY <1>2, <1>4, <1>6
    <1>8. \A i \in 1..m : cur[i - 1] \in V => cur[i] \in V
        BY <1>2, <1>3, <1>6
    <1>9. \A i \in 0..m : cur[i] \in V
        BY <1>2, <1>7, <1>8, LoopStays
    <1> QED BY <1>2, <1>9
-----------------------------------------------------------------------------
(* Layouts                                                                 *)

(* h has the nodes of g, whatever its links, *)
SameNodes(g, h) ==
    /\ Len(h.nodes) = Len(g.nodes)
    /\ h.deleted = g.deleted /\ h.idIndex = g.idIndex
    /\ \A n \in Ords(g) : /\ h.nodes[n].id = g.nodes[n].id /\ h.nodes[n].vec = g.nodes[n].vec
                          /\ h.nodes[n].superseded = g.nodes[n].superseded

(* and the same root. *)
Alike(g, h) == SameNodes(g, h) /\ h.entry = g.entry /\ h.maxLayer = g.maxLayer

(* The history of h is that of g. *)
SameHistory(g, h) == h.blocks = g.blocks /\ h.undefined = g.undefined /\ h.raced = g.raced

LEMMA AlikeTwice ==
    ASSUME NEW f, NEW g, NEW h, Alike(f, g), Alike(g, h)
    PROVE  Alike(f, h)
    BY DEF SameNodes, Alike, Ords

(* What is said of nodes holds of graphs with the same nodes. *)
LEMMA SameKeeps ==
    ASSUME NEW g, NEW h, SameNodes(g, h)
    PROVE  /\ Ords(h) = Ords(g)
           /\ LastWins(g) => LastWins(h)
           /\ Current(g) => Current(h)
           /\ Sequential(g) => Sequential(h)
           /\ IdIndex(h) = IdIndex(g)
           /\ IndexFinds(g) => IndexFinds(h)
    <1>1. Ords(h) = Ords(g)
        BY DEF SameNodes, Ords
    <1>2. \A n \in Ords(g) : /\ h.nodes[n].id = g.nodes[n].id /\ h.nodes[n].vec = g.nodes[n].vec
                             /\ h.nodes[n].superseded = g.nodes[n].superseded
        BY DEF SameNodes
    <1>4. LastWins(g) => LastWins(h)
        BY <1>1, <1>2 DEF LastWins
    <1>5. Current(g) => Current(h)
        BY <1>1, <1>2 DEF Current, Returnable, SameNodes
    <1>6. Sequential(g) => Sequential(h)
        BY <1>1, <1>2 DEF Sequential, IsRow, SameNodes
    <1>7. IdIndex(h) = IdIndex(g)
        <2>1. {h.nodes[n].id : n \in Ords(h)} = {g.nodes[n].id : n \in Ords(g)}
            BY <1>1, <1>2
        <2>2. \A id : {n \in Ords(h) : h.nodes[n].id = id} = {n \in Ords(g) : g.nodes[n].id = id}
            BY <1>1, <1>2
        <2>3. h.idIndex = g.idIndex
            BY DEF SameNodes
        <2> QED BY <2>1, <2>2, <2>3, Zenon DEF IdIndex
    <1>8. IndexFinds(g) => IndexFinds(h)
        BY <1>1, <1>2, <1>7 DEF IndexFinds
    <1> QED BY <1>1, <1>4, <1>5, <1>6, <1>7, <1>8

LEMMA AlikeKeeps ==
    ASSUME NEW g, NEW h, Alike(g, h), Rooted(g), IsGraph(h)
    PROVE  Rooted(h)
    <1> SUFFICES ASSUME h.nodes # <<>> PROVE h.maxLayer >= 0
        BY DEF Rooted
    <1>1. Len(h.nodes) # 0
        <2>1. h.nodes \in Seq(Node(Len(h.nodes)))
            BY GraphFacts
        <2> QED BY <2>1
    <1>2. g.nodes # <<>>
        BY <1>1 DEF Alike, SameNodes
    <1> QED BY <1>2 DEF Rooted, Alike

LEMMA RelinkedAlike ==
    ASSUME NEW g, NEW h, Relinked(g, h)
    PROVE  Alike(g, h)
    BY DEF Relinked, SameNodes, Alike

(* The highest layer of a graph. *)
LEMMA LayersFacts ==
    ASSUME NEW g, IsGraph(g)
    PROVE  /\ Layers(g) \in 0..(MaxLevel + 1)
           /\ \A n \in Ords(g) : Len(g.nodes[n].links) <= Layers(g)
    <1> DEFINE S == {0} \cup {Len(g.nodes[n].links) : n \in Ords(g)}
    <1>1. MaxLevel + 1 \in Nat
        BY HnswAssumption
    <1>2. \A n \in Ords(g) : Len(g.nodes[n].links) \in Nat /\ Len(g.nodes[n].links) <= MaxLevel + 1
        <2> TAKE n \in Ords(g)
        <2>1. g.nodes[n].links \in Seq(Seq(Ords(g))) /\ Len(g.nodes[n].links) <= MaxLevel + 1
            BY GraphFacts
        <2> QED BY <2>1
    <1>3. S \in SUBSET Nat /\ S # {} /\ \A v \in S : v <= MaxLevel + 1
        BY <1>1, <1>2
    <1>4. Max(S) \in S /\ \A v \in S : v <= Max(S)
        <2> HIDE DEF S
        <2> QED BY <1>1, <1>3, GreatestOf
    <1>5. Layers(g) = Max(S)
        BY DEF Layers
    <1> QED BY <1>1, <1>3, <1>4, <1>5

(* The highest layer of a node in the blocks. *)
LEMMA TopLinkedFacts ==
    ASSUME NEW g, IsGraph(g), NEW n \in Ords(g)
    PROVE  /\ TopLinked(g, n) \in 0..Len(g.csr)
           /\ \A l \in 1..Len(g.csr) : g.csr[l][n] # <<>> => l <= TopLinked(g, n)
    <1> DEFINE S == {0} \cup {l \in DOMAIN g.csr : g.csr[l][n] # <<>>}
    <1>1. Len(g.csr) \in Nat /\ DOMAIN g.csr = 1..Len(g.csr)
        BY GraphFacts
    <1>2. S \in SUBSET Nat /\ S # {} /\ \A v \in S : v <= Len(g.csr)
        BY <1>1
    <1>3. Max(S) \in S /\ \A v \in S : v <= Max(S)
        <2> HIDE DEF S
        <2> QED BY <1>1, <1>2, GreatestOf
    <1>4. TopLinked(g, n) = Max(S)
        BY DEF TopLinked
    <1> QED BY <1>1, <1>2, <1>3, <1>4

(* The blocks a graph is frozen into. *)
LEMMA FilledFacts ==
    ASSUME NEW g, IsGraph(g), NEW k \in 0..(MaxLevel + 1)
    PROVE  /\ FilledCsr(g, k) \in Blocks(Len(g.nodes)) /\ Len(FilledCsr(g, k)) = k
           /\ [l \in 1..k |-> [n \in Ords(g) |-> <<>>]] \in Blocks(Len(g.nodes))
    <1> DEFINE row(l) == [n \in Ords(g) |-> IF l <= Len(g.nodes[n].links) THEN g.nodes[n].links[l] ELSE <<>>]
               empty == [n \in Ords(g) |-> <<>>]
               T == [Ords(g) -> Seq(Ords(g))]
    <1>1. k \in Nat /\ k <= MaxLevel + 1
        BY HnswAssumption
    <1>2. \A n \in Ords(g) : g.nodes[n].links \in Seq(Seq(Ords(g)))
        BY GraphFacts
    <1>3. \A l \in 1..k : row(l) \in T
        <2> TAKE l \in 1..k
        <2>1. \A n \in Ords(g) :
                 (IF l <= Len(g.nodes[n].links) THEN g.nodes[n].links[l] ELSE <<>>) \in Seq(Ords(g))
            <3> TAKE n \in Ords(g)
            <3>1. CASE l <= Len(g.nodes[n].links)
                <4>1. l \in 1..Len(g.nodes[n].links)
                    BY <1>2, <3>1
                <4> QED BY <1>2, <3>1, <4>1
            <3>2. CASE ~ (l <= Len(g.nodes[n].links))
                BY <3>2
            <3> QED BY <3>1, <3>2
        <2> QED BY <2>1
    <1>4. empty \in T
        OBVIOUS
    <1>5. FilledCsr(g, k) = [l \in 1..k |-> row(l)]
        BY Zenon DEF FilledCsr
    <1> HIDE DEF row, empty, T
    <1>6. /\ [l \in 1..k |-> row(l)] \in Seq(T) /\ Len([l \in 1..k |-> row(l)]) = k
          /\ [l \in 1..k |-> empty] \in Seq(T) /\ Len([l \in 1..k |-> empty]) = k
        BY <1>1, <1>3, <1>4
    <1> QED BY <1>1, <1>5, <1>6 DEF Blocks, T, empty, Ords

(* Replacing the blocks. *)
LEMMA CsrFacts ==
    ASSUME NEW g, IsGraph(g), NEW c \in Blocks(Len(g.nodes))
    PROVE  LET h == [g EXCEPT !.csr = c]
           IN  /\ IsGraph(h) /\ Alike(g, h) /\ SameHistory(g, h)
               /\ h.csr = c /\ h.nodes = g.nodes /\ h.sealed = g.sealed
               /\ ~g.sealed => Adjacency(h) = Adjacency(g)
    <1> DEFINE h == [g EXCEPT !.csr = c]
    <1>1. g \in Graphs(Len(g.nodes)) /\ (g.maxLayer >= 0 => g.entry \in Ords(g))
        BY DEF IsGraph
    <1>2. /\ h \in Graphs(Len(g.nodes)) /\ h.csr = c /\ h.nodes = g.nodes /\ h.sealed = g.sealed
          /\ h.entry = g.entry /\ h.maxLayer = g.maxLayer /\ h.deleted = g.deleted
          /\ h.idIndex = g.idIndex /\ SameHistory(g, h)
        BY <1>1 DEF Graphs, SameHistory
    <1> HIDE DEF h
    <1>3. IsGraph(h) /\ Alike(g, h)
        BY <1>1, <1>2 DEF IsGraph, SameNodes, Alike, Ords
    <1>4. ASSUME ~g.sealed PROVE Adjacency(h) = Adjacency(g)
        <2>1. Ords(h) = Ords(g)
            BY <1>2 DEF Ords
        <2>2. \A n, layer : neighbours(h, n, layer) = neighbours(g, n, layer)
            BY <1>2, <1>4, Zenon DEF neighbours, HasLayer
        <2> QED BY <2>1, <2>2, Zenon DEF Adjacency
    <1> QED BY <1>2, <1>3, <1>4 DEF h

(* Releasing the lists of the nodes. *)
LEMMA ReleasedFacts ==
    ASSUME NEW g, IsGraph(g)
    PROVE  LET h == Released(g)
           IN  /\ IsGraph(h) /\ Alike(g, h) /\ SameHistory(g, h) /\ h.sealed /\ h.csr = g.csr
               /\ ~g.sealed /\ g.csr = FilledCsr(g, Layers(g)) => Adjacency(h) = Adjacency(g)
    <1> DEFINE k == Len(g.nodes)
               bare(n) == [g.nodes[n] EXCEPT !.links = <<>>]
               nodes2 == [n \in DOMAIN g.nodes |-> bare(n)]
               h == Released(g)
    <1>1. g \in Graphs(k) /\ (g.maxLayer >= 0 => g.entry \in Ords(g))
        BY DEF IsGraph
    <1>2. /\ k \in Nat /\ DOMAIN g.nodes = Ords(g) /\ Ords(g) = 1..k
          /\ \A n \in Ords(g) : g.nodes[n] \in Node(k)
        BY GraphFacts
    <1>3. \A n \in Ords(g) : /\ bare(n) \in Node(k) /\ bare(n).id = g.nodes[n].id
                             /\ bare(n).vec = g.nodes[n].vec
                             /\ bare(n).superseded = g.nodes[n].superseded
        <2> TAKE n \in Ords(g)
        <2>1. <<>> \in LinkLists(k)
            BY HnswAssumption DEF LinkLists
        <2> QED BY <1>2, <2>1 DEF Node
    <1>4. h = [g EXCEPT !.nodes = nodes2, !.sealed = TRUE]
        BY Zenon DEF Released
    <1> HIDE DEF bare, h
    <1>5. nodes2 \in Seq(Node(k)) /\ Len(nodes2) = k /\ \A n \in Ords(g) : nodes2[n] = bare(n)
        BY <1>2, <1>3
    <1> HIDE DEF nodes2
    <1>6. /\ h \in Graphs(k) /\ h.csr = g.csr /\ h.nodes = nodes2 /\ h.sealed = TRUE
          /\ h.entry = g.entry /\ h.maxLayer = g.maxLayer /\ h.deleted = g.deleted
          /\ h.idIndex = g.idIndex /\ SameHistory(g, h)
        BY <1>1, <1>4, <1>5 DEF Graphs, SameHistory
    <1>7. IsGraph(h)
        BY <1>1, <1>5, <1>6 DEF IsGraph, Ords
    <1>8. Alike(g, h)
        BY <1>3, <1>5, <1>6 DEF SameNodes, Alike
    <1>9. ASSUME ~g.sealed, g.csr = FilledCsr(g, Layers(g)) PROVE Adjacency(h) = Adjacency(g)
        <2>1. Ords(h) = Ords(g)
            BY <1>5, <1>6 DEF Ords
        <2>2. /\ Layers(g) \in 0..(MaxLevel + 1)
              /\ \A n \in Ords(g) : Len(g.nodes[n].links) <= Layers(g)
            BY LayersFacts
        <2>3. Len(g.csr) = Layers(g)
            BY <1>9, <2>2, FilledFacts
        <2>4. ASSUME NEW n \in Ords(g), NEW layer \in Layer
              PROVE  neighbours(h, n, layer) = neighbours(g, n, layer)
            <3>1. /\ layer \in Nat /\ Len(g.nodes[n].links) \in Nat
                  /\ Len(g.nodes[n].links) <= Layers(g) /\ Layers(g) \in Nat
                <4>1. g.nodes[n].links \in Seq(Seq(Ords(g)))
                    BY GraphFacts
                <4> QED BY <2>2, <4>1, HnswAssumption DEF Layer
            <3>2. neighbours(h, n, layer) = IF layer < Layers(g) THEN g.csr[layer + 1][n] ELSE <<>>
                BY <1>6, <2>3, Zenon DEF neighbours
            <3>3. neighbours(g, n, layer) = IF layer < Len(g.nodes[n].links)
                                            THEN g.nodes[n].links[layer + 1] ELSE <<>>
                BY <1>9, Zenon DEF neighbours, HasLayer
            <3>4. layer < Layers(g) =>
                    g.csr[layer + 1][n] = IF layer + 1 <= Len(g.nodes[n].links)
                                          THEN g.nodes[n].links[layer + 1] ELSE <<>>
                BY <1>9, <3>1 DEF FilledCsr
            <3> QED BY <3>1, <3>2, <3>3, <3>4
        <2> QED BY <2>1, <2>4, Zenon DEF Adjacency
    <1> QED BY <1>6, <1>7, <1>8, <1>9 DEF h

(* seal() changes the layout only. *)
LEMMA SealFacts ==
    ASSUME NEW g, IsGraph(g), ~g.sealed
    PROVE  LET h == seal(g)
           IN  /\ IsGraph(h) /\ Alike(g, h) /\ SameHistory(g, h) /\ Adjacency(h) = Adjacency(g)
               /\ h.sealed \/ h.csr = g.csr
    <1> DEFINE k == Layers(g)
               c == FilledCsr(g, k)
               f == [g EXCEPT !.csr = c]
    <1>1. k \in 0..(MaxLevel + 1)
        BY LayersFacts
    <1>2. CASE k = 0
        <2>1. seal(g) = g
            BY <1>2 DEF seal
        <2> QED BY <2>1 DEF SameNodes, Alike, SameHistory
    <1>3. CASE k # 0
        <2>1. seal(g) = Released(f)
            BY <1>3, Zenon DEF seal
        <2>2. c \in Blocks(Len(g.nodes))
            BY <1>1, FilledFacts
        <2> HIDE DEF c
        <2>3. /\ IsGraph(f) /\ Alike(g, f) /\ SameHistory(g, f) /\ f.csr = c /\ f.nodes = g.nodes
              /\ f.sealed = g.sealed /\ Adjacency(f) = Adjacency(g)
            BY <2>2, CsrFacts
        <2> HIDE DEF f
        <2>4. f.csr = FilledCsr(f, Layers(f))
            <3>1. Ords(f) = Ords(g) /\ f.nodes = g.nodes
                BY <2>3 DEF Ords
            <3>2. Layers(f) = k
                BY <3>1, Zenon DEF Layers
            <3>3. FilledCsr(f, k) = FilledCsr(g, k)
                BY <3>1, Zenon DEF FilledCsr
            <3> HIDE DEF k
            <3> QED BY <2>3, <3>2, <3>3 DEF c
        <2>5. /\ IsGraph(Released(f)) /\ Alike(f, Released(f)) /\ SameHistory(f, Released(f))
              /\ Released(f).sealed /\ Adjacency(Released(f)) = Adjacency(f)
            BY <2>3, <2>4, ReleasedFacts
        <2>6. Alike(g, Released(f))
            BY <2>3, <2>5, AlikeTwice
        <2>7. SameHistory(g, Released(f))
            BY <2>3, <2>5 DEF SameHistory
        <2> QED BY <2>1, <2>3, <2>5, <2>6, <2>7
    <1> QED BY <1>2, <1>3

(* unseal() changes the layout only. *)
LEMMA UnsealFacts ==
    ASSUME NEW g, IsGraph(g)
    PROVE  LET h == unseal(g)
           IN  /\ IsGraph(h) /\ Alike(g, h) /\ SameHistory(g, h) /\ Adjacency(h) = Adjacency(g)
               /\ ~h.sealed /\ (h.csr = <<>> \/ (~g.sealed /\ h.csr = g.csr))
    <1> DEFINE k == Len(g.nodes)
               top(n) == TopLinked(g, n)
               ls(n) == [l \in 1..top(n) |-> g.csr[l][n]]
               open(n) == [g.nodes[n] EXCEPT !.links = ls(n)]
               nodes2 == [n \in Ords(g) |-> open(n)]
               h == unseal(g)
    <1>1. CASE ~g.sealed
        <2>1. unseal(g) = g
            BY <1>1 DEF unseal
        <2> QED BY <1>1, <2>1 DEF SameNodes, Alike, SameHistory
    <1>2. CASE g.sealed
        <2>1. g \in Graphs(k) /\ (g.maxLayer >= 0 => g.entry \in Ords(g))
            BY DEF IsGraph
        <2>2. /\ k \in Nat /\ DOMAIN g.nodes = Ords(g) /\ Ords(g) = 1..k
              /\ \A n \in Ords(g) : g.nodes[n] \in Node(k)
              /\ g.csr \in Seq([Ords(g) -> Seq(Ords(g))]) /\ Len(g.csr) <= MaxLevel + 1
            BY GraphFacts
        <2>3. \A n \in Ords(g) : /\ top(n) \in 0..Len(g.csr)
                                 /\ \A l \in 1..Len(g.csr) : g.csr[l][n] # <<>> => l <= top(n)
            BY TopLinkedFacts
        <2> HIDE DEF top
        <2>4. \A n \in Ords(g) : ls(n) \in LinkLists(k) /\ Len(ls(n)) = top(n)
            <3> TAKE n \in Ords(g)
            <3>1. top(n) \in Nat /\ top(n) <= Len(g.csr) /\ Len(g.csr) \in Nat /\ top(n) <= MaxLevel + 1
                BY <2>2, <2>3, HnswAssumption
            <3>2. \A l \in 1..top(n) : g.csr[l][n] \in Seq(1..k)
                <4> TAKE l \in 1..top(n)
                <4>1. l \in 1..Len(g.csr)
                    BY <3>1
                <4> QED BY <2>2, <4>1
            <3>3. ls(n) \in Seq(Seq(1..k)) /\ Len(ls(n)) = top(n)
                BY <3>1, <3>2
            <3> QED BY <3>1, <3>3 DEF LinkLists
        <2> HIDE DEF ls
        <2>5. \A n \in Ords(g) : /\ open(n) \in Node(k) /\ open(n).id = g.nodes[n].id
                                 /\ open(n).vec = g.nodes[n].vec
                                 /\ open(n).superseded = g.nodes[n].superseded
                                 /\ open(n).links = ls(n)
            BY <2>2, <2>4 DEF Node
        <2>6. h = [g EXCEPT !.nodes = nodes2, !.sealed = FALSE, !.csr = <<>>]
            BY <1>2, Zenon DEF unseal, UnpackedNodes, ls, top
        <2> HIDE DEF open, h
        <2>7. nodes2 \in Seq(Node(k)) /\ Len(nodes2) = k /\ \A n \in Ords(g) : nodes2[n] = open(n)
            BY <2>2, <2>5
        <2> HIDE DEF nodes2
        <2>8. <<>> \in Blocks(k)
            BY HnswAssumption DEF Blocks
        <2>9. /\ h \in Graphs(k) /\ h.csr = <<>> /\ h.nodes = nodes2 /\ h.sealed = FALSE
              /\ h.entry = g.entry /\ h.maxLayer = g.maxLayer /\ h.deleted = g.deleted
              /\ h.idIndex = g.idIndex /\ SameHistory(g, h)
            BY <2>1, <2>6, <2>7, <2>8 DEF Graphs, SameHistory
        <2>10. IsGraph(h)
            BY <2>1, <2>7, <2>9 DEF IsGraph, Ords
        <2>11. Alike(g, h)
            BY <2>5, <2>7, <2>9 DEF SameNodes, Alike
        <2>12. ASSUME NEW n \in Ords(g), NEW layer \in Layer
               PROVE  neighbours(h, n, layer) = neighbours(g, n, layer)
            <3>1. /\ layer \in Nat /\ Len(g.csr) \in Nat /\ top(n) \in Nat /\ top(n) <= Len(g.csr)
                  /\ Len(ls(n)) = top(n)
                BY <2>2, <2>3, <2>4, HnswAssumption DEF Layer
            <3>2. neighbours(g, n, layer) = IF layer < Len(g.csr) THEN g.csr[layer + 1][n] ELSE <<>>
                BY <1>2, Zenon DEF neighbours
            <3>3. h.nodes[n].links = ls(n)
                BY <2>5, <2>7, <2>9
            <3>4. neighbours(h, n, layer) = IF layer < top(n) THEN ls(n)[layer + 1] ELSE <<>>
                BY <2>9, <3>1, <3>3, Zenon DEF neighbours, HasLayer
            <3>5. layer < top(n) => ls(n)[layer + 1] = g.csr[layer + 1][n]
                BY <3>1 DEF ls
            <3>6. layer < Len(g.csr) => (g.csr[layer + 1][n] # <<>> => layer + 1 <= top(n))
                BY <2>3, <3>1
            <3> QED BY <3>1, <3>2, <3>4, <3>5, <3>6
        <2>13. Adjacency(h) = Adjacency(g)
            <3>1. Ords(h) = Ords(g)
                BY <2>7, <2>9 DEF Ords
            <3> QED BY <2>12, <3>1, Zenon DEF Adjacency
        <2>14. ~h.sealed /\ h.csr = <<>> /\ SameHistory(g, h)
            BY <2>9
        <2> QED BY <2>10, <2>11, <2>13, <2>14, Zenon DEF h
    <1> QED BY <1>1, <1>2
-----------------------------------------------------------------------------
(* Changes by a single owner                                               *)

(* ensure_id_index() finds nodes, the last of each id. *)
LEMMA IdIndexFacts ==
    ASSUME NEW g, IsGraph(g)
    PROVE  /\ IdIndex(g) \in Indexes(Len(g.nodes))
           /\ g.idIndex = NoIndex /\ LastWins(g) => IndexFinds(g)
    <1> DEFINE k == Len(g.nodes)
               S(id) == {n \in Ords(g) : g.nodes[n].id = id}
               T == {g.nodes[n].id : n \in Ords(g)}
               f == [id \in T |-> Max(S(id))]
    <1>1. CASE g.idIndex # NoIndex
        <2>1. IdIndex(g) = g.idIndex
            BY <1>1, Zenon DEF IdIndex
        <2>2. g.idIndex \in Indexes(k) \cup {NoIndex}
            BY GraphFacts
        <2> QED BY <1>1, <2>1, <2>2
    <1>2. CASE g.idIndex = NoIndex
        <2>1. IdIndex(g) = f
            BY <1>2, Zenon DEF IdIndex
        <2>2. /\ k \in Nat /\ Ords(g) = 1..k /\ \A n \in Ords(g) : g.nodes[n].id \in Id
            BY GraphFacts
        <2>3. T \in SUBSET Id
            BY <2>2
        <2>4. \A id \in T : Max(S(id)) \in S(id) /\ \A n \in S(id) : n <= Max(S(id))
            <3> TAKE id \in T
            <3>1. S(id) \in SUBSET Nat /\ S(id) # {} /\ \A n \in S(id) : n <= k
                BY <2>2
            <3> HIDE DEF S
            <3> QED BY <2>2, <3>1, GreatestOf
        <2>5. f \in [T -> 1..k]
            BY <2>2, <2>4
        <2>6. f \in Indexes(k)
            <3> HIDE DEF f, T
            <3> QED BY <2>3, <2>5 DEF Indexes
        <2>7. ASSUME LastWins(g), NEW n \in Ords(g), ~g.nodes[n].superseded
              PROVE  g.nodes[n].id \in T /\ f[g.nodes[n].id] = n
            <3> DEFINE id == g.nodes[n].id
                       m == Max(S(id))
            <3>1. id \in T /\ n \in S(id)
                OBVIOUS
            <3>2. m \in S(id) /\ n <= m
                <4> HIDE DEF S, T, id
                <4> QED BY <2>4, <3>1
            <3>3. m \in Ords(g) /\ g.nodes[m].id = id
                BY <3>2
            <3>4. ~ (n < m)
                <4> HIDE DEF m
                <4> QED BY <2>7, <3>3 DEF LastWins
            <3>5. n = m
                <4> HIDE DEF m
                <4> QED BY <2>2, <3>2, <3>3, <3>4
            <3> QED BY <3>1, <3>5
        <2> HIDE DEF f, T
        <2>8. DOMAIN IdIndex(g) = T
            BY <2>1, <2>5
        <2>9. LastWins(g) => IndexFinds(g)
            BY <2>1, <2>7, <2>8, Zenon DEF IndexFinds
        <2> QED BY <2>1, <2>6, <2>9
    <1> QED BY <1>1, <1>2

LEMMA Wider ==
    ASSUME NEW k \in Nat
    PROVE  /\ Node(k) \subseteq Node(k + 1)
           /\ Indexes(k) \subseteq Indexes(k + 1)
    <1>1. 1..k \subseteq 1..(k + 1)
        OBVIOUS
    <1>2. Seq(1..k) \subseteq Seq(1..(k + 1))
        BY <1>1
    <1>3. Seq(Seq(1..k)) \subseteq Seq(Seq(1..(k + 1)))
        <2> DEFINE A == Seq(1..k)
                   B == Seq(1..(k + 1))
        <2>1. A \subseteq B
            BY <1>2
        <2> HIDE DEF A, B
        <2>2. Seq(A) \subseteq Seq(B)
            BY <2>1
        <2> QED BY <2>2 DEF A, B
    <1>4. LinkLists(k) \subseteq LinkLists(k + 1)
        BY <1>3 DEF LinkLists
    <1>5. Node(k) \subseteq Node(k + 1)
        BY <1>4 DEF Node
    <1>6. \A S \in SUBSET Id : [S -> 1..k] \subseteq [S -> 1..(k + 1)]
        BY <1>1
    <1>7. ASSUME NEW f \in Indexes(k) PROVE f \in Indexes(k + 1)
        <2>1. PICK S \in SUBSET Id : f \in [S -> 1..k]
            BY DEF Indexes
        <2>2. f \in [S -> 1..(k + 1)]
            BY <1>6, <2>1
        <2> QED BY <2>2 DEF Indexes
    <1> QED BY <1>5, <1>7

(* The new node is current, and the one its id had no longer is. *)
LEMMA AppendedFacts ==
    ASSUME NEW g, IsGraph(g), ~g.sealed, g.csr = <<>>, LastWins(g), IndexFinds(g),
           NEW id \in Id, NEW vec \in Int, NEW level \in Layer
    PROVE  LET h == Appended(g, id, vec, level)
               k == Len(g.nodes)
           IN  /\ IsGraph(h) /\ Len(h.nodes) = k + 1 /\ ~h.sealed /\ h.csr = <<>>
               /\ h.entry = g.entry /\ h.maxLayer = g.maxLayer /\ SameHistory(g, h)
               /\ LastWins(h) /\ IndexFinds(h)
               /\ h.nodes[k + 1].id = id /\ h.nodes[k + 1].vec = vec
               /\ \A n \in Ords(h) : Returnable(h, n) =>
                    \/ n = k + 1
                    \/ /\ n \in Ords(g) /\ Returnable(g, n) /\ h.nodes[n].id # id
                       /\ h.nodes[n].id = g.nodes[n].id /\ h.nodes[n].vec = g.nodes[n].vec
    <1> DEFINE k == Len(g.nodes)
               index == IdIndex(g)
               sup(n) == g.nodes[n].superseded \/ (id \in DOMAIN index /\ n = index[id])
               nd(n) == [g.nodes[n] EXCEPT !.superseded = sup(n)]
               old == [n \in Ords(g) |-> nd(n)]
               new == NewNode(id, vec, level)
               nodes2 == Append(old, new)
               index2 == [i \in DOMAIN index \cup {id} |-> IF i = id THEN k + 1 ELSE index[i]]
               h == Appended(g, id, vec, level)
    <1>1. /\ k \in Nat /\ Ords(g) = 1..k /\ \A n \in Ords(g) : g.nodes[n] \in Node(k)
          /\ g.deleted \in SUBSET Id
        BY GraphFacts
    <1>2. g \in Graphs(k) /\ (g.maxLayer >= 0 => g.entry \in Ords(g))
        BY DEF IsGraph
    <1>3. h = [g EXCEPT !.nodes = nodes2, !.deleted = @ \ {id}, !.idIndex = index2]
        BY Zenon DEF Appended
    <1>4. index \in Indexes(k)
        BY IdIndexFacts
    <1>5. PICK D \in SUBSET Id : index \in [D -> 1..k]
        BY <1>4 DEF Indexes
    <1> HIDE DEF h, index
    <1>6. DOMAIN index = D /\ \A i \in D : index[i] \in 1..k
        BY <1>5
    <1>7. index2 \in Indexes(k + 1)
        <2>1. index2 \in [D \cup {id} -> 1..(k + 1)]
            BY <1>1, <1>6
        <2>2. D \cup {id} \in SUBSET Id
            OBVIOUS
        <2> HIDE DEF index2
        <2> QED BY <2>1, <2>2 DEF Indexes
    <1>8. \A n \in Ords(g) : /\ nd(n) \in Node(k + 1) /\ nd(n).id = g.nodes[n].id
                             /\ nd(n).vec = g.nodes[n].vec /\ nd(n).superseded = sup(n)
        <2> TAKE n \in Ords(g)
        <2>1. sup(n) \in BOOLEAN
            BY <1>1 DEF Node
        <2> HIDE DEF sup
        <2>2. /\ nd(n) \in Node(k) /\ nd(n).id = g.nodes[n].id
              /\ nd(n).vec = g.nodes[n].vec /\ nd(n).superseded = sup(n)
            BY <1>1, <2>1 DEF Node
        <2> HIDE DEF nd
        <2> QED BY <1>1, <2>2, Wider
    <1>9. new \in Node(k + 1) /\ new.id = id /\ new.vec = vec /\ new.superseded = FALSE
        <2>1. level \in Nat /\ level + 1 <= MaxLevel + 1
            BY HnswAssumption DEF Layer
        <2> DEFINE ls == [l \in 1..(level + 1) |-> <<>>]
        <2>2. ls \in Seq(Seq(1..(k + 1))) /\ Len(ls) = level + 1
            BY <2>1
        <2>3. ls \in LinkLists(k + 1)
            BY <2>1, <2>2 DEF LinkLists
        <2>4. new = [id |-> id, vec |-> vec, superseded |-> FALSE, links |-> ls]
            BY Zenon DEF NewNode
        <2> HIDE DEF ls, new
        <2> QED BY <2>3, <2>4 DEF Node
    <1> HIDE DEF nd, new
    <1>10. /\ nodes2 \in Seq(Node(k + 1)) /\ Len(nodes2) = k + 1 /\ nodes2[k + 1] = new
           /\ \A n \in Ords(g) : nodes2[n] = nd(n)
        <2>1. old \in Seq(Node(k + 1)) /\ Len(old) = k /\ \A n \in Ords(g) : old[n] = nd(n)
            BY <1>1, <1>8
        <2> HIDE DEF old
        <2> QED BY <1>1, <1>9, <2>1
    <1> HIDE DEF nodes2
    <1>11. /\ h \in Graphs(k + 1) /\ h.nodes = nodes2 /\ h.csr = <<>> /\ ~h.sealed
           /\ h.entry = g.entry /\ h.maxLayer = g.maxLayer /\ SameHistory(g, h)
           /\ h.deleted = g.deleted \ {id} /\ h.idIndex = index2
        <2>1. <<>> \in Blocks(k + 1) /\ g.entry \in 0..(k + 1)
            BY <1>1, <1>2, HnswAssumption DEF Blocks, Graphs
        <2> HIDE DEF index2
        <2> QED BY <1>1, <1>2, <1>3, <1>7, <1>10, <2>1 DEF Graphs, SameHistory
    <1>12. Ords(h) = 1..(k + 1)
        BY <1>10, <1>11 DEF Ords
    <1>13. IsGraph(h)
        BY <1>1, <1>2, <1>10, <1>11, <1>12 DEF IsGraph
    <1>14. \A n \in Ords(g) : /\ h.nodes[n].id = g.nodes[n].id /\ h.nodes[n].vec = g.nodes[n].vec
                              /\ h.nodes[n].superseded = sup(n)
        BY <1>8, <1>10, <1>11
    <1>15. h.nodes[k + 1].id = id /\ h.nodes[k + 1].vec = vec /\ ~h.nodes[k + 1].superseded
        BY <1>9, <1>10, <1>11
    <1>16. \A n \in Ords(g) : ~sup(n) => ~g.nodes[n].superseded /\ h.nodes[n].id # id
        <2> SUFFICES ASSUME NEW n \in Ords(g), ~sup(n), g.nodes[n].id = id PROVE FALSE
            BY <1>14
        <2>1. ~g.nodes[n].superseded /\ id \in DOMAIN index /\ index[id] = n
            BY DEF IndexFinds, index
        <2> QED BY <2>1
    <1>17. \A n \in Ords(h) : n = k + 1 \/ n \in Ords(g)
        BY <1>1, <1>12
    <1>18. LastWins(h)
        <2> SUFFICES ASSUME NEW n \in Ords(h), NEW o \in Ords(h), n < o, h.nodes[n].id = h.nodes[o].id
                     PROVE  h.nodes[n].superseded
            BY DEF LastWins
        <2>1. n \in Ords(g)
            BY <1>1, <1>12
        <2>2. CASE o \in Ords(g)
            <3>1. g.nodes[n].superseded
                BY <1>14, <2>1, <2>2 DEF LastWins
            <3> QED BY <1>14, <2>1, <3>1
        <2>3. CASE o = k + 1
            BY <1>14, <1>15, <1>16, <2>1, <2>3
        <2> QED BY <1>17, <2>2, <2>3
    <1>19. IndexFinds(h)
        <2>1. CASE h.idIndex = NoIndex
            BY <1>13, <1>18, <2>1, IdIndexFacts
        <2>2. CASE h.idIndex # NoIndex
            <3>1. IdIndex(h) = index2
                BY <1>11, <2>2, Zenon DEF IdIndex
            <3>2. ASSUME NEW n \in Ords(h), ~h.nodes[n].superseded
                  PROVE  h.nodes[n].id \in DOMAIN index2 /\ index2[h.nodes[n].id] = n
                <4>1. CASE n = k + 1
                    BY <1>15, <4>1
                <4>2. CASE n \in Ords(g)
                    <5>1. ~sup(n) /\ ~g.nodes[n].superseded /\ h.nodes[n].id # id
                        BY <1>14, <1>16, <3>2, <4>2
                    <5>2. g.nodes[n].id \in DOMAIN index /\ index[g.nodes[n].id] = n
                        BY <4>2, <5>1 DEF IndexFinds, index
                    <5> QED BY <1>14, <4>2, <5>1, <5>2
                <4> QED BY <1>17, <4>1, <4>2
            <3> QED BY <3>1, <3>2, Zenon DEF IndexFinds
        <2> QED BY <2>1, <2>2
    <1>20. ASSUME NEW n \in Ords(h), Returnable(h, n), n # k + 1
           PROVE  /\ n \in Ords(g) /\ Returnable(g, n) /\ h.nodes[n].id # id
                  /\ h.nodes[n].id = g.nodes[n].id /\ h.nodes[n].vec = g.nodes[n].vec
        <2>1. n \in Ords(g) /\ ~h.nodes[n].superseded /\ h.nodes[n].id \notin g.deleted \ {id}
            BY <1>11, <1>17, <1>20 DEF Returnable
        <2>2. ~g.nodes[n].superseded /\ h.nodes[n].id # id
            BY <1>14, <1>16, <2>1
        <2> QED BY <1>14, <2>1, <2>2 DEF Returnable
    <1> QED BY <1>10, <1>11, <1>13, <1>15, <1>18, <1>19, <1>20 DEF h

(* The entry point rises with the levels. *)
LEMMA PromotedFacts ==
    ASSUME NEW g, IsGraph(g), NEW ord \in Ords(g), NEW level \in Layer
    PROVE  LET h == Promoted(g, ord, level)
           IN  /\ IsGraph(h) /\ Rooted(h) /\ SameNodes(g, h) /\ SameHistory(g, h)
               /\ h.nodes = g.nodes /\ h.sealed = g.sealed /\ h.csr = g.csr
    <1> DEFINE k == Len(g.nodes)
               h == Promoted(g, ord, level)
    <1>1. /\ g \in Graphs(k) /\ (g.maxLayer >= 0 => g.entry \in Ords(g))
          /\ k \in Nat /\ Ords(g) = 1..k /\ g.maxLayer \in -1..MaxLevel
        BY GraphFacts DEF IsGraph
    <1>2. level \in Nat /\ level \in -1..MaxLevel
        BY HnswAssumption DEF Layer
    <1>3. CASE level > g.maxLayer
        <2>1. h = [g EXCEPT !.maxLayer = level, !.entry = ord]
            BY <1>3, Zenon DEF Promoted
        <2> HIDE DEF h
        <2> ord \in 0..k
            BY <1>1
        <2>2. /\ h \in Graphs(k) /\ h.nodes = g.nodes /\ h.sealed = g.sealed /\ h.csr = g.csr
              /\ h.entry = ord /\ h.maxLayer = level /\ SameHistory(g, h)
              /\ h.deleted = g.deleted /\ h.idIndex = g.idIndex
            BY <1>1, <1>2, <2>1 DEF Graphs, SameHistory
        <2>3. IsGraph(h) /\ Rooted(h) /\ SameNodes(g, h)
            BY <1>2, <2>2 DEF IsGraph, Rooted, SameNodes, Ords
        <2> QED BY <2>2, <2>3 DEF h
    <1>4. CASE ~ (level > g.maxLayer)
        <2>1. h = g
            BY <1>4, Zenon DEF Promoted
        <2>2. g.maxLayer >= 0
            BY <1>1, <1>2, <1>4
        <2> QED BY <2>1, <2>2 DEF Rooted, SameNodes, SameHistory
    <1> QED BY <1>3, <1>4

(* The turns of the loop of add(). *)
AddTurn(ord, vec, layer, up) ==
    LET found == search_layer(up.g, vec, up.cur, layer, EfConstruction)
    IN  [g |-> connect(up.g, ord, layer, found), cur |-> Nearest(up.g, found, vec)]

LEMMA AddTurnFacts ==
    ASSUME NEW g, IsGraph(g), NEW h, Relinked(g, h), NEW cur \in Ords(g), NEW ord \in Ords(g),
           NEW vec \in Int, NEW layer \in Nat
    PROVE  /\ Relinked(g, AddTurn(ord, vec, layer, [g |-> h, cur |-> cur]).g)
           /\ AddTurn(ord, vec, layer, [g |-> h, cur |-> cur]).cur \in Ords(g)
    <1> DEFINE found == search_layer(h, vec, cur, layer, EfConstruction)
               up == [g |-> h, cur |-> cur]
    <1>1. IsGraph(h) /\ Ords(h) = Ords(g)
        BY DEF Relinked, Ords
    <1>2. found \in SUBSET Ords(h) /\ found # {}
        BY <1>1, SearchFacts
    <1>3. up.g = h /\ up.cur = cur
        OBVIOUS
    <1>4. AddTurn(ord, vec, layer, up) = [g |-> connect(h, ord, layer, found), cur |-> Nearest(h, found, vec)]
        <2> HIDE DEF up
        <2> QED BY <1>3, Zenon DEF AddTurn
    <1> HIDE DEF found
    <1>5. Relinked(h, connect(h, ord, layer, found))
        BY <1>1, <1>2, ConnectFacts
    <1>6. Relinked(g, connect(h, ord, layer, found))
        BY <1>5, RelinkedTwice
    <1>7. \A n \in found : h.nodes[n].vec \in Int
        BY <1>1, <1>2, GraphFacts
    <1>8. Nearest(h, found, vec) \in found
        BY <1>2, <1>7, NearestFacts
    <1> QED BY <1>1, <1>2, <1>4, <1>6, <1>8

(* What add() leaves: the new node with its links, and the rest as it was. *)
LEMMA AddToFacts ==
    ASSUME NEW g0, IsGraph(g0), g0.sealed \/ g0.csr = <<>>, LastWins(g0), IndexFinds(g0),
           NEW id \in Id, NEW vec \in Int, NEW level \in Layer
    PROVE  LET r == AddTo(g0, id, vec, level)
           IN  /\ IsGraph(r) /\ Rooted(r) /\ ~r.sealed /\ r.csr = <<>> /\ r.raced = g0.raced
               /\ LastWins(r) /\ IndexFinds(r)
               /\ \A n \in Ords(r) : Returnable(r, n) =>
                    \/ r.nodes[n].id = id /\ r.nodes[n].vec = vec
                    \/ /\ n \in Ords(g0) /\ Returnable(g0, n) /\ r.nodes[n].id # id
                       /\ r.nodes[n].id = g0.nodes[n].id /\ r.nodes[n].vec = g0.nodes[n].vec
    <1> DEFINE u == unseal(g0)
               g == Appended(u, id, vec, level)
               ord == Len(g.nodes)
               low == Min({level, g.maxLayer})
               m == low + 1
               base == [g |-> g, cur |-> Descend(g, vec, g.entry, g.maxLayer, level)]
               Turn(i, up) == AddTurn(ord, vec, low + 1 - i, up)
               Runs(f) == f = [i \in 0..m |-> IF i = 0 THEN base ELSE Turn(i, f[i - 1])]
               done == CHOOSE f : Runs(f)
               r == AddTo(g0, id, vec, level)
    <1>1. r = IF g.maxLayer < 0 THEN Promoted(g, ord, level) ELSE Promoted(done[m].g, ord, level)
        BY Zenon DEF AddTo, AddTurn
    <1> HIDE DEF u, r
    <1>2. /\ IsGraph(u) /\ Alike(g0, u) /\ SameHistory(g0, u) /\ ~u.sealed /\ u.csr = <<>>
        BY UnsealFacts DEF u
    <1>3. LastWins(u) /\ IndexFinds(u) /\ Ords(u) = Ords(g0)
        BY <1>2, SameKeeps DEF Alike
    <1>4. /\ IsGraph(g) /\ Len(g.nodes) = Len(u.nodes) + 1 /\ ~g.sealed /\ g.csr = <<>>
          /\ SameHistory(u, g) /\ LastWins(g) /\ IndexFinds(g)
          /\ g.nodes[ord].id = id /\ g.nodes[ord].vec = vec
          /\ \A n \in Ords(g) : Returnable(g, n) =>
               \/ n = ord
               \/ /\ n \in Ords(u) /\ Returnable(u, n) /\ g.nodes[n].id # id
                  /\ g.nodes[n].id = u.nodes[n].id /\ g.nodes[n].vec = u.nodes[n].vec
        BY <1>2, <1>3, AppendedFacts
    <1> HIDE DEF g
    <1>5. ord \in Ords(g) /\ Ords(g) = 1..Len(g.nodes)
        <2>1. Len(u.nodes) \in Nat /\ Len(g.nodes) \in Nat
            BY <1>2, <1>4, GraphFacts
        <2> QED BY <1>4, <2>1 DEF Ords
    <1> HIDE DEF ord
    <1>6. level \in Nat /\ g.maxLayer \in -1..MaxLevel /\ MaxLevel \in Nat
        <2>1. g.maxLayer \in -1..MaxLevel
            BY <1>4, GraphFacts
        <2> QED BY <2>1, HnswAssumption DEF Layer
    <1>7. ASSUME g.maxLayer >= 0
          PROVE  Relinked(g, done[m].g)
        <2> DEFINE W == {h \in Graphs(Len(g.nodes)) : Relinked(g, h)}
                   V == [g : W, cur : Ords(g)]
        <2>1. m \in Nat /\ low \in Nat
            <3>1. g.maxLayer \in Int /\ level \in Int
                BY <1>6
            <3>2. low \in {level, g.maxLayer}
                BY <3>1, OfTwo
            <3> QED BY <1>6, <1>7, <3>1, <3>2
        <2> HIDE DEF low
        <2>2. \A i \in 1..m, up \in V : Turn(i, up) \in V
            <3> TAKE i \in 1..m, up \in V
            <3> DEFINE layer == low + 1 - i
                       t == AddTurn(ord, vec, layer, up)
            <3>1. layer \in Nat
                BY <2>1
            <3>2. up = [g |-> up.g, cur |-> up.cur] /\ Relinked(g, up.g) /\ up.cur \in Ords(g)
                OBVIOUS
            <3>3. t = [g |-> t.g, cur |-> t.cur]
                BY DEF AddTurn
            <3> HIDE DEF layer, t
            <3>4. Relinked(g, t.g) /\ t.cur \in Ords(g)
                BY <1>4, <1>5, <3>1, <3>2, AddTurnFacts DEF t
            <3>5. t.g \in Graphs(Len(g.nodes))
                BY <3>4 DEF Relinked
            <3> QED BY <3>3, <3>4, <3>5 DEF t, layer
        <2>3. base \in V
            <3>1. g.entry \in Ords(g)
                BY <1>4, <1>7 DEF IsGraph
            <3>2. Descend(g, vec, g.entry, g.maxLayer, level) \in Ords(g)
                BY <1>4, <1>6, <3>1, DescendFacts
            <3>3. Relinked(g, g) /\ g \in Graphs(Len(g.nodes))
                BY <1>4, RelinkedSelf DEF IsGraph
            <3> QED BY <3>2, <3>3
        <2> HIDE DEF V, Turn, m, base
        <2>4. Runs(done)
            <3> DEFINE step == [i \in 1..m |-> [up \in V |-> Turn(i, up)]]
            <3>1. step \in [1..m -> [V -> V]]
                BY <2>2
            <3>2. PICK f : IsRun(f, V, base, m, step)
                <4> HIDE DEF step
                <4> QED BY <2>1, <2>3, <3>1, LoopRuns
            <3>3. \A i \in 1..m : f[i] = Turn(i, f[i - 1])
                <4> TAKE i \in 1..m
                <4>1. f[i - 1] \in V
                    BY <2>1, <3>2 DEF IsRun
                <4> QED BY <3>2, <4>1 DEF IsRun
            <3>4. f = [i \in 0..m |-> IF i = 0 THEN base ELSE Turn(i, f[i - 1])]
                <4> HIDE DEF step
                <4>1. f \in [0..m -> V] /\ f[0] = base
                    BY <3>2 DEF IsRun
                <4>2. \A i \in 0..m : f[i] = IF i = 0 THEN base ELSE Turn(i, f[i - 1])
                    BY <2>1, <3>3, <4>1
                <4> QED BY <4>1, <4>2
            <3>5. Runs(f)
                BY <3>4, Zenon
            <3> QED BY <3>5, Zenon
        <2>5. \A i \in 0..m : done[i] = IF i = 0 THEN base ELSE Turn(i, done[i - 1])
            BY <2>4, Zenon
        <2> HIDE DEF done
        <2>6. done[0] \in V
            BY <2>1, <2>3, <2>5
        <2>7. \A i \in 1..m : done[i - 1] \in V => done[i] \in V
            BY <2>1, <2>2, <2>5
        <2>8. \A i \in 0..m : done[i] \in V
            BY <2>1, <2>6, <2>7, LoopStays
        <2> QED BY <2>1, <2>8 DEF V
    <1>8. PICK x : Relinked(g, x) /\ r = Promoted(x, ord, level)
        <2> HIDE DEF done
        <2>1. CASE g.maxLayer < 0
            BY <1>1, <1>4, <2>1, RelinkedSelf
        <2>2. CASE ~ (g.maxLayer < 0)
            <3>1. g.maxLayer >= 0
                BY <1>6, <2>2
            <3> QED BY <1>1, <1>7, <2>2, <3>1
        <2> QED BY <2>1, <2>2
    <1>9. IsGraph(x) /\ Ords(x) = Ords(g) /\ Alike(g, x) /\ ~x.sealed /\ x.csr = <<>> /\ x.raced = g.raced
        BY <1>4, <1>8, RelinkedAlike DEF Relinked, Ords
    <1>10. /\ IsGraph(r) /\ Rooted(r) /\ SameNodes(x, r) /\ SameHistory(x, r)
           /\ r.sealed = x.sealed /\ r.csr = x.csr
        BY <1>5, <1>8, <1>9, PromotedFacts
    <1>11. SameNodes(g, r)
        BY <1>9, <1>10 DEF SameNodes, Alike
    <1>12. Ords(r) = Ords(g) /\ LastWins(r) /\ IndexFinds(r)
        BY <1>4, <1>11, SameKeeps
    <1>13. r.raced = g0.raced
        BY <1>2, <1>4, <1>9, <1>10 DEF SameHistory
    <1>14. ASSUME NEW n \in Ords(r), Returnable(r, n)
           PROVE  \/ r.nodes[n].id = id /\ r.nodes[n].vec = vec
                  \/ /\ n \in Ords(g0) /\ Returnable(g0, n) /\ r.nodes[n].id # id
                     /\ r.nodes[n].id = g0.nodes[n].id /\ r.nodes[n].vec = g0.nodes[n].vec
        <2>1. /\ n \in Ords(g) /\ r.nodes[n].id = g.nodes[n].id /\ r.nodes[n].vec = g.nodes[n].vec
              /\ r.nodes[n].superseded = g.nodes[n].superseded /\ r.deleted = g.deleted
            BY <1>11, <1>12, <1>14 DEF SameNodes
        <2>2. Returnable(g, n)
            BY <1>14, <2>1 DEF Returnable
        <2>3. CASE n = ord
            BY <1>4, <2>1, <2>3
        <2>4. CASE n # ord
            <3>1. /\ n \in Ords(u) /\ Returnable(u, n) /\ g.nodes[n].id # id
                  /\ g.nodes[n].id = u.nodes[n].id /\ g.nodes[n].vec = u.nodes[n].vec
                BY <1>4, <2>1, <2>2, <2>4
            <3>2. /\ n \in Ords(g0) /\ u.nodes[n].id = g0.nodes[n].id
                  /\ u.nodes[n].vec = g0.nodes[n].vec
                  /\ u.nodes[n].superseded = g0.nodes[n].superseded /\ u.deleted = g0.deleted
                BY <1>2, <1>3, <3>1 DEF Alike, SameNodes
            <3>3. Returnable(g0, n)
                BY <3>1, <3>2 DEF Returnable
            <3> QED BY <2>1, <3>1, <3>2, <3>3
        <2> QED BY <2>3, <2>4
    <1> QED BY <1>9, <1>10, <1>12, <1>13, <1>14 DEF r
-----------------------------------------------------------------------------
(* Staging a build                                                         *)

LEMMA SomeBlocks == \A S \in SUBSET Block : IsFiniteSet(S) /\ Cardinality(S) \in Nat
    <1>1. IsFiniteSet(Block)
        BY FS_Interval, HnswAssumption DEF Block
    <1> QED BY <1>1, FS_Subset, FS_CardinalityType

LEMMA IdleOK ==
    ASSUME NEW n \in Nat
    PROVE  IdleLinker \in Linker(n) /\ LinkerOK(IdleLinker, n)
    <1>1. BeamAt(0) \in Beams(0..n)
        BY DEF BeamAt, Beams
    <1>2. IdleLinker \in Linker(n) /\ IdleLinker.pc = "idle"
        BY <1>1, HnswAssumption DEF IdleLinker, Linker
    <1> QED BY <1>2 DEF LinkerOK

(* A thread that starts on a node and ends at another. *)
LEMMA StartOK ==
    ASSUME NEW n \in Nat, NEW lo \in 1..n, NEW hi \in 1..n, NEW pc \in {"entry", "promote"}
    PROVE  LET l == [IdleLinker EXCEPT !.pc = pc, !.node = lo, !.last = hi]
           IN  LinkerOK(l, n) /\ l.pc = pc
    <1> DEFINE l == [IdleLinker EXCEPT !.pc = pc, !.node = lo, !.last = hi]
    <1>1. IdleLinker \in Linker(n)
        BY IdleOK
    <1>2. lo \in 0..n /\ hi \in 0..n
        OBVIOUS
    <1>3. l \in Linker(n)
        BY <1>1, <1>2 DEF Linker
    <1>4. l.pc = pc /\ l.node = lo /\ l.last = hi
        BY <1>1 DEF Linker
    <1> HIDE DEF l
    <1> QED BY <1>3, <1>4 DEF LinkerOK, l

(* Every thread gets nodes of the build, or none. *)
LEMMA BlockOfFacts ==
    ASSUME NEW n \in Nat, n >= 2, NEW b \in Block
    PROVE  LinkerOK(BlockOf(b, n), n) /\ BlockOf(b, n).pc # "prune"
    <1> DEFINE blocks == block_count(n - 1)
               chunk == (n - 1 + blocks - 1) \div blocks
               lo == 2 + (b - 1) * chunk
               hi == IF b = blocks THEN n ELSE Min({lo + chunk - 1, n})
    <1>1. blocks \in Nat \ {0}
        <2>1. n - 1 \in Int /\ Workers \in Int /\ Workers >= 1 /\ n - 1 >= 1
            BY HnswAssumption
        <2>2. Min({n - 1, Workers}) \in {n - 1, Workers}
            BY <2>1, OfTwo
        <2> QED BY <2>1, <2>2 DEF block_count
    <1> HIDE DEF blocks
    <1>2. chunk \in Nat
        BY <1>1
    <1> HIDE DEF chunk
    <1>3. b - 1 \in Nat
        BY HnswAssumption DEF Block
    <1>4. (b - 1) * chunk \in Nat
        BY <1>2, <1>3
    <1>5. lo \in Nat /\ lo >= 2
        BY <1>4
    <1> HIDE DEF lo
    <1>6. hi \in Int /\ hi <= n
        <2>1. lo + chunk - 1 \in Int /\ n \in Int
            BY <1>2, <1>5
        <2>2. Min({lo + chunk - 1, n}) \in {lo + chunk - 1, n} /\ Min({lo + chunk - 1, n}) <= n
            BY <2>1, OfTwo
        <2> QED BY <2>1, <2>2
    <1> HIDE DEF hi
    <1>7. BlockOf(b, n) = IF b > blocks \/ lo > hi THEN IdleLinker
                          ELSE [IdleLinker EXCEPT !.pc = "entry", !.node = lo, !.last = hi]
        BY Zenon DEF BlockOf, blocks, chunk, lo, hi
    <1>8. CASE b > blocks \/ lo > hi
        <2>1. IdleLinker.pc = "idle"
            BY DEF IdleLinker
        <2> QED BY <1>7, <1>8, <2>1, IdleOK
    <1>9. CASE ~ (b > blocks \/ lo > hi)
        <2>1. lo \in 1..n /\ hi \in 1..n
            BY <1>5, <1>6, <1>9
        <2>2. BlockOf(b, n) = [IdleLinker EXCEPT !.pc = "entry", !.node = lo, !.last = hi]
            BY <1>7, <1>9
        <2> DEFINE l == [IdleLinker EXCEPT !.pc = "entry", !.node = lo, !.last = hi]
        <2>3. LinkerOK(l, n) /\ l.pc = "entry"
            BY <2>1, StartOK, Zenon
        <2> HIDE DEF l
        <2>4. LinkerOK(BlockOf(b, n), n) /\ BlockOf(b, n).pc = "entry"
            BY <2>2, <2>3, Zenon DEF l
        <2> QED BY <2>4
    <1> QED BY <1>8, <1>9

LEMMA EmptyFacts ==
    /\ EmptyGraph \in Graphs(0) /\ IsGraph(EmptyGraph) /\ IsDraft(EmptyGraph)
    /\ EmptyGraph.nodes = <<>> /\ Ords(EmptyGraph) = {} /\ ~EmptyGraph.raced
    <1>1. /\ EmptyGraph.nodes = <<>> /\ EmptyGraph.maxLayer = -1 /\ EmptyGraph.csr = <<>>
          /\ ~EmptyGraph.sealed /\ EmptyGraph.deleted = {} /\ EmptyGraph.idIndex = NoIndex
          /\ ~EmptyGraph.raced
        BY DEF EmptyGraph
    <1>2. Ords(EmptyGraph) = {} /\ Len(EmptyGraph.nodes) = 0
        BY <1>1 DEF Ords
    <1>3. <<>> \in Blocks(0)
        BY HnswAssumption DEF Blocks
    <1>4. EmptyGraph \in Graphs(0)
        BY <1>3, HnswAssumption DEF EmptyGraph, Graphs
    <1>5. IsGraph(EmptyGraph) /\ Rooted(EmptyGraph)
        BY <1>1, <1>2, <1>4 DEF IsGraph, Rooted
    <1> QED BY <1>1, <1>2, <1>4, <1>5 DEF IsDraft

(* Rows of different ids. *)
IsRows(rows) ==
    /\ Len(rows) \in Nat
    /\ \A i \in 1..Len(rows) : rows[i].id \in Id /\ rows[i].vec \in Int
    /\ \A i, j \in 1..Len(rows) : rows[i].id = rows[j].id => i = j

(* A build starts from the rows and no links. *)
LEMMA StagedFacts ==
    ASSUME NEW rows, IsRows(rows), NEW level \in [1..Len(rows) -> Layer]
    PROVE  LET h == Staged(rows, level)
           IN  /\ IsDraft(h) /\ Len(h.nodes) = Len(rows)
               /\ \A i \in Ords(h) :
                    /\ h.nodes[i].id = rows[i].id /\ h.nodes[i].vec = rows[i].vec
                    /\ ~h.nodes[i].superseded
                    /\ \A layer \in Layer : Links(h, i, layer) = <<>>
    <1> DEFINE n == Len(rows)
               h == Staged(rows, level)
               nd(i) == NewNode(rows[i].id, rows[i].vec, level[i])
               nodes2 == [i \in 1..n |-> nd(i)]
    <1>1. n \in Nat
        BY DEF IsRows
    <1>2. CASE n = 0
        <2>1. h = EmptyGraph
            BY <1>2, Zenon DEF Staged
        <2> QED BY <1>2, <2>1, EmptyFacts
    <1>3. CASE n # 0
        <2>1. h = [EmptyGraph EXCEPT !.nodes = nodes2, !.entry = 1, !.maxLayer = level[1],
                                     !.blocks = block_count(n - 1)]
            BY <1>3, Zenon DEF Staged
        <2>2. \A i \in 1..n : /\ nd(i) \in Node(n) /\ nd(i).id = rows[i].id /\ nd(i).vec = rows[i].vec
                              /\ nd(i).superseded = FALSE /\ nd(i).links \in Seq({<<>>})
                              /\ nd(i).links # <<>>
            <3> TAKE i \in 1..n
            <3> DEFINE top == level[i]
            <3>1. top \in Nat /\ top + 1 <= MaxLevel + 1
                <4>1. top \in Layer
                    OBVIOUS
                <4> QED BY <4>1, HnswAssumption DEF Layer
            <3> DEFINE ls == [l \in 1..(top + 1) |-> <<>>]
            <3> HIDE DEF top
            <3>2. ls \in Seq(Seq(1..n)) /\ Len(ls) = top + 1 /\ ls \in Seq({<<>>}) /\ ls # <<>>
                BY <3>1
            <3>3. ls \in LinkLists(n)
                BY <3>1, <3>2 DEF LinkLists
            <3>4. nd(i) = [id |-> rows[i].id, vec |-> rows[i].vec, superseded |-> FALSE, links |-> ls]
                BY Zenon DEF NewNode, top
            <3>5. rows[i].id \in Id /\ rows[i].vec \in Int
                BY DEF IsRows
            <3> HIDE DEF ls, nd
            <3> QED BY <3>2, <3>3, <3>4, <3>5 DEF Node
        <2> HIDE DEF nd, h
        <2>3. nodes2 \in Seq(Node(n)) /\ Len(nodes2) = n /\ \A i \in 1..n : nodes2[i] = nd(i)
            BY <1>1, <2>2
        <2> HIDE DEF nodes2
        <2>4. block_count(n - 1) \in Nat
            <3>1. n - 1 \in Int /\ n - 1 >= 0 /\ Workers \in Int /\ Workers >= 0
                BY <1>1, <1>3, HnswAssumption
            <3>2. Min({n - 1, Workers}) \in {n - 1, Workers}
                BY <3>1, OfTwo
            <3> QED BY <3>1, <3>2 DEF block_count
        <2>5. level[1] \in Layer /\ 1 \in 1..n
            BY <1>1, <1>3
        <2>6. /\ h \in Graphs(n) /\ h.nodes = nodes2 /\ h.entry = 1 /\ h.maxLayer = level[1]
              /\ ~h.sealed /\ h.csr = <<>> /\ h.deleted = {} /\ h.idIndex = NoIndex
            <3>1. <<>> \in Blocks(n) /\ level[1] \in -1..MaxLevel
                BY <2>5, HnswAssumption DEF Blocks, Layer
            <3>2. h = [nodes |-> nodes2, entry |-> 1, maxLayer |-> level[1], sealed |-> FALSE, csr |-> <<>>,
                       deleted |-> {}, idIndex |-> NoIndex, blocks |-> block_count(n - 1),
                       undefined |-> FALSE, raced |-> FALSE]
                BY <2>1 DEF EmptyGraph
            <3>3. 1 \in 0..n
                BY <2>5
            <3> QED BY <2>3, <2>4, <3>1, <3>2, <3>3 DEF Graphs
        <2>7. Ords(h) = 1..n /\ Len(h.nodes) = n
            BY <2>3, <2>6 DEF Ords
        <2>8. IsGraph(h) /\ Rooted(h)
            BY <2>5, <2>6, <2>7, HnswAssumption DEF IsGraph, Rooted, Layer
        <2>9. \A i \in Ords(h) :
                 /\ h.nodes[i].id = rows[i].id /\ h.nodes[i].vec = rows[i].vec
                 /\ ~h.nodes[i].superseded /\ h.nodes[i].links \in Seq({<<>>}) /\ h.nodes[i].links # <<>>
            BY <2>2, <2>3, <2>6, <2>7
        <2>10. IsDraft(h)
            BY <2>6, <2>7, <2>8, <2>9 DEF IsDraft, IsRows
        <2>11. ASSUME NEW i \in Ords(h), NEW layer \in Layer PROVE Links(h, i, layer) = <<>>
            <3>1. layer \in Nat
                BY HnswAssumption DEF Layer
            <3>2. CASE HasLayer(h, i, layer)
                <4>1. layer + 1 \in 1..Len(h.nodes[i].links)
                    BY <2>9, <3>1, <3>2 DEF HasLayer
                <4>2. h.nodes[i].links[layer + 1] = <<>>
                    BY <2>9, <4>1
                <4> QED BY <3>2, <4>2 DEF Links
            <3>3. CASE ~HasLayer(h, i, layer)
                BY <3>3 DEF Links
            <3> QED BY <3>2, <3>3
        <2> QED BY <2>7, <2>9, <2>10, <2>11 DEF h
    <1> QED BY <1>1, <1>2, <1>3

(* A build begins with no list to prune. *)
LEMMA StartFacts ==
    ASSUME NEW rows, IsRows(rows), StartBuild(rows)
    PROVE  /\ IsDraft(draft') /\ LinkersOK(draft', linker') /\ Bounded(draft', linker')
           /\ Len(draft'.nodes) = Len(rows)
           /\ \A i \in Ords(draft') :
                /\ draft'.nodes[i].id = rows[i].id /\ draft'.nodes[i].vec = rows[i].vec
                /\ ~draft'.nodes[i].superseded
    <1> DEFINE n == Len(rows)
    <1>1. n \in Nat
        BY DEF IsRows
    <1>2. PICK level \in [1..n -> Layer] :
             /\ draft' = Staged(rows, level)
             /\ linker' = [b \in Block |-> IF n < 2 THEN IdleLinker ELSE BlockOf(b, n)]
        BY DEF StartBuild
    <1>3. /\ IsDraft(draft') /\ Len(draft'.nodes) = n
          /\ \A i \in Ords(draft') :
                /\ draft'.nodes[i].id = rows[i].id /\ draft'.nodes[i].vec = rows[i].vec
                /\ ~draft'.nodes[i].superseded
                /\ \A layer \in Layer : Links(draft', i, layer) = <<>>
        BY <1>2, StagedFacts
    <1>4. \A b \in Block : LinkerOK(linker'[b], n) /\ linker'[b].pc # "prune"
        <2> TAKE b \in Block
        <2>1. linker'[b] = IF n < 2 THEN IdleLinker ELSE BlockOf(b, n)
            BY <1>2
        <2>2. CASE n < 2
            <3>1. IdleLinker.pc = "idle"
                BY DEF IdleLinker
            <3> QED BY <1>1, <2>1, <2>2, <3>1, IdleOK
        <2>3. CASE ~ (n < 2)
            BY <1>1, <2>1, <2>3, BlockOfFacts
        <2> QED BY <2>2, <2>3
    <1>5. linker' \in [Block -> Linker(n)]
        <2>1. \A b \in Block : linker'[b] \in Linker(n)
            BY <1>4 DEF LinkerOK
        <2>2. linker' = [b \in Block |-> linker'[b]]
            BY <1>2
        <2> QED BY <2>1, <2>2
    <1>6. LinkersOK(draft', linker')
        BY <1>3, <1>4, <1>5 DEF LinkersOK
    <1>7. Bounded(draft', linker')
        <2> SUFFICES ASSUME NEW i \in Ords(draft'), NEW layer \in Layer
                     PROVE  /\ Len(Links(draft', i, layer)) <= maxM(layer) + Cardinality(Owing(linker', i, layer))
                            /\ IsInjective(Links(draft', i, layer))
            BY Zenon DEF Bounded
        <2>1. Links(draft', i, layer) = <<>>
            BY <1>3
        <2>2. Cardinality(Owing(linker', i, layer)) \in Nat /\ maxM(layer) \in Nat
            BY SomeBlocks, LimitFacts DEF Owing
        <2>3. IsInjective(<<>>)
            BY DEF IsInjective
        <2> QED BY <2>1, <2>2, <2>3
    <1> QED BY <1>3, <1>6, <1>7

(* compact() starts from what can be returned. *)
LEMMA SurvivorsFacts ==
    ASSUME NEW g, IsGraph(g), LastWins(g)
    PROVE  /\ IsRows(Survivors(g))
           /\ \A i \in 1..Len(Survivors(g)) :
                \E n \in Ords(g) : Returnable(g, n) /\ Survivors(g)[i] = g.nodes[n]
    <1> DEFINE m == Len(g.nodes)
               V == Seq(Node(m))
               Turn(n, s) == IF g.nodes[n].id \in g.deleted \/ g.nodes[n].superseded THEN s
                             ELSE Append(s, g.nodes[n])
               Runs(f) == f = [n \in 0..m |-> IF n = 0 THEN <<>> ELSE Turn(n, f[n - 1])]
               kept == CHOOSE f : Runs(f)
    <1>1. Survivors(g) = kept[m]
        BY Zenon DEF Survivors
    <1>2. m \in Nat /\ Ords(g) = 1..m /\ \A n \in 1..m : g.nodes[n] \in Node(m) /\ g.nodes[n].id \in Id
                                                          /\ g.nodes[n].vec \in Int
        BY GraphFacts
    <1> HIDE DEF m
    <1>3. \A n \in 1..m, s \in V : Turn(n, s) \in V
        BY <1>2
    <1>4. <<>> \in V
        OBVIOUS
    <1>5. \A n \in 1..m : \A s : Turn(n, s) = IF Returnable(g, n) THEN Append(s, g.nodes[n]) ELSE s
        BY DEF Returnable
    <1> HIDE DEF Turn
    <1>6. Runs(kept)
        <2> HIDE DEF V
        <2> DEFINE step == [n \in 1..m |-> [s \in V |-> Turn(n, s)]]
        <2>1. step \in [1..m -> [V -> V]]
            BY <1>3
        <2>2. PICK f : IsRun(f, V, <<>>, m, step)
            <3> HIDE DEF step
            <3> QED BY <1>2, <1>4, <2>1, LoopRuns
        <2>3. \A n \in 1..m : f[n] = Turn(n, f[n - 1])
            <3> TAKE n \in 1..m
            <3>1. f[n - 1] \in V
                BY <1>2, <2>2 DEF IsRun
            <3> QED BY <2>2, <3>1 DEF IsRun
        <2>4. f = [n \in 0..m |-> IF n = 0 THEN <<>> ELSE Turn(n, f[n - 1])]
            <3> HIDE DEF step
            <3>1. f \in [0..m -> V] /\ f[0] = <<>>
                BY <2>2 DEF IsRun
            <3>2. \A n \in 0..m : f[n] = IF n = 0 THEN <<>> ELSE Turn(n, f[n - 1])
                BY <1>2, <2>3, <3>1
            <3> QED BY <3>1, <3>2
        <2>5. Runs(f)
            BY <2>4, Zenon
        <2> QED BY <2>5, Zenon
    <1>7. \A n \in 0..m : kept[n] = IF n = 0 THEN <<>> ELSE Turn(n, kept[n - 1])
        BY <1>6, Zenon
    <1> HIDE DEF kept
    <1> DEFINE From(s, i) == \A j \in 1..Len(s) : \E n \in 1..i : Returnable(g, n) /\ s[j] = g.nodes[n]
               Good(i) == kept[i] \in V /\ From(kept[i], i) /\ IsRows(kept[i])
               G == {i \in Nat : i <= m => Good(i)}
    <1>8. 0 \in G
        <2>1. kept[0] = <<>>
            BY <1>2, <1>7
        <2>2. <<>> \in V /\ From(<<>>, 0) /\ IsRows(<<>>)
            BY <1>4 DEF IsRows
        <2>3. Good(0)
            BY <2>1, <2>2, Zenon
        <2> QED BY <2>3
    <1>9. ASSUME NEW i \in Nat, i \in G PROVE i + 1 \in G
        <2> SUFFICES ASSUME i + 1 <= m PROVE Good(i + 1)
            OBVIOUS
        <2> DEFINE n == i + 1
                   s == kept[i]
                   nd == g.nodes[n]
        <2>1. n \in 1..m /\ Good(i) /\ kept[n] = Turn(n, s)
            <3>1. n \in 1..m /\ n \in 0..m /\ n # 0 /\ n - 1 = i /\ i <= m
                BY <1>2
            <3>2. kept[n] = Turn(n, kept[n - 1])
                BY <1>7, <3>1, Zenon
            <3> QED BY <1>9, <3>1, <3>2
        <2>2. CASE ~Returnable(g, n)
            <3>1. kept[n] = s
                BY <1>5, <2>1, <2>2
            <3>2. From(s, n)
                BY <2>1
            <3> QED BY <2>1, <3>1, <3>2
        <2>3. CASE Returnable(g, n)
            <3>1. kept[n] = Append(s, nd)
                BY <1>5, <2>1, <2>3
            <3> DEFINE c == Len(s)
                       t == Append(s, nd)
            <3>2. nd \in Node(m) /\ nd.id \in Id /\ nd.vec \in Int
                BY <1>2, <2>1
            <3>3. s \in V /\ c \in Nat
                BY <2>1
            <3>4. t \in V /\ Len(t) = c + 1 /\ t[c + 1] = nd /\ \A j \in 1..c : t[j] = s[j]
                BY <3>2, <3>3
            <3> HIDE DEF t, c
            <3>5. \A j \in 1..(c + 1) : j = c + 1 \/ j \in 1..c
                BY <3>3
            <3>6. From(t, n)
                <4> SUFFICES ASSUME NEW j \in 1..(c + 1)
                             PROVE  \E o \in 1..n : Returnable(g, o) /\ t[j] = g.nodes[o]
                    BY <3>4
                <4>1. CASE j = c + 1
                    BY <2>1, <2>3, <3>4, <4>1
                <4>2. CASE j \in 1..c
                    BY <2>1, <3>4, <4>2 DEF c
                <4> QED BY <3>5, <4>1, <4>2
            <3>7. \A j \in 1..c : s[j].id # nd.id
                <4> SUFFICES ASSUME NEW j \in 1..c, s[j].id = nd.id PROVE FALSE
                    OBVIOUS
                <4>1. PICK o \in 1..i : Returnable(g, o) /\ s[j] = g.nodes[o]
                    BY <2>1 DEF c
                <4>2. o < n /\ o \in Ords(g) /\ n \in Ords(g) /\ g.nodes[o].id = g.nodes[n].id
                    BY <1>2, <2>1, <4>1
                <4>3. g.nodes[o].superseded
                    BY <4>2 DEF LastWins
                <4> QED BY <4>1, <4>3 DEF Returnable
            <3>8. \A j \in 1..(c + 1) : t[j].id \in Id /\ t[j].vec \in Int
                BY <2>1, <3>2, <3>4, <3>5 DEF IsRows, c
            <3>9. \A j, o \in 1..(c + 1) : t[j].id = t[o].id => j = o
                <4> SUFFICES ASSUME NEW j \in 1..(c + 1), NEW o \in 1..(c + 1), t[j].id = t[o].id PROVE j = o
                    OBVIOUS
                <4>1. CASE j \in 1..c /\ o \in 1..c
                    BY <2>1, <3>4, <4>1 DEF IsRows, c
                <4>2. CASE j = c + 1 \/ o = c + 1
                    BY <3>4, <3>5, <3>7, <4>2
                <4> QED BY <3>5, <4>1, <4>2
            <3>10. IsRows(t)
                BY <3>3, <3>4, <3>8, <3>9 DEF IsRows
            <3> QED BY <3>1, <3>4, <3>6, <3>10 DEF t
        <2> QED BY <2>2, <2>3
    <1>10. m \in G
        <2> HIDE DEF G
        <2>1. Nat \subseteq G
            BY <1>8, <1>9, ReachesAll, Zenon
        <2> QED BY <1>2, <2>1
    <1> QED BY <1>1, <1>2, <1>10
-----------------------------------------------------------------------------
(* Linking                                                                 *)

(* A graph stays a draft when its lists change. *)
LEMMA DraftKeeps ==
    ASSUME NEW g, IsDraft(g), NEW h, Relinked(g, h)
    PROVE  IsDraft(h) /\ Ords(h) = Ords(g) /\ Len(h.nodes) = Len(g.nodes) /\ SameNodes(g, h)
    <1>1. /\ IsGraph(g) /\ Rooted(g) /\ ~g.sealed /\ g.csr = <<>> /\ g.deleted = {} /\ g.idIndex = NoIndex
          /\ \A n \in Ords(g) : ~g.nodes[n].superseded /\ g.nodes[n].links # <<>>
          /\ \A n, o \in Ords(g) : g.nodes[n].id = g.nodes[o].id => n = o
        BY DEF IsDraft
    <1>2. /\ IsGraph(h) /\ Ords(h) = Ords(g) /\ ~h.sealed /\ h.csr = <<>> /\ h.deleted = {}
          /\ h.idIndex = NoIndex
          /\ \A n \in Ords(g) : /\ h.nodes[n].id = g.nodes[n].id
                                /\ h.nodes[n].superseded = g.nodes[n].superseded
                                /\ Len(h.nodes[n].links) = Len(g.nodes[n].links)
        BY <1>1 DEF Relinked, Ords
    <1>3. Rooted(h) /\ SameNodes(g, h)
        BY <1>1, <1>2, RelinkedAlike, AlikeKeeps DEF Alike
    <1>4. \A n \in Ords(g) : h.nodes[n].links # <<>>
        <2> TAKE n \in Ords(g)
        <2>1. g.nodes[n].links \in Seq(Seq(Ords(g))) /\ g.nodes[n].links # <<>>
            BY <1>1, GraphFacts
        <2>2. Len(g.nodes[n].links) # 0
            BY <2>1
        <2>3. Len(h.nodes[n].links) # 0
            BY <1>2, <2>2
        <2> QED BY <2>3
    <1>5. IsDraft(h)
        BY <1>1, <1>2, <1>3, <1>4 DEF IsDraft
    <1> QED BY <1>2, <1>3, <1>5 DEF Relinked

(* Lists stay bounded when each that changes respects its limit, or grows by
   one and is owed a prune. *)
LEMMA BoundedStep ==
    ASSUME NEW g, IsGraph(g), NEW lk, Bounded(g, lk), NEW h, Ords(h) = Ords(g), NEW lk2, NEW b \in Block,
           \A n \in Ords(g), layer \in Layer :
                \/ Limited(Links(h, n, layer), layer) /\ Len(Links(h, n, layer)) \in Nat
                \/ /\ Links(h, n, layer) = Links(g, n, layer)
                   /\ Owing(lk, n, layer) \subseteq Owing(lk2, n, layer)
                \/ /\ Len(Links(h, n, layer)) \in Nat
                   /\ Len(Links(h, n, layer)) <= Len(Links(g, n, layer)) + 1
                   /\ IsInjective(Links(h, n, layer))
                   /\ b \notin Owing(lk, n, layer)
                   /\ Owing(lk, n, layer) \cup {b} \subseteq Owing(lk2, n, layer)
    PROVE  Bounded(h, lk2)
    <1> SUFFICES ASSUME NEW n \in Ords(g), NEW layer \in Layer
                 PROVE  /\ Len(Links(h, n, layer)) <= maxM(layer) + Cardinality(Owing(lk2, n, layer))
                        /\ IsInjective(Links(h, n, layer))
        BY Zenon DEF Bounded
    <1> DEFINE A == Owing(lk, n, layer)
               B == Owing(lk2, n, layer)
               x == Len(Links(g, n, layer))
               y == Len(Links(h, n, layer))
    <1>1. /\ A \in SUBSET Block /\ B \in SUBSET Block /\ maxM(layer) \in Nat
          /\ IsFiniteSet(A) /\ Cardinality(A) \in Nat /\ IsFiniteSet(B) /\ Cardinality(B) \in Nat
        BY SomeBlocks, LimitFacts DEF Owing
    <1>2. x \in Nat
        <2>1. layer \in Nat
            BY HnswAssumption DEF Layer
        <2>2. Links(g, n, layer) \in Seq(Ords(g))
            BY <2>1, LinksFacts
        <2> QED BY <2>2
    <1>3. x <= maxM(layer) + Cardinality(A) /\ IsInjective(Links(g, n, layer))
        BY DEF Bounded
    <1>4. CASE Limited(Links(h, n, layer), layer) /\ y \in Nat
        BY <1>1, <1>4 DEF Limited
    <1>5. CASE Links(h, n, layer) = Links(g, n, layer) /\ A \subseteq B
        <2> HIDE DEF A, B
        <2>1. Cardinality(A) <= Cardinality(B)
            BY <1>1, <1>5, FS_Subset
        <2> QED BY <1>1, <1>2, <1>3, <1>5, <2>1 DEF A, B
    <1>6. CASE y \in Nat /\ y <= x + 1 /\ IsInjective(Links(h, n, layer)) /\ b \notin A /\ A \cup {b} \subseteq B
        <2> HIDE DEF A, B
        <2>1. IsFiniteSet(A \cup {b}) /\ Cardinality(A \cup {b}) = Cardinality(A) + 1
            BY <1>1, <1>6, FS_AddElement
        <2>2. Cardinality(A) + 1 <= Cardinality(B)
            BY <1>1, <1>6, <2>1, FS_Subset
        <2> HIDE DEF x, y
        <2> QED BY <1>1, <1>2, <1>3, <1>6, <2>2 DEF A, B, x, y
    <1> QED BY <1>4, <1>5, <1>6

(* A thread that goes on to its next node, if it has one. *)
LEMMA NextNodeOK ==
    ASSUME NEW n \in Nat, NEW l, l.node \in 1..n, l.last \in 1..n
    PROVE  LinkerOK(NextNode(l), n) /\ NextNode(l).pc # "prune"
    <1>1. CASE l.node < l.last
        <2> DEFINE lo == l.node + 1
                   hi == l.last
                   s == [IdleLinker EXCEPT !.pc = "entry", !.node = lo, !.last = hi]
        <2>1. lo \in 1..n /\ hi \in 1..n
            BY <1>1
        <2>2. NextNode(l) = s
            BY <1>1, Zenon DEF NextNode
        <2> HIDE DEF lo, hi
        <2>3. LinkerOK(s, n) /\ s.pc = "entry"
            BY <2>1, StartOK, Zenon
        <2> HIDE DEF s
        <2> QED BY <2>2, <2>3
    <1>2. CASE ~ (l.node < l.last)
        <2>1. NextNode(l) = IdleLinker /\ IdleLinker.pc = "idle"
            BY <1>2 DEF NextNode, IdleLinker
        <2> QED BY <2>1, IdleOK
    <1> QED BY <1>1, <1>2

(* A walk starts at one node. *)
LEMMA BeamOK ==
    ASSUME NEW n \in Nat, NEW l \in Linker(n), l.node \in 1..n, l.last \in 1..n,
           NEW layer \in 0..MaxLevel, NEW m \in 1..n, NEW top \in -1..MaxLevel,
           NEW todo \in Seq(1..n), NEW pruned \in Seq(1..n)
    PROVE  LET w == [Beam(l, layer, m) EXCEPT !.top = top, !.todo = todo, !.pruned = pruned]
           IN  LinkerOK(w, n) /\ w.pc = "walk"
    <1> DEFINE w == [Beam(l, layer, m) EXCEPT !.top = top, !.todo = todo, !.pruned = pruned]
    <1>1. BeamAt(m) \in Beams(1..n) /\ BeamAt(m) \in Beams(0..n) /\ BeamAt(m).cand # {}
        BY DEF BeamAt, Beams
    <1>2. w = [l EXCEPT !.pc = "walk", !.layer = layer, !.beam = BeamAt(m), !.top = top,
                        !.todo = todo, !.pruned = pruned]
        BY DEF Beam, Linker
    <1> HIDE DEF w
    <1>3. w \in Linker(n)
        BY <1>1, <1>2 DEF Linker
    <1>4. w.pc = "walk" /\ w.node = l.node /\ w.last = l.last /\ w.beam = BeamAt(m)
        BY <1>2 DEF Linker
    <1> QED BY <1>1, <1>3, <1>4 DEF LinkerOK, w

(* What is left of a list of several. *)
LEMMA TailFacts ==
    ASSUME NEW S, NEW s \in Seq(S), Len(s) > 1
    PROVE  Tail(s) \in Seq(S) /\ Tail(s) # <<>>
    <1>1. PICK t : t = Tail(s) /\ t \in Seq(S) /\ Len(t) = Len(s) - 1
        <2>1. Tail(s) \in Seq(S) /\ Len(Tail(s)) = Len(s) - 1
            OBVIOUS
        <2> QED BY <2>1
    <1>2. Len(s) \in Nat
        OBVIOUS
    <1>3. Len(t) # 0
        BY <1>1, <1>2
    <1>4. t # <<>>
        BY <1>1, <1>3
    <1> QED BY <1>1, <1>4

(* A thread that is done with a neighbour owes no prune. *)
LEMMA AfterNeighbourOK ==
    ASSUME NEW n \in Nat, NEW l, LinkerOK(l, n), l.pc \in {"back", "prune"}
    PROVE  LinkerOK(AfterNeighbour(l), n) /\ AfterNeighbour(l).pc # "prune"
    <1> DEFINE r == AfterNeighbour(l)
               rest == Tail(l.todo)
               k == l.layer - 1
               c == l.cur
               lo == l.node
               hi == l.last
               more == Len(l.todo) > 1
               down == Len(l.todo) = 1 /\ l.layer > 0
               s1 == [l EXCEPT !.pc = "back", !.todo = rest, !.pruned = <<>>]
               s2 == [Beam(l, k, c) EXCEPT !.todo = <<>>, !.pruned = <<>>]
               s3 == [IdleLinker EXCEPT !.pc = "promote", !.node = lo, !.last = hi]
    <1>1. /\ l \in Linker(n) /\ lo \in 1..n /\ hi \in 1..n /\ c \in 1..n
          /\ l.todo # <<>> /\ l.todo \in Seq(1..n) /\ l.layer \in 0..MaxLevel
        BY DEF LinkerOK, Linker
    <1>2. \/ more /\ r = s1
          \/ down /\ r = s2
          \/ r = s3
          \/ r = NextNode(l)
        <2> DEFINE up == Level(l.node) > l.top
        <2>1. r = CASE more -> s1 [] down -> s2 [] OTHER -> IF up THEN s3 ELSE NextNode(l)
            BY DEF AfterNeighbour
        <2> HIDE DEF r, s1, s2, s3, more, down, up
        <2> QED BY <2>1
    <1>3. ASSUME more PROVE LinkerOK(s1, n) /\ s1.pc # "prune"
        <2>1. rest \in Seq(1..n) /\ rest # <<>> /\ <<>> \in Seq(1..n)
            <3>1. l.todo \in Seq(1..n) /\ Len(l.todo) > 1
                BY <1>1, <1>3
            <3>2. Tail(l.todo) \in Seq(1..n) /\ Tail(l.todo) # <<>>
                BY <3>1, TailFacts, Zenon
            <3> QED BY <3>2
        <2> HIDE DEF rest
        <2>2. s1 \in Linker(n)
            BY <1>1, <2>1 DEF Linker
        <2>3. s1.pc = "back" /\ s1.node = lo /\ s1.last = hi /\ s1.cur = c /\ s1.todo = rest
            BY <1>1 DEF Linker
        <2> HIDE DEF s1
        <2> QED BY <1>1, <2>1, <2>2, <2>3 DEF LinkerOK
    <1>4. ASSUME down PROVE LinkerOK(s2, n) /\ s2.pc # "prune"
        <2>1. k \in 0..MaxLevel
            BY <1>1, <1>4, HnswAssumption
        <2> HIDE DEF k, c
        <2> DEFINE top == l.top
                   none == <<>>
                   w == [Beam(l, k, c) EXCEPT !.top = top, !.todo = none, !.pruned = none]
        <2>2. top \in -1..MaxLevel /\ none \in Seq(1..n)
            BY <1>1 DEF Linker
        <2>3. s2 = w
            BY <1>1 DEF Beam, Linker
        <2>4. l \in Linker(n) /\ l.node \in 1..n /\ l.last \in 1..n /\ c \in 1..n
            BY <1>1
        <2> HIDE DEF top, none, lo, hi, r, rest, k, c, more, down, s1, s2, s3
        <2>5. \A layer \in 0..MaxLevel, m \in 1..n :
                 LinkerOK([Beam(l, layer, m) EXCEPT !.top = top, !.todo = none, !.pruned = none], n)
            BY <2>2, <2>4, BeamOK
        <2>6. LinkerOK(w, n)
            BY <2>1, <2>4, <2>5, Zenon
        <2>7. w.pc = "walk"
            BY <2>4 DEF Beam, Linker
        <2> HIDE DEF w
        <2> QED BY <2>3, <2>6, <2>7 DEF s2
    <1>5. LinkerOK(s3, n) /\ s3.pc # "prune"
        <2>1. lo \in 1..n /\ hi \in 1..n /\ "promote" \in {"entry", "promote"}
            BY <1>1
        <2> HIDE DEF lo, hi, r, rest, k, c, more, down, s1, s2
        <2>2. \A pc \in {"entry", "promote"} :
                 LinkerOK([IdleLinker EXCEPT !.pc = pc, !.node = lo, !.last = hi], n)
            BY <2>1, StartOK
        <2>3. LinkerOK(s3, n)
            BY <2>1, <2>2, Zenon
        <2>4. s3.pc = "promote"
            BY DEF IdleLinker
        <2> HIDE DEF s3
        <2> QED BY <2>3, <2>4
    <1>6. LinkerOK(NextNode(l), n) /\ NextNode(l).pc # "prune"
        BY <1>1, NextNodeOK
    <1> HIDE DEF r, s1, s2, s3, more, down
    <1> QED BY <1>2, <1>3, <1>4, <1>5, <1>6 DEF r

(* A step that changes no list and owes nothing before. *)
LEMMA QuietBounded ==
    ASSUME NEW g, IsGraph(g), NEW lk, DOMAIN lk = Block, Bounded(g, lk), NEW b \in Block, NEW l2,
           lk[b].pc # "prune", NEW h, h.nodes = g.nodes
    PROVE  Bounded(h, [lk EXCEPT ![b] = l2])
    <1> DEFINE lk2 == [lk EXCEPT ![b] = l2]
    <1>1. Ords(h) = Ords(g)
        BY DEF Ords
    <1>2. \A n, layer : Links(h, n, layer) = Links(g, n, layer)
        BY Zenon DEF Links, HasLayer
    <1>3. \A n, layer : Owing(lk, n, layer) \subseteq Owing(lk2, n, layer)
        BY DEF Owing
    <1> HIDE DEF lk2
    <1>4. Bounded(h, lk2)
        BY <1>1, <1>2, <1>3, BoundedStep
    <1> QED BY <1>4 DEF lk2

(* What a step of one thread has to establish. *)
LEMMA LinkedStep ==
    ASSUME DraftInv, draft # NoIndex, NEW b \in Block, NEW l2, LinkerOK(l2, Len(draft.nodes)),
           linker' = [linker EXCEPT ![b] = l2], IsDraft(draft'), SameNodes(draft, draft'),
           Bounded(draft', linker'), native' = native, live' = live
    PROVE  DraftInv'
    <1> DEFINE k == Len(draft.nodes)
    <1>1. /\ linker \in [Block -> Linker(k)] /\ \A c \in Block : LinkerOK(linker[c], k)
          /\ IF native THEN Sequential(draft) ELSE Current(draft)
        BY DEF DraftInv, LinkersOK
    <1>2. Len(draft'.nodes) = k
        BY DEF SameNodes
    <1> HIDE DEF k
    <1>3. l2 \in Linker(k) /\ LinkerOK(l2, k)
        BY DEF LinkerOK, k
    <1>4. linker' \in [Block -> Linker(k)] /\ \A c \in Block : LinkerOK(linker'[c], k)
        <2>1. linker' \in [Block -> Linker(k)]
            BY <1>1, <1>3
        <2>2. \A c \in Block : linker'[c] = IF c = b THEN l2 ELSE linker[c]
            BY <1>1
        <2> QED BY <1>1, <1>3, <2>1, <2>2
    <1>5. LinkersOK(draft', linker')
        BY <1>2, <1>4 DEF LinkersOK
    <1>6. IF native THEN Sequential(draft') ELSE Current(draft')
        BY <1>1, SameKeeps
    <1>7. IF native' THEN Sequential(draft)' ELSE Current(draft)'
        BY <1>6 DEF Sequential, Current, Returnable, IsRow, Ords
    <1> QED BY <1>5, <1>7 DEF DraftInv

(* What a step of one thread can rely on. *)
LEMMA LinkerFacts ==
    ASSUME DraftInv, draft # NoIndex, NEW b \in Block
    PROVE  LET n == Len(draft.nodes)
               l == linker[b]
           IN  /\ n \in Nat /\ Ords(draft) = 1..n /\ IsDraft(draft) /\ IsGraph(draft) /\ Rooted(draft)
               /\ Bounded(draft, linker) /\ DOMAIN linker = Block
               /\ l \in Linker(n) /\ LinkerOK(l, n) /\ l.layer \in Nat /\ l.layer \in Layer
               /\ l.todo \in Seq(1..n) /\ l.pruned \in Seq(1..n)
               /\ l.pc # "idle" => /\ l.node \in Ords(draft) /\ l.last \in 1..n
                                   /\ draft.nodes[l.node].vec \in Int
                                   /\ Level(l.node) \in Nat /\ Level(l.node) \in Layer
               /\ l.pc \in {"back", "prune"} => Head(l.todo) \in Ords(draft)
    <1> DEFINE n == Len(draft.nodes)
               l == linker[b]
    <1>1. IsDraft(draft) /\ LinkersOK(draft, linker) /\ Bounded(draft, linker)
        BY DEF DraftInv
    <1>2. IsGraph(draft) /\ Rooted(draft) /\ \A o \in Ords(draft) : draft.nodes[o].links # <<>>
        BY <1>1 DEF IsDraft
    <1>3. n \in Nat /\ Ords(draft) = 1..n
        BY <1>2, GraphFacts
    <1>4. linker \in [Block -> Linker(n)] /\ LinkerOK(l, n)
        BY <1>1 DEF LinkersOK
    <1>5. l \in Linker(n)
        BY <1>4
    <1>6. l.layer \in 0..MaxLevel /\ l.todo \in Seq(1..n) /\ l.pruned \in Seq(1..n)
        BY <1>5 DEF Linker
    <1>7. ASSUME l.pc # "idle"
          PROVE  /\ l.node \in Ords(draft) /\ l.last \in 1..n /\ draft.nodes[l.node].vec \in Int
                 /\ Level(l.node) \in Nat /\ Level(l.node) \in Layer
        <2>1. l.node \in Ords(draft) /\ l.last \in 1..n
            BY <1>3, <1>4, <1>7 DEF LinkerOK
        <2> DEFINE ls == draft.nodes[l.node].links
        <2>2. ls \in Seq(Seq(Ords(draft))) /\ Len(ls) <= MaxLevel + 1 /\ ls # <<>> /\ draft.nodes[l.node].vec \in Int
            BY <1>2, <2>1, GraphFacts
        <2>3. Level(l.node) = Len(ls) - 1
            BY DEF Level
        <2> HIDE DEF ls
        <2>4. Len(ls) \in Nat /\ Len(ls) # 0
            BY <2>2
        <2> QED BY <2>1, <2>2, <2>3, <2>4, HnswAssumption DEF Layer
    <1>8. ASSUME l.pc \in {"back", "prune"} PROVE Head(l.todo) \in Ords(draft)
        <2>1. l.todo # <<>>
            BY <1>4, <1>8 DEF LinkerOK
        <2> QED BY <1>3, <1>6, <2>1
    <1>9. DOMAIN linker = Block
        BY <1>4
    <1>10. l.layer \in Nat /\ l.layer \in Layer
        BY <1>6, HnswAssumption DEF Layer
    <1> QED BY <1>1, <1>2, <1>3, <1>4, <1>5, <1>6, <1>7, <1>8, <1>9, <1>10

LEMMA DraftSelf == \A g : IsDraft(g) => SameNodes(g, g)
    BY DEF SameNodes

LEMMA ReadEntryKeeps ==
    ASSUME DraftInv, NEW b \in Block, ReadEntry(b)
    PROVE  DraftInv'
    <1> DEFINE n == Len(draft.nodes)
               l == linker[b]
               top == draft.maxLayer
               m == draft.entry
               todo == l.todo
               pruned == l.pruned
               l2 == [Beam(l, top, m) EXCEPT !.top = top]
               w == [Beam(l, top, m) EXCEPT !.top = top, !.todo = todo, !.pruned = pruned]
    <1>1. /\ draft # NoIndex /\ l.pc = "entry" /\ linker' = [linker EXCEPT ![b] = l2]
          /\ draft' = draft /\ native' = native /\ live' = live
        BY DEF ReadEntry, LinkStep
    <1>2. /\ n \in Nat /\ Ords(draft) = 1..n /\ IsDraft(draft) /\ IsGraph(draft) /\ Rooted(draft)
          /\ Bounded(draft, linker) /\ DOMAIN linker = Block
          /\ l \in Linker(n) /\ l.node \in 1..n /\ l.last \in 1..n
          /\ todo \in Seq(1..n) /\ pruned \in Seq(1..n)
        <2>1. l.pc # "idle"
            BY <1>1
        <2> HIDE DEF l2, w, top, m
        <2> QED BY <1>1, <2>1, LinkerFacts
    <1>3. top \in 0..MaxLevel /\ top \in -1..MaxLevel /\ m \in 1..n
        <2>1. draft.nodes # <<>>
            BY <1>2
        <2>2. top >= 0
            BY <1>2, <2>1 DEF Rooted
        <2>3. top \in -1..MaxLevel
            BY <1>2, GraphFacts
        <2>4. m \in Ords(draft)
            BY <1>2, <2>2 DEF IsGraph
        <2> QED BY <1>2, <2>2, <2>3, <2>4, HnswAssumption
    <1>4. w = l2
        BY <1>2 DEF Beam, Linker
    <1>5. LinkerOK(w, n)
        <2> HIDE DEF l, n, top, m, todo, pruned
        <2>1. \A layer \in 0..MaxLevel, x \in 1..n :
                 LinkerOK([Beam(l, layer, x) EXCEPT !.top = top, !.todo = todo, !.pruned = pruned], n)
            BY <1>2, <1>3, BeamOK
        <2> QED BY <1>3, <2>1, Zenon
    <1> HIDE DEF w, l2
    <1>6. LinkerOK(l2, n)
        BY <1>4, <1>5
    <1>7. Bounded(draft', linker')
        BY <1>1, <1>2, QuietBounded
    <1>8. IsDraft(draft') /\ SameNodes(draft, draft')
        BY <1>1, <1>2, DraftSelf
    <1> QED BY <1>1, <1>6, <1>7, <1>8, LinkedStep

LEMMA WalkKeeps ==
    ASSUME DraftInv, NEW b \in Block, Walk(b)
    PROVE  DraftInv'
    <1> DEFINE n == Len(draft.nodes)
               l == linker[b]
               q == draft.nodes[l.node].vec
               above == l.layer > Level(l.node)
               beam == Expand(draft, q, IF above THEN 1 ELSE EfConstruction, l.layer, l.beam)
               best == Nearest(draft, beam.result, q)
               top == l.top
               todo == l.todo
               pruned == l.pruned
               k == l.layer - 1
               s1 == [l EXCEPT !.beam = beam]
               s2 == Beam(l, k, best)
               s3 == [l EXCEPT !.beam = beam, !.cur = best, !.pc = "own"]
               l2 == CASE beam.cand # {} -> s1 [] beam.cand = {} /\ above -> s2 [] OTHER -> s3
    <1>1. /\ draft # NoIndex /\ l.pc = "walk" /\ linker' = [linker EXCEPT ![b] = l2]
          /\ draft' = draft /\ native' = native /\ live' = live
        BY DEF Walk, LinkStep
    <1>2. /\ n \in Nat /\ Ords(draft) = 1..n /\ IsDraft(draft) /\ IsGraph(draft)
          /\ Bounded(draft, linker) /\ DOMAIN linker = Block
          /\ l \in Linker(n) /\ LinkerOK(l, n) /\ l.layer \in Nat /\ l.layer \in 0..MaxLevel
          /\ l.node \in 1..n /\ l.last \in 1..n /\ q \in Int /\ Level(l.node) \in Nat
          /\ todo \in Seq(1..n) /\ pruned \in Seq(1..n)
        <2>1. l.pc # "idle"
            BY <1>1
        <2> HIDE DEF l2, s1, s2, s3, beam, best
        <2> QED BY <1>1, <2>1, LinkerFacts DEF Layer
    <1>3. l.beam \in Beams(1..n) /\ l.beam.cand # {}
        BY <1>1, <1>2 DEF LinkerOK
    <1>4. beam \in Beams(1..n)
        <2> HIDE DEF q, above
        <2> QED BY <1>2, <1>3, ExpandFacts
    <1> HIDE DEF beam
    <1>5. beam.result \in (SUBSET (1..n)) \ {{}} /\ beam \in Beams(0..n) /\ beam.cand \in SUBSET (1..n)
        <2>1. beam.result \in (SUBSET (1..n)) \ {{}} /\ beam.cand \in SUBSET (1..n)
              /\ beam.seen \in SUBSET (1..n)
            BY <1>4 DEF Beams
        <2>2. 1..n \subseteq 0..n
            OBVIOUS
        <2> QED BY <1>4, <2>1, <2>2 DEF Beams
    <1>6. best \in 1..n
        <2> HIDE DEF q
        <2>1. \A o \in beam.result : draft.nodes[o].vec \in Int
            BY <1>2, <1>5, GraphFacts
        <2>2. best \in beam.result
            BY <1>2, <1>5, <2>1, NearestFacts
        <2> QED BY <1>5, <2>2
    <1> HIDE DEF best, q
    <1>7. ASSUME beam.cand # {} PROVE LinkerOK(s1, n) /\ s1.pc # "prune"
        <2>1. s1 \in Linker(n)
            BY <1>2, <1>5 DEF Linker
        <2>2. s1.pc = "walk" /\ s1.node = l.node /\ s1.last = l.last /\ s1.beam = beam
            BY <1>1, <1>2 DEF Linker
        <2> HIDE DEF s1
        <2> QED BY <1>2, <1>4, <1>7, <2>1, <2>2 DEF LinkerOK
    <1>8. ASSUME above PROVE LinkerOK(s2, n) /\ s2.pc # "prune"
        <2> DEFINE w == [Beam(l, k, best) EXCEPT !.top = top, !.todo = todo, !.pruned = pruned]
        <2>1. k \in 0..MaxLevel
            <3>1. l.layer \in Nat /\ Level(l.node) \in Nat /\ l.layer <= MaxLevel /\ l.layer > Level(l.node)
                BY <1>2, <1>8, HnswAssumption
            <3> QED BY <3>1, HnswAssumption
        <2>2. w = s2
            BY <1>2 DEF Beam, Linker
        <2>3. top \in -1..MaxLevel
            BY <1>2 DEF Linker
        <2>4. s2.pc = "walk"
            BY <1>2 DEF Beam, Linker
        <2> HIDE DEF s1, s2, s3, l2, l, n, top, todo, pruned, k, above
        <2>5. \A layer \in 0..MaxLevel, x \in 1..n :
                 LinkerOK([Beam(l, layer, x) EXCEPT !.top = top, !.todo = todo, !.pruned = pruned], n)
            BY <1>2, <2>3, BeamOK
        <2>6. LinkerOK(w, n)
            BY <1>6, <2>1, <2>5, Zenon
        <2> HIDE DEF w
        <2> QED BY <2>2, <2>4, <2>6
    <1>9. LinkerOK(s3, n) /\ s3.pc # "prune"
        <2>1. best \in 0..n
            BY <1>6
        <2>2. s3 \in Linker(n)
            BY <1>2, <1>5, <2>1 DEF Linker
        <2>3. s3.pc = "own" /\ s3.node = l.node /\ s3.last = l.last /\ s3.beam = beam /\ s3.cur = best
            BY <1>2 DEF Linker
        <2> HIDE DEF s3
        <2> QED BY <1>2, <1>4, <1>6, <2>2, <2>3 DEF LinkerOK
    <1>10. LinkerOK(l2, n)
        <2> HIDE DEF s1, s2, s3, above, l, n
        <2>1. \/ beam.cand # {} /\ l2 = s1
              \/ above /\ l2 = s2
              \/ l2 = s3
            OBVIOUS
        <2> HIDE DEF l2
        <2> QED BY <1>7, <1>8, <1>9, <2>1
    <1> HIDE DEF l2
    <1>11. Bounded(draft', linker')
        BY <1>1, <1>2, QuietBounded
    <1>12. IsDraft(draft') /\ SameNodes(draft, draft')
        BY <1>1, <1>2, DraftSelf
    <1> QED BY <1>1, <1>10, <1>11, <1>12, LinkedStep

LEMMA LinkOwnKeeps ==
    ASSUME DraftInv, NEW b \in Block, LinkOwn(b)
    PROVE  DraftInv'
    <1> DEFINE n == Len(draft.nodes)
               l == linker[b]
               keep == Selected(draft, l.node, l.beam.result, l.layer)
               h == SetLinks(draft, l.node, l.layer, keep)
               l2 == [l EXCEPT !.pc = "back", !.todo = keep]
               lk2 == [linker EXCEPT ![b] = l2]
    <1>1. /\ draft # NoIndex /\ l.pc = "own" /\ draft' = h
          /\ linker' = [linker EXCEPT ![b].pc = "back", ![b].todo = keep]
          /\ native' = native /\ live' = live
        BY DEF LinkOwn, LinkStep
    <1>2. /\ n \in Nat /\ Ords(draft) = 1..n /\ IsDraft(draft) /\ IsGraph(draft)
          /\ Bounded(draft, linker) /\ DOMAIN linker = Block
          /\ l \in Linker(n) /\ LinkerOK(l, n) /\ l.layer \in Nat
          /\ l.node \in Ords(draft) /\ l.last \in 1..n
        <2>1. l.pc # "idle"
            BY <1>1
        <2> HIDE DEF h, keep, l2, lk2
        <2> QED BY <1>1, <2>1, LinkerFacts
    <1>3. l.beam.result \in SUBSET Ords(draft) /\ l.beam.result # {} /\ l.cur \in 1..n
        <2>1. l.beam \in Beams(1..n) /\ l.cur \in 1..n
            BY <1>1, <1>2 DEF LinkerOK
        <2> QED BY <1>2, <2>1 DEF Beams
    <1>4. keep \in Seq(1..n) /\ keep # <<>> /\ Limited(keep, l.layer)
        BY <1>2, <1>3, SelectedFacts
    <1> HIDE DEF keep, h
    <1>5. linker' = lk2
        BY <1>1, <1>2
    <1>6. l2.pc = "back" /\ l2.node = l.node /\ l2.last = l.last /\ l2.cur = l.cur /\ l2.todo = keep
        BY <1>2 DEF Linker
    <1>7. LinkerOK(l2, n)
        <2>1. l2 \in Linker(n)
            BY <1>2, <1>4 DEF Linker
        <2> HIDE DEF l2
        <2> QED BY <1>2, <1>3, <1>4, <1>6, <2>1 DEF LinkerOK
    <1> HIDE DEF l2
    <1>8. /\ Relinked(draft, h)
          /\ \A o \in Ords(draft), k \in Nat :
                Links(h, o, k) = IF o = l.node /\ k = l.layer /\ HasLayer(draft, l.node, l.layer) THEN keep
                                 ELSE Links(draft, o, k)
        <2>1. keep \in Seq(Ords(draft))
            BY <1>2, <1>4
        <2> HIDE DEF l, n
        <2> QED BY <1>2, <2>1, SetLinksFacts DEF h
    <1>9. IsDraft(h) /\ Ords(h) = Ords(draft) /\ SameNodes(draft, h)
        BY <1>2, <1>8, DraftKeeps
    <1>10. Bounded(h, lk2)
        <2>1. ASSUME NEW o \in Ords(draft), NEW layer \in Layer
              PROVE  \/ Limited(Links(h, o, layer), layer) /\ Len(Links(h, o, layer)) \in Nat
                     \/ /\ Links(h, o, layer) = Links(draft, o, layer)
                        /\ Owing(linker, o, layer) \subseteq Owing(lk2, o, layer)
            <3>1. layer \in Nat
                BY HnswAssumption DEF Layer
            <3>2. CASE o = l.node /\ layer = l.layer /\ HasLayer(draft, l.node, l.layer)
                <4>1. Links(h, o, layer) = keep
                    BY <1>8, <3>1, <3>2
                <4> QED BY <1>4, <3>2, <4>1
            <3>3. CASE ~ (o = l.node /\ layer = l.layer /\ HasLayer(draft, l.node, l.layer))
                <4>1. Links(h, o, layer) = Links(draft, o, layer)
                    BY <1>8, <3>1, <3>3
                <4>2. Owing(linker, o, layer) \subseteq Owing(lk2, o, layer)
                    BY <1>1, <1>2 DEF Owing
                <4> QED BY <4>1, <4>2
            <3> QED BY <3>2, <3>3
        <2> HIDE DEF lk2, l, n
        <2> QED BY <1>2, <1>9, <2>1, BoundedStep
    <1> QED BY <1>1, <1>5, <1>7, <1>9, <1>10, LinkedStep

(* One neighbour gets its back-link, and may be owed a prune for it. *)
LEMMA LinkBackKeeps ==
    ASSUME DraftInv, NEW b \in Block, LinkBack(b)
    PROVE  DraftInv'
    <1> DEFINE n == Len(draft.nodes)
               l == linker[b]
               nb == Head(l.todo)
               pushed == PushBack(Links(draft, nb, l.layer), l.node)
               pruned == Selected(draft, nb, ToSet(pushed), l.layer)
               h == SetLinks(draft, nb, l.layer, pushed)
               over == Len(pushed) > maxM(l.layer)
               s1 == [l EXCEPT !.pc = "prune", !.pruned = pruned]
               s2 == AfterNeighbour(l)
               l2 == IF over THEN s1 ELSE s2
               lk2 == [linker EXCEPT ![b] = l2]
    <1>1. /\ draft # NoIndex /\ l.pc = "back" /\ draft' = h /\ linker' = lk2
          /\ native' = native /\ live' = live
        BY DEF LinkBack, LinkStep
    <1>2. /\ n \in Nat /\ Ords(draft) = 1..n /\ IsDraft(draft) /\ IsGraph(draft)
          /\ Bounded(draft, linker) /\ DOMAIN linker = Block
          /\ l \in Linker(n) /\ LinkerOK(l, n) /\ l.layer \in Nat /\ l.layer \in Layer
          /\ l.node \in Ords(draft) /\ l.last \in 1..n /\ nb \in Ords(draft) /\ l.todo \in Seq(1..n)
        <2>1. l.pc # "idle" /\ l.pc \in {"back", "prune"}
            BY <1>1
        <2> HIDE DEF h, pushed, pruned, s1, s2, l2, lk2
        <2> QED BY <1>1, <2>1, LinkerFacts
    <1> DEFINE old == Links(draft, nb, l.layer)
    <1>3. old \in Seq(Ords(draft)) /\ IsInjective(old)
        <2>1. old \in Seq(Ords(draft))
            BY <1>2, LinksFacts
        <2>2. IsInjective(old)
            BY <1>2 DEF Bounded
        <2> QED BY <2>1, <2>2
    <1>4. /\ pushed \in Seq(Ords(draft)) /\ ToSet(pushed) \subseteq Ords(draft)
          /\ Len(pushed) <= Len(old) + 1 /\ IsInjective(pushed)
        <2> HIDE DEF old, l, n
        <2> QED BY <1>2, <1>3, PushBackFacts DEF old
    <1> HIDE DEF pushed
    <1>5. pruned \in Seq(1..n) /\ Limited(pruned, l.layer)
        <2>1. ToSet(pushed) \in SUBSET Ords(draft)
            BY <1>4
        <2> QED BY <1>2, <2>1, SelectedFacts
    <1> HIDE DEF pruned, h
    <1>6. /\ s1 \in Linker(n) /\ s1.pc = "prune" /\ s1.node = l.node /\ s1.last = l.last
          /\ s1.cur = l.cur /\ s1.todo = l.todo /\ s1.layer = l.layer /\ s1.pruned = pruned
        <2>1. s1 \in Linker(n)
            BY <1>2, <1>5 DEF Linker
        <2>2. /\ s1.pc = "prune" /\ s1.node = l.node /\ s1.last = l.last
              /\ s1.cur = l.cur /\ s1.todo = l.todo /\ s1.layer = l.layer /\ s1.pruned = pruned
            BY <1>2 DEF Linker
        <2> QED BY <2>1, <2>2
    <1>7. LinkerOK(s1, n)
        <2>1. l.node \in 1..n /\ l.last \in 1..n /\ l.cur \in 1..n /\ l.todo # <<>>
            BY <1>1, <1>2 DEF LinkerOK
        <2> HIDE DEF s1
        <2> QED BY <1>5, <1>6, <2>1 DEF LinkerOK
    <1>8. LinkerOK(s2, n) /\ s2.pc # "prune"
        <2>1. l.pc \in {"back", "prune"}
            BY <1>1
        <2> HIDE DEF l, n, s2
        <2> QED BY <1>2, <2>1, AfterNeighbourOK DEF s2
    <1> HIDE DEF s1, s2
    <1>9. LinkerOK(l2, n)
        BY <1>7, <1>8
    <1>10. /\ Relinked(draft, h)
           /\ \A o \in Ords(draft), k \in Nat :
                Links(h, o, k) = IF o = nb /\ k = l.layer /\ HasLayer(draft, nb, l.layer) THEN pushed
                                 ELSE Links(draft, o, k)
        <2> HIDE DEF l, n, nb
        <2> QED BY <1>2, <1>4, SetLinksFacts DEF h
    <1>11. IsDraft(h) /\ Ords(h) = Ords(draft) /\ SameNodes(draft, h)
        BY <1>2, <1>10, DraftKeeps
    <1>12. Bounded(h, lk2)
        <2>1. ASSUME NEW o \in Ords(draft), NEW layer \in Layer
              PROVE  \/ Limited(Links(h, o, layer), layer) /\ Len(Links(h, o, layer)) \in Nat
                     \/ /\ Links(h, o, layer) = Links(draft, o, layer)
                        /\ Owing(linker, o, layer) \subseteq Owing(lk2, o, layer)
                     \/ /\ Len(Links(h, o, layer)) \in Nat
                        /\ Len(Links(h, o, layer)) <= Len(Links(draft, o, layer)) + 1
                        /\ IsInjective(Links(h, o, layer))
                        /\ b \notin Owing(linker, o, layer)
                        /\ Owing(linker, o, layer) \cup {b} \subseteq Owing(lk2, o, layer)
            <3>1. layer \in Nat
                BY HnswAssumption DEF Layer
            <3>2. Owing(linker, o, layer) \subseteq Owing(lk2, o, layer) /\ b \notin Owing(linker, o, layer)
                BY <1>1, <1>2 DEF Owing
            <3>3. CASE o = nb /\ layer = l.layer /\ HasLayer(draft, nb, l.layer)
                <4>1. Links(h, o, layer) = pushed /\ Len(pushed) \in Nat
                    BY <1>4, <1>10, <3>1, <3>3
                <4>2. CASE ~over
                    <5>1. Len(pushed) <= maxM(l.layer)
                        <6>1. maxM(l.layer) \in Nat
                            BY LimitFacts
                        <6> QED BY <4>1, <4>2, <6>1
                    <5> QED BY <1>4, <3>3, <4>1, <5>1 DEF Limited
                <4>3. CASE over
                    <5>1. s1.pc = "prune" /\ s1.layer = layer /\ Head(s1.todo) = o /\ l2 = s1
                        BY <1>6, <3>3, <4>3
                    <5>2. b \in Owing(lk2, o, layer)
                        <6> HIDE DEF l2
                        <6> QED BY <1>2, <5>1 DEF Owing
                    <5> HIDE DEF l2, lk2, l
                    <5> QED BY <1>4, <3>2, <3>3, <4>1, <5>2 DEF old
                <4> QED BY <4>2, <4>3
            <3>4. CASE ~ (o = nb /\ layer = l.layer /\ HasLayer(draft, nb, l.layer))
                <4>1. Links(h, o, layer) = Links(draft, o, layer)
                    BY <1>10, <3>1, <3>4
                <4> QED BY <3>2, <4>1
            <3> QED BY <3>3, <3>4
        <2> HIDE DEF lk2, l2, l, n, nb, old, over
        <2>2. IsGraph(draft) /\ Bounded(draft, linker) /\ Ords(h) = Ords(draft)
            BY <1>2, <1>11
        <2> QED BY <2>1, <2>2, BoundedStep, Zenon
    <1> HIDE DEF l2
    <1> QED BY <1>1, <1>9, <1>11, <1>12, LinkedStep

(* A prune leaves the list within its limit, whoever pruned it. *)
LEMMA LinkPruneKeeps ==
    ASSUME DraftInv, NEW b \in Block, LinkPrune(b)
    PROVE  DraftInv'
    <1> DEFINE n == Len(draft.nodes)
               l == linker[b]
               nb == Head(l.todo)
               old == Links(draft, nb, l.layer)
               over == Len(old) > maxM(l.layer)
               h == IF over THEN SetLinks(draft, nb, l.layer, l.pruned) ELSE draft
               l2 == AfterNeighbour(l)
               lk2 == [linker EXCEPT ![b] = l2]
    <1>1. /\ draft # NoIndex /\ l.pc = "prune" /\ draft' = h /\ linker' = lk2
          /\ native' = native /\ live' = live
        BY DEF LinkPrune, LinkStep
    <1>2. /\ n \in Nat /\ Ords(draft) = 1..n /\ IsDraft(draft) /\ IsGraph(draft)
          /\ Bounded(draft, linker) /\ DOMAIN linker = Block
          /\ l \in Linker(n) /\ LinkerOK(l, n) /\ l.layer \in Nat
          /\ nb \in Ords(draft) /\ l.pruned \in Seq(1..n)
        <2>1. l.pc # "idle" /\ l.pc \in {"back", "prune"}
            BY <1>1
        <2> HIDE DEF h, l2, lk2
        <2> QED BY <1>1, <2>1, LinkerFacts
    <1>3. Limited(l.pruned, l.layer)
        BY <1>1, <1>2 DEF LinkerOK
    <1>4. old \in Seq(Ords(draft)) /\ maxM(l.layer) \in Nat
        BY <1>2, LinksFacts, LimitFacts
    <1>5. LinkerOK(l2, n)
        <2>1. l.pc \in {"back", "prune"}
            BY <1>1
        <2> HIDE DEF l, n, l2
        <2> QED BY <1>2, <2>1, AfterNeighbourOK DEF l2
    <1>6. over => HasLayer(draft, nb, l.layer)
        <2> SUFFICES ASSUME ~HasLayer(draft, nb, l.layer) PROVE ~over
            OBVIOUS
        <2>1. old = <<>>
            BY DEF Links
        <2> QED BY <1>4, <2>1
    <1>7. /\ Relinked(draft, h)
          /\ \A o \in Ords(draft), k \in Nat :
                Links(h, o, k) = IF o = nb /\ k = l.layer /\ over THEN l.pruned ELSE Links(draft, o, k)
        <2>1. CASE over
            <3>1. l.pruned \in Seq(Ords(draft)) /\ h = SetLinks(draft, nb, l.layer, l.pruned)
                BY <1>2, <2>1
            <3> HIDE DEF l, nb, n, over, h
            <3>2. /\ Relinked(draft, h)
                  /\ \A o \in Ords(draft), k \in Nat :
                        Links(h, o, k) = IF o = nb /\ k = l.layer /\ HasLayer(draft, nb, l.layer)
                                         THEN l.pruned ELSE Links(draft, o, k)
                BY <1>2, <3>1, SetLinksFacts
            <3> QED BY <1>6, <2>1, <3>2
        <2>2. CASE ~over
            <3>1. h = draft
                BY <2>2
            <3> HIDE DEF h, over
            <3> QED BY <1>2, <2>2, <3>1, RelinkedSelf
        <2> QED BY <2>1, <2>2
    <1> HIDE DEF h
    <1>8. IsDraft(h) /\ Ords(h) = Ords(draft) /\ SameNodes(draft, h)
        BY <1>2, <1>7, DraftKeeps
    <1>9. Bounded(h, lk2)
        <2>1. ASSUME NEW o \in Ords(draft), NEW layer \in Layer
              PROVE  \/ Limited(Links(h, o, layer), layer) /\ Len(Links(h, o, layer)) \in Nat
                     \/ /\ Links(h, o, layer) = Links(draft, o, layer)
                        /\ Owing(linker, o, layer) \subseteq Owing(lk2, o, layer)
            <3>1. layer \in Nat
                BY HnswAssumption DEF Layer
            <3>2. CASE o = nb /\ layer = l.layer
                <4>1. CASE over
                    <5>1. Links(h, o, layer) = l.pruned
                        BY <1>7, <3>1, <3>2, <4>1
                    <5> QED BY <1>2, <1>3, <3>2, <5>1
                <4>2. CASE ~over
                    <5>1. Links(h, o, layer) = old
                        BY <1>7, <3>1, <3>2, <4>2
                    <5>2. IsInjective(old) /\ Len(old) \in Nat
                        BY <1>2, <1>4, <3>2 DEF Bounded
                    <5>3. Len(old) <= maxM(l.layer)
                        BY <1>4, <4>2, <5>2
                    <5> QED BY <3>2, <5>1, <5>2, <5>3 DEF Limited
                <4> QED BY <4>1, <4>2
            <3>3. CASE ~ (o = nb /\ layer = l.layer)
                <4>1. Links(h, o, layer) = Links(draft, o, layer)
                    BY <1>7, <3>1, <3>3
                <4>2. Owing(linker, o, layer) \subseteq Owing(lk2, o, layer)
                    <5>1. b \notin Owing(linker, o, layer)
                        BY <3>3 DEF Owing
                    <5> QED BY <1>2, <5>1 DEF Owing
                <4> QED BY <4>1, <4>2
            <3> QED BY <3>2, <3>3
        <2> HIDE DEF lk2, l, n
        <2> QED BY <1>2, <1>8, <2>1, BoundedStep
    <1> HIDE DEF l2
    <1> QED BY <1>1, <1>5, <1>8, <1>9, LinkedStep

LEMMA PromoteKeeps ==
    ASSUME DraftInv, NEW b \in Block, Promote(b)
    PROVE  DraftInv'
    <1> DEFINE n == Len(draft.nodes)
               l == linker[b]
               h == Promoted(draft, l.node, Level(l.node))
               l2 == NextNode(l)
    <1>1. /\ draft # NoIndex /\ l.pc = "promote" /\ draft' = h
          /\ linker' = [linker EXCEPT ![b] = l2] /\ native' = native /\ live' = live
        BY DEF Promote, LinkStep
    <1>2. /\ n \in Nat /\ Ords(draft) = 1..n /\ IsDraft(draft) /\ IsGraph(draft)
          /\ Bounded(draft, linker) /\ DOMAIN linker = Block
          /\ l.node \in Ords(draft) /\ l.last \in 1..n /\ Level(l.node) \in Layer
        <2>1. l.pc # "idle"
            BY <1>1
        <2> HIDE DEF h, l2
        <2> QED BY <1>1, <2>1, LinkerFacts
    <1>3. LinkerOK(l2, n)
        <2>1. l.node \in 1..n
            BY <1>2
        <2> HIDE DEF l, n, l2
        <2> QED BY <1>2, <2>1, NextNodeOK DEF l2
    <1> HIDE DEF h, l2
    <1>4. /\ IsGraph(h) /\ Rooted(h) /\ SameNodes(draft, h) /\ h.nodes = draft.nodes
          /\ h.sealed = draft.sealed /\ h.csr = draft.csr
        BY <1>2, PromotedFacts DEF h
    <1>5. Ords(h) = Ords(draft)
        BY <1>4 DEF Ords
    <1>6. IsDraft(h)
        BY <1>2, <1>4, <1>5 DEF IsDraft, SameNodes
    <1>7. Bounded(draft', linker')
        BY <1>1, <1>2, <1>4, QuietBounded
    <1> QED BY <1>1, <1>3, <1>4, <1>6, <1>7, LinkedStep

LEMMA LinkKeeps ==
    ASSUME DraftInv, NEW b \in Block, Link(b)
    PROVE  DraftInv'
    BY ReadEntryKeeps, WalkKeeps, LinkOwnKeeps, LinkBackKeeps, LinkPruneKeeps, PromoteKeeps DEF Link
-----------------------------------------------------------------------------
(* Initially, and what steps leave alone                                   *)

LEMMA GraphKept ==
    ASSUME GraphInv, UNCHANGED <<graph, live, native, changes>>
    PROVE  GraphInv'
    BY DEF GraphInv, IsGraph, Rooted, LastWins, Current, Returnable, Sequential, IndexFinds, Ords

LEMMA DraftKept ==
    ASSUME DraftInv, UNCHANGED <<draft, linker, live, native>>
    PROVE  DraftInv'
    BY DEF DraftInv, Current, Returnable

LEMMA SealKept ==
    ASSUME SealInv, UNCHANGED <<searcher, graph, lists>>
    PROVE  SealInv'
    BY DEF SealInv

LEMMA FileKept ==
    ASSUME FileInv, UNCHANGED file
    PROVE  FileInv'
    BY DEF FileInv

LEMMA RowVectorsFacts ==
    ASSUME NEW n \in Nat
    PROVE  /\ RowVectors(n) \in [Id -> Int \cup {NoVec}]
           /\ \A id \in Id : id <= n => RowVectors(n)[id] = Mark[id]
    <1>1. \A id \in Id : Mark[id] \in Int
        BY HnswAssumption DEF Id
    <1> QED BY <1>1 DEF RowVectors

(* The rows of a native index have the vectors of the corpus. *)
LEMMA SequentialFacts ==
    ASSUME NEW g, IsGraph(g), Sequential(g)
    PROVE  /\ LastWins(g)
           /\ \A n \in Ords(g) : /\ n \in Id /\ g.nodes[n].id = n
                                 /\ RowVectors(Len(g.nodes))[g.nodes[n].id] = g.nodes[n].vec
    <1>1. \A n \in Ords(g) : g.nodes[n].id = n /\ g.nodes[n].vec = Mark[n]
        BY DEF Sequential, IsRow
    <1>2. /\ Len(g.nodes) \in Nat /\ Ords(g) = 1..Len(g.nodes)
          /\ \A n \in Ords(g) : g.nodes[n].id \in Id
        BY GraphFacts
    <1>3. LastWins(g)
        BY <1>1, <1>2 DEF LastWins
    <1>4. \A n \in Ords(g) : n \in Id /\ n <= Len(g.nodes)
        BY <1>1, <1>2
    <1>5. \A n \in Ords(g) : RowVectors(Len(g.nodes))[n] = Mark[n]
        BY <1>2, <1>4, RowVectorsFacts
    <1> QED BY <1>1, <1>3, <1>4, <1>5

LEMMA InitInv == Init => Inv
    <1> SUFFICES ASSUME Init PROVE Inv
        OBVIOUS
    <1> USE DEF Init
    <1>1. GraphInv
        <2>1. live \in [Id -> Int \cup {NoVec}]
            BY RowVectorsFacts
        <2>2. IsGraph(graph) /\ Rooted(graph) /\ Ords(graph) = {} /\ graph.deleted = {}
            BY EmptyFacts DEF IsDraft
        <2>3. LastWins(graph) /\ Current(graph) /\ Sequential(graph) /\ IndexFinds(graph)
            BY <2>2 DEF LastWins, Current, Sequential, IndexFinds
        <2>4. native \in BOOLEAN /\ changes \in Nat
            OBVIOUS
        <2> QED BY <2>1, <2>2, <2>3, <2>4 DEF GraphInv
    <1>2. DraftInv
        BY DEF DraftInv
    <1>3. SealInv
        <2>1. searcher \in [Searcher -> [pc : {"idle", "walk"} \cup SealPcs, layers : 0..(MaxLevel + 1)]]
            <3>1. 0 \in 0..(MaxLevel + 1)
                BY HnswAssumption
            <3> QED BY <3>1
        <2>2. graph.csr = <<>> /\ \A r \in Searcher : searcher[r].pc \notin SealPcs
            BY EmptyFacts DEF IsDraft, SealPcs
        <2>3. \A r \in Searcher : searcher[r].pc = "idle"
            OBVIOUS
        <2>4. Adjacency(graph) = lists
            OBVIOUS
        <2> QED BY <2>1, <2>2, <2>3, <2>4 DEF SealInv
    <1>4. FileInv
        BY DEF FileInv
    <1> QED BY <1>1, <1>2, <1>3, <1>4 DEF Inv
-----------------------------------------------------------------------------
(* Builds                                                                  *)

LEMMA BuildKeeps ==
    ASSUME Inv, NEW n \in NativeRows \cup OwnerRows, Build(n)
    PROVE  Inv'
    <1> DEFINE rows == [i \in 1..n |-> [id |-> i, vec |-> Mark[i]]]
    <1>1. /\ StartBuild(rows) /\ IF native THEN live' = live ELSE graph = EmptyGraph /\ live' = RowVectors(n)
          /\ UNCHANGED <<graph, native, searcher, file, lists, changes>>
        BY DEF Build
    <1>2. n \in 1..Len(Mark) /\ n \in Nat
        BY HnswAssumption
    <1>3. Len(rows) = n /\ \A i \in 1..n : rows[i].id = i /\ rows[i].vec = Mark[i]
        BY <1>2
    <1>4. \A i \in 1..n : i \in Id /\ Mark[i] \in Int
        BY <1>2, HnswAssumption DEF Id
    <1> HIDE DEF rows
    <1>5. IsRows(rows)
        BY <1>2, <1>3, <1>4 DEF IsRows
    <1>6. /\ IsDraft(draft') /\ LinkersOK(draft', linker') /\ Bounded(draft', linker')
          /\ Len(draft'.nodes) = n
          /\ \A i \in Ords(draft') :
                /\ draft'.nodes[i].id = rows[i].id /\ draft'.nodes[i].vec = rows[i].vec
                /\ ~draft'.nodes[i].superseded
        BY <1>1, <1>3, <1>5, StartFacts
    <1>7. Ords(draft') = 1..n /\ draft'.deleted = {}
        BY <1>6 DEF Ords, IsDraft
    <1>8. Sequential(draft')
        BY <1>3, <1>6, <1>7 DEF Sequential, IsRow
    <1>9. ASSUME ~native PROVE Current(draft)'
        <2>1. \A i \in 1..n : live'[i] = Mark[i]
            BY <1>1, <1>2, <1>4, <1>9, RowVectorsFacts
        <2> QED BY <1>3, <1>6, <1>7, <2>1 DEF Current
    <1>10. DraftInv'
        <2>1. IF native' THEN Sequential(draft') ELSE Current(draft)'
            BY <1>1, <1>8, <1>9
        <2> QED BY <1>6, <2>1 DEF DraftInv
    <1>11. GraphInv'
        <2>1. CASE native
            BY <1>1, <2>1, GraphKept DEF Inv
        <2>2. CASE ~native
            <3>1. Ords(graph') = {}
                BY <1>1, <2>2, EmptyFacts
            <3>2. Current(graph)'
                BY <3>1 DEF Current
            <3>3. live' \in [Id -> Int \cup {NoVec}]
                BY <1>1, <1>2, <2>2, RowVectorsFacts
            <3>4. /\ IsGraph(graph) /\ Rooted(graph) /\ LastWins(graph) /\ IndexFinds(graph)
                  /\ native \in BOOLEAN /\ changes \in Nat
                BY <2>2 DEF Inv, GraphInv
            <3> QED BY <1>1, <2>2, <3>2, <3>3, <3>4 DEF GraphInv
        <2> QED BY <2>1, <2>2
    <1> QED BY <1>1, <1>10, <1>11, SealKept, FileKept DEF Inv

LEMMA CompactKeeps ==
    ASSUME Inv, Compact
    PROVE  Inv'
    <1> DEFINE rows == Survivors(graph)
    <1>1. /\ ~native /\ StartBuild(rows)
          /\ UNCHANGED <<graph, native, searcher, file, live, lists, changes>>
        BY DEF Compact
    <1>2. IsGraph(graph) /\ LastWins(graph) /\ Current(graph)
        BY DEF Inv, GraphInv
    <1>3. /\ IsRows(rows)
          /\ \A i \in 1..Len(rows) : \E n \in Ords(graph) : Returnable(graph, n) /\ rows[i] = graph.nodes[n]
        BY <1>2, SurvivorsFacts
    <1> HIDE DEF rows
    <1>4. /\ IsDraft(draft') /\ LinkersOK(draft', linker') /\ Bounded(draft', linker')
          /\ Len(draft'.nodes) = Len(rows)
          /\ \A i \in Ords(draft') :
                /\ draft'.nodes[i].id = rows[i].id /\ draft'.nodes[i].vec = rows[i].vec
                /\ ~draft'.nodes[i].superseded
        BY <1>1, <1>3, StartFacts
    <1>5. \A i \in Ords(draft') : live[draft'.nodes[i].id] = draft'.nodes[i].vec
        <2> TAKE i \in Ords(draft')
        <2>1. i \in 1..Len(rows)
            BY <1>4 DEF Ords
        <2>2. PICK n \in Ords(graph) : Returnable(graph, n) /\ rows[i] = graph.nodes[n]
            BY <1>3, <2>1
        <2>3. live[graph.nodes[n].id] = graph.nodes[n].vec
            BY <1>2, <2>2 DEF Current
        <2> QED BY <1>4, <2>2, <2>3
    <1>6. Current(draft)'
        BY <1>1, <1>5 DEF Current, Ords
    <1>7. DraftInv'
        BY <1>1, <1>4, <1>6 DEF DraftInv
    <1> QED BY <1>1, <1>7, GraphKept, SealKept, FileKept DEF Inv

(* No search is under way. *)
LEMMA NobodySearches ==
    ASSUME SealInv, ~Searching, UNCHANGED searcher,
           IsGraph(graph'), graph'.sealed \/ graph'.csr = <<>>,
           ~graph'.raced /\ ~graph'.undefined => Adjacency(graph') = lists'
    PROVE  SealInv'
    <1>1. \A r \in Searcher : searcher'[r].pc = "idle"
        BY DEF Searching
    <1>2. searcher' \in [Searcher -> [pc : {"idle", "walk"} \cup SealPcs, layers : 0..(MaxLevel + 1)]]
        BY DEF SealInv
    <1>3. \A r \in Searcher : searcher'[r].pc \notin SealPcs
        BY <1>1 DEF SealPcs
    <1> QED BY <1>1, <1>2, <1>3 DEF SealInv

LEMMA FinishBuildKeeps ==
    ASSUME Inv, FinishBuild
    PROVE  Inv'
    <1> DEFINE h == seal(draft)
    <1>1. /\ draft # NoIndex /\ ~Searching /\ graph' = h /\ draft' = NoIndex
          /\ live' = IF native THEN RowVectors(Len(draft.nodes)) ELSE live
          /\ lists' = Adjacency(draft)
          /\ UNCHANGED <<native, searcher, file, changes>>
        BY DEF FinishBuild
    <1>2. IsDraft(draft) /\ IF native THEN Sequential(draft) ELSE Current(draft)
        BY <1>1 DEF Inv, DraftInv
    <1>3. IsGraph(draft) /\ Rooted(draft) /\ ~draft.sealed /\ draft.csr = <<>> /\ draft.idIndex = NoIndex
        BY <1>2 DEF IsDraft
    <1> HIDE DEF h
    <1>4. /\ IsGraph(h) /\ Alike(draft, h) /\ SameHistory(draft, h) /\ Adjacency(h) = Adjacency(draft)
          /\ h.sealed \/ h.csr = <<>>
        BY <1>3, SealFacts DEF h
    <1>5. Rooted(h) /\ SameNodes(draft, h) /\ Len(h.nodes) = Len(draft.nodes)
        BY <1>3, <1>4, AlikeKeeps DEF Alike, SameNodes
    <1>6. LastWins(draft)
        <2> SUFFICES ASSUME NEW n \in Ords(draft), NEW o \in Ords(draft), n < o,
                            draft.nodes[n].id = draft.nodes[o].id
                     PROVE  FALSE
            BY DEF LastWins
        <2>1. n = o /\ n \in Nat
            BY <1>2, <1>3, GraphFacts DEF IsDraft
        <2> QED BY <2>1
    <1>7. IndexFinds(draft)
        BY <1>3, <1>6, IdIndexFacts
    <1>8. LastWins(h) /\ IndexFinds(h) /\ (native => Sequential(h)) /\ (~native => Current(h))
        BY <1>2, <1>5, <1>6, <1>7, SameKeeps
    <1>9. Current(graph)'
        <2>1. CASE native
            <3>1. \A n \in Ords(h) : RowVectors(Len(h.nodes))[h.nodes[n].id] = h.nodes[n].vec
                BY <1>4, <1>8, <2>1, SequentialFacts
            <3> QED BY <1>1, <1>5, <2>1, <3>1 DEF Current
        <2>2. CASE ~native
            BY <1>1, <1>8, <2>2 DEF Current, Returnable
        <2> QED BY <2>1, <2>2
    <1>10. live' \in [Id -> Int \cup {NoVec}]
        <2>1. Len(draft.nodes) \in Nat
            BY <1>3, GraphFacts
        <2> QED BY <1>1, <2>1, RowVectorsFacts DEF Inv, GraphInv
    <1>11. GraphInv'
        BY <1>1, <1>4, <1>5, <1>8, <1>9, <1>10 DEF Inv, GraphInv
    <1>12. SealInv'
        BY <1>1, <1>4, NobodySearches DEF Inv
    <1>13. DraftInv'
        BY <1>1 DEF DraftInv
    <1> QED BY <1>1, <1>11, <1>12, <1>13, FileKept DEF Inv
-----------------------------------------------------------------------------
(* Changes by a single owner, searches and the file                        *)

LEMMA AddKeeps ==
    ASSUME Inv, NEW id \in Id, NEW level \in Layer, Add(id, level)
    PROVE  Inv'
    <1> DEFINE vec == Fresh[changes + 1]
               r == AddTo(graph, id, vec, level)
    <1>1. /\ ~native /\ draft = NoIndex /\ ~Searching /\ changes < Len(Fresh)
          /\ graph' = r /\ live' = [live EXCEPT ![id] = vec] /\ lists' = Adjacency(graph')
          /\ changes' = changes + 1 /\ UNCHANGED <<native, draft, searcher, file>>
        BY DEF Add, Owned
    <1>2. /\ IsGraph(graph) /\ LastWins(graph) /\ IndexFinds(graph) /\ Current(graph)
          /\ live \in [Id -> Int \cup {NoVec}] /\ changes \in Nat /\ native \in BOOLEAN
        BY <1>1 DEF Inv, GraphInv
    <1>3. graph.sealed \/ graph.csr = <<>>
        <2>1. \A s \in Searcher : searcher[s].pc \notin {"fill", "release"}
            BY <1>1 DEF Searching
        <2> QED BY <2>1 DEF Inv, SealInv
    <1>4. vec \in Int
        <2>1. Fresh \in Seq(Int) /\ changes + 1 \in 1..Len(Fresh)
            BY <1>1, <1>2, HnswAssumption
        <2> QED BY <2>1
    <1> HIDE DEF vec, r
    <1>5. /\ IsGraph(r) /\ Rooted(r) /\ ~r.sealed /\ r.csr = <<>>
          /\ LastWins(r) /\ IndexFinds(r)
          /\ \A n \in Ords(r) : Returnable(r, n) =>
               \/ r.nodes[n].id = id /\ r.nodes[n].vec = vec
               \/ /\ n \in Ords(graph) /\ Returnable(graph, n) /\ r.nodes[n].id # id
                  /\ r.nodes[n].id = graph.nodes[n].id /\ r.nodes[n].vec = graph.nodes[n].vec
        BY <1>2, <1>3, <1>4, AddToFacts DEF r
    <1>6. live' \in [Id -> Int \cup {NoVec}] /\ \A i \in Id : live'[i] = IF i = id THEN vec ELSE live[i]
        BY <1>1, <1>2, <1>4
    <1>7. \A n \in Ords(r) : Returnable(r, n) => live'[r.nodes[n].id] = r.nodes[n].vec
        <2> SUFFICES ASSUME NEW n \in Ords(r), Returnable(r, n)
                     PROVE  live'[r.nodes[n].id] = r.nodes[n].vec
            OBVIOUS
        <2>1. r.nodes[n].id \in Id
            BY <1>5, GraphFacts
        <2>2. CASE r.nodes[n].id = id /\ r.nodes[n].vec = vec
            BY <1>6, <2>1, <2>2
        <2>3. CASE /\ n \in Ords(graph) /\ Returnable(graph, n) /\ r.nodes[n].id # id
                   /\ r.nodes[n].id = graph.nodes[n].id /\ r.nodes[n].vec = graph.nodes[n].vec
            <3>1. live[graph.nodes[n].id] = graph.nodes[n].vec
                BY <1>2, <2>3 DEF Current
            <3> QED BY <1>6, <2>1, <2>3, <3>1
        <2> QED BY <1>5, <2>2, <2>3
    <1>8. Current(graph)'
        BY <1>1, <1>7 DEF Current
    <1>9. GraphInv'
        BY <1>1, <1>2, <1>5, <1>6, <1>8 DEF GraphInv
    <1>10. SealInv'
        BY <1>1, <1>5, NobodySearches DEF Inv
    <1>11. DraftInv'
        BY <1>1 DEF DraftInv
    <1> QED BY <1>1, <1>9, <1>10, <1>11, FileKept DEF Inv

LEMMA RemoveIdKeeps ==
    ASSUME Inv, NEW id \in Id, RemoveId(id)
    PROVE  Inv'
    <1> DEFINE h == [graph EXCEPT !.deleted = @ \cup {id}]
    <1>1. /\ ~native /\ draft = NoIndex /\ ~Searching
          /\ graph' = h /\ live' = [live EXCEPT ![id] = NoVec]
          /\ changes' = changes + 1 /\ UNCHANGED <<native, draft, searcher, file, lists>>
        BY DEF RemoveId, Owned
    <1>2. /\ IsGraph(graph) /\ Rooted(graph) /\ LastWins(graph) /\ IndexFinds(graph) /\ Current(graph)
          /\ live \in [Id -> Int \cup {NoVec}] /\ changes \in Nat /\ native \in BOOLEAN
        BY <1>1 DEF Inv, GraphInv
    <1>3. /\ h \in Graphs(Len(graph.nodes)) /\ h.nodes = graph.nodes /\ h.deleted = graph.deleted \cup {id}
          /\ h.idIndex = graph.idIndex /\ h.entry = graph.entry /\ h.maxLayer = graph.maxLayer
          /\ h.sealed = graph.sealed /\ h.csr = graph.csr /\ h.raced = graph.raced
          /\ h.undefined = graph.undefined
        BY <1>2 DEF IsGraph, Graphs
    <1> HIDE DEF h
    <1>4. Ords(h) = Ords(graph) /\ IsGraph(h) /\ Rooted(h)
        BY <1>2, <1>3 DEF IsGraph, Rooted, Ords
    <1>5. LastWins(h)
        BY <1>2, <1>3, <1>4 DEF LastWins
    <1>6. IndexFinds(h)
        <2>1. IdIndex(h) = IdIndex(graph)
            BY <1>3, <1>4, Zenon DEF IdIndex
        <2> QED BY <1>2, <1>3, <1>4, <2>1 DEF IndexFinds
    <1>7. live' \in [Id -> Int \cup {NoVec}] /\ \A i \in Id : i # id => live'[i] = live[i]
        BY <1>1, <1>2
    <1>8. \A n \in Ords(h) : Returnable(h, n) => live'[h.nodes[n].id] = h.nodes[n].vec
        <2> SUFFICES ASSUME NEW n \in Ords(h), Returnable(h, n) PROVE live'[h.nodes[n].id] = h.nodes[n].vec
            OBVIOUS
        <2>1. Returnable(graph, n) /\ graph.nodes[n].id # id
            BY <1>3 DEF Returnable
        <2>2. graph.nodes[n].id \in Id /\ live[graph.nodes[n].id] = graph.nodes[n].vec
            BY <1>2, <1>4, <2>1, GraphFacts DEF Current
        <2> QED BY <1>3, <1>7, <2>1, <2>2
    <1>9. Current(graph)'
        BY <1>1, <1>8 DEF Current
    <1>10. GraphInv'
        BY <1>1, <1>2, <1>4, <1>5, <1>6, <1>7, <1>9 DEF GraphInv
    <1>11. Adjacency(h) = Adjacency(graph)
        <2>1. \A n, layer : neighbours(h, n, layer) = neighbours(graph, n, layer)
            BY <1>3, Zenon DEF neighbours, HasLayer
        <2> QED BY <1>4, <2>1, Zenon DEF Adjacency
    <1>12. SealInv'
        <2>1. \A s \in Searcher : searcher[s].pc \notin {"fill", "release"}
            BY <1>1 DEF Searching
        <2>2. /\ graph.sealed \/ graph.csr = <<>>
              /\ ~graph.raced /\ ~graph.undefined => Adjacency(graph) = lists
            BY <2>1 DEF Inv, SealInv
        <2>3. IsGraph(graph') /\ (graph'.sealed \/ graph'.csr = <<>>)
            BY <1>1, <1>3, <1>4, <2>2
        <2>4. ~graph'.raced /\ ~graph'.undefined => Adjacency(graph') = lists'
            BY <1>1, <1>3, <1>11, <2>2
        <2> QED BY <1>1, <2>3, <2>4, NobodySearches DEF Inv
    <1>13. DraftInv'
        BY <1>1 DEF DraftInv
    <1> QED BY <1>1, <1>10, <1>12, <1>13, FileKept DEF Inv

(* A graph that keeps its nodes is as good as before. *)
LEMMA AlikeGraph ==
    ASSUME GraphInv, IsGraph(graph'), Alike(graph, graph'), UNCHANGED <<live, native, changes>>
    PROVE  GraphInv'
    <1>1. /\ IsGraph(graph) /\ Rooted(graph) /\ LastWins(graph) /\ Current(graph)
          /\ native => Sequential(graph)
          /\ ~native => IndexFinds(graph)
          /\ live \in [Id -> Int \cup {NoVec}] /\ native \in BOOLEAN /\ changes \in Nat
        BY DEF GraphInv
    <1>2. SameNodes(graph, graph') /\ Rooted(graph')
        BY <1>1, AlikeKeeps DEF Alike
    <1>3. /\ LastWins(graph') /\ Current(graph')
          /\ native => Sequential(graph')
          /\ ~native => IndexFinds(graph')
        BY <1>1, <1>2, SameKeeps
    <1>4. Current(graph)'
        BY <1>3 DEF Current
    <1> QED BY <1>1, <1>2, <1>3, <1>4 DEF GraphInv

(* Marking a graph as raced. *)
LEMMA RacedFacts ==
    ASSUME NEW g, IsGraph(g), NEW raced \in BOOLEAN
    PROVE  LET h == [g EXCEPT !.raced = raced]
           IN  /\ IsGraph(h) /\ Alike(g, h) /\ h.raced = raced /\ h.undefined = g.undefined
               /\ h.nodes = g.nodes /\ h.sealed = g.sealed /\ h.csr = g.csr
               /\ Adjacency(h) = Adjacency(g)
    <1> DEFINE h == [g EXCEPT !.raced = raced]
    <1>1. /\ h \in Graphs(Len(g.nodes)) /\ h.nodes = g.nodes /\ h.deleted = g.deleted
          /\ h.idIndex = g.idIndex /\ h.entry = g.entry /\ h.maxLayer = g.maxLayer
          /\ h.sealed = g.sealed /\ h.csr = g.csr /\ h.raced = raced /\ h.undefined = g.undefined
        BY DEF IsGraph, Graphs
    <1> HIDE DEF h
    <1>2. Ords(h) = Ords(g) /\ IsGraph(h) /\ Alike(g, h)
        BY <1>1 DEF IsGraph, Alike, SameNodes, Ords
    <1>3. Adjacency(h) = Adjacency(g)
        <2>1. \A n, layer : neighbours(h, n, layer) = neighbours(g, n, layer)
            BY <1>1, Zenon DEF neighbours, HasLayer
        <2> QED BY <1>2, <2>1, Zenon DEF Adjacency
    <1> QED BY <1>1, <1>2, <1>3 DEF h

(* A thread that is the only one to freeze the graph, or none. *)
LEMMA SealStep ==
    ASSUME SealInv, NEW r \in Searcher, NEW s, searcher' = [searcher EXCEPT ![r] = s],
           s \in [pc : {"idle", "walk"} \cup SealPcs, layers : 0..(MaxLevel + 1)],
           \/ graph'.sealed \/ graph'.csr = <<>> \/ s.pc \in {"fill", "release"}
           \/ graph'.sealed = graph.sealed /\ graph'.csr = graph.csr /\ searcher[r].pc \notin {"fill", "release"},
           lists' = lists,
           ~graph'.raced =>
             /\ ~graph.raced /\ graph'.undefined = graph.undefined /\ Adjacency(graph') = Adjacency(graph)
             /\ s.pc \in SealPcs \/ graph'.sealed # graph.sealed \/ graph'.nodes # graph.nodes
                    \/ graph'.csr # graph.csr =>
                  \A o \in Searcher : o # r => searcher[o].pc \notin SealPcs
             /\ s.pc \in SealPcs => ~graph'.sealed
             /\ s.pc = "fill" => s.layers = Layers(graph')
             /\ s.pc = "release" => graph'.csr = FilledCsr(graph', Layers(graph'))
    PROVE  SealInv'
    <1>1. searcher \in [Searcher -> [pc : {"idle", "walk"} \cup SealPcs, layers : 0..(MaxLevel + 1)]]
        BY DEF SealInv
    <1>2. /\ searcher' \in [Searcher -> [pc : {"idle", "walk"} \cup SealPcs, layers : 0..(MaxLevel + 1)]]
          /\ searcher'[r] = s /\ \A o \in Searcher : o # r => searcher'[o] = searcher[o]
        BY <1>1
    <1>3. graph'.sealed \/ graph'.csr = <<>> \/ \E o \in Searcher : searcher'[o].pc \in {"fill", "release"}
        <2>1. CASE graph'.sealed \/ graph'.csr = <<>> \/ s.pc \in {"fill", "release"}
            BY <1>2, <2>1
        <2>2. CASE /\ graph'.sealed = graph.sealed /\ graph'.csr = graph.csr
                   /\ searcher[r].pc \notin {"fill", "release"}
            <3>1. graph.sealed \/ graph.csr = <<>> \/ \E o \in Searcher : searcher[o].pc \in {"fill", "release"}
                BY DEF SealInv
            <3>2. ASSUME NEW o \in Searcher, searcher[o].pc \in {"fill", "release"}
                  PROVE  searcher'[o].pc \in {"fill", "release"}
                BY <1>2, <2>2, <3>2
            <3> QED BY <2>2, <3>1, <3>2
        <2> QED BY <2>1, <2>2
    <1>4. ASSUME ~graph'.raced
          PROVE  /\ \A o, p \in Searcher :
                        searcher'[o].pc \in SealPcs /\ searcher'[p].pc \in SealPcs => o = p
                 /\ \A o \in Searcher :
                      /\ searcher'[o].pc \in SealPcs => ~graph'.sealed
                      /\ searcher'[o].pc = "fill" => searcher'[o].layers = Layers(graph')
                      /\ searcher'[o].pc = "release" => graph'.csr = FilledCsr(graph', Layers(graph'))
                 /\ ~graph'.undefined => Adjacency(graph') = lists'
        <2>1. /\ ~graph.raced /\ graph'.undefined = graph.undefined /\ Adjacency(graph') = Adjacency(graph)
              /\ s.pc \in SealPcs => ~graph'.sealed
              /\ s.pc = "fill" => s.layers = Layers(graph')
              /\ s.pc = "release" => graph'.csr = FilledCsr(graph', Layers(graph'))
            BY <1>4
        <2>2. /\ \A o, p \in Searcher :
                    searcher[o].pc \in SealPcs /\ searcher[p].pc \in SealPcs => o = p
              /\ \A o \in Searcher :
                   /\ searcher[o].pc \in SealPcs => ~graph.sealed
                   /\ searcher[o].pc = "fill" => searcher[o].layers = Layers(graph)
                   /\ searcher[o].pc = "release" => graph.csr = FilledCsr(graph, Layers(graph))
              /\ ~graph.undefined => Adjacency(graph) = lists
            BY <2>1 DEF SealInv
        <2>3. CASE \A o \in Searcher : o # r => searcher[o].pc \notin SealPcs
            <3>1. \A o \in Searcher : searcher'[o].pc \in SealPcs => o = r
                BY <1>2, <2>3
            <3>2. "fill" \in SealPcs /\ "release" \in SealPcs
                BY DEF SealPcs
            <3>3. \A o \in Searcher :
                      /\ searcher'[o].pc \in SealPcs => ~graph'.sealed
                      /\ searcher'[o].pc = "fill" => searcher'[o].layers = Layers(graph')
                      /\ searcher'[o].pc = "release" => graph'.csr = FilledCsr(graph', Layers(graph'))
                <4> TAKE o \in Searcher
                <4>1. CASE o = r
                    BY <1>2, <2>1, <4>1
                <4>2. CASE o # r
                    BY <3>1, <3>2, <4>2
                <4> QED BY <4>1, <4>2
            <3> QED BY <2>1, <2>2, <3>1, <3>3
        <2>4. CASE /\ s.pc \notin SealPcs /\ graph'.sealed = graph.sealed
                   /\ graph'.nodes = graph.nodes /\ graph'.csr = graph.csr
            <3>1. Ords(graph') = Ords(graph)
                BY <2>4 DEF Ords
            <3>2. Layers(graph') = Layers(graph)
                BY <2>4, <3>1, Zenon DEF Layers
            <3>3. \A k : FilledCsr(graph', k) = FilledCsr(graph, k)
                BY <2>4, <3>1, Zenon DEF FilledCsr
            <3>4. \A o \in Searcher : searcher'[o].pc \in SealPcs => o # r
                BY <1>2, <2>4
            <3>5. "fill" \in SealPcs /\ "release" \in SealPcs
                BY DEF SealPcs
            <3>6. \A o, p \in Searcher :
                        searcher'[o].pc \in SealPcs /\ searcher'[p].pc \in SealPcs => o = p
                BY <1>2, <2>2, <3>4
            <3>7. \A o \in Searcher :
                      /\ searcher'[o].pc \in SealPcs => ~graph'.sealed
                      /\ searcher'[o].pc = "fill" => searcher'[o].layers = Layers(graph')
                      /\ searcher'[o].pc = "release" => graph'.csr = FilledCsr(graph', Layers(graph'))
                <4> TAKE o \in Searcher
                <4>1. CASE o = r
                    BY <3>4, <3>5, <4>1
                <4>2. CASE o # r
                    <5>1. searcher'[o] = searcher[o]
                        BY <1>2, <4>2
                    <5> QED BY <2>2, <2>4, <3>2, <3>3, <5>1
                <4> QED BY <4>1, <4>2
            <3> QED BY <2>1, <2>2, <3>6, <3>7
        <2> QED BY <1>4, <2>3, <2>4
    <1> QED BY <1>2, <1>3, <1>4 DEF SealInv

(* What a step of one searching thread can rely on. *)
LEMMA SearcherFacts ==
    ASSUME Inv, NEW r \in Searcher
    PROVE  /\ IsGraph(graph) /\ SealInv /\ GraphInv
           /\ searcher[r] \in [pc : {"idle", "walk"} \cup SealPcs, layers : 0..(MaxLevel + 1)]
           /\ DOMAIN searcher = Searcher
           /\ ~graph.raced /\ searcher[r].pc \in SealPcs =>
                /\ ~graph.sealed
                /\ \A o \in Searcher : o # r => searcher[o].pc \notin SealPcs
                /\ searcher[r].pc = "fill" => searcher[r].layers = Layers(graph)
                /\ searcher[r].pc = "release" => graph.csr = FilledCsr(graph, Layers(graph))
    <1>1. IsGraph(graph) /\ SealInv /\ GraphInv
        BY DEF Inv, GraphInv
    <1>2. /\ searcher[r] \in [pc : {"idle", "walk"} \cup SealPcs, layers : 0..(MaxLevel + 1)]
          /\ DOMAIN searcher = Searcher
        BY <1>1 DEF SealInv
    <1>3. ~graph.raced /\ searcher[r].pc \in SealPcs =>
                /\ ~graph.sealed
                /\ \A o \in Searcher : o # r => searcher[o].pc \notin SealPcs
                /\ searcher[r].pc = "fill" => searcher[r].layers = Layers(graph)
                /\ searcher[r].pc = "release" => graph.csr = FilledCsr(graph, Layers(graph))
        BY <1>1 DEF SealInv
    <1> QED BY <1>1, <1>2, <1>3

(* Which layers a graph has depends on its nodes. *)
LEMMA SameLayers ==
    ASSUME NEW g, NEW h, h.nodes = g.nodes
    PROVE  Layers(h) = Layers(g) /\ \A k : FilledCsr(h, k) = FilledCsr(g, k)
    <1>1. Ords(h) = Ords(g)
        BY DEF Ords
    <1>2. Layers(h) = Layers(g)
        BY <1>1, Zenon DEF Layers
    <1>3. \A k : FilledCsr(h, k) = FilledCsr(g, k)
        BY <1>1, Zenon DEF FilledCsr
    <1> QED BY <1>2, <1>3

LEMMA SearchBeginKeeps ==
    ASSUME Inv, NEW r \in Searcher, SearchBegin(r)
    PROVE  GraphInv' /\ SealInv'
    <1> DEFINE raced == graph.raced \/ (~graph.sealed /\ Sealing)
               h == [graph EXCEPT !.raced = raced]
               s == IF graph.sealed THEN [pc |-> "walk", layers |-> 0] ELSE [pc |-> "layers", layers |-> 0]
    <1>1. /\ searcher[r].pc = "idle" /\ searcher' = [searcher EXCEPT ![r] = s]
          /\ UNCHANGED <<native, live, lists, changes>>
        BY DEF SearchBegin, SearchStep
    <1>2. graph' = h
        BY DEF SearchBegin
    <1>3. IsGraph(graph) /\ SealInv /\ GraphInv
        BY SearcherFacts
    <1>4. raced \in BOOLEAN
        OBVIOUS
    <1>5. raced = (graph.raced \/ (~graph.sealed /\ Sealing))
        OBVIOUS
    <1> HIDE DEF raced
    <1>6. /\ IsGraph(h) /\ Alike(graph, h) /\ h.raced = raced /\ h.undefined = graph.undefined
          /\ h.nodes = graph.nodes /\ h.sealed = graph.sealed /\ h.csr = graph.csr
          /\ Adjacency(h) = Adjacency(graph)
        BY <1>3, <1>4, RacedFacts
    <1> HIDE DEF h
    <1>7. GraphInv'
        BY <1>1, <1>2, <1>3, <1>6, AlikeGraph
    <1>8. /\ s \in [pc : {"idle", "walk"} \cup SealPcs, layers : 0..(MaxLevel + 1)]
          /\ s.pc \in {"walk", "layers"} /\ (s.pc \in SealPcs => ~graph.sealed)
        BY HnswAssumption DEF SealPcs
    <1> HIDE DEF s
    <1>9. ASSUME ~graph'.raced
          PROVE  /\ ~graph.raced
                 /\ s.pc \in SealPcs => \A o \in Searcher : o # r => searcher[o].pc \notin SealPcs
        <2>1. ~graph.raced /\ ~ (~graph.sealed /\ Sealing)
            BY <1>2, <1>5, <1>6, <1>9
        <2>2. s.pc \in SealPcs => ~Sealing
            BY <1>8, <2>1
        <2> QED BY <2>1, <2>2 DEF Sealing, SealPcs
    <1>10. SealInv'
        BY <1>1, <1>2, <1>3, <1>6, <1>8, <1>9, SealStep
    <1> QED BY <1>7, <1>10

LEMMA SealLayersKeeps ==
    ASSUME Inv, NEW r \in Searcher, SealLayers(r)
    PROVE  GraphInv' /\ SealInv'
    <1> DEFINE k == Layers(graph)
               c == [l \in 1..k |-> [n \in Ords(graph) |-> <<>>]]
               h == [graph EXCEPT !.csr = c]
               s1 == [searcher[r] EXCEPT !.pc = "walk"]
               s2 == [pc |-> "fill", layers |-> k]
    <1>1. /\ searcher[r].pc = "layers" /\ UNCHANGED <<native, live, lists, changes>>
          /\ \/ searcher' = [searcher EXCEPT ![r].pc = "walk"] /\ graph' = graph
             \/ searcher' = [searcher EXCEPT ![r] = s2] /\ graph' = h
        BY DEF SealLayers, SearchStep
    <1>2. /\ IsGraph(graph) /\ SealInv /\ GraphInv
          /\ searcher[r] \in [pc : {"idle", "walk"} \cup SealPcs, layers : 0..(MaxLevel + 1)]
          /\ DOMAIN searcher = Searcher
          /\ ~graph.raced => /\ ~graph.sealed
                             /\ \A o \in Searcher : o # r => searcher[o].pc \notin SealPcs
        <2>1. searcher[r].pc \in SealPcs
            BY <1>1 DEF SealPcs
        <2> QED BY <2>1, SearcherFacts
    <1>3. CASE searcher' = [searcher EXCEPT ![r].pc = "walk"] /\ graph' = graph
        <2>1. searcher' = [searcher EXCEPT ![r] = s1]
            BY <1>2, <1>3
        <2>2. s1 \in [pc : {"idle", "walk"} \cup SealPcs, layers : 0..(MaxLevel + 1)] /\ s1.pc = "walk"
            BY <1>2
        <2> HIDE DEF s1
        <2>3. s1.pc \notin SealPcs
            BY <2>2 DEF SealPcs
        <2>4. GraphInv'
            BY <1>1, <1>2, <1>3, GraphKept
        <2>5. SealInv'
            BY <1>1, <1>2, <1>3, <2>1, <2>2, <2>3, SealStep
        <2> QED BY <2>4, <2>5
    <1>4. CASE searcher' = [searcher EXCEPT ![r] = s2] /\ graph' = h
        <2>1. k \in 0..(MaxLevel + 1)
            BY <1>2, LayersFacts
        <2>2. c \in Blocks(Len(graph.nodes))
            BY <1>2, <2>1, FilledFacts
        <2> HIDE DEF c
        <2>3. /\ IsGraph(h) /\ Alike(graph, h) /\ SameHistory(graph, h)
              /\ h.nodes = graph.nodes /\ h.sealed = graph.sealed
              /\ ~graph.sealed => Adjacency(h) = Adjacency(graph)
            BY <1>2, <2>2, CsrFacts
        <2> HIDE DEF h
        <2>4. Layers(h) = k
            BY <2>3, SameLayers
        <2> HIDE DEF k
        <2>5. s2 \in [pc : {"idle", "walk"} \cup SealPcs, layers : 0..(MaxLevel + 1)]
              /\ s2.pc = "fill" /\ s2.layers = k
            BY <2>1 DEF SealPcs
        <2> HIDE DEF s2
        <2>6. GraphInv'
            BY <1>1, <1>2, <1>4, <2>3, AlikeGraph
        <2>7. SealInv'
            BY <1>1, <1>2, <1>4, <2>3, <2>4, <2>5, SealStep DEF SameHistory
        <2> QED BY <2>6, <2>7
    <1> QED BY <1>1, <1>3, <1>4

LEMMA SealFillKeeps ==
    ASSUME Inv, NEW r \in Searcher, SealFill(r)
    PROVE  GraphInv' /\ SealInv'
    <1> DEFINE k == searcher[r].layers
               c == FilledCsr(graph, k)
               h == [graph EXCEPT !.csr = c]
               s == [searcher[r] EXCEPT !.pc = "release"]
    <1>1. /\ searcher[r].pc = "fill" /\ UNCHANGED <<native, live, lists, changes>>
          /\ searcher' = [searcher EXCEPT ![r].pc = "release"] /\ graph' = h
        BY DEF SealFill, SearchStep
    <1>2. /\ IsGraph(graph) /\ SealInv /\ GraphInv
          /\ searcher[r] \in [pc : {"idle", "walk"} \cup SealPcs, layers : 0..(MaxLevel + 1)]
          /\ DOMAIN searcher = Searcher
          /\ ~graph.raced => /\ ~graph.sealed /\ k = Layers(graph)
                             /\ \A o \in Searcher : o # r => searcher[o].pc \notin SealPcs
        <2>1. searcher[r].pc \in SealPcs
            BY <1>1 DEF SealPcs
        <2> QED BY <1>1, <2>1, SearcherFacts
    <1>3. k \in 0..(MaxLevel + 1)
        BY <1>2
    <1>4. searcher' = [searcher EXCEPT ![r] = s]
        BY <1>1, <1>2
    <1>5. s \in [pc : {"idle", "walk"} \cup SealPcs, layers : 0..(MaxLevel + 1)] /\ s.pc = "release"
        BY <1>2 DEF SealPcs
    <1> HIDE DEF s, k
    <1>6. c \in Blocks(Len(graph.nodes))
        BY <1>2, <1>3, FilledFacts
    <1> HIDE DEF c
    <1>7. /\ IsGraph(h) /\ Alike(graph, h) /\ SameHistory(graph, h) /\ h.csr = c
          /\ h.nodes = graph.nodes /\ h.sealed = graph.sealed
          /\ ~graph.sealed => Adjacency(h) = Adjacency(graph)
        BY <1>2, <1>6, CsrFacts
    <1> HIDE DEF h
    <1>8. GraphInv'
        BY <1>1, <1>2, <1>7, AlikeGraph
    <1>9. ~graph.raced => h.csr = FilledCsr(h, Layers(h))
        <2>1. Layers(h) = Layers(graph) /\ \A x : FilledCsr(h, x) = FilledCsr(graph, x)
            BY <1>7, SameLayers
        <2> QED BY <1>2, <1>7, <2>1 DEF c
    <1>10. SealInv'
        BY <1>1, <1>2, <1>4, <1>5, <1>7, <1>9, SealStep DEF SameHistory
    <1> QED BY <1>8, <1>10

LEMMA SealReleaseKeeps ==
    ASSUME Inv, NEW r \in Searcher, SealRelease(r)
    PROVE  GraphInv' /\ SealInv'
    <1> DEFINE h == Released(graph)
               s == [pc |-> "walk", layers |-> 0]
    <1>1. /\ searcher[r].pc = "release" /\ UNCHANGED <<native, live, lists, changes>>
          /\ searcher' = [searcher EXCEPT ![r] = s] /\ graph' = h
        BY DEF SealRelease, SearchStep
    <1>2. /\ IsGraph(graph) /\ SealInv /\ GraphInv
          /\ ~graph.raced => /\ ~graph.sealed /\ graph.csr = FilledCsr(graph, Layers(graph))
                             /\ \A o \in Searcher : o # r => searcher[o].pc \notin SealPcs
        <2>1. searcher[r].pc \in SealPcs
            BY <1>1 DEF SealPcs
        <2> QED BY <1>1, <2>1, SearcherFacts
    <1> HIDE DEF h
    <1>3. /\ IsGraph(h) /\ Alike(graph, h) /\ SameHistory(graph, h) /\ h.sealed
          /\ ~graph.sealed /\ graph.csr = FilledCsr(graph, Layers(graph)) => Adjacency(h) = Adjacency(graph)
        BY <1>2, ReleasedFacts DEF h
    <1>4. /\ s \in [pc : {"idle", "walk"} \cup SealPcs, layers : 0..(MaxLevel + 1)]
          /\ s.pc = "walk" /\ s.pc \notin SealPcs
        BY HnswAssumption DEF SealPcs
    <1> HIDE DEF s
    <1>5. GraphInv'
        BY <1>1, <1>2, <1>3, AlikeGraph
    <1>6. SealInv'
        BY <1>1, <1>2, <1>3, <1>4, SealStep DEF SameHistory
    <1> QED BY <1>5, <1>6

LEMMA SearchEndKeeps ==
    ASSUME Inv, NEW r \in Searcher, SearchEnd(r)
    PROVE  GraphInv' /\ SealInv'
    <1> DEFINE s == [searcher[r] EXCEPT !.pc = "idle"]
    <1>1. /\ searcher[r].pc = "walk" /\ UNCHANGED <<graph, native, live, lists, changes>>
          /\ searcher' = [searcher EXCEPT ![r].pc = "idle"]
        BY DEF SearchEnd, SearchStep
    <1>2. /\ SealInv /\ GraphInv /\ DOMAIN searcher = Searcher
          /\ searcher[r] \in [pc : {"idle", "walk"} \cup SealPcs, layers : 0..(MaxLevel + 1)]
        BY SearcherFacts
    <1>3. searcher' = [searcher EXCEPT ![r] = s]
        BY <1>1, <1>2
    <1>4. /\ s \in [pc : {"idle", "walk"} \cup SealPcs, layers : 0..(MaxLevel + 1)]
          /\ s.pc = "idle"
        BY <1>2
    <1> HIDE DEF s
    <1>5. s.pc \notin SealPcs
        BY <1>4 DEF SealPcs
    <1>6. SealInv'
        BY <1>1, <1>2, <1>3, <1>4, <1>5, SealStep
    <1> QED BY <1>1, <1>2, <1>6, GraphKept

LEMMA SearchKeeps ==
    ASSUME Inv, NEW r \in Searcher, Search(r)
    PROVE  Inv'
    <1>1. UNCHANGED <<native, draft, linker, file, live>>
        BY DEF Search, SearchBegin, SealLayers, SealFill, SealRelease, SearchEnd, SearchStep
    <1>2. GraphInv' /\ SealInv'
        BY SearchBeginKeeps, SealLayersKeeps, SealFillKeeps, SealReleaseKeeps, SearchEndKeeps DEF Search
    <1> QED BY <1>1, <1>2, DraftKept, FileKept DEF Inv
-----------------------------------------------------------------------------
(* The cache file                                                          *)

(* What load_hnsw_sidecar() makes of the bytes write_hnsw_sidecar() wrote: the
   rows of the graph that was saved, and its neighbour lists. *)
LEMMA SavedFacts ==
    ASSUME NEW g, IsGraph(g), Rooted(g), Sequential(g), NEW history
    PROVE  LET blob == serialize(g, history)
               h == deserialize(blob)
           IN  /\ IsGraph(h) /\ Rooted(h) /\ Sequential(h) /\ ~h.sealed /\ h.csr = <<>>
               /\ blob.rows = Len(h.nodes) /\ blob.lists = history
               /\ ~h.undefined /\ h.raced = (g.undefined \/ g.raced)
               /\ Adjacency(h) = Adjacency(g)
    <1> DEFINE k == Len(g.nodes)
               u == unseal(g)
               blob == serialize(g, history)
               nd(n) == [id |-> u.nodes[n].id, vec |-> u.nodes[n].vec, links |-> u.nodes[n].links]
               read(n) == [id |-> blob.nodes[n].id, vec |-> blob.nodes[n].vec,
                           superseded |-> FALSE, links |-> blob.nodes[n].links]
               nodes2 == [n \in DOMAIN blob.nodes |-> read(n)]
               h0 == [EmptyGraph EXCEPT !.nodes = nodes2, !.entry = blob.entry,
                        !.maxLayer = blob.maxLayer, !.blocks = blob.blocks, !.raced = blob.flawed]
               h == deserialize(blob)
    <1>1. /\ IsGraph(u) /\ SameNodes(g, u) /\ Adjacency(u) = Adjacency(g) /\ ~u.sealed
        BY UnsealFacts DEF Alike
    <1>2. /\ blob.rows = k /\ blob.entry = g.entry /\ blob.maxLayer = g.maxLayer
          /\ blob.lists = history /\ blob.blocks = g.blocks
          /\ blob.flawed = (g.undefined \/ g.raced)
          /\ blob.nodes = [n \in Ords(g) |-> nd(n)]
        BY DEF serialize
    <1>3. h = [h0 EXCEPT !.idIndex = IdIndex(h0)]
        BY Zenon DEF deserialize
    <1> HIDE DEF u, blob, h
    <1>4. /\ k \in Nat /\ Ords(g) = 1..k /\ Ords(u) = Ords(g) /\ Len(u.nodes) = k
          /\ \A n \in Ords(g) : /\ u.nodes[n] \in Node(k) /\ u.nodes[n].id = g.nodes[n].id
                                /\ u.nodes[n].vec = g.nodes[n].vec
        <2>1. Ords(u) = Ords(g) /\ Len(u.nodes) = k
            BY <1>1 DEF SameNodes, Ords
        <2>2. k \in Nat /\ Ords(g) = 1..k
            BY GraphFacts
        <2>3. \A n \in Ords(u) : u.nodes[n] \in Node(Len(u.nodes))
            BY <1>1, GraphFacts
        <2> QED BY <1>1, <2>1, <2>2, <2>3 DEF SameNodes
    <1>5. \A n \in Ords(g) : /\ read(n).id = g.nodes[n].id /\ read(n).vec = g.nodes[n].vec
                             /\ read(n).superseded = FALSE
                             /\ read(n).links = u.nodes[n].links /\ read(n) \in Node(k)
        <2> TAKE n \in Ords(g)
        <2>1. blob.nodes[n] = nd(n)
            BY <1>2
        <2>2. read(n) = [id |-> u.nodes[n].id, vec |-> u.nodes[n].vec,
                         superseded |-> FALSE, links |-> u.nodes[n].links]
            BY <2>1
        <2> HIDE DEF nd, read
        <2> QED BY <1>4, <2>2 DEF Node
    <1>6. /\ nodes2 \in Seq(Node(k)) /\ Len(nodes2) = k
          /\ \A n \in Ords(g) : nodes2[n] = read(n)
        <2>1. DOMAIN blob.nodes = 1..k
            BY <1>2, <1>4
        <2> HIDE DEF read
        <2> QED BY <1>4, <1>5, <2>1
    <1> HIDE DEF nodes2, read, nd
    <1>7. /\ g.entry \in 0..k /\ g.maxLayer \in -1..MaxLevel /\ g.blocks \in Nat
          /\ (g.undefined \/ g.raced) \in BOOLEAN /\ <<>> \in Blocks(k)
          /\ g.maxLayer >= 0 => g.entry \in Ords(g)
        <2>1. <<>> \in Blocks(k)
            BY HnswAssumption DEF Blocks
        <2>2. /\ g.entry \in 0..k /\ g.maxLayer \in -1..MaxLevel /\ g.blocks \in Nat
              /\ g.maxLayer >= 0 => g.entry \in Ords(g)
            BY GraphFacts
        <2> QED BY <2>1, <2>2
    <1>8. /\ EmptyGraph \in Graphs(0)
          /\ EmptyGraph.sealed = FALSE /\ EmptyGraph.csr = <<>> /\ EmptyGraph.deleted = {}
          /\ EmptyGraph.idIndex = NoIndex /\ EmptyGraph.undefined = FALSE
        BY EmptyFacts DEF EmptyGraph
    <1>9. /\ h0 \in Graphs(k) /\ h0.nodes = nodes2 /\ h0.entry = g.entry /\ h0.maxLayer = g.maxLayer
          /\ h0.sealed = FALSE /\ h0.csr = <<>> /\ h0.deleted = {} /\ h0.idIndex = NoIndex
          /\ h0.undefined = FALSE /\ h0.raced = (g.undefined \/ g.raced)
        BY <1>2, <1>6, <1>7, <1>8 DEF Graphs
    <1> HIDE DEF h0
    <1>10. IsGraph(h0) /\ Ords(h0) = Ords(g) /\ Len(h0.nodes) = k
        BY <1>6, <1>7, <1>9 DEF IsGraph, Ords
    <1>11. IdIndex(h0) \in Indexes(k)
        BY <1>10, IdIndexFacts
    <1>12. /\ h \in Graphs(k) /\ h.nodes = nodes2 /\ h.entry = g.entry /\ h.maxLayer = g.maxLayer
           /\ ~h.sealed /\ h.csr = <<>> /\ h.deleted = {} /\ ~h.undefined
           /\ h.raced = (g.undefined \/ g.raced)
        BY <1>3, <1>9, <1>11 DEF Graphs
    <1>13. Ords(h) = Ords(g) /\ Len(h.nodes) = k /\ IsGraph(h)
        BY <1>6, <1>7, <1>12 DEF IsGraph, Ords
    <1>14. Rooted(h)
        <2>1. h.nodes # <<>> => g.nodes # <<>>
            BY <1>4, <1>6, <1>12
        <2> QED BY <1>12, <2>1 DEF Rooted
    <1>15. Sequential(h)
        BY <1>5, <1>6, <1>12, <1>13 DEF Sequential, IsRow
    <1>16. Adjacency(h) = Adjacency(u)
        <2>1. \A n \in Ords(g) : h.nodes[n].links = u.nodes[n].links
            BY <1>5, <1>6, <1>12
        <2>2. \A n \in Ords(g) : \A layer : neighbours(h, n, layer) = neighbours(u, n, layer)
            BY <1>1, <1>12, <2>1, Zenon DEF neighbours, HasLayer
        <2> QED BY <1>4, <1>13, <2>2, Zenon DEF Adjacency
    <1> QED BY <1>1, <1>2, <1>12, <1>13, <1>14, <1>15, <1>16 DEF h, blob

LEMMA SaveKeeps ==
    ASSUME Inv, Save
    PROVE  Inv'
    <1> DEFINE h == deserialize(file')
    <1>1. /\ native /\ file' = serialize(graph, lists)
          /\ UNCHANGED <<graph, native, draft, linker, searcher, live, lists, changes>>
          /\ ~Searching
        BY DEF Save
    <1>2. /\ IsGraph(graph) /\ Rooted(graph) /\ Sequential(graph) /\ SealInv
        BY <1>1 DEF Inv, GraphInv
    <1>3. /\ IsGraph(h) /\ Rooted(h) /\ Sequential(h) /\ ~h.sealed /\ h.csr = <<>>
          /\ file'.rows = Len(h.nodes) /\ file'.lists = lists
          /\ ~h.undefined /\ h.raced = (graph.undefined \/ graph.raced)
          /\ Adjacency(h) = Adjacency(graph)
        BY <1>1, <1>2, SavedFacts
    <1>4. ~graph.undefined /\ ~graph.raced => Adjacency(graph) = lists
        BY <1>2 DEF SealInv
    <1>5. ~h.raced => Adjacency(h) = file'.lists
        <2>1. graph.undefined \in BOOLEAN /\ graph.raced \in BOOLEAN
            BY <1>2, GraphFacts
        <2> HIDE DEF h
        <2> QED BY <1>3, <1>4, <2>1
    <1>6. FileInv'
        BY <1>3, <1>5, Zenon DEF FileInv
    <1> QED BY <1>1, <1>6, GraphKept, DraftKept, SealKept DEF Inv

LEMMA LoadKeeps ==
    ASSUME Inv, NEW n \in NativeRows, Load(n)
    PROVE  Inv'
    <1> DEFINE h == deserialize(file)
    <1>1. /\ native /\ file # NoFile /\ ~Searching /\ draft = NoIndex /\ file.rows = n
          /\ graph' = h /\ live' = RowVectors(n) /\ lists' = file.lists
          /\ UNCHANGED <<native, draft, linker, searcher, file, changes>>
        BY DEF Load
    <1>2. /\ IsGraph(h) /\ Rooted(h) /\ Sequential(h) /\ ~h.sealed /\ h.csr = <<>>
          /\ file.rows = Len(h.nodes) /\ ~h.undefined
          /\ ~h.raced => Adjacency(h) = file.lists
        BY <1>1 DEF Inv, FileInv
    <1> HIDE DEF h
    <1>3. /\ LastWins(h)
          /\ \A i \in Ords(h) : RowVectors(n)[h.nodes[i].id] = h.nodes[i].vec
        BY <1>1, <1>2, SequentialFacts
    <1>4. GraphInv'
        <2>1. live' \in [Id -> Int \cup {NoVec}]
            <3>1. n \in Nat
                BY <1>1, <1>2, GraphFacts
            <3> QED BY <1>1, <3>1, RowVectorsFacts
        <2>2. Current(graph)'
            BY <1>1, <1>3 DEF Current
        <2>3. native \in BOOLEAN /\ changes \in Nat
            BY DEF Inv, GraphInv
        <2> QED BY <1>1, <1>2, <1>3, <2>1, <2>2, <2>3 DEF GraphInv
    <1>5. SealInv'
        <2>1. SealInv
            BY DEF Inv
        <2> QED BY <1>1, <1>2, <2>1, NobodySearches
    <1>6. DraftInv'
        BY <1>1 DEF DraftInv
    <1> QED BY <1>1, <1>4, <1>5, <1>6, FileKept DEF Inv
-----------------------------------------------------------------------------
(* Every step                                                              *)

LEMMA LinkStepKeeps ==
    ASSUME Inv, NEW b \in Block, Link(b)
    PROVE  Inv'
    <1>1. UNCHANGED <<graph, native, searcher, file, live, lists, changes>>
        BY DEF Link, ReadEntry, Walk, LinkOwn, LinkBack, LinkPrune, Promote, LinkStep
    <1>2. DraftInv'
        BY LinkKeeps DEF Inv
    <1> QED BY <1>1, <1>2, GraphKept, SealKept, FileKept DEF Inv

LEMMA NextKeeps ==
    ASSUME Inv, [Next]_vars
    PROVE  Inv'
    <1>1. CASE \E n \in NativeRows \cup OwnerRows : Build(n)
        BY <1>1, BuildKeeps
    <1>2. CASE \E b \in Block : Link(b)
        BY <1>2, LinkStepKeeps
    <1>3. CASE FinishBuild
        BY <1>3, FinishBuildKeeps
    <1>4. CASE Compact
        BY <1>4, CompactKeeps
    <1>5. CASE \E id \in Id, level \in Layer : Add(id, level)
        BY <1>5, AddKeeps
    <1>6. CASE \E id \in Id : RemoveId(id)
        BY <1>6, RemoveIdKeeps
    <1>7. CASE \E r \in Searcher : Search(r)
        BY <1>7, SearchKeeps
    <1>8. CASE Save
        BY <1>8, SaveKeeps
    <1>9. CASE \E n \in NativeRows : Load(n)
        BY <1>9, LoadKeeps
    <1>10. CASE UNCHANGED vars
        BY <1>10, GraphKept, DraftKept, SealKept, FileKept DEF Inv, vars
    <1> QED BY <1>1, <1>2, <1>3, <1>4, <1>5, <1>6, <1>7, <1>8, <1>9, <1>10, Zenon DEF Next

(* The types of the graph being served, of the one being built, of the threads
   and of the file, and what relates them, hold in every state. *)
THEOREM GraphsAreSound == Spec => []Inv
    <1>1. Init => Inv
        BY InitInv
    <1>2. Inv /\ [Next]_vars => Inv'
        BY NextKeeps
    <1> QED BY <1>1, <1>2, PTL DEF Spec
-----------------------------------------------------------------------------
(* What searches answer                                                    *)

(* The nodes a search may return. *)
Matching(g, allowed) == {n \in Ords(g) : Returnable(g, n) /\ g.nodes[n].id \in allowed}

LEMMA WalkFacts ==
    ASSUME NEW g, IsGraph(g), Rooted(g), g.nodes # <<>>, NEW q \in Int, NEW k \in Nat, NEW ef,
           NEW allowed
    PROVE  /\ WalkAllowed(g, q, k, ef, allowed) \subseteq Matching(g, allowed)
           /\ Cardinality(WalkAllowed(g, q, k, ef, allowed)) \in Nat
           /\ Cardinality(WalkAllowed(g, q, k, ef, allowed)) <= k
    <1> DEFINE start == Descend(g, q, g.entry, g.maxLayer, 0)
               hop == search_layer(g, q, start, 0, ef)
               S == {n \in hop : Returnable(g, n) /\ g.nodes[n].id \in allowed}
    <1>1. /\ g.entry \in Ords(g) /\ g.maxLayer \in Int
          /\ Ords(g) \in SUBSET Nat /\ IsFiniteSet(Ords(g))
          /\ \A n \in Ords(g) : g.nodes[n].vec \in Int
        <2>1. g.maxLayer >= 0
            BY DEF Rooted
        <2>2. g.maxLayer \in -1..MaxLevel /\ (g.maxLayer >= 0 => g.entry \in Ords(g))
            BY GraphFacts
        <2>3. /\ Ords(g) \in SUBSET Nat /\ IsFiniteSet(Ords(g))
              /\ \A n \in Ords(g) : g.nodes[n].vec \in Int
            BY GraphFacts
        <2> QED BY <2>1, <2>2, <2>3
    <1>2. start \in Ords(g)
        BY <1>1, DescendFacts
    <1> HIDE DEF start
    <1>3. hop \in SUBSET Ords(g)
        BY <1>2, SearchFacts
    <1>4. WalkAllowed(g, q, k, ef, allowed) = TopK(g, S, q, k)
        BY Zenon DEF WalkAllowed, start
    <1> HIDE DEF hop
    <1>5. S \in SUBSET Nat /\ S \subseteq Ords(g) /\ \A n \in S : g.nodes[n].vec \in Int
        BY <1>1, <1>3
    <1>6. S \subseteq Matching(g, allowed)
        BY <1>3 DEF Matching
    <1> HIDE DEF S
    <1>7. IsFiniteSet(S)
        BY <1>1, <1>5, FS_Subset
    <1>8. /\ TopK(g, S, q, k) \subseteq S /\ Cardinality(TopK(g, S, q, k)) \in Nat
          /\ Cardinality(TopK(g, S, q, k)) <= k
        BY <1>5, <1>7, TopKFacts
    <1> QED BY <1>4, <1>6, <1>8

(* A walk returns nodes that match, and no more than were asked for. *)
LEMMA SearchesFacts ==
    ASSUME NEW g, IsGraph(g), Rooted(g), NEW q \in Int, NEW k \in Nat, NEW allowed, NEW boost
    PROVE  /\ HnswSearch(g, q, k) \subseteq Matching(g, Id)
           /\ Cardinality(HnswSearch(g, q, k)) \in Nat /\ Cardinality(HnswSearch(g, q, k)) <= k
           /\ search_filtered(g, q, k, allowed, boost) \subseteq Matching(g, allowed)
           /\ Cardinality(search_filtered(g, q, k, allowed, boost)) \in Nat
           /\ Cardinality(search_filtered(g, q, k, allowed, boost)) <= k
    <1>1. CASE g.nodes = <<>>
        <2>1. HnswSearch(g, q, k) = {} /\ search_filtered(g, q, k, allowed, boost) = {}
            BY <1>1 DEF HnswSearch, search_filtered
        <2> QED BY <2>1, FS_EmptySet
    <1>2. CASE g.nodes # <<>>
        <2> DEFINE e == Max({EfSearch, k})
                   f == Min({Max({EfSearch, k}) * Max({1, boost}), Len(g.nodes)})
        <2>1. /\ HnswSearch(g, q, k) = WalkAllowed(g, q, k, e, Id)
              /\ search_filtered(g, q, k, allowed, boost) = WalkAllowed(g, q, k, f, allowed)
            BY <1>2, Zenon DEF HnswSearch, search_filtered
        <2> HIDE DEF e, f
        <2> QED BY <1>2, <2>1, WalkFacts
    <1> QED BY <1>1, <1>2

(* So does the exact scan, and it misses none. *)
LEMMA ScanFacts ==
    ASSUME NEW g, IsGraph(g), NEW q \in Int, NEW k \in Nat, NEW allowed
    PROVE  /\ search_exact_filtered(g, q, k, allowed) \subseteq Matching(g, allowed)
           /\ k <= Cardinality(Matching(g, allowed)) =>
                Cardinality(search_exact_filtered(g, q, k, allowed)) = k
    <1> DEFINE S == Matching(g, allowed)
    <1>1. search_exact_filtered(g, q, k, allowed) = TopK(g, S, q, k)
        BY Zenon DEF search_exact_filtered, Matching
    <1>2. S \in SUBSET Nat /\ S \subseteq Ords(g) /\ \A n \in S : g.nodes[n].vec \in Int
        BY GraphFacts DEF Matching
    <1> HIDE DEF S
    <1>3. IsFiniteSet(S)
        BY <1>2, GraphFacts, FS_Subset
    <1>4. /\ TopK(g, S, q, k) \subseteq S
          /\ k <= Cardinality(S) => Cardinality(TopK(g, S, q, k)) = k
        BY <1>2, <1>3, TopKFacts
    <1> QED BY <1>1, <1>4 DEF S

LEMMA IdsFacts ==
    ASSUME NEW g, IsGraph(g), NEW allowed, allowed \in Filters({g.nodes[n].id : n \in Ords(g)})
    PROVE  /\ IsFiniteSet(allowed) /\ Cardinality(allowed) \in Nat
           /\ allowed \subseteq {g.nodes[n].id : n \in Ords(g)}
           /\ Matching(g, Id) = Matching(g, {g.nodes[n].id : n \in Ords(g)})
    <1> DEFINE T == {g.nodes[n].id : n \in Ords(g)}
    <1>1. /\ Ords(g) \in SUBSET Nat /\ IsFiniteSet(Ords(g)) /\ \A n \in Ords(g) : g.nodes[n].id \in Id
        BY GraphFacts
    <1>2. Matching(g, Id) = Matching(g, T)
        BY <1>1 DEF Matching
    <1>3. IsFiniteSet(T)
        <2> DEFINE f == [n \in Ords(g) |-> g.nodes[n].id]
        <2>1. f \in Surjection(Ords(g), T)
            BY Zenon DEF Surjection
        <2> HIDE DEF f, T
        <2> QED BY <1>1, <2>1, FS_Surjection
    <1>4. allowed \subseteq T
        BY DEF Filters
    <1> HIDE DEF T
    <1>5. IsFiniteSet(allowed)
        BY <1>3, <1>4, FS_Subset
    <1>6. Cardinality(allowed) \in Nat
        BY <1>5, FS_CardinalityType
    <1> QED BY <1>2, <1>4, <1>5, <1>6 DEF T

(* The rows of a native index that match a filter are those the filter names. *)
LEMMA NativeFacts ==
    ASSUME NEW g, IsGraph(g), Sequential(g), NEW allowed,
           allowed \in Filters({g.nodes[n].id : n \in Ords(g)})
    PROVE  /\ {g.nodes[n].id : n \in Ords(g)} = Ords(g)
           /\ Matching(g, allowed) = allowed
           /\ Cardinality(allowed) = Len(g.nodes) => allowed = Ords(g)
    <1>1. \A n \in Ords(g) : g.nodes[n].id = n /\ Returnable(g, n)
        BY DEF Sequential, IsRow, Returnable
    <1>2. {g.nodes[n].id : n \in Ords(g)} = Ords(g)
        BY <1>1
    <1>3. allowed \subseteq Ords(g)
        BY <1>2, IdsFacts
    <1>4. Matching(g, allowed) = allowed
        BY <1>1, <1>3 DEF Matching
    <1>5. ASSUME Cardinality(allowed) = Len(g.nodes) PROVE allowed = Ords(g)
        <2>1. IsFiniteSet(Ords(g)) /\ Ords(g) = 1..Len(g.nodes) /\ Len(g.nodes) \in Nat
            BY GraphFacts
        <2>2. Cardinality(Ords(g)) = Len(g.nodes)
            <3> DEFINE k == Len(g.nodes)
            <3>1. 1 \in Int /\ k \in Int /\ (IF 1 > k THEN 0 ELSE k - 1 + 1) = k
                BY <2>1
            <3> HIDE DEF k
            <3>2. Cardinality(1..k) = k
                BY <3>1, FS_Interval, Zenon
            <3> QED BY <2>1, <3>2 DEF k
        <2> QED BY <1>3, <1>5, <2>1, <2>2, FS_Subset
    <1> QED BY <1>2, <1>4, <1>5
-----------------------------------------------------------------------------
(* Theorems                                                                *)

(* What one search answers matches its filter. *)
LEMMA AnswerFacts ==
    ASSUME GraphInv, NEW q \in Query, NEW k \in Wanted, NEW allowed \in Filters(Ids)
    PROVE  Answer(q, k, allowed) \subseteq Matching(graph, allowed)
    <1> DEFINE rows == Len(graph.nodes)
               count == Cardinality(allowed)
               wanted == Min({k, count})
               boost == Max({4, rows \div count})
    <1>1. IsGraph(graph) /\ Rooted(graph) /\ (native => Sequential(graph)) /\ native \in BOOLEAN
        BY DEF GraphInv
    <1>2. q \in Int /\ k \in Nat
        BY HnswAssumption
    <1>3. /\ count \in Nat /\ Ids = {graph.nodes[n].id : n \in Ords(graph)}
          /\ Matching(graph, Id) = Matching(graph, Ids) /\ rows \in Nat
        BY <1>1, IdsFacts, GraphFacts DEF Ids
    <1>4. wanted \in Nat /\ Min({k, rows}) \in Nat
        <2>1. k \in Int /\ count \in Int /\ rows \in Int
            BY <1>2, <1>3
        <2> HIDE DEF rows, count
        <2>2. Min({k, count}) \in {k, count}
            BY <2>1, OfTwo, Zenon
        <2>3. Min({k, rows}) \in {k, rows}
            BY <2>1, OfTwo, Zenon
        <2> QED BY <1>2, <1>3, <2>2, <2>3
    <1> HIDE DEF wanted, boost
    <1>5. \A m \in Nat : /\ HnswSearch(graph, q, m) \subseteq Matching(graph, Ids)
                         /\ search_filtered(graph, q, m, allowed, boost) \subseteq Matching(graph, allowed)
                         /\ search_filtered(graph, q, m, allowed, 4) \subseteq Matching(graph, allowed)
        BY <1>1, <1>2, <1>3, SearchesFacts
    <1>6. CASE ~native
        <2>1. Answer(q, k, allowed) = IF allowed = Ids THEN HnswSearch(graph, q, k)
                                      ELSE search_filtered(graph, q, k, allowed, 4)
            BY <1>6 DEF Answer
        <2> QED BY <1>2, <1>5, <2>1
    <1>7. CASE native
        <2>1. Answer(q, k, allowed) = NativeHits(graph, q, k, allowed, allowed = Ids)
            BY <1>7 DEF Answer
        <2>2. count = rows => allowed = Ids
            BY <1>1, <1>3, <1>7, NativeFacts
        <2>3. \/ /\ allowed = Ids
                 /\ Answer(q, k, allowed) = HnswSearch(graph, q, Min({k, rows}))
              \/ Answer(q, k, allowed) = {}
              \/ Answer(q, k, allowed) = search_exact_filtered(graph, q, wanted, allowed)
              \/ count = rows /\ Answer(q, k, allowed) = HnswSearch(graph, q, wanted)
              \/ Answer(q, k, allowed) = search_filtered(graph, q, wanted, allowed, boost)
            BY <2>1, Zenon DEF NativeHits, wanted, boost
        <2>4. search_exact_filtered(graph, q, wanted, allowed) \subseteq Matching(graph, allowed)
            BY <1>1, <1>2, <1>4, ScanFacts
        <2> HIDE DEF count, rows
        <2> QED BY <1>4, <1>5, <2>2, <2>3, <2>4
    <1> QED BY <1>1, <1>6, <1>7

LEMMA HitsCurrentHolds == Inv => HitsCurrent
    <1> SUFFICES ASSUME Inv, NEW q \in Query, NEW k \in Wanted, NEW allowed \in Filters(Ids)
                 PROVE  LET hits == Answer(q, k, allowed)
                        IN  /\ \A n \in hits : /\ graph.nodes[n].id \in allowed
                                               /\ live[graph.nodes[n].id] = graph.nodes[n].vec
                            /\ \A n, o \in hits : graph.nodes[n].id = graph.nodes[o].id => n = o
        BY Zenon DEF HitsCurrent
    <1>1. GraphInv /\ IsGraph(graph) /\ LastWins(graph) /\ Current(graph)
        BY DEF Inv, GraphInv
    <1>2. Answer(q, k, allowed) \subseteq Matching(graph, allowed)
        BY <1>1, AnswerFacts
    <1>3. \A n \in Matching(graph, allowed) :
             /\ n \in Ords(graph) /\ graph.nodes[n].id \in allowed
             /\ live[graph.nodes[n].id] = graph.nodes[n].vec /\ ~graph.nodes[n].superseded
        BY <1>1 DEF Matching, Current, Returnable
    <1>4. \A n, o \in Matching(graph, allowed) : graph.nodes[n].id = graph.nodes[o].id => n = o
        <2>1. Ords(graph) \in SUBSET Nat
            BY <1>1, GraphFacts
        <2> QED BY <1>1, <1>3, <2>1 DEF LastWins
    <1> QED BY <1>2, <1>3, <1>4

(* No search returns an id that was removed or filtered out, an id twice, or an
   id with a vector it no longer has (the superseded marks and tombstones of
   search()). *)
THEOREM HitsAreCurrent == Spec => []HitsCurrent
    BY GraphsAreSound, HitsCurrentHolds, PTL

LEMMA FilteredCompleteHolds == Inv => FilteredComplete
    <1> SUFFICES ASSUME Inv, native, NEW q \in Query, NEW k \in Wanted, NEW allowed \in Filters(Ids)
                 PROVE  Cardinality(NativeHits(graph, q, k, allowed, FALSE)) = Min({k, Cardinality(allowed)})
        BY Zenon DEF FilteredComplete
    <1> DEFINE rows == Len(graph.nodes)
               count == Cardinality(allowed)
               wanted == Min({k, count})
               boost == Max({4, rows \div count})
               hits == IF count = rows THEN HnswSearch(graph, q, wanted)
                       ELSE search_filtered(graph, q, wanted, allowed, boost)
               scan == search_exact_filtered(graph, q, wanted, allowed)
               found == NativeHits(graph, q, k, allowed, FALSE)
    <1>1. IsGraph(graph) /\ Rooted(graph) /\ Sequential(graph)
        BY DEF Inv, GraphInv
    <1>2. q \in Int /\ k \in Nat
        BY HnswAssumption
    <1>3. count \in Nat /\ Matching(graph, allowed) = allowed
        BY <1>1, IdsFacts, NativeFacts DEF Ids
    <1>4. wanted \in Nat /\ wanted <= count
        <2>1. k \in Int /\ count \in Int
            BY <1>2, <1>3
        <2> HIDE DEF count
        <2>2. Min({k, count}) \in {k, count} /\ Min({k, count}) <= count
            BY <2>1, OfTwo, Zenon
        <2> QED BY <1>2, <1>3, <2>2
    <1>5. found = IF wanted = 0 THEN {} ELSE IF Cardinality(hits) < wanted THEN scan ELSE hits
        BY Zenon DEF NativeHits
    <1> HIDE DEF wanted, boost, found
    <1>6. Cardinality(hits) \in Nat /\ Cardinality(hits) <= wanted
        <2>1. /\ Cardinality(HnswSearch(graph, q, wanted)) \in Nat
              /\ Cardinality(HnswSearch(graph, q, wanted)) <= wanted
              /\ Cardinality(search_filtered(graph, q, wanted, allowed, boost)) \in Nat
              /\ Cardinality(search_filtered(graph, q, wanted, allowed, boost)) <= wanted
            BY <1>1, <1>2, <1>4, SearchesFacts
        <2> QED BY <2>1
    <1>7. Cardinality(scan) = wanted
        BY <1>1, <1>2, <1>3, <1>4, ScanFacts
    <1> HIDE DEF hits, scan
    <1>8. Cardinality(found) = wanted
        BY <1>4, <1>5, <1>6, <1>7, FS_EmptySet
    <1> QED BY <1>8 DEF wanted, found

(* A filtered search of the native index returns as many hits as exist, however
   badly the linking threads connected the graph (the exact scan that fills in
   when "hits.size() < wanted", native_hnsw.cpp). *)
THEOREM FilteredSearchIsComplete == Spec => []FilteredComplete
    BY GraphsAreSound, FilteredCompleteHolds, PTL

LEMMA ListsBoundedHolds == Inv => ListsBounded
    <1> SUFFICES ASSUME Inv, draft # NoIndex, NEW n \in Ords(draft), NEW layer \in Layer
                 PROVE  /\ Len(Links(draft, n, layer)) <= maxM(layer) + Cardinality(Owing(linker, n, layer))
                        /\ IsInjective(Links(draft, n, layer))
        BY Zenon DEF ListsBounded, Owing
    <1>1. Bounded(draft, linker)
        BY DEF Inv, DraftInv
    <1> QED BY <1>1, Zenon DEF Bounded

(* However the linking threads interleave, no neighbour list outgrows its limit
   by more than the appends whose prune is still to come, and none names a node
   twice (the re-check under the lock of connect_locked()). *)
THEOREM ListsStayBounded == Spec => []ListsBounded
    BY GraphsAreSound, ListsBoundedHolds, PTL

LEMMA SealIsMemoizationHolds == Inv => SealIsMemoization
    BY DEF Inv, SealInv, SealIsMemoization

(* Freezing, unfreezing, saving and loading a graph that no two searches froze
   at once change no neighbour list ("a sealed and an unsealed index answer
   every query identically", hnsw.hpp). *)
THEOREM LayoutsAgree == Spec => []SealIsMemoization
    BY GraphsAreSound, SealIsMemoizationHolds, PTL
=============================================================================
