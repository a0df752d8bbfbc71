----------------------- MODULE PostgresServiceProofs -----------------------
(***************************************************************************)
(* The PostgreSQL backend for every set of documents, contents and         *)
(* clients, every finite pool, any number of calls, lost connections and   *)
(* restarts: what it reported is in the database, its tables agree, a      *)
(* hybrid search reads one state, the pool stays clean, and the committed  *)
(* revisions implement RevisionedBackend.                                  *)
(*                                                                         *)
(* postgres::migrate() for any number of processes, any last version and   *)
(* any number of failing statements and lost sessions, beside a process    *)
(* that serves the backend: the advisory lock keeps the schema agreed.     *)
(***************************************************************************)
EXTENDS PostgresService, FiniteSetTheorems, WellFoundedInduction, TLAPS

Values == Content \cup {NoDoc}
Rows == [rev : Nat, val : Values]
Corpora == {NoCorpus} \cup {IdentityOf[v] : v \in Content}

AllTables == [corpus : Corpora, generation : Nat, revisions : [Doc -> Rows],
              documents : [Doc -> Rows], chunks : [Doc -> Rows]]

Transactions == [open : BOOLEAN, aborted : BOOLEAN, began : Nat, work : AllTables]

(* The steps of a call inside its transaction. *)
InTransaction == {"check", "document", "chunks", "revision", "commit", "dense", "done"}
Steps == {"idle", "acquire", "begin", "rollback"} \cup InTransaction

Hits == SUBSET (Doc \X Nat)

BackendTypes ==
    /\ db \in AllTables
    /\ tx \in [Connections -> Transactions]
    /\ broken \subseteq Connections
    /\ available \in Seq(Connections)
    /\ pc \in [Clients -> Steps]
    /\ op = [t \in Clients |-> op[t]]
    /\ lease \in [Clients -> Connections \cup {NoConn}]
    /\ seen \in [Clients -> [lexical : Hits, dense : Hits]]
    /\ acked \subseteq [doc : Doc, rev : Nat, val : Values]

(* The arguments of activate() and erase(). *)
IsMutation(o) ==
    /\ o.kind \in {"activate", "erase"}
    /\ o.doc \in Doc /\ o.rev \in Nat /\ o.val \in Values
    /\ o.kind = "erase" <=> o.val = NoDoc

Stored(o) == [rev |-> o.rev, val |-> o.val]
StoredDocument(o) == IF o.kind = "erase" THEN NoRow ELSE Stored(o)
-----------------------------------------------------------------------------
(* What a mutation has made of the tables it began with. *)
Checked(o, before, w) ==
    /\ o.rev > before.revisions[o.doc].rev
    /\ before.corpus \in {NoCorpus, w.corpus}
    /\ o.kind = "activate" => w.corpus = IdentityOf[o.val]

Worked(at, o, before, w) ==
    /\ at = "check" => w = before
    /\ at \in {"document", "chunks", "revision", "commit"} => Checked(o, before, w)
    /\ at \in {"document", "chunks", "revision"} =>
        w.revisions = before.revisions /\ w.generation = before.generation
    /\ at = "document" => w.documents = before.documents /\ w.chunks = before.chunks
    /\ at \in {"chunks", "revision", "commit"} =>
        w.documents = [before.documents EXCEPT ![o.doc] = StoredDocument(o)]
    /\ at = "chunks" =>
        o.kind = "activate" /\ w.chunks = [before.chunks EXCEPT ![o.doc] = NoRow]
    /\ at \in {"revision", "commit"} =>
        w.chunks = [before.chunks EXCEPT ![o.doc] = StoredDocument(o)]
    /\ at = "commit" =>
        /\ w.revisions = [before.revisions EXCEPT ![o.doc] = Stored(o)]
        /\ w.generation = before.generation + 1

(* Revisions that were committed at one time are still there, or newer. *)
Since(old, new) ==
    \A d \in Doc : new[d].rev > old[d].rev \/ new[d] = old[d]

(* The call of a client and its transaction: open exactly while the call is
   in it; as long as no other mutation has committed, its work is what the
   call has made of the committed tables. *)
ClientInv(t) ==
    LET x == tx[lease[t]] IN
    /\ lease[t] = NoConn <=> pc[t] \in {"idle", "acquire"}
    /\ pc[t] # "idle" => op[t].kind \in {"hybrid", "read"} \/ IsMutation(op[t])
    /\ pc[t] \in {"document", "chunks", "revision", "commit"} => IsMutation(op[t])
    /\ pc[t] = "begin" => ~x.open
    /\ pc[t] \in InTransaction =>
        /\ lease[t] \notin broken /\ x.open /\ ~x.aborted
        /\ x.began <= db.generation
        /\ x.began = db.generation => Worked(pc[t], op[t], db, x.work)
    /\ pc[t] = "check" => Since(x.work.revisions, db.revisions)
    /\ pc[t] = "dense" => seen[t].lexical = Matching(x.work)
    /\ pc[t] = "done" => seen[t].lexical = seen[t].dense

(* A connection has one owner: one client, or the pool, once. *)
OneOwner ==
    /\ \A t, u \in Clients : lease[t] # NoConn /\ lease[t] = lease[u] => t = u
    /\ \A t \in Clients : lease[t] \notin ToSet(available)
    /\ \A i, j \in DOMAIN available : available[i] = available[j] => i = j

(* Connections in the pool are between transactions. *)
PoolIdle == \A c \in ToSet(available) : ~tx[c].open

DataInv ==
    /\ BackendTypes
    /\ OneOwner
    /\ PoolIdle
    /\ \A t \in Clients : ClientInv(t)
    /\ AckedStays
    /\ TablesAgree
-----------------------------------------------------------------------------
(* Sequences without repetition                                            *)

(* acquire(): what is left of the pool has neither the connection that was
   taken nor a repetition. *)
LEMMA FrontFacts ==
    ASSUME NEW S, NEW s \in Seq(S), s # <<>>,
           \A i, j \in DOMAIN s : s[i] = s[j] => i = j
    PROVE  /\ Front(s) \in Seq(S) /\ Len(Front(s)) = Len(s) - 1
           /\ Last(s) \in S /\ Last(s) \in ToSet(s)
           /\ ToSet(Front(s)) = ToSet(s) \ {Last(s)}
           /\ \A i, j \in DOMAIN Front(s) : Front(s)[i] = Front(s)[j] => i = j
    <1>1. Len(s) \in Nat /\ Len(s) > 0 /\ DOMAIN s = 1..Len(s)
        OBVIOUS
    <1>2. /\ Front(s) \in Seq(S) /\ Len(Front(s)) = Len(s) - 1
          /\ DOMAIN Front(s) = 1..(Len(s) - 1)
          /\ \A i \in 1..(Len(s) - 1) : Front(s)[i] = s[i]
        BY <1>1 DEF Front
    <1>3. Last(s) = s[Len(s)] /\ Last(s) \in S
        BY <1>1 DEF Last
    <1>4. ToSet(Front(s)) = ToSet(s) \ {Last(s)}
        BY <1>1, <1>2, <1>3 DEF ToSet
    <1>5. Last(s) \in ToSet(s)
        BY <1>1, <1>3 DEF ToSet
    <1>6. \A i, j \in DOMAIN Front(s) : Front(s)[i] = Front(s)[j] => i = j
        BY <1>1, <1>2
    <1> QED BY <1>2, <1>3, <1>4, <1>5, <1>6

(* ~Lease: a connection that was out joins the pool once. *)
LEMMA AppendFacts ==
    ASSUME NEW S, NEW s \in Seq(S), NEW c \in S, c \notin ToSet(s),
           \A i, j \in DOMAIN s : s[i] = s[j] => i = j
    PROVE  /\ Append(s, c) \in Seq(S) /\ Len(Append(s, c)) = Len(s) + 1
           /\ ToSet(Append(s, c)) = ToSet(s) \cup {c}
           /\ \A i, j \in DOMAIN Append(s, c) : Append(s, c)[i] = Append(s, c)[j] => i = j
    <1>1. Len(s) \in Nat /\ DOMAIN s = 1..Len(s)
        OBVIOUS
    <1>2. /\ Append(s, c) \in Seq(S) /\ Len(Append(s, c)) = Len(s) + 1
          /\ DOMAIN Append(s, c) = 1..(Len(s) + 1)
          /\ \A i \in 1..Len(s) : Append(s, c)[i] = s[i]
          /\ Append(s, c)[Len(s) + 1] = c
        BY <1>1
    <1>3. ToSet(Append(s, c)) = ToSet(s) \cup {c}
        BY <1>1, <1>2 DEF ToSet
    <1>4. \A i \in 1..Len(s) : s[i] # c
        BY <1>1 DEF ToSet
    <1>5. \A i, j \in DOMAIN Append(s, c) : Append(s, c)[i] = Append(s, c)[j] => i = j
        BY <1>1, <1>2, <1>4
    <1> QED BY <1>2, <1>3, <1>5

(* ConnectionPool::open(): every connection, each once. *)
LEMMA NewPoolFacts ==
    ASSUME NEW s \in NewPool
    PROVE  /\ s \in Seq(Connections) /\ Len(s) = Cardinality(Connections)
           /\ ToSet(s) = Connections
           /\ \A i, j \in DOMAIN s : s[i] = s[j] => i = j
    <1> DEFINE n == Cardinality(Connections)
    <1>1. n \in Nat
        BY PostgresAssumption, FS_CardinalityType
    <1>2. s \in [1..n -> Connections] /\ \A i, j \in 1..n : i # j => s[i] # s[j]
        BY DEF NewPool, SetToSeqs
    <1> HIDE DEF n
    <1>3. s \in Seq(Connections) /\ Len(s) = n
        BY <1>1, <1>2
    <1>4. Cardinality(1..n) = n
        BY <1>1, FS_Interval
    <1>5. s \in Injection(1..n, Connections)
        BY <1>2 DEF Injection, IsInjective
    <1>6. s \in Surjection(1..n, Connections)
        BY <1>4, <1>5, PostgresAssumption, FS_Injection DEF n
    <1>7. ToSet(s) = Connections
        BY <1>2, <1>6 DEF Surjection, ToSet
    <1> QED BY <1>2, <1>3, <1>7 DEF n
-----------------------------------------------------------------------------
(* Steps of one client                                                     *)

OnlyClient(t) ==
    \A u \in Clients \ {t} :
        /\ pc'[u] = pc[u] /\ op'[u] = op[u]
        /\ lease'[u] = lease[u] /\ seen'[u] = seen[u]

OnlyConnection(c) == \A e \in Connections \ {c} : tx'[e] = tx[e]

(* Revisions only grow. *)
LEMMA SinceTransitive ==
    ASSUME NEW f \in [Doc -> Rows], NEW g \in [Doc -> Rows], NEW h \in [Doc -> Rows],
           Since(f, g), Since(g, h)
    PROVE  Since(f, h)
    <1>1. \A d \in Doc : f[d].rev \in Nat /\ g[d].rev \in Nat /\ h[d].rev \in Nat
        BY DEF Rows
    <1> QED BY <1>1 DEF Since

(* The other clients do not notice what a call does on its own connection. *)
LEMMA OthersKeep ==
    ASSUME DataInv, NEW t \in Clients, OnlyClient(t), OnlyConnection(lease[t]),
           broken' \subseteq broken \cup {lease[t]}, db' = db,
           NEW u \in Clients, u # t
    PROVE  ClientInv(u)'
    <1>1. ClientInv(u) /\ lease[u] \in Connections \cup {NoConn}
        BY DEF DataInv, BackendTypes
    <1>2. pc'[u] = pc[u] /\ op'[u] = op[u] /\ lease'[u] = lease[u] /\ seen'[u] = seen[u]
        BY DEF OnlyClient
    <1>3. CASE lease[u] = NoConn
        BY <1>1, <1>2, <1>3 DEF ClientInv, InTransaction
    <1>4. CASE lease[u] # NoConn
        <2>1. lease[u] # lease[t] /\ lease[u] \in Connections
            BY <1>1, <1>4 DEF DataInv, OneOwner
        <2>2. tx'[lease[u]] = tx[lease[u]]
            BY <2>1 DEF OnlyConnection
        <2>3. lease[u] \notin broken => lease[u] \notin broken'
            BY <2>1
        <2>4. /\ Matching(tx[lease[u]].work)' = Matching(tx[lease[u]].work)
              /\ Worked(pc[u], op[u], db, tx[lease[u]].work)' <=> Worked(pc[u], op[u], db, tx[lease[u]].work)
            BY <1>2, <2>2 DEF Matching, Worked, Checked, Stored, StoredDocument, NoRow
        <2>5. IsMutation(op[u])' <=> IsMutation(op[u])
            BY <1>2 DEF IsMutation, Values
        <2>6. Since(tx[lease[u]].work.revisions, db.revisions)' <=>
                Since(tx[lease[u]].work.revisions, db.revisions)
            BY <1>2, <2>2 DEF Since
        <2> QED BY <1>1, <1>2, <2>2, <2>3, <2>4, <2>5, <2>6 DEF ClientInv, InTransaction
    <1> QED BY <1>3, <1>4

(* Nor does a commit disturb them: their own work is out of date. *)
LEMMA OthersKeepCommit ==
    ASSUME DataInv, NEW t \in Clients, OnlyClient(t), OnlyConnection(lease[t]),
           broken' \subseteq broken \cup {lease[t]},
           db' \in AllTables, db'.generation > db.generation,
           Since(db.revisions, db'.revisions),
           NEW u \in Clients, u # t
    PROVE  ClientInv(u)'
    <1>1. ClientInv(u) /\ lease[u] \in Connections \cup {NoConn}
        BY DEF DataInv, BackendTypes
    <1>2. pc'[u] = pc[u] /\ op'[u] = op[u] /\ lease'[u] = lease[u] /\ seen'[u] = seen[u]
        BY DEF OnlyClient
    <1>3. CASE lease[u] = NoConn
        BY <1>1, <1>2, <1>3 DEF ClientInv, InTransaction
    <1>4. CASE lease[u] # NoConn
        <2>1. lease[u] # lease[t] /\ lease[u] \in Connections
            BY <1>1, <1>4 DEF DataInv, OneOwner
        <2>2. tx'[lease[u]] = tx[lease[u]]
            BY <2>1 DEF OnlyConnection
        <2>3. lease[u] \notin broken => lease[u] \notin broken'
            BY <2>1
        <2>4. /\ tx[lease[u]].began \in Nat /\ tx[lease[u]].work \in AllTables
              /\ db.generation \in Nat /\ db'.generation \in Nat
            BY <2>1 DEF DataInv, BackendTypes, Transactions, AllTables
        <2>5. Since(tx[lease[u]].work.revisions, db.revisions) =>
                Since(tx[lease[u]].work.revisions, db'.revisions)
            <3>1. /\ tx[lease[u]].work.revisions \in [Doc -> Rows]
                  /\ db.revisions \in [Doc -> Rows] /\ db'.revisions \in [Doc -> Rows]
                BY <2>4 DEF DataInv, BackendTypes, AllTables
            <3> QED BY <3>1, SinceTransitive
        <2>6. tx[lease[u]].began <= db.generation =>
                tx[lease[u]].began <= db'.generation /\ tx[lease[u]].began # db'.generation
            BY <2>4
        <2>7. Matching(tx[lease[u]].work)' = Matching(tx[lease[u]].work)
            BY <1>2, <2>2 DEF Matching, NoRow
        <2>8. IsMutation(op[u])' <=> IsMutation(op[u])
            BY <1>2 DEF IsMutation, Values
        <2>9. Since(tx[lease[u]].work.revisions, db.revisions)' <=>
                Since(tx[lease[u]].work.revisions, db'.revisions)
            BY <1>2, <2>2 DEF Since
        <2> QED BY <1>1, <1>2, <2>2, <2>3, <2>5, <2>6, <2>7, <2>8, <2>9
                DEF ClientInv, InTransaction
    <1> QED BY <1>3, <1>4

(* A call that returns leaves its connection to the pool, between
   transactions. *)
LEMMA ReturnsKeeps ==
    ASSUME DataInv, NEW t \in Clients, Returns(t), lease[t] # NoConn,
           OnlyConnection(lease[t]), ~tx'[lease[t]].open
    PROVE  /\ available' \in Seq(Connections)
           /\ pc' \in [Clients -> Steps]
           /\ op' = [u \in Clients |-> op'[u]]
           /\ lease' \in [Clients -> Connections \cup {NoConn}]
           /\ seen' \in [Clients -> [lexical : Hits, dense : Hits]]
           /\ OnlyClient(t) /\ OneOwner' /\ PoolIdle' /\ ClientInv(t)'
    <1>1. lease[t] \in Connections /\ lease[t] \notin ToSet(available)
        BY DEF DataInv, BackendTypes, OneOwner
    <1>2. /\ available' \in Seq(Connections)
          /\ ToSet(available') = ToSet(available) \cup {lease[t]}
          /\ \A i, j \in DOMAIN available' : available'[i] = available'[j] => i = j
        BY <1>1, AppendFacts DEF DataInv, BackendTypes, OneOwner, Returns
    <1>3. /\ pc' \in [Clients -> Steps]
          /\ op' = [u \in Clients |-> op'[u]]
          /\ lease' \in [Clients -> Connections \cup {NoConn}]
          /\ seen' \in [Clients -> [lexical : Hits, dense : Hits]]
        BY DEF DataInv, BackendTypes, Returns, Steps, Hits
    <1>4. OnlyClient(t) /\ pc'[t] = "idle" /\ lease'[t] = NoConn
        BY DEF DataInv, BackendTypes, Returns, OnlyClient
    <1>5. OneOwner'
        <2>1. NoConn \notin ToSet(available')
            BY <1>2, PostgresAssumption DEF ToSet
        <2>2. \A u \in Clients \ {t} : lease[u] # NoConn => lease[u] # lease[t]
            BY DEF DataInv, OneOwner
        <2>3. \A u \in Clients : lease'[u] \notin ToSet(available')
            BY <1>2, <1>4, <2>1, <2>2 DEF OnlyClient, DataInv, OneOwner
        <2> QED BY <1>2, <1>4, <2>3 DEF OnlyClient, DataInv, OneOwner
    <1>6. PoolIdle'
        <2>1. ToSet(available) \subseteq Connections \ {lease[t]}
            BY <1>1 DEF DataInv, BackendTypes, ToSet
        <2> QED BY <1>2, <2>1 DEF PoolIdle, DataInv, OnlyConnection
    <1>7. ClientInv(t)'
        BY <1>4 DEF ClientInv, InTransaction
    <1> QED BY <1>2, <1>3, <1>4, <1>5, <1>6, <1>7

(* A step inside a call: only the client and its connection change. *)
LEMMA LeasedStep ==
    ASSUME DataInv, NEW t \in Clients, OnlyClient(t), OnlyConnection(lease[t]),
           lease' = lease, available' = available, db' = db, acked' = acked,
           broken' \subseteq broken \cup {lease[t]},
           BackendTypes', ClientInv(t)'
    PROVE  DataInv'
    <1>1. \A u \in Clients : ClientInv(u)'
        BY OthersKeep
    <1>2. OneOwner'
        BY DEF DataInv, OneOwner
    <1>3. PoolIdle'
        <2>1. ToSet(available) \subseteq Connections \ {lease[t]}
            BY DEF DataInv, BackendTypes, OneOwner, ToSet
        <2> QED BY <2>1 DEF DataInv, PoolIdle, OnlyConnection
    <1>4. AckedStays' /\ TablesAgree'
        BY DEF DataInv, AckedStays, TablesAgree
    <1> QED BY <1>1, <1>2, <1>3, <1>4 DEF DataInv

(* A call returns without having changed the committed tables. *)
LEMMA ReturningStep ==
    ASSUME DataInv, NEW t \in Clients, Returns(t), lease[t] # NoConn,
           tx' \in [Connections -> Transactions],
           OnlyConnection(lease[t]), ~tx'[lease[t]].open,
           db' = db, broken' = broken,
           acked' \subseteq [doc : Doc, rev : Nat, val : Values], AckedStays'
    PROVE  DataInv'
    <1>1. BackendTypes' /\ OnlyClient(t) /\ OneOwner' /\ PoolIdle' /\ ClientInv(t)'
        BY ReturnsKeeps DEF DataInv, BackendTypes
    <1>2. \A u \in Clients : ClientInv(u)'
        BY <1>1, OthersKeep
    <1>3. TablesAgree'
        BY DEF DataInv, TablesAgree
    <1> QED BY <1>1, <1>2, <1>3 DEF DataInv

(* NoTx is a transaction, and it is not open. *)
LEMMA NoTxFacts == NoTx \in Transactions /\ ~NoTx.open /\ EmptyTables \in AllTables
    BY DEF NoTx, Transactions, EmptyTables, AllTables, NoRows, NoRow, Rows, Values, Corpora

(* The initial state: an empty database and a full pool. *)
LEMMA DataInitial == BackendInit => DataInv
    <1> SUFFICES ASSUME BackendInit PROVE DataInv
        OBVIOUS
    <1>1. /\ available \in Seq(Connections)
          /\ \A i, j \in DOMAIN available : available[i] = available[j] => i = j
          /\ ToSet(available) = Connections
        BY NewPoolFacts DEF BackendInit
    <1>2. BackendTypes
        BY <1>1, NoTxFacts DEF BackendInit, BackendTypes, Steps, Hits
    <1>3. OneOwner
        BY <1>1, PostgresAssumption DEF BackendInit, OneOwner
    <1>4. PoolIdle
        BY <1>1, NoTxFacts DEF BackendInit, PoolIdle
    <1>5. \A t \in Clients : ClientInv(t)
        BY DEF BackendInit, ClientInv, InTransaction
    <1>6. AckedStays /\ TablesAgree
        BY DEF BackendInit, AckedStays, TablesAgree, EmptyTables, NoRows, NoRow
    <1> QED BY <1>2, <1>3, <1>4, <1>5, <1>6 DEF DataInv

(* A call begins. *)
LEMMA CallKeeps ==
    ASSUME DataInv, NEW t \in Clients, NEW o, Call(t, o),
           o.kind \in {"hybrid", "read"} \/ IsMutation(o)
    PROVE  DataInv'
    <1>1. BackendTypes'
        BY DEF DataInv, BackendTypes, Call, Steps
    <1>2. OnlyClient(t) /\ OnlyConnection(lease[t])
        BY DEF DataInv, BackendTypes, Call, OnlyClient, OnlyConnection
    <1>3. pc'[t] = "acquire" /\ op'[t] = o /\ lease'[t] = NoConn
        BY DEF DataInv, BackendTypes, Call, ClientInv
    <1>4. ClientInv(t)'
        BY <1>3 DEF ClientInv, InTransaction, IsMutation, Values
    <1> QED BY <1>1, <1>2, <1>4, LeasedStep DEF Call

(* So do activate(), erase() and the searches. *)
LEMMA CallsKeep ==
    ASSUME DataInv, NEW t \in Clients,
           CallActivate(t) \/ CallErase(t) \/ CallHybrid(t) \/ CallRead(t)
    PROVE  DataInv'
    <1>1. CASE CallActivate(t)
        <2>1. PICK d \in Doc, r \in 1..MaxRevision, v \in Content :
                Call(t, [kind |-> "activate", doc |-> d, rev |-> r, val |-> v])
            BY <1>1 DEF CallActivate
        <2>2. IsMutation([kind |-> "activate", doc |-> d, rev |-> r, val |-> v])
            BY PostgresAssumption DEF IsMutation, Values
        <2> QED BY <2>1, <2>2, CallKeeps
    <1>2. CASE CallErase(t)
        <2>1. PICK d \in Doc, r \in 1..MaxRevision :
                Call(t, [kind |-> "erase", doc |-> d, rev |-> r, val |-> NoDoc])
            BY <1>2 DEF CallErase
        <2>2. IsMutation([kind |-> "erase", doc |-> d, rev |-> r, val |-> NoDoc])
            BY PostgresAssumption DEF IsMutation, Values
        <2> QED BY <2>1, <2>2, CallKeeps
    <1>3. CASE CallHybrid(t)
        BY <1>3, CallKeeps DEF CallHybrid
    <1>4. CASE CallRead(t)
        BY <1>4, CallKeeps DEF CallRead
    <1> QED BY <1>1, <1>2, <1>3, <1>4

(* acquire() takes a connection that nobody else has. *)
LEMMA AcquireKeeps ==
    ASSUME DataInv, NEW t \in Clients, Acquire(t)
    PROVE  DataInv'
    <1> DEFINE c == Last(available)
    <1>1. /\ available' \in Seq(Connections) /\ c \in Connections
          /\ c \in ToSet(available) /\ ToSet(available') = ToSet(available) \ {c}
          /\ \A i, j \in DOMAIN available' : available'[i] = available'[j] => i = j
        BY FrontFacts DEF DataInv, BackendTypes, OneOwner, Acquire
    <1> HIDE DEF c
    <1>2. lease[t] = NoConn /\ lease' = [lease EXCEPT ![t] = c]
        BY DEF DataInv, ClientInv, Acquire, c
    <1>3. BackendTypes'
        BY <1>1, <1>2 DEF DataInv, BackendTypes, Acquire, Steps
    <1>4. OnlyClient(t) /\ OnlyConnection(lease[t])
        BY <1>2 DEF DataInv, BackendTypes, Acquire, OnlyClient, OnlyConnection
    <1>5. \A u \in Clients : lease[u] # c
        BY <1>1 DEF DataInv, OneOwner
    <1>6. OneOwner'
        BY <1>1, <1>2, <1>5 DEF DataInv, BackendTypes, OneOwner
    <1>7. PoolIdle'
        BY <1>1 DEF DataInv, PoolIdle, Acquire
    <1>8. ClientInv(t)'
        <2>1. pc'[t] = "begin" /\ lease'[t] = c /\ op'[t] = op[t] /\ ~tx'[c].open
            BY <1>1, <1>2 DEF DataInv, BackendTypes, PoolIdle, Acquire
        <2>2. c # NoConn
            BY <1>1, PostgresAssumption
        <2>3. op[t].kind \in {"hybrid", "read"} \/ IsMutation(op[t])
            BY DEF DataInv, ClientInv, Acquire
        <2>4. IsMutation(op[t])' <=> IsMutation(op[t])
            BY <2>1 DEF IsMutation, Values
        <2> QED BY <2>1, <2>2, <2>3, <2>4 DEF ClientInv, InTransaction
    <1>9. \A u \in Clients : ClientInv(u)'
        BY <1>4, <1>8, OthersKeep DEF Acquire
    <1>10. AckedStays' /\ TablesAgree'
        BY DEF DataInv, AckedStays, TablesAgree, Acquire
    <1> QED BY <1>3, <1>6, <1>7, <1>9, <1>10 DEF DataInv

(* acquire() gives up after its timeout and has leased nothing. *)
LEMMA AcquireTimesOutKeeps ==
    ASSUME DataInv, NEW t \in Clients, AcquireTimesOut(t)
    PROVE  DataInv'
    <1>1. BackendTypes'
        BY DEF DataInv, BackendTypes, AcquireTimesOut, Steps
    <1>2. OnlyClient(t) /\ OnlyConnection(lease[t])
        BY DEF DataInv, BackendTypes, AcquireTimesOut, OnlyClient, OnlyConnection
    <1>3. pc'[t] = "idle" /\ lease'[t] = NoConn
        BY DEF DataInv, BackendTypes, AcquireTimesOut, ClientInv
    <1>4. ClientInv(t)'
        BY <1>3 DEF ClientInv, InTransaction
    <1> QED BY <1>1, <1>2, <1>4, LeasedStep DEF AcquireTimesOut

(* What holds of a client that has a lease. *)
LEMMA Leased ==
    ASSUME DataInv, NEW t \in Clients, pc[t] \notin {"idle", "acquire"}
    PROVE  /\ lease[t] \in Connections /\ lease[t] # NoConn
           /\ tx[lease[t]] \in Transactions /\ tx[lease[t]].work \in AllTables
           /\ ClientInv(t)
    BY PostgresAssumption DEF DataInv, BackendTypes, ClientInv, Transactions

(* BEGIN takes the committed tables as its snapshot. *)
LEMMA BeginKeeps ==
    ASSUME DataInv, NEW t \in Clients, Begin(t)
    PROVE  DataInv'
    <1> DEFINE c == lease[t]
    <1>1. /\ c \in Connections /\ c # NoConn /\ ClientInv(t)
          /\ pc[t] = "begin" /\ ~tx[c].open
        BY Leased DEF Begin, ClientInv
    <1>2. CASE c \in broken
        <2>1. Returns(t) /\ tx' = tx /\ db' = db /\ broken' = broken /\ acked' = acked
            BY <1>2 DEF Begin
        <2>2. AckedStays' /\ OnlyConnection(lease[t])
            BY <2>1 DEF DataInv, AckedStays, OnlyConnection
        <2> QED BY <1>1, <2>1, <2>2, ReturningStep DEF DataInv, BackendTypes
    <1>3. CASE c \notin broken
        <2> DEFINE x == [open |-> TRUE, aborted |-> FALSE,
                         began |-> db.generation, work |-> db]
        <2>1. /\ tx' = [tx EXCEPT ![c] = x] /\ pc' = [pc EXCEPT ![t] = "check"]
              /\ UNCHANGED <<available, lease, op, seen, db, broken, acked>>
            BY <1>3 DEF Begin, Goes
        <2>2. x \in Transactions
            BY DEF DataInv, BackendTypes, Transactions, AllTables
        <2> HIDE DEF x
        <2>3. BackendTypes'
            BY <2>1, <2>2 DEF DataInv, BackendTypes, Steps, InTransaction
        <2>4. OnlyClient(t) /\ OnlyConnection(c)
            BY <2>1 DEF DataInv, BackendTypes, OnlyClient, OnlyConnection
        <2>5. pc'[t] = "check" /\ tx'[c] = x /\ db.generation \in Nat
            BY <1>1, <2>1 DEF DataInv, BackendTypes, AllTables
        <2>6. IsMutation(op[t])' <=> IsMutation(op[t])
            BY <2>1 DEF IsMutation, Values
        <2>7. Worked(pc[t], op[t], db, tx[lease[t]].work)'
            BY <2>1, <2>5 DEF Worked, x
        <2>8. Since(tx[lease[t]].work.revisions, db.revisions)'
            BY <2>1, <2>5 DEF Since, x
        <2>9. ClientInv(t)'
            BY <1>1, <1>3, <2>1, <2>5, <2>6, <2>7, <2>8 DEF ClientInv, InTransaction, x
        <2> QED BY <2>1, <2>3, <2>4, <2>9, LeasedStep
    <1> QED BY <1>2, <1>3

(* A single query needs no transaction. *)
LEMMA ReadKeeps ==
    ASSUME DataInv, NEW t \in Clients, Read(t)
    PROVE  DataInv'
    <1>1. lease[t] # NoConn /\ ~tx[lease[t]].open
        BY Leased DEF Read, ClientInv
    <1>2. AckedStays' /\ OnlyConnection(lease[t])
        BY DEF DataInv, AckedStays, OnlyConnection, Read
    <1> QED BY <1>1, <1>2, ReturningStep DEF Read, DataInv, BackendTypes

(* The end of a transaction, whichever way. *)
LEMMA EndOfTransaction ==
    ASSUME DataInv, NEW t \in Clients, pc[t] \notin {"idle", "acquire"},
           tx' = [tx EXCEPT ![lease[t]] = NoTx]
    PROVE  /\ lease[t] # NoConn /\ tx' \in [Connections -> Transactions]
           /\ OnlyConnection(lease[t]) /\ ~tx'[lease[t]].open
    BY Leased, NoTxFacts DEF DataInv, BackendTypes, OnlyConnection

(* rollback() and the end of a search. *)
LEMMA RollbackKeeps ==
    ASSUME DataInv, NEW t \in Clients, Rollback(t) \/ HybridReturns(t)
    PROVE  DataInv'
    <1>1. /\ pc[t] \notin {"idle", "acquire"} /\ tx' = [tx EXCEPT ![lease[t]] = NoTx]
          /\ Returns(t) /\ UNCHANGED <<db, broken, acked>>
        BY DEF Rollback, HybridReturns
    <1>2. AckedStays'
        BY <1>1 DEF DataInv, AckedStays
    <1> QED BY <1>1, <1>2, EndOfTransaction, ReturningStep DEF DataInv, BackendTypes

(* A failing statement leaves a transaction that will be rolled back. *)
LEMMA StatementFailsKeeps ==
    ASSUME DataInv, NEW t \in Clients, StatementFails(t)
    PROVE  DataInv'
    <1>1. /\ lease[t] \in Connections /\ lease[t] # NoConn /\ ClientInv(t)
          /\ tx[lease[t]] \in Transactions /\ pc[t] \notin {"idle", "acquire"}
        BY Leased DEF StatementFails
    <1>2. tx' \in [Connections -> Transactions] /\ OnlyConnection(lease[t])
        <2> DEFINE x == [tx[lease[t]] EXCEPT !.aborted = TRUE]
        <2>1. x \in Transactions
            BY <1>1 DEF Transactions
        <2>2. tx' = [tx EXCEPT ![lease[t]] = x] \/ tx' = [tx EXCEPT ![lease[t]] = NoTx]
            BY DEF StatementFails
        <2> HIDE DEF x
        <2> QED BY <1>1, <2>1, <2>2, NoTxFacts DEF DataInv, BackendTypes, OnlyConnection
    <1>3. /\ broken' \subseteq broken \cup {lease[t]} /\ pc' = [pc EXCEPT ![t] = "rollback"]
          /\ UNCHANGED <<db, available, op, lease, seen, acked>>
        BY DEF StatementFails, Goes
    <1>4. BackendTypes'
        BY <1>1, <1>2, <1>3 DEF DataInv, BackendTypes, Steps
    <1>5. OnlyClient(t) /\ pc'[t] = "rollback"
        BY <1>3 DEF DataInv, BackendTypes, OnlyClient
    <1>6. IsMutation(op[t])' <=> IsMutation(op[t])
        BY <1>3 DEF IsMutation, Values
    <1>7. ClientInv(t)'
        BY <1>1, <1>3, <1>5, <1>6 DEF ClientInv, InTransaction
    <1> QED BY <1>2, <1>3, <1>4, <1>5, <1>7, LeasedStep

(* A statement of a mutation: its transaction has new work w. *)
LEMMA WorkStep ==
    ASSUME DataInv, NEW t \in Clients, pc[t] \in InTransaction, IsMutation(op[t]),
           NEW to \in {"document", "chunks", "revision", "commit"}, NEW w \in AllTables,
           Executes(lease[t], w) \/ (UNCHANGED <<db, tx>> /\ w = tx[lease[t]].work),
           Goes(t, to), Stays(t),
           tx[lease[t]].began = db.generation => Worked(to, op[t], db, w)
    PROVE  DataInv'
    <1> DEFINE c == lease[t]
               x == [tx[c] EXCEPT !.work = w]
    <1>1. /\ c \in Connections /\ c # NoConn /\ tx[c] \in Transactions /\ ClientInv(t)
          /\ tx[c].open /\ ~tx[c].aborted
        BY Leased DEF InTransaction, ClientInv
    <1>2. tx' = [tx EXCEPT ![c] = x] /\ db' = db
        <2>1. CASE Executes(c, w)
            BY <1>1, <2>1 DEF Executes
        <2>2. CASE UNCHANGED <<db, tx>> /\ w = tx[c].work
            <3>1. tx[c] = x
                BY <1>1, <2>2 DEF Transactions
            <3> QED BY <2>2, <3>1 DEF DataInv, BackendTypes
        <2> QED BY <2>1, <2>2
    <1>3. x \in Transactions
        BY <1>1 DEF Transactions
    <1>4. x.open /\ ~x.aborted /\ x.began = tx[c].began /\ x.work = w
        BY <1>1 DEF Transactions
    <1> HIDE DEF x
    <1>5. pc' = [pc EXCEPT ![t] = to] /\ UNCHANGED <<broken, available, op, lease, seen, acked>>
        BY DEF Goes, Stays
    <1>6. BackendTypes'
        BY <1>2, <1>3, <1>5 DEF DataInv, BackendTypes, Steps, InTransaction
    <1>7. OnlyClient(t) /\ OnlyConnection(c) /\ pc'[t] = to /\ tx'[c] = x
        BY <1>1, <1>2, <1>5 DEF DataInv, BackendTypes, OnlyClient, OnlyConnection
    <1>8. IsMutation(op[t])'
        BY <1>5 DEF IsMutation, Values
    <1>9. tx[c].began = db.generation => Worked(pc[t], op[t], db, tx[lease[t]].work)'
        BY <1>2, <1>4, <1>5, <1>7 DEF Worked, Checked, Stored, StoredDocument, NoRow
    <1>10. ClientInv(t)'
        BY <1>1, <1>2, <1>4, <1>5, <1>7, <1>8, <1>9 DEF ClientInv, InTransaction
    <1> QED BY <1>2, <1>5, <1>6, <1>7, <1>10, LeasedStep

(* A mutation that finds its revision recorded concludes: the row it saw was
   committed, and is there still or was replaced by a newer one. *)
LEMMA ConcludesKeeps ==
    ASSUME DataInv, NEW t \in Clients, pc[t] = "check", IsMutation(op[t]), NEW ok \in BOOLEAN,
           Concludes(t, ok),
           ok => tx[lease[t]].work.revisions[op[t].doc] = Stored(op[t])
    PROVE  DataInv'
    <1> DEFINE c == lease[t]
               a == [doc |-> op[t].doc, rev |-> op[t].rev, val |-> op[t].val]
    <1>1. /\ tx' = [tx EXCEPT ![c] = NoTx] /\ Returns(t) /\ UNCHANGED <<db, broken>>
          /\ acked' = acked \/ (ok /\ acked' = acked \cup {a})
        BY DEF Concludes, Acked
    <1>2. a \in [doc : Doc, rev : Nat, val : Values]
        BY DEF IsMutation
    <1>3. ok => \/ db.revisions[a.doc].rev > a.rev
                \/ db.revisions[a.doc] = [rev |-> a.rev, val |-> a.val]
        <2>1. Since(tx[c].work.revisions, db.revisions)
            BY Leased DEF ClientInv
        <2> QED BY <2>1 DEF Since, IsMutation, Stored
    <1> HIDE DEF a
    <1>4. acked' \subseteq [doc : Doc, rev : Nat, val : Values] /\ AckedStays'
        BY <1>1, <1>2, <1>3 DEF DataInv, BackendTypes, AckedStays
    <1> QED BY <1>1, <1>4, EndOfTransaction, ReturningStep

(* What a mutation finds in its transaction. *)
LEMMA InWork ==
    ASSUME DataInv, NEW t \in Clients, pc[t] \in InTransaction
    PROVE  /\ Tables(lease[t]) = tx[lease[t]].work
           /\ CorpusState(lease[t]) = tx[lease[t]].work.corpus
           /\ tx[lease[t]].work \in AllTables
           /\ tx[lease[t]].began = db.generation =>
                Worked(pc[t], op[t], db, tx[lease[t]].work)
    BY Leased DEF InTransaction, ClientInv, Tables, CorpusState

(* activate(): stale, already there, refused, or the first statement. *)
LEMMA CheckActivateKeeps ==
    ASSUME DataInv, NEW t \in Clients, CheckActivate(t)
    PROVE  DataInv'
    <1> DEFINE c == lease[t]
               o == op[t]
               w == tx[c].work
               new == [w EXCEPT !.corpus = IdentityOf[o.val]]
    <1>1. pc[t] = "check" /\ o.kind = "activate" /\ IsMutation(o)
        BY DEF CheckActivate, DataInv, ClientInv
    <1>2. /\ Tables(c) = w /\ CorpusState(c) = w.corpus /\ w \in AllTables
          /\ tx[c].began = db.generation => w = db
        BY <1>1, InWork DEF InTransaction, Worked
    <1>3. CASE w.corpus \notin {NoCorpus, IdentityOf[o.val]}
        <2>1. Goes(t, "rollback") /\ UNCHANGED <<db, tx>> /\ Stays(t)
            BY <1>2, <1>3 DEF CheckActivate
        <2>2. /\ pc' = [pc EXCEPT ![t] = "rollback"]
              /\ UNCHANGED <<db, tx, broken, available, op, lease, seen, acked>>
            BY <2>1 DEF Goes, Stays
        <2>3. BackendTypes'
            BY <2>2 DEF DataInv, BackendTypes, Steps
        <2>4. OnlyClient(t) /\ OnlyConnection(c) /\ pc'[t] = "rollback"
            BY <2>2 DEF DataInv, BackendTypes, OnlyClient, OnlyConnection
        <2>5. IsMutation(op[t])'
            BY <1>1, <2>2 DEF IsMutation, Values
        <2>6. ClientInv(t)'
            BY <1>1, <2>2, <2>4, <2>5, Leased DEF ClientInv, InTransaction
        <2> QED BY <2>2, <2>3, <2>4, <2>6, LeasedStep
    <1>4. CASE w.corpus \in {NoCorpus, IdentityOf[o.val]} /\ o.rev <= w.revisions[o.doc].rev
        <2>1. Concludes(t, w.revisions[o.doc] = [rev |-> o.rev, val |-> o.val])
            BY <1>2, <1>4 DEF CheckActivate
        <2> QED BY <1>1, <2>1, ConcludesKeeps DEF Stored
    <1>5. CASE /\ w.corpus \in {NoCorpus, IdentityOf[o.val]}
               /\ ~(o.rev <= w.revisions[o.doc].rev)
        <2>1. Executes(c, new) /\ Goes(t, "document") /\ Stays(t)
            BY <1>2, <1>5 DEF CheckActivate
        <2>2. o.val \in Content
            BY <1>1 DEF IsMutation, Values
        <2>3. /\ new \in AllTables /\ new.corpus = IdentityOf[o.val]
              /\ new.revisions = w.revisions /\ new.generation = w.generation
              /\ new.documents = w.documents /\ new.chunks = w.chunks
            BY <1>2, <2>2 DEF AllTables, Corpora
        <2>4. w.revisions[o.doc].rev \in Nat /\ o.rev \in Nat
            BY <1>1, <1>2 DEF AllTables, Rows, IsMutation
        <2> HIDE DEF new
        <2>5. tx[c].began = db.generation => Worked("document", o, db, new)
            BY <1>1, <1>2, <1>5, <2>3, <2>4 DEF Worked, Checked
        <2> QED BY <1>1, <2>1, <2>3, <2>5, WorkStep DEF InTransaction
    <1> QED BY <1>3, <1>4, <1>5

(* erase(): the same, without a new corpus. *)
LEMMA CheckEraseKeeps ==
    ASSUME DataInv, NEW t \in Clients, CheckErase(t)
    PROVE  DataInv'
    <1> DEFINE c == lease[t]
               o == op[t]
               w == tx[c].work
    <1>1. pc[t] = "check" /\ o.kind = "erase" /\ IsMutation(o)
        BY DEF CheckErase, DataInv, ClientInv
    <1>2. /\ Tables(c) = w /\ CorpusState(c) = w.corpus /\ w \in AllTables
          /\ tx[c].began = db.generation => w = db
        BY <1>1, InWork DEF InTransaction, Worked
    <1>3. CASE w.corpus = NoCorpus
        BY <1>1, <1>2, <1>3, ConcludesKeeps DEF CheckErase
    <1>4. CASE w.corpus # NoCorpus /\ o.rev <= w.revisions[o.doc].rev
        <2>1. Concludes(t, w.revisions[o.doc] = [rev |-> o.rev, val |-> NoDoc])
            BY <1>2, <1>4 DEF CheckErase
        <2> QED BY <1>1, <2>1, ConcludesKeeps DEF Stored, IsMutation
    <1>5. CASE w.corpus # NoCorpus /\ ~(o.rev <= w.revisions[o.doc].rev)
        <2>1. Goes(t, "document") /\ UNCHANGED <<db, tx>> /\ Stays(t)
            BY <1>2, <1>5 DEF CheckErase
        <2>2. w.revisions[o.doc].rev \in Nat /\ o.rev \in Nat
            BY <1>1, <1>2 DEF AllTables, Rows, IsMutation
        <2>3. tx[c].began = db.generation => Worked("document", o, db, w)
            BY <1>1, <1>2, <1>5, <2>2 DEF Worked, Checked
        <2> QED BY <1>1, <1>2, <2>1, <2>3, WorkStep DEF InTransaction
    <1> QED BY <1>3, <1>4, <1>5

(* The document and its chunks are replaced together. *)
LEMMA ReplaceDocumentKeeps ==
    ASSUME DataInv, NEW t \in Clients, ReplaceDocument(t)
    PROVE  DataInv'
    <1> DEFINE c == lease[t]
               o == op[t]
               w == tx[c].work
               to == IF o.kind = "erase" THEN "revision" ELSE "chunks"
               new == [w EXCEPT !.documents[o.doc] = StoredDocument(o), !.chunks[o.doc] = NoRow]
    <1>1. pc[t] = "document" /\ IsMutation(o)
        BY DEF ReplaceDocument, DataInv, ClientInv
    <1>2. /\ Tables(c) = w /\ w \in AllTables
          /\ tx[c].began = db.generation => Worked("document", o, db, w)
        BY <1>1, InWork DEF InTransaction
    <1>3. Executes(c, new) /\ Goes(t, to) /\ Stays(t)
        BY <1>2 DEF ReplaceDocument, StoredDocument, Stored
    <1>4. StoredDocument(o) \in Rows /\ NoRow \in Rows
        BY <1>1 DEF IsMutation, StoredDocument, Stored, NoRow, Rows, Values
    <1>5. /\ new \in AllTables /\ new.corpus = w.corpus
          /\ new.revisions = w.revisions /\ new.generation = w.generation
          /\ new.documents = [w.documents EXCEPT ![o.doc] = StoredDocument(o)]
          /\ new.chunks = [w.chunks EXCEPT ![o.doc] = NoRow]
        BY <1>2, <1>4 DEF AllTables
    <1> HIDE DEF new
    <1>6. tx[c].began = db.generation => Worked(to, o, db, new)
        BY <1>1, <1>2, <1>5 DEF Worked, Checked, IsMutation, StoredDocument
    <1> QED BY <1>1, <1>3, <1>5, <1>6, WorkStep DEF InTransaction

(* The chunks of the new revision. *)
LEMMA InsertChunksKeeps ==
    ASSUME DataInv, NEW t \in Clients, InsertChunks(t)
    PROVE  DataInv'
    <1> DEFINE c == lease[t]
               o == op[t]
               w == tx[c].work
               new == [w EXCEPT !.chunks[o.doc] = Stored(o)]
    <1>1. pc[t] = "chunks" /\ IsMutation(o)
        BY DEF InsertChunks, DataInv, ClientInv
    <1>2. /\ Tables(c) = w /\ w \in AllTables
          /\ tx[c].began = db.generation => Worked("chunks", o, db, w)
        BY <1>1, InWork DEF InTransaction
    <1>3. Executes(c, new) /\ Goes(t, "revision") /\ Stays(t)
        BY <1>2 DEF InsertChunks, Stored
    <1>4. Stored(o) \in Rows
        BY <1>1 DEF IsMutation, Stored, Rows
    <1>5. /\ new \in AllTables /\ new.corpus = w.corpus
          /\ new.revisions = w.revisions /\ new.generation = w.generation
          /\ new.documents = w.documents
          /\ new.chunks = [w.chunks EXCEPT ![o.doc] = Stored(o)]
        BY <1>2, <1>4 DEF AllTables
    <1> HIDE DEF new
    <1>6. tx[c].began = db.generation => Worked("revision", o, db, new)
        BY <1>1, <1>2, <1>5 DEF Worked, Checked, IsMutation, StoredDocument,
           DataInv, BackendTypes, AllTables
    <1> QED BY <1>1, <1>3, <1>5, <1>6, WorkStep DEF InTransaction

(* The revision row, last. *)
LEMMA PutRevisionKeeps ==
    ASSUME DataInv, NEW t \in Clients, PutRevision(t)
    PROVE  DataInv'
    <1> DEFINE c == lease[t]
               o == op[t]
               w == tx[c].work
               new == [w EXCEPT !.revisions[o.doc] = Stored(o), !.generation = @ + 1]
    <1>1. pc[t] = "revision" /\ IsMutation(o)
        BY DEF PutRevision, DataInv, ClientInv
    <1>2. /\ Tables(c) = w /\ w \in AllTables
          /\ tx[c].began = db.generation => Worked("revision", o, db, w)
        BY <1>1, InWork DEF InTransaction
    <1>3. Executes(c, new) /\ Goes(t, "commit") /\ Stays(t)
        BY <1>2 DEF PutRevision, Stored
    <1>4. Stored(o) \in Rows
        BY <1>1 DEF IsMutation, Stored, Rows
    <1>5. /\ new \in AllTables /\ new.corpus = w.corpus
          /\ new.revisions = [w.revisions EXCEPT ![o.doc] = Stored(o)]
          /\ new.generation = w.generation + 1
          /\ new.documents = w.documents /\ new.chunks = w.chunks
        <2> DEFINE r == [w.revisions EXCEPT ![o.doc] = Stored(o)]
                   v == [w EXCEPT !.revisions = r]
        <2>1. v = [corpus |-> w.corpus, generation |-> w.generation, revisions |-> r,
                   documents |-> w.documents, chunks |-> w.chunks]
            BY <1>2 DEF AllTables
        <2>2. new = [v EXCEPT !.generation = @ + 1]
            OBVIOUS
        <2> HIDE DEF v
        <2>3. new = [corpus |-> w.corpus, generation |-> w.generation + 1,
                     revisions |-> r, documents |-> w.documents, chunks |-> w.chunks]
            BY <2>1, <2>2
        <2>4. w.generation + 1 \in Nat
            BY <1>2 DEF AllTables
        <2>5. [w.revisions EXCEPT ![o.doc] = Stored(o)] \in [Doc -> Rows]
            BY <1>2, <1>4 DEF AllTables
        <2> HIDE DEF new
        <2> QED BY <1>2, <2>3, <2>4, <2>5 DEF AllTables
    <1> HIDE DEF new
    <1>6. tx[c].began = db.generation => Worked("commit", o, db, new)
        BY <1>1, <1>2, <1>5 DEF Worked, Checked
    <1> QED BY <1>1, <1>3, <1>5, <1>6, WorkStep DEF InTransaction

(* What COMMIT publishes: the committed tables with one document replaced by
   a newer revision, in all of them. *)
LEMMA CommitPublishes ==
    ASSUME DataInv, NEW t \in Clients, pc[t] = "commit", tx[lease[t]].began = db.generation,
           db' = tx[lease[t]].work
    PROVE  /\ db' \in AllTables /\ db'.generation > db.generation
           /\ Since(db.revisions, db'.revisions)
           /\ db'.revisions = [db.revisions EXCEPT ![op[t].doc] = Stored(op[t])]
           /\ op[t].rev > db.revisions[op[t].doc].rev
           /\ TablesAgree'
    <1> DEFINE o == op[t]
    <1>1. IsMutation(o) /\ db \in AllTables
        BY DEF DataInv, BackendTypes, ClientInv
    <1>2. db' \in AllTables /\ Worked("commit", o, db, db')
        BY InWork DEF InTransaction
    <1>3. /\ Checked(o, db, db') /\ db'.generation = db.generation + 1
          /\ db'.revisions = [db.revisions EXCEPT ![o.doc] = Stored(o)]
          /\ db'.documents = [db.documents EXCEPT ![o.doc] = StoredDocument(o)]
          /\ db'.chunks = [db.chunks EXCEPT ![o.doc] = StoredDocument(o)]
        BY <1>2 DEF Worked
    <1>4. db'.generation > db.generation
        BY <1>1, <1>3 DEF AllTables
    <1>5. Since(db.revisions, db'.revisions)
        BY <1>1, <1>3 DEF Since, Checked, AllTables, Stored, IsMutation
    <1>6. TablesAgree'
        <2> SUFFICES ASSUME NEW d \in Doc
                     PROVE  /\ db'.documents[d] = IF db'.revisions[d].val = NoDoc
                                                  THEN NoRow ELSE db'.revisions[d]
                            /\ db'.chunks[d] = db'.documents[d]
                            /\ db'.documents[d] # NoRow => IdentityOf[db'.documents[d].val] = db'.corpus
            BY DEF TablesAgree, NoRow
        <2>1. CASE d = o.doc
            <3>1. /\ db'.revisions[d] = Stored(o) /\ db'.documents[d] = StoredDocument(o)
                  /\ db'.chunks[d] = StoredDocument(o)
                BY <1>1, <1>3, <2>1 DEF AllTables
            <3>2. CASE o.kind = "erase"
                BY <1>1, <3>1, <3>2 DEF StoredDocument, Stored, IsMutation
            <3>3. CASE o.kind # "erase"
                <4>1. o.val # NoDoc /\ o.kind = "activate"
                    BY <1>1, <3>3 DEF IsMutation
                <4> QED BY <1>3, <3>1, <3>3, <4>1 DEF StoredDocument, Stored, Checked
            <3> QED BY <3>2, <3>3
        <2>2. CASE d # o.doc
            <3>1. /\ db'.revisions[d] = db.revisions[d] /\ db'.documents[d] = db.documents[d]
                  /\ db'.chunks[d] = db.chunks[d]
                BY <1>1, <1>3, <2>2 DEF AllTables
            <3>2. /\ db.documents[d] = IF db.revisions[d].val = NoDoc
                                       THEN NoRow ELSE db.revisions[d]
                  /\ db.chunks[d] = db.documents[d]
                  /\ db.documents[d] # NoRow => IdentityOf[db.documents[d].val] = db.corpus
                BY DEF DataInv, TablesAgree
            <3>3. db.documents[d] # NoRow => db.documents[d].val \in Content
                BY <1>1, <3>2 DEF AllTables, Rows, Values
            <3>4. db.documents[d] # NoRow => db.corpus # NoCorpus
                BY <3>2, <3>3, PostgresAssumption
            <3> QED BY <1>3, <3>1, <3>2, <3>4 DEF Checked
        <2> QED BY <2>1, <2>2
    <1> QED BY <1>2, <1>3, <1>4, <1>5, <1>6 DEF Checked

(* What was acknowledged stays through a commit. *)
LEMMA AckedThroughCommit ==
    ASSUME DataInv, db' \in AllTables, Since(db.revisions, db'.revisions), NEW a \in acked
    PROVE  \/ db'.revisions[a.doc].rev > a.rev
           \/ db'.revisions[a.doc] = [rev |-> a.rev, val |-> a.val]
    <1>1. /\ db.revisions[a.doc].rev > a.rev
             \/ db.revisions[a.doc] = [rev |-> a.rev, val |-> a.val]
          /\ a.doc \in Doc /\ a.rev \in Nat
        BY DEF DataInv, AckedStays, BackendTypes
    <1>2. db.revisions[a.doc].rev \in Nat /\ db'.revisions[a.doc].rev \in Nat
        BY <1>1 DEF DataInv, BackendTypes, AllTables, Rows
    <1>3. db'.revisions[a.doc].rev > db.revisions[a.doc].rev
            \/ db'.revisions[a.doc] = db.revisions[a.doc]
        BY <1>1 DEF Since
    <1> QED BY <1>1, <1>2, <1>3

(* COMMIT: refused, or published and acknowledged. *)
LEMMA CommitKeeps ==
    ASSUME DataInv, NEW t \in Clients, Commit(t)
    PROVE  DataInv'
    <1> DEFINE c == lease[t]
               o == op[t]
    <1>1. /\ pc[t] = "commit" /\ c \in Connections /\ c # NoConn /\ tx[c] \in Transactions
          /\ ClientInv(t) /\ tx[c].open /\ IsMutation(o)
        BY Leased DEF Commit, ClientInv, InTransaction
    <1>2. CASE tx[c].began # db.generation
        <2> DEFINE x == [tx[c] EXCEPT !.aborted = TRUE]
        <2>1. /\ tx' = [tx EXCEPT ![c] = x] /\ pc' = [pc EXCEPT ![t] = "rollback"]
              /\ UNCHANGED <<db, broken, available, op, lease, seen, acked>>
            BY <1>1, <1>2 DEF Commit, Goes, Stays
        <2>2. x \in Transactions
            BY <1>1 DEF Transactions
        <2> HIDE DEF x
        <2>3. BackendTypes'
            BY <2>1, <2>2 DEF DataInv, BackendTypes, Steps
        <2>4. OnlyClient(t) /\ OnlyConnection(c) /\ pc'[t] = "rollback"
            BY <2>1 DEF DataInv, BackendTypes, OnlyClient, OnlyConnection
        <2>5. IsMutation(op[t])'
            BY <1>1, <2>1 DEF IsMutation, Values
        <2>6. ClientInv(t)'
            BY <1>1, <2>1, <2>4, <2>5 DEF ClientInv, InTransaction
        <2> QED BY <2>1, <2>3, <2>4, <2>6, LeasedStep
    <1>3. CASE tx[c].began = db.generation
        <2> DEFINE a == [doc |-> o.doc, rev |-> o.rev, val |-> o.val]
        <2>1. /\ db' = tx[c].work /\ tx' = [tx EXCEPT ![c] = NoTx] /\ Returns(t)
              /\ acked' = acked \cup {a} /\ broken' = broken
            BY <1>1, <1>3 DEF Commit, Tables, Acked
        <2>2. /\ db' \in AllTables /\ db'.generation > db.generation
              /\ Since(db.revisions, db'.revisions) /\ TablesAgree'
              /\ db'.revisions = [db.revisions EXCEPT ![o.doc] = Stored(o)]
            BY <1>1, <1>3, <2>1, CommitPublishes
        <2>3. /\ tx' \in [Connections -> Transactions]
              /\ OnlyConnection(c) /\ ~tx'[c].open
            BY <1>1, <2>1, EndOfTransaction
        <2>4. a \in [doc : Doc, rev : Nat, val : Values]
            BY <1>1 DEF IsMutation
        <2>5. db'.revisions[a.doc] = [rev |-> a.rev, val |-> a.val]
            BY <1>1, <2>2 DEF IsMutation, Stored, DataInv, BackendTypes, AllTables
        <2> HIDE DEF a
        <2>6. BackendTypes' /\ OnlyClient(t) /\ OneOwner' /\ PoolIdle' /\ ClientInv(t)'
            BY <1>1, <2>1, <2>2, <2>3, <2>4, ReturnsKeeps DEF DataInv, BackendTypes
        <2>7. \A u \in Clients : ClientInv(u)'
            BY <2>1, <2>2, <2>3, <2>6, OthersKeepCommit
        <2>8. AckedStays'
            BY <2>1, <2>2, <2>5, AckedThroughCommit DEF AckedStays
        <2> QED BY <2>2, <2>6, <2>7, <2>8 DEF DataInv
    <1> QED BY <1>2, <1>3

(* A commit whose answer is lost is published and not acknowledged. *)
LEMMA CommitUnansweredKeeps ==
    ASSUME DataInv, NEW t \in Clients, CommitUnanswered(t)
    PROVE  DataInv'
    <1> DEFINE c == lease[t]
    <1>1. /\ pc[t] = "commit" /\ c \in Connections /\ c # NoConn /\ ClientInv(t)
        BY Leased DEF CommitUnanswered
    <1>2. /\ db' = tx[c].work /\ tx' = [tx EXCEPT ![c] = NoTx] /\ tx[c].began = db.generation
          /\ broken' = broken \cup {c} /\ pc' = [pc EXCEPT ![t] = "rollback"]
          /\ UNCHANGED <<available, op, lease, seen, acked>>
        BY DEF CommitUnanswered, Goes
    <1>3. /\ db' \in AllTables /\ db'.generation > db.generation
          /\ Since(db.revisions, db'.revisions) /\ TablesAgree'
        BY <1>1, <1>2, CommitPublishes
    <1>4. tx' \in [Connections -> Transactions] /\ OnlyConnection(c) /\ ~tx'[c].open
        BY <1>1, <1>2, EndOfTransaction
    <1>5. BackendTypes'
        BY <1>1, <1>2, <1>3, <1>4 DEF DataInv, BackendTypes, Steps
    <1>6. OnlyClient(t) /\ pc'[t] = "rollback"
        BY <1>2 DEF DataInv, BackendTypes, OnlyClient
    <1>7. IsMutation(op[t])' <=> IsMutation(op[t])
        BY <1>2 DEF IsMutation, Values
    <1>8. ClientInv(t)'
        BY <1>1, <1>2, <1>6, <1>7 DEF ClientInv, InTransaction
    <1>9. \A u \in Clients : ClientInv(u)'
        BY <1>2, <1>3, <1>4, <1>6, <1>8, OthersKeepCommit
    <1>10. OneOwner'
        BY <1>2 DEF DataInv, OneOwner
    <1>11. PoolIdle'
        <2>1. ToSet(available) \subseteq Connections \ {c}
            BY DEF DataInv, BackendTypes, OneOwner, ToSet
        <2> QED BY <1>2, <1>4, <2>1 DEF DataInv, PoolIdle, OnlyConnection
    <1>12. AckedStays'
        BY <1>2, <1>3, AckedThroughCommit DEF AckedStays
    <1> QED BY <1>3, <1>5, <1>9, <1>10, <1>11, <1>12 DEF DataInv

(* The rows a query can match are documents with revisions. *)
LEMMA MatchingType ==
    ASSUME NEW w \in AllTables
    PROVE  Matching(w) \in Hits
    BY DEF Matching, Hits, AllTables, Rows

(* The two queries of a hybrid search read the snapshot of its BEGIN. *)
LEMMA QueryKeeps ==
    ASSUME DataInv, NEW t \in Clients, Lexical(t) \/ Dense(t)
    PROVE  DataInv'
    <1> DEFINE c == lease[t]
               w == tx[c].work
    <1>1. pc[t] \in {"check", "dense"} /\ pc[t] \in InTransaction /\ ClientInv(t)
        BY DEF Lexical, Dense, InTransaction, DataInv
    <1>2. Tables(c) = w /\ w \in AllTables /\ c \in Connections
        BY <1>1, InWork, Leased DEF InTransaction
    <1>3. PICK to \in {"dense", "done"} :
            /\ pc' = [pc EXCEPT ![t] = to]
            /\ to = "dense" => seen' = [seen EXCEPT ![t].lexical = Matching(w)]
            /\ to = "done" => pc[t] = "dense" /\ seen' = [seen EXCEPT ![t].dense = Matching(w)]
            /\ UNCHANGED <<db, tx, broken, available, op, lease, acked>>
        BY <1>2 DEF Lexical, Dense, Goes
    <1>4. /\ seen' \in [Clients -> [lexical : Hits, dense : Hits]]
          /\ \A u \in Clients \ {t} : seen'[u] = seen[u]
          /\ to = "dense" => seen'[t].lexical = Matching(w)
          /\ to = "done" => seen'[t].dense = Matching(w) /\ seen'[t].lexical = seen[t].lexical
        <2> DEFINE h == Matching(w)
        <2>1. h \in Hits /\ seen \in [Clients -> [lexical : Hits, dense : Hits]]
            BY <1>2, MatchingType DEF DataInv, BackendTypes
        <2> HIDE DEF h
        <2>2. CASE to = "dense"
            BY <1>3, <2>1, <2>2 DEF h
        <2>3. CASE to = "done"
            BY <1>3, <2>1, <2>3 DEF h
        <2> QED BY <2>2, <2>3
    <1>5. BackendTypes'
        BY <1>3, <1>4 DEF DataInv, BackendTypes, Steps, InTransaction
    <1>6. OnlyClient(t) /\ OnlyConnection(c) /\ pc'[t] = to
        BY <1>3, <1>4 DEF DataInv, BackendTypes, OnlyClient, OnlyConnection
    <1>7. IsMutation(op[t])' <=> IsMutation(op[t])
        BY <1>3 DEF IsMutation, Values
    <1>8. Matching(tx[lease[t]].work)' = Matching(w)
        BY <1>3 DEF Matching, NoRow
    <1>9. Worked(pc[t], op[t], db, tx[lease[t]].work)'
        BY <1>6 DEF Worked
    <1>10. ClientInv(t)'
        BY <1>1, <1>3, <1>4, <1>6, <1>7, <1>8, <1>9 DEF ClientInv, InTransaction
    <1> QED BY <1>3, <1>5, <1>6, <1>10, LeasedStep

(* A new process begins with a new pool and the committed tables. *)
LEMMA RestartKeeps ==
    ASSUME DataInv, Restart
    PROVE  DataInv'
    <1>1. /\ available' \in Seq(Connections)
          /\ \A i, j \in DOMAIN available' : available'[i] = available'[j] => i = j
          /\ ToSet(available') = Connections
        BY NewPoolFacts DEF Restart
    <1>2. BackendTypes'
        BY <1>1, NoTxFacts DEF DataInv, Restart, BackendTypes, Steps, Hits
    <1>3. OneOwner'
        BY <1>1, PostgresAssumption DEF Restart, OneOwner
    <1>4. PoolIdle'
        BY <1>1, NoTxFacts DEF Restart, PoolIdle
    <1>5. \A t \in Clients : ClientInv(t)'
        BY DEF Restart, ClientInv, InTransaction
    <1>6. AckedStays' /\ TablesAgree'
        BY DEF DataInv, Restart, AckedStays, TablesAgree
    <1> QED BY <1>2, <1>3, <1>4, <1>5, <1>6 DEF DataInv

(* Steps that touch neither tables, pool nor clients: persist(), and the
   schema migration of other processes. *)
LEMMA ElsewhereKeeps ==
    ASSUME DataInv, UNCHANGED <<db, tx, broken, available, clientVars, acked>>
    PROVE  DataInv'
    <1>1. /\ db' = db /\ tx' = tx /\ broken' = broken /\ available' = available
          /\ pc' = pc /\ op' = op /\ lease' = lease /\ seen' = seen /\ acked' = acked
        BY DEF clientVars
    <1>2. BackendTypes' /\ OneOwner' /\ PoolIdle' /\ AckedStays' /\ TablesAgree'
        BY <1>1 DEF DataInv, BackendTypes, OneOwner, PoolIdle, AckedStays, TablesAgree
    <1>3. ASSUME NEW t \in Clients PROVE ClientInv(t)'
        <2>1. /\ Matching(tx[lease[t]].work)' = Matching(tx[lease[t]].work)
              /\ Worked(pc[t], op[t], db, tx[lease[t]].work)' <=>
                   Worked(pc[t], op[t], db, tx[lease[t]].work)
            BY <1>1 DEF Matching, Worked, Checked, Stored, StoredDocument, NoRow
        <2>2. IsMutation(op[t])' <=> IsMutation(op[t])
            BY <1>1 DEF IsMutation, Values
        <2>3. Since(tx[lease[t]].work.revisions, db.revisions)' <=>
                Since(tx[lease[t]].work.revisions, db.revisions)
            BY <1>1 DEF Since
        <2> QED BY <1>1, <2>1, <2>2, <2>3 DEF DataInv, ClientInv, InTransaction
    <1> QED BY <1>2, <1>3 DEF DataInv

(* Every step of the backend keeps the invariant. *)
LEMMA DataStep ==
    ASSUME DataInv, BackendNext
    PROVE  DataInv'
    <1>1. CASE \E j \in Jobs, s \in Statuses : Persist(j, s)
        BY <1>1, ElsewhereKeeps DEF Persist
    <1>2. CASE Restart
        BY <1>2, RestartKeeps
    <1>3. ASSUME NEW t \in Clients,
                 \/ CallActivate(t) \/ CallErase(t) \/ CallHybrid(t) \/ CallRead(t)
                 \/ Acquire(t) \/ AcquireTimesOut(t) \/ Begin(t) \/ Read(t) \/ Rollback(t)
                 \/ StatementFails(t) \/ CheckActivate(t) \/ CheckErase(t)
                 \/ ReplaceDocument(t) \/ InsertChunks(t) \/ PutRevision(t)
                 \/ Commit(t) \/ CommitUnanswered(t)
                 \/ Lexical(t) \/ Dense(t) \/ HybridReturns(t)
          PROVE  DataInv'
        BY <1>3, CallsKeep, AcquireKeeps, AcquireTimesOutKeeps, BeginKeeps, ReadKeeps,
           RollbackKeeps, StatementFailsKeeps, CheckActivateKeeps, CheckEraseKeeps,
           ReplaceDocumentKeeps, InsertChunksKeeps, PutRevisionKeeps, CommitKeeps,
           CommitUnansweredKeeps, QueryKeeps
    <1> QED BY <1>1, <1>2, <1>3 DEF BackendNext

(* The invariant holds of the service, while other processes migrate the
   schema of its database. *)
LEMMA DataInvariant == Spec => []DataInv
    <1>1. Init => DataInv
        BY DataInitial DEF Init
    <1>2. DataInv /\ [Next]_vars => DataInv'
        <2> SUFFICES ASSUME DataInv, [Next]_vars
                     PROVE  DataInv'
            OBVIOUS
        <2>1. CASE BackendNext
            BY <2>1, DataStep
        <2>2. CASE UNCHANGED backendVars
            BY <2>2, ElsewhereKeeps DEF backendVars
        <2> QED BY <2>1, <2>2 DEF Next, vars
    <1> QED BY <1>1, <1>2, PTL DEF Spec

(* A hybrid search fuses two lists of one state of the corpus, whatever
   commits between its two queries. *)
THEOREM HybridReadsOneState == Spec => []HybridOneState
    <1>1. DataInv => HybridOneState
        BY DEF DataInv, ClientInv, HybridOneState
    <1> QED BY <1>1, DataInvariant, PTL
-----------------------------------------------------------------------------
(* Jobs                                                                    *)

JobsInv ==
    /\ jobs = [j \in Jobs |-> jobs[j]]
    /\ jobsAcked = [j \in Jobs |-> jobsAcked[j]]
    /\ JobsReadable

(* persist() is the only step that writes a job. *)
LEMMA JobSteps ==
    ASSUME BackendNext
    PROVE  \/ UNCHANGED <<jobs, jobsAcked>>
           \/ \E j \in Jobs, s \in Statuses : Persist(j, s)
    <1>1. CASE Restart
        BY <1>1 DEF Restart
    <1>2. ASSUME NEW t \in Clients,
                 \/ CallActivate(t) \/ CallErase(t) \/ CallHybrid(t) \/ CallRead(t)
                 \/ Acquire(t) \/ AcquireTimesOut(t) \/ Begin(t) \/ Read(t) \/ Rollback(t)
                 \/ StatementFails(t) \/ Lexical(t) \/ Dense(t) \/ HybridReturns(t)
          PROVE  UNCHANGED <<jobs, jobsAcked>>
        BY <1>2 DEF CallActivate, CallErase, CallHybrid, CallRead, Call, Acquire,
           AcquireTimesOut, Begin, Read, Rollback, StatementFails, Lexical, Dense,
           HybridReturns, jobVars
    <1>3. ASSUME NEW t \in Clients,
                 \/ CheckActivate(t) \/ CheckErase(t) \/ ReplaceDocument(t)
                 \/ InsertChunks(t) \/ PutRevision(t)
          PROVE  UNCHANGED <<jobs, jobsAcked>>
        BY <1>3 DEF CheckActivate, CheckErase, Concludes, Stays, ReplaceDocument,
           InsertChunks, PutRevision, jobVars
    <1>4. ASSUME NEW t \in Clients, Commit(t) \/ CommitUnanswered(t)
          PROVE  UNCHANGED <<jobs, jobsAcked>>
        BY <1>4 DEF Commit, CommitUnanswered, Stays, jobVars
    <1> QED BY <1>1, <1>2, <1>3, <1>4 DEF BackendNext

(* A statement of persist() that succeeded is what is read; one that failed
   is or is not. *)
LEMMA PersistKeeps ==
    ASSUME JobsInv, NEW j \in Jobs, NEW s \in Statuses, Persist(j, s)
    PROVE  JobsInv'
    <1>1. \/ jobs' = [jobs EXCEPT ![j] = s] /\ jobsAcked' = [jobsAcked EXCEPT ![j] = {s}]
          \/ jobs' = jobs /\ jobsAcked' = [jobsAcked EXCEPT ![j] = @ \cup {s}]
          \/ jobs' = [jobs EXCEPT ![j] = s] /\ jobsAcked' = [jobsAcked EXCEPT ![j] = @ \cup {s}]
        BY DEF Persist, PutJob
    <1>2. jobs' = [i \in Jobs |-> jobs'[i]] /\ jobsAcked' = [i \in Jobs |-> jobsAcked'[i]]
        BY <1>1 DEF JobsInv
    <1>3. \A i \in Jobs : jobs'[i] \in jobsAcked'[i]
        BY <1>1 DEF JobsInv, JobsReadable, LoadLatest
    <1> QED BY <1>2, <1>3 DEF JobsInv, JobsReadable, LoadLatest

(* What load_latest() reads is what persist() left, in every reachable state. *)
LEMMA JobsInvariant == Spec => []JobsInv
    <1>1. Init => JobsInv
        BY DEF Init, BackendInit, JobsInv, JobsReadable, LoadLatest
    <1>2. JobsInv /\ [Next]_vars => JobsInv'
        <2> SUFFICES ASSUME JobsInv, [Next]_vars
                     PROVE  JobsInv'
            OBVIOUS
        <2>1. CASE UNCHANGED <<jobs, jobsAcked>>
            BY <2>1 DEF JobsInv, JobsReadable, LoadLatest
        <2>2. CASE \E j \in Jobs, s \in Statuses : Persist(j, s)
            BY <2>2, PersistKeeps
        <2> QED BY <2>1, <2>2, JobSteps DEF Next, vars, backendVars, jobVars
    <1> QED BY <1>1, <1>2, PTL DEF Spec

(* What a mutation or persist() reported is what the database holds, and its
   tables agree with each other: whatever calls raced, whatever statements
   failed, whichever answers and connections were lost, across restarts. *)
THEOREM DatabaseHolds == Spec => []DatabaseInv
    <1>1. DataInv /\ JobsInv => DatabaseInv
        BY DEF DataInv, JobsInv, DatabaseInv
    <1> QED BY <1>1, DataInvariant, JobsInvariant, PTL
-----------------------------------------------------------------------------
(* The pool                                                                *)

Leasers == {t \in Clients : lease[t] # NoConn}

PoolInv ==
    /\ IsFiniteSet(Leasers)
    /\ Len(available) + Cardinality(Leasers) = Cardinality(Connections)
    /\ Connections \subseteq ToSet(available) \cup {lease[t] : t \in Clients}

(* Connections change hands in acquire(), when a call returns and in a new
   process only. *)
LEMMA PoolSteps ==
    ASSUME DataInv, BackendNext
    PROVE  \/ UNCHANGED <<available, lease>>
           \/ \E t \in Clients : Acquire(t)
           \/ \E t \in Clients : Returns(t) /\ lease[t] # NoConn
           \/ Restart
    <1>1. CASE \E j \in Jobs, s \in Statuses : Persist(j, s)
        BY <1>1 DEF Persist, clientVars
    <1>2. CASE Restart
        BY <1>2
    <1>3. ASSUME NEW t \in Clients,
                 \/ CallActivate(t) \/ CallErase(t) \/ CallHybrid(t) \/ CallRead(t)
                 \/ AcquireTimesOut(t)
          PROVE  UNCHANGED <<available, lease>>
        BY <1>3 DEF CallActivate, CallErase, CallHybrid, CallRead, Call, AcquireTimesOut
    <1>4. ASSUME NEW t \in Clients,
                 \/ Begin(t) \/ Read(t) \/ Rollback(t) \/ StatementFails(t) \/ CheckActivate(t)
                 \/ CheckErase(t) \/ ReplaceDocument(t) \/ InsertChunks(t) \/ PutRevision(t)
                 \/ Commit(t) \/ CommitUnanswered(t) \/ Lexical(t) \/ Dense(t) \/ HybridReturns(t)
          PROVE  UNCHANGED <<available, lease>> \/ (Returns(t) /\ lease[t] # NoConn)
        <2>1. pc[t] \notin {"idle", "acquire"}
            BY <1>4 DEF Begin, Read, Rollback, StatementFails, CheckActivate, CheckErase,
                ReplaceDocument, InsertChunks, PutRevision, Commit, CommitUnanswered, Lexical,
                Dense, HybridReturns
        <2>2. lease[t] # NoConn
            BY <2>1, Leased
        <2>3. UNCHANGED <<available, lease>> \/ Returns(t)
            BY <1>4 DEF Begin, Read, Rollback, StatementFails, CheckActivate, CheckErase,
                Concludes, Stays, ReplaceDocument, InsertChunks, PutRevision, Commit,
                CommitUnanswered, Lexical, Dense, HybridReturns
        <2> QED BY <2>2, <2>3
    <1> QED BY <1>1, <1>2, <1>3, <1>4 DEF BackendNext

(* A connection is counted once, in the pool or at its client, through every
   step. *)
LEMMA PoolStep ==
    ASSUME DataInv, PoolInv, BackendNext
    PROVE  PoolInv'
    <1> DEFINE n == Cardinality(Connections)
               k == Cardinality(Leasers)
    <1>1. k \in Nat /\ n \in Nat /\ Len(available) \in Nat
        BY FS_CardinalityType, PostgresAssumption DEF PoolInv, DataInv, BackendTypes
    <1>2. CASE UNCHANGED <<available, lease>>
        BY <1>2 DEF PoolInv, Leasers
    <1>3. ASSUME NEW t \in Clients, Acquire(t) PROVE PoolInv'
        <2>1. /\ Len(available') = Len(available) - 1 /\ Last(available) \in Connections
              /\ ToSet(available') = ToSet(available) \ {Last(available)}
            BY <1>3, FrontFacts DEF DataInv, BackendTypes, OneOwner, Acquire
        <2>2. lease[t] = NoConn /\ lease' = [lease EXCEPT ![t] = Last(available)]
            BY <1>3 DEF DataInv, ClientInv, Acquire
        <2>3. Leasers' = Leasers \cup {t} /\ t \notin Leasers
            BY <2>1, <2>2, PostgresAssumption DEF Leasers, DataInv, BackendTypes
        <2>4. IsFiniteSet(Leasers') /\ Cardinality(Leasers') = k + 1
            BY <2>3, FS_AddElement DEF PoolInv
        <2>5. Connections \subseteq ToSet(available') \cup {lease'[u] : u \in Clients}
            <3> SUFFICES ASSUME NEW c \in Connections, c \notin ToSet(available')
                         PROVE  \E u \in Clients : c = lease'[u]
                OBVIOUS
            <3>1. CASE c = Last(available)
                BY <2>2, <3>1 DEF DataInv, BackendTypes
            <3>2. CASE c # Last(available)
                <4>1. PICK u \in Clients : c = lease[u]
                    BY <2>1, <3>2 DEF PoolInv
                <4> QED BY <2>2, <4>1, PostgresAssumption DEF DataInv, BackendTypes
            <3> QED BY <3>1, <3>2
        <2> QED BY <1>1, <2>1, <2>4, <2>5 DEF PoolInv
    <1>4. ASSUME NEW t \in Clients, Returns(t), lease[t] # NoConn PROVE PoolInv'
        <2>1. /\ Len(available') = Len(available) + 1
              /\ ToSet(available') = ToSet(available) \cup {lease[t]}
            BY <1>4, AppendFacts DEF DataInv, BackendTypes, OneOwner, Returns
        <2>2. lease' = [lease EXCEPT ![t] = NoConn]
            BY <1>4 DEF Returns
        <2>3. Leasers' = Leasers \ {t} /\ t \in Leasers
            BY <1>4, <2>2 DEF Leasers, DataInv, BackendTypes
        <2>4. IsFiniteSet(Leasers') /\ Cardinality(Leasers') = k - 1
            BY <2>3, FS_RemoveElement DEF PoolInv
        <2>5. Connections \subseteq ToSet(available') \cup {lease'[u] : u \in Clients}
            <3> SUFFICES ASSUME NEW c \in Connections, c \notin ToSet(available')
                         PROVE  \E u \in Clients : c = lease'[u]
                OBVIOUS
            <3>1. PICK u \in Clients : c = lease[u]
                BY <2>1 DEF PoolInv
            <3>2. u # t
                BY <2>1, <3>1
            <3> QED BY <2>2, <3>1, <3>2 DEF DataInv, BackendTypes
        <2> QED BY <1>1, <2>1, <2>4, <2>5 DEF PoolInv
    <1>5. CASE Restart
        <2>1. Len(available') = n /\ ToSet(available') = Connections
            BY <1>5, NewPoolFacts DEF Restart
        <2>2. Leasers' = {}
            BY <1>5 DEF Restart, Leasers
        <2>3. IsFiniteSet(Leasers') /\ Cardinality(Leasers') = 0
            BY <2>2, FS_EmptySet
        <2> QED BY <1>1, <2>1, <2>3 DEF PoolInv
    <1> QED BY <1>2, <1>3, <1>4, <1>5, PoolSteps

(* Every connection is in the pool once or leased to one client, and comes
   back between transactions, whichever way the call that had it ended. *)
THEOREM PoolStaysClean == Spec => []PoolIsClean
    <1>1. Init => PoolInv
        <2> SUFFICES ASSUME Init PROVE PoolInv
            OBVIOUS
        <2>1. Len(available) = Cardinality(Connections) /\ ToSet(available) = Connections
            BY NewPoolFacts DEF Init, BackendInit
        <2>2. Leasers = {}
            BY DEF Init, BackendInit, Leasers
        <2>3. IsFiniteSet(Leasers) /\ Cardinality(Leasers) = 0
            BY <2>2, FS_EmptySet
        <2>4. Cardinality(Connections) \in Nat
            BY FS_CardinalityType, PostgresAssumption
        <2> QED BY <2>1, <2>3, <2>4 DEF PoolInv
    <1>2. DataInv /\ PoolInv /\ [Next]_vars => PoolInv'
        <2> SUFFICES ASSUME DataInv, PoolInv, [Next]_vars
                     PROVE  PoolInv'
            OBVIOUS
        <2>1. CASE BackendNext
            BY <2>1, PoolStep
        <2>2. CASE UNCHANGED backendVars
            BY <2>2 DEF backendVars, clientVars, PoolInv, Leasers
        <2> QED BY <2>1, <2>2 DEF Next, vars
    <1>3. DataInv /\ PoolInv => PoolIsClean
        BY DEF DataInv, PoolIdle, PoolInv, Leasers, PoolIsClean
    <1> QED BY <1>1, <1>2, <1>3, DataInvariant, PTL DEF Spec
-----------------------------------------------------------------------------
(* Refinement                                                              *)

(* Only a commit changes the committed tables. *)
LEMMA CommitsOnly ==
    ASSUME DataInv, BackendNext
    PROVE  \/ db' = db
           \/ \E t \in Clients : /\ pc[t] = "commit" /\ tx[lease[t]].began = db.generation
                                 /\ db' = tx[lease[t]].work
    <1>1. CASE \E j \in Jobs, s \in Statuses : Persist(j, s)
        BY <1>1 DEF Persist
    <1>2. CASE Restart
        BY <1>2 DEF Restart
    <1>3. ASSUME NEW t \in Clients,
                 \/ CallActivate(t) \/ CallErase(t) \/ CallHybrid(t) \/ CallRead(t)
                 \/ Acquire(t) \/ AcquireTimesOut(t) \/ Begin(t) \/ Read(t) \/ Rollback(t)
                 \/ StatementFails(t) \/ Lexical(t) \/ Dense(t) \/ HybridReturns(t)
          PROVE  db' = db
        BY <1>3 DEF CallActivate, CallErase, CallHybrid, CallRead, Call, Acquire,
           AcquireTimesOut, Begin, Read, Rollback, StatementFails, Lexical, Dense, HybridReturns
    <1>4. ASSUME NEW t \in Clients,
                 \/ CheckActivate(t) \/ CheckErase(t) \/ ReplaceDocument(t)
                 \/ InsertChunks(t) \/ PutRevision(t)
          PROVE  db' = db
        <2>1. pc[t] \in InTransaction
            BY <1>4 DEF CheckActivate, CheckErase, ReplaceDocument, InsertChunks, PutRevision,
               InTransaction
        <2>2. tx[lease[t]].open
            BY <2>1 DEF DataInv, ClientInv
        <2> QED BY <1>4, <2>2 DEF CheckActivate, CheckErase, ReplaceDocument, InsertChunks,
               PutRevision, Executes, Concludes
    <1>5. ASSUME NEW t \in Clients, Commit(t) \/ CommitUnanswered(t)
          PROVE  \/ db' = db
                 \/ /\ pc[t] = "commit" /\ tx[lease[t]].began = db.generation
                    /\ db' = tx[lease[t]].work
        <2>1. tx[lease[t]].open
            BY <1>5 DEF DataInv, ClientInv, InTransaction, Commit, CommitUnanswered
        <2> QED BY <1>5, <2>1 DEF Commit, CommitUnanswered, Tables
    <1> QED BY <1>1, <1>2, <1>3, <1>4, <1>5 DEF BackendNext

(* The committed revisions implement the backend the coordinator relies on:
   they go from one published state to the next, one document at a time and
   always to a newer revision. *)
THEOREM ImplementsBackend == Spec => PostgresImplementsBackend
    <1>1. Init => Abstract!Init
        BY DEF Init, BackendInit, EmptyTables, NoRows, NoRow, Abstract!Init, Abstract!Nothing
    <1>2. DataInv /\ [Next]_vars => [Abstract!Next]_(Abstract!vars)
        <2> SUFFICES ASSUME DataInv, [Next]_vars
                     PROVE  [Abstract!Next]_(Abstract!vars)
            OBVIOUS
        <2>1. CASE db' = db
            BY <2>1 DEF Abstract!vars, NoRows, NoRow
        <2>2. ASSUME NEW t \in Clients, pc[t] = "commit", tx[lease[t]].began = db.generation,
                     db' = tx[lease[t]].work
              PROVE  Abstract!Next
            <3>1. /\ db'.revisions = [db.revisions EXCEPT ![op[t].doc] = Stored(op[t])]
                  /\ op[t].rev > db.revisions[op[t].doc].rev
                BY <2>2, CommitPublishes
            <3>2. IsMutation(op[t]) /\ db.revisions \in [Doc -> Rows]
                BY <2>2 DEF DataInv, ClientInv, BackendTypes, AllTables
            <3>3. db'.revisions[op[t].doc] = Stored(op[t]) /\ op[t].doc \in Doc
                BY <3>1, <3>2 DEF IsMutation
            <3>4. Stored(op[t]).rev > db.revisions[op[t].doc].rev /\ Stored(op[t]).val \in Values
                BY <3>1, <3>2 DEF Stored, IsMutation
            <3>5. Abstract!Publish
                BY <3>1, <3>3, <3>4 DEF Abstract!Publish, Values, NoRows, NoRow
            <3> QED BY <3>5 DEF Abstract!Next
        <2>3. CASE BackendNext
            BY <2>1, <2>2, <2>3, CommitsOnly
        <2>4. CASE UNCHANGED backendVars
            BY <2>1, <2>4 DEF backendVars
        <2> QED BY <2>3, <2>4 DEF Next, vars
    <1> QED BY <1>1, <1>2, DataInvariant, PTL DEF Spec, PostgresImplementsBackend, Abstract!Spec

-----------------------------------------------------------------------------
(* The schema                                                              *)

SchemaTypes ==
    /\ step \in [Openers -> {"start", "locked", "applying", "open", "failed"}]
    /\ present \in [Openers -> SUBSET Versions]
    /\ recorded \subseteq Versions /\ tables \subseteq Versions

(* Only the session that holds the advisory lock is past it. *)
LockHeld ==
    \A p \in Openers : step[p] \in {"locked", "applying"} => advisory = p

(* What the holder read is still what is recorded. *)
ReadIsCurrent ==
    \A p \in Openers : step[p] = "applying" => present[p] = recorded /\ 1 \in tables

(* The inductive invariant: SchemaAgreed alone does not say that what an
   opener read before it applies a version is still true. *)
SchemaInv ==
    /\ SchemaTypes
    /\ LockHeld
    /\ ReadIsCurrent
    /\ recorded \subseteq tables
    /\ SchemaAgreed
(* A nonempty set of versions has a least one, so the CHOOSE of Apply() is
   the next missing version. *)
LEMMA LeastVersion ==
    ASSUME NEW S \in SUBSET Versions, S # {}
    PROVE  \E v \in S : \A w \in S : v <= w
    <1>1. S \subseteq Nat
        BY SchemaAssumption DEF Versions
    <1>2. PICK v \in S : \A w \in S : ~ (<<w, v>> \in OpToRel(<, Nat))
        BY <1>1, NatLessThanWellFounded, WFMin, Zenon
    <1>3. ASSUME NEW w \in S
          PROVE  ~(w < v)
        <2>1. ASSUME w < v
              PROVE  <<w, v>> \in OpToRel(<, Nat)
            <3>1. <<w, v>> \in Nat \X Nat
                BY <1>1
            <3>2. <<w, v>>[1] < <<w, v>>[2]
                BY <2>1
            <3> QED BY <3>1, <3>2, Zenon DEF OpToRel
        <2> QED BY <1>2, <2>1, Zenon
    <1>4. \A w \in S : v <= w
        BY <1>1, <1>3
    <1> QED BY <1>4

(* The initial state, an empty database, satisfies the invariant. *)
LEMMA SchemaInitial == SchemaInit => SchemaInv
    BY DEF SchemaInit, SchemaInv, SchemaTypes, LockHeld, ReadIsCurrent,
           SchemaAgreed, Versions

(* Apply(): the version is the least one missing, nobody recorded it since,
   and the versions below it are recorded, so no gap appears. *)
LEMMA ApplyKeeps ==
    ASSUME SchemaInv, NEW p \in Openers, Apply(p)
    PROVE  SchemaInv'
    <1> DEFINE v == CHOOSE u \in Missing(p) : \A w \in Missing(p) : u <= w
    <1>1. Missing(p) # {} /\ Missing(p) \in SUBSET Versions
        BY DEF Apply, Missing
    <1>2. v \in Missing(p) /\ \A w \in Missing(p) : v <= w
        BY <1>1, LeastVersion
    <1>3. step[p] = "applying" /\ present[p] = recorded /\ advisory = p
        BY DEF Apply, SchemaInv, LockHeld, ReadIsCurrent
    <1>4. v \in Versions /\ v \notin recorded
        BY <1>2, <1>3 DEF Missing
    <1> HIDE DEF v
    <1>5. /\ tables' = tables \cup {v} /\ recorded' = recorded \cup {v}
          /\ present' = [present EXCEPT ![p] = @ \cup {v}]
          /\ UNCHANGED <<advisory, step, conflicted>>
        BY <1>4 DEF Apply, v
    <1>6. \A w \in 1..v : w \in recorded \cup {v}
        <2> SUFFICES ASSUME NEW w \in 1..v, w \notin recorded
                     PROVE  w = v
            OBVIOUS
        <2>1. v \in Int /\ w \in Versions
            BY <1>4, SchemaAssumption DEF Versions
        <2>2. w \in Missing(p)
            BY <2>1, <1>3 DEF Missing
        <2> QED BY <1>2, <2>1, <2>2
    <1>7. SchemaTypes'
        BY <1>4, <1>5 DEF SchemaInv, SchemaTypes
    <1>8. LockHeld'
        BY <1>5 DEF SchemaInv, LockHeld
    <1>9. ReadIsCurrent'
        <2> SUFFICES ASSUME NEW q \in Openers, step[q] = "applying"
                     PROVE  present'[q] = recorded' /\ 1 \in tables'
            BY <1>5 DEF ReadIsCurrent
        <2>1. q = p
            BY <1>3 DEF SchemaInv, LockHeld
        <2> QED BY <2>1, <1>3, <1>5 DEF SchemaInv, SchemaTypes, ReadIsCurrent
    <1>10. (recorded \subseteq tables)'
        BY <1>5 DEF SchemaInv
    <1>11. SchemaAgreed'
        <2>1. \A u \in recorded' : 1..u \subseteq recorded' \cap tables'
            BY <1>5, <1>6, <1>10 DEF SchemaInv, SchemaAgreed
        <2>2. \A q \in Openers : step'[q] = "open" => recorded' = Versions /\ tables' = Versions
            BY <1>4, <1>5 DEF SchemaInv, SchemaAgreed
        <2> QED BY <1>5, <2>1, <2>2 DEF SchemaInv, SchemaAgreed
    <1> QED BY <1>7, <1>8, <1>9, <1>10, <1>11 DEF SchemaInv

(* Every other step of migrate(), a failing one included, keeps it. *)
LEMMA SchemaStep ==
    ASSUME SchemaInv, SchemaNext
    PROVE  SchemaInv'
    <1> USE DEF SchemaInv, SchemaTypes, LockHeld, ReadIsCurrent, SchemaAgreed
    <1>1. PICK p \in Openers :
            \/ Lock(p) \/ ReadApplied(p) \/ Apply(p) \/ Unlock(p)
            \/ MigrationFails(p) \/ OpenAgain(p)
        BY DEF SchemaNext
    <1>2. CASE Lock(p)
        <2>1. \A q \in Openers : step[q] \notin {"locked", "applying"}
            BY <1>2, SchemaAssumption DEF Lock
        <2> QED BY <1>2, <2>1 DEF Lock
    <1>3. CASE ReadApplied(p)
        <2>1. 1 \in Versions
            BY SchemaAssumption DEF Versions
        <2> QED BY <1>3, <2>1 DEF ReadApplied
    <1>4. CASE Apply(p)
        BY <1>4, ApplyKeeps
    <1>5. CASE Unlock(p)
        <2>1. recorded = Versions /\ tables = Versions /\ advisory = p
            BY <1>5 DEF Unlock, Missing
        <2>2. \A q \in Openers : q # p => step[q] \notin {"locked", "applying"}
            BY <2>1
        <2> QED BY <1>5, <2>1, <2>2 DEF Unlock
    <1>6. CASE MigrationFails(p)
        BY <1>6 DEF MigrationFails
    <1>7. CASE OpenAgain(p)
        BY <1>7 DEF OpenAgain
    <1> QED BY <1>1, <1>2, <1>3, <1>4, <1>5, <1>6, <1>7

(* However many processes start on one database, fail half-way in migrate()
   and start again, no version is applied twice, every open process has the
   whole schema, and the recorded versions have no gap. *)
THEOREM SchemaIsAgreed == Spec => []SchemaAgreed
    <1>1. Init => SchemaInv
        BY SchemaInitial DEF Init
    <1>2. SchemaInv /\ [Next]_vars => SchemaInv'
        <2> SUFFICES ASSUME SchemaInv, [Next]_vars
                     PROVE  SchemaInv'
            OBVIOUS
        <2>1. CASE SchemaNext
            BY <2>1, SchemaStep
        <2>2. CASE UNCHANGED schemaVars
            BY <2>2 DEF schemaVars, SchemaInv, SchemaTypes, LockHeld,
                        ReadIsCurrent, SchemaAgreed
        <2> QED BY <2>1, <2>2 DEF Next, vars
    <1>3. SchemaInv => SchemaAgreed
        BY DEF SchemaInv
    <1> QED BY <1>1, <1>2, <1>3, PTL DEF Spec
=============================================================================
