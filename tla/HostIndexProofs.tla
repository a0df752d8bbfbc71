--------------------------- MODULE HostIndexProofs ---------------------------
(***************************************************************************)
(* Proofs about HostIndex, for any documents, contents, dimensions and     *)
(* number of staging threads, and without a bound that matters: the file   *)
(* holds what was acknowledged, the bridge opens what it published, and a  *)
(* mobile index stays searchable.                                          *)
(*                                                                         *)
(* The three properties need one invariant each, over the candidates of    *)
(* the bridge's threads and the mobile handle, since both replace the file *)
(* by what was copied from it some steps before.                           *)
(***************************************************************************)
EXTENDS HostIndex, TLAPS

Types ==
    /\ database = NoFile \/ database \in Indexes
    /\ handle \in Indexes
    /\ host \in {"none", "bridge", "mobile"}
    /\ options \in Dims
    /\ pc \in [Stagers -> {"idle", "staged", "renamed", "published"}]
    /\ next \in [Stagers -> Indexes]
    /\ doc = [t \in Stagers |-> doc[t]]
    /\ \A t \in Stagers : pc[t] # "idle" => host = "bridge" /\ doc[t] \in Documents
    /\ allowed \in [Documents -> SUBSET (Contents \cup {NoDoc})]

(* What a candidate of the bridge, and the mobile handle, have in common with
   the file.  A staged candidate differs from it in its own document and in
   overlapped ones; a published one agrees with it on its own, unless that
   was overlapped.  A legacy handle is the file; a portable handle may be
   ahead of it, by what its calls allow. *)
CopyInv ==
    /\ \A t, u \in Stagers :
          t # u /\ pc[t] # "idle" /\ pc[u] # "idle" => doc[t] \in overlapped
    /\ \A t \in Stagers : pc[t] = "staged" =>
          \A d \in Documents \ overlapped : d # doc[t] => next[t].docs[d] = OnDisk(d)
    /\ \A t \in Stagers : pc[t] \in {"renamed", "published"} /\ doc[t] \notin overlapped =>
          OnDisk(doc[t]) = next[t].docs[doc[t]]
    /\ host = "none" => unsaved = {}
    /\ host = "mobile" => /\ \A d \in Documents \ overlapped : handle.docs[d] \in allowed[d]
                          /\ handle.format = "legacy" => handle = database

(* The bridge's options are the policy of its file and candidates, and the
   only dimension its manifest can name. *)
PolicyInv ==
    /\ database = NoFile => manifest = NoManifest
    /\ host = "bridge" => /\ manifest \in {options, NoManifest}
                          /\ Loadable
    /\ \A t \in Stagers : pc[t] # "idle" => next[t].format = "legacy" /\ next[t].policy = options
    /\ \A t \in Stagers : pc[t] \in {"renamed", "published"} => database # NoFile

(* A legacy container has chunks of its policy only; the live documents of
   a portable index have one dimension. *)
OneMode(i) ==
    IF i.format = "legacy"
    THEN i.chunks = {i.policy} /\ \A d \in Live(i) : i.dims[d] = i.policy
    ELSE \A d, e \in Live(i) : i.dims[d] = i.dims[e]

ModeInv ==
    /\ database # NoFile => OneMode(database)
    /\ OneMode(handle)
    /\ \A t \in Stagers : pc[t] # "idle" => OneMode(next[t])

HostInv == Types /\ CopyInv /\ AckedOnDisk /\ PolicyInv /\ BridgeReopens /\ ModeInv
-----------------------------------------------------------------------------
(* Operators on indexes                                                    *)

(* With() sets the content and the dimension of one document and adds a
   chunk; it is again an index. *)
LEMMA WithFacts ==
    ASSUME NEW i \in Indexes, NEW d \in Documents, NEW c \in Contents, NEW dim \in Dims \cup {0}
    PROVE  /\ With(i, d, c, dim) \in Indexes
           /\ With(i, d, c, dim).format = i.format
           /\ With(i, d, c, dim).policy = i.policy
           /\ With(i, d, c, dim).docs = [i.docs EXCEPT ![d] = c]
           /\ With(i, d, c, dim).dims = [i.dims EXCEPT ![d] = dim]
           /\ With(i, d, c, dim).chunks = i.chunks \cup {dim}
    BY DEF With, Indexes

(* Without() takes one document away and leaves its chunks. *)
LEMMA WithoutFacts ==
    ASSUME NEW i \in Indexes, NEW d \in Documents
    PROVE  /\ Without(i, d) \in Indexes
           /\ Without(i, d).format = i.format
           /\ Without(i, d).policy = i.policy
           /\ Without(i, d).docs = [i.docs EXCEPT ![d] = NoDoc]
           /\ Without(i, d).dims = i.dims
           /\ Without(i, d).chunks = i.chunks
    BY DEF Without, Indexes

(* New indexes are empty. *)
LEMMA NewFacts ==
    /\ NewBackend \in Indexes /\ NewBackend.format = "portable" /\ NewBackend.docs = None
    /\ OneMode(NewBackend)
    /\ \A o \in Dims : /\ NewEngine(o) \in Indexes /\ NewEngine(o).format = "legacy"
                       /\ NewEngine(o).policy = o /\ NewEngine(o).docs = None
                       /\ NewEngine(o).chunks = {}
    BY DEF NewBackend, NewEngine, Indexes, None, OneMode, Live

(* A dimension require_portable_mode() lets in keeps the live documents of a
   portable index of one dimension. *)
LEMMA PortableKeepsMode ==
    ASSUME NEW i \in Indexes, NEW d \in Documents, NEW c \in Contents, NEW dim \in Dims \cup {0},
           i.format = "portable", OneMode(i), RequirePortableMode(i, dim)
    PROVE  OneMode(With(i, d, c, dim))
    <1> DEFINE w == With(i, d, c, dim)
    <1>0. /\ i.docs \in [Documents -> Contents \cup {NoDoc}]
          /\ i.dims \in [Documents -> Dims \cup {0}]
        BY DEF Indexes
    <1>1. /\ w.format = "portable" /\ w.docs = [i.docs EXCEPT ![d] = c]
          /\ w.dims = [i.dims EXCEPT ![d] = dim]
        BY WithFacts
    <1>2. \A e \in Live(i) : i.dims[e] = dim
        BY DEF RequirePortableMode, LiveDims
    <1>3. \A e \in Live(w) : w.dims[e] = dim
        <2> SUFFICES ASSUME NEW e \in Documents, w.docs[e] # NoDoc
                     PROVE  w.dims[e] = dim
            BY DEF Live
        <2>1. CASE e = d
            BY <1>0, <1>1, <2>1
        <2>2. CASE e # d
            <3>1. e \in Live(i) /\ w.dims[e] = i.dims[e]
                BY <1>0, <1>1, <2>2 DEF Live
            <3> QED BY <1>2, <3>1
        <2> QED BY <2>1, <2>2
    <1> SUFFICES OneMode(w)
        OBVIOUS
    <1> HIDE DEF w
    <1> QED BY <1>1, <1>3 DEF OneMode

(* A container whose chunks all have the dimension of its policy keeps that
   when a document of this dimension is added. *)
LEMMA LegacyKeepsMode ==
    ASSUME NEW i \in Indexes, NEW d \in Documents, NEW c \in Contents, NEW dim \in Dims \cup {0},
           i.format = "legacy", i.policy = dim, i.chunks \subseteq {dim},
           \A e \in Live(i) : i.dims[e] = dim
    PROVE  OneMode(With(i, d, c, dim))
    <1> DEFINE w == With(i, d, c, dim)
    <1>0. /\ i.docs \in [Documents -> Contents \cup {NoDoc}]
          /\ i.dims \in [Documents -> Dims \cup {0}]
        BY DEF Indexes
    <1>1. /\ w.format = "legacy" /\ w.docs = [i.docs EXCEPT ![d] = c] /\ w.policy = dim
          /\ w.dims = [i.dims EXCEPT ![d] = dim] /\ w.chunks = {dim}
        BY WithFacts
    <1>2. \A e \in Live(w) : w.dims[e] = dim
        <2> SUFFICES ASSUME NEW e \in Documents, w.docs[e] # NoDoc
                     PROVE  w.dims[e] = dim
            BY DEF Live
        <2>1. CASE e = d
            BY <1>0, <1>1, <2>1
        <2>2. CASE e # d
            <3>1. e \in Live(i) /\ w.dims[e] = i.dims[e]
                BY <1>0, <1>1, <2>2 DEF Live
            <3> QED BY <3>1
        <2> QED BY <2>1, <2>2
    <1> SUFFICES OneMode(w)
        OBVIOUS
    <1> HIDE DEF w
    <1> QED BY <1>1, <1>2 DEF OneMode

(* Removing a document leaves a container of one dimension. *)
LEMMA WithoutKeepsMode ==
    ASSUME NEW i \in Indexes, NEW d \in Documents, i.format = "legacy", OneMode(i)
    PROVE  OneMode(Without(i, d))
    <1> DEFINE w == Without(i, d)
    <1>1. i.docs \in [Documents -> Contents \cup {NoDoc}]
        BY DEF Indexes
    <1>2. /\ w.format = "legacy" /\ w.policy = i.policy /\ w.chunks = i.chunks
          /\ w.docs = [i.docs EXCEPT ![d] = NoDoc] /\ w.dims = i.dims
        BY WithoutFacts
    <1> SUFFICES OneMode(w)
        OBVIOUS
    <1> HIDE DEF w
    <1>3. Live(w) \subseteq Live(i)
        BY <1>1, <1>2 DEF Live
    <1> QED BY <1>2, <1>3 DEF OneMode

(* What load_engine() returns to the bridge. *)
LEMMA LoadedFacts ==
    ASSUME HostInv, host = "bridge", Loadable
    PROVE  /\ Loaded \in Indexes /\ Loaded.format = "legacy" /\ Loaded.policy = options
           /\ Loaded.chunks \subseteq {options}
           /\ \A d \in Live(Loaded) : Loaded.dims[d] = options
           /\ \A d \in Documents : Loaded.docs[d] = OnDisk(d)
           /\ Live(Loaded) # {} => OneMode(Loaded)
    <1>1. CASE database = NoFile
        <2>1. Loaded = NewEngine(options) /\ options \in Dims
            BY <1>1 DEF Loaded, HostInv, Types
        <2>2. Live(Loaded) = {}
            BY <2>1, NewFacts DEF Live, None
        <2> QED BY <1>1, <2>1, <2>2, NewFacts DEF OnDisk, None
    <1>2. CASE database # NoFile
        BY <1>2 DEF Loaded, Loadable, OnDisk, HostInv, Types, ModeInv, OneMode
    <1> QED BY <1>1, <1>2
-----------------------------------------------------------------------------
(* The bridge                                                              *)

(* An index is opened with the options its manifest names; there is no
   manifest before the first file. *)
LEMMA IndexOpenKeeps ==
    ASSUME HostInv, NEW o \in Dims, IndexOpen(o)
    PROVE  HostInv'
    <1>1. Types'
        BY DEF HostInv, Types, IndexOpen
    <1>2. CopyInv' /\ AckedOnDisk'
        BY DEF HostInv, Types, CopyInv, AckedOnDisk, IndexOpen, OnDisk
    <1>3. PolicyInv'
        BY DEF HostInv, Types, PolicyInv, IndexOpen, ValidateManifest, Loadable
    <1>4. BridgeReopens' /\ ModeInv'
        BY DEF HostInv, BridgeReopens, ModeInv, IndexOpen
    <1> QED BY <1>1, <1>2, <1>3, <1>4 DEF HostInv

(* A call that finds nothing to do answers from the loaded file. *)
LEMMA AnsweredKeeps ==
    ASSUME HostInv, host = "bridge", NEW d \in Documents, NEW c \in Contents \cup {NoDoc},
           Called(d), ReturnsLoaded, Answered(d, c)
    PROVE  HostInv'
    <1>1. Types'
        BY DEF HostInv, Types, Called, ReturnsLoaded, Answered
    <1>2. overlapped \subseteq overlapped'
        BY DEF Called
    <1>3. CopyInv'
        BY <1>2 DEF HostInv, Types, CopyInv, ReturnsLoaded, OnDisk
    <1>4. AckedOnDisk'
        <2> SUFFICES ASSUME NEW e \in Documents, e \notin overlapped', e \notin unsaved'
                     PROVE  OnDisk(e) \in allowed'[e]
            BY DEF AckedOnDisk, ReturnsLoaded, OnDisk
        <2>1. CASE e = d
            BY <2>1 DEF HostInv, Types, Answered
        <2>2. CASE e # d
            <3>1. e \notin overlapped /\ e \notin unsaved
                BY <1>2, <2>2 DEF Answered
            <3> QED BY <2>2, <3>1 DEF HostInv, Types, AckedOnDisk, Answered
        <2> QED BY <2>1, <2>2
    <1>5. PolicyInv' /\ BridgeReopens' /\ ModeInv'
        BY DEF HostInv, PolicyInv, BridgeReopens, ModeInv, ReturnsLoaded, Loadable
    <1> QED BY <1>1, <1>3, <1>4, <1>5 DEF HostInv

(* A candidate starts as the file with one document changed; the documents
   of stages under way become overlapped. *)
LEMMA BeginsKeeps ==
    ASSUME HostInv, host = "bridge", NEW t \in Stagers, pc[t] = "idle",
           NEW d \in Documents, NEW i \in Indexes, Called(d), Begins(t, d, i),
           i.format = "legacy", i.policy = options, OneMode(i),
           \A e \in Documents \ {d} : i.docs[e] = OnDisk(e)
    PROVE  HostInv'
    <1>1. /\ pc' = [pc EXCEPT ![t] = "staged"]
          /\ next' = [next EXCEPT ![t] = i]
          /\ doc' = [doc EXCEPT ![t] = d]
          /\ UNCHANGED <<database, manifest, host, options, handle, allowed, unsaved, interrupted>>
        BY DEF Begins
    <1>2. /\ pc \in [Stagers -> {"idle", "staged", "renamed", "published"}]
          /\ next \in [Stagers -> Indexes] /\ doc = [u \in Stagers |-> doc[u]]
        BY DEF HostInv, Types
    <1>3. /\ pc'[t] = "staged" /\ next'[t] = i /\ doc'[t] = d
          /\ \A u \in Stagers \ {t} : pc'[u] = pc[u] /\ next'[u] = next[u] /\ doc'[u] = doc[u]
        BY <1>1, <1>2
    <1>4. /\ overlapped \subseteq overlapped'
          /\ \A u \in Stagers : pc[u] # "idle" => {d, doc[u]} \subseteq overlapped'
        BY DEF Called, Staging
    <1>5. Types'
        BY <1>1, <1>2 DEF HostInv, Types
    <1>6. CopyInv'
        <2>1. ASSUME NEW u \in Stagers, NEW v \in Stagers, u # v, pc'[u] # "idle", pc'[v] # "idle"
              PROVE  doc'[u] \in overlapped'
            <3>1. CASE u = t
                BY <1>3, <1>4, <2>1, <3>1
            <3>2. CASE v = t
                BY <1>3, <1>4, <2>1, <3>2
            <3>3. CASE u # t /\ v # t
                BY <1>3, <1>4, <2>1, <3>3 DEF HostInv, CopyInv
            <3> QED BY <3>1, <3>2, <3>3
        <2>2. ASSUME NEW u \in Stagers, pc'[u] = "staged", NEW e \in Documents \ overlapped',
                     e # doc'[u]
              PROVE  next'[u].docs[e] = OnDisk(e)
            <3>1. CASE u = t
                BY <1>3, <2>2, <3>1
            <3>2. CASE u # t
                BY <1>3, <1>4, <2>2, <3>2 DEF HostInv, CopyInv
            <3> QED BY <3>1, <3>2
        <2>3. ASSUME NEW u \in Stagers, pc'[u] \in {"renamed", "published"},
                     doc'[u] \notin overlapped'
              PROVE  OnDisk(doc'[u]) = next'[u].docs[doc'[u]]
            BY <1>3, <1>4, <2>3 DEF HostInv, CopyInv
        <2> QED BY <1>1, <2>1, <2>2, <2>3 DEF CopyInv, OnDisk
    <1>7. AckedOnDisk'
        BY <1>1, <1>4 DEF HostInv, AckedOnDisk, OnDisk
    <1>8. PolicyInv'
        BY <1>1, <1>3 DEF HostInv, PolicyInv, Loadable
    <1>9. BridgeReopens'
        BY <1>1, <1>3 DEF HostInv, BridgeReopens
    <1>10. ModeInv'
        BY <1>1, <1>3 DEF HostInv, ModeInv
    <1> QED BY <1>5, <1>6, <1>7, <1>8, <1>9, <1>10 DEF HostInv

(* Staging an upsert or a deletion. *)
LEMMA StageKeeps ==
    ASSUME HostInv, NEW t \in Stagers, NEW d \in Documents,
           (\E c \in Contents : StageUpsert(t, d, c)) \/ StageDelete(t, d)
    PROVE  HostInv'
    <1>1. host = "bridge" /\ pc[t] = "idle" /\ Loadable /\ Called(d)
        BY DEF StageUpsert, StageDelete
    <1>2. /\ Loaded \in Indexes /\ Loaded.format = "legacy" /\ Loaded.policy = options
          /\ Loaded.chunks \subseteq {options}
          /\ \A e \in Live(Loaded) : Loaded.dims[e] = options
          /\ \A e \in Documents : Loaded.docs[e] = OnDisk(e)
          /\ Live(Loaded) # {} => OneMode(Loaded)
        BY <1>1, LoadedFacts
    <1>3. options \in Dims /\ options \in Dims \cup {0}
        BY DEF HostInv, Types
    <1>4. ASSUME NEW c \in Contents, Begins(t, d, With(Loaded, d, c, options))
          PROVE  HostInv'
        <2> DEFINE i == With(Loaded, d, c, options)
        <2>1. /\ i \in Indexes /\ i.format = "legacy" /\ i.policy = options
              /\ i.docs = [Loaded.docs EXCEPT ![d] = c]
            BY <1>2, <1>3 DEF With, Indexes
        <2>2. OneMode(i)
            BY <1>2, <1>3, LegacyKeepsMode
        <2>3. Loaded.docs \in [Documents -> Contents \cup {NoDoc}]
            BY <1>2 DEF Indexes
        <2>4. Begins(t, d, i)
            BY <1>4
        <2> HIDE DEF i
        <2>5. \A e \in Documents \ {d} : i.docs[e] = OnDisk(e)
            BY <1>2, <2>1, <2>3
        <2> QED BY <1>1, <2>1, <2>2, <2>4, <2>5, BeginsKeeps
    <1>5. ASSUME d \in Live(Loaded), Begins(t, d, Without(Loaded, d))
          PROVE  HostInv'
        <2> DEFINE i == Without(Loaded, d)
        <2>1. /\ i \in Indexes /\ i.format = "legacy" /\ i.policy = options
              /\ i.docs = [Loaded.docs EXCEPT ![d] = NoDoc]
            BY <1>2, WithoutFacts
        <2>2. OneMode(i)
            BY <1>2, <1>5, WithoutKeepsMode
        <2>3. Loaded.docs \in [Documents -> Contents \cup {NoDoc}]
            BY <1>2 DEF Indexes
        <2>4. Begins(t, d, i)
            BY <1>5
        <2> HIDE DEF i
        <2>5. \A e \in Documents \ {d} : i.docs[e] = OnDisk(e)
            BY <1>2, <2>1, <2>3
        <2> QED BY <1>1, <2>1, <2>2, <2>4, <2>5, BeginsKeeps
    <1>6. CASE \E c \in Contents : StageUpsert(t, d, c)
        BY <1>1, <1>4, <1>6, AnsweredKeeps DEF StageUpsert
    <1>7. CASE StageDelete(t, d)
        BY <1>1, <1>5, <1>7, AnsweredKeeps DEF StageDelete
    <1> QED BY <1>6, <1>7

(* A call that fails ends its stager; after the rename the file is the new
   one, and without a manifest the failure is on record. *)
LEMMA FailsKeeps ==
    ASSUME HostInv, NEW t \in Stagers, StageFails(t) \/ ManifestFails(t)
    PROVE  HostInv'
    <1>1. /\ pc[t] # "idle" /\ Ends(t)
          /\ UNCHANGED <<database, manifest, host, options, handle, allowed, overlapped, unsaved>>
        BY DEF StageFails, ManifestFails
    <1>2. /\ pc \in [Stagers -> {"idle", "staged", "renamed", "published"}]
          /\ next \in [Stagers -> Indexes]
        BY DEF HostInv, Types
    <1>3. /\ pc'[t] = "idle" /\ next' \in [Stagers -> Indexes] /\ doc' = doc
          /\ \A u \in Stagers \ {t} : pc'[u] = pc[u] /\ next'[u] = next[u]
          /\ pc' \in [Stagers -> {"idle", "staged", "renamed", "published"}]
        BY <1>1, <1>2, NewFacts DEF Ends
    <1>4. Types'
        BY <1>1, <1>3 DEF HostInv, Types
    <1>5. CopyInv'
        BY <1>1, <1>3 DEF HostInv, CopyInv, OnDisk
    <1>6. AckedOnDisk'
        BY <1>1 DEF HostInv, AckedOnDisk, OnDisk
    <1>7. PolicyInv'
        BY <1>1, <1>3 DEF HostInv, PolicyInv, Loadable
    <1>8. BridgeReopens'
        <2>1. CASE StageFails(t)
            BY <1>1, <1>3, <2>1 DEF HostInv, BridgeReopens, StageFails
        <2>2. CASE ManifestFails(t)
            BY <1>1, <1>3, <2>2 DEF HostInv, BridgeReopens, ManifestFails
        <2> QED BY <2>1, <2>2
    <1>9. ModeInv'
        BY <1>1, <1>3 DEF HostInv, ModeInv
    <1> QED BY <1>4, <1>5, <1>6, <1>7, <1>8, <1>9 DEF HostInv

(* The rename changes, of the documents that were not overlapped, only the
   one its call is about. *)
LEMMA RenameKeeps ==
    ASSUME HostInv, NEW t \in Stagers, RenameDatabase(t)
    PROVE  HostInv'
    <1> DEFINE d == doc[t]
    <1>1. /\ pc[t] = "staged" /\ pc' = [pc EXCEPT ![t] = "renamed"]
          /\ database' = next[t] /\ unsaved' = unsaved \ {d}
          /\ allowed' = [allowed EXCEPT ![d] = @ \cup {next[t].docs[d]}]
          /\ UNCHANGED <<manifest, host, options, next, doc, handle, overlapped, interrupted>>
        BY DEF RenameDatabase
    <1>2. /\ pc \in [Stagers -> {"idle", "staged", "renamed", "published"}]
          /\ next[t] \in Indexes /\ d \in Documents /\ host = "bridge"
          /\ allowed \in [Documents -> SUBSET (Contents \cup {NoDoc})]
        BY <1>1 DEF HostInv, Types
    <1>3. /\ next[t] # NoFile /\ next[t].docs \in [Documents -> Contents \cup {NoDoc}]
          /\ next[t].format = "legacy" /\ next[t].policy = options /\ OneMode(next[t])
        BY <1>1, <1>2, HostAssumption DEF HostInv, PolicyInv, ModeInv, Indexes
    <1>4. /\ pc'[t] = "renamed" /\ \A u \in Stagers \ {t} : pc'[u] = pc[u]
          /\ pc' \in [Stagers -> {"idle", "staged", "renamed", "published"}]
        BY <1>1, <1>2
    <1>5. \A e \in Documents : OnDisk(e)' = next[t].docs[e]
        BY <1>1, <1>3 DEF OnDisk
    <1>6. \A e \in Documents \ overlapped : e # d => OnDisk(e)' = OnDisk(e)
        BY <1>1, <1>5 DEF HostInv, CopyInv
    <1>7. \A u \in Stagers \ {t} : pc[u] # "idle" => d \in overlapped /\ doc[u] \in overlapped
        BY <1>1 DEF HostInv, CopyInv
    <1>8. Types'
        <2>1. allowed' \in [Documents -> SUBSET (Contents \cup {NoDoc})]
            BY <1>1, <1>2, <1>3
        <2> QED BY <1>1, <1>2, <1>4, <2>1 DEF HostInv, Types
    <1>9. CopyInv'
        <2>1. ASSUME NEW u \in Stagers, NEW v \in Stagers, u # v, pc'[u] # "idle", pc'[v] # "idle"
              PROVE  doc[u] \in overlapped
            BY <1>1, <1>4, <2>1 DEF HostInv, CopyInv
        <2>2. ASSUME NEW u \in Stagers, pc'[u] = "staged", NEW e \in Documents \ overlapped,
                     e # doc[u]
              PROVE  next[u].docs[e] = OnDisk(e)'
            <3>1. u # t /\ pc[u] = "staged"
                BY <1>4, <2>2
            <3>2. e # d
                BY <1>7, <2>2, <3>1
            <3>3. next[u].docs[e] = OnDisk(e)
                BY <2>2, <3>1 DEF HostInv, CopyInv
            <3> QED BY <1>6, <2>2, <3>2, <3>3
        <2>3. ASSUME NEW u \in Stagers, pc'[u] \in {"renamed", "published"}, doc[u] \notin overlapped
              PROVE  OnDisk(doc[u])' = next[u].docs[doc[u]]
            <3>1. u = t
                BY <1>4, <1>7, <2>3
            <3> QED BY <1>1, <1>2, <1>5, <3>1
        <2> QED BY <1>1, <1>2, <2>1, <2>2, <2>3 DEF CopyInv
    <1>10. AckedOnDisk'
        <2> SUFFICES ASSUME NEW e \in Documents, e \notin overlapped', e \notin unsaved'
                     PROVE  OnDisk(e)' \in allowed'[e]
            BY DEF AckedOnDisk
        <2>1. CASE e = d
            BY <1>1, <1>2, <1>5, <2>1
        <2>2. CASE e # d
            <3>1. OnDisk(e)' = OnDisk(e) /\ allowed'[e] = allowed[e]
                BY <1>1, <1>2, <1>6, <2>2
            <3> QED BY <1>1, <2>2, <3>1 DEF HostInv, AckedOnDisk
        <2> QED BY <2>1, <2>2
    <1>11. PolicyInv'
        BY <1>1, <1>2, <1>3, <1>4 DEF HostInv, PolicyInv, Loadable
    <1>12. BridgeReopens'
        BY <1>1, <1>2, <1>3, <1>4 DEF HostInv, PolicyInv, BridgeReopens
    <1>13. ModeInv'
        BY <1>1, <1>3, <1>4 DEF HostInv, ModeInv
    <1> QED BY <1>8, <1>9, <1>10, <1>11, <1>12, <1>13 DEF HostInv

(* The manifest names the policy of the file it stands beside. *)
LEMMA ManifestKeeps ==
    ASSUME HostInv, NEW t \in Stagers, WriteManifest(t)
    PROVE  HostInv'
    <1>1. /\ pc[t] = "renamed" /\ pc' = [pc EXCEPT ![t] = "published"] /\ manifest' = options
          /\ UNCHANGED <<database, host, options, next, doc, handle, allowed, overlapped, unsaved>>
        BY DEF WriteManifest
    <1>2. /\ pc \in [Stagers -> {"idle", "staged", "renamed", "published"}] /\ host = "bridge"
        BY <1>1 DEF HostInv, Types
    <1>3. /\ pc'[t] = "published" /\ \A u \in Stagers \ {t} : pc'[u] = pc[u]
          /\ pc' \in [Stagers -> {"idle", "staged", "renamed", "published"}]
        BY <1>1, <1>2
    <1>4. Types'
        BY <1>1, <1>3 DEF HostInv, Types
    <1>5. CopyInv'
        BY <1>1, <1>3 DEF HostInv, CopyInv, OnDisk
    <1>6. AckedOnDisk'
        BY <1>1 DEF HostInv, AckedOnDisk, OnDisk
    <1>7. PolicyInv'
        BY <1>1, <1>3 DEF HostInv, PolicyInv, Loadable
    <1>8. BridgeReopens'
        BY <1>1, <1>2 DEF HostInv, PolicyInv, Loadable, BridgeReopens
    <1>9. ModeInv'
        BY <1>1, <1>3 DEF HostInv, ModeInv
    <1> QED BY <1>4, <1>5, <1>6, <1>7, <1>8, <1>9 DEF HostInv

(* A stage that returns left its document in the file, unless another one
   overlapped it. *)
LEMMA StageReturnsKeeps ==
    ASSUME HostInv, NEW t \in Stagers, StageReturns(t)
    PROVE  HostInv'
    <1> DEFINE d == doc[t]
    <1>1. /\ pc[t] = "published" /\ Ends(t)
          /\ allowed' = [allowed EXCEPT ![d] = {next[t].docs[d]}]
          /\ UNCHANGED <<database, manifest, host, options, handle, overlapped, unsaved, interrupted>>
        BY DEF StageReturns
    <1>2. /\ pc \in [Stagers -> {"idle", "staged", "renamed", "published"}]
          /\ next \in [Stagers -> Indexes] /\ host = "bridge" /\ d \in Documents
          /\ allowed \in [Documents -> SUBSET (Contents \cup {NoDoc})]
        BY <1>1 DEF HostInv, Types
    <1>3. /\ pc'[t] = "idle" /\ next' \in [Stagers -> Indexes] /\ doc' = doc
          /\ \A u \in Stagers \ {t} : pc'[u] = pc[u] /\ next'[u] = next[u]
          /\ pc' \in [Stagers -> {"idle", "staged", "renamed", "published"}]
        BY <1>1, <1>2, NewFacts DEF Ends
    <1>4. Types'
        <2>1. next[t].docs \in [Documents -> Contents \cup {NoDoc}]
            BY <1>2 DEF Indexes
        <2>2. allowed' \in [Documents -> SUBSET (Contents \cup {NoDoc})]
            BY <1>1, <1>2, <2>1
        <2> QED BY <1>1, <1>3, <2>2 DEF HostInv, Types
    <1>5. CopyInv'
        BY <1>1, <1>2, <1>3 DEF HostInv, CopyInv, OnDisk
    <1>6. AckedOnDisk'
        <2> SUFFICES ASSUME NEW e \in Documents, e \notin overlapped, e \notin unsaved
                     PROVE  OnDisk(e) \in allowed'[e]
            BY <1>1 DEF AckedOnDisk, OnDisk
        <2>1. CASE e = d
            BY <1>1, <1>2, <2>1 DEF HostInv, CopyInv
        <2>2. CASE e # d
            BY <1>1, <1>2, <2>2 DEF HostInv, AckedOnDisk
        <2> QED BY <2>1, <2>2
    <1>7. PolicyInv'
        BY <1>1, <1>3 DEF HostInv, PolicyInv, Loadable
    <1>8. BridgeReopens'
        BY <1>1, <1>3 DEF HostInv, BridgeReopens
    <1>9. ModeInv'
        BY <1>1, <1>3 DEF HostInv, ModeInv
    <1> QED BY <1>4, <1>5, <1>6, <1>7, <1>8, <1>9 DEF HostInv
-----------------------------------------------------------------------------
(* The mobile library                                                      *)

(* Facts of every step that a mobile handle makes or starts with: no stager
   of a bridge is at work. *)
LEMMA NoStager ==
    ASSUME HostInv, host # "bridge"
    PROVE  \A t \in Stagers : pc[t] = "idle"
    BY DEF HostInv, Types

(* The handle starts as the file. *)
LEMMA MobileOpenKeeps ==
    ASSUME HostInv, MobileOpen
    PROVE  HostInv'
    <1>1. /\ host = "none" /\ host' = "mobile"
          /\ handle' = IF database = NoFile THEN NewBackend ELSE database
          /\ UNCHANGED <<database, manifest, options, pc, next, doc, allowed, overlapped,
                         unsaved, interrupted>>
        BY DEF MobileOpen, bridge
    <1>2. \A t \in Stagers : pc[t] = "idle"
        BY <1>1, NoStager
    <1>3. Types'
        BY <1>1, <1>2, NewFacts DEF HostInv, Types
    <1>4. CopyInv'
        <2>1. ASSUME NEW d \in Documents \ overlapped PROVE handle'.docs[d] \in allowed[d]
            <3>1. OnDisk(d) \in allowed[d]
                BY <1>1 DEF HostInv, CopyInv, AckedOnDisk
            <3>2. handle'.docs[d] = OnDisk(d)
                BY <1>1, NewFacts DEF OnDisk, None
            <3> QED BY <3>1, <3>2
        <2>2. handle'.format = "legacy" => handle' = database
            BY <1>1, NewFacts
        <2> QED BY <1>1, <1>2, <2>1, <2>2 DEF CopyInv
    <1>5. AckedOnDisk'
        BY <1>1 DEF HostInv, AckedOnDisk, OnDisk
    <1>6. PolicyInv' /\ BridgeReopens'
        BY <1>1, <1>2 DEF HostInv, PolicyInv, BridgeReopens
    <1>7. ModeInv'
        BY <1>1, <1>2, NewFacts DEF HostInv, ModeInv
    <1> QED BY <1>3, <1>4, <1>5, <1>6, <1>7 DEF HostInv

(* A mobile call that publishes an index i, which is the handle with one
   document changed, or that dies right after. *)
LEMMA PublishesKeeps ==
    ASSUME HostInv, host = "mobile", NEW d \in Documents, NEW c \in Contents,
           NEW i \in Indexes, Publishes(i, d), OneMode(i), i.docs[d] = c,
           \A e \in Documents \ {d} : i.docs[e] = handle.docs[e],
           i.format = "legacy" => handle.format = "legacy" /\ i.policy = handle.policy,
           allowed' \in [Documents -> SUBSET (Contents \cup {NoDoc})], c \in allowed'[d],
           \A e \in Documents \ {d} : allowed'[e] = allowed[e],
           host' \in {"mobile", "none"}, handle' \in {i, NewBackend}, host' = "mobile" => handle' = i
    PROVE  HostInv'
    <1>1. /\ database' = i /\ unsaved' = {}
          /\ UNCHANGED <<manifest, options, pc, next, doc, overlapped, interrupted>>
        BY DEF Publishes, bridge
    <1>2. \A t \in Stagers : pc[t] = "idle"
        BY NoStager
    <1>3. i # NoFile
        BY HostAssumption
    <1>4. \A e \in Documents : OnDisk(e)' = i.docs[e]
        BY <1>1, <1>3 DEF OnDisk
    <1>5. \A e \in Documents \ overlapped : i.docs[e] \in allowed'[e]
        <2> SUFFICES ASSUME NEW e \in Documents \ overlapped
                     PROVE  i.docs[e] \in allowed'[e]
            OBVIOUS
        <2>1. CASE e = d
            BY <2>1
        <2>2. CASE e # d
            <3>1. i.docs[e] \in allowed[e]
                BY <2>2 DEF HostInv, CopyInv
            <3> QED BY <2>2, <3>1
        <2> QED BY <2>1, <2>2
    <1>6. Types'
        <2>1. handle' \in Indexes
            BY NewFacts
        <2> QED BY <1>1, <1>2, <2>1 DEF HostInv, Types
    <1>7. CopyInv'
        BY <1>1, <1>2, <1>5 DEF CopyInv
    <1>8. AckedOnDisk'
        BY <1>1, <1>4, <1>5 DEF AckedOnDisk
    <1>9. PolicyInv'
        BY <1>1, <1>2, <1>3 DEF HostInv, PolicyInv
    <1>10. BridgeReopens'
        <2>1. CASE i.format = "legacy"
            <3>1. handle = database /\ database # NoFile
                BY <2>1, HostAssumption DEF HostInv, Types, CopyInv
            <3> QED BY <1>1, <1>2, <2>1, <3>1 DEF HostInv, BridgeReopens
        <2>2. CASE i.format # "legacy"
            BY <1>1, <2>2 DEF BridgeReopens
        <2> QED BY <2>1, <2>2
    <1>11. ModeInv'
        BY <1>1, <1>2, NewFacts DEF ModeInv
    <1> QED BY <1>6, <1>7, <1>8, <1>9, <1>10, <1>11 DEF HostInv

(* The handle is ahead of the file, or the file's document is what the
   caller wanted: nothing is written. *)
LEMMA UnpublishedKeeps ==
    ASSUME HostInv, NEW d \in Documents, NEW c \in Contents, NEW dim \in Dims \cup {0},
           PublishFails(d, c, dim) \/ UpsertUnchanged(d, c, dim)
    PROVE  HostInv'
    <1>1. /\ host = "mobile" /\ handle.format = "portable" /\ RequirePortableMode(handle, dim)
          /\ UNCHANGED <<database, manifest, host, options, pc, next, doc, overlapped, interrupted>>
        BY DEF PublishFails, UpsertUnchanged, bridge
    <1>2. /\ handle \in Indexes /\ OneMode(handle)
          /\ handle.docs \in [Documents -> Contents \cup {NoDoc}]
          /\ allowed \in [Documents -> SUBSET (Contents \cup {NoDoc})]
          /\ \A t \in Stagers : pc[t] = "idle"
        BY <1>1, NoStager DEF HostInv, Types, ModeInv, Indexes
    <1>3. /\ handle' \in Indexes /\ handle'.format = "portable" /\ OneMode(handle')
          /\ handle'.docs = [handle.docs EXCEPT ![d] = c]
        <2>1. CASE PublishFails(d, c, dim)
            <3>1. handle' = With(handle, d, c, dim)
                BY <2>1 DEF PublishFails
            <3>2. OneMode(With(handle, d, c, dim))
                BY <1>1, <1>2, PortableKeepsMode
            <3>3. /\ With(handle, d, c, dim) \in Indexes
                  /\ With(handle, d, c, dim).format = handle.format
                  /\ With(handle, d, c, dim).docs = [handle.docs EXCEPT ![d] = c]
                BY <1>2 DEF With, Indexes
            <3> QED BY <1>1, <3>1, <3>2, <3>3
        <2>2. CASE UpsertUnchanged(d, c, dim)
            BY <1>1, <1>2, <2>2 DEF UpsertUnchanged
        <2> QED BY <2>1, <2>2
    <1>4. /\ allowed' \in [Documents -> SUBSET (Contents \cup {NoDoc})] /\ c \in allowed'[d]
          /\ \A e \in Documents \ {d} : allowed'[e] = allowed[e]
        BY <1>2 DEF PublishFails, UpsertUnchanged, Answered
    <1>5. Types'
        BY <1>1, <1>2, <1>3, <1>4 DEF HostInv, Types
    <1>6. CopyInv'
        <2>1. ASSUME NEW e \in Documents \ overlapped PROVE handle'.docs[e] \in allowed'[e]
            BY <1>1, <1>2, <1>3, <1>4 DEF HostInv, CopyInv
        <2> QED BY <1>1, <1>2, <1>3, <2>1 DEF CopyInv
    <1>7. AckedOnDisk'
        <2> SUFFICES ASSUME NEW e \in Documents, e \notin overlapped, e \notin unsaved'
                     PROVE  OnDisk(e) \in allowed'[e]
            BY <1>1 DEF AckedOnDisk, OnDisk
        <2>1. CASE PublishFails(d, c, dim)
            BY <1>2, <2>1 DEF HostInv, AckedOnDisk, PublishFails
        <2>2. CASE UpsertUnchanged(d, c, dim)
            BY <1>2, <2>2 DEF HostInv, AckedOnDisk, UpsertUnchanged, Answered
        <2> QED BY <2>1, <2>2
    <1>8. PolicyInv' /\ BridgeReopens'
        BY <1>1, <1>2 DEF HostInv, PolicyInv, BridgeReopens
    <1>9. ModeInv'
        BY <1>1, <1>2, <1>3 DEF HostInv, ModeInv
    <1> QED BY <1>5, <1>6, <1>7, <1>8, <1>9 DEF HostInv

(* What With() makes of the handle is the handle with one document changed. *)
LEMMA WithHandle ==
    ASSUME NEW i \in Indexes, NEW d \in Documents, NEW c \in Contents, NEW dim \in Dims \cup {0}
    PROVE  /\ With(i, d, c, dim) \in Indexes /\ With(i, d, c, dim).docs[d] = c
           /\ \A e \in Documents \ {d} : With(i, d, c, dim).docs[e] = i.docs[e]
           /\ With(i, d, c, dim).format = i.format /\ With(i, d, c, dim).policy = i.policy
    BY DEF With, Indexes

(* The legacy mode of a container lets in its own dimension only. *)
LEMMA LegacyModeKeeps ==
    ASSUME HostInv, host = "mobile", handle.format = "legacy",
           NEW d \in Documents, NEW c \in Contents, NEW dim \in Dims \cup {0},
           RequireLegacyMode(database, dim)
    PROVE  /\ handle = database /\ database \in Indexes /\ OneMode(database)
           /\ OneMode(With(database, d, c, dim))
    <1>1. handle = database /\ database \in Indexes /\ OneMode(database)
        BY DEF HostInv, Types, CopyInv, ModeInv
    <1>2. /\ database.format = "legacy" /\ database.policy = dim /\ database.chunks \subseteq {dim}
          /\ \A e \in Live(database) : database.dims[e] = dim
        BY <1>1 DEF RequireLegacyMode, OneMode
    <1>3. OneMode(With(database, d, c, dim))
        BY <1>1, <1>2, LegacyKeepsMode
    <1> QED BY <1>1, <1>3

(* An upsert that publishes, of either format, answered or not. *)
LEMMA PublishedKeeps ==
    ASSUME HostInv, NEW d \in Documents, NEW c \in Contents, NEW dim \in Dims \cup {0},
           UpsertPortable(d, c, dim) \/ UpsertLegacy(d, c, dim) \/ DiesInUpsert(d, c, dim)
    PROVE  HostInv'
    <1>1. host = "mobile" /\ handle \in Indexes /\ OneMode(handle)
        BY DEF UpsertPortable, UpsertLegacy, DiesInUpsert, HostInv, Types, ModeInv
    <1>2. /\ allowed' \in [Documents -> SUBSET (Contents \cup {NoDoc})] /\ c \in allowed'[d]
          /\ \A e \in Documents \ {d} : allowed'[e] = allowed[e]
        <2>1. \/ allowed' = [allowed EXCEPT ![d] = {c}]
              \/ allowed' = [allowed EXCEPT ![d] = @ \cup {c}]
            BY DEF UpsertPortable, UpsertLegacy, DiesInUpsert
        <2> QED BY <2>1 DEF HostInv, Types
    <1>3. CASE handle.format = "portable" /\ RequirePortableMode(handle, dim)
        <2> DEFINE i == With(handle, d, c, dim)
        <2>1. /\ i \in Indexes /\ i.docs[d] = c /\ i.format = handle.format /\ i.policy = handle.policy
              /\ \A e \in Documents \ {d} : i.docs[e] = handle.docs[e]
            BY <1>1, WithHandle
        <2>2. OneMode(i)
            BY <1>1, <1>3, PortableKeepsMode
        <2>3. CASE UpsertPortable(d, c, dim)
            <3>1. handle' = i /\ Publishes(handle', d) /\ host' = host
                BY <2>3 DEF UpsertPortable
            <3>2. Publishes(i, d)
                BY <3>1 DEF Publishes
            <3> HIDE DEF i
            <3> QED BY <1>1, <1>2, <2>1, <2>2, <3>1, <3>2, PublishesKeeps
        <2>4. CASE DiesInUpsert(d, c, dim)
            <3>1. Publishes(i, d) /\ host' = "none" /\ handle' = NewBackend
                BY <1>3, <2>4 DEF DiesInUpsert
            <3> HIDE DEF i
            <3> QED BY <1>1, <1>2, <2>1, <2>2, <3>1, PublishesKeeps
        <2> QED BY <1>3, <2>3, <2>4 DEF UpsertLegacy
    <1>4. CASE handle.format = "legacy" /\ RequireLegacyMode(database, dim)
        <2>1. /\ handle = database /\ database \in Indexes
              /\ OneMode(database) /\ OneMode(With(database, d, c, dim))
            BY <1>1, <1>4, LegacyModeKeeps
        <2> DEFINE i == With(database, d, c, dim)
        <2>2. /\ i \in Indexes /\ i.docs[d] = c /\ i.format = handle.format /\ i.policy = handle.policy
              /\ \A e \in Documents \ {d} : i.docs[e] = handle.docs[e]
            BY <2>1, WithHandle
        <2>3. OneMode(i)
            BY <2>1
        <2>4. CASE UpsertLegacy(d, c, dim) /\ database.docs[d] = c
            <3>1. Publishes(database, d) /\ handle' = handle /\ host' = host
                BY <2>4 DEF UpsertLegacy
            <3>2. handle' = database /\ host' = "mobile"
                BY <1>1, <2>1, <3>1
            <3>3. /\ database.format = "legacy" => database.policy = handle.policy
                  /\ \A e \in Documents \ {d} : database.docs[e] = handle.docs[e]
                BY <2>1
            <3> HIDE DEF i
            <3> QED BY <1>1, <1>2, <1>4, <2>1, <2>4, <3>1, <3>2, <3>3, PublishesKeeps
        <2>5. CASE UpsertLegacy(d, c, dim) /\ database.docs[d] # c
            <3>1. handle' = i /\ host' = host
                BY <2>5 DEF UpsertLegacy
            <3>2. Publishes(handle', d)
                BY <2>5 DEF UpsertLegacy
            <3>3. Publishes(i, d)
                BY <3>1, <3>2 DEF Publishes
            <3> HIDE DEF i
            <3> QED BY <1>1, <1>2, <2>2, <2>3, <3>1, <3>3, PublishesKeeps
        <2>6. CASE DiesInUpsert(d, c, dim)
            <3>1. Publishes(i, d) /\ host' = "none" /\ handle' = NewBackend
                BY <1>4, <2>6 DEF DiesInUpsert
            <3> HIDE DEF i
            <3> QED BY <1>1, <1>2, <2>2, <2>3, <3>1, PublishesKeeps
        <2> QED BY <1>4, <2>4, <2>5, <2>6 DEF UpsertPortable
    <1> QED BY <1>1, <1>3, <1>4 DEF UpsertPortable, UpsertLegacy, DiesInUpsert, HostInv, Types, Indexes

(* A process that ends keeps the file; an acknowledgement that was not
   published goes with it. *)
LEMMA StopKeeps ==
    ASSUME HostInv, Stop
    PROVE  HostInv'
    <1>1. /\ host' = "none" /\ handle' = NewBackend /\ unsaved' = {}
          /\ pc' = [t \in Stagers |-> "idle"] /\ next' = [t \in Stagers |-> NewBackend]
          /\ allowed' = [d \in Documents |-> IF d \in unsaved THEN {OnDisk(d)} ELSE allowed[d]]
          /\ UNCHANGED <<database, manifest, options, doc, overlapped>>
        BY DEF Stop
    <1>2. \A d \in Documents : OnDisk(d) \in Contents \cup {NoDoc}
        BY DEF HostInv, Types, OnDisk, Indexes
    <1>3. Types'
        <2>1. allowed' \in [Documents -> SUBSET (Contents \cup {NoDoc})]
            BY <1>1, <1>2 DEF HostInv, Types
        <2> QED BY <1>1, <2>1, NewFacts DEF HostInv, Types
    <1>4. CopyInv'
        BY <1>1 DEF CopyInv
    <1>5. AckedOnDisk'
        BY <1>1 DEF HostInv, AckedOnDisk, OnDisk
    <1>6. PolicyInv'
        BY <1>1 DEF HostInv, PolicyInv
    <1>7. BridgeReopens'
        BY <1>1 DEF HostInv, BridgeReopens, Stop
    <1>8. ModeInv'
        BY <1>1, NewFacts DEF HostInv, ModeInv
    <1> QED BY <1>3, <1>4, <1>5, <1>6, <1>7, <1>8 DEF HostInv
-----------------------------------------------------------------------------
(* Theorems                                                                *)

(* The invariant holds in every reachable state. *)
LEMMA HostInvariant == Spec => []HostInv
    <1>1. Init => HostInv
        <2> SUFFICES ASSUME Init PROVE HostInv
            OBVIOUS
        <2>1. Types
            BY NewFacts DEF Init, Types
        <2>2. CopyInv /\ AckedOnDisk /\ PolicyInv /\ BridgeReopens
            BY DEF Init, CopyInv, AckedOnDisk, OnDisk, PolicyInv, BridgeReopens
        <2>3. ModeInv
            BY NewFacts DEF Init, ModeInv
        <2> QED BY <2>1, <2>2, <2>3 DEF HostInv
    <1>2. HostInv /\ [Next]_vars => HostInv'
        <2> SUFFICES ASSUME HostInv, [Next]_vars PROVE HostInv'
            OBVIOUS
        <2>1. ASSUME NEW d \in Documents, NEW c \in Contents, NEW dim \in Dims \cup {0},
                     Upsert(d, c, dim)
              PROVE  HostInv'
            BY <2>1, PublishedKeeps, UnpublishedKeeps DEF Upsert
        <2>2. ASSUME NEW d \in Documents, NEW c \in Contents,
                     UpsertLexical(d, c) \/ \E dim \in Dims : UpsertVectors(d, c, dim)
              PROVE  HostInv'
            BY <2>1, <2>2 DEF UpsertLexical, UpsertVectors
        <2>3. CASE UNCHANGED vars
            BY <2>3 DEF vars, HostInv, Types, CopyInv, AckedOnDisk, OnDisk, PolicyInv,
               Loadable, BridgeReopens, ModeInv
        <2>4. CASE Next
            BY <2>2, <2>4, IndexOpenKeeps, StageKeeps, FailsKeeps, RenameKeeps, ManifestKeeps,
               StageReturnsKeeps, MobileOpenKeeps, StopKeeps DEF Next
        <2> QED BY <2>3, <2>4
    <1> QED BY <1>1, <1>2, PTL DEF Spec

(* The file holds what the last successful call left of a document, or what
   a call that failed or died since may have left. *)
THEOREM FileHoldsAcked == Spec => []AckedOnDisk
    <1>1. HostInv => AckedOnDisk
        BY DEF HostInv
    <1> QED BY <1>1, HostInvariant, PTL

(* A file the bridge published opens again with the options that wrote it,
   unless the first publication was interrupted. *)
THEOREM BridgeFileReopens == Spec => []BridgeReopens
    <1>1. HostInv => BridgeReopens
        BY DEF HostInv
    <1> QED BY <1>1, HostInvariant, PTL

(* No accepted upsert makes a mobile index unsearchable for the dimension
   its documents were embedded with. *)
THEOREM MobileStaysSearchable == Spec => []SearchAnswers
    <1>1. HostInv => SearchAnswers
        <2> SUFFICES ASSUME HostInv, NEW d \in Live(handle)
                     PROVE  SearchAccepts(handle, handle.dims[d])
            BY DEF SearchAnswers
        <2>1. OneMode(handle)
            BY DEF HostInv, ModeInv
        <2>2. CASE handle.format = "legacy"
            BY <2>1, <2>2 DEF OneMode, SearchAccepts, RequireLegacyMode
        <2>3. CASE handle.format # "legacy"
            <3>1. handle.format = "portable"
                BY <2>3 DEF HostInv, Types, Indexes
            <3>2. LiveDims(handle) = {handle.dims[d]}
                BY <2>1, <2>3 DEF OneMode, LiveDims
            <3> QED BY <3>1, <3>2 DEF SearchAccepts, RequirePortableMode
        <2> QED BY <2>2, <2>3
    <1> QED BY <1>1, HostInvariant, PTL
=============================================================================
