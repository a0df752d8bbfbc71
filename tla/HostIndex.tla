------------------------------ MODULE HostIndex ------------------------------
(***************************************************************************)
(* One index file and the two C libraries that own it: the bridge          *)
(* (src/bridge.cpp), whose host stages a candidate from its active handle  *)
(* and swaps the handle, and the mobile library (src/mobile.cpp), whose    *)
(* handle is either a portable checkpoint kept in memory or a legacy       *)
(* container that is loaded for every mutation.                            *)
(*                                                                         *)
(* The bridge publishes in two steps, the database and then its manifest,  *)
(* and its host may stage from several threads.  A mobile handle holds its *)
(* mutex for a whole call.  Either process may die at any step, be started *)
(* with other options, or be replaced by the other on the same file.       *)
(***************************************************************************)
EXTENDS Integers, FiniteSets

CONSTANTS
    Documents, Contents,
    NoDoc,          \* no live document
    Dims,           \* embedding dimensions; 0 stands for no embedding
    Stagers,        \* threads of the bridge's host
    NoFile, NoManifest,
    MaxCalls,       \* bound on mutations
    MaxFaults,      \* bound on failing builds and writes
    MaxRestarts     \* bound on processes started

(* What a file holds: format, chunking policy (0 for none), live documents,
   the dimension of each, and the dimensions of all its chunks. *)
Indexes == [format : {"legacy", "portable"}, policy : Dims \cup {0},
            docs : [Documents -> Contents \cup {NoDoc}],
            dims : [Documents -> Dims \cup {0}], chunks : SUBSET (Dims \cup {0})]

ASSUME HostAssumption ==
    /\ NoDoc \notin Contents
    /\ Dims \subseteq Nat \ {0}
    /\ NoFile \notin Indexes /\ NoManifest \notin Dims
    /\ {MaxCalls, MaxFaults, MaxRestarts} \subseteq Nat

VARIABLES
    database,       \* the file: format, chunking policy, documents, chunks
    manifest,       \* the dimension the manifest beside it names
    host,           \* the library that runs: "none", "bridge", "mobile"
    options,        \* lrs_index_options of the bridge: its dimension
    active,         \* the documents of the bridge's active handle
    pc, next, doc,  \* of a stager: its step, its candidate, its document
    handle,         \* the mobile handle
    calls, faults, restarts,
    (* History: the contents of a document that its calls allow; documents
       staged while another stage was under way; documents acknowledged as
       unchanged while the file held something else; a first publication that
       ended between database and manifest. *)
    allowed, overlapped, unsaved, interrupted

vars == <<database, manifest, host, options, active, pc, next, doc, handle,
          calls, faults, restarts, allowed, overlapped, unsaved, interrupted>>
bridge == <<options, active, pc, next, doc>>
-----------------------------------------------------------------------------
None == [d \in Documents |-> NoDoc]

(* A container: chunks of deleted and replaced documents stay in it, so its
   chunk dimensions are kept beside its live documents. *)
NewEngine(o) == [format |-> "legacy", policy |-> o, docs |-> None,
                 dims |-> [d \in Documents |-> 0], chunks |-> {}]

NewBackend == [format |-> "portable", policy |-> 0, docs |-> None,
               dims |-> [d \in Documents |-> 0], chunks |-> {}]

Live(i) == {d \in Documents : i.docs[d] # NoDoc}
LiveDims(i) == {i.dims[d] : d \in Live(i)}

With(i, d, c, dim) == [i EXCEPT !.docs[d] = c, !.dims[d] = dim, !.chunks = @ \cup {dim}]
Without(i, d) == [i EXCEPT !.docs[d] = NoDoc]

(* load_engine() of the bridge: an absent file is a new engine, a stored
   policy must be that of the options. *)
Loadable == database # NoFile => database.format = "legacy" /\ database.policy = options
Loaded == IF database = NoFile THEN NewEngine(options) ELSE database

OnDisk(d) == IF database = NoFile THEN NoDoc ELSE database.docs[d]

(* validate_manifest(). *)
ValidateManifest(o) == database = NoFile \/ manifest = o
-----------------------------------------------------------------------------
(* Mutant: the manifest is written when a missing database is opened. *)
OpenWritesManifest(o) ==
    /\ host = "none" /\ restarts < MaxRestarts
    /\ restarts' = restarts + 1
    /\ ValidateManifest(o)
    /\ host' = "bridge" /\ options' = o
    /\ manifest' = IF manifest = NoManifest THEN o ELSE manifest
    /\ active' = IF database = NoFile THEN None ELSE database.docs
    /\ UNCHANGED <<database, pc, next, doc, handle, calls, faults, allowed,
                   overlapped, unsaved, interrupted>>

(* lrs_index_open(). *)
IndexOpen(o) ==
    /\ host = "none" /\ restarts < MaxRestarts
    /\ restarts' = restarts + 1
    /\ ValidateManifest(o)
    /\ database # NoFile => database.format = "legacy" /\ database.policy = o
    /\ host' = "bridge" /\ options' = o
    /\ active' = IF database = NoFile THEN None ELSE database.docs
    /\ UNCHANGED <<database, manifest, pc, next, doc, handle, calls, faults,
                   allowed, overlapped, unsaved, interrupted>>

Staging == {t \in Stagers : pc[t] # "idle"}

Called(d) ==
    /\ calls < MaxCalls /\ calls' = calls + 1
    /\ overlapped' = overlapped \cup
         (IF Staging = {} THEN {} ELSE {d} \cup {doc[t] : t \in Staging})

(* A candidate equal to the file is returned when nothing has to be done:
   an unchanged document, judged by the active handle, or an absent one. *)
ReturnsLoaded ==
    /\ active' = Loaded.docs
    /\ UNCHANGED <<database, manifest, host, options, pc, next, doc, handle, faults,
                   restarts, interrupted>>

(* The history of a call for d that answers c without a write. *)
Answered(d, c) ==
    /\ allowed' = [allowed EXCEPT ![d] = {c}]
    /\ unsaved' = IF OnDisk(d) = c THEN unsaved \ {d} ELSE unsaved \cup {d}

Begins(t, d, i) ==
    /\ pc' = [pc EXCEPT ![t] = "staged"]
    /\ next' = [next EXCEPT ![t] = i]
    /\ doc' = [doc EXCEPT ![t] = d]
    /\ UNCHANGED <<database, manifest, host, options, active, handle, faults,
                   restarts, allowed, unsaved, interrupted>>

StageUpsert(t, d, c) ==
    /\ host = "bridge" /\ pc[t] = "idle" /\ Loadable
    /\ Called(d)
    /\ IF active[d] = c
       THEN ReturnsLoaded /\ Answered(d, c)
       ELSE Begins(t, d, With(Loaded, d, c, options))

StageDelete(t, d) ==
    /\ host = "bridge" /\ pc[t] = "idle" /\ Loadable
    /\ Called(d)
    /\ IF d \notin Live(Loaded)
       THEN ReturnsLoaded /\ Answered(d, NoDoc)
       ELSE Begins(t, d, Without(Loaded, d))

(* A stager at rest. *)
Ends(t) ==
    /\ pc' = [pc EXCEPT ![t] = "idle"]
    /\ next' = [next EXCEPT ![t] = NewBackend]
    /\ UNCHANGED doc

(* An error before the rename: embedding, saving or validating failed. *)
StageFails(t) ==
    /\ pc[t] = "staged" /\ faults < MaxFaults
    /\ faults' = faults + 1
    /\ Ends(t)
    /\ UNCHANGED <<database, manifest, host, options, active, handle, calls,
                   restarts, allowed, overlapped, unsaved, interrupted>>

(* publish(): the validated staging file replaces the database. *)
RenameDatabase(t) ==
    /\ pc[t] = "staged"
    /\ pc' = [pc EXCEPT ![t] = "renamed"]
    /\ database' = next[t]
    /\ allowed' = [allowed EXCEPT ![doc[t]] = @ \cup {next[t].docs[doc[t]]}]
    /\ unsaved' = unsaved \ {doc[t]}
    /\ UNCHANGED <<manifest, host, options, active, next, doc, handle, calls, faults,
                   restarts, overlapped, interrupted>>

(* write_manifest(), and the candidate becomes the active handle. *)
WriteManifest(t) ==
    /\ pc[t] = "renamed"
    /\ pc' = [pc EXCEPT ![t] = "published"]
    /\ manifest' = options
    /\ interrupted' = FALSE
    /\ UNCHANGED <<database, host, options, active, next, doc, handle, calls, faults,
                   restarts, allowed, overlapped, unsaved>>

(* It throws: the call fails after the database was replaced. *)
ManifestFails(t) ==
    /\ pc[t] = "renamed" /\ faults < MaxFaults
    /\ faults' = faults + 1
    /\ Ends(t)
    /\ interrupted' = (manifest = NoManifest)
    /\ UNCHANGED <<database, manifest, host, options, active, handle, calls,
                   restarts, allowed, overlapped, unsaved>>

StageReturns(t) ==
    /\ pc[t] = "published"
    /\ Ends(t)
    /\ active' = next[t].docs
    /\ allowed' = [allowed EXCEPT ![doc[t]] = {next[t].docs[doc[t]]}]
    /\ UNCHANGED <<database, manifest, host, options, handle, calls, faults,
                   restarts, overlapped, unsaved, interrupted>>
-----------------------------------------------------------------------------
(* lrs_mobile_open(): a portable checkpoint, else a legacy container. *)
MobileOpen ==
    /\ host = "none" /\ restarts < MaxRestarts
    /\ restarts' = restarts + 1
    /\ host' = "mobile"
    /\ handle' = IF database = NoFile THEN NewBackend ELSE database
    /\ UNCHANGED <<database, manifest, bridge, calls, faults, allowed, overlapped,
                   unsaved, interrupted>>

(* require_portable_mode(): the live chunks have one dimension. *)
RequirePortableMode(i, dim) == Live(i) = {} \/ LiveDims(i) = {dim}

(* has_embeddings() and require_vector_compatible(): every chunk of the
   container counts, deleted or not. *)
RequireLegacyMode(i, dim) == i.chunks \subseteq {dim}

(* The end of a mobile mutation that publishes index i. *)
Publishes(i, d) ==
    /\ calls < MaxCalls /\ calls' = calls + 1
    /\ database' = i
    /\ unsaved' = {}
    /\ UNCHANGED <<manifest, bridge, faults, overlapped, interrupted>>

(* Mutant: the mode of the index is not checked. *)
UpsertAnyMode(d, c, dim) ==
    /\ host = "mobile" /\ handle.format = "portable"
    /\ handle.docs[d] # c
    /\ handle' = With(handle, d, c, dim)
    /\ Publishes(handle', d)
    /\ allowed' = [allowed EXCEPT ![d] = {c}]
    /\ UNCHANGED <<host, restarts>>

(* Mutant: the checkpoint precedes the activation. *)
UpsertPublishesFirst(d, c, dim) ==
    /\ host = "mobile" /\ handle.format = "portable"
    /\ RequirePortableMode(handle, dim)
    /\ handle.docs[d] # c
    /\ handle' = With(handle, d, c, dim)
    /\ Publishes(handle, d)
    /\ allowed' = [allowed EXCEPT ![d] = {c}]
    /\ UNCHANGED <<host, restarts>>

(* An upsert of a portable index, without vectors (dim = 0) or with them:
   activated in memory, then a checkpoint of the whole index. *)
UpsertPortable(d, c, dim) ==
    /\ host = "mobile" /\ handle.format = "portable"
    /\ RequirePortableMode(handle, dim)
    /\ handle.docs[d] # c
    /\ handle' = With(handle, d, c, dim)
    /\ Publishes(handle', d)
    /\ allowed' = [allowed EXCEPT ![d] = {c}]
    /\ UNCHANGED <<host, restarts>>

(* The checkpoint fails: the version stays active in memory. *)
PublishFails(d, c, dim) ==
    /\ host = "mobile" /\ handle.format = "portable"
    /\ RequirePortableMode(handle, dim)
    /\ handle.docs[d] # c
    /\ calls < MaxCalls /\ calls' = calls + 1
    /\ faults < MaxFaults /\ faults' = faults + 1
    /\ handle' = With(handle, d, c, dim)
    /\ allowed' = [allowed EXCEPT ![d] = @ \cup {c}]
    /\ UNCHANGED <<database, manifest, host, bridge, restarts, overlapped, unsaved,
                   interrupted>>

(* The content is that of the active version: success without a write. *)
UpsertUnchanged(d, c, dim) ==
    /\ host = "mobile" /\ handle.format = "portable"
    /\ RequirePortableMode(handle, dim)
    /\ handle.docs[d] = c
    /\ calls < MaxCalls /\ calls' = calls + 1
    /\ Answered(d, c)
    /\ UNCHANGED <<database, manifest, host, bridge, handle, faults, restarts,
                   overlapped, interrupted>>

(* The same on a legacy container: loaded from the file, published, and only
   then the handle's; a failure leaves both as they were. *)
UpsertLegacy(d, c, dim) ==
    /\ host = "mobile" /\ handle.format = "legacy"
    /\ RequireLegacyMode(database, dim)
    /\ handle' = IF database.docs[d] = c THEN handle ELSE With(database, d, c, dim)
    /\ Publishes(IF database.docs[d] = c THEN database ELSE handle', d)
    /\ allowed' = [allowed EXCEPT ![d] = {c}]
    /\ UNCHANGED <<host, restarts>>

(* The process dies after the file was replaced and before the answer. *)
DiesInUpsert(d, c, dim) ==
    /\ host = "mobile"
    /\ IF handle.format = "portable"
       THEN /\ RequirePortableMode(handle, dim)
            /\ Publishes(With(handle, d, c, dim), d)
       ELSE /\ RequireLegacyMode(database, dim)
            /\ Publishes(With(database, d, c, dim), d)
    /\ host' = "none" /\ handle' = NewBackend
    /\ allowed' = [allowed EXCEPT ![d] = @ \cup {c}]
    /\ UNCHANGED restarts

Upsert(d, c, dim) ==
    \/ UpsertPortable(d, c, dim) \/ PublishFails(d, c, dim)
    \/ UpsertUnchanged(d, c, dim) \/ UpsertLegacy(d, c, dim)
    \/ DiesInUpsert(d, c, dim)

UpsertLexical(d, c) == Upsert(d, c, 0)
UpsertVectors(d, c, dim) == Upsert(d, c, dim)

(* lrs_mobile_search_json(): a dense or hybrid query of dimension dim. *)
SearchAccepts(i, dim) == IF i.format = "portable" THEN RequirePortableMode(i, dim)
                         ELSE RequireLegacyMode(i, dim)
-----------------------------------------------------------------------------
(* The process ends, by a crash or by closing its handles.  What was
   acknowledged without having been published is gone. *)
Stop ==
    /\ host # "none" /\ host' = "none"
    /\ handle' = NewBackend /\ active' = None
    /\ pc' = [t \in Stagers |-> "idle"]
    /\ next' = [t \in Stagers |-> NewBackend]
    /\ interrupted' = (interrupted \/ (manifest = NoManifest /\ \E t \in Stagers : pc[t] = "renamed"))
    /\ allowed' = [d \in Documents |->
                     IF d \in unsaved
                     THEN {OnDisk(d)} ELSE allowed[d]]
    /\ unsaved' = {}
    /\ UNCHANGED <<database, manifest, options, doc, calls, faults, restarts, overlapped>>

Init ==
    /\ database = NoFile /\ manifest = NoManifest
    /\ host = "none" /\ options \in Dims
    /\ active = None /\ handle = NewBackend
    /\ pc = [t \in Stagers |-> "idle"]
    /\ next = [t \in Stagers |-> NewBackend]
    /\ doc = [t \in Stagers |-> CHOOSE d \in Documents : TRUE]
    /\ calls = 0 /\ faults = 0 /\ restarts = 0
    /\ allowed = [d \in Documents |-> {NoDoc}]
    /\ overlapped = {} /\ unsaved = {} /\ interrupted = FALSE

Next ==
    \/ \E o \in Dims : IndexOpen(o)
    \/ \E t \in Stagers, d \in Documents :
        \/ \E c \in Contents : StageUpsert(t, d, c)
        \/ StageDelete(t, d)
    \/ \E t \in Stagers :
        \/ StageFails(t) \/ RenameDatabase(t) \/ WriteManifest(t)
        \/ ManifestFails(t) \/ StageReturns(t)
    \/ MobileOpen
    \/ \E d \in Documents, c \in Contents :
        UpsertLexical(d, c) \/ \E dim \in Dims : UpsertVectors(d, c, dim)
    \/ Stop

Spec == Init /\ [][Next]_vars
-----------------------------------------------------------------------------
(* The file holds of every document what the last successful call left, or
   what a call that failed or died since may have left: through failing
   publications, retries, crashes, and one library taking over from the
   other.  Exempt are documents staged by the bridge while another stage
   was under way, and a document whose upsert was answered as unchanged by
   a handle that a failed publication had left ahead of, or behind, the
   file. *)
AckedOnDisk ==
    \A d \in Documents \ (overlapped \cup unsaved) : OnDisk(d) \in allowed[d]

(* A file the bridge published can be opened again with the options that
   wrote it: the manifest names the policy of the database, unless the very
   first publication ended between the two renames. *)
BridgeReopens ==
    database # NoFile /\ database.format = "legacy" =>
        \/ manifest = database.policy
        \/ manifest = NoManifest /\ (interrupted \/ \E t \in Stagers : pc[t] = "renamed")

(* Whatever upserts an index went through, lexical and with vectors, under
   both formats, a query of the dimension some live document was embedded
   with is answered: no accepted upsert makes an index unsearchable. *)
SearchAnswers ==
    host = "mobile" =>
        \A d \in Live(handle) : handle.dims[d] # 0 => SearchAccepts(handle, handle.dims[d])
=============================================================================
