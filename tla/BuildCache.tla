------------------------------ MODULE BuildCache ------------------------------
(***************************************************************************)
(* The incremental build of pilot (packages/pilot/src/build/index.ts,      *)
(* buildApps, with build/store.ts and cache/): one `ycsf build' process    *)
(* after another over the files it shares with the next one: the sources,  *)
(* .ycsf/cache/manifest.json, .ycsf/cache/blobs and .ycsf/artifacts.       *)
(*                                                                         *)
(* Two builds at once are out of scope of the program (specs/022-          *)
(* incremental-builds/spec.md, S-3), so there is one run at a time.  A run *)
(* may end at any await; the files it leaves behind are what the next run  *)
(* starts from.                                                            *)
(*                                                                         *)
(* A version of a source stands for everything the own fingerprint covers: *)
(* files, build_config, resolved buildEnv, builder package.  SHA-256 is    *)
(* taken to be free of collisions: a fingerprint is the value it hashes.   *)
(***************************************************************************)
EXTENDS Integers, Sequences

CONSTANTS
    Apps,          \* the apps of apps.yaml
    DependsOn,     \* depends_on of every app
    Order,         \* depends_on_graph.topologicalOrder
    Source,        \* source_path of every app
    Versions,      \* the contents a source can have
    Symlinked,     \* apps whose source contains a symbolic link
    HashedNames,   \* apps whose builder names its files by their content
    Targets,       \* the values of --target in use
    NoCacheFlags,  \* the values of --no-cache in use
    Faults,        \* "crash", "edit", "purge", "copy", "write"
    MaxDisturbances,  \* bound on edits, purges, failing builds and crashes
    AllApps, Absent, Torn

ASSUME CacheAssumption ==
    /\ DependsOn \in [Apps -> SUBSET Apps]
    /\ Apps # {} /\ Order \in Seq(Apps)
    /\ \A a \in Apps : \E k \in 1..Len(Order) :
          Order[k] = a /\ DependsOn[a] \subseteq {Order[j] : j \in 1..(k - 1)}
    /\ \A j, k \in 1..Len(Order) : Order[j] = Order[k] => j = k
    /\ Symlinked \subseteq Apps /\ HashedNames \subseteq Apps
    /\ Targets \subseteq Apps \cup {AllApps} /\ AllApps \notin Apps
    /\ NoCacheFlags \subseteq BOOLEAN
    /\ Faults \subseteq {"crash", "edit", "purge", "copy", "write"}
    /\ MaxDisturbances \in Nat

VARIABLES
    version,   \* the content of every source
    manifest,  \* manifest.json: effectiveFingerprint of each app's entry
    blobs,     \* blobs/<fingerprint>: artifact.json and files, for those that exist
    store,     \* artifacts/<app>: artifact.json and files
    run,       \* the build process: its options and local variables
    history,   \* settled: nothing has changed since the last complete build;
               \* plain: no run had --target or --no-cache so far
    disturbances  \* counts what MaxDisturbances bounds

vars == <<version, manifest, blobs, store, run, history, disturbances>>

Sources == {Source[a] : a \in Apps}

(* The apps an app depends on, directly or not, and itself. *)
Closure(a) ==
    {b \in Apps : \A S \in SUBSET Apps :
        (a \in S /\ \A x \in S : DependsOn[x] \subseteq S) => b \in S}

SourcesOf(a) == {Source[b] : b \in Closure(a)}

(* What a build of an app produces: it can depend on all it may read, the      *)
(* app's own source and the sources of what it depends on.                     *)
Output(a, sources) == [app |-> a, saw |-> [s \in SourcesOf(a) |-> sources[s]]]

(* Files written into a directory: cp and the builders overwrite what has the  *)
(* same name and remove nothing.                                               *)
Overlay(a, old, new) == IF a \in HashedNames THEN old \cup new ELSE new

Outputs == UNION {[app: {a}, saw: [SourcesOf(a) -> Versions]] : a \in Apps}

(* Neither a missing nor a torn artifact.json passes for that of a build.      *)
ASSUME DescriptorAssumption == Absent \notin Outputs /\ Torn \notin Outputs /\ Absent # Torn

NoEntry == [entry |-> "none"]
EmptyManifest == [a \in Apps |-> NoEntry]
NoFiles == [descriptor |-> Absent, files |-> {}]

NoRun == [pc |-> "none", target |-> AllApps, noCache |-> FALSE, todo |-> <<>>,
          effective |-> <<>>, loaded |-> EmptyManifest,
          current |-> EmptyManifest, artifact |-> Absent, hit |-> FALSE,
          wasSettled |-> FALSE, undisturbed |-> TRUE, results |-> <<>>]

Init ==
    /\ version \in [Sources -> Versions]
    /\ manifest = EmptyManifest
    /\ blobs = <<>>
    /\ store = [a \in Apps |-> NoFiles]
    /\ run = NoRun
    /\ history = [settled |-> FALSE, plain |-> TRUE]
    /\ disturbances = 0

-----------------------------------------------------------------------------
(* The user and the environment, outside the program. *)

Running == run.pc # "none"

Disturb ==
    /\ disturbances < MaxDisturbances
    /\ disturbances' = disturbances + 1
    /\ history' = [history EXCEPT !.settled = FALSE]

EditSource ==
    /\ "edit" \in Faults \/ ~Running
    /\ \E s \in Sources : \E v \in Versions \ {version[s]} :
        version' = [version EXCEPT ![s] = v]
    /\ run' = [run EXCEPT !.undisturbed = ~Running]
    /\ Disturb
    /\ UNCHANGED <<manifest, blobs, store>>

(* A blob is deleted by hand or lost by whoever keeps the cache between jobs. *)
PurgeBlob ==
    /\ "purge" \in Faults /\ ~Running
    /\ \E f \in DOMAIN blobs : blobs' = [g \in DOMAIN blobs \ {f} |-> blobs[g]]
    /\ Disturb
    /\ UNCHANGED <<version, manifest, store, run>>

(* manifest.json is missing, corrupted or of another version: the next run     *)
(* loads no manifest.                                                          *)
LoseManifest ==
    /\ "purge" \in Faults /\ ~Running
    /\ manifest # EmptyManifest
    /\ manifest' = EmptyManifest
    /\ Disturb
    /\ UNCHANGED <<version, blobs, store, run>>

-----------------------------------------------------------------------------
(* Fingerprints. *)

(* Files that cannot be hashed get a constant in place of their hash. *)
OwnFingerprint(a) ==
    IF a \in Symlinked THEN [symlink |-> a]
    ELSE [source |-> Source[a], version |-> version[Source[a]]]

(* Mutant: the dependencies do not count. *)
EffectiveFingerprintOwnOnly(own, deps) == [own |-> own, deps |-> {}]

EffectiveFingerprint(own, deps) == [own |-> own, deps |-> deps]

(* The fingerprint a run uses for a dependency: its own, if it builds it, else *)
(* that of the last build, else a constant.                                    *)
DependencyFingerprint(d, effective) ==
    IF d \in DOMAIN effective THEN effective[d]
    ELSE IF run.loaded[d] # NoEntry THEN run.loaded[d]
    ELSE [missing |-> d]

Blob(f) == IF f \in DOMAIN blobs THEN blobs[f] ELSE NoFiles

WriteBlob(f, blob) ==
    blobs' = [g \in DOMAIN blobs \cup {f} |-> IF g = f THEN blob ELSE blobs[g]]

-----------------------------------------------------------------------------
(* One run of buildApps. *)

App == Head(run.todo)
Fingerprint == run.effective[App]

(* The loaded entries, and the apps selected in their order; and what history  *)
(* keeps of the options: --target --no-cache forgets the entries of the others.*)
Begin(target, noCache, loaded) ==
    /\ run' = [NoRun EXCEPT
                 !.pc = "hashing", !.target = target, !.noCache = noCache,
                 !.todo = IF target = AllApps THEN Order ELSE <<target>>,
                 !.loaded = loaded, !.current = loaded, !.wasSettled = history.settled]
    /\ history' = [settled |-> history.settled /\ ~(noCache /\ target # AllApps),
                   plain |-> history.plain /\ ~noCache /\ target = AllApps]

(* Mutant: the manifest is read for the selected apps only. *)
StartRunSelectedEntries ==
    /\ ~Running
    /\ \E target \in Targets, noCache \in NoCacheFlags :
        Begin(target, noCache, [a \in Apps |->
            IF target \in {a, AllApps} /\ ~noCache THEN manifest[a] ELSE NoEntry])
    /\ UNCHANGED <<version, manifest, blobs, store, disturbances>>

(* Options, project model and manifest. *)
StartRun ==
    /\ ~Running
    /\ \E target \in Targets, noCache \in NoCacheFlags :
        Begin(target, noCache, IF noCache THEN EmptyManifest ELSE manifest)
    /\ UNCHANGED <<version, manifest, blobs, store, disturbances>>

(* computeFilesHash reads the files of the apps one after the other.           *)
HashApp ==
    /\ run.pc = "hashing"
    /\ \E k \in 1..Len(run.todo) :
        LET a == run.todo[k]
            own == OwnFingerprint(a)
            deps == {DependencyFingerprint(d, run.effective) : d \in DependsOn[a]}
        IN
        /\ \A j \in 1..Len(run.todo) : run.todo[j] \in DOMAIN run.effective <=> j < k
        /\ run' = [run EXCEPT
             !.effective = [b \in DOMAIN run.effective \cup {a} |->
                 IF b = a THEN EffectiveFingerprint(own, deps) ELSE run.effective[b]],
             !.pc = IF k = Len(run.todo) THEN "lookup" ELSE "hashing"]
    /\ UNCHANGED <<version, manifest, blobs, store, history, disturbances>>

(* checkCache: an entry with this fingerprint and a blob with artifact.json. *)
LookUpHit ==
    /\ run.pc = "lookup" /\ run.todo # <<>> /\ ~run.noCache
    /\ run.current[App] = Fingerprint
    /\ Blob(Fingerprint).descriptor # Absent
    /\ run' = [run EXCEPT !.pc = "restoring"]
    /\ UNCHANGED <<version, manifest, blobs, store, history, disturbances>>

LookUpMiss ==
    /\ run.pc = "lookup" /\ run.todo # <<>>
    /\ run.noCache \/ run.current[App] # Fingerprint
    /\ run' = [run EXCEPT !.pc = "building"]
    /\ UNCHANGED <<version, manifest, blobs, store, history, disturbances>>

(* The blob is missing, or artifact.json does not parse: the entry is dropped  *)
(* from the manifest before the app is built again.                            *)
HealEntry ==
    /\ \/ run.pc = "lookup" /\ run.todo # <<>> /\ ~run.noCache
             /\ run.current[App] = Fingerprint
             /\ Blob(Fingerprint).descriptor = Absent
       \/ run.pc = "restoring" /\ Blob(Fingerprint).descriptor = Torn
    /\ LET current == [run.current EXCEPT ![App] = NoEntry] IN
        /\ run' = [run EXCEPT !.pc = "building", !.current = current]
        /\ \/ manifest' = current
           \/ "write" \in Faults /\ UNCHANGED manifest
    /\ UNCHANGED <<version, blobs, store, history, disturbances>>

(* restoreBlob copies the files back; a failing copy is ignored. *)
RestoreBlob ==
    LET blob == Blob(Fingerprint) IN
    /\ run.pc = "restoring"
    /\ blob.descriptor \notin {Absent, Torn}
    /\ \/ store' = [store EXCEPT ![App].files = Overlay(App, @, blob.files)]
       \/ "copy" \in Faults
            /\ store' = [store EXCEPT ![App].files = Overlay(App, @, {Torn})]
    /\ run' = [run EXCEPT !.pc = "describing", !.artifact = blob.descriptor, !.hit = TRUE]
    /\ UNCHANGED <<version, manifest, blobs, history, disturbances>>

(* builder.build reads the sources as they are now and writes its files. *)
BuildApp ==
    LET output == Output(App, version) IN
    /\ run.pc = "building"
    /\ store' = [store EXCEPT ![App].files = Overlay(App, @, {output})]
    /\ run' = [run EXCEPT !.pc = "describing", !.artifact = output, !.hit = FALSE]
    /\ UNCHANGED <<version, manifest, blobs, history, disturbances>>

(* builder.build throws: buildApps returns at once. *)
BuildFails ==
    /\ run.pc = "building"
    /\ \E files \in {store[App].files, Overlay(App, store[App].files, {Torn})} :
        store' = [store EXCEPT ![App].files = files]
    /\ run' = NoRun
    /\ Disturb
    /\ UNCHANGED <<version, manifest, blobs>>

(* The artifact of this app is final: the loop goes on to the next app.        *)
NextApp(current) ==
    run' = [run EXCEPT
        !.pc = "lookup", !.todo = Tail(run.todo), !.current = current,
        !.results = [b \in DOMAIN run.results \cup {App} |->
            IF b = App THEN [hit |-> run.hit, artifact |-> run.artifact,
                             files |-> store[App].files]
            ELSE run.results[b]]]

(* writeStoreDescriptorBestEffort. *)
WriteDescriptor ==
    /\ run.pc = "describing"
    /\ \/ store' = [store EXCEPT ![App].descriptor = run.artifact]
       \/ "write" \in Faults /\ UNCHANGED store
    /\ IF run.hit THEN NextApp(run.current)
       ELSE run' = [run EXCEPT !.pc = "savingFiles"]
    /\ UNCHANGED <<version, manifest, blobs, history, disturbances>>

(* saveBlob copies the artifact directory into the blob.  A copy that fails on *)
(* the way is taken for an artifact directory that does not exist.             *)
SaveFiles ==
    LET blob == Blob(Fingerprint) IN
    /\ run.pc = "savingFiles"
    /\ \/ WriteBlob(Fingerprint,
             [blob EXCEPT !.files = Overlay(App, @, store[App].files)])
       \/ "copy" \in Faults
            /\ WriteBlob(Fingerprint, [blob EXCEPT !.files = Overlay(App, @, {Torn})])
    /\ run' = [run EXCEPT !.pc = "savingBlob"]
    /\ UNCHANGED <<version, manifest, store, history, disturbances>>

(* ... and then writes artifact.json. *)
SaveBlob ==
    /\ run.pc = "savingBlob"
    /\ \/ WriteBlob(Fingerprint, [Blob(Fingerprint) EXCEPT !.descriptor = run.artifact])
       \/ "write" \in Faults /\ UNCHANGED blobs
    /\ run' = [run EXCEPT !.pc = "savingManifest"]
    /\ UNCHANGED <<version, manifest, store, history, disturbances>>

(* Mutant: every save starts from the entries the run has loaded. *)
SaveManifestForgets ==
    LET current == [run.current EXCEPT ![App] = Fingerprint] IN
    /\ run.pc = "savingManifest"
    /\ \/ manifest' = current
       \/ "write" \in Faults /\ UNCHANGED manifest
    /\ NextApp(run.current)
    /\ UNCHANGED <<version, blobs, store, history, disturbances>>

(* saveManifest: a temporary file and a rename. *)
SaveManifest ==
    LET current == [run.current EXCEPT ![App] = Fingerprint] IN
    /\ run.pc = "savingManifest"
    /\ \/ manifest' = current
       \/ "write" \in Faults /\ UNCHANGED manifest
    /\ NextApp(current)
    /\ UNCHANGED <<version, blobs, store, history, disturbances>>

FinishRun ==
    /\ run.pc = "lookup" /\ run.todo = <<>>
    /\ run' = NoRun
    /\ history' = [history EXCEPT !.settled =
                       @ \/ (run.target = AllApps /\ run.undisturbed)]
    /\ UNCHANGED <<version, manifest, blobs, store, disturbances>>

(* The process dies.  What it was writing is incomplete, except the manifest. *)
Crash ==
    /\ "crash" \in Faults /\ Running
    /\ run' = NoRun
    /\ Disturb
    /\ CASE run.pc \in {"restoring", "building"} ->
              /\ \E files \in {store[App].files, Overlay(App, store[App].files, {Torn})} :
                    store' = [store EXCEPT ![App].files = files]
              /\ UNCHANGED blobs
         [] run.pc = "describing" ->
              /\ \E descriptor \in {store[App].descriptor, Torn} :
                    store' = [store EXCEPT ![App].descriptor = descriptor]
              /\ UNCHANGED blobs
         [] run.pc = "savingFiles" ->
              /\ \/ WriteBlob(Fingerprint, [Blob(Fingerprint) EXCEPT
                                  !.files = Overlay(App, @, {Torn})])
                 \/ UNCHANGED blobs
              /\ UNCHANGED store
         [] run.pc = "savingBlob" ->
              /\ \/ WriteBlob(Fingerprint, [Blob(Fingerprint) EXCEPT !.descriptor = Torn])
                 \/ UNCHANGED blobs
              /\ UNCHANGED store
         [] OTHER -> UNCHANGED <<blobs, store>>
    /\ UNCHANGED <<version, manifest>>

-----------------------------------------------------------------------------
Environment == EditSource \/ PurgeBlob \/ LoseManifest

RunStep ==
    \/ HashApp \/ LookUpHit \/ LookUpMiss \/ HealEntry \/ RestoreBlob
    \/ BuildApp \/ BuildFails \/ WriteDescriptor
    \/ SaveFiles \/ SaveBlob \/ SaveManifest \/ FinishRun

Next == Environment \/ StartRun \/ RunStep \/ Crash

Spec == Init /\ [][Next]_vars

-----------------------------------------------------------------------------
Steps == {"none", "hashing", "lookup", "restoring", "building", "describing",
          "savingFiles", "savingBlob", "savingManifest"}

(* The files of a directory are those of some builds, one of them perhaps cut  *)
(* short, and there is only one build unless the builder hashes its names.     *)
TypeOK ==
    /\ version \in [Sources -> Versions]
    /\ DOMAIN manifest = Apps
    /\ \A a \in Apps :
        /\ store[a].descriptor \in Outputs \cup {Absent, Torn}
        /\ store[a].files \subseteq Outputs \cup {Torn}
    /\ \A f \in DOMAIN blobs :
        /\ blobs[f].descriptor \in Outputs \cup {Absent, Torn}
        /\ blobs[f].files \subseteq Outputs \cup {Torn}
    /\ run.pc \in Steps
    /\ run.target \in Targets \cup {AllApps}
    /\ run.pc \notin {"none", "hashing"} => \A k \in 1..Len(run.todo) :
          run.todo[k] \in DOMAIN run.effective
    /\ history \in [settled : BOOLEAN, plain : BOOLEAN]
    /\ run.undisturbed \in BOOLEAN
    /\ disturbances \in 0..MaxDisturbances

Results == DOMAIN run.results

(* Whatever a build returns, restored or built, is never stale in the app's own *)
(* source, also with --target, although the fingerprints of the dependencies   *)
(* are then those of their last build.                                         *)
OwnSourceFresh ==
    \A a \in Results :
        LET artifact == run.results[a].artifact IN
        artifact.app = a /\ artifact.saw[Source[a]] = version[Source[a]]

(* And as long as neither --target nor --no-cache is used, it is what building *)
(* the app from the sources of now would give, the sources of its dependencies *)
(* included, and with all its files (buildApps; specs/022, S-4).  Nothing is   *)
(* said of the very run in which a source was edited, only of the later ones.  *)
FreshArtifacts ==
    /\ OwnSourceFresh
    /\ history.plain /\ run.undisturbed => \A a \in Results :
        /\ run.results[a].artifact = Output(a, version)
        /\ run.results[a].artifact \in run.results[a].files
        /\ Torn \notin run.results[a].files

(* The runs without --target and --no-cache are builds without a cache: what   *)
(* they return, one app after the other, is what building it now would give,   *)
(* whatever earlier runs have left behind (specs/022, S-4).                    *)
Uncached == INSTANCE UncachedBuild WITH
    results <- IF history.plain THEN [a \in Results |-> run.results[a].artifact]
               ELSE [a \in {} |-> a]

BuildsAsUncached == Uncached!Spec

(* Each app that is done is on disk at once, whatever happens to the next ones:*)
(* its manifest entry, the blob the entry names and the artifact descriptor    *)
(* (buildApps, save after every app).                                          *)
ResultsPersisted ==
    \A a \in Results :
        /\ manifest[a] = run.effective[a]
        /\ Blob(manifest[a]).descriptor = run.results[a].artifact
        /\ store[a].descriptor = run.results[a].artifact

(* When nothing has changed since a complete build no builder is called, with  *)
(* --target or without; only --no-cache builds again (specs/022, SC-001).      *)
NothingToBuild ==
    run.pc = "building" /\ run.wasSettled /\ run.undisturbed => run.noCache

(* A run with --target leaves the manifest entries of the other apps alone     *)
(* (specs/022, S-4), however it ends.  With --no-cache it does not: it starts  *)
(* from an empty manifest (buildApps).                                         *)
OtherEntriesKept ==
    [][Running /\ run.target # AllApps /\ ~run.noCache =>
          \A a \in Apps \ {run.target} : manifest'[a] = manifest[a]]_vars

-----------------------------------------------------------------------------
(* Promises of the documentation that the code does not keep.  README.md says  *)
(* for each with which Faults and Targets TLC finds the behaviour.             *)

(* A hit brings back all the files of the build (specs/022, FR-010, FR-026).   *)
HitIsComplete ==
    \A a \in Results : run.results[a].hit =>
        run.results[a].artifact \in run.results[a].files /\ Torn \notin run.results[a].files

(* A dependency that is neither built in this run nor in the manifest counts   *)
(* as changed: the app is built (specs/022, FR-008).                           *)
MissingDependencyMisses ==
    \A a \in Results : run.results[a].hit =>
        \A d \in DependsOn[a] : d \in DOMAIN run.effective \/ run.loaded[d] # NoEntry

(* An app whose source holds a symbolic link is always built.                  *)
SymlinkMisses ==
    \A a \in Results : run.results[a].hit => a \notin Symlinked

(* An app is built when a dependency was built in this run (FR-012).           *)
DependencyMissPropagates ==
    \A a \in Results : \A d \in DependsOn[a] \cap Results :
        run.results[a].hit => run.results[d].hit

(* A blob holds the files its build wrote and no others (specs/022, S-1).      *)
BlobHoldsItsBuild ==
    \A f \in DOMAIN blobs :
        blobs[f].descriptor \notin {Absent, Torn} => blobs[f].files = {blobs[f].descriptor}

(* With --target, too, an app whose dependency was edited is built (specs/022, *)
(* US4).                                                                       *)
TargetSeesDependencies ==
    \A a \in Results : run.results[a].hit /\ run.undisturbed =>
        run.results[a].artifact = Output(a, version)
=============================================================================
