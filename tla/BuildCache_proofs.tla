-------------------------- MODULE BuildCache_proofs --------------------------
(***************************************************************************)
(* Proofs about BuildCache, for any project: any apps, dependencies and    *)
(* versions, any sequence of runs with any options.                        *)
(***************************************************************************)
EXTENDS BuildCache, SequenceTheorems, TLAPS

(* Two apps never share a source.  Those that do, with the same configuration, *)
(* have the same fingerprint and with it one blob.                             *)
SourcesDiffer == \A a, b \in Apps : Source[a] = Source[b] => a = b

(* A fingerprint says what is built: no source is shared, none is a symbolic   *)
(* link, for which a constant is hashed, and none is edited while it is built. *)
Hashable == SourcesDiffer /\ Symlinked = {} /\ "edit" \notin Faults

(* And an artifact has the files of its build: each build replaces those of    *)
(* the one before, and copies are whole.                                       *)
Replacing == Hashable /\ HashedNames = {} /\ "copy" \notin Faults

(* The disk takes what a run saves.                                            *)
Writable == "write" \notin Faults

-----------------------------------------------------------------------------
(* The shape of the state: which variables are records and functions.          *)

OwnFingerprints(a) ==
  IF a \in Symlinked THEN {[symlink |-> a]}
  ELSE {[source |-> Source[a], version |-> v] : v \in Versions}

IsFingerprintOf(f, a) ==
  f = EffectiveFingerprint(f.own, f.deps) /\ f.own \in OwnFingerprints(a)

IsEntries(m) ==
  /\ m = [a \in Apps |-> m[a]]
  /\ \A a \in Apps : m[a] # NoEntry => IsFingerprintOf(m[a], a)

IsDirectory(d) ==
  /\ d = [descriptor |-> d.descriptor, files |-> d.files]
  /\ d.descriptor \in Outputs \cup {Absent, Torn}
  /\ d.files \subseteq Outputs \cup {Torn}

IsRun(r) ==
  r = [pc |-> r.pc, target |-> r.target, noCache |-> r.noCache, todo |-> r.todo,
       effective |-> r.effective, loaded |-> r.loaded, current |-> r.current,
       artifact |-> r.artifact, hit |-> r.hit, wasSettled |-> r.wasSettled,
       undisturbed |-> r.undisturbed, results |-> r.results]

Shape ==
  /\ version \in [Sources -> Versions]
  /\ IsEntries(manifest)
  /\ blobs = [f \in DOMAIN blobs |-> blobs[f]]
  /\ \A f \in DOMAIN blobs : IsDirectory(blobs[f])
  /\ store = [a \in Apps |-> store[a]]
  /\ \A a \in Apps : IsDirectory(store[a])
  /\ history \in [settled : BOOLEAN, plain : BOOLEAN]
  /\ disturbances \in 0..MaxDisturbances

RunShape ==
  /\ IsRun(run)
  /\ run.pc \in Steps
  /\ run.target \in Targets \cup {AllApps}
  /\ run.noCache \in BOOLEAN /\ run.hit \in BOOLEAN
  /\ run.wasSettled \in BOOLEAN /\ run.undisturbed \in BOOLEAN
  /\ run.todo \in Seq(Apps)
  /\ DOMAIN run.effective \subseteq Apps
  /\ \A a \in DOMAIN run.effective : IsFingerprintOf(run.effective[a], a)
  /\ IsEntries(run.loaded) /\ IsEntries(run.current)
  /\ run.pc \in {"describing", "savingFiles", "savingBlob", "savingManifest"} =>
       run.artifact \in Outputs
  /\ \A a \in Results : run.results[a].artifact \in Outputs

-----------------------------------------------------------------------------
(* Where a run is in its apps. *)

ToDo == {run.todo[k] : k \in 1..Len(run.todo)}

InApp == {"restoring", "building", "describing", "savingFiles", "savingBlob", "savingManifest"}

(* The app at the head is being built, its entry and its blob are not what     *)
(* they were.                                                                  *)
Missed ==
  run.pc \in {"building", "savingFiles", "savingBlob", "savingManifest"}
    \/ (run.pc = "describing" /\ ~run.hit)

Position ==
  /\ \A j, k \in 1..Len(run.todo) : run.todo[j] = run.todo[k] => j = k
  /\ Results \cap ToDo = {} /\ Results \subseteq DOMAIN run.effective
  /\ Running /\ run.target # AllApps => ToDo \cup Results \subseteq {run.target}
  /\ run.pc \in InApp => run.todo # <<>>
  /\ run.pc = "hashing" =>
       /\ Results = {}
       /\ run.target = AllApps => run.todo = Order
       /\ \E n \in 0..Len(run.todo) : DOMAIN run.effective = {run.todo[j] : j \in 1..n}
  /\ run.pc \notin {"none", "hashing"} =>
       /\ ToDo \subseteq DOMAIN run.effective
       /\ run.target = AllApps => Apps = ToDo \cup Results
  /\ run.pc = "none" => Results = {}

(* The fingerprints of a run over all apps are those of its sources, unless    *)
(* one was edited during the run.                                              *)
Hashed ==
  /\ "edit" \notin Faults => run.undisturbed
  /\ Running /\ run.undisturbed => \A a \in DOMAIN run.effective :
       /\ run.effective[a].own = OwnFingerprint(a)
       /\ run.target = AllApps =>
            /\ DependsOn[a] \subseteq DOMAIN run.effective
            /\ run.effective[a].deps = {run.effective[d] : d \in DependsOn[a]}

(* The entries of the apps that are not done, in memory and on disk.           *)
EntriesLoaded ==
  Running /\ ~run.noCache => \A a \in Apps \ Results :
    \/ run.current[a] = run.loaded[a] /\ manifest[a] = run.loaded[a]
    \/ a = App /\ Missed

-----------------------------------------------------------------------------
(* What is saved is on disk. *)

(* An app that is done.  Where apps share a source, another build may have     *)
(* taken the place of its own in the blob since.                               *)
Persisted(a) ==
  /\ manifest[a] = run.effective[a] /\ run.current[a] = run.effective[a]
  /\ store[a].descriptor = run.results[a].artifact
  /\ Blob(run.effective[a]).descriptor \in Outputs
  /\ SourcesDiffer => Blob(run.effective[a]).descriptor = run.results[a].artifact

(* The app a run is in, and what of it is on disk already.                     *)
AppSaved ==
  /\ run.pc = "restoring" => run.current[App] = Fingerprint /\ ~run.noCache
  /\ run.pc = "describing" /\ run.hit =>
       /\ run.current[App] = Fingerprint /\ ~run.noCache
       /\ Blob(Fingerprint).descriptor = run.artifact
  /\ run.pc \in {"savingFiles", "savingBlob", "savingManifest"} =>
       store[App].descriptor = run.artifact
  /\ run.pc = "savingManifest" => Blob(Fingerprint).descriptor = run.artifact

Saved == Writable => AppSaved /\ \A a \in Results : Persisted(a)

(* Everything is built: the manifest has the fingerprints of the sources, and  *)
(* the blobs of its entries have a descriptor.                                 *)
AllBuilt ==
  \A a \in Apps :
    /\ manifest[a] = EffectiveFingerprint(OwnFingerprint(a), {manifest[d] : d \in DependsOn[a]})
    /\ Blob(manifest[a]).descriptor \notin {Absent, Torn}

(* A run that finds everything built.                                          *)
Idle ==
  /\ AllBuilt /\ ~Missed
  /\ run.loaded = manifest /\ run.current = manifest
  /\ \A a \in DOMAIN run.effective : run.effective[a] = manifest[a]

Settled ==
  Writable =>
    /\ history.settled /\ ~Running => AllBuilt
    /\ history.settled /\ Running =>
         run.wasSettled /\ run.undisturbed /\ (run.noCache => run.target = AllApps)
    /\ Running /\ run.wasSettled /\ run.undisturbed /\ ~run.noCache => Idle

-----------------------------------------------------------------------------
(* What a blob holds is what its fingerprint says. *)

FreshIn(artifact, a) == artifact.app = a /\ artifact.saw[Source[a]] = version[Source[a]]

OwnBlob(f) == LET d == Blob(f).descriptor IN
  d \in Outputs =>
    d.app \in Apps /\ f.own = [source |-> Source[d.app], version |-> d.saw[Source[d.app]]]

BlobsOfOwnSource ==
  Hashable =>
    /\ \A f \in DOMAIN blobs : OwnBlob(f)
    /\ run.pc \in {"describing", "savingFiles", "savingBlob", "savingManifest"} =>
         FreshIn(run.artifact, App)
    /\ OwnSourceFresh

(* A fingerprint of each app, built from those of its dependencies, for one    *)
(* state of the sources.                                                       *)
Fingerprints(E, sources) ==
  \A a \in Apps :
    E[a] = EffectiveFingerprint([source |-> Source[a], version |-> sources[Source[a]]],
                                {E[d] : d \in DependsOn[a]})

IsBuildOf(f, output) ==
  \E a \in Apps, sources \in [Sources -> Versions] :
    /\ output = Output(a, sources)
    /\ \E E : Fingerprints(E, sources) /\ E[a] = f

(* The descriptor of a blob is of a build that the fingerprint is of.          *)
BuildBlob(f) == Blob(f).descriptor \in Outputs => IsBuildOf(f, Blob(f).descriptor)

ArtifactBuilt ==
  run.pc \in {"describing", "savingFiles", "savingBlob", "savingManifest"} =>
    run.artifact = Output(App, version)

BuildsOfAllSources ==
  Hashable /\ history.plain =>
    /\ Running => run.target = AllApps /\ ~run.noCache
    /\ \A f \in DOMAIN blobs : BuildBlob(f)
    /\ ArtifactBuilt
    /\ \A a \in Results : run.results[a].artifact = Output(a, version)

(* And its files are of that build, where builds replace them.                 *)
WholeBlob(f) == Blob(f).descriptor \in Outputs => Blob(f).files = {Blob(f).descriptor}

(* The app a run over all apps is in.  Before its files are overwritten, a     *)
(* blob that the manifest names has lost its descriptor.                       *)
AppBuilt ==
  /\ run.pc = "restoring" => run.current[App] = Fingerprint
  /\ Missed /\ run.pc \in {"building", "describing", "savingFiles"} /\ manifest[App] = Fingerprint =>
       Blob(Fingerprint).descriptor \in {Absent, Torn}
  /\ run.pc \in {"savingBlob", "savingManifest"} => Blob(Fingerprint).files = {run.artifact}
  /\ run.pc \in {"describing", "savingFiles", "savingBlob", "savingManifest"} =>
       store[App].files = {run.artifact}

FilesOfBuilds ==
  Replacing /\ history.plain =>
    /\ \A a \in Apps : WholeBlob(manifest[a]) /\ (Running => WholeBlob(run.current[a]))
    /\ AppBuilt
    /\ \A a \in Results : run.results[a].files = {run.results[a].artifact}

IInv ==
  /\ Shape /\ RunShape /\ Position /\ Hashed /\ EntriesLoaded
  /\ Saved /\ Settled /\ BlobsOfOwnSource /\ BuildsOfAllSources /\ FilesOfBuilds

-----------------------------------------------------------------------------
(* What the steps of a run do to its local state, field by field. *)

OptionsKept ==
  /\ IsRun(run')
  /\ run'.target = run.target /\ run'.noCache = run.noCache /\ run'.loaded = run.loaded
  /\ run'.wasSettled = run.wasSettled /\ run'.undisturbed = run.undisturbed

AppKept == OptionsKept /\ run'.todo = run.todo /\ run'.effective = run.effective
                       /\ run'.results = run.results

LEMMA HashEffect ==
  ASSUME IsRun(run), HashApp
  PROVE  /\ OptionsKept /\ run'.todo = run.todo /\ run'.results = run.results
         /\ run'.current = run.current /\ run'.artifact = run.artifact /\ run'.hit = run.hit
         /\ run.pc = "hashing" /\ run'.pc \in {"hashing", "lookup"}
         /\ \E k \in 1..Len(run.todo) :
              /\ \A j \in 1..Len(run.todo) : run.todo[j] \in DOMAIN run.effective <=> j < k
              /\ run'.pc = "lookup" <=> k = Len(run.todo)
              /\ run'.effective = [b \in DOMAIN run.effective \cup {run.todo[k]} |->
                    IF b = run.todo[k]
                    THEN EffectiveFingerprint(OwnFingerprint(run.todo[k]),
                           {DependencyFingerprint(d, run.effective) : d \in DependsOn[run.todo[k]]})
                    ELSE run.effective[b]]
         /\ UNCHANGED <<version, manifest, blobs, store, history, disturbances>>
  BY DEF HashApp, OptionsKept, IsRun

LEMMA LookUpHitEffect ==
  ASSUME IsRun(run), LookUpHit
  PROVE  /\ AppKept /\ run'.current = run.current
         /\ run'.artifact = run.artifact /\ run'.hit = run.hit
         /\ run.pc = "lookup" /\ run'.pc = "restoring" /\ run.todo # <<>>
         /\ UNCHANGED <<version, manifest, blobs, store, history, disturbances>>
  BY DEF LookUpHit, AppKept, OptionsKept, IsRun

LEMMA LookUpMissEffect ==
  ASSUME IsRun(run), LookUpMiss
  PROVE  /\ AppKept /\ run'.current = run.current
         /\ run'.artifact = run.artifact /\ run'.hit = run.hit
         /\ run.pc = "lookup" /\ run'.pc = "building" /\ run.todo # <<>>
         /\ UNCHANGED <<version, manifest, blobs, store, history, disturbances>>
  BY DEF LookUpMiss, AppKept, OptionsKept, IsRun

LEMMA HealEffect ==
  ASSUME IsRun(run), HealEntry
  PROVE  /\ AppKept /\ run'.current = [run.current EXCEPT ![App] = NoEntry]
         /\ run'.artifact = run.artifact /\ run'.hit = run.hit
         /\ run.pc \in {"lookup", "restoring"} /\ run'.pc = "building"
         /\ run.pc = "lookup" => run.todo # <<>>
         /\ manifest' = run'.current \/ ("write" \in Faults /\ UNCHANGED manifest)
         /\ UNCHANGED <<version, blobs, store, history, disturbances>>
  BY DEF HealEntry, AppKept, OptionsKept, IsRun

LEMMA RestoreEffect ==
  ASSUME IsRun(run), RestoreBlob
  PROVE  /\ AppKept /\ run'.current = run.current
         /\ run.pc = "restoring" /\ run'.pc = "describing"
         /\ run'.artifact = Blob(Fingerprint).descriptor /\ run'.hit = TRUE
         /\ UNCHANGED <<version, manifest, blobs, history, disturbances>>
  BY DEF RestoreBlob, AppKept, OptionsKept, IsRun

LEMMA BuildEffect ==
  ASSUME IsRun(run), BuildApp
  PROVE  /\ AppKept /\ run'.current = run.current
         /\ run.pc = "building" /\ run'.pc = "describing"
         /\ run'.artifact = Output(App, version) /\ run'.hit = FALSE
         /\ UNCHANGED <<version, manifest, blobs, history, disturbances>>
  BY DEF BuildApp, AppKept, OptionsKept, IsRun

AppDone(current) ==
  /\ OptionsKept /\ run'.effective = run.effective
  /\ run'.artifact = run.artifact /\ run'.hit = run.hit
  /\ run'.pc = "lookup" /\ run'.todo = Tail(run.todo) /\ run'.current = current
  /\ run'.results = [b \in DOMAIN run.results \cup {App} |->
        IF b = App THEN [hit |-> run.hit, artifact |-> run.artifact, files |-> store[App].files]
        ELSE run.results[b]]

LEMMA NextAppEffect ==
  ASSUME IsRun(run), NEW current, NextApp(current)
  PROVE  AppDone(current)
  BY DEF NextApp, AppDone, OptionsKept, IsRun

LEMMA DescribeEffect ==
  ASSUME IsRun(run), WriteDescriptor
  PROVE  /\ run.pc = "describing"
         /\ \/ run.hit /\ AppDone(run.current)
            \/ /\ ~run.hit /\ AppKept /\ run'.pc = "savingFiles" /\ run'.current = run.current
               /\ run'.artifact = run.artifact /\ run'.hit = run.hit
         /\ UNCHANGED <<version, manifest, blobs, history, disturbances>>
<1>1. CASE run.hit
  BY <1>1, NextAppEffect DEF WriteDescriptor
<1>2. CASE ~run.hit
  BY <1>2 DEF WriteDescriptor, AppKept, OptionsKept, IsRun
<1> QED BY <1>1, <1>2

LEMMA SaveFilesEffect ==
  ASSUME IsRun(run), SaveFiles
  PROVE  /\ AppKept /\ run'.current = run.current
         /\ run.pc = "savingFiles" /\ run'.pc = "savingBlob"
         /\ run'.artifact = run.artifact /\ run'.hit = run.hit
         /\ UNCHANGED <<version, manifest, store, history, disturbances>>
  BY DEF SaveFiles, AppKept, OptionsKept, IsRun

LEMMA SaveBlobEffect ==
  ASSUME IsRun(run), SaveBlob
  PROVE  /\ AppKept /\ run'.current = run.current
         /\ run.pc = "savingBlob" /\ run'.pc = "savingManifest"
         /\ run'.artifact = run.artifact /\ run'.hit = run.hit
         /\ UNCHANGED <<version, manifest, store, history, disturbances>>
  BY DEF SaveBlob, AppKept, OptionsKept, IsRun

LEMMA SaveManifestEffect ==
  ASSUME IsRun(run), SaveManifest
  PROVE  /\ run.pc = "savingManifest"
         /\ AppDone([run.current EXCEPT ![App] = Fingerprint])
         /\ manifest' = run'.current \/ ("write" \in Faults /\ UNCHANGED manifest)
         /\ UNCHANGED <<version, blobs, store, history, disturbances>>
  BY NextAppEffect DEF SaveManifest, AppDone

-----------------------------------------------------------------------------
(* Outputs, directories and blobs. *)

LEMMA OutputType ==
  ASSUME NEW a \in Apps, NEW sources \in [Sources -> Versions]
  PROVE  /\ Output(a, sources) \in Outputs
         /\ Output(a, sources).app = a
         /\ Output(a, sources).saw[Source[a]] = sources[Source[a]]
<1>1. a \in Closure(a)
  BY DEF Closure
<1>2. SourcesOf(a) \subseteq Sources
  BY DEF SourcesOf, Sources, Closure
<1> QED BY <1>1, <1>2 DEF Output, Outputs, SourcesOf

LEMMA DirectoryWrites ==
  ASSUME NEW d, IsDirectory(d), NEW a \in Apps, NEW new \in SUBSET (Outputs \cup {Torn}),
         NEW x \in Outputs \cup {Absent, Torn}
  PROVE  /\ IsDirectory([d EXCEPT !.files = new])
         /\ IsDirectory([d EXCEPT !.descriptor = x])
         /\ [d EXCEPT !.files = new].descriptor = d.descriptor
         /\ [d EXCEPT !.files = new].files = new
         /\ [d EXCEPT !.descriptor = x].files = d.files
         /\ [d EXCEPT !.descriptor = x].descriptor = x
         /\ Overlay(a, d.files, new) \in SUBSET (Outputs \cup {Torn})
  BY DEF IsDirectory, Overlay

LEMMA BlobShape ==
  ASSUME Shape, NEW f
  PROVE  IsDirectory(Blob(f))
  BY DEF Shape, Blob, NoFiles, IsDirectory

LEMMA WriteBlobShape ==
  ASSUME Shape, NEW f, NEW d, IsDirectory(d), WriteBlob(f, d)
  PROVE  /\ blobs' = [g \in DOMAIN blobs' |-> blobs'[g]]
         /\ \A g \in DOMAIN blobs' : IsDirectory(blobs'[g])
         /\ DOMAIN blobs' = DOMAIN blobs \cup {f}
         /\ Blob(f)' = d
         /\ \A g : g # f => Blob(g)' = Blob(g)
  BY DEF Shape, WriteBlob, Blob

LEMMA AppInApps ==
  ASSUME RunShape, run.todo # <<>>
  PROVE  App \in Apps /\ App = run.todo[1] /\ Len(run.todo) \in Nat \ {0}
  BY HeadTailProperties DEF RunShape, App

LEMMA EntryWrite ==
  ASSUME NEW m, IsEntries(m), NEW a \in Apps, NEW f, f = NoEntry \/ IsFingerprintOf(f, a)
  PROVE  IsEntries([m EXCEPT ![a] = f])
  BY DEF IsEntries

LEMMA StoreWriteShape ==
  ASSUME Shape, NEW a \in Apps, NEW d, IsDirectory(d), store' = [store EXCEPT ![a] = d]
  PROVE  store' = [b \in Apps |-> store'[b]] /\ \A b \in Apps : IsDirectory(store'[b])
  BY DEF Shape

(* The fingerprint of the app at the head is that app's.                       *)
LEMMA FingerprintType ==
  ASSUME RunShape, Position, run.todo # <<>>, run.pc \notin {"none", "hashing"}
  PROVE  /\ App \in Apps /\ App \in ToDo /\ App \in DOMAIN run.effective /\ App \notin Results
         /\ IsFingerprintOf(Fingerprint, App)
  BY AppInApps DEF RunShape, Position, ToDo, Fingerprint

LEMMA DisturbShape ==
  ASSUME Shape, Disturb
  PROVE  /\ history' = [settled |-> FALSE, plain |-> history.plain]
         /\ history' \in [settled : BOOLEAN, plain : BOOLEAN]
         /\ disturbances' \in 0..MaxDisturbances
<1>1. history' = [settled |-> FALSE, plain |-> history.plain] /\ history.plain \in BOOLEAN
  BY DEF Shape, Disturb
<1>2. disturbances' \in 0..MaxDisturbances
  <2>1. /\ disturbances \in 0..MaxDisturbances /\ disturbances < MaxDisturbances
        /\ disturbances' = disturbances + 1
    BY DEF Shape, Disturb
  <2> QED BY <2>1, CacheAssumption
<1> QED BY <1>1, <1>2

(* An incomplete file in a directory.                                          *)
LEMMA TornDirectory ==
  ASSUME NEW d, IsDirectory(d), NEW a \in Apps
  PROVE  /\ IsDirectory([d EXCEPT !.files = Overlay(a, @, {Torn})])
         /\ IsDirectory([d EXCEPT !.descriptor = Torn])
<1>1. {Torn} \in SUBSET (Outputs \cup {Torn}) /\ Torn \in Outputs \cup {Absent, Torn}
  OBVIOUS
<1> QED BY <1>1, DirectoryWrites

LEMMA CrashShape ==
  ASSUME Shape, RunShape, Position, Crash
  PROVE  Shape'
<1>1. /\ Disturb /\ UNCHANGED <<version, manifest>>
      /\ (run.pc \notin InApp => UNCHANGED <<blobs, store>>)
  BY DEF Crash, InApp
<1>2. CASE run.pc \notin InApp
  BY <1>1, <1>2, DisturbShape DEF Shape
<1>3. CASE run.pc \in InApp
  <2>1. App \in Apps
    BY <1>3, AppInApps DEF Position
  <2>2. IsDirectory(store[App]) /\ IsDirectory(Blob(Fingerprint))
    BY <2>1, BlobShape DEF Shape
  <2>3. /\ store' = [b \in Apps |-> store'[b]] /\ \A b \in Apps : IsDirectory(store'[b])
    <3>1. CASE UNCHANGED store
      BY <3>1 DEF Shape
    <3>2. CASE run.pc \in {"restoring", "building"}
      <4>1. PICK files \in {store[App].files, Overlay(App, store[App].files, {Torn})} :
              store' = [store EXCEPT ![App].files = files]
        BY <3>2 DEF Crash
      <4>2. files \in SUBSET (Outputs \cup {Torn})
        BY <2>1, <2>2, <4>1 DEF IsDirectory, Overlay
      <4>3. IsDirectory([store[App] EXCEPT !.files = files])
        BY <2>1, <2>2, <4>2, DirectoryWrites, Torn \in Outputs \cup {Absent, Torn}
      <4> QED BY <2>1, <4>1, <4>3, StoreWriteShape
    <3>3. CASE run.pc = "describing"
      <4>1. PICK descriptor \in {store[App].descriptor, Torn} :
              store' = [store EXCEPT ![App].descriptor = descriptor]
        BY <3>3 DEF Crash
      <4>2. IsDirectory([store[App] EXCEPT !.descriptor = descriptor])
        BY <2>1, <2>2, <4>1 DEF IsDirectory
      <4> QED BY <2>1, <4>1, <4>2, StoreWriteShape
    <3> QED BY <1>3, <3>1, <3>2, <3>3 DEF Crash, InApp
  <2>4. /\ blobs' = [g \in DOMAIN blobs' |-> blobs'[g]]
        /\ \A g \in DOMAIN blobs' : IsDirectory(blobs'[g])
    <3>1. CASE UNCHANGED blobs
      BY <3>1 DEF Shape
    <3>2. CASE run.pc \in {"savingFiles", "savingBlob"} /\ ~UNCHANGED blobs
      <4>1. \E d : IsDirectory(d) /\ WriteBlob(Fingerprint, d)
        BY <2>1, <2>2, <3>2, TornDirectory DEF Crash
      <4> QED BY <4>1, WriteBlobShape
    <3> QED BY <1>3, <3>1, <3>2 DEF Crash, InApp
  <2> QED BY <1>1, <2>3, <2>4, DisturbShape DEF Shape
<1> QED BY <1>2, <1>3

LEMMA StepShape ==
  ASSUME Shape, RunShape, Position, [Next]_vars
  PROVE  Shape'
<1> USE DEF Shape
<1>1. CASE Environment
  <2>1. CASE EditSource
    BY <2>1, DisturbShape DEF EditSource
  <2>2. CASE PurgeBlob
    <3>1. PICK f \in DOMAIN blobs : blobs' = [g \in DOMAIN blobs \ {f} |-> blobs[g]]
      BY <2>2 DEF PurgeBlob
    <3> QED BY <2>2, <3>1, DisturbShape DEF PurgeBlob
  <2>3. CASE LoseManifest
    BY <2>3, DisturbShape DEF LoseManifest, EmptyManifest, IsEntries
  <2> QED BY <1>1, <2>1, <2>2, <2>3 DEF Environment
<1>2. CASE StartRun
  BY <1>2, CacheAssumption DEF StartRun, Begin
<1>3. CASE HashApp \/ LookUpHit \/ LookUpMiss
  BY <1>3 DEF HashApp, LookUpHit, LookUpMiss
<1>4. CASE HealEntry
  <2>1. run.todo # <<>>
    BY <1>4 DEF HealEntry, Position, InApp
  <2>2. IsEntries([run.current EXCEPT ![App] = NoEntry])
    BY <2>1, AppInApps, EntryWrite DEF RunShape
  <2> QED BY <1>4, <2>2 DEF HealEntry
<1>5. CASE RestoreBlob \/ BuildApp \/ BuildFails
  <2>1. App \in Apps /\ run.pc \in InApp
    BY <1>5, AppInApps DEF RestoreBlob, BuildApp, BuildFails, Position, InApp
  <2>2. Output(App, version) \in Outputs
    BY <2>1, OutputType
  <2>3. \E files \in SUBSET (Outputs \cup {Torn}) :
          store' = [store EXCEPT ![App] = [store[App] EXCEPT !.files = files]]
    <3>1. IsDirectory(store[App]) /\ IsDirectory(Blob(Fingerprint))
      BY <2>1, BlobShape
    <3>2. /\ Overlay(App, store[App].files, Blob(Fingerprint).files) \in SUBSET (Outputs \cup {Torn})
          /\ Overlay(App, store[App].files, {Torn}) \in SUBSET (Outputs \cup {Torn})
          /\ Overlay(App, store[App].files, {Output(App, version)}) \in SUBSET (Outputs \cup {Torn})
      BY <2>1, <2>2, <3>1 DEF Overlay, IsDirectory
    <3>3. CASE RestoreBlob
      BY <3>2, <3>3 DEF RestoreBlob
    <3>4. CASE BuildApp
      BY <3>2, <3>4 DEF BuildApp
    <3>5. CASE BuildFails
      BY <3>1, <3>2, <3>5 DEF BuildFails, IsDirectory
    <3> QED BY <1>5, <3>3, <3>4, <3>5
  <2>4. store' = [b \in Apps |-> store'[b]] /\ \A b \in Apps : IsDirectory(store'[b])
    BY <2>1, <2>3, StoreWriteShape DEF IsDirectory
  <2>5. UNCHANGED <<version, manifest, blobs>> /\ (UNCHANGED <<history, disturbances>> \/ Disturb)
    BY <1>5 DEF RestoreBlob, BuildApp, BuildFails
  <2> QED BY <2>4, <2>5, DisturbShape
<1>6. CASE WriteDescriptor
  <2>1. App \in Apps
    BY <1>6, AppInApps DEF WriteDescriptor, Position, InApp
  <2>2. IsDirectory([store[App] EXCEPT !.descriptor = run.artifact])
    BY <1>6, <2>1 DEF WriteDescriptor, RunShape, IsDirectory
  <2> QED BY <1>6, <2>1, <2>2, StoreWriteShape DEF WriteDescriptor
<1>7. CASE SaveFiles \/ SaveBlob
  <2>1. App \in Apps
    BY <1>7, AppInApps DEF SaveFiles, SaveBlob, Position, InApp
  <2>2. IsDirectory(Blob(Fingerprint)) /\ IsDirectory(store[App])
    BY <2>1, BlobShape
  <2>3. UNCHANGED blobs \/ \E d : IsDirectory(d) /\ WriteBlob(Fingerprint, d)
    <3>1. CASE SaveFiles
      <4>1. IsDirectory([Blob(Fingerprint) EXCEPT !.files = Overlay(App, @, store[App].files)])
        <5>1. Overlay(App, Blob(Fingerprint).files, store[App].files) \in SUBSET (Outputs \cup {Torn})
          BY <2>1, <2>2 DEF IsDirectory, Overlay
        <5> QED BY <2>1, <2>2, <5>1, DirectoryWrites, Torn \in Outputs \cup {Absent, Torn}
      <4> QED BY <2>1, <2>2, <3>1, <4>1, TornDirectory DEF SaveFiles
    <3>2. CASE SaveBlob
      <4>1. IsDirectory([Blob(Fingerprint) EXCEPT !.descriptor = run.artifact])
        BY <2>2, <3>2 DEF SaveBlob, RunShape, IsDirectory
      <4> QED BY <3>2, <4>1 DEF SaveBlob
    <3> QED BY <1>7, <3>1, <3>2
  <2> QED BY <1>7, <2>3, WriteBlobShape DEF SaveFiles, SaveBlob
<1>8. CASE SaveManifest
  <2>1. run.todo # <<>>
    BY <1>8 DEF SaveManifest, Position, InApp
  <2>2. IsEntries([run.current EXCEPT ![App] = Fingerprint])
    BY <1>8, <2>1, FingerprintType, EntryWrite DEF RunShape, SaveManifest
  <2> QED BY <1>8, <2>2 DEF SaveManifest
<1>9. CASE FinishRun
  BY <1>9, DisturbShape DEF FinishRun
<1>10. CASE Crash
  BY <1>10, CrashShape
<1>11. CASE UNCHANGED vars
  BY <1>11 DEF vars
<1> QED
  BY <1>1, <1>2, <1>3, <1>4, <1>5, <1>6, <1>7, <1>8, <1>9, <1>10, <1>11 DEF Next, RunStep
-----------------------------------------------------------------------------
(* The steps outside the loop over the apps.                                   *)

LEMMA NoRunFields ==
  /\ IsRun(NoRun) /\ NoRun.pc = "none" /\ NoRun.target = AllApps /\ NoRun.noCache = FALSE
  /\ NoRun.todo = <<>> /\ NoRun.effective = <<>> /\ NoRun.hit = FALSE
  /\ NoRun.loaded = EmptyManifest /\ NoRun.current = EmptyManifest
  /\ NoRun.wasSettled = FALSE /\ NoRun.undisturbed = TRUE /\ NoRun.results = <<>>
  BY DEF NoRun, IsRun

LEMMA NothingDone ==
  /\ DOMAIN NoRun.results = {} /\ DOMAIN NoRun.effective = {} /\ IsEntries(EmptyManifest)
  /\ {NoRun.todo[k] : k \in 1..Len(NoRun.todo)} = {}
<1>1. DOMAIN NoRun.results = {} /\ DOMAIN NoRun.effective = {}
  BY NoRunFields
<1>2. IsEntries(EmptyManifest)
  BY DEF IsEntries, EmptyManifest
<1>3. {NoRun.todo[k] : k \in 1..Len(NoRun.todo)} = {}
  BY NoRunFields
<1> QED BY <1>1, <1>2, <1>3

LEMMA StartEffect ==
  ASSUME StartRun
  PROVE  \E target \in Targets, noCache \in NoCacheFlags :
           LET loaded == IF noCache THEN EmptyManifest ELSE manifest IN
           /\ ~Running
           /\ IsRun(run') /\ run'.pc = "hashing" /\ run'.target = target /\ run'.noCache = noCache
           /\ run'.todo = (IF target = AllApps THEN Order ELSE <<target>>)
           /\ run'.effective = <<>> /\ run'.hit = FALSE /\ run'.results = <<>>
           /\ run'.loaded = loaded /\ run'.current = loaded
           /\ run'.wasSettled = history.settled /\ run'.undisturbed = TRUE
           /\ history' = [settled |-> history.settled /\ ~(noCache /\ target # AllApps),
                          plain |-> history.plain /\ ~noCache /\ target = AllApps]
           /\ UNCHANGED <<version, manifest, blobs, store, disturbances>>
<1>1. PICK target \in Targets, noCache \in NoCacheFlags :
        Begin(target, noCache, IF noCache THEN EmptyManifest ELSE manifest)
  BY DEF StartRun
<1>2. WITNESS target \in Targets, noCache \in NoCacheFlags
<1> DEFINE loaded == IF noCache THEN EmptyManifest ELSE manifest
           todo == IF target = AllApps THEN Order ELSE <<target>>
<1>3. ~Running /\ UNCHANGED <<version, manifest, blobs, store, disturbances>>
  BY DEF StartRun
<1>4. run' = [NoRun EXCEPT !.pc = "hashing", !.target = target, !.noCache = noCache,
                 !.todo = todo, !.loaded = loaded, !.current = loaded,
                 !.wasSettled = history.settled]
  BY <1>1 DEF Begin
<1>5. history' = [settled |-> history.settled /\ ~(noCache /\ target # AllApps),
                  plain |-> history.plain /\ ~noCache /\ target = AllApps]
  BY <1>1 DEF Begin
<1> HIDE DEF loaded, todo
<1>6. /\ IsRun(run') /\ run'.pc = "hashing" /\ run'.target = target /\ run'.noCache = noCache
      /\ run'.todo = todo /\ run'.effective = <<>> /\ run'.hit = FALSE /\ run'.results = <<>>
      /\ run'.loaded = loaded /\ run'.current = loaded
      /\ run'.wasSettled = history.settled /\ run'.undisturbed = TRUE
  BY <1>4 DEF NoRun, IsRun
<1> QED BY <1>3, <1>5, <1>6 DEF loaded, todo

LEMMA EditEffect ==
  ASSUME IsRun(run), EditSource
  PROVE  /\ IsRun(run') /\ run'.pc = run.pc /\ run'.target = run.target
         /\ run'.noCache = run.noCache /\ run'.todo = run.todo
         /\ run'.effective = run.effective /\ run'.loaded = run.loaded
         /\ run'.current = run.current /\ run'.artifact = run.artifact /\ run'.hit = run.hit
         /\ run'.wasSettled = run.wasSettled /\ run'.undisturbed = ~Running
         /\ run'.results = run.results
         /\ "edit" \in Faults \/ ~Running
         /\ UNCHANGED <<manifest, blobs, store>>
  BY DEF EditSource, IsRun

(* A list without its first element, when it lists no element twice.           *)
LEMMA TailOfList ==
  ASSUME NEW S, NEW s \in Seq(S), s # <<>>, \A j, k \in 1..Len(s) : s[j] = s[k] => j = k
  PROVE  /\ Tail(s) \in Seq(S) /\ Len(Tail(s)) = Len(s) - 1
         /\ \A j, k \in 1..Len(Tail(s)) : Tail(s)[j] = Tail(s)[k] => j = k
         /\ {Tail(s)[k] : k \in 1..Len(Tail(s))} = {s[k] : k \in 1..Len(s)} \ {Head(s)}
<1>1. /\ Tail(s) \in Seq(S) /\ Len(Tail(s)) = Len(s) - 1 /\ Head(s) = s[1]
      /\ \A k \in 1..Len(Tail(s)) : Tail(s)[k] = s[k + 1]
      /\ Len(s) \in Nat \ {0}
  BY HeadTailProperties
<1>2. \A j, k \in 1..Len(Tail(s)) : Tail(s)[j] = Tail(s)[k] => j = k
  BY <1>1
<1>3. ASSUME NEW k \in 1..Len(Tail(s))
      PROVE  Tail(s)[k] \in {s[j] : j \in 1..Len(s)} \ {Head(s)}
  <2>1. k + 1 \in 1..Len(s) /\ 1 \in 1..Len(s) /\ k + 1 # 1
    BY <1>1
  <2>2. Tail(s)[k] = s[k + 1] /\ s[k + 1] # s[1]
    BY <1>1, <2>1
  <2> QED BY <1>1, <2>1, <2>2
<1>4. ASSUME NEW k \in 1..Len(s), s[k] # Head(s)
      PROVE  s[k] \in {Tail(s)[j] : j \in 1..Len(Tail(s))}
  <2>1. k - 1 \in 1..Len(Tail(s)) /\ s[k] = Tail(s)[k - 1]
    BY <1>1, <1>4
  <2> QED BY <2>1
<1>5. {Tail(s)[k] : k \in 1..Len(Tail(s))} = {s[k] : k \in 1..Len(s)} \ {Head(s)}
  <2>1. {Tail(s)[k] : k \in 1..Len(Tail(s))} \subseteq {s[k] : k \in 1..Len(s)} \ {Head(s)}
    BY ONLY <1>3
  <2>2. {s[k] : k \in 1..Len(s)} \ {Head(s)} \subseteq {Tail(s)[k] : k \in 1..Len(Tail(s))}
    BY ONLY <1>4
  <2> QED BY ONLY <2>1, <2>2
<1> QED BY ONLY <1>1, <1>2, <1>5

LEMMA HashTypes ==
  ASSUME Shape, RunShape, HashApp
  PROVE  /\ DOMAIN run'.effective \subseteq Apps
         /\ \A a \in DOMAIN run'.effective : IsFingerprintOf(run'.effective[a], a)
<1>1. PICK k \in 1..Len(run.todo) :
        run'.effective = [b \in DOMAIN run.effective \cup {run.todo[k]} |->
              IF b = run.todo[k]
              THEN EffectiveFingerprint(OwnFingerprint(run.todo[k]),
                     {DependencyFingerprint(d, run.effective) : d \in DependsOn[run.todo[k]]})
              ELSE run.effective[b]]
  BY HashEffect DEF RunShape
<1>2. run.todo[k] \in Apps
  BY DEF RunShape
<1>3. \A own \in OwnFingerprints(run.todo[k]) : \A deps :
        IsFingerprintOf(EffectiveFingerprint(own, deps), run.todo[k])
  BY DEF IsFingerprintOf, EffectiveFingerprint
<1>4. OwnFingerprint(run.todo[k]) \in OwnFingerprints(run.todo[k])
  BY <1>2 DEF OwnFingerprint, OwnFingerprints, Shape, Sources
<1> QED BY <1>1, <1>2, <1>3, <1>4 DEF RunShape

LEMMA StepRunShape ==
  ASSUME Shape, RunShape, Position, [Next]_vars
  PROVE  RunShape'
<1> USE DEF RunShape, Steps
<1>1. CASE EditSource
  BY <1>1, EditEffect DEF Results, Running
<1>2. CASE PurgeBlob \/ LoseManifest \/ UNCHANGED vars
  BY <1>2 DEF PurgeBlob, LoseManifest, vars, Results
<1>3. CASE StartRun
  <2>1. PICK target \in Targets, noCache \in NoCacheFlags :
           LET loaded == IF noCache THEN EmptyManifest ELSE manifest IN
           /\ IsRun(run') /\ run'.pc = "hashing" /\ run'.target = target /\ run'.noCache = noCache
           /\ run'.todo = (IF target = AllApps THEN Order ELSE <<target>>)
           /\ run'.effective = <<>> /\ run'.hit = FALSE /\ run'.results = <<>>
           /\ run'.loaded = loaded /\ run'.current = loaded
           /\ run'.wasSettled = history.settled /\ run'.undisturbed = TRUE
    BY <1>3, StartEffect
  <2>2. run'.todo \in Seq(Apps) /\ noCache \in BOOLEAN
    BY <2>1, CacheAssumption
  <2>3. IsEntries(IF noCache THEN EmptyManifest ELSE manifest)
    BY NothingDone DEF Shape
  <2>4. DOMAIN run'.effective = {} /\ Results' = {}
    BY <2>1 DEF Results
  <2> QED BY <2>1, <2>2, <2>3, <2>4 DEF Shape
<1>4. CASE run' = NoRun
  <2>1. NoRun.todo \in Seq(Apps)
    BY NoRunFields
  <2>2. run'.pc = "none" /\ Results' = {}
    BY <1>4, NoRunFields, NothingDone DEF Results
  <2> QED BY <1>4, <2>1, <2>2, NoRunFields, NothingDone
<1>5. CASE HashApp
  BY <1>5, HashEffect, HashTypes DEF OptionsKept, Results
<1>6. CASE LookUpHit \/ LookUpMiss
  BY <1>6, LookUpHitEffect, LookUpMissEffect DEF AppKept, OptionsKept, Results
<1>7. CASE HealEntry
  <2>1. App \in Apps
    BY <1>7, HealEffect, AppInApps DEF Position, InApp
  <2>2. IsEntries(run'.current)
    BY <1>7, <2>1, HealEffect, EntryWrite
  <2> QED BY <1>7, <2>2, HealEffect DEF AppKept, OptionsKept, Results
<1>8. CASE RestoreBlob
  <2>1. Blob(Fingerprint).descriptor \in Outputs
    BY <1>8, BlobShape DEF RestoreBlob, IsDirectory
  <2> QED BY <1>8, <2>1, RestoreEffect DEF AppKept, OptionsKept, Results
<1>9. CASE BuildApp
  <2>1. Output(App, version) \in Outputs
    BY <1>9, AppInApps, OutputType DEF BuildApp, Position, InApp, Shape
  <2> QED BY <1>9, <2>1, BuildEffect DEF AppKept, OptionsKept, Results
<1>10. CASE \E current : AppDone(current) /\ IsEntries(current) /\ run.artifact \in Outputs
                         /\ run.todo # <<>>
  <2>1. PICK current : AppDone(current) /\ IsEntries(current)
    BY <1>10
  <2>2. Tail(run.todo) \in Seq(Apps)
    BY <1>10, HeadTailProperties
  <2> QED BY <1>10, <2>1, <2>2 DEF AppDone, OptionsKept, Results
<1>11. CASE WriteDescriptor
  BY <1>10, <1>11, DescribeEffect DEF AppKept, OptionsKept, Results, Position, InApp
<1>12. CASE SaveFiles \/ SaveBlob
  BY <1>12, SaveFilesEffect, SaveBlobEffect DEF AppKept, OptionsKept, Results
<1>13. CASE SaveManifest
  <2>1. run.todo # <<>>
    BY <1>13 DEF SaveManifest, Position, InApp
  <2>2. IsEntries([run.current EXCEPT ![App] = Fingerprint])
    BY <1>13, <2>1, FingerprintType, EntryWrite DEF SaveManifest
  <2> QED BY <1>10, <1>13, <2>1, <2>2, SaveManifestEffect
<1> QED
  BY <1>1, <1>2, <1>3, <1>4, <1>5, <1>6, <1>7, <1>8, <1>9, <1>11, <1>12, <1>13
  DEF Next, RunStep, Environment, BuildFails, FinishRun, Crash
-----------------------------------------------------------------------------
(* Where a run is in its apps. *)

(* The steps of the loop over the apps: within an app, or on to the next one.  *)
WithinApp ==
  /\ AppKept /\ run.todo # <<>> /\ run'.pc \in InApp
  /\ run.pc \notin {"none", "hashing"}

OnToNext ==
  /\ run.pc \in {"describing", "savingManifest"}
  /\ \E current : AppDone(current)

LEMMA LoopSteps ==
  ASSUME IsRun(run), Position, RunStep
  PROVE  \/ HashApp
         \/ WithinApp /\ ~OnToNext
         \/ OnToNext
         \/ (BuildFails \/ FinishRun) /\ run' = NoRun
<1>1. CASE LookUpHit \/ LookUpMiss \/ HealEntry
  BY <1>1, LookUpHitEffect, LookUpMissEffect, HealEffect DEF WithinApp, OnToNext, InApp, Position
<1>2. CASE RestoreBlob \/ BuildApp \/ SaveFiles \/ SaveBlob
  BY <1>2, RestoreEffect, BuildEffect, SaveFilesEffect, SaveBlobEffect
  DEF WithinApp, OnToNext, InApp, Position
<1>3. CASE WriteDescriptor
  BY <1>3, DescribeEffect DEF WithinApp, OnToNext, InApp, Position, AppDone
<1>4. CASE SaveManifest
  BY <1>4, SaveManifestEffect DEF OnToNext
<1> QED BY <1>1, <1>2, <1>3, <1>4 DEF RunStep, BuildFails, FinishRun

LEMMA NextAppPosition ==
  ASSUME RunShape, Position, OnToNext
  PROVE  /\ Results' = Results \cup {App} /\ ToDo' = ToDo \ {App} /\ App \in ToDo
         /\ \A a \in Results : run'.results[a] = run.results[a]
         /\ run'.results[App] = [hit |-> run.hit, artifact |-> run.artifact, files |-> store[App].files]
         /\ \A j, k \in 1..Len(run'.todo) : run'.todo[j] = run'.todo[k] => j = k
<1>1. PICK current : AppDone(current)
  BY DEF OnToNext
<1>2. run.todo # <<>> /\ run.todo \in Seq(Apps)
  BY DEF OnToNext, Position, InApp, RunShape
<1>3. \A j, k \in 1..Len(run.todo) : run.todo[j] = run.todo[k] => j = k
  BY DEF Position
<1>4. /\ \A j, k \in 1..Len(Tail(run.todo)) : Tail(run.todo)[j] = Tail(run.todo)[k] => j = k
      /\ {Tail(run.todo)[k] : k \in 1..Len(Tail(run.todo))} = ToDo \ {App}
  BY <1>2, <1>3, TailOfList DEF ToDo, App
<1>5. run'.todo = Tail(run.todo)
  BY <1>1 DEF AppDone
<1>6. App \in ToDo
  BY <1>2, AppInApps DEF ToDo
<1>7. App \notin Results
  BY <1>6 DEF Position
<1>8. /\ Results' = Results \cup {App}
      /\ \A a \in Results : run'.results[a] = run.results[a]
      /\ run'.results[App] = [hit |-> run.hit, artifact |-> run.artifact, files |-> store[App].files]
  BY <1>1, <1>7 DEF AppDone, Results
<1>9. ToDo' = ToDo \ {App}
  BY <1>4, <1>5 DEF ToDo
<1> QED BY <1>4, <1>5, <1>6, <1>8, <1>9

LEMMA StepPosition ==
  ASSUME Shape, RunShape, Position, [Next]_vars
  PROVE  Position'
<1>1. CASE /\ run'.pc = run.pc /\ run'.target = run.target /\ run'.todo = run.todo
           /\ run'.effective = run.effective /\ run'.results = run.results
  BY <1>1 DEF Position, ToDo, Results, Running, InApp
<1>2. CASE Environment \/ UNCHANGED vars
  BY <1>1, <1>2, EditEffect DEF Environment, PurgeBlob, LoseManifest, vars, RunShape
<1>3. CASE StartRun
  <2>1. PICK target \in Targets :
           /\ run'.pc = "hashing" /\ run'.target = target
           /\ run'.todo = (IF target = AllApps THEN Order ELSE <<target>>)
           /\ run'.effective = <<>> /\ run'.results = <<>>
    BY <1>3, StartEffect
  <2>2. Results' = {} /\ DOMAIN run'.effective = {}
    BY <2>1 DEF Results
  <2>3. Len(run'.todo) \in Nat
    BY <2>1, CacheAssumption
  <2>4. \A j, k \in 1..Len(run'.todo) : run'.todo[j] = run'.todo[k] => j = k
    BY <2>1, CacheAssumption
  <2>5. run'.target # AllApps => ToDo' = {run'.target}
    BY <2>1 DEF ToDo
  <2>6. DOMAIN run'.effective = {run'.todo[j] : j \in 1..0} /\ 0 \in 0..Len(run'.todo)
    BY <2>2, <2>3
  <2> QED BY <2>1, <2>2, <2>4, <2>5, <2>6 DEF Position, InApp
<1>4. CASE run' = NoRun
  <2>1. run'.pc = "none" /\ Results' = {} /\ ToDo' = {}
    BY <1>4, NoRunFields, NothingDone DEF Results, ToDo
  <2>2. Len(run'.todo) = 0
    BY <1>4, NoRunFields
  <2> QED BY <2>1, <2>2 DEF Position, InApp, Running
<1>5. CASE HashApp
  <2>1. PICK k \in 1..Len(run.todo) :
          /\ \A j \in 1..Len(run.todo) : run.todo[j] \in DOMAIN run.effective <=> j < k
          /\ run'.pc = "lookup" <=> k = Len(run.todo)
          /\ DOMAIN run'.effective = DOMAIN run.effective \cup {run.todo[k]}
    BY <1>5, HashEffect DEF RunShape
  <2>2. /\ run.pc = "hashing" /\ run'.pc \in {"hashing", "lookup"} /\ run'.todo = run.todo
        /\ run'.results = run.results /\ run'.target = run.target
    BY <1>5, HashEffect DEF OptionsKept, RunShape
  <2>3. PICK n \in 0..Len(run.todo) : DOMAIN run.effective = {run.todo[j] : j \in 1..n}
    BY <2>2 DEF Position
  <2>4. Len(run.todo) \in Nat
    BY DEF RunShape
  <2>5. n = k - 1
    <3>1. ~(n < k - 1)
      <4> SUFFICES ASSUME n < k - 1 PROVE FALSE
        OBVIOUS
      <4>1. n + 1 \in 1..Len(run.todo) /\ n + 1 < k
        BY <2>4
      <4>2. PICK j \in 1..n : run.todo[j] = run.todo[n + 1]
        BY <2>1, <2>3, <4>1
      <4> QED BY <2>4, <4>1, <4>2 DEF Position
    <3>2. ~(n > k - 1)
      BY <2>1, <2>3, <2>4
    <3> QED BY <3>1, <3>2, <2>4
  <2>6. DOMAIN run'.effective = {run.todo[j] : j \in 1..k}
    BY <2>1, <2>3, <2>4, <2>5
  <2>7. run'.pc # "hashing" => ToDo \subseteq DOMAIN run'.effective
    BY <2>1, <2>2, <2>6 DEF ToDo
  <2>8. run'.pc # "hashing" /\ run.target = AllApps => Apps = ToDo
    <3>1. run.target = AllApps => run.todo = Order
      BY <2>2 DEF Position
    <3>2. \A j \in 1..Len(Order) : Order[j] \in Apps
      <4>1. Order \in Seq(Apps)
        BY CacheAssumption
      <4> QED BY <4>1
    <3>3. \A a \in Apps : \E j \in 1..Len(Order) : Order[j] = a
      BY CacheAssumption
    <3> QED BY <3>1, <3>2, <3>3 DEF ToDo
  <2>9. Results = {} /\ Results' = {} /\ ToDo' = ToDo
    BY <2>2 DEF Position, Results, ToDo
  <2>10. \E m \in 0..Len(run'.todo) : DOMAIN run'.effective = {run'.todo[j] : j \in 1..m}
    <3>1. k \in 0..Len(run'.todo)
      BY <2>2, <2>4
    <3> QED BY <2>2, <2>6, <3>1
  <2>11. /\ run'.target # AllApps => ToDo' \subseteq {run'.target}
         /\ run'.target = AllApps => run'.todo = Order
         /\ \A i, j \in 1..Len(run'.todo) : run'.todo[i] = run'.todo[j] => i = j
    BY <2>2, <2>9 DEF Position, Running
  <2> QED BY <2>2, <2>7, <2>8, <2>9, <2>10, <2>11 DEF Position, InApp, Running
<1>6. CASE WithinApp
  <2>1. /\ run'.todo = run.todo /\ run'.target = run.target /\ run'.effective = run.effective
        /\ run'.results = run.results /\ run.todo # <<>>
        /\ run'.pc \notin {"none", "hashing"} /\ run.pc \notin {"none", "hashing"}
    BY <1>6 DEF WithinApp, AppKept, OptionsKept, InApp
  <2>2. ToDo' = ToDo /\ Results' = Results
    BY <2>1 DEF ToDo, Results
  <2> QED BY <2>1, <2>2 DEF Position, Running
<1>7. CASE OnToNext
  <2>1. /\ run'.pc = "lookup" /\ run'.target = run.target /\ run'.effective = run.effective
        /\ run.pc \in InApp
    BY <1>7 DEF OnToNext, AppDone, OptionsKept, InApp
  <2>2. /\ Results' = Results \cup {App} /\ ToDo' = ToDo \ {App} /\ App \in ToDo
        /\ \A j, k \in 1..Len(run'.todo) : run'.todo[j] = run'.todo[k] => j = k
    BY <1>7, NextAppPosition
  <2> QED BY <2>1, <2>2 DEF Position, InApp, Running
<1> QED
  BY <1>2, <1>3, <1>4, <1>5, <1>6, <1>7, LoopSteps DEF Next, Crash, RunShape
-----------------------------------------------------------------------------
(* Fingerprints and entries. *)

LEMMA StepCases ==
  ASSUME RunShape, Position, [Next]_vars
  PROVE  \/ EditSource
         \/ /\ PurgeBlob \/ LoseManifest \/ UNCHANGED vars
            /\ UNCHANGED <<version, run>>
         \/ StartRun
         \/ run' = NoRun /\ UNCHANGED version
         \/ RunStep /\ UNCHANGED version /\ (HashApp \/ (WithinApp /\ ~OnToNext) \/ OnToNext)
<1>1. CASE RunStep
  <2>1. UNCHANGED version
    BY <1>1 DEF RunStep, HashApp, LookUpHit, LookUpMiss, HealEntry, RestoreBlob, BuildApp,
         BuildFails, WriteDescriptor, SaveFiles, SaveBlob, SaveManifest, FinishRun
  <2> QED BY <1>1, <2>1, LoopSteps DEF RunShape
<1>2. CASE Environment \/ UNCHANGED vars
  BY <1>2 DEF Environment, PurgeBlob, LoseManifest, vars
<1> QED BY <1>1, <1>2 DEF Next, Crash

LEMMA StepHashed ==
  ASSUME Shape, RunShape, Position, Hashed, [Next]_vars
  PROVE  Hashed'
<1>0. ("edit" \notin Faults => run.undisturbed)'
  BY StepCases, HashEffect, EditEffect, StartEffect, NoRunFields
  DEF Hashed, RunShape, WithinApp, OnToNext, AppKept, AppDone, OptionsKept, vars
<1> SUFFICES ASSUME Running', run'.undisturbed
             PROVE  \A a \in DOMAIN run'.effective :
                      /\ run'.effective[a].own = OwnFingerprint(a)'
                      /\ run'.target = AllApps =>
                           /\ DependsOn[a] \subseteq DOMAIN run'.effective
                           /\ run'.effective[a].deps = {run'.effective[d] : d \in DependsOn[a]}
  BY <1>0 DEF Hashed
<1>1. CASE /\ Running /\ UNCHANGED version /\ run'.undisturbed = run.undisturbed
           /\ run'.effective = run.effective /\ run'.target = run.target
  <2>1. \A a : OwnFingerprint(a)' = OwnFingerprint(a)
    BY <1>1 DEF OwnFingerprint
  <2> QED BY <1>1, <2>1 DEF Hashed
<1>2. CASE EditSource
  BY <1>2, EditEffect DEF RunShape, Running
<1>3. CASE StartRun
  <2>1. run'.effective = <<>>
    BY <1>3, StartEffect
  <2> QED BY <2>1
<1>4. CASE run' = NoRun
  BY <1>4, NoRunFields DEF Running
<1>5. CASE HashApp
  <2>1. PICK k \in 1..Len(run.todo) :
          /\ \A j \in 1..Len(run.todo) : run.todo[j] \in DOMAIN run.effective <=> j < k
          /\ run'.effective = [b \in DOMAIN run.effective \cup {run.todo[k]} |->
                IF b = run.todo[k]
                THEN EffectiveFingerprint(OwnFingerprint(run.todo[k]),
                       {DependencyFingerprint(d, run.effective) : d \in DependsOn[run.todo[k]]})
                ELSE run.effective[b]]
    BY <1>5, HashEffect DEF RunShape
  <2>2. /\ run.pc = "hashing" /\ run'.target = run.target /\ run'.todo = run.todo
        /\ UNCHANGED version /\ Running /\ Len(run.todo) \in Nat /\ run.todo[k] \in Apps
    BY <1>5, HashEffect DEF OptionsKept, RunShape, Running
  <2>0. PICK new : new = run.todo[k]
    OBVIOUS
  <2>3. new \notin DOMAIN run.effective
    BY <2>0, <2>1, <2>2
  <2>4. run.target = AllApps => DependsOn[new] \subseteq DOMAIN run.effective
    <3> SUFFICES ASSUME run.target = AllApps PROVE DependsOn[new] \subseteq DOMAIN run.effective
      OBVIOUS
    <3>1. run.todo = Order
      BY <2>2 DEF Position
    <3>2. PICK m \in 1..Len(Order) : Order[m] = new /\ DependsOn[new] \subseteq {Order[j] : j \in 1..(m - 1)}
      BY <2>0, <2>2, CacheAssumption
    <3>3. m = k
      <4>1. \A i, j \in 1..Len(Order) : Order[i] = Order[j] => i = j
        BY CacheAssumption
      <4> QED BY <2>0, <3>1, <3>2, <4>1
    <3>4. \A j \in 1..(k - 1) : Order[j] \in DOMAIN run.effective
      BY <2>1, <2>2, <3>1
    <3> QED BY <3>2, <3>3, <3>4
  <2>5. /\ run'.effective[new] = EffectiveFingerprint(OwnFingerprint(new),
              {DependencyFingerprint(d, run.effective) : d \in DependsOn[new]})
        /\ \A a \in DOMAIN run.effective : run'.effective[a] = run.effective[a]
        /\ DOMAIN run'.effective = DOMAIN run.effective \cup {new}
    BY <2>0, <2>1, <2>3
  <2>6. OwnFingerprint(new)' = OwnFingerprint(new)
    BY <2>2 DEF OwnFingerprint
  <2>7. run.target = AllApps =>
          {DependencyFingerprint(d, run.effective) : d \in DependsOn[new]}
            = {run'.effective[d] : d \in DependsOn[new]}
    BY <2>4, <2>5 DEF DependencyFingerprint
  <2>8. /\ run'.effective[new].own = OwnFingerprint(new)'
        /\ run'.target = AllApps =>
             /\ DependsOn[new] \subseteq DOMAIN run'.effective
             /\ run'.effective[new].deps = {run'.effective[d] : d \in DependsOn[new]}
    BY <2>2, <2>4, <2>5, <2>6, <2>7 DEF EffectiveFingerprint
  <2>9. ASSUME NEW a \in DOMAIN run.effective
        PROVE  /\ run'.effective[a].own = OwnFingerprint(a)'
               /\ run'.target = AllApps =>
                    /\ DependsOn[a] \subseteq DOMAIN run'.effective
                    /\ run'.effective[a].deps = {run'.effective[d] : d \in DependsOn[a]}
    <3>1. /\ run.effective[a].own = OwnFingerprint(a)
          /\ run.target = AllApps =>
               /\ DependsOn[a] \subseteq DOMAIN run.effective
               /\ run.effective[a].deps = {run.effective[d] : d \in DependsOn[a]}
      <4>1. run'.undisturbed = run.undisturbed
        BY <1>5, HashEffect DEF OptionsKept, RunShape
      <4> QED BY <2>2, <2>9, <4>1 DEF Hashed
    <3>2. OwnFingerprint(a)' = OwnFingerprint(a)
      BY <2>2 DEF OwnFingerprint
    <3>3. DependsOn[a] \subseteq DOMAIN run.effective =>
            {run.effective[d] : d \in DependsOn[a]} = {run'.effective[d] : d \in DependsOn[a]}
      BY <2>5
    <3> QED BY <2>2, <2>5, <2>9, <3>1, <3>2, <3>3
  <2> QED BY <2>5, <2>8, <2>9
<1>6. CASE WithinApp /\ UNCHANGED version
  BY <1>1, <1>6 DEF WithinApp, AppKept, OptionsKept, Running
<1>7. CASE OnToNext /\ UNCHANGED version
  BY <1>1, <1>7 DEF OnToNext, AppDone, OptionsKept, Running
<1>8. CASE UNCHANGED <<version, run>>
  BY <1>1, <1>8 DEF Running
<1> QED BY <1>2, <1>3, <1>4, <1>5, <1>6, <1>7, <1>8, StepCases
LEMMA StepEntriesLoaded ==
  ASSUME Shape, RunShape, Position, EntriesLoaded, [Next]_vars
  PROVE  EntriesLoaded'
<1> DEFINE Loaded(a) == run.current[a] = run.loaded[a] /\ manifest[a] = run.loaded[a]
<1> SUFFICES ASSUME Running', ~run'.noCache, NEW a \in Apps \ Results'
             PROVE  Loaded(a)' \/ (a = App' /\ Missed')
  BY DEF EntriesLoaded
<1>1. /\ OptionsKept => run'.noCache = run.noCache
      /\ OptionsKept => run'.loaded = run.loaded
      /\ AppKept => OptionsKept /\ Results' = Results /\ App' = App
  BY DEF AppKept, OptionsKept, Results, App
<1>2. Running /\ ~run.noCache /\ a \notin Results => Loaded(a) \/ (a = App /\ Missed)
  BY DEF EntriesLoaded
<1>3. CASE EditSource
  <2>1. /\ run'.pc = run.pc /\ run'.noCache = run.noCache /\ run'.hit = run.hit
        /\ run'.todo = run.todo /\ run'.results = run.results /\ UNCHANGED manifest
        /\ run'.current = run.current /\ run'.loaded = run.loaded
    BY <1>3, EditEffect DEF RunShape
  <2> QED BY <1>2, <2>1 DEF Running, Results, App, Missed
<1>4. CASE (PurgeBlob \/ LoseManifest) /\ UNCHANGED run
  BY <1>4 DEF PurgeBlob, LoseManifest, Running
<1>5. CASE UNCHANGED vars
  BY <1>2, <1>5 DEF vars, Running, Results, App, Missed
<1>6. CASE StartRun
  BY <1>6, StartEffect
<1>7. CASE run' = NoRun
  BY <1>7, NoRunFields DEF Running
<1>8. CASE HashApp
  <2>1. /\ OptionsKept /\ Results' = Results /\ run'.current = run.current
        /\ UNCHANGED manifest /\ run.pc = "hashing"
    BY <1>8, HashEffect DEF RunShape, Results
  <2> QED BY <1>1, <1>2, <2>1 DEF Running, Missed
<1>9. CASE LookUpHit \/ LookUpMiss \/ RestoreBlob
  <2>1. /\ AppKept /\ run'.current = run.current
        /\ UNCHANGED manifest /\ run.pc \in {"lookup", "restoring"}
    BY <1>9, LookUpHitEffect, LookUpMissEffect, RestoreEffect DEF RunShape
  <2> QED BY <1>1, <1>2, <2>1 DEF Running, Missed
<1>10. CASE BuildApp \/ SaveFiles \/ SaveBlob
  <2>1. /\ AppKept /\ run'.current = run.current
        /\ UNCHANGED manifest /\ run.pc # "none"
        /\ Missed'
    BY <1>10, BuildEffect, SaveFilesEffect, SaveBlobEffect DEF RunShape, Missed
  <2> QED BY <1>1, <1>2, <2>1 DEF Running
<1>11. CASE HealEntry
  <2>1. /\ AppKept /\ run'.current = [run.current EXCEPT ![App] = NoEntry]
        /\ manifest' = run'.current \/ UNCHANGED manifest
        /\ run.pc \in {"lookup", "restoring"} /\ Missed'
    BY <1>11, HealEffect DEF RunShape, Missed
  <2>2. a # App => run'.current[a] = run.current[a]
    BY <2>1 DEF RunShape, IsEntries
  <2> QED BY <1>1, <1>2, <2>1, <2>2 DEF Running, Missed
<1>12. CASE WriteDescriptor /\ ~run.hit
  <2>1. /\ AppKept /\ run'.current = run.current /\ UNCHANGED manifest
        /\ run.pc # "none" /\ Missed'
    BY <1>12, DescribeEffect DEF RunShape, Missed
  <2> QED BY <1>1, <1>2, <2>1 DEF Running
<1>13. CASE WriteDescriptor /\ run.hit
  <2>1. /\ AppDone(run.current) /\ UNCHANGED manifest /\ run.pc = "describing"
    BY <1>13, DescribeEffect DEF RunShape
  <2>2. Results' = Results \cup {App} /\ OptionsKept /\ run'.current = run.current
    BY <2>1, NextAppPosition DEF OnToNext, AppDone
  <2> QED BY <1>1, <1>2, <1>13, <2>1, <2>2 DEF Running, Missed
<1>14. CASE SaveManifest
  <2>1. /\ AppDone([run.current EXCEPT ![App] = Fingerprint]) /\ run.pc = "savingManifest"
        /\ manifest' = run'.current \/ UNCHANGED manifest
    BY <1>14, SaveManifestEffect DEF RunShape
  <2>2. /\ Results' = Results \cup {App} /\ OptionsKept
        /\ run'.current = [run.current EXCEPT ![App] = Fingerprint]
    BY <2>1, NextAppPosition DEF OnToNext, AppDone
  <2>3. a # App /\ run'.current[a] = run.current[a]
    BY <2>2 DEF RunShape, IsEntries
  <2> QED BY <1>1, <1>2, <2>1, <2>2, <2>3 DEF Running
<1> QED
  BY <1>3, <1>4, <1>5, <1>6, <1>7, <1>8, <1>9, <1>10, <1>11, <1>12, <1>13, <1>14
  DEF Next, Environment, PurgeBlob, LoseManifest, RunStep, BuildFails, FinishRun, Crash
(* The entries of the apps that are not selected are saved as they were loaded. *)
LEMMA StepKeepsOtherEntries ==
  ASSUME Shape, RunShape, Position, EntriesLoaded, [Next]_vars,
         Running, run.target # AllApps, ~run.noCache, NEW a \in Apps \ {run.target}
  PROVE  manifest'[a] = manifest[a]
<1>1. a \notin Results /\ (run.todo # <<>> => a # App)
  BY AppInApps DEF Position, ToDo
<1>2. run.todo # <<>> => run.current[a] = manifest[a]
  BY <1>1 DEF EntriesLoaded
<1>3. \A f : run.todo # <<>> => [run.current EXCEPT ![App] = f][a] = manifest[a]
  BY <1>1, <1>2 DEF RunShape, IsEntries
<1>4. CASE HealEntry \/ SaveManifest
  <2>1. run.todo # <<>>
    BY <1>4 DEF HealEntry, SaveManifest, Position, InApp
  <2> QED BY <1>3, <1>4, <2>1 DEF HealEntry, SaveManifest
<1>5. CASE UNCHANGED manifest
  BY <1>5
<1> QED
  BY <1>4, <1>5 DEF Next, Environment, EditSource, PurgeBlob, LoseManifest, StartRun, Crash,
     RunStep, HashApp, LookUpHit, LookUpMiss, RestoreBlob, BuildApp, BuildFails, WriteDescriptor,
     SaveFiles, SaveBlob, FinishRun, vars

-----------------------------------------------------------------------------
(* What is saved is on disk. *)

LEMMA FingerprintsDiffer ==
  ASSUME SourcesDiffer, NEW a \in Apps, NEW b \in Apps, a # b, NEW f, NEW g,
         IsFingerprintOf(f, a), IsFingerprintOf(g, b)
  PROVE  f # g
<1> SUFFICES ASSUME f.own = g.own PROVE FALSE
  OBVIOUS
<1>1. f.own \in OwnFingerprints(a) /\ f.own \in OwnFingerprints(b)
  BY DEF IsFingerprintOf
<1>2. CASE a \in Symlinked /\ b \in Symlinked
  BY <1>1, <1>2 DEF OwnFingerprints
<1>3. CASE a \notin Symlinked /\ b \notin Symlinked
  <2>1. PICK v \in Versions : f.own = [source |-> Source[a], version |-> v]
    BY <1>1, <1>3 DEF OwnFingerprints
  <2>2. PICK w \in Versions : f.own = [source |-> Source[b], version |-> w]
    BY <1>1, <1>3 DEF OwnFingerprints
  <2> QED BY <2>1, <2>2 DEF SourcesDiffer
<1>4. \A x, y, v : [symlink |-> x] # [source |-> y, version |-> v]
  <2> SUFFICES ASSUME NEW x, NEW y, NEW v, [symlink |-> x] = [source |-> y, version |-> v]
               PROVE  FALSE
    OBVIOUS
  <2>1. "symlink" \in DOMAIN [symlink |-> x] /\ "symlink" \notin DOMAIN [source |-> y, version |-> v]
    OBVIOUS
  <2> QED BY <2>1
<1> QED BY <1>1, <1>2, <1>3, <1>4 DEF OwnFingerprints

(* The blob and the directory of the app at the head are nobody else's.        *)
LEMMA OtherFingerprints ==
  ASSUME SourcesDiffer, RunShape, Position, run.todo # <<>>, run.pc \notin {"none", "hashing"},
         NEW a \in Results
  PROVE  a \in Apps /\ a # App /\ run.effective[a] # Fingerprint
<1>1. a \in DOMAIN run.effective /\ a \in Apps
  BY DEF Position, RunShape
<1> QED BY <1>1, FingerprintType, FingerprintsDiffer DEF RunShape

LEMMA StoreEffect ==
  ASSUME Shape, RunShape, Position, RunStep
  PROVE  /\ \A a \in Apps : a # App => store'[a] = store[a]
         /\ RestoreBlob => store'[App].descriptor = store[App].descriptor
         /\ WriteDescriptor /\ "write" \notin Faults => store'[App].descriptor = run.artifact
         /\ WriteDescriptor => store'[App].files = store[App].files
<1>1. store = [a \in Apps |-> store[a]] /\ (run.todo # <<>> => App \in Apps)
  BY AppInApps DEF Shape
<1>2. CASE RestoreBlob \/ BuildApp \/ BuildFails
  <2>1. PICK files : store' = [store EXCEPT ![App] = [store[App] EXCEPT !.files = files]]
    BY <1>2 DEF RestoreBlob, BuildApp, BuildFails
  <2>2. App \in Apps /\ run.pc # "describing"
    BY <1>1, <1>2 DEF RestoreBlob, BuildApp, BuildFails, Position, InApp
  <2>3. [store[App] EXCEPT !.files = files].descriptor = store[App].descriptor
    BY <2>2 DEF Shape, IsDirectory
  <2> QED BY <1>1, <2>1, <2>2, <2>3 DEF WriteDescriptor
<1>3. CASE WriteDescriptor
  <2>1. PICK d : /\ store' = [store EXCEPT ![App] = [store[App] EXCEPT !.descriptor = d]]
                 /\ "write" \notin Faults => d = run.artifact
    <3>1. CASE store' = [store EXCEPT ![App].descriptor = run.artifact]
      BY <3>1
    <3>2. CASE "write" \in Faults /\ store' = store
      <4>1. store = [store EXCEPT ![App] = [store[App] EXCEPT !.descriptor = store[App].descriptor]]
        BY <1>1, <1>3 DEF Shape, IsDirectory, WriteDescriptor, Position, InApp
      <4> QED BY <3>2, <4>1
    <3> QED BY <1>3, <3>1, <3>2 DEF WriteDescriptor
  <2>2. App \in Apps /\ run.pc = "describing"
    BY <1>1, <1>3 DEF WriteDescriptor, Position, InApp
  <2>3. /\ [store[App] EXCEPT !.descriptor = d].descriptor = d
        /\ [store[App] EXCEPT !.descriptor = d].files = store[App].files
    BY <2>2 DEF Shape, IsDirectory
  <2> QED BY <1>1, <2>1, <2>2, <2>3 DEF RestoreBlob
<1>4. CASE UNCHANGED store /\ ~WriteDescriptor
  BY <1>4
<1> QED
  BY <1>2, <1>3, <1>4 DEF RunStep, HashApp, LookUpHit, LookUpMiss, HealEntry, SaveFiles,
     SaveBlob, SaveManifest, FinishRun
LEMMA StaysPersisted ==
  ASSUME NEW a, Persisted(a), run'.effective = run.effective,
         run'.results[a] = run.results[a], run'.current[a] = run.current[a],
         manifest'[a] \in {manifest[a], run.current[a]},
         store'[a].descriptor = store[a].descriptor,
         NEW f, f = run.effective[a],
         Blob(f)'.descriptor = Blob(f).descriptor \/
           (~SourcesDiffer /\ Blob(f)'.descriptor \in Outputs)
  PROVE  Persisted(a)'
<1>1. /\ Blob(run.effective[a])'.descriptor \in Outputs
      /\ SourcesDiffer => Blob(run.effective[a])'.descriptor = run'.results[a].artifact
  BY DEF Persisted
<1> QED BY <1>1 DEF Persisted

LEMMA BlobSame ==
  ASSUME NEW f, UNCHANGED blobs
  PROVE  Blob(f)' = Blob(f)
  BY DEF Blob

(* What SaveFiles and SaveBlob do to the blobs.                                *)
LEMMA BlobEffect ==
  ASSUME Shape, RunShape, Position, SaveFiles \/ SaveBlob, NEW f
  PROVE  /\ f # Fingerprint => Blob(f)' = Blob(f)
         /\ SaveFiles => Blob(f)'.descriptor = Blob(f).descriptor
         /\ SaveBlob /\ f = Fingerprint /\ "write" \notin Faults => Blob(f)'.descriptor = run.artifact
         /\ SaveBlob => Blob(f)'.files = Blob(f).files
<1>1. IsDirectory(Blob(f))
  BY BlobShape
<1>2. CASE SaveFiles
  <2>1. PICK files : WriteBlob(Fingerprint, [Blob(Fingerprint) EXCEPT !.files = files])
    BY <1>2 DEF SaveFiles
  <2>2. f # Fingerprint => Blob(f)' = Blob(f)
    BY <2>1 DEF WriteBlob, Blob
  <2>3. f = Fingerprint => Blob(f)' = [Blob(f) EXCEPT !.files = files]
    BY <2>1 DEF WriteBlob, Blob
  <2>4. [Blob(f) EXCEPT !.files = files].descriptor = Blob(f).descriptor
    BY <1>1 DEF IsDirectory
  <2> QED BY <1>2, <2>2, <2>3, <2>4 DEF SaveFiles, SaveBlob
<1>3. CASE SaveBlob /\ "write" \in Faults /\ UNCHANGED blobs
  BY <1>3, BlobSame DEF SaveBlob, SaveFiles
<1>4. CASE SaveBlob /\ WriteBlob(Fingerprint, [Blob(Fingerprint) EXCEPT !.descriptor = run.artifact])
  <2>1. WriteBlob(Fingerprint, [Blob(Fingerprint) EXCEPT !.descriptor = run.artifact])
    BY <1>4
  <2>2. f # Fingerprint => Blob(f)' = Blob(f)
    BY <2>1 DEF WriteBlob, Blob
  <2>3. f = Fingerprint => Blob(f)' = [Blob(f) EXCEPT !.descriptor = run.artifact]
    BY <2>1 DEF WriteBlob, Blob
  <2>4. /\ [Blob(f) EXCEPT !.descriptor = run.artifact].descriptor = run.artifact
        /\ [Blob(f) EXCEPT !.descriptor = run.artifact].files = Blob(f).files
    BY <1>1 DEF IsDirectory
  <2> QED BY <1>4, <2>2, <2>3, <2>4 DEF SaveFiles, SaveBlob
<1> QED BY <1>2, <1>3, <1>4 DEF SaveBlob
LEMMA StepPersisted ==
  ASSUME Shape, RunShape, Position, EntriesLoaded, Writable, AppSaved,
         \A a \in Results : Persisted(a), RunStep, HashApp \/ WithinApp \/ OnToNext,
         NEW a \in Results'
  PROVE  Persisted(a)'
<1>1. CASE HashApp
  BY <1>1, HashEffect DEF RunShape, Position, Results
<1> SUFFICES ASSUME WithinApp \/ OnToNext PROVE Persisted(a)'
  BY <1>1
<1>2. /\ run.todo # <<>> /\ run.pc \notin {"none", "hashing"} /\ App \in Apps
      /\ App \in DOMAIN run.effective
  BY FingerprintType DEF WithinApp, OnToNext, Position, InApp
<1>3. /\ run'.effective = run.effective
      /\ \A b \in Results : run'.results[b] = run.results[b]
      /\ Results' = Results \/ (OnToNext /\ Results' = Results \cup {App})
      /\ OnToNext => run'.results[App].artifact = run.artifact
  <2>1. CASE WithinApp
    BY <2>1 DEF WithinApp, AppKept, Results, OnToNext, AppDone, InApp
  <2>2. CASE OnToNext
    <3>1. run'.effective = run.effective
      BY <2>2 DEF OnToNext, AppDone
    <3> QED BY <2>2, <3>1, NextAppPosition
  <2> QED BY <2>1, <2>2
<1>4. ASSUME NEW b \in Apps, b # App
      PROVE  /\ run'.current[b] = run.current[b]
             /\ manifest'[b] \in {manifest[b], run.current[b]}
  <2>1. \/ run'.current = run.current
        \/ \E f : run'.current = [run.current EXCEPT ![App] = f]
    <3>1. CASE HealEntry
      BY <3>1, HealEffect DEF RunShape
    <3>2. CASE SaveManifest
      BY <3>2, SaveManifestEffect DEF RunShape, AppDone
    <3>3. CASE LookUpHit \/ LookUpMiss \/ RestoreBlob \/ BuildApp \/ SaveFiles \/ SaveBlob
      BY <3>3, LookUpHitEffect, LookUpMissEffect, RestoreEffect, BuildEffect, SaveFilesEffect,
         SaveBlobEffect DEF RunShape
    <3>4. CASE WriteDescriptor
      BY <3>4, DescribeEffect DEF RunShape, AppDone
    <3>5. CASE HashApp
      BY <3>5, HashEffect DEF RunShape
    <3>6. CASE BuildFails \/ FinishRun
      BY <3>6, NoRunFields DEF BuildFails, FinishRun, WithinApp, OnToNext, AppDone, InApp
    <3> QED BY <3>1, <3>2, <3>3, <3>4, <3>5, <3>6 DEF RunStep
  <2>2. run'.current[b] = run.current[b]
    BY <2>1, <1>4 DEF RunShape, IsEntries
  <2>3. UNCHANGED manifest \/ manifest' = run'.current
    BY HealEffect, SaveManifestEffect DEF RunShape, RunStep, HashApp, LookUpHit, LookUpMiss,
       RestoreBlob, BuildApp, BuildFails, WriteDescriptor, SaveFiles, SaveBlob, FinishRun
  <2> QED BY <2>2, <2>3
<1>5. ASSUME NEW f, f # Fingerprint \/ ~SaveBlob
      PROVE  Blob(f)'.descriptor = Blob(f).descriptor
  <2>1. CASE SaveFiles \/ SaveBlob
    BY <1>5, <2>1, BlobEffect DEF SaveFiles, SaveBlob
  <2>2. CASE UNCHANGED blobs
    BY <2>2, BlobSame
  <2> QED BY <2>1, <2>2 DEF RunStep, HashApp, LookUpHit, LookUpMiss, HealEntry,
       RestoreBlob, BuildApp, BuildFails, WriteDescriptor, SaveManifest, FinishRun
<1>6. CASE a \in Results
  <2>1. a \in Apps /\ a # App
    <3>1. App \notin Results
      BY <1>2, FingerprintType
    <3> QED BY <1>6, <3>1 DEF Position, RunShape
  <2>2. store'[a].descriptor = store[a].descriptor
    BY <2>1, StoreEffect
  <2>3. PICK f : f = run.effective[a]
    OBVIOUS
  <2>4. Blob(f)'.descriptor = Blob(f).descriptor \/
          (~SourcesDiffer /\ Blob(f)'.descriptor \in Outputs)
    <3>1. CASE f # Fingerprint \/ ~SaveBlob
      BY <1>5, <3>1
    <3>2. CASE f = Fingerprint /\ SaveBlob
      <4>1. Blob(f)'.descriptor = run.artifact
        BY <3>2, BlobEffect DEF Writable
      <4>2. run.artifact \in Outputs
        BY <3>2 DEF SaveBlob, RunShape
      <4>3. ~SourcesDiffer
        BY <1>2, <1>6, <2>3, <3>2, OtherFingerprints
      <4> QED BY <4>1, <4>2, <4>3
    <3> QED BY <3>1, <3>2
  <2>5. Persisted(a)
    BY <1>6
  <2> QED BY <1>3, <1>4, <1>6, <2>1, <2>2, <2>3, <2>4, <2>5, StaysPersisted
<1>7. CASE a \notin Results
  <2>1. OnToNext /\ a = App /\ a \notin Results
    BY <1>3, <1>7
  <2>2. PICK f : f = Fingerprint
    OBVIOUS
  <2>3. run'.effective[a] = f
    BY <1>3, <2>1, <2>2 DEF Fingerprint
  <2>4. UNCHANGED blobs /\ Blob(f)' = Blob(f)
    <3>1. run.pc \in {"describing", "savingManifest"}
      BY <2>1 DEF OnToNext
    <3>2. UNCHANGED blobs
      BY <3>1, <2>1 DEF RunStep, HashApp, LookUpHit, LookUpMiss, HealEntry, RestoreBlob, BuildApp,
         BuildFails, WriteDescriptor, SaveFiles, SaveBlob, SaveManifest, FinishRun
    <3> QED BY <3>2, BlobSame
  <2>5. CASE WriteDescriptor
    <3>1. /\ run.pc = "describing" /\ run.hit /\ run'.current = run.current /\ UNCHANGED manifest
          /\ run.current[App] = Fingerprint /\ ~run.noCache
          /\ Blob(Fingerprint).descriptor = run.artifact
      BY <2>1, <2>5, DescribeEffect DEF RunShape, AppDone, AppSaved, OnToNext
    <3>2. store'[App].descriptor = run.artifact
      BY <2>5, StoreEffect DEF Writable
    <3>3. manifest[App] = Fingerprint
      BY <1>2, <2>1, <3>1 DEF EntriesLoaded, Missed, Running
    <3>4. /\ manifest'[a] = f /\ run'.current[a] = f
          /\ Blob(f)'.descriptor = run.artifact /\ store'[a].descriptor = run.artifact
          /\ run'.results[a].artifact = run.artifact
      BY <1>3, <2>1, <2>2, <2>4, <3>1, <3>2, <3>3
    <3>5. Blob(run.effective[a])'.descriptor = run.artifact
      BY <2>3, <3>4
    <3>6. run.artifact \in Outputs
      BY <3>1 DEF RunShape
    <3> QED BY <2>3, <3>4, <3>5, <3>6 DEF Persisted
  <2>6. CASE SaveManifest
    <3>1. /\ run'.current = [run.current EXCEPT ![App] = Fingerprint] /\ manifest' = run'.current
          /\ UNCHANGED store /\ run.pc = "savingManifest"
      BY <2>6, SaveManifestEffect DEF RunShape, AppDone, Writable
    <3>2. run'.current[App] = Fingerprint
      BY <1>2, <3>1 DEF RunShape, IsEntries
    <3>3. store[App].descriptor = run.artifact /\ Blob(Fingerprint).descriptor = run.artifact
      BY <3>1 DEF AppSaved
    <3>4. /\ manifest'[a] = f /\ run'.current[a] = f
          /\ Blob(f)'.descriptor = run.artifact /\ store'[a].descriptor = run.artifact
          /\ run'.results[a].artifact = run.artifact
      BY <1>3, <2>1, <2>2, <2>4, <3>1, <3>2, <3>3
    <3>5. Blob(run.effective[a])'.descriptor = run.artifact
      BY <2>3, <3>4
    <3>6. run.artifact \in Outputs
      BY <3>1 DEF RunShape
    <3> QED BY <2>3, <3>4, <3>5, <3>6 DEF Persisted
  <2>7. WriteDescriptor \/ SaveManifest
    BY <2>1 DEF OnToNext, RunStep, HashApp, LookUpHit, LookUpMiss, HealEntry, RestoreBlob, BuildApp,
       BuildFails, SaveFiles, SaveBlob, FinishRun
  <2> QED BY <2>5, <2>6, <2>7
<1> QED BY <1>6, <1>7
LEMMA StepAppSaved ==
  ASSUME Shape, RunShape, Position, Writable, AppSaved, RunStep, HashApp \/ WithinApp \/ OnToNext
  PROVE  AppSaved'
<1>1. AppKept => App' = App /\ Fingerprint' = Fingerprint
  BY DEF AppKept, App, Fingerprint
<1>2. UNCHANGED blobs => \A f : Blob(f)' = Blob(f)
  BY DEF Blob
<1>3. CASE HashApp \/ LookUpMiss \/ OnToNext \/ HealEntry \/ BuildApp
  <2>1. \/ run'.pc \in {"hashing", "lookup", "building"}
        \/ run'.pc = "describing" /\ ~run'.hit
    BY <1>3, HashEffect, LookUpMissEffect, HealEffect, BuildEffect DEF RunShape, OnToNext, AppDone
  <2> QED BY <2>1 DEF AppSaved
<1>4. CASE LookUpHit
  <2>1. AppKept /\ run'.current = run.current /\ run'.pc = "restoring"
    BY <1>4, LookUpHitEffect DEF RunShape
  <2>2. run.current[App] = Fingerprint /\ ~run.noCache
    BY <1>4 DEF LookUpHit
  <2> QED BY <1>1, <2>1, <2>2 DEF AppSaved, AppKept, OptionsKept
<1>5. CASE RestoreBlob
  <2>1. /\ AppKept /\ run'.current = run.current /\ run.pc = "restoring" /\ run'.pc = "describing"
        /\ run'.artifact = Blob(Fingerprint).descriptor /\ UNCHANGED blobs
    BY <1>5, RestoreEffect DEF RunShape
  <2>2. PICK f : f = Fingerprint
    OBVIOUS
  <2>3. Blob(Fingerprint)'.descriptor = run'.artifact
    BY <1>1, <1>2, <2>1, <2>2
  <2> QED BY <1>1, <2>1, <2>3 DEF AppSaved, AppKept, OptionsKept
<1>6. CASE WriteDescriptor /\ ~OnToNext
  <2>1. AppKept /\ run'.pc = "savingFiles" /\ run'.artifact = run.artifact
    BY <1>6, DescribeEffect DEF RunShape, OnToNext
  <2>2. store'[App].descriptor = run.artifact
    BY <1>6, StoreEffect DEF Writable
  <2> QED BY <1>1, <2>1, <2>2 DEF AppSaved
<1>7. CASE SaveFiles
  <2>1. AppKept /\ run'.pc = "savingBlob" /\ run'.artifact = run.artifact /\ UNCHANGED store
        /\ run.pc = "savingFiles"
    BY <1>7, SaveFilesEffect DEF RunShape
  <2> QED BY <1>1, <2>1 DEF AppSaved
<1>8. CASE SaveBlob
  <2>1. AppKept /\ run'.pc = "savingManifest" /\ run'.artifact = run.artifact /\ UNCHANGED store
        /\ run.pc = "savingBlob"
    BY <1>8, SaveBlobEffect DEF RunShape
  <2>2. PICK f : f = Fingerprint
    OBVIOUS
  <2>3. Blob(f)'.descriptor = run.artifact
    BY <1>8, <2>2, BlobEffect DEF Writable
  <2>4. Blob(Fingerprint)'.descriptor = run'.artifact
    BY <1>1, <2>1, <2>2, <2>3
  <2> QED BY <1>1, <2>1, <2>4 DEF AppSaved
<1>9. CASE (BuildFails \/ FinishRun) /\ run' = NoRun
  BY <1>9, NoRunFields DEF AppSaved
<1> QED
  BY <1>3, <1>4, <1>5, <1>6, <1>7, <1>8, <1>9, SaveManifestEffect
  DEF RunStep, BuildFails, FinishRun, OnToNext, RunShape

LEMMA StepSaved ==
  ASSUME Shape, RunShape, Position, Position', EntriesLoaded, Saved, [Next]_vars
  PROVE  Saved'
<1> SUFFICES ASSUME Writable PROVE AppSaved' /\ (\A a \in Results : Persisted(a))'
  BY DEF Saved
<1>1. AppSaved /\ \A a \in Results : Persisted(a)
  BY DEF Saved
<1>2. CASE RunStep /\ (HashApp \/ WithinApp \/ OnToNext)
  BY <1>1, <1>2, StepAppSaved, StepPersisted
<1>3. CASE run'.pc = "none" \/ run'.pc = "hashing"
  BY <1>3 DEF AppSaved, Position
<1>4. CASE EditSource /\ Running
  <2>1. /\ run'.pc = run.pc /\ run'.hit = run.hit /\ run'.noCache = run.noCache
        /\ run'.current = run.current /\ run'.effective = run.effective
        /\ run'.todo = run.todo /\ run'.artifact = run.artifact /\ run'.results = run.results
        /\ UNCHANGED <<manifest, blobs, store>>
    BY <1>4, EditEffect DEF RunShape
  <2> QED BY <1>1, <2>1 DEF AppSaved, Persisted, Results, App, Fingerprint, Blob
<1>5. CASE UNCHANGED vars
  BY <1>1, <1>5 DEF vars, AppSaved, Persisted, Results, App, Fingerprint, Blob
<1> QED
  BY <1>2, <1>3, <1>4, <1>5, StepCases, StartEffect, EditEffect, NoRunFields
  DEF PurgeBlob, LoseManifest, Running, RunShape
-----------------------------------------------------------------------------
(* After a complete build there is nothing to build. *)

LEMMA FingerprintIsEntry ==
  ASSUME NEW own, NEW deps
  PROVE  EffectiveFingerprint(own, deps) # NoEntry
<1> SUFFICES ASSUME [own |-> own, deps |-> deps] = [entry |-> "none"] PROVE FALSE
  BY DEF EffectiveFingerprint, NoEntry
<1>1. "own" \in DOMAIN [own |-> own, deps |-> deps] /\ "own" \notin DOMAIN [entry |-> "none"]
  OBVIOUS
<1> QED BY <1>1

LEMMA AllBuiltKept ==
  ASSUME AllBuilt, UNCHANGED <<version, manifest, blobs>>
  PROVE  AllBuilt'
  BY DEF AllBuilt, OwnFingerprint, Blob

(* A run over all apps that is through has saved the fingerprints of its       *)
(* sources.                                                                    *)
LEMMA CompleteBuild ==
  ASSUME RunShape, Position, Hashed, Saved, Writable, run.undisturbed,
         run.pc = "lookup", run.todo = <<>>, run.target = AllApps
  PROVE  AllBuilt
<1>1. Results = Apps /\ DOMAIN run.effective = Apps
  <2>1. ToDo = {}
    BY DEF ToDo
  <2> QED BY <2>1 DEF Position, RunShape
<1>2. ASSUME NEW a \in Apps
      PROVE  /\ manifest[a] = run.effective[a]
             /\ run.effective[a].own = OwnFingerprint(a)
             /\ run.effective[a].deps = {run.effective[d] : d \in DependsOn[a]}
             /\ Blob(manifest[a]).descriptor \in Outputs
             /\ DependsOn[a] \subseteq Apps
  <2>1. manifest[a] = run.effective[a] /\ Blob(manifest[a]).descriptor \in Outputs
    BY <1>1 DEF Saved, Persisted
  <2>3. /\ run.effective[a].own = OwnFingerprint(a)
        /\ run.effective[a].deps = {run.effective[d] : d \in DependsOn[a]}
    BY <1>1 DEF Hashed, Running
  <2>4. DependsOn[a] \subseteq Apps
    BY CacheAssumption
  <2> QED BY <2>1, <2>3, <2>4
<1> SUFFICES ASSUME NEW a \in Apps
             PROVE  /\ manifest[a] = EffectiveFingerprint(OwnFingerprint(a), {manifest[d] : d \in DependsOn[a]})
                    /\ Blob(manifest[a]).descriptor \notin {Absent, Torn}
  BY DEF AllBuilt
<1>3. {run.effective[d] : d \in DependsOn[a]} = {manifest[d] : d \in DependsOn[a]}
  BY <1>2
<1>4. run.effective[a] = EffectiveFingerprint(run.effective[a].own, run.effective[a].deps)
  BY <1>1 DEF RunShape, IsFingerprintOf
<1> QED BY <1>2, <1>3, <1>4, DescriptorAssumption

LEMMA StepIdle ==
  ASSUME Shape, RunShape, Position, Hashed, Idle, ~run.noCache, RunStep,
         HashApp \/ WithinApp \/ OnToNext
  PROVE  Idle'
<1>1. run.todo # <<>> /\ run.pc \notin {"none", "hashing"} =>
        /\ App \in Apps /\ Fingerprint = manifest[App] /\ run.current[App] = Fingerprint
        /\ Blob(Fingerprint).descriptor \notin {Absent, Torn}
  BY FingerprintType DEF Idle, AllBuilt, Fingerprint
<1>2. CASE HashApp
  <2>1. PICK k \in 1..Len(run.todo) :
          run'.effective = [b \in DOMAIN run.effective \cup {run.todo[k]} |->
                IF b = run.todo[k]
                THEN EffectiveFingerprint(OwnFingerprint(run.todo[k]),
                       {DependencyFingerprint(d, run.effective) : d \in DependsOn[run.todo[k]]})
                ELSE run.effective[b]]
    BY <1>2, HashEffect DEF RunShape
  <2>2. PICK new \in Apps : new = run.todo[k]
    BY DEF RunShape
  <2>3. \A d \in Apps : DependencyFingerprint(d, run.effective) = manifest[d]
    <3>1. \A d \in Apps : manifest[d] # NoEntry
      BY FingerprintIsEntry DEF Idle, AllBuilt
    <3> QED BY <3>1 DEF DependencyFingerprint, Idle
  <2>4. {DependencyFingerprint(d, run.effective) : d \in DependsOn[new]}
          = {manifest[d] : d \in DependsOn[new]}
    <3>1. DependsOn[new] \subseteq Apps
      BY CacheAssumption
    <3> QED BY <2>3, <3>1
  <2>5. \A a \in DOMAIN run'.effective : run'.effective[a] = manifest[a]
    <3>1. EffectiveFingerprint(OwnFingerprint(new),
              {DependencyFingerprint(d, run.effective) : d \in DependsOn[new]}) = manifest[new]
      BY <2>4 DEF Idle, AllBuilt
    <3>2. \A a \in DOMAIN run.effective : run.effective[a] = manifest[a]
      BY DEF Idle
    <3> QED BY <2>1, <2>2, <3>1, <3>2
  <2>6. /\ run'.loaded = run.loaded /\ run'.current = run.current
        /\ run'.pc \in {"hashing", "lookup"} /\ UNCHANGED <<version, manifest, blobs>>
    BY <1>2, HashEffect DEF RunShape, OptionsKept
  <2> QED BY <2>5, <2>6, AllBuiltKept DEF Idle, Missed
<1>3. CASE LookUpHit \/ RestoreBlob \/ WriteDescriptor
  <2>1. /\ run'.loaded = run.loaded /\ run'.current = run.current
        /\ run'.effective = run.effective
        /\ \/ run'.pc \in {"lookup", "restoring"}
           \/ run'.pc = "describing" /\ run'.hit
        /\ UNCHANGED <<version, manifest, blobs>>
    BY <1>3, LookUpHitEffect, RestoreEffect, DescribeEffect
    DEF RunShape, AppKept, AppDone, OptionsKept, Idle, Missed
  <2> QED BY <2>1, AllBuiltKept DEF Idle, Missed
<1>4. ~LookUpMiss
  BY <1>1 DEF LookUpMiss
<1>5. ~HealEntry
  BY <1>1 DEF HealEntry, Position, InApp
<1>6. ~(BuildApp \/ SaveFiles \/ SaveBlob \/ SaveManifest \/ BuildFails)
  BY DEF Idle, Missed, BuildApp, SaveFiles, SaveBlob, SaveManifest, BuildFails
<1>7. ~FinishRun
  BY DEF FinishRun, HashApp, WithinApp, OnToNext
<1> QED BY <1>2, <1>3, <1>4, <1>5, <1>6, <1>7 DEF RunStep

LEMMA StepSettled ==
  ASSUME Shape, RunShape, Position, Hashed, Saved, Settled, [Next]_vars
  PROVE  Settled'
<1> SUFFICES ASSUME Writable
             PROVE  /\ history'.settled /\ ~Running' => AllBuilt'
                    /\ history'.settled /\ Running' =>
                         run'.wasSettled /\ run'.undisturbed /\ (run'.noCache => run'.target = AllApps)
                    /\ Running' /\ run'.wasSettled /\ run'.undisturbed /\ ~run'.noCache => Idle'
  BY DEF Settled
<1>1. /\ history.settled /\ ~Running => AllBuilt
      /\ history.settled /\ Running =>
           run.wasSettled /\ run.undisturbed /\ (run.noCache => run.target = AllApps)
      /\ Running /\ run.wasSettled /\ run.undisturbed /\ ~run.noCache => Idle
  BY DEF Settled
<1>2. CASE Disturb /\ ~Running'
  BY <1>2, DisturbShape
<1>3. CASE StartRun
  <2>1. PICK target \in Targets, noCache \in NoCacheFlags :
          LET loaded == IF noCache THEN EmptyManifest ELSE manifest IN
           /\ ~Running
           /\ run'.pc = "hashing" /\ run'.target = target /\ run'.noCache = noCache
           /\ run'.effective = <<>>
           /\ run'.loaded = loaded /\ run'.current = loaded
           /\ run'.wasSettled = history.settled /\ run'.undisturbed = TRUE
           /\ history' = [settled |-> history.settled /\ ~(noCache /\ target # AllApps),
                          plain |-> history.plain /\ ~noCache /\ target = AllApps]
           /\ UNCHANGED <<version, manifest, blobs>>
    BY <1>3, StartEffect
  <2>2. Running' /\ ~Missed'
    BY <2>1 DEF Running, Missed
  <2>3. history.settled => AllBuilt'
    BY <1>1, <2>1, AllBuiltKept
  <2>4. history'.settled => history.settled /\ (noCache => target = AllApps)
    BY <2>1
  <2>5. DOMAIN run'.effective = {}
    BY <2>1
  <2> QED BY <2>1, <2>2, <2>3, <2>4, <2>5 DEF Idle
<1>4. CASE FinishRun
  <2>1. /\ ~Running' /\ run.pc = "lookup" /\ run.todo = <<>> /\ Running
        /\ history'.settled = (history.settled \/ (run.target = AllApps /\ run.undisturbed))
        /\ UNCHANGED <<version, manifest, blobs>>
    BY <1>4, NoRunFields DEF FinishRun, Running, Shape
  <2>2. history'.settled => AllBuilt
    BY <1>1, <2>1, CompleteBuild DEF Idle
  <2> QED BY <2>1, <2>2, AllBuiltKept
<1>5. CASE RunStep /\ (HashApp \/ WithinApp \/ OnToNext) /\ UNCHANGED history
  <2>1. /\ run'.wasSettled = run.wasSettled /\ run'.noCache = run.noCache
        /\ run'.target = run.target /\ run'.undisturbed = run.undisturbed
    BY <1>5, HashEffect DEF WithinApp, OnToNext, AppKept, AppDone, OptionsKept, RunShape
  <2>2. Running /\ Running'
    BY <1>5, HashEffect DEF WithinApp, OnToNext, AppDone, InApp, Running, RunShape
  <2> QED BY <1>1, <1>5, <2>1, <2>2, StepIdle
<1>6. CASE UNCHANGED vars
  BY <1>1, <1>6, AllBuiltKept DEF vars, Running, Idle, Missed
<1>7. CASE Environment
  <2>1. Disturb
    BY <1>7 DEF Environment, EditSource, PurgeBlob, LoseManifest
  <2>2. CASE ~Running'
    BY <1>2, <2>1, <2>2
  <2>3. CASE Running'
    <3>1. ~run'.undisturbed
      <4>1. EditSource
        BY <1>7, <2>3 DEF Environment, PurgeBlob, LoseManifest, Running
      <4>2. run'.pc = run.pc /\ run'.undisturbed = ~Running
        BY <4>1, EditEffect DEF RunShape
      <4>3. Running
        BY <2>3, <4>2 DEF Running
      <4> QED BY <4>2, <4>3
    <3>2. history' = [settled |-> FALSE, plain |-> history.plain]
      BY <2>1, DisturbShape
    <3> QED BY <2>3, <3>1, <3>2
  <2> QED BY <2>2, <2>3
<1>8. CASE BuildFails \/ Crash
  BY <1>2, <1>8, NoRunFields DEF BuildFails, Crash, Running
<1>9. CASE RunStep /\ ~FinishRun /\ ~BuildFails
  <2>1. UNCHANGED history
    BY <1>9 DEF RunStep, HashApp, LookUpHit, LookUpMiss, HealEntry, RestoreBlob, BuildApp,
       WriteDescriptor, SaveFiles, SaveBlob, SaveManifest
  <2> QED BY <1>5, <1>9, <2>1, LoopSteps DEF RunShape
<1> QED BY <1>3, <1>4, <1>6, <1>7, <1>8, <1>9 DEF Next
-----------------------------------------------------------------------------
(* What a blob holds is what its fingerprint says. *)

(* A blob gets a new descriptor from the run that saves it, and from no other  *)
(* step.                                                                       *)
LEMMA DescriptorEffect ==
  ASSUME Shape, RunShape, Position, [Next]_vars, NEW f, Blob(f)'.descriptor \in Outputs
  PROVE  \/ Blob(f)'.descriptor = Blob(f).descriptor
         \/ SaveBlob /\ f = Fingerprint /\ Blob(f)'.descriptor = run.artifact
<1>1. IsDirectory(Blob(f))
  BY BlobShape
<1>2. CASE UNCHANGED blobs
  BY <1>2, BlobSame
<1>3. CASE PurgeBlob
  <2>1. PICK g \in DOMAIN blobs : blobs' = [h \in DOMAIN blobs \ {g} |-> blobs[h]]
    BY <1>3 DEF PurgeBlob
  <2>2. Blob(f)' = NoFiles \/ Blob(f)' = Blob(f)
    BY <2>1 DEF Blob
  <2> QED BY <2>2, DescriptorAssumption DEF NoFiles
<1>4. CASE SaveFiles
  BY <1>4, BlobEffect
<1>5. CASE SaveBlob
  <2>1. CASE f # Fingerprint
    BY <1>5, <2>1, BlobEffect
  <2>2. CASE f = Fingerprint /\ WriteBlob(Fingerprint, [Blob(Fingerprint) EXCEPT !.descriptor = run.artifact])
    <3>1. Blob(f)' = [Blob(f) EXCEPT !.descriptor = run.artifact]
      BY <2>2 DEF WriteBlob, Blob
    <3> QED BY <1>1, <1>5, <2>2, <3>1 DEF IsDirectory
  <2> QED BY <1>2, <1>5, <2>1, <2>2 DEF SaveBlob
<1>6. CASE Crash /\ ~UNCHANGED blobs
  <2>1. \E x : \/ WriteBlob(Fingerprint, [Blob(Fingerprint) EXCEPT !.files = x])
               \/ WriteBlob(Fingerprint, [Blob(Fingerprint) EXCEPT !.descriptor = Torn])
    BY <1>6 DEF Crash
  <2>2. PICK x : \/ f # Fingerprint /\ Blob(f)' = Blob(f)
                 \/ Blob(f)' = [Blob(f) EXCEPT !.files = x]
                 \/ Blob(f)' = [Blob(f) EXCEPT !.descriptor = Torn]
    BY <2>1 DEF WriteBlob, Blob
  <2> QED BY <1>1, <2>2, DescriptorAssumption DEF IsDirectory
<1> QED
  BY <1>2, <1>3, <1>4, <1>5, <1>6 DEF Next, Environment, EditSource, LoseManifest, StartRun,
     RunStep, HashApp, LookUpHit, LookUpMiss, HealEntry, RestoreBlob, BuildApp, BuildFails,
     WriteDescriptor, SaveManifest, FinishRun, vars

LEMMA AnyBlob ==
  /\ (\A f \in DOMAIN blobs : OwnBlob(f)) => \A f : OwnBlob(f)
  /\ (\A f \in DOMAIN blobs : BuildBlob(f)) => \A f : BuildBlob(f)
  BY DescriptorAssumption DEF OwnBlob, BuildBlob, Blob, NoFiles

(* In a run past its hashing.                                                  *)
LEMMA OwnHash ==
  ASSUME Shape, RunShape, Position, Hashed, Hashable, run.todo # <<>>,
         run.pc \notin {"none", "hashing"}
  PROVE  Fingerprint.own = [source |-> Source[App], version |-> version[Source[App]]]
<1>1. App \in DOMAIN run.effective /\ Fingerprint = run.effective[App]
  BY FingerprintType DEF Fingerprint
<1> QED BY <1>1 DEF Hashed, Running, OwnFingerprint, Hashable

LEMMA StepBlobsOfOwnSource ==
  ASSUME Shape, RunShape, Position, Position', Hashed, BlobsOfOwnSource, [Next]_vars
  PROVE  BlobsOfOwnSource'
<1> SUFFICES ASSUME Hashable
             PROVE  /\ \A f : OwnBlob(f)'
                    /\ run'.pc \in {"describing", "savingFiles", "savingBlob", "savingManifest"} =>
                         FreshIn(run.artifact, App)'
                    /\ OwnSourceFresh'
  BY DEF BlobsOfOwnSource
<1>1. /\ \A f : OwnBlob(f)
      /\ run.pc \in {"describing", "savingFiles", "savingBlob", "savingManifest"} =>
           FreshIn(run.artifact, App)
      /\ OwnSourceFresh
  BY AnyBlob DEF BlobsOfOwnSource
<1>2. run.pc \in InApp => App \in Apps /\ run.todo # <<>> /\ run.pc \notin {"none", "hashing"}
  BY AppInApps DEF Position, InApp
<1>3. ASSUME NEW f PROVE OwnBlob(f)'
  <2>1. CASE Blob(f)'.descriptor \notin Outputs
    BY <2>1 DEF OwnBlob
  <2>2. CASE Blob(f)'.descriptor = Blob(f).descriptor
    BY <1>1, <2>2 DEF OwnBlob
  <2>3. CASE SaveBlob /\ f = Fingerprint /\ Blob(f)'.descriptor = run.artifact
    <3>1. run.pc = "savingBlob"
      BY <2>3 DEF SaveBlob
    <3>2. FreshIn(run.artifact, App) /\ App \in Apps
      BY <1>1, <1>2, <3>1 DEF InApp
    <3>3. f.own = [source |-> Source[App], version |-> version[Source[App]]]
      BY <1>2, <2>3, <3>1, OwnHash DEF InApp
    <3> QED BY <2>3, <3>2, <3>3 DEF OwnBlob, FreshIn
  <2> QED BY <2>1, <2>2, <2>3, DescriptorEffect
<1>4. CASE run'.pc = "none" \/ run'.pc = "hashing"
  BY <1>3, <1>4 DEF Position, OwnSourceFresh
<1>5. CASE UNCHANGED vars
  BY <1>1, <1>3, <1>5 DEF vars, OwnSourceFresh, FreshIn, App, Results
<1>6. CASE RunStep /\ UNCHANGED version /\ WithinApp
  <2>1. App' = App /\ run'.results = run.results /\ Results' = Results
    BY <1>6 DEF WithinApp, AppKept, App, Results
  <2>2. OwnSourceFresh'
    BY <1>1, <1>6, <2>1 DEF OwnSourceFresh
  <2>3. CASE RestoreBlob
    <3>1. /\ run.pc = "restoring" /\ run'.artifact = Blob(Fingerprint).descriptor
      BY <2>3, RestoreEffect DEF RunShape
    <3>2. Blob(Fingerprint).descriptor \in Outputs
      BY <2>3, BlobShape DEF RestoreBlob, IsDirectory
    <3>3. Fingerprint.own = [source |-> Source[App], version |-> version[Source[App]]]
      BY <1>2, <3>1, OwnHash DEF InApp
    <3>4. PICK d : d = run'.artifact
      OBVIOUS
    <3>5. /\ d.app \in Apps
          /\ [source |-> Source[App], version |-> version[Source[App]]]
               = [source |-> Source[d.app], version |-> d.saw[Source[d.app]]]
      BY <1>1, <3>1, <3>2, <3>3, <3>4 DEF OwnBlob
    <3>6. d.app = App /\ d.saw[Source[App]] = version[Source[App]]
      BY <1>2, <3>1, <3>5 DEF InApp, Hashable, SourcesDiffer
    <3> QED BY <1>3, <1>6, <2>1, <2>2, <3>4, <3>6 DEF FreshIn
  <2>4. CASE BuildApp
    <3>1. run.pc = "building" /\ run'.artifact = Output(App, version)
      BY <2>4, BuildEffect DEF RunShape
    <3>2. FreshIn(run'.artifact, App)
      BY <1>2, <3>1, OutputType DEF FreshIn, InApp, Shape
    <3> QED BY <1>3, <1>6, <2>1, <2>2, <3>2 DEF FreshIn
  <2>5. CASE WriteDescriptor \/ SaveFiles \/ SaveBlob
    <3>1. /\ run.pc \in {"describing", "savingFiles", "savingBlob"}
          /\ run'.artifact = run.artifact
      BY <2>5, DescribeEffect, SaveFilesEffect, SaveBlobEffect DEF RunShape, AppDone
    <3> QED BY <1>1, <1>3, <1>6, <2>1, <2>2, <3>1 DEF FreshIn
  <2>6. CASE LookUpHit \/ LookUpMiss \/ HealEntry
    <3>1. run'.pc \in {"restoring", "building"}
      BY <2>6, LookUpHitEffect, LookUpMissEffect, HealEffect DEF RunShape
    <3> QED BY <1>3, <2>2, <3>1
  <2>7. ~HashApp /\ ~SaveManifest /\ ~BuildFails /\ ~FinishRun
    BY <1>6, SaveManifestEffect, NoRunFields
    DEF WithinApp, HashApp, BuildFails, FinishRun, InApp, AppDone, RunShape
  <2> QED BY <1>6, <2>3, <2>4, <2>5, <2>6, <2>7 DEF RunStep
<1>7. CASE RunStep /\ UNCHANGED version /\ OnToNext
  <2>1. run'.pc = "lookup"
    BY <1>7 DEF OnToNext, AppDone
  <2>2. FreshIn(run.artifact, App)
    BY <1>1, <1>7 DEF OnToNext
  <2>3. /\ Results' = Results \cup {App}
        /\ \A a \in Results : run'.results[a] = run.results[a]
        /\ run'.results[App].artifact = run.artifact
    BY <1>7, NextAppPosition
  <2>4. OwnSourceFresh'
    BY <1>1, <1>7, <2>2, <2>3 DEF OwnSourceFresh, FreshIn
  <2> QED BY <1>3, <2>1, <2>4
<1>8. CASE EditSource
  <2>1. run'.pc = "none"
    BY <1>8, EditEffect DEF Hashable, Running, RunShape
  <2> QED BY <1>4, <2>1
<1>9. CASE HashApp
  <2>1. run'.results = run.results /\ run.pc = "hashing" /\ run'.pc \in {"hashing", "lookup"}
    BY <1>9, HashEffect DEF RunShape
  <2>2. Results' = {}
    BY <2>1 DEF Position, Results
  <2> QED BY <1>3, <2>1, <2>2 DEF OwnSourceFresh
<1> QED
  BY <1>4, <1>5, <1>6, <1>7, <1>8, <1>9, StepCases, StartEffect, NoRunFields
  DEF PurgeBlob, LoseManifest, Running
-----------------------------------------------------------------------------
(* A fingerprint determines what is built: two projects in which an app has    *)
(* the same fingerprint have the same sources below it.                        *)

LEMMA FingerprintParts ==
  ASSUME NEW E, NEW v, Fingerprints(E, v), NEW a \in Apps
  PROVE  /\ E[a].own = [source |-> Source[a], version |-> v[Source[a]]]
         /\ E[a].deps = {E[d] : d \in DependsOn[a]}
<1>1. \A own, deps : /\ EffectiveFingerprint(own, deps).own = own
                     /\ EffectiveFingerprint(own, deps).deps = deps
  BY DEF EffectiveFingerprint
<1>2. E[a] = EffectiveFingerprint([source |-> Source[a], version |-> v[Source[a]]],
                                  {E[d] : d \in DependsOn[a]})
  BY DEF Fingerprints
<1> QED BY ONLY <1>1, <1>2

LEMMA SameFingerprints ==
  ASSUME SourcesDiffer, NEW E, NEW F, NEW v, NEW w, Fingerprints(E, v), Fingerprints(F, w),
         NEW a \in Apps, NEW b \in Apps, E[a] = F[b]
  PROVE  a = b /\ v[Source[a]] = w[Source[a]] /\ \A d \in DependsOn[a] : E[d] = F[d]
<1>1. \A x, y \in Apps : E[x] = F[y] => x = y /\ v[Source[x]] = w[Source[x]]
  <2> SUFFICES ASSUME NEW x \in Apps, NEW y \in Apps, E[x] = F[y]
               PROVE  x = y /\ v[Source[x]] = w[Source[x]]
    OBVIOUS
  <2>1. E[x].own = [source |-> Source[x], version |-> v[Source[x]]]
    BY FingerprintParts
  <2>2. F[y].own = [source |-> Source[y], version |-> w[Source[y]]]
    BY FingerprintParts
  <2>3. Source[x] = Source[y] /\ v[Source[x]] = w[Source[y]]
    BY <2>1, <2>2
  <2> QED BY <2>3 DEF SourcesDiffer
<1>2. {E[d] : d \in DependsOn[a]} = {F[d] : d \in DependsOn[a]}
  <2>1. E[a].deps = {E[d] : d \in DependsOn[a]}
    BY FingerprintParts
  <2>2. F[b].deps = {F[d] : d \in DependsOn[b]}
    BY FingerprintParts
  <2> QED BY <1>1, <2>1, <2>2
<1>3. ASSUME NEW d \in DependsOn[a]
      PROVE  E[d] = F[d]
  <2>1. PICK e \in DependsOn[a] : E[d] = F[e]
    BY <1>2
  <2>2. d \in Apps /\ e \in Apps
    BY CacheAssumption
  <2> QED BY <1>1, <2>1, <2>2
<1> QED BY <1>1, <1>3

LEMMA SameOutput ==
  ASSUME SourcesDiffer, NEW E, NEW F, NEW v, NEW w, Fingerprints(E, v), Fingerprints(F, w),
         NEW a \in Apps, E[a] = F[a]
  PROVE  Output(a, v) = Output(a, w)
<1> DEFINE S == {x \in Apps : E[x] = F[x]}
<1>1. ASSUME NEW x \in S PROVE DependsOn[x] \subseteq S
  <2>1. DependsOn[x] \subseteq Apps
    BY CacheAssumption
  <2>2. \A d \in DependsOn[x] : E[d] = F[d]
    BY SameFingerprints
  <2> QED BY <2>1, <2>2
<1>2. S \in SUBSET Apps /\ a \in S
  OBVIOUS
<1>3. Closure(a) \subseteq S
  BY <1>1, <1>2 DEF Closure
<1>4. \A b \in Closure(a) : v[Source[b]] = w[Source[b]]
  BY <1>3, SameFingerprints
<1>5. \A s \in SourcesOf(a) : v[s] = w[s]
  BY <1>4 DEF SourcesOf
<1> QED BY <1>5 DEF Output

(* In a run over all apps past its hashing, the fingerprints are those of the  *)
(* sources as they are.                                                        *)
LEMMA RunFingerprints ==
  ASSUME Shape, RunShape, Position, Hashed, Hashable, run.target = AllApps,
         run.pc \notin {"none", "hashing"}
  PROVE  Fingerprints(run.effective, version)
<1>1. Apps = DOMAIN run.effective
  BY DEF Position, RunShape
<1> SUFFICES ASSUME NEW a \in Apps
             PROVE  run.effective[a] = EffectiveFingerprint(
                      [source |-> Source[a], version |-> version[Source[a]]],
                      {run.effective[d] : d \in DependsOn[a]})
  BY DEF Fingerprints
<1>2. run.effective[a] = EffectiveFingerprint(run.effective[a].own, run.effective[a].deps)
  BY <1>1 DEF RunShape, IsFingerprintOf
<1>3. /\ run.effective[a].own = OwnFingerprint(a)
      /\ run.effective[a].deps = {run.effective[d] : d \in DependsOn[a]}
  BY <1>1 DEF Hashed, Hashable, Running
<1> QED BY <1>2, <1>3 DEF OwnFingerprint, Hashable

LEMMA BuildOfNow ==
  ASSUME Shape, RunShape, Position, Hashed, Hashable, run.target = AllApps,
         run.pc \notin {"none", "hashing"}, run.todo # <<>>
  PROVE  /\ IsBuildOf(Fingerprint, Output(App, version))
         /\ \A output : IsBuildOf(Fingerprint, output) => output = Output(App, version)
<1>1. Fingerprints(run.effective, version)
  BY RunFingerprints
<1>2. App \in Apps /\ version \in [Sources -> Versions] /\ Fingerprint = run.effective[App]
  BY FingerprintType DEF Shape, Fingerprint
<1>3. IsBuildOf(Fingerprint, Output(App, version))
  BY <1>1, <1>2 DEF IsBuildOf
<1>4. ASSUME NEW output, IsBuildOf(Fingerprint, output)
      PROVE  output = Output(App, version)
  <2>1. PICK a \in Apps, sources \in [Sources -> Versions] :
          /\ output = Output(a, sources)
          /\ \E E : Fingerprints(E, sources) /\ E[a] = Fingerprint
    BY <1>4 DEF IsBuildOf
  <2>2. PICK E : Fingerprints(E, sources) /\ E[a] = Fingerprint
    BY <2>1
  <2>3. a = App
    BY <1>1, <1>2, <2>2, SameFingerprints DEF Hashable
  <2>4. Output(a, sources) = Output(App, version)
    BY <1>1, <1>2, <2>2, <2>3, SameOutput DEF Hashable
  <2> QED BY <2>1, <2>4
<1> QED BY <1>3, <1>4
-----------------------------------------------------------------------------
(* What the manifest names is whole. *)

(* Where the entries after a step come from.                                   *)
LEMMA EntryOrigin ==
  ASSUME Shape, RunShape, Position, [Next]_vars, NEW a \in Apps, NEW f,
         f = manifest'[a] \/ (Running' /\ f = run'.current[a])
  PROVE  \/ f = NoEntry
         \/ f = manifest[a]
         \/ Running /\ f = run.current[a]
         \/ SaveManifest /\ f = Fingerprint
<1>1. \A g : [run.current EXCEPT ![App] = g][a] \in {run.current[a], g}
  BY DEF RunShape, IsEntries
<1>2. EmptyManifest[a] = NoEntry
  BY DEF EmptyManifest
<1>3. CASE EditSource \/ PurgeBlob \/ UNCHANGED vars
  BY <1>3, EditEffect DEF PurgeBlob, vars, RunShape, Running
<1>4. CASE LoseManifest
  BY <1>2, <1>4 DEF LoseManifest, Running
<1>5. CASE StartRun
  BY <1>2, <1>5, StartEffect
<1>6. CASE HashApp \/ LookUpHit \/ LookUpMiss \/ RestoreBlob \/ BuildApp \/ WriteDescriptor
             \/ SaveFiles \/ SaveBlob
  BY <1>6, HashEffect, LookUpHitEffect, LookUpMissEffect, RestoreEffect, BuildEffect,
     DescribeEffect, SaveFilesEffect, SaveBlobEffect DEF RunShape, AppDone, Running
<1>7. CASE HealEntry
  <2>1. /\ run'.current = [run.current EXCEPT ![App] = NoEntry] /\ Running
        /\ manifest' = run'.current \/ UNCHANGED manifest
    BY <1>7, HealEffect DEF RunShape, Running
  <2> QED BY <1>1, <2>1
<1>8. CASE SaveManifest
  <2>1. /\ run'.current = [run.current EXCEPT ![App] = Fingerprint] /\ Running
        /\ manifest' = run'.current \/ UNCHANGED manifest
    BY <1>8, SaveManifestEffect DEF RunShape, Running, AppDone
  <2> QED BY <1>1, <1>8, <2>1
<1>9. CASE BuildFails \/ FinishRun \/ Crash
  BY <1>9, NoRunFields DEF BuildFails, FinishRun, Crash, Running
<1> QED
  BY <1>3, <1>4, <1>5, <1>6, <1>7, <1>8, <1>9 DEF Next, Environment, RunStep

(* What a step does to a blob, when builds replace files and copies are whole. *)
LEMMA WholeBlobEffect ==
  ASSUME Shape, RunShape, Position, Replacing, [Next]_vars, NEW f
  PROVE  \/ Blob(f)' = Blob(f)
         \/ Blob(f)'.descriptor \notin Outputs
         \/ f = Fingerprint /\ \/ /\ SaveFiles
                                  /\ Blob(f)'.descriptor = Blob(f).descriptor
                                  /\ Blob(f)'.files = store[App].files
                               \/ /\ SaveBlob
                                  /\ Blob(f)'.descriptor \in {Blob(f).descriptor, run.artifact}
                                  /\ Blob(f)'.files = Blob(f).files
                                  /\ Blob(f)' = Blob(f) \/ Blob(f)'.descriptor = run.artifact
                               \/ /\ Crash /\ run.pc = "savingFiles"
                                  /\ Blob(f)'.descriptor = Blob(f).descriptor
<1>1. IsDirectory(Blob(f)) /\ Torn \notin Outputs
  BY BlobShape, DescriptorAssumption
<1>2. CASE UNCHANGED blobs
  BY <1>2, BlobSame
<1>3. CASE PurgeBlob
  <2>1. PICK g \in DOMAIN blobs : blobs' = [h \in DOMAIN blobs \ {g} |-> blobs[h]]
    BY <1>3 DEF PurgeBlob
  <2>2. Blob(f)' = NoFiles \/ Blob(f)' = Blob(f)
    BY <2>1 DEF Blob
  <2> QED BY <2>2, DescriptorAssumption DEF NoFiles
<1>4. CASE SaveFiles
  <2>1. WriteBlob(Fingerprint, [Blob(Fingerprint) EXCEPT !.files = store[App].files])
    BY <1>4 DEF SaveFiles, Overlay, Replacing
  <2>2. f # Fingerprint => Blob(f)' = Blob(f)
    BY <2>1 DEF WriteBlob, Blob
  <2>3. f = Fingerprint => Blob(f)' = [Blob(f) EXCEPT !.files = store[App].files]
    BY <2>1 DEF WriteBlob, Blob
  <2>4. /\ [Blob(f) EXCEPT !.files = store[App].files].descriptor = Blob(f).descriptor
        /\ [Blob(f) EXCEPT !.files = store[App].files].files = store[App].files
    BY <1>1 DEF IsDirectory
  <2> QED BY <1>4, <2>2, <2>3, <2>4
<1>5. CASE SaveBlob /\ WriteBlob(Fingerprint, [Blob(Fingerprint) EXCEPT !.descriptor = run.artifact])
  <2>1. f # Fingerprint => Blob(f)' = Blob(f)
    BY <1>5 DEF WriteBlob, Blob
  <2>2. f = Fingerprint => Blob(f)' = [Blob(f) EXCEPT !.descriptor = run.artifact]
    BY <1>5 DEF WriteBlob, Blob
  <2>3. /\ [Blob(f) EXCEPT !.descriptor = run.artifact].descriptor = run.artifact
        /\ [Blob(f) EXCEPT !.descriptor = run.artifact].files = Blob(f).files
    BY <1>1 DEF IsDirectory
  <2> QED BY <1>5, <2>1, <2>2, <2>3
<1>6. CASE Crash /\ run.pc = "savingFiles"
  <2>1. UNCHANGED blobs \/ \E x : WriteBlob(Fingerprint, [Blob(Fingerprint) EXCEPT !.files = x])
    BY <1>6 DEF Crash
  <2>2. PICK x : \/ Blob(f)' = Blob(f)
                 \/ f = Fingerprint /\ Blob(f)' = [Blob(f) EXCEPT !.files = x]
    BY <2>1 DEF WriteBlob, Blob
  <2>3. [Blob(f) EXCEPT !.files = x].descriptor = Blob(f).descriptor
    BY <1>1 DEF IsDirectory
  <2> QED BY <1>6, <2>2, <2>3
<1>7. CASE Crash /\ run.pc = "savingBlob"
  <2>1. UNCHANGED blobs \/ WriteBlob(Fingerprint, [Blob(Fingerprint) EXCEPT !.descriptor = Torn])
    BY <1>7 DEF Crash
  <2>2. Blob(f)' = Blob(f) \/ Blob(f)' = [Blob(f) EXCEPT !.descriptor = Torn]
    BY <2>1 DEF WriteBlob, Blob
  <2> QED BY <1>1, <2>2 DEF IsDirectory
<1>8. Crash /\ run.pc \notin {"savingFiles", "savingBlob"} => UNCHANGED blobs
  BY DEF Crash
<1> QED
  BY <1>2, <1>3, <1>4, <1>5, <1>6, <1>7, <1>8 DEF Next, Environment, EditSource, LoseManifest, StartRun,
     RunStep, HashApp, LookUpHit, LookUpMiss, HealEntry, RestoreBlob, BuildApp, BuildFails,
     WriteDescriptor, SaveBlob, SaveManifest, FinishRun, vars

(* The files that RestoreBlob and BuildApp leave.                              *)
LEMMA StoreFiles ==
  ASSUME Shape, Replacing, App \in Apps
  PROVE  /\ RestoreBlob => store'[App].files = Blob(Fingerprint).files
         /\ BuildApp => store'[App].files = {Output(App, version)}
<1>1. \A x : [store EXCEPT ![App] = [store[App] EXCEPT !.files = x]][App].files = x
  BY DEF Shape, IsDirectory
<1>2. ASSUME RestoreBlob
      PROVE  store'[App].files = Blob(Fingerprint).files
  BY <1>1, <1>2 DEF RestoreBlob, Overlay, Replacing
<1>3. ASSUME BuildApp
      PROVE  store'[App].files = {Output(App, version)}
  BY <1>1, <1>3 DEF BuildApp, Overlay, Replacing
<1> QED BY <1>2, <1>3
LEMMA NoEntryBlob ==
  ASSUME \A f : BuildBlob(f)
  PROVE  WholeBlob(NoEntry)
<1> SUFFICES ASSUME Blob(NoEntry).descriptor \in Outputs PROVE FALSE
  BY DEF WholeBlob
<1>1. PICK a \in Apps, sources \in [Sources -> Versions] :
        \E E : Fingerprints(E, sources) /\ E[a] = NoEntry
  BY DEF BuildBlob, IsBuildOf
<1>2. PICK E : Fingerprints(E, sources) /\ E[a] = NoEntry
  BY <1>1
<1>3. E[a] = EffectiveFingerprint([source |-> Source[a], version |-> sources[Source[a]]],
                                  {E[d] : d \in DependsOn[a]})
  BY <1>2 DEF Fingerprints
<1>4. \A own, deps : EffectiveFingerprint(own, deps) # NoEntry
  BY FingerprintIsEntry
<1> QED BY ONLY <1>2, <1>3, <1>4

(* The parts of BuildsOfAllSources and FilesOfBuilds, as they hold before a    *)
(* step.                                                                       *)
PlainBuilds ==
  /\ Hashable /\ history.plain
  /\ Running => run.target = AllApps /\ ~run.noCache
  /\ \A f : BuildBlob(f)
  /\ ArtifactBuilt

Plain ==
  /\ PlainBuilds /\ Replacing
  /\ \A a \in Apps : WholeBlob(manifest[a]) /\ (Running => WholeBlob(run.current[a]))
  /\ AppBuilt

LEMMA StepBuildBlob ==
  ASSUME Shape, RunShape, Position, Hashed, PlainBuilds, [Next]_vars, NEW f
  PROVE  BuildBlob(f)'
<1>1. CASE Blob(f)'.descriptor \notin Outputs
  BY <1>1 DEF BuildBlob
<1>2. CASE Blob(f)'.descriptor = Blob(f).descriptor
  BY <1>2 DEF PlainBuilds, BuildBlob, IsBuildOf, Fingerprints
<1>3. CASE SaveBlob /\ f = Fingerprint /\ Blob(f)'.descriptor = run.artifact
  <2>1. run.pc = "savingBlob" /\ run.todo # <<>>
    BY <1>3 DEF SaveBlob, Position, InApp
  <2>2. run.artifact = Output(App, version) /\ run.target = AllApps /\ Hashable
    BY <2>1 DEF PlainBuilds, ArtifactBuilt, Running
  <2>3. IsBuildOf(f, run.artifact)
    BY <1>3, <2>1, <2>2, BuildOfNow
  <2> QED BY <1>3, <2>3 DEF BuildBlob, IsBuildOf, Fingerprints
<1> QED BY <1>1, <1>2, <1>3, DescriptorEffect

(* A blob under the fingerprint of an app that is done holds what was built.   *)
LEMMA BlobOfNow ==
  ASSUME Shape, RunShape, Position, Hashed, PlainBuilds, run.todo # <<>>,
         run.pc \notin {"none", "hashing"}, Blob(Fingerprint).descriptor \in Outputs
  PROVE  Blob(Fingerprint).descriptor = Output(App, version)
BY BuildOfNow DEF PlainBuilds, BuildBlob, Running

LEMMA StepWholeBlob ==
  ASSUME Shape, RunShape, Position, Hashed, Plain, [Next]_vars, NEW f, WholeBlob(f),
         Crash /\ run.pc = "savingFiles" /\ f = Fingerprint => Blob(f).descriptor \notin Outputs
  PROVE  WholeBlob(f)'
<1>1. CASE Blob(f)' = Blob(f)
  BY <1>1 DEF WholeBlob
<1>2. CASE Blob(f)'.descriptor \notin Outputs
  BY <1>2 DEF WholeBlob
<1>3. CASE /\ f = Fingerprint /\ SaveFiles /\ Blob(f)'.descriptor = Blob(f).descriptor
           /\ Blob(f)'.files = store[App].files
  <2>1. run.pc = "savingFiles" /\ run.todo # <<>>
    BY <1>3 DEF SaveFiles, Position, InApp
  <2>2. run.artifact = Output(App, version) /\ store[App].files = {run.artifact}
    BY <2>1 DEF Plain, PlainBuilds, ArtifactBuilt, AppBuilt
  <2>3. Blob(f).descriptor \in Outputs => Blob(f).descriptor = Output(App, version)
    BY <1>3, <2>1, BlobOfNow DEF Plain
  <2> QED BY <1>3, <2>2, <2>3 DEF WholeBlob
<1>4. CASE /\ f = Fingerprint /\ SaveBlob /\ Blob(f)'.files = Blob(f).files
           /\ Blob(f)'.descriptor = run.artifact
  <2>1. run.pc = "savingBlob"
    BY <1>4 DEF SaveBlob
  <2>2. Blob(f).files = {run.artifact}
    BY <1>4, <2>1 DEF Plain, PlainBuilds, ArtifactBuilt, AppBuilt
  <2> QED BY <1>4, <2>2 DEF WholeBlob
<1>5. CASE Crash /\ run.pc = "savingFiles" /\ f = Fingerprint /\ Blob(f)'.descriptor = Blob(f).descriptor
  BY <1>5 DEF WholeBlob
<1> QED
  BY <1>1, <1>2, <1>3, <1>4, <1>5, WholeBlobEffect DEF Plain

LEMMA StepEntriesWhole ==
  ASSUME Shape, RunShape, Position, Hashed, Plain, [Next]_vars, NEW a \in Apps
  PROVE  (WholeBlob(manifest[a]) /\ (Running => WholeBlob(run.current[a])))'
<1> SUFFICES ASSUME NEW f, f = manifest'[a] \/ (Running' /\ f = run'.current[a])
             PROVE  WholeBlob(f)'
  BY DEF WholeBlob, Blob
<1>1. WholeBlob(f)
  <2>1. CASE f = NoEntry
    BY <2>1, NoEntryBlob DEF Plain, PlainBuilds
  <2>2. CASE f = manifest[a] \/ (Running /\ f = run.current[a])
    BY <2>2 DEF Plain
  <2>3. CASE SaveManifest /\ f = Fingerprint
    <3>1. run.pc = "savingManifest" /\ run.todo # <<>>
      BY <2>3 DEF SaveManifest, Position, InApp
    <3>2. Blob(f).files = {run.artifact} /\ run.artifact = Output(App, version)
      BY <2>3, <3>1 DEF Plain, PlainBuilds, ArtifactBuilt, AppBuilt
    <3>3. Blob(f).descriptor \in Outputs => Blob(f).descriptor = Output(App, version)
      BY <2>3, <3>1, BlobOfNow DEF Plain
    <3> QED BY <3>2, <3>3 DEF WholeBlob
  <2> QED BY <2>1, <2>2, <2>3, EntryOrigin
<1>2. ASSUME Crash, run.pc = "savingFiles", f = Fingerprint
      PROVE  Blob(f).descriptor \notin Outputs
  <2>1. f = manifest[a] /\ run.todo # <<>>
    BY <1>2, NoRunFields DEF Crash, Running, Position, InApp
  <2>2. App \in Apps /\ IsFingerprintOf(f, App) /\ f # NoEntry
    BY <1>2, <2>1, FingerprintType, FingerprintIsEntry DEF IsFingerprintOf
  <2>3. IsFingerprintOf(f, a)
    BY <2>1, <2>2 DEF Shape, IsEntries
  <2>4. a = App
    BY <2>2, <2>3, FingerprintsDiffer DEF Plain, Replacing, Hashable
  <2> QED BY <1>2, <2>1, <2>4, DescriptorAssumption DEF Plain, PlainBuilds, ArtifactBuilt, AppBuilt, Missed
<1> QED BY <1>1, <1>2, StepWholeBlob

LEMMA StepArtifactBuilt ==
  ASSUME Shape, RunShape, Position, Hashed, PlainBuilds, RunStep, WithinApp
  PROVE  ArtifactBuilt'
<1>1. /\ App' = App /\ run.todo # <<>>
      /\ run.pc \notin {"none", "hashing"} /\ App \in Apps
  BY FingerprintType DEF WithinApp, AppKept, App
<1>2. CASE run'.pc \in {"restoring", "building"}
  BY <1>2 DEF ArtifactBuilt
<1>3. CASE RestoreBlob
  <2>1. UNCHANGED version /\ run'.artifact = Blob(Fingerprint).descriptor
    BY <1>3, RestoreEffect DEF RunShape
  <2>2. Blob(Fingerprint).descriptor \in Outputs
    BY <1>3, BlobShape DEF RestoreBlob, IsDirectory
  <2>3. run'.artifact = Output(App, version)
    BY <1>1, <2>1, <2>2, BlobOfNow
  <2>4. Output(App, version)' = Output(App, version)
    BY <1>1, <2>1 DEF Output
  <2> QED BY <2>3, <2>4 DEF ArtifactBuilt
<1>4. CASE BuildApp
  <2>1. UNCHANGED version /\ run'.artifact = Output(App, version)
    BY <1>4, BuildEffect DEF RunShape
  <2>2. Output(App, version)' = Output(App, version)
    BY <1>1, <2>1 DEF Output
  <2> QED BY <2>1, <2>2 DEF ArtifactBuilt
<1>5. CASE WriteDescriptor \/ SaveFiles \/ SaveBlob
  <2>1. /\ run.pc \in {"describing", "savingFiles", "savingBlob"}
        /\ run'.artifact = run.artifact /\ UNCHANGED version
    BY <1>5, DescribeEffect, SaveFilesEffect, SaveBlobEffect DEF RunShape, WithinApp, AppDone, InApp
  <2>2. Output(App, version)' = Output(App, version)
    BY <1>1, <2>1 DEF Output
  <2>3. run.artifact = Output(App, version)
    BY <2>1 DEF PlainBuilds, ArtifactBuilt
  <2> QED BY <2>1, <2>2, <2>3 DEF ArtifactBuilt
<1>6. CASE LookUpHit \/ LookUpMiss \/ HealEntry
  BY <1>2, <1>6, LookUpHitEffect, LookUpMissEffect, HealEffect DEF RunShape
<1>7. ~HashApp /\ ~SaveManifest /\ ~BuildFails /\ ~FinishRun
  BY SaveManifestEffect, NoRunFields
  DEF WithinApp, HashApp, BuildFails, FinishRun, InApp, AppDone, RunShape
<1> QED
  BY <1>3, <1>4, <1>5, <1>6, <1>7 DEF RunStep

LEMMA StepAppBuilt ==
  ASSUME Shape, RunShape, Position, Hashed, EntriesLoaded, Plain, RunStep, WithinApp
  PROVE  AppBuilt'
<1>1. /\ App' = App /\ Fingerprint' = Fingerprint /\ run.todo # <<>> /\ Running
      /\ run.pc \notin {"none", "hashing"} /\ App \in Apps /\ App \notin Results
  BY FingerprintType DEF WithinApp, AppKept, App, Fingerprint, Running
<1>2. run.target = AllApps /\ ~run.noCache
  BY <1>1 DEF Plain, PlainBuilds
<1>3. ~Missed => manifest[App] = run.current[App]
  BY <1>1, <1>2 DEF EntriesLoaded
<1>4. UNCHANGED blobs => Blob(Fingerprint)' = Blob(Fingerprint)
  BY <1>1 DEF Blob
<1>5. CASE LookUpHit
  <2>1. run'.pc = "restoring" /\ run'.current = run.current
    BY <1>5, LookUpHitEffect DEF RunShape
  <2>2. run.current[App] = Fingerprint
    BY <1>5 DEF LookUpHit
  <2> QED BY <1>1, <2>1, <2>2 DEF AppBuilt, Missed
<1>6. CASE LookUpMiss
  <2>1. run'.pc = "building" /\ UNCHANGED <<manifest, blobs>> /\ run.pc = "lookup"
    BY <1>6, LookUpMissEffect DEF RunShape
  <2>2. manifest[App] # Fingerprint
    BY <1>2, <1>3, <1>6, <2>1 DEF LookUpMiss, Missed
  <2> QED BY <1>1, <2>1, <2>2 DEF AppBuilt
<1>7. CASE HealEntry
  <2>1. run'.pc = "building" /\ UNCHANGED blobs
    BY <1>7, HealEffect DEF RunShape
  <2>2. Blob(Fingerprint).descriptor \in {Absent, Torn}
    BY <1>7 DEF HealEntry
  <2> QED BY <1>1, <1>4, <2>1, <2>2 DEF AppBuilt
<1>8. CASE RestoreBlob
  <2>1. /\ run.pc = "restoring" /\ run'.pc = "describing" /\ run'.hit = TRUE /\ UNCHANGED version
        /\ run'.artifact = Blob(Fingerprint).descriptor
    BY <1>8, RestoreEffect DEF RunShape
  <2>2. Blob(Fingerprint).descriptor \in Outputs
    BY <1>8, BlobShape DEF RestoreBlob, IsDirectory
  <2>3. run'.artifact = Output(App, version)
    BY <1>1, <2>1, <2>2, BlobOfNow DEF Plain
  <2>4. WholeBlob(Fingerprint)
    BY <1>1, <2>1 DEF Plain, PlainBuilds, ArtifactBuilt, AppBuilt
  <2>5. store'[App].files = {run'.artifact}
    BY <1>1, <1>8, <2>1, <2>2, <2>4, StoreFiles DEF WholeBlob, Plain
  <2>6. Output(App, version)' = Output(App, version)
    BY <1>1, <2>1 DEF Output
  <2> QED BY <1>1, <2>1, <2>3, <2>5, <2>6 DEF AppBuilt, Missed
<1>9. CASE BuildApp
  <2>1. /\ run.pc = "building" /\ run'.pc = "describing" /\ UNCHANGED <<version, manifest, blobs>>
        /\ run'.artifact = Output(App, version)
    BY <1>9, BuildEffect DEF RunShape
  <2>2. store'[App].files = {run'.artifact}
    BY <1>1, <1>9, <2>1, StoreFiles DEF Plain
  <2>3. Output(App, version)' = Output(App, version)
    BY <1>1, <2>1 DEF Output
  <2>4. manifest[App] = Fingerprint => Blob(Fingerprint).descriptor \in {Absent, Torn}
    BY <2>1 DEF Plain, PlainBuilds, ArtifactBuilt, AppBuilt, Missed
  <2> QED BY <1>1, <1>4, <2>1, <2>2, <2>3, <2>4 DEF AppBuilt
<1>10. CASE WriteDescriptor
  <2>1. /\ run.pc = "describing" /\ ~run.hit /\ run'.pc = "savingFiles"
        /\ run'.artifact = run.artifact /\ UNCHANGED <<version, manifest, blobs>>
    BY <1>10, DescribeEffect DEF RunShape, WithinApp, AppDone, InApp
  <2>2. store'[App].files = store[App].files
    BY <1>10, StoreEffect
  <2>3. Output(App, version)' = Output(App, version)
    BY <1>1, <2>1 DEF Output
  <2>4. /\ manifest[App] = Fingerprint => Blob(Fingerprint).descriptor \in {Absent, Torn}
        /\ run.artifact = Output(App, version) /\ store[App].files = {run.artifact}
    BY <2>1 DEF Plain, PlainBuilds, ArtifactBuilt, AppBuilt, Missed
  <2> QED BY <1>1, <1>4, <2>1, <2>2, <2>3, <2>4 DEF AppBuilt
<1>11. CASE SaveFiles \/ SaveBlob
  <2>1. /\ run.pc \in {"savingFiles", "savingBlob"} /\ run'.pc \in {"savingBlob", "savingManifest"}
        /\ run'.artifact = run.artifact /\ UNCHANGED <<version, store>>
    BY <1>11, SaveFilesEffect, SaveBlobEffect DEF RunShape
  <2>2. Output(App, version)' = Output(App, version)
    BY <1>1, <2>1 DEF Output
  <2>3. run.artifact = Output(App, version) /\ store[App].files = {run.artifact}
    BY <2>1 DEF Plain, PlainBuilds, ArtifactBuilt, AppBuilt
  <2>4. PICK f : f = Fingerprint
    OBVIOUS
  <2>5. Blob(f)'.files = {run.artifact}
    <3>1. CASE SaveFiles
      <4>1. WriteBlob(f, [Blob(f) EXCEPT !.files = store[App].files])
        BY <2>4, <3>1 DEF SaveFiles, Overlay, Plain, Replacing
      <4>2. Blob(f)' = [Blob(f) EXCEPT !.files = store[App].files]
        BY <4>1 DEF WriteBlob, Blob
      <4> QED BY <2>3, <4>2, BlobShape DEF IsDirectory
    <3>2. CASE SaveBlob
      <4>1. Blob(f)'.files = Blob(f).files
        BY <3>2, BlobEffect
      <4> QED BY <2>4, <3>2, <4>1 DEF Plain, PlainBuilds, ArtifactBuilt, AppBuilt, SaveBlob
    <3> QED BY <1>11, <3>1, <3>2
  <2>6. Blob(Fingerprint)'.files = {run.artifact}
    BY <1>1, <2>4, <2>5
  <2> QED BY <1>1, <2>1, <2>2, <2>3, <2>6 DEF AppBuilt
<1>12. ~HashApp /\ ~SaveManifest /\ ~BuildFails /\ ~FinishRun
  BY SaveManifestEffect, NoRunFields
  DEF WithinApp, HashApp, BuildFails, FinishRun, InApp, AppDone, RunShape
<1> QED
  BY <1>5, <1>6, <1>7, <1>8, <1>9, <1>10, <1>11, <1>12 DEF RunStep
LEMMA StaysPlain ==
  ASSUME Shape, [Next]_vars, history'.plain
  PROVE  history.plain
<1>1. CASE Disturb
  BY <1>1, DisturbShape
<1>2. CASE UNCHANGED history
  BY <1>2
<1>3. CASE StartRun
  <2>1. PICK target \in Targets, noCache \in NoCacheFlags :
          history' = [settled |-> history.settled /\ ~(noCache /\ target # AllApps),
                      plain |-> history.plain /\ ~noCache /\ target = AllApps]
    BY <1>3, StartEffect
  <2>2. history'.plain = (history.plain /\ ~noCache /\ target = AllApps)
    BY <2>1
  <2> QED BY <2>2
<1>4. CASE FinishRun
  BY <1>4 DEF FinishRun, Shape
<1> QED
  BY <1>1, <1>2, <1>3, <1>4 DEF Next, Environment, EditSource, PurgeBlob, LoseManifest, Crash,
     RunStep, HashApp, LookUpHit, LookUpMiss, HealEntry, RestoreBlob, BuildApp, BuildFails,
     WriteDescriptor, SaveFiles, SaveBlob, SaveManifest, vars

LEMMA StepBuildsOfAllSources ==
  ASSUME Shape, RunShape, Position, Position', Hashed, BuildsOfAllSources, [Next]_vars
  PROVE  BuildsOfAllSources'
<1> DEFINE Built(a) == run.results[a].artifact = Output(a, version)
<1> SUFFICES ASSUME Hashable, history'.plain
             PROVE  /\ Running' => run'.target = AllApps /\ ~run'.noCache
                    /\ \A f : BuildBlob(f)'
                    /\ ArtifactBuilt' /\ \A a \in Results' : Built(a)'
  BY DEF BuildsOfAllSources
<1>1. PlainBuilds /\ \A a \in Results : Built(a)
  BY StaysPlain, AnyBlob DEF BuildsOfAllSources, PlainBuilds
<1>2. \A f : BuildBlob(f)'
  BY <1>1, StepBuildBlob
<1> HIDE DEF Built
<1>4. CASE run'.pc = "none" \/ run'.pc = "hashing"
  <2>1. ArtifactBuilt' /\ Results' = {}
    BY <1>4 DEF ArtifactBuilt, Position
  <2>2. Running' => run'.target = AllApps /\ ~run'.noCache
    <3>1. CASE StartRun
      <4>1. PICK target \in Targets, noCache \in NoCacheFlags :
              /\ run'.target = target /\ run'.noCache = noCache
              /\ history' = [settled |-> history.settled /\ ~(noCache /\ target # AllApps),
                             plain |-> history.plain /\ ~noCache /\ target = AllApps]
        BY <3>1, StartEffect
      <4>2. history'.plain = (history.plain /\ ~noCache /\ target = AllApps)
        BY <4>1
      <4> QED BY <4>1, <4>2
    <3>2. CASE HashApp
      BY <1>1, <3>2, HashEffect DEF RunShape, OptionsKept, PlainBuilds, Running
    <3>3. CASE EditSource
      BY <1>1, <3>3, EditEffect DEF RunShape, PlainBuilds, Running
    <3>4. CASE UNCHANGED run
      BY <1>1, <3>4 DEF PlainBuilds, Running
    <3>5. CASE run' = NoRun
      BY <3>5, NoRunFields DEF Running
    <3>6. ~WithinApp /\ ~OnToNext
      BY <1>4 DEF WithinApp, OnToNext, InApp, AppDone
    <3> QED BY <3>1, <3>2, <3>3, <3>4, <3>5, <3>6, StepCases
  <2> QED BY <1>2, <2>1, <2>2
<1>5. CASE UNCHANGED vars
  <2>1. ArtifactBuilt'
    BY <1>1, <1>5 DEF vars, PlainBuilds, ArtifactBuilt, App, Output
  <2>2. \A a \in Results' : Built(a)'
    BY <1>1, <1>5 DEF vars, Built, Results, Output
  <2>3. Running' => run'.target = AllApps /\ ~run'.noCache
    BY <1>1, <1>5 DEF vars, PlainBuilds, Running
  <2> QED BY <1>2, <2>1, <2>2, <2>3
<1>6. CASE RunStep /\ UNCHANGED version /\ WithinApp
  <2>1. ArtifactBuilt'
    BY <1>1, <1>6, StepArtifactBuilt
  <2>2. Results' = Results /\ run'.results = run.results /\ run'.target = run.target
        /\ run'.noCache = run.noCache /\ Running
    BY <1>6 DEF WithinApp, AppKept, OptionsKept, Results, Running
  <2>3. \A a \in Results' : Built(a)'
    BY <1>1, <1>6, <2>2 DEF Built, Output
  <2> QED BY <1>1, <1>2, <2>1, <2>2, <2>3 DEF PlainBuilds
<1>7. CASE RunStep /\ UNCHANGED version /\ OnToNext
  <2>1. /\ run'.pc = "lookup" /\ run'.target = run.target /\ run'.noCache = run.noCache
        /\ run.pc \in {"describing", "savingManifest"}
    BY <1>7 DEF OnToNext, AppDone, OptionsKept
  <2>2. ArtifactBuilt'
    BY <2>1 DEF ArtifactBuilt
  <2>3. /\ Results' = Results \cup {App}
        /\ \A a \in Results : run'.results[a] = run.results[a]
        /\ run'.results[App] = [hit |-> run.hit, artifact |-> run.artifact, files |-> store[App].files]
    BY <1>7, NextAppPosition
  <2>4. run.artifact = Output(App, version)
    BY <1>1, <2>1 DEF PlainBuilds, ArtifactBuilt
  <2>5. PICK b : b = App
    OBVIOUS
  <2>6. Built(b)'
    BY <1>7, <2>3, <2>4, <2>5 DEF Built, Output
  <2>7. \A a \in Results : Built(a)'
    BY <1>1, <1>7, <2>3 DEF Built, Output
  <2> QED BY <1>1, <1>2, <2>1, <2>2, <2>3, <2>5, <2>6, <2>7 DEF PlainBuilds, Running
<1>8. CASE EditSource
  <2>1. run'.pc = "none"
    BY <1>8, EditEffect DEF Hashable, Running, RunShape
  <2> QED BY <1>4, <2>1
<1>9. CASE HashApp
  <2>1. run'.results = run.results /\ run.pc = "hashing" /\ run'.pc \in {"hashing", "lookup"}
        /\ run'.target = run.target /\ run'.noCache = run.noCache
    BY <1>9, HashEffect DEF RunShape, OptionsKept
  <2>2. Results' = {} /\ ArtifactBuilt'
    BY <2>1 DEF Position, Results, ArtifactBuilt
  <2> QED BY <1>1, <1>2, <2>1, <2>2 DEF PlainBuilds, Running
<1> QED
  BY <1>4, <1>5, <1>6, <1>7, <1>8, <1>9, StepCases, StartEffect, NoRunFields
  DEF PurgeBlob, LoseManifest, Running

LEMMA StepFilesOfBuilds ==
  ASSUME Shape, RunShape, Position, Position', Hashed, EntriesLoaded, BuildsOfAllSources,
         FilesOfBuilds, [Next]_vars
  PROVE  FilesOfBuilds'
<1> DEFINE Whole(a) == run.results[a].files = {run.results[a].artifact}
<1> SUFFICES ASSUME Replacing, history'.plain
             PROVE  /\ \A a \in Apps : (WholeBlob(manifest[a]) /\ (Running => WholeBlob(run.current[a])))'
                    /\ AppBuilt' /\ \A a \in Results' : Whole(a)'
  BY DEF FilesOfBuilds
<1>1. Plain /\ \A a \in Results : Whole(a)
  BY StaysPlain, AnyBlob DEF BuildsOfAllSources, FilesOfBuilds, Plain, PlainBuilds, Replacing
<1>2. \A a \in Apps : (WholeBlob(manifest[a]) /\ (Running => WholeBlob(run.current[a])))'
  BY <1>1, StepEntriesWhole
<1> HIDE DEF Whole
<1>3. CASE run'.pc = "none" \/ run'.pc = "hashing"
  <2>1. AppBuilt' /\ Results' = {}
    BY <1>3 DEF AppBuilt, Missed, Position
  <2> QED BY <1>2, <2>1
<1>4. CASE UNCHANGED vars
  <2>1. AppBuilt'
    BY <1>1, <1>4 DEF vars, Plain, AppBuilt, Missed, App, Fingerprint, Blob
  <2>2. \A a \in Results' : Whole(a)'
    BY <1>1, <1>4 DEF vars, Whole, Results
  <2> QED BY <1>2, <2>1, <2>2
<1>5. CASE RunStep /\ WithinApp
  <2>1. AppBuilt'
    BY <1>1, <1>5, StepAppBuilt
  <2>2. Results' = Results /\ run'.results = run.results
    BY <1>5 DEF WithinApp, AppKept, Results
  <2>3. \A a \in Results' : Whole(a)'
    BY <1>1, <2>2 DEF Whole
  <2> QED BY <1>2, <2>1, <2>3
<1>6. CASE RunStep /\ OnToNext
  <2>1. run'.pc = "lookup" /\ run.pc \in {"describing", "savingManifest"}
    BY <1>6 DEF OnToNext, AppDone
  <2>2. AppBuilt'
    BY <2>1 DEF AppBuilt, Missed
  <2>3. /\ Results' = Results \cup {App}
        /\ \A a \in Results : run'.results[a] = run.results[a]
        /\ run'.results[App] = [hit |-> run.hit, artifact |-> run.artifact, files |-> store[App].files]
    BY <1>6, NextAppPosition
  <2>4. store[App].files = {run.artifact}
    BY <1>1, <2>1 DEF Plain, AppBuilt
  <2>5. PICK b : b = App
    OBVIOUS
  <2>6. Whole(b)'
    BY <2>3, <2>4, <2>5 DEF Whole
  <2>7. \A a \in Results : Whole(a)'
    BY <1>1, <2>3 DEF Whole
  <2> QED BY <1>2, <2>2, <2>3, <2>5, <2>6, <2>7
<1>7. CASE EditSource
  <2>1. run'.pc = "none"
    BY <1>7, EditEffect DEF Replacing, Hashable, Running, RunShape
  <2> QED BY <1>3, <2>1
<1>8. CASE HashApp
  <2>1. run'.results = run.results /\ run.pc = "hashing" /\ run'.pc \in {"hashing", "lookup"}
    BY <1>8, HashEffect DEF RunShape
  <2>2. Results' = {} /\ AppBuilt'
    BY <2>1 DEF Position, Results, AppBuilt, Missed
  <2> QED BY <1>2, <2>2
<1> QED
  BY <1>3, <1>4, <1>5, <1>6, <1>7, <1>8, StepCases, StartEffect, NoRunFields
  DEF PurgeBlob, LoseManifest, Running, RunShape

-----------------------------------------------------------------------------
(* The theorems. *)

LEMMA InitInvariant ==
  ASSUME Init
  PROVE  IInv
<1> USE DEF Init
<1>1. /\ run = NoRun /\ run.pc = "none" /\ ~Running /\ Results = {} /\ ToDo = {}
      /\ Len(run.todo) = 0
  BY NoRunFields, NothingDone DEF Running, Results, ToDo
<1>2. \A f : Blob(f) = NoFiles
  BY DEF Blob
<1>3. \A a \in Apps : manifest[a] = NoEntry
  BY DEF EmptyManifest
<1>4. Shape
  <2>1. IsDirectory(NoFiles)
    BY DEF IsDirectory, NoFiles
  <2>2. disturbances \in 0..MaxDisturbances
    BY CacheAssumption
  <2> QED BY <2>1, <2>2, NothingDone DEF Shape
<1>5. RunShape
  <2>1. NoRun.todo \in Seq(Apps)
    BY NoRunFields
  <2> QED BY <1>1, <2>1, NoRunFields, NothingDone DEF RunShape, Steps
<1>6. Position
  BY <1>1 DEF Position, InApp
<1>7. Hashed /\ EntriesLoaded
  BY <1>1, NoRunFields DEF Hashed, EntriesLoaded
<1>8. Saved
  BY <1>1 DEF Saved, AppSaved
<1>9. Settled
  BY <1>1 DEF Settled
<1>10. BlobsOfOwnSource
  BY <1>1 DEF BlobsOfOwnSource, OwnSourceFresh
<1>11. BuildsOfAllSources /\ FilesOfBuilds
  <2>1. \A f : WholeBlob(f) /\ BuildBlob(f)
    BY <1>2, DescriptorAssumption DEF WholeBlob, BuildBlob, NoFiles
  <2> QED BY <1>1, <2>1 DEF BuildsOfAllSources, ArtifactBuilt, FilesOfBuilds, AppBuilt, Missed
<1> QED BY <1>4, <1>5, <1>6, <1>7, <1>8, <1>9, <1>10, <1>11 DEF IInv

LEMMA StepInvariant ==
  ASSUME IInv, [Next]_vars
  PROVE  IInv'
<1> USE DEF IInv
<1>1. Shape' /\ RunShape' /\ Position'
  BY StepShape, StepRunShape, StepPosition
<1>2. Hashed' /\ EntriesLoaded'
  BY StepHashed, StepEntriesLoaded
<1>3. Saved' /\ Settled'
  BY <1>1, StepSaved, StepSettled
<1>4. BlobsOfOwnSource' /\ BuildsOfAllSources' /\ FilesOfBuilds'
  BY <1>1, StepBlobsOfOwnSource, StepBuildsOfAllSources, StepFilesOfBuilds
<1> QED BY <1>1, <1>2, <1>3, <1>4

(* What holds in every state of every project.                                 *)
THEOREM Invariance == Spec => []IInv
BY InitInvariant, StepInvariant, PTL DEF Spec

(* The variables keep their types, whatever fails (buildApps).                 *)
THEOREM TypeCorrect == Spec => []TypeOK
<1>1. IInv => TypeOK
  <2> SUFFICES ASSUME IInv PROVE TypeOK
    OBVIOUS
  <2>1. DOMAIN manifest = Apps
    BY DEF IInv, Shape, IsEntries
  <2>2. run.pc \notin {"none", "hashing"} =>
          \A k \in 1..Len(run.todo) : run.todo[k] \in DOMAIN run.effective
    BY DEF IInv, Position, ToDo
  <2> QED BY <2>1, <2>2 DEF IInv, Shape, RunShape, IsDirectory, TypeOK
<1> QED BY <1>1, Invariance, PTL

(* A run with --target leaves the manifest entries of the other apps alone,    *)
(* whatever fails in it, and however it ends (specs/022, S-4).                 *)
THEOREM OtherEntries == Spec => OtherEntriesKept
<1>1. IInv /\ [Next]_vars =>
        [Running /\ run.target # AllApps /\ ~run.noCache =>
          \A a \in Apps \ {run.target} : manifest'[a] = manifest[a]]_vars
  BY StepKeepsOtherEntries DEF IInv
<1> QED BY <1>1, Invariance, PTL DEF Spec, OtherEntriesKept

(* Where writes succeed and no two apps share a source, each app that is done  *)
(* has its entry, its blob and its descriptor on disk, although a crash or a   *)
(* failing build may end the run at any moment (buildApps).                    *)
THEOREM Persistence ==
  ASSUME Writable, SourcesDiffer
  PROVE  Spec => []ResultsPersisted
<1>1. IInv => ResultsPersisted
  BY DEF IInv, Saved, Persisted, ResultsPersisted
<1> QED BY <1>1, Invariance, PTL

(* With writes that succeed, nothing is built after a complete build during    *)
(* which no source was edited, as long as nothing changes, whatever was        *)
(* targeted in between (specs/022, SC-001).                                    *)
THEOREM NothingBuilt ==
  ASSUME Writable
  PROVE  Spec => []NothingToBuild
<1>1. IInv => NothingToBuild
  BY DEF IInv, Settled, Idle, NothingToBuild, Running, Missed
<1> QED BY <1>1, Invariance, PTL

(* Where fingerprints say what is built, no build returns what is stale in the *)
(* app's own source, even with --target, and even when builders hash their     *)
(* file names or copies fail (buildApps).                                      *)
THEOREM OwnSource ==
  ASSUME Hashable
  PROVE  Spec => []OwnSourceFresh
<1>1. IInv => OwnSourceFresh
  BY DEF IInv, BlobsOfOwnSource
<1> QED BY <1>1, Invariance, PTL

(* Where builds also replace their files and copies are whole, a build without *)
(* --target and --no-cache returns what building from the sources of now       *)
(* gives, with all its files, whatever crashes, lost blobs and failing writes  *)
(* came before (buildApps; specs/022, S-4).                                    *)
THEOREM Fresh ==
  ASSUME Replacing
  PROVE  Spec => []FreshArtifacts
<1>1. IInv => FreshArtifacts
  <2> SUFFICES ASSUME IInv PROVE FreshArtifacts
    OBVIOUS
  <2>1. OwnSourceFresh
    BY DEF IInv, BlobsOfOwnSource, Replacing
  <2>2. \A a \in Results : run.results[a].artifact \in Outputs
    BY DEF IInv, RunShape
  <2>3. history.plain => \A a \in Results :
          /\ run.results[a].artifact = Output(a, version)
          /\ run.results[a].files = {run.results[a].artifact}
    BY DEF IInv, BuildsOfAllSources, FilesOfBuilds, Replacing
  <2> QED BY <2>1, <2>2, <2>3, DescriptorAssumption DEF FreshArtifacts
<1> QED BY <1>1, Invariance, PTL

-----------------------------------------------------------------------------
(* The builds without --target and --no-cache are builds without a cache.      *)

LEMMA MappedResults ==
  /\ Results = {} => [a \in Results |-> run.results[a].artifact] = [a \in {} |-> a]
  /\ Results' = {} => [a \in Results |-> run.results[a].artifact]' = [a \in {} |-> a]
  OBVIOUS

LEMMA UncachedInit ==
  ASSUME Init
  PROVE  Uncached!Init
<1>1. Results = {}
  BY NoRunFields, NothingDone DEF Init, Results
<1>2. version \in [Sources -> Versions]
  BY DEF Init
<1> QED BY <1>1, <1>2, MappedResults DEF Uncached!Init, Uncached!Nothing

LEMMA UncachedStep ==
  ASSUME Hashable, IInv, IInv', [Next]_vars
  PROVE  [Uncached!Next]_Uncached!vars
<1> USE DEF IInv
<1> DEFINE returned == IF history.plain THEN [a \in Results |-> run.results[a].artifact]
                       ELSE [a \in {} |-> a]
<1>1. Results = {} => returned = [a \in {} |-> a]
  BY MappedResults
<1>2. Results' = {} => returned' = [a \in {} |-> a]
  BY MappedResults
<1>3. ~history'.plain => returned' = [a \in {} |-> a]
  OBVIOUS
<1>4. ~history.plain => ~history'.plain /\ returned = [a \in {} |-> a]
  BY StaysPlain
<1> SUFFICES \/ returned = [a \in {} |-> a] /\ version' \in [Sources -> Versions] /\ returned' = returned
             \/ returned' = [a \in {} |-> a] /\ UNCHANGED version
             \/ UNCHANGED version /\ \E a \in Apps :
                  /\ a \notin DOMAIN returned
                  /\ returned' = [b \in DOMAIN returned \cup {a} |->
                                    IF b = a THEN Output(a, version) ELSE returned[b]]
             \/ returned' = returned /\ UNCHANGED version
  BY DEF Uncached!Next, Uncached!vars, Uncached!Edit, Uncached!End, Uncached!Build, Uncached!Nothing
<1>5. CASE ~history'.plain /\ UNCHANGED version
  BY <1>3, <1>5
<1>6. CASE history'.plain /\ RunStep /\ UNCHANGED version /\ OnToNext
  <2>1. history.plain /\ run.pc \in {"describing", "savingManifest"}
    BY <1>4, <1>6 DEF OnToNext
  <2>2. run.artifact = Output(App, version) /\ App \in Apps /\ App \notin Results
    BY <1>6, <2>1, FingerprintType DEF BuildsOfAllSources, ArtifactBuilt, Position, InApp
  <2>3. /\ Results' = Results \cup {App}
        /\ \A a \in Results : run'.results[a] = run.results[a]
        /\ run'.results[App].artifact = run.artifact
    BY <1>6, NextAppPosition
  <2>4. PICK a \in Apps : a = App
    BY <2>2
  <2>5. returned = [b \in Results |-> run.results[b].artifact] /\ a \notin DOMAIN returned
    BY <2>1, <2>2, <2>4
  <2>6. returned' = [b \in Results \cup {a} |->
                       IF b = a THEN Output(a, version) ELSE returned[b]]
    BY <1>6, <2>2, <2>3, <2>4, <2>5
  <2>7. DOMAIN returned = Results
    BY <2>5
  <2> QED BY <1>6, <2>4, <2>5, <2>6, <2>7
<1>7. CASE run'.pc = "none" /\ UNCHANGED version
  BY <1>2, <1>7 DEF Position
<1>8. CASE StartRun
  <2>1. UNCHANGED version /\ run'.results = <<>>
    BY <1>8, StartEffect
  <2>2. Results' = {}
    BY <2>1 DEF Results
  <2> QED BY <1>2, <2>1, <2>2
<1>9. CASE UNCHANGED vars \/ (RunStep /\ UNCHANGED version /\ history'.plain /\ (WithinApp \/ HashApp))
  <2>1. /\ UNCHANGED version /\ run'.results = run.results /\ Results' = Results
    BY <1>9, HashEffect DEF vars, WithinApp, AppKept, Results, RunShape
  <2>2. returned' = returned
    BY <1>3, <1>4, <1>9, <2>1 DEF vars
  <2> QED BY <2>1, <2>2
<1>10. CASE EditSource
  <2>1. run.pc = "none" /\ run'.pc = "none"
    BY <1>10, EditEffect DEF Hashable, Running, RunShape
  <2>2. Results = {} /\ Results' = {} /\ version' \in [Sources -> Versions]
    BY <2>1 DEF Position, Shape
  <2> QED BY <1>1, <1>2, <2>2
<1>11. CASE (PurgeBlob \/ LoseManifest) /\ UNCHANGED <<version, run>>
  BY <1>7, <1>11 DEF PurgeBlob, LoseManifest, Running
<1> QED
  BY <1>5, <1>6, <1>7, <1>8, <1>9, <1>10, <1>11, StepCases, NoRunFields

(* Where fingerprints say what is built, the artifacts that builds without     *)
(* --target and --no-cache return, app after app, could have come from a       *)
(* program that keeps no cache at all (buildApps).                             *)
THEOREM Refinement ==
  ASSUME Hashable
  PROVE  Spec => BuildsAsUncached
<1>1. Init => Uncached!Init
  BY UncachedInit
<1>2. IInv /\ IInv' /\ [Next]_vars => [Uncached!Next]_Uncached!vars
  BY UncachedStep
<1> QED BY <1>1, <1>2, Invariance, PTL DEF Spec, BuildsAsUncached, Uncached!Spec
=============================================================================
