---------------------------- MODULE AssemblyProofs ----------------------------
(***************************************************************************)
(* Proofs about Assembly, for any number of files, contents, registrations *)
(* and runs and any size of the cache.                                     *)
(***************************************************************************)
EXTENDS Assembly, TLAPS

\* Assembly on its own.
AssemblySpec == AssemblyInit /\ [][AssemblyNext]_assemblyVars

-----------------------------------------------------------------------------
(* The inductive invariant.                                                *)

InputTyped ==
  /\ content \in [Files -> Contents] /\ bytes \in [Files -> Contents]
  /\ userCode \in 0 .. 1 /\ edits \in 0 .. MaxEdits /\ runs \in 0 .. MaxRuns

RegistryTyped ==
  /\ decoder \in Nat /\ generation \in Nat /\ gen0 \in Nat /\ gen1 \in Nat
  /\ regpc \in [Registrars -> {"idle", "stored", "returned"}]
  /\ regver \in [Registrars -> 0 .. decoder] /\ floor \subseteq 0 .. decoder

CacheTyped ==
  /\ entries \in [Files -> [sum : Contents, gen : Nat, tree : Trees]]
  /\ keys \in Seq(Files) /\ Len(keys) <= CacheCap /\ next \in 0 .. CacheCap - 1

WriterTyped ==
  /\ wpc \in {"idle", "read", "layer", "decode", "commit", "done", "failed"}
  /\ kind \in Kinds \cup {"reload"} /\ file \in 0 .. NFiles + 1
  /\ staged \in [Files -> Trees] /\ live \in Snapshots /\ past \subseteq Snapshots

Typed == InputTyped /\ RegistryTyped /\ CacheTyped /\ WriterTyped

\* Generations only grow, so what carries one is not newer than the counter; while it
\* has not moved since the run began, no registration has returned since.
Generations ==
  /\ gen0 <= generation /\ gen1 <= generation /\ (wpc = "decode" => gen0 <= gen1)
  /\ \A f \in Files : entries[f].gen <= generation
  /\ gen0 = generation => Returned \subseteq floor

\* An entry that the run at hand may hit is fresh enough for it.
RunFresh ==
  \A f \in Files : entries[f].sum # 0 /\ entries[f].gen >= gen0 =>
    \A v \in floor : entries[f].tree.by >= v

\* What is staged for f is made of the bytes read, by a decoder new enough.
StagedWell(f) ==
  IF bytes[f] = 0 THEN staged[f] = NoTree
  ELSE /\ staged[f].means = Meaning(bytes[f])
       /\ \A v \in floor : staged[f].by >= v

\* The files before the one at hand are staged, the others are not yet.
Staging ==
  /\ wpc = "read" => file \in Files /\ \A f \in Files : staged[f] = NoTree
  /\ wpc \in {"layer", "decode"} =>
       /\ file > 0
       /\ \A f \in Files : IF f < file THEN StagedWell(f) ELSE staged[f] = NoTree
  /\ wpc = "decode" => file \in Files /\ bytes[file] # 0
  /\ wpc = "commit" => \A f \in Files : StagedWell(f)
  /\ wpc = "commit" /\ print # <<>> => print = <<gen0, bytes>> /\ kind # "override"

\* The live snapshot is what the inputs under the published fingerprint make, by
\* decoders as new as its generation.
Published ==
  published # <<>> =>
    /\ published[1] \in Nat /\ published[1] <= generation
    /\ live.over = 0
    /\ \A f \in Files : live.trees[f].means = Meaning(published[2][f])
    /\ published[1] = generation =>
         \A f \in Files : published[2][f] # 0 => \A v \in Returned : live.trees[f].by >= v
    /\ published[1] >= gen0 =>
         \A f \in Files : published[2][f] # 0 => \A v \in floor : live.trees[f].by >= v

CacheInv == Typed /\ Generations /\ RunFresh /\ CachePristine /\ CacheBounded /\ CacheFresh
OutInv == Staging /\ Published /\ ReloadReflectsInputs
Inv == CacheInv /\ OutInv

\* What the numbers and records are.
LEMMA TypeFacts ==
  ASSUME Typed
  PROVE  /\ NFiles \in Nat /\ CacheCap \in Nat \ {0} /\ file \in Nat
         /\ generation \in Nat /\ gen0 \in Nat /\ gen1 \in Nat /\ decoder \in Nat
         /\ \A f \in Files : /\ f \in Nat /\ f > 0 /\ f <= NFiles
                             /\ bytes[f] \in Contents
                             /\ entries[f].sum \in Contents /\ entries[f].gen \in Nat
                             /\ entries[f].tree \in Trees /\ entries[f].tree.by \in Nat
                             /\ staged[f] \in Trees /\ staged[f].by \in Nat
                             /\ live.trees[f].by \in Nat
         /\ \A v \in floor : v \in Nat /\ v <= decoder
         /\ \A v \in Returned : v \in Nat /\ v <= decoder
         /\ live.over \in 0 .. 1
<1> USE DEF Typed
<1>1. /\ NFiles \in Nat /\ CacheCap \in Nat \ {0} /\ file \in Nat
      /\ generation \in Nat /\ gen0 \in Nat /\ gen1 \in Nat /\ decoder \in Nat
  BY AssemblyAssumption DEF WriterTyped, RegistryTyped
<1>2. \A f \in Files : /\ f \in Nat /\ f > 0 /\ f <= NFiles /\ bytes[f] \in Contents
  BY <1>1 DEF InputTyped, Files
<1>3. \A f \in Files : /\ entries[f].sum \in Contents /\ entries[f].gen \in Nat
                       /\ entries[f].tree \in Trees /\ entries[f].tree.by \in Nat
  BY DEF CacheTyped, Trees
<1>4. \A f \in Files : /\ staged[f] \in Trees /\ staged[f].by \in Nat
                       /\ live.trees[f].by \in Nat
  BY DEF WriterTyped, Trees, Snapshots
<1>5. /\ \A v \in floor : v \in Nat /\ v <= decoder
      /\ \A v \in Returned : v \in Nat /\ v <= decoder
  <2>1. \A v \in 0 .. decoder : v \in Nat /\ v <= decoder
    BY <1>1
  <2>2. Returned \subseteq 0 .. decoder
    BY DEF RegistryTyped, Returned
  <2> QED  BY <2>1, <2>2 DEF RegistryTyped
<1>6. live.over \in 0 .. 1
  BY DEF WriterTyped, Snapshots
<1> QED  BY <1>1, <1>2, <1>3, <1>4, <1>5, <1>6

\* A step that leaves the registry, the cache and the samples alone.
LEMMA CacheFrame ==
  ASSUME CacheInv, UNCHANGED <<regVars, cacheVars, gen0, gen1, floor>>,
         wpc' = "decode" => wpc = "decode"
  PROVE  Generations' /\ RunFresh' /\ CachePristine' /\ CacheBounded' /\ CacheFresh'
<1> USE DEF regVars, cacheVars
<1>1. Returned' = Returned
  BY DEF Returned
<1>2. Generations' /\ RunFresh'
  BY <1>1 DEF CacheInv, Generations, RunFresh
<1>3. CachePristine' /\ CacheBounded' /\ CacheFresh'
  BY <1>1 DEF CacheInv, CachePristine, CacheBounded, CacheFresh
<1> QED  BY <1>2, <1>3

\* A step that leaves the writer alone.
LEMMA OutFrame ==
  ASSUME OutInv, UNCHANGED <<generation, regpc, regver, wpc, runVars, outVars>>
  PROVE  OutInv'
<1> USE DEF runVars, outVars
<1>1. Returned' = Returned
  BY DEF Returned
<1>2. Staging'
  BY DEF OutInv, Staging, StagedWell
<1>3. Published'
  BY <1>1 DEF OutInv, Published
<1>4. ReloadReflectsInputs'
  BY DEF OutInv, ReloadReflectsInputs
<1> QED  BY <1>2, <1>3, <1>4 DEF OutInv

\* Edits change nothing that was read.
LEMMA EditStep ==
  ASSUME Inv, NEW f \in Files, NEW c \in Contents, Edit(f, c)
  PROVE  Inv'
<1> USE DEF Edit, Inv
<1>1. Typed'
  <2>1. InputTyped'
    <3>1. edits' \in 0 .. MaxEdits
      BY AssemblyAssumption DEF CacheInv, Typed, InputTyped
    <3> QED  BY <3>1 DEF CacheInv, Typed, InputTyped, runVars
  <2>2. RegistryTyped' /\ CacheTyped' /\ WriterTyped'
    BY DEF CacheInv, Typed, RegistryTyped, CacheTyped, WriterTyped, regVars, cacheVars,
           runVars, outVars
  <2> QED  BY <2>1, <2>2 DEF Typed
<1>2. Generations' /\ RunFresh' /\ CachePristine' /\ CacheBounded' /\ CacheFresh'
  BY CacheFrame DEF runVars
<1>3. OutInv'
  BY OutFrame DEF regVars
<1> QED  BY <1>1, <1>2, <1>3 DEF CacheInv

\* A decoder is installed; its registration has not returned.
LEMMA InstallStep ==
  ASSUME Inv, NEW r \in Registrars, Install(r)
  PROVE  Inv'
<1>0. CacheInv /\ OutInv /\ Typed
  BY DEF Inv, CacheInv
<1>1. /\ regpc[r] = "idle" /\ regpc' = [regpc EXCEPT ![r] = "stored"]
      /\ decoder' = decoder + 1 /\ regver' = [regver EXCEPT ![r] = decoder + 1]
      /\ UNCHANGED <<generation, diskVars, cacheVars, wpc, runVars, outVars>>
  BY DEF Install
<1> USE DEF diskVars, cacheVars, runVars, outVars
<1>2. /\ regpc'[r] = "stored" /\ \A q \in Registrars \ {r} : regpc'[q] = regpc[q]
      /\ \A q \in Registrars \ {r} : regver'[q] = regver[q]
  BY <1>0, <1>1 DEF Typed, RegistryTyped
<1>3. Returned' = Returned
  BY <1>1, <1>2 DEF Returned
<1>4. Typed'
  <2>1. 0 .. decoder \subseteq 0 .. decoder' /\ decoder + 1 \in 0 .. decoder' /\ decoder' \in Nat
    BY <1>0, <1>1, TypeFacts
  <2>2. regver' \in [Registrars -> 0 .. decoder'] /\ floor' \subseteq 0 .. decoder'
    BY <1>0, <1>1, <2>1 DEF Typed, RegistryTyped
  <2>3. RegistryTyped'
    BY <1>0, <1>1, <2>1, <2>2 DEF Typed, RegistryTyped
  <2>4. InputTyped' /\ CacheTyped' /\ WriterTyped'
    BY <1>0, <1>1 DEF Typed, InputTyped, CacheTyped, WriterTyped
  <2> QED  BY <2>3, <2>4 DEF Typed
<1>5. Generations' /\ RunFresh' /\ CachePristine' /\ CacheBounded' /\ CacheFresh'
  BY <1>0, <1>1, <1>3 DEF CacheInv, Generations, RunFresh, CachePristine, CacheBounded,
                          CacheFresh
<1>6. Staging' /\ ReloadReflectsInputs'
  BY <1>0, <1>1 DEF OutInv, Staging, StagedWell, ReloadReflectsInputs
<1>7. Published'
  BY <1>0, <1>1, <1>3 DEF OutInv, Published
<1> QED  BY <1>4, <1>5, <1>6, <1>7 DEF Inv, CacheInv, OutInv

\* The generation advances: nothing cached or published is of the new one.
LEMMA AdvanceStep ==
  ASSUME Inv, NEW r \in Registrars, Advance(r)
  PROVE  Inv'
<1>0. CacheInv /\ OutInv /\ Typed
  BY DEF Inv, CacheInv
<1>1. /\ regpc' = [regpc EXCEPT ![r] = "returned"] /\ generation' = generation + 1
      /\ UNCHANGED <<decoder, regver, diskVars, cacheVars, wpc, runVars, outVars>>
  BY DEF Advance
<1> USE DEF diskVars, cacheVars, runVars, outVars
<1>2. Typed'
  <2>1. RegistryTyped'
    BY <1>0, <1>1 DEF Typed, RegistryTyped
  <2>2. InputTyped' /\ CacheTyped' /\ WriterTyped'
    BY <1>0, <1>1 DEF Typed, InputTyped, CacheTyped, WriterTyped
  <2> QED  BY <2>1, <2>2 DEF Typed
<1>3. /\ gen0 < generation' /\ gen1 < generation'
      /\ \A f \in Files : entries[f].gen < generation'
      /\ published # <<>> => published[1] < generation' /\ published[1] \in Nat
  BY <1>0, <1>1, TypeFacts DEF CacheInv, Generations, OutInv, Published
<1>4. Generations'
  BY <1>0, <1>1, <1>3, TypeFacts DEF CacheInv, Generations
<1>5. RunFresh' /\ CachePristine' /\ CacheBounded'
  BY <1>0, <1>1 DEF CacheInv, RunFresh, CachePristine, CacheBounded
<1>6. CacheFresh'
  BY <1>0, <1>1, <1>3, TypeFacts DEF CacheFresh
<1>7. Staging' /\ ReloadReflectsInputs'
  BY <1>0, <1>1 DEF OutInv, Staging, StagedWell, ReloadReflectsInputs
<1>8. Published'
  <2> SUFFICES ASSUME published # <<>> PROVE Published'
    BY <1>1 DEF Published
  <2>1. published[1] < generation' /\ published[1] \in Nat /\ generation' \in Nat
    BY <1>0, <1>1, <1>3, TypeFacts
  <2> QED  BY <1>0, <1>1, <2>1 DEF OutInv, Published
<1> QED  BY <1>2, <1>4, <1>5, <1>6, <1>7, <1>8 DEF Inv, CacheInv, OutInv

\* A run begins: what carries the present generation is fresh enough for it.
LEMMA BeginStep ==
  ASSUME Inv, NEW k \in Kinds, Begin(k)
  PROVE  Inv'
<1>0. CacheInv /\ OutInv /\ Typed
  BY DEF Inv, CacheInv
<1>1. /\ wpc' = "read" /\ kind' = k /\ file' = 1 /\ runs' = runs + 1 /\ runs < MaxRuns
      /\ gen0' = generation /\ staged' = Nothing /\ floor' = Returned
      /\ UNCHANGED <<bytes, gen1, print, diskVars, regVars, cacheVars, outVars>>
  BY DEF Begin
<1> USE DEF diskVars, regVars, cacheVars, outVars
<1>2. Returned' = Returned
  BY <1>1 DEF Returned
<1>3. 1 \in Files /\ 1 \in 0 .. NFiles + 1 /\ Nothing \in [Files -> Trees]
  BY AssemblyAssumption DEF Files, Nothing, NoTree, Trees, Contents
<1>4. Typed'
  <2>1. InputTyped'
    BY <1>0, <1>1, AssemblyAssumption DEF Typed, InputTyped
  <2>2. RegistryTyped'
    BY <1>0, <1>1, TypeFacts DEF Typed, RegistryTyped
  <2>3. CacheTyped'
    BY <1>0, <1>1 DEF Typed, CacheTyped
  <2>4. WriterTyped'
    BY <1>0, <1>1, <1>3 DEF Typed, WriterTyped
  <2> QED  BY <2>1, <2>2, <2>3, <2>4 DEF Typed
<1>5. Generations'
  BY <1>0, <1>1, <1>2, TypeFacts DEF CacheInv, Generations
<1>6. RunFresh'
  <2> SUFFICES ASSUME NEW f \in Files, entries[f].sum # 0, entries[f].gen >= generation,
                      NEW v \in Returned
               PROVE  entries[f].tree.by >= v
    BY <1>1 DEF RunFresh
  <2>1. entries[f].gen = generation
    BY <1>0, TypeFacts DEF CacheInv, Generations
  <2> QED  BY <1>0, <2>1 DEF CacheInv, CacheFresh
<1>7. CachePristine' /\ CacheBounded' /\ CacheFresh'
  BY <1>0, <1>1, <1>2 DEF CacheInv, CachePristine, CacheBounded, CacheFresh
<1>8. Staging'
  BY <1>1, <1>3 DEF Staging, Nothing
<1>9. ReloadReflectsInputs'
  BY <1>1 DEF ReloadReflectsInputs
<1>10. Published'
  <2> SUFFICES ASSUME published # <<>> PROVE Published'
    BY <1>1 DEF Published
  <2>1. published[1] >= generation => published[1] = generation
    BY <1>0, TypeFacts DEF OutInv, Published
  <2> QED  BY <1>0, <1>1, <1>2, <2>1 DEF OutInv, Published
<1> QED  BY <1>4, <1>5, <1>6, <1>7, <1>8, <1>9, <1>10 DEF Inv, CacheInv, OutInv

\* Bytes are read before any of them is staged.
LEMMA ReadFileStep == Inv /\ ReadFile => Inv'
<1> SUFFICES ASSUME Inv, ReadFile PROVE Inv'
  OBVIOUS
<1>0. CacheInv /\ OutInv /\ Typed
  BY DEF Inv, CacheInv
<1>1. /\ wpc = "read" /\ bytes' = [bytes EXCEPT ![file] = content[file]]
      /\ \/ file < NFiles /\ file' = file + 1 /\ wpc' = wpc
         \/ ~(file < NFiles) /\ file' = 1 /\ wpc' = "layer"
      /\ UNCHANGED <<kind, gen0, gen1, staged, print, floor, runs, diskVars, regVars,
                     cacheVars, outVars>>
  BY DEF ReadFile
<1> USE DEF diskVars, regVars, cacheVars, outVars
<1>2. file \in Files /\ \A f \in Files : staged[f] = NoTree
  BY <1>0, <1>1 DEF OutInv, Staging
<1>3. bytes' \in [Files -> Contents] /\ file' \in 0 .. NFiles + 1 /\ file' \in Files
  BY <1>0, <1>1, <1>2, AssemblyAssumption DEF Typed, InputTyped, Files
<1>4. Typed'
  BY <1>0, <1>1, <1>3 DEF Typed, InputTyped, RegistryTyped, CacheTyped, WriterTyped
<1>5. Generations' /\ RunFresh' /\ CachePristine' /\ CacheBounded' /\ CacheFresh'
  BY <1>0, <1>1, CacheFrame
<1>6. Staging'
  <2>1. CASE wpc' = "read"
    BY <1>1, <1>2, <1>3, <2>1 DEF Staging
  <2>2. CASE wpc' = "layer" /\ file' = 1
    <3>1. \A f \in Files : ~(f < 1)
      BY AssemblyAssumption DEF Files
    <3> QED  BY <1>1, <1>2, <2>2, <3>1 DEF Staging
  <2> QED  BY <1>1, <2>1, <2>2
<1>7. Returned' = Returned
  BY <1>1 DEF Returned
<1>8. Published' /\ ReloadReflectsInputs'
  BY <1>0, <1>1, <1>7 DEF OutInv, Published, ReloadReflectsInputs
<1> QED  BY <1>4, <1>5, <1>6, <1>8 DEF Inv, CacheInv, OutInv

\* A missing file stages nothing; otherwise the generation is sampled.
LEMMA SampleStep == Inv /\ Sample => Inv'
<1> SUFFICES ASSUME Inv, Sample PROVE Inv'
  OBVIOUS
<1>0. CacheInv /\ OutInv /\ Typed
  BY DEF Inv, CacheInv
<1>1. /\ wpc = "layer" /\ file <= NFiles
      /\ \/ bytes[file] = 0 /\ file' = file + 1 /\ UNCHANGED <<wpc, gen1>>
         \/ bytes[file] # 0 /\ gen1' = generation /\ wpc' = "decode" /\ UNCHANGED file
      /\ UNCHANGED <<kind, bytes, gen0, staged, print, floor, runs, diskVars, regVars,
                     cacheVars, outVars>>
  BY DEF Sample
<1> USE DEF diskVars, regVars, cacheVars, outVars
<1>2. /\ file \in Files /\ file \in Nat /\ file > 0
      /\ \A f \in Files : IF f < file THEN StagedWell(f) ELSE staged[f] = NoTree
  BY <1>0, <1>1, TypeFacts DEF OutInv, Staging, Files
<1>3. file' \in 0 .. NFiles + 1 /\ gen1' \in Nat /\ gen1' <= generation
  BY <1>0, <1>1, <1>2, TypeFacts DEF Typed, WriterTyped, CacheInv, Generations
<1>4. Typed'
  BY <1>0, <1>1, <1>3 DEF Typed, InputTyped, RegistryTyped, CacheTyped, WriterTyped
<1>5. Returned' = Returned
  BY <1>1 DEF Returned
<1>6. Generations'
  BY <1>0, <1>1, <1>3, <1>5, TypeFacts DEF CacheInv, Generations
<1>7. RunFresh' /\ CachePristine' /\ CacheBounded' /\ CacheFresh'
  BY <1>0, <1>1, <1>5 DEF CacheInv, RunFresh, CachePristine, CacheBounded, CacheFresh
<1>8. Staging'
  <2>1. \A f \in Files : StagedWell(f)' = StagedWell(f)
    BY <1>1 DEF StagedWell
  <2>2. CASE bytes[file] # 0 /\ wpc' = "decode" /\ file' = file
    BY <1>1, <1>2, <2>1, <2>2 DEF Staging
  <2>3. CASE bytes[file] = 0 /\ wpc' = "layer" /\ file' = file + 1
    <3>1. StagedWell(file)
      BY <1>2, <2>3 DEF StagedWell
    <3>2. \A f \in Files : f < file + 1 <=> (f < file \/ f = file)
      BY <1>0, <1>2, TypeFacts
    <3> QED  BY <1>1, <1>2, <2>1, <2>3, <3>1, <3>2 DEF Staging
  <2> QED  BY <1>1, <2>2, <2>3
<1>9. Published' /\ ReloadReflectsInputs'
  BY <1>0, <1>1, <1>5 DEF OutInv, Published, ReloadReflectsInputs
<1> QED  BY <1>4, <1>6, <1>7, <1>8, <1>9 DEF Inv, CacheInv, OutInv

\* The layers are complete, and the fingerprint is that of the bytes staged.
LEMMA EndAssemblyStep == Inv /\ EndAssembly => Inv'
<1> SUFFICES ASSUME Inv, EndAssembly PROVE Inv'
  OBVIOUS
<1>0. CacheInv /\ OutInv /\ Typed
  BY DEF Inv, CacheInv
<1>1. /\ wpc = "layer" /\ file > NFiles /\ print' = Fingerprint
      /\ wpc' \in {"failed", "commit"}
      /\ UNCHANGED <<kind, file, bytes, gen0, gen1, staged, floor, runs, diskVars, regVars,
                     cacheVars, outVars>>
  BY DEF EndAssembly
<1> USE DEF diskVars, regVars, cacheVars, outVars
<1>2. Typed'
  BY <1>0, <1>1 DEF Typed, InputTyped, RegistryTyped, CacheTyped, WriterTyped
<1>3. Generations' /\ RunFresh' /\ CachePristine' /\ CacheBounded' /\ CacheFresh'
  BY <1>0, <1>1, CacheFrame
<1>4. \A f \in Files : StagedWell(f) /\ StagedWell(f)'
  <2>1. \A f \in Files : f < file
    BY <1>0, <1>1, TypeFacts
  <2>2. \A f \in Files : StagedWell(f)
    BY <1>0, <1>1, <2>1 DEF OutInv, Staging
  <2> QED  BY <1>1, <2>2 DEF StagedWell
<1>5. print' # <<>> => print' = <<gen0, bytes>> /\ kind # "override"
  BY <1>1 DEF Fingerprint
<1>6. Staging'
  BY <1>1, <1>4, <1>5 DEF Staging
<1>7. Returned' = Returned
  BY <1>1 DEF Returned
<1>8. Published' /\ ReloadReflectsInputs'
  BY <1>0, <1>1, <1>7 DEF OutInv, Published, ReloadReflectsInputs
<1> QED  BY <1>2, <1>3, <1>6, <1>8 DEF Inv, CacheInv, OutInv

\* The value the stages make of what is staged.
LEMMA ValueReflects ==
  ASSUME Inv, wpc = "commit"
  PROVE  /\ Value \in Snapshots
         /\ Value.over = IF kind = "override" THEN 1 ELSE 0
         /\ \A f \in Files : /\ Value.trees[f].means = Meaning(bytes[f])
                             /\ bytes[f] # 0 => \A v \in floor : Value.trees[f].by >= v
<1>0. Typed /\ Staging
  BY DEF Inv, CacheInv, OutInv
<1>1. \A f \in Files : StagedWell(f) /\ staged[f] \in Trees /\ bytes[f] \in Contents
  BY <1>0, TypeFacts DEF Staging
<1>2. NoTree \in Trees /\ NoTree.means = 0
  BY AssemblyAssumption DEF NoTree, Trees, Contents
<1>3. ASSUME NEW t \in Trees
      PROVE  Hooked(t) \in Trees /\ Hooked(t).means = t.means /\ Hooked(t).by = t.by
  BY DEF Hooked, Trees
<1>4. /\ Value.over = IF kind = "override" THEN 1 ELSE 0
      /\ \A f \in Files : Value.trees[f] = IF staged[f] = NoTree THEN NoTree
                                                                ELSE Hooked(staged[f])
  BY DEF Value
<1>5. \A f \in Files : (IF staged[f] = NoTree THEN NoTree ELSE Hooked(staged[f])) \in Trees
  BY <1>1, <1>2, <1>3
<1>6. Value \in Snapshots
  BY <1>5 DEF Value, Snapshots
<1>7. ASSUME NEW f \in Files
      PROVE  /\ Value.trees[f].means = Meaning(bytes[f])
             /\ bytes[f] # 0 => \A v \in floor : Value.trees[f].by >= v
  <2>1. CASE bytes[f] = 0
    BY <1>1, <1>2, <1>4, <2>1 DEF StagedWell, Meaning
  <2>2. CASE bytes[f] # 0
    <3>1. Meaning(bytes[f]) # 0
      BY <2>2 DEF Meaning
    <3>2. /\ staged[f].means = Meaning(bytes[f]) /\ \A v \in floor : staged[f].by >= v
      BY <1>1, <2>2 DEF StagedWell
    <3>3. staged[f] # NoTree
      BY <1>2, <3>1, <3>2
    <3> QED  BY <1>1, <1>3, <1>4, <3>2, <3>3
  <2> QED  BY <2>1, <2>2
<1> QED  BY <1>4, <1>6, <1>7

\* Snapshots of equal hash agree in what is published about them.
LEMMA HashDecides ==
  ASSUME NEW s, NEW t, Hash(s) = Hash(t)
  PROVE  /\ s.over = t.over
         /\ \A f \in Files : s.trees[f].means = t.trees[f].means /\ s.trees[f].by = t.trees[f].by
<1>1. /\ [f \in Files |-> <<s.trees[f].means, s.trees[f].by>>] =
           [f \in Files |-> <<t.trees[f].means, t.trees[f].by>>]
      /\ s.over = t.over
  BY DEF Hash
<1>2. \A f \in Files : <<s.trees[f].means, s.trees[f].by>> = <<t.trees[f].means, t.trees[f].by>>
  <2> SUFFICES ASSUME NEW f \in Files
               PROVE  <<s.trees[f].means, s.trees[f].by>> = <<t.trees[f].means, t.trees[f].by>>
    OBVIOUS
  <2>1. [g \in Files |-> <<s.trees[g].means, s.trees[g].by>>][f] =
          [g \in Files |-> <<t.trees[g].means, t.trees[g].by>>][f]
    BY <1>1
  <2> QED  BY <2>1
<1> QED  BY <1>1, <1>2

\* A commit that ends without publishing; and the answer to the request.
LEMMA QuietEnd ==
  ASSUME Inv,
         UNCHANGED <<diskVars, regVars, cacheVars, runVars, outVars>>,
         \/ wpc' \in {"idle", "failed"}
         \/ wpc' = "done" /\ kind = "plan"
  PROVE  Inv'
<1>0. CacheInv /\ OutInv /\ Typed
  BY DEF Inv, CacheInv
<1> USE DEF diskVars, regVars, cacheVars, runVars, outVars
<1>1. Typed'
  BY <1>0 DEF Typed, InputTyped, RegistryTyped, CacheTyped, WriterTyped
<1>2. Generations' /\ RunFresh' /\ CachePristine' /\ CacheBounded' /\ CacheFresh'
  BY <1>0, CacheFrame
<1>3. Returned' = Returned
  BY DEF Returned
<1>4. Staging' /\ ReloadReflectsInputs'
  BY DEF Staging, ReloadReflectsInputs
<1>5. Published'
  BY <1>0, <1>3 DEF OutInv, Published
<1> QED  BY <1>1, <1>2, <1>4, <1>5 DEF Inv, CacheInv, OutInv

\* Identical inputs: the live snapshot is already what this reload would make.
LEMMA SkipStep == Inv /\ Skip => Inv'
<1> SUFFICES ASSUME Inv, Skip PROVE Inv'
  OBVIOUS
<1>0. CacheInv /\ OutInv /\ Typed
  BY DEF Inv, CacheInv
<1>1. /\ wpc = "commit" /\ kind # "plan" /\ print # <<>> /\ print = published
      /\ wpc' = "done"
      /\ UNCHANGED <<diskVars, regVars, cacheVars, runVars, outVars>>
  BY DEF Skip, AtCommit, runVars
<1> USE DEF diskVars, regVars, cacheVars, runVars, outVars
<1>2. Typed'
  BY <1>0, <1>1 DEF Typed, InputTyped, RegistryTyped, CacheTyped, WriterTyped
<1>3. Generations' /\ RunFresh' /\ CachePristine' /\ CacheBounded' /\ CacheFresh'
  BY <1>0, <1>1, CacheFrame
<1>4. Returned' = Returned
  BY <1>1 DEF Returned
<1>5. Staging'
  BY <1>1 DEF Staging
<1>6. Published'
  BY <1>0, <1>1, <1>4 DEF OutInv, Published
<1>7. ReloadReflectsInputs'
  <2>1. published = <<gen0, bytes>> /\ kind # "override"
    BY <1>0, <1>1 DEF OutInv, Staging
  <2>2. published[1] = gen0 /\ published[2] = bytes /\ published[1] >= gen0
    BY <1>0, <2>1, TypeFacts
  <2>3. /\ live.over = 0 /\ \A f \in Files : live.trees[f].means = Meaning(bytes[f])
        /\ \A f \in Files : bytes[f] # 0 => \A v \in floor : live.trees[f].by >= v
    BY <1>0, <1>1, <2>2 DEF OutInv, Published
  <2> QED  BY <1>1, <2>1, <2>3 DEF ReloadReflectsInputs
<1> QED  BY <1>2, <1>3, <1>5, <1>6, <1>7 DEF Inv, CacheInv, OutInv

\* The new snapshot, or the live one of equal hash, shows the inputs; its fingerprint
\* is published with it.
LEMMA CommitStep == Inv /\ Commit => Inv'
<1> SUFFICES ASSUME Inv, Commit PROVE Inv'
  OBVIOUS
<1>0. CacheInv /\ OutInv /\ Typed
  BY DEF Inv, CacheInv
<1>1. /\ wpc = "commit" /\ kind # "plan" /\ wpc' = "done" /\ published' = print
      /\ \/ Hash(Value) = Hash(live) /\ UNCHANGED <<live, past>>
         \/ live' = Value /\ past' = past \cup ({live} \ {NoState})
      /\ UNCHANGED <<diskVars, regVars, cacheVars, runVars>>
  BY DEF Commit, Merge, AtCommit, runVars
<1> USE DEF diskVars, regVars, cacheVars, runVars
<1> HIDE DEF Value, Hash
<1>2. /\ Value \in Snapshots
      /\ Value.over = IF kind = "override" THEN 1 ELSE 0
      /\ \A f \in Files : /\ Value.trees[f].means = Meaning(bytes[f])
                          /\ bytes[f] # 0 => \A v \in floor : Value.trees[f].by >= v
  BY <1>1, ValueReflects
<1>3. live' \in Snapshots /\ past' \subseteq Snapshots
  BY <1>0, <1>1, <1>2 DEF Typed, WriterTyped
<1>4. /\ live'.over = IF kind = "override" THEN 1 ELSE 0
      /\ \A f \in Files : /\ live'.trees[f].means = Meaning(bytes[f])
                          /\ bytes[f] # 0 => \A v \in floor : live'.trees[f].by >= v
  <2>1. CASE live' = Value
    BY <1>2, <2>1
  <2>2. CASE Hash(Value) = Hash(live) /\ live' = live
    <3>1. /\ Value.over = live.over
          /\ \A f \in Files : /\ Value.trees[f].means = live.trees[f].means
                              /\ Value.trees[f].by = live.trees[f].by
      BY <2>2, HashDecides
    <3> QED  BY <1>2, <2>2, <3>1
  <2> QED  BY <1>1, <2>1, <2>2
<1>5. Typed'
  BY <1>0, <1>1, <1>3 DEF Typed, InputTyped, RegistryTyped, CacheTyped, WriterTyped
<1>6. Generations' /\ RunFresh' /\ CachePristine' /\ CacheBounded' /\ CacheFresh'
  BY <1>0, <1>1, CacheFrame
<1>7. Returned' = Returned
  BY <1>1 DEF Returned
<1>8. Staging'
  BY <1>1 DEF Staging
<1>9. ReloadReflectsInputs'
  BY <1>1, <1>4 DEF ReloadReflectsInputs
<1>10. Published'
  <2> SUFFICES ASSUME print # <<>> PROVE Published'
    BY <1>1 DEF Published
  <2>1. print = <<gen0, bytes>> /\ kind # "override"
    BY <1>0, <1>1 DEF OutInv, Staging
  <2>2. published'[1] = gen0 /\ published'[2] = bytes
    BY <1>1, <2>1
  <2>3. gen0 \in Nat /\ gen0 <= generation /\ (gen0 = generation => Returned \subseteq floor)
    BY <1>0, TypeFacts DEF CacheInv, Generations
  <2> QED  BY <1>1, <1>4, <1>7, <2>1, <2>2, <2>3 DEF Published
<1> QED  BY <1>5, <1>6, <1>8, <1>9, <1>10 DEF Inv, CacheInv, OutInv

\* A rollback forgets the published fingerprint.
LEMMA RollbackStep == Inv /\ Rollback => Inv'
<1> SUFFICES ASSUME Inv, Rollback PROVE Inv'
  OBVIOUS
<1>0. CacheInv /\ OutInv /\ Typed
  BY DEF Inv, CacheInv
<1>1. /\ wpc = "idle" /\ wpc' = wpc /\ runs < MaxRuns /\ runs' = runs + 1
      /\ live' \in past /\ past' = past \cup {live} /\ published' = <<>>
      /\ UNCHANGED <<kind, file, bytes, gen0, gen1, staged, print, floor, diskVars,
                     regVars, cacheVars>>
  BY DEF Rollback, Restore
<1> USE DEF diskVars, regVars, cacheVars
<1>2. runs' \in 0 .. MaxRuns
  BY <1>0, <1>1, AssemblyAssumption DEF Typed, InputTyped
<1>3. Typed'
  BY <1>0, <1>1, <1>2 DEF Typed, InputTyped, RegistryTyped, CacheTyped, WriterTyped
<1>4. Generations' /\ RunFresh' /\ CachePristine' /\ CacheBounded' /\ CacheFresh'
  BY <1>0, <1>1, CacheFrame
<1>5. Staging' /\ Published' /\ ReloadReflectsInputs'
  BY <1>1 DEF Staging, Published, ReloadReflectsInputs
<1> QED  BY <1>3, <1>4, <1>5 DEF Inv, CacheInv, OutInv

\* What a miss leaves in the cache: the new entry, with the evicted one gone.
LEMMA RetainKeeps ==
  ASSUME Inv, wpc = "decode", Retain(file),
         NEW new, new = [sum |-> bytes[file], gen |-> gen1,
                         tree |-> Decoded(bytes[file], decoder)]
  PROVE  /\ CacheTyped' /\ CacheBounded'
         /\ entries'[file] = new
         /\ \A f \in Files \ {file} : entries'[f] = entries[f] \/ entries'[f] = NoEntry
<1>0. Typed /\ CacheBounded /\ Staging
  BY DEF Inv, CacheInv, OutInv
<1>1. file \in Files /\ bytes[file] # 0 /\ bytes[file] \in Contents
  BY <1>0, TypeFacts DEF Staging
<1>2. new.sum = bytes[file] /\ new.sum # 0
  BY <1>1
<1>3. new \in [sum : Contents, gen : Nat, tree : Trees]
  <2>1. Decoded(bytes[file], decoder) \in Trees
    BY <1>0, <1>1, TypeFacts, AssemblyAssumption DEF Decoded, Trees, Meaning, Contents
  <2> QED  BY <1>0, <1>1, <2>1, TypeFacts
<1>4. NoEntry \in [sum : Contents, gen : Nat, tree : Trees] /\ NoEntry.sum = 0
  BY AssemblyAssumption DEF NoEntry, NoTree, Trees, Contents
<1> HIDE DEF NoEntry
<1>5. /\ keys \in Seq(Files) /\ Len(keys) \in Nat /\ Len(keys) <= CacheCap
      /\ \A i \in 1 .. Len(keys) : keys[i] \in Files
      /\ next \in 0 .. CacheCap - 1 /\ next \in Nat /\ CacheCap \in Nat \ {0}
      /\ entries \in [Files -> [sum : Contents, gen : Nat, tree : Trees]]
  BY <1>0, AssemblyAssumption DEF Typed, CacheTyped
<1>6. /\ \A i, j \in 1 .. Len(keys) : i # j => keys[i] # keys[j]
      /\ \A f \in Files : entries[f].sum # 0 <=> \E i \in 1 .. Len(keys) : keys[i] = f
  BY <1>0, <1>5 DEF CacheBounded
<1>7. ASSUME /\ \A i, j \in 1 .. Len(keys') : i # j => keys'[i] # keys'[j]
             /\ \A f \in Files : entries'[f].sum # 0 <=> \E i \in 1 .. Len(keys') : keys'[i] = f
             /\ \A i \in 1 .. Len(keys') : keys'[i] \in Files
      PROVE  CacheBounded'
  BY <1>7 DEF CacheBounded
<1>8. CASE entries[file].sum # 0
  <2>1. /\ entries' = [entries EXCEPT ![file] = new] /\ keys' = keys /\ next' = next
    BY <1>8 DEF Retain
  <2>2. entries'[file] = new /\ \A f \in Files \ {file} : entries'[f] = entries[f]
    BY <1>1, <1>5, <2>1
  <2>3. CacheTyped'
    BY <1>3, <1>5, <2>1 DEF CacheTyped
  <2>4. CacheBounded'
    BY <1>1, <1>2, <1>5, <1>6, <1>7, <1>8, <2>1, <2>2
  <2> QED  BY <2>2, <2>3, <2>4
<1>9. CASE entries[file].sum = 0 /\ Len(keys) < CacheCap
  <2>1. /\ entries' = [entries EXCEPT ![file] = new] /\ keys' = Append(keys, file)
        /\ next' = next
    BY <1>9 DEF Retain
  <2>2. entries'[file] = new /\ \A f \in Files \ {file} : entries'[f] = entries[f]
    BY <1>1, <1>5, <2>1
  <2>3. /\ keys' \in Seq(Files) /\ Len(keys') = Len(keys) + 1 /\ keys'[Len(keys) + 1] = file
        /\ \A i \in 1 .. Len(keys) : keys'[i] = keys[i]
        /\ Len(keys') <= CacheCap
        /\ \A i \in 1 .. Len(keys') : i \in 1 .. Len(keys) \/ i = Len(keys) + 1
        /\ \A i \in 1 .. Len(keys) : i \in 1 .. Len(keys') /\ i # Len(keys) + 1
        /\ Len(keys) + 1 \in 1 .. Len(keys')
    BY <1>1, <1>5, <1>9, <2>1
  <2>4. CacheTyped'
    BY <1>3, <1>5, <2>1, <2>3 DEF CacheTyped
  <2>5. \A i \in 1 .. Len(keys) : keys[i] # file
    BY <1>1, <1>6, <1>9
  <2>6. \A i, j \in 1 .. Len(keys') : i # j => keys'[i] # keys'[j]
    BY <1>6, <2>3, <2>5
  <2>7. \A f \in Files : entries'[f].sum # 0 <=> \E i \in 1 .. Len(keys') : keys'[i] = f
    BY <1>1, <1>2, <1>6, <2>2, <2>3, <2>5
  <2>8. CacheBounded'
    BY <1>1, <1>5, <1>7, <2>3, <2>6, <2>7
  <2> QED  BY <2>2, <2>4, <2>8
<1>10. CASE entries[file].sum = 0 /\ ~(Len(keys) < CacheCap)
  <2> DEFINE n == next + 1
             old == keys[n]
  <2>1. /\ entries' = [entries EXCEPT ![old] = NoEntry, ![file] = new]
        /\ keys' = [keys EXCEPT ![n] = file]
        /\ next' = (next + 1) % CacheCap
    BY <1>10 DEF Retain
  <2>2. n \in 1 .. Len(keys) /\ old \in Files
    BY <1>5, <1>10
  <2>3. \A i \in 1 .. Len(keys) : keys[i] # file
    BY <1>1, <1>6, <1>10
  <2>4. next' \in 0 .. CacheCap - 1
    BY <1>5, <2>1
  <2> HIDE DEF n, old
  <2>5. /\ entries'[file] = new
        /\ \A f \in Files \ {file} : entries'[f] = IF f = old THEN NoEntry ELSE entries[f]
        /\ entries' \in [Files -> [sum : Contents, gen : Nat, tree : Trees]]
    BY <1>1, <1>3, <1>4, <1>5, <2>1, <2>2
  <2>6. /\ keys' \in Seq(Files) /\ Len(keys') = Len(keys) /\ keys'[n] = file
        /\ \A i \in 1 .. Len(keys) : i # n => keys'[i] = keys[i]
    BY <1>1, <1>5, <2>1, <2>2
  <2>7. CacheTyped'
    BY <1>5, <2>4, <2>5, <2>6 DEF CacheTyped
  <2>8. \A i, j \in 1 .. Len(keys') : i # j => keys'[i] # keys'[j]
    BY <1>6, <2>3, <2>6
  <2>9. ASSUME NEW f \in Files
        PROVE  entries'[f].sum # 0 <=> \E i \in 1 .. Len(keys') : keys'[i] = f
    <3>1. CASE f = file
      BY <1>2, <2>2, <2>5, <2>6, <3>1
    <3>2. CASE f # file /\ f = old
      <4>1. \A i \in 1 .. Len(keys) : i # n => keys[i] # f
        BY <1>6, <2>2, <3>2 DEF old
      <4> QED  BY <1>4, <2>5, <2>6, <3>2, <4>1
    <3>3. CASE f # file /\ f # old
      <4>1. keys[n] # f
        BY <3>3 DEF old
      <4> QED  BY <1>6, <2>5, <2>6, <3>3, <4>1
    <3> QED  BY <3>1, <3>2, <3>3
  <2>10. \A i \in 1 .. Len(keys') : keys'[i] \in Files
    BY <1>1, <1>5, <2>6
  <2>11. CacheBounded'
    BY <1>7, <2>8, <2>9, <2>10
  <2> QED  BY <2>5, <2>7, <2>11
<1> QED  BY <1>8, <1>9, <1>10

\* A hit is as good as a decode: the entry is untouched, of these bytes, and its
\* decoder is no older than the registrations that had returned when the run began.
LEMMA DecodeStep == Inv /\ Decode => Inv'
<1> SUFFICES ASSUME Inv, Decode PROVE Inv'
  OBVIOUS
<1>0. CacheInv /\ OutInv /\ Typed
  BY DEF Inv, CacheInv
<1> DEFINE new == [sum |-> bytes[file], gen |-> gen1, tree |-> Decoded(bytes[file], decoder)]
<1>1. /\ wpc = "decode" /\ staged' = [staged EXCEPT ![file] = entries'[file].tree]
      /\ file' = file + 1 /\ wpc' = "layer"
      /\ UNCHANGED <<kind, bytes, gen0, gen1, print, floor, runs, diskVars, regVars, outVars>>
      /\ (Hit(file) /\ UNCHANGED cacheVars) \/ Retain(file)
  BY DEF Decode
<1> USE DEF diskVars, regVars, outVars
<1>2. /\ file \in Files /\ bytes[file] # 0 /\ bytes[file] \in Contents
      /\ file \in Nat /\ file <= NFiles /\ NFiles \in Nat
      /\ \A f \in Files : IF f < file THEN StagedWell(f) ELSE staged[f] = NoTree
  BY <1>0, <1>1, TypeFacts DEF OutInv, Staging
<1>3. /\ gen0 <= gen1 /\ gen1 <= generation /\ gen0 \in Nat /\ gen1 \in Nat
      /\ generation \in Nat /\ decoder \in Nat
      /\ (\A v \in floor : decoder >= v) /\ (\A v \in Returned : decoder >= v)
  BY <1>0, <1>1, TypeFacts DEF CacheInv, Generations
<1>4. /\ new.sum = bytes[file] /\ new.gen = gen1 /\ new.tree = Decoded(bytes[file], decoder)
      /\ new.tree.by = decoder /\ new.tree.means = Meaning(bytes[file])
  BY DEF Decoded
<1>5. NoEntry.sum = 0 /\ NoEntry.gen = 0
  BY DEF NoEntry
<1>6. Hit(file) => /\ entries[file].sum = bytes[file] /\ entries[file].gen = gen1
  BY DEF Hit
<1> HIDE DEF new, Hit, NoEntry
<1>7. /\ CacheTyped' /\ CacheBounded'
      /\ \/ Hit(file) /\ entries' = entries
         \/ /\ entries'[file] = new
            /\ \A f \in Files \ {file} : entries'[f] = entries[f] \/ entries'[f] = NoEntry
  <2>1. CASE Hit(file) /\ UNCHANGED cacheVars
    BY <1>0, <2>1 DEF CacheInv, Typed, CacheTyped, CacheBounded, cacheVars
  <2>2. CASE Retain(file)
    BY <1>1, <2>2, RetainKeeps DEF new
  <2> QED  BY <1>1, <2>1, <2>2
<1>8. \A f \in Files : \/ entries'[f] = entries[f] \/ entries'[f] = NoEntry
                       \/ f = file /\ entries'[f] = new
  BY <1>7
<1>9. Returned' = Returned
  BY <1>1 DEF Returned
<1>10. Generations'
  <2>1. \A f \in Files : entries'[f].gen <= generation
    BY <1>0, <1>3, <1>4, <1>5, <1>8 DEF CacheInv, Generations
  <2> QED  BY <1>0, <1>1, <1>9, <2>1 DEF CacheInv, Generations
<1>11. RunFresh'
  BY <1>0, <1>1, <1>3, <1>4, <1>5, <1>8 DEF CacheInv, RunFresh
<1>12. CachePristine'
  BY <1>0, <1>4, <1>5, <1>8 DEF CacheInv, CachePristine
<1>13. CacheFresh'
  BY <1>0, <1>1, <1>3, <1>4, <1>5, <1>8, <1>9 DEF CacheInv, CacheFresh
<1>14. /\ entries'[file].tree.means = Meaning(bytes[file])
       /\ \A v \in floor : entries'[file].tree.by >= v
  <2>1. CASE entries'[file] = new
    BY <1>3, <1>4, <2>1
  <2>2. CASE Hit(file) /\ entries' = entries
    <3>1. entries[file].tree = Decoded(bytes[file], entries[file].tree.by)
      BY <1>0, <1>2, <1>6, <2>2 DEF CacheInv, CachePristine
    <3>2. entries[file].tree.means = Meaning(bytes[file])
      BY <3>1 DEF Decoded
    <3>3. entries[file].gen >= gen0 /\ entries[file].sum # 0
      BY <1>2, <1>3, <1>6, <2>2
    <3> QED  BY <1>0, <1>2, <2>2, <3>2, <3>3 DEF CacheInv, RunFresh
  <2> QED  BY <1>7, <2>1, <2>2
<1>15. /\ staged'[file] = entries'[file].tree
       /\ \A f \in Files \ {file} : staged'[f] = staged[f]
       /\ staged' \in [Files -> Trees]
  BY <1>0, <1>1, <1>2, <1>7 DEF Typed, WriterTyped, CacheTyped
<1>16. Typed'
  <2>1. file' \in 0 .. NFiles + 1
    BY <1>1, <1>2
  <2>2. WriterTyped'
    BY <1>0, <1>1, <1>15, <2>1 DEF Typed, WriterTyped
  <2>3. InputTyped' /\ RegistryTyped'
    BY <1>0, <1>1 DEF Typed, InputTyped, RegistryTyped
  <2> QED  BY <1>7, <2>2, <2>3 DEF Typed
<1>17. Staging'
  <2>1. \A f \in Files : (f < file + 1 <=> (f < file \/ f = file)) /\ ~(file < file)
    BY <1>0, <1>2, TypeFacts
  <2>2. \A f \in Files : f = file => StagedWell(f)'
    BY <1>1, <1>2, <1>14, <1>15 DEF StagedWell
  <2>3. \A f \in Files : f < file => StagedWell(f)'
    BY <1>1, <1>2, <1>15, <2>1 DEF StagedWell
  <2>4. \A f \in Files : ~(f < file + 1) => staged'[f] = NoTree
    BY <1>2, <1>15, <2>1
  <2>5. file + 1 > 0
    BY <1>2
  <2> QED  BY <1>1, <2>1, <2>2, <2>3, <2>4, <2>5 DEF Staging
<1>18. Published' /\ ReloadReflectsInputs'
  BY <1>0, <1>1, <1>9 DEF OutInv, Published, ReloadReflectsInputs
<1> QED  BY <1>7, <1>10, <1>11, <1>12, <1>13, <1>16, <1>17, <1>18 DEF Inv, CacheInv, OutInv

-----------------------------------------------------------------------------
(* The theorems.                                                           *)

\* Every step keeps the invariant.
LEMMA InvStep == Inv /\ [AssemblyNext]_assemblyVars => Inv'
<1> SUFFICES ASSUME Inv, [AssemblyNext]_assemblyVars PROVE Inv'
  OBVIOUS
<1>1. CASE DecodeFails \/ CommitFails \/ EndPlan \/ Answer
  <2>1. UNCHANGED <<diskVars, regVars, cacheVars, runVars, outVars>>
    BY <1>1 DEF DecodeFails, CommitFails, EndPlan, Answer, Merge, AtCommit, runVars
  <2>2. wpc' \in {"idle", "failed"} \/ (wpc' = "done" /\ kind = "plan")
    BY <1>1 DEF DecodeFails, CommitFails, EndPlan, Answer
  <2> QED  BY <2>1, <2>2, QuietEnd
<1>2. CASE UNCHANGED assemblyVars
  <2>1. UNCHANGED <<diskVars, regVars, cacheVars, wpc, runVars, outVars>>
    BY <1>2 DEF assemblyVars
  <2>2. OutInv'
    BY <2>1, OutFrame DEF Inv, regVars
  <2>3. Typed'
    BY <2>1 DEF Inv, CacheInv, Typed, InputTyped, RegistryTyped, CacheTyped, WriterTyped,
                diskVars, regVars, cacheVars, runVars, outVars
  <2>4. Generations' /\ RunFresh' /\ CachePristine' /\ CacheBounded' /\ CacheFresh'
    BY <2>1, CacheFrame DEF Inv, runVars
  <2> QED  BY <2>2, <2>3, <2>4 DEF Inv, CacheInv
<1> QED
  BY <1>1, <1>2, EditStep, InstallStep, AdvanceStep, BeginStep, ReadFileStep, SampleStep,
     DecodeStep, EndAssemblyStep, SkipStep, CommitStep, RollbackStep
     DEF AssemblyNext, Register, Finished

\* Nothing is cached or published at first.
LEMMA InvInit == AssemblyInit => Inv
<1> SUFFICES ASSUME AssemblyInit PROVE Inv
  OBVIOUS
<1> USE AssemblyAssumption DEF AssemblyInit
<1>1. NoTree \in Trees /\ NoTree.by = 0
  BY DEF NoTree, Trees, Contents
<1>2. NoEntry \in [sum : Contents, gen : Nat, tree : Trees] /\ NoEntry.sum = 0 /\ NoEntry.gen = 0
  BY <1>1 DEF NoEntry, Contents
<1>3. NoState \in Snapshots /\ Nothing \in [Files -> Trees]
  BY <1>1 DEF NoState, Nothing, Snapshots
<1>4. InputTyped
  BY DEF InputTyped, Contents
<1>5. RegistryTyped
  BY DEF RegistryTyped
<1>6. CacheTyped
  BY <1>2 DEF CacheTyped
<1>7. WriterTyped
  BY <1>3 DEF WriterTyped
<1>8. Returned = {} /\ \A f \in Files : entries[f].sum = 0 /\ entries[f].gen = 0
  BY <1>2 DEF Returned
<1>9. Generations /\ RunFresh /\ CachePristine /\ CacheBounded /\ CacheFresh
  BY <1>8 DEF Generations, RunFresh, CachePristine, CacheBounded, CacheFresh
<1>10. OutInv
  BY DEF OutInv, Staging, Published, ReloadReflectsInputs
<1> QED  BY <1>4, <1>5, <1>6, <1>7, <1>9, <1>10 DEF Inv, CacheInv, Typed

\* The invariant holds throughout.
LEMMA InvAlways == AssemblySpec => []Inv
BY InvInit, InvStep, PTL DEF AssemblySpec

\* A layer taken from the cache is what decoding would give: made of the same bytes, by
\* a decoder at least as new as every registration of its generation, untouched by
\* later stages; and the list of keys bounds the map (getOrDecode, retain).
THEOREM CacheIsSound == AssemblySpec => []CacheSound
<1>1. Inv => CacheSound
  BY DEF Inv, CacheInv, CacheSound, AssemblyTypeOK, Typed, InputTyped, RegistryTyped,
         CacheTyped, WriterTyped
<1> QED  BY <1>1, InvAlways, PTL

\* A reload that succeeds leaves the manager on the bytes it read, whether it hit the
\* cache, skipped on an equal fingerprint, kept a snapshot of equal hash or published
\* a new one, with rollbacks and registrations in between (assemble, commit).
THEOREM ReloadsReflectInputs == AssemblySpec => []ReloadReflectsInputs
<1>1. Inv => ReloadReflectsInputs
  BY DEF Inv, OutInv
<1> QED  BY <1>1, InvAlways, PTL
=============================================================================
