------------------------------- MODULE Assembly -------------------------------
(***************************************************************************)
(* Assembly and commit (assemble.go, layer_cache.go, input_fingerprint.go, *)
(* commit.go, codec/registry.go): the writer reads the files, decodes them *)
(* through a cache keyed by content and codec generation, fingerprints the *)
(* inputs to skip a reload that cannot change anything, and publishes.     *)
(* Files are edited and decoders are registered concurrently.              *)
(***************************************************************************)
EXTENDS Integers, Sequences, FiniteSets

CONSTANTS NFiles,      \* files of one directory, in the order of their names
          MaxContent,  \* contents 1 .. MaxContent; 0 is a missing file
          Registrars,  \* calls of codec.Register for the files' codec
          CacheCap,    \* maxCachedLayers
          Kinds,       \* the requests: "reload", "override", "plan", "rollback"
          MaxEdits, MaxRuns   \* bounds

ASSUME AssemblyAssumption ==
  /\ NFiles \in Nat \ {0} /\ MaxContent \in Nat \ {0} /\ CacheCap \in Nat \ {0}
  /\ MaxEdits \in Nat /\ MaxRuns \in Nat
  /\ Kinds \subseteq {"reload", "override", "plan", "rollback"}

Files == 1 .. NFiles
Contents == 0 .. MaxContent

VARIABLES
  content,    \* Files -> the bytes on disk
  decoder,    \* the decoder installed in the registry, numbered by Store
  generation, \* codec.Generation
  regpc,      \* Registrars -> "idle", "stored", "returned"
  regver,     \* Registrars -> the decoder it installed
  entries,    \* layerCache.entries: Files -> [sum, gen, tree]; sum = 0 is nil
  keys, next, \* layerCache.keys, .next (from 0)
  wpc,        \* where the writer stands
  kind,       \* the request being served
  file,       \* the file at hand
  bytes,      \* Files -> the bytes read
  gen0,       \* the generation sampled at the start of the assembly
  gen1,       \* the generation sampled for the file at hand
  staged,     \* Files -> the tree staged for it
  print,      \* the input fingerprint; <<>> is zero
  published,  \* m.publishedFingerprint
  live,       \* the live snapshot: [trees, over]
  past,       \* the snapshots it replaced
  userCode,   \* 1 when hooks, validators, observers ... are configured
  floor,      \* the decoders whose Register had returned at the start
  edits, runs \* counters for the bounds

diskVars == <<content, edits, userCode>>
regVars == <<decoder, generation, regpc, regver>>
cacheVars == <<entries, keys, next>>
runVars == <<kind, file, bytes, gen0, gen1, staged, print, floor, runs>>
outVars == <<published, live, past>>
assemblyVars == <<diskVars, regVars, cacheVars, wpc, runVars, outVars>>

\* Contents 1 and 2 differ in a comment only; what decoder v makes of bytes c.
Meaning(c) == IF c = 2 THEN 1 ELSE c
Decoded(c, v) == [means |-> Meaning(c), by |-> v, hooked |-> 0]
NoTree == [means |-> 0, by |-> 0, hooked |-> 0]

\* The stages after merge rewrite the tree in place.
Hooked(t) == [t EXCEPT !.hooked = 1]

NoEntry == [sum |-> 0, gen |-> 0, tree |-> NoTree]
Nothing == [f \in Files |-> NoTree]
NoState == [trees |-> Nothing, over |-> 0]

AssemblyInit ==
  /\ content = [f \in Files |-> 1] /\ edits = 0 /\ userCode \in 0 .. 1
  /\ decoder = 0 /\ generation = 0
  /\ regpc = [r \in Registrars |-> "idle"] /\ regver = [r \in Registrars |-> 0]
  /\ entries = [f \in Files |-> NoEntry] /\ keys = <<>> /\ next = 0
  /\ wpc = "idle" /\ kind = "reload" /\ file = 0
  /\ bytes = [f \in Files |-> 0] /\ gen0 = 0 /\ gen1 = 0
  /\ staged = Nothing /\ print = <<>> /\ floor = {} /\ runs = 0
  /\ published = <<>> /\ live = NoState /\ past = {}

-----------------------------------------------------------------------------
(* The environment.                                                        *)

\* A file is written, or removed.
Edit(f, c) ==
  /\ edits < MaxEdits /\ content[f] # c
  /\ content' = [content EXCEPT ![f] = c] /\ edits' = edits + 1
  /\ UNCHANGED userCode
  /\ UNCHANGED <<regVars, cacheVars, wpc, runVars, outVars>>

\* Mistake: the generation advances before the decoder is installed.
InstallLate(r) ==
  /\ regpc[r] = "idle" /\ regpc' = [regpc EXCEPT ![r] = "stored"]
  /\ generation' = generation + 1
  /\ UNCHANGED <<decoder, regver, diskVars, cacheVars, wpc, runVars, outVars>>

\* Mistake, second half.
AdvanceLate(r) ==
  /\ regpc[r] = "stored" /\ regpc' = [regpc EXCEPT ![r] = "returned"]
  /\ decoder' = decoder + 1 /\ regver' = [regver EXCEPT ![r] = decoder + 1]
  /\ UNCHANGED <<generation, diskVars, cacheVars, wpc, runVars, outVars>>

RegisterReversed(r) == InstallLate(r) \/ AdvanceLate(r)

\* Register stores the decoder, then advances the generation.
Install(r) ==
  /\ regpc[r] = "idle" /\ regpc' = [regpc EXCEPT ![r] = "stored"]
  /\ decoder' = decoder + 1 /\ regver' = [regver EXCEPT ![r] = decoder + 1]
  /\ UNCHANGED <<generation, diskVars, cacheVars, wpc, runVars, outVars>>

Advance(r) ==
  /\ regpc[r] = "stored" /\ regpc' = [regpc EXCEPT ![r] = "returned"]
  /\ generation' = generation + 1
  /\ UNCHANGED <<decoder, regver, diskVars, cacheVars, wpc, runVars, outVars>>

Register(r) == Install(r) \/ Advance(r)

-----------------------------------------------------------------------------
(* The writer assembles.                                                   *)

Returned == {regver[r] : r \in {q \in Registrars : regpc[q] = "returned"}}

\* New begins with a reload, and there is no manager if that fails.
Alive(k) == IF runs = 0 THEN k = "reload" ELSE live # NoState

\* assemble samples the generation and begins to read.
Begin(k) ==
  /\ wpc = "idle" /\ runs < MaxRuns /\ k \in Kinds \ {"rollback"} /\ Alive(k)
  /\ wpc' = "read" /\ kind' = k /\ file' = 1 /\ runs' = runs + 1
  /\ gen0' = generation /\ staged' = Nothing /\ floor' = Returned
  /\ UNCHANGED <<bytes, gen1, print, diskVars, regVars, cacheVars, outVars>>

\* collectDir reads the files of the directory, in order.
ReadFile ==
  /\ wpc = "read"
  /\ bytes' = [bytes EXCEPT ![file] = content[file]]
  /\ IF file < NFiles THEN file' = file + 1 /\ UNCHANGED wpc
                      ELSE file' = 1 /\ wpc' = "layer"
  /\ UNCHANGED <<kind, gen0, gen1, staged, print, floor, runs, diskVars, regVars,
                 cacheVars, outVars>>

\* assembleFileLayers samples the generation before it looks up the decoder.
Sample ==
  /\ wpc = "layer" /\ file <= NFiles
  /\ IF bytes[file] = 0 THEN file' = file + 1 /\ UNCHANGED <<wpc, gen1>>
                        ELSE gen1' = generation /\ wpc' = "decode" /\ UNCHANGED file
  /\ UNCHANGED <<kind, bytes, gen0, staged, print, floor, runs, diskVars, regVars,
                 cacheVars, outVars>>

Hit(f) == entries[f].sum = bytes[f] /\ entries[f].gen = gen1

\* Mistake: the evicted key leaves the list but not the map.
RetainLeaking(f) ==
  LET new == [sum |-> bytes[f], gen |-> gen1, tree |-> Decoded(bytes[f], decoder)]
  IN /\ entries' = [entries EXCEPT ![f] = new]
     /\ IF entries[f].sum # 0 THEN UNCHANGED <<keys, next>>
        ELSE IF Len(keys) < CacheCap THEN keys' = Append(keys, f) /\ UNCHANGED next
        ELSE /\ keys' = [keys EXCEPT ![next + 1] = f]
             /\ next' = (next + 1) % CacheCap

\* Mistake: nothing is evicted.
RetainUnbounded(f) ==
  /\ entries' = [entries EXCEPT ![f] = [sum |-> bytes[f], gen |-> gen1,
                                       tree |-> Decoded(bytes[f], decoder)]]
  /\ keys' = IF entries[f].sum # 0 THEN keys ELSE Append(keys, f)
  /\ UNCHANGED next

\* A miss decodes and retains the result; a full cache evicts its oldest key.
Retain(f) ==
  LET old == keys[next + 1]
      new == [sum |-> bytes[f], gen |-> gen1, tree |-> Decoded(bytes[f], decoder)]
  IN IF entries[f].sum # 0 \/ Len(keys) < CacheCap
       THEN /\ entries' = [entries EXCEPT ![f] = new]
            /\ keys' = IF entries[f].sum # 0 THEN keys ELSE Append(keys, f)
            /\ UNCHANGED next
       ELSE /\ entries' = [entries EXCEPT ![old] = NoEntry, ![f] = new]
            /\ keys' = [keys EXCEPT ![next + 1] = f]
            /\ next' = (next + 1) % CacheCap

\* getOrDecode.
Decode ==
  /\ wpc = "decode"
  /\ IF Hit(file) THEN UNCHANGED cacheVars ELSE Retain(file)
  /\ staged' = [staged EXCEPT ![file] = entries'[file].tree]
  /\ file' = file + 1 /\ wpc' = "layer"
  /\ UNCHANGED <<kind, bytes, gen0, gen1, print, floor, runs, diskVars, regVars, outVars>>

\* There is no decoder for the file, or it refuses the bytes: nothing is cached for
\* the file, and the layers decoded before it stay cached.
DecodeFails ==
  /\ wpc = "decode" /\ ~Hit(file)
  /\ wpc' = "failed"
  /\ UNCHANGED <<diskVars, regVars, cacheVars, runVars, outVars>>

\* Mistake: the fingerprint carries the generation at the end of the assembly.
FingerprintLate ==
  IF userCode = 1 \/ kind = "override" THEN <<>> ELSE <<generation, bytes>>

\* inputFingerprint: zero when a decoder was registered meanwhile, when user code
\* takes part, or when a layer is not a file.
Fingerprint ==
  IF gen0 # generation \/ userCode = 1 \/ kind = "override"
    THEN <<>> ELSE <<gen0, bytes>>

\* The layers are complete.
EndAssembly ==
  /\ wpc = "layer" /\ file > NFiles
  /\ print' = Fingerprint
  /\ wpc' = IF staged = Nothing /\ kind # "override" THEN "failed" ELSE "commit"
  /\ UNCHANGED <<kind, file, bytes, gen0, gen1, staged, floor, runs, diskVars, regVars,
                 cacheVars, outVars>>

-----------------------------------------------------------------------------
(* The writer commits.                                                     *)

\* Mistake: merge works on the cached trees themselves.
MergeAliasing ==
  /\ entries' = [f \in Files |-> IF staged[f] # NoTree /\ entries[f].tree = staged[f]
                                   THEN [entries[f] EXCEPT !.tree = Hooked(@)]
                                   ELSE entries[f]]
  /\ UNCHANGED <<keys, next>>

\* Merge works on clones of the cached trees.
Merge == UNCHANGED cacheVars

\* The snapshot the stages produce.
Value == [trees |-> [f \in Files |-> IF staged[f] = NoTree THEN NoTree
                                                         ELSE Hooked(staged[f])],
          over |-> IF kind = "override" THEN 1 ELSE 0]

\* The canonical hash of a snapshot: its meaning.
Hash(s) == <<[f \in Files |-> <<s.trees[f].means, s.trees[f].by>>], s.over>>

AtCommit == UNCHANGED <<kind, file, bytes, gen0, gen1, staged, print, floor, runs,
                        diskVars, regVars>>

\* Identical inputs.
Skip ==
  /\ wpc = "commit" /\ kind # "plan"
  /\ print # <<>> /\ print = published
  /\ wpc' = "done"
  /\ UNCHANGED <<cacheVars, outVars>> /\ AtCommit

\* The stages run; an equal hash publishes nothing.
Commit ==
  /\ wpc = "commit" /\ kind # "plan"
  /\ print = <<>> \/ print # published
  /\ Merge
  /\ wpc' = "done" /\ published' = print
  /\ IF Hash(Value) = Hash(live)
       THEN UNCHANGED <<live, past>>
       ELSE live' = Value /\ past' = past \cup ({live} \ {NoState})
  /\ AtCommit

\* A stage fails, or the context is canceled.
CommitFails ==
  /\ wpc = "commit"
  /\ Merge
  /\ wpc' = "failed"
  /\ UNCHANGED outVars /\ AtCommit

\* Plan leaves manager state alone.
EndPlan ==
  /\ wpc = "commit" /\ kind = "plan"
  /\ Merge
  /\ wpc' = "done"
  /\ UNCHANGED outVars /\ AtCommit

\* Mistake: the fingerprint of the last reload survives.
RestoreKeeping(s) ==
  /\ live' = s /\ past' = past \cup {live}
  /\ UNCHANGED published

\* applyRollback: the live state no longer reflects the last reload's inputs.
Restore(s) ==
  /\ live' = s /\ past' = past \cup {live}
  /\ published' = <<>>

Rollback ==
  /\ wpc = "idle" /\ runs < MaxRuns /\ "rollback" \in Kinds
  /\ \E s \in past : Restore(s)
  /\ runs' = runs + 1
  /\ UNCHANGED <<wpc, kind, file, bytes, gen0, gen1, staged, print, floor, diskVars,
                 regVars, cacheVars>>

\* The request is answered.
Answer ==
  /\ wpc \in {"done", "failed"} /\ wpc' = "idle"
  /\ UNCHANGED <<diskVars, regVars, cacheVars, runVars, outVars>>

\* The bound is reached, or New has failed.
Finished ==
  /\ wpc = "idle"
  /\ runs = MaxRuns \/ (runs > 0 /\ live = NoState)
  /\ UNCHANGED assemblyVars

AssemblyNext ==
  \/ \E f \in Files, c \in Contents : Edit(f, c)
  \/ \E r \in Registrars : Register(r)
  \/ \E k \in Kinds : Begin(k)
  \/ ReadFile \/ Sample \/ Decode \/ DecodeFails \/ EndAssembly
  \/ Skip \/ Commit \/ CommitFails \/ EndPlan \/ Rollback \/ Answer \/ Finished


-----------------------------------------------------------------------------

Trees == [means : Contents, by : Nat, hooked : 0 .. 1]
Snapshots == [trees : [Files -> Trees], over : 0 .. 1]

\* Every variable has its type.
AssemblyTypeOK ==
  /\ content \in [Files -> Contents] /\ bytes \in [Files -> Contents]
  /\ decoder \in Nat /\ generation \in Nat /\ gen0 \in Nat /\ gen1 \in Nat
  /\ regpc \in [Registrars -> {"idle", "stored", "returned"}]
  /\ regver \in [Registrars -> 0 .. decoder]
  /\ entries \in [Files -> [sum : Contents, gen : Nat, tree : Trees]]
  /\ keys \in Seq(Files) /\ Len(keys) <= CacheCap /\ next \in 0 .. CacheCap - 1
  /\ wpc \in {"idle", "read", "layer", "decode", "commit", "done", "failed"}
  /\ kind \in Kinds \cup {"reload"} /\ file \in 0 .. NFiles + 1
  /\ staged \in [Files -> Trees] /\ floor \subseteq 0 .. decoder
  /\ live \in Snapshots /\ past \subseteq Snapshots
  /\ userCode \in 0 .. 1 /\ edits \in 0 .. MaxEdits /\ runs \in 0 .. MaxRuns

\* A reload that succeeded leaves the manager on what it read, decoded by a
\* decoder no older than any whose Register had returned before it began, and
\* with its own override only: neither the layer cache, nor the fingerprint, nor
\* a rollback in between lets an older value pass for it.
ReloadReflectsInputs ==
  wpc = "done" /\ kind # "plan" =>
    /\ live.over = (IF kind = "override" THEN 1 ELSE 0)
    /\ \A f \in Files : /\ live.trees[f].means = Meaning(bytes[f])
                        /\ \A v \in floor : bytes[f] # 0 => live.trees[f].by >= v

\* A cached layer is what some decoder made of the recorded content, untouched by
\* the stages that ran on it.
CachePristine ==
  \A f \in Files : entries[f].sum # 0 =>
    entries[f].tree = Decoded(entries[f].sum, entries[f].tree.by)

\* The cache's list of keys and its map agree, so that the bound on the list
\* bounds the map.
CacheBounded ==
  /\ \A i, j \in 1 .. Len(keys) : i # j => keys[i] # keys[j]
  /\ {f \in Files : entries[f].sum # 0} = {keys[i] : i \in 1 .. Len(keys)}

\* A cached layer passes for one of its generation: the decoder that made it is
\* at least as new as every one registered up to that generation.
CacheFresh ==
  \A f \in Files : entries[f].sum # 0 /\ entries[f].gen = generation =>
    \A v \in Returned : entries[f].tree.by >= v

\* The layer cache answers as the decoders would: its entries are untouched by later
\* stages, of the current generation not older than a registration, and no more than it
\* has room for (getOrDecode).
CacheSound == AssemblyTypeOK /\ CachePristine /\ CacheBounded /\ CacheFresh
=============================================================================
