# A TLA+ verification project for fastconf

fastconf is a Go library that builds a typed configuration snapshot from files and
providers, publishes it behind an atomic pointer, and rebuilds it when something
changes. This directory holds TLA+ models of its concurrent core, of the providers,
watchers and consumers around it, and of the algorithms between the inputs and a
snapshot; TLC runs that check them on small instances; and TLAPS proofs for every
value of the constants.
`PROJECT.json` relates every definition to the source lines it models.

## 1. The system

```
 file system --> watcher --> coalescer --> callback (slot per directory) --+
 provider --> Watch channel --> consumeProviderEvents ------------------+  |
 Reload / Plan / Rollback (caller waits on doneCh) -------------------+ |  |
                                                                      v v  v
                          overflow token (cap 1) ........ reloadCh (cap 16)
                                                     \       |
                                                      reloadLoop (one writer)
                        assemble -> merge -> stages -> commit
                                                      |
             state pointer, history ring, subscribers, errorsCh (cap 16)
```

| Component | State it keeps | Operations | Interacts with | What is hard | What makes it correct |
|---|---|---|---|---|---|
| Reload queue and writer (`reload_queue.go`, `reload.go`, `plan.go`) | `reloadCh`, `overflowResyncCh`, `doneCh` of each call, `errorsCh` | Reload, Plan, submitAndWait, reloadLoop, runOverflowResync, publishReloadError | everything that wants a reload; the pipeline | overflow, cancellation while queued or served, shutdown at any point, two sources for one writer | no change lost, no caller stuck, no starvation, errors in order, successful reloads are visible |
| Publication, history, subscribers (`commit.go`, `history.go`, `subscribe.go`) | state pointer, generation, ring, subscriber map | commit, publishSnapshot, notifySubscribers, Subscribe, cancel, Rollback, List | readers on any goroutine | the gap between pointer and ring; subscribers that come, go and panic during a round; ring wrap-around | append-only generations, ring is the window before the live one, no missed update |
| Coalescer (`internal/coalesce`) | one burst per key, timers | Push, flush, Stop | watcher pushes, callback reloads | late timers, eviction by Push, time moving under the lock | each event reported once, in time, not early |
| File-driven reloads (`file_watch.go`) | slot per directory, `eventsPaused`, watched directories | callback, refreshWatchPaths, Pause, Resume, startFileWatcher | coalescer, queue, watcher | a change during the reload that should show it | no change lost, one reload per directory |
| Assembly and caches (`assemble.go`, `layer_cache.go`, `input_fingerprint.go`) | FIFO layer cache, published fingerprint | assemble, getOrDecode, inputFingerprint, commit's skip | codec registry, discovery, rollback | staleness: Register, rollback, overrides and in-place stages | what is published is what was read |
| Provider watch loop (`provider_watch.go`) | last revision, attempt count | runProviderWatcher, consumeProviderEvents | providers, queue | resubscription, gaps, backoff, shutdown | no change lost across a resubscription |
| Manager lifecycle (`manager.go`) | lifetime context, wait groups | New, Load, Get, Close, Shutdown | all of the above | order of shutdown | errorsCh closed last, Shutdown returns |
| Pipeline stages (`pipeline.go`, `stages.go`, `decode.go`) | none of its own | merge, migrate, transform, secrets, hooks, decode, defaults, validate, policy | assembly, commit | failure or cancellation between stages | a failed run changes nothing |
| Codec registry (`codec`) | decoder table, generation | Register, Lookup, Generation, codecs | assembly | Register during a reload | no stale decoder result |
| Directory watcher (`internal/watcher`) | tracked paths and their watch state | AddPath, Run | fsnotify, coalescer | directories removed and created again, errors | every watched directory that exists has a live watch |
| Discovery (`internal/scan`, `load_file.go`) | none | Scan, bands, axes, profile expressions | assembly, watch registration | order of layers, matching of overlays, absent and broken directories | the order is the documented one, selection matches the expression, what decides is announced |
| Provider utilities (`internal/providerutil`) | a latest-value cell, a backoff counter | Latest, Offer, Backoff | remote providers | a full channel keeps the newest value | the newest value is never lost |
| Remote providers (`providers`) | cached values, revisions, tokens, leases | Load, Watch | network services | polling, conditional requests, token expiry | a change is reported at least once |
| Notification consumers (`integrations/notify`) | none | Run | message services | redelivery, failed acknowledgement | at-least-once handling |
| Observers (`observe.go`, `observe`, `observability`) | bounded queue | Observe, Close | manager | full queue, close during emit | accepted events are delivered, no send after close |
| Configuration maps (`confmap`) | none | merge, patch, paths, labels | stages | recursive tree algorithms | agree with a reference definition |
| Feature rules (`feature`), transforms, validation, policy, cue | none | evaluation | stages | rollout boundaries, migration chains | deterministic, monotone rollout |
| Provenance (`provenance.go`, `internal/provenance`) | index of origins | build, lookup | commit, explain | overwritten and deleted keys | the last writer is reported |
| Secrets and diagnostics (`internal/secret`, `state.go`, `diff.go`) | a plan per type, retained values | redact, Explain, Diff, resolve references | stages, views | names and spellings of fields, dots in keys, lists kept whole | no view shows a secret, none hides anything else |
| Typed hooks, defaults, field rules (`codec`, `internal/typeinfo`) | a plan per type | plan, apply, assign, defaults, check | decode stage | types that contain themselves, values the decoder cannot carry, hooks and decoder that find a field by different names | the decoded value is the one the type means |
| Options, contracts, errors | none | plumbing, interfaces | all | - | - |
| fastconfd (`cmd/fastconfd`) | event bus | HTTP handlers, server-sent events | manager | slow clients | a slow client does not stop the others |
| Command line tools, CLI, logging and rendering integrations | none | parsing and printing | library API | - | - |

`PROJECT.json` lists the same parts with their status, and under `hazards` each
place where this code is hard to test.

## 2. Modules

### ReloadQueue (proofs in ReloadQueueProofs, instances in MCReloadQueue)

The single writer and everything that hands it work. The calls, the provider
consumers, Pause/Resume, Shutdown and the reader of `Errors()` are processes; so is
the writer. One action is one step another goroutine can observe: a channel
operation, an atomic load or store, one provider's load, one publication.

| State | Code |
|---|---|
| `pc`, `kind`, `asked`, `canceled`, `doneCh` | a caller in `submitAndWait`, its context and its answer channel |
| `reloadCh`, `tokens` | `m.reloadCh`, `m.overflowResyncCh` |
| `pausing`, `shutdown` | `m.eventsPaused` with the drain of Pause; `lifetime`, `finishClose` |
| `source`, `events`, `cpc` | a provider's content as a version, its watch channel, its consumer |
| `wpc`, `cur`, `next`, `toLoad`, `loaded`, `err` | locals of `reloadLoop`, `runReloadRequest` and `reload` |
| `published`, `history` | the live snapshot and the ring, as version vectors |
| `errs`, `errSeq` | `m.errorsCh`, with errors numbered in order |

`wpc` walks through `reloadLoop` (`top`, `prefer`, `block`, `after`), one run
(`admit`, `load`, `publish`), `notify` (the round of subscribers, any of which may
panic and put an error on `errorsCh`), the two steps of `publishReloadError`
(`errSend`, `errEvict`), and `reply`; shutdown takes it to `reject` and `exited`.
Go's `select` is a nondeterministic choice among the ready cases, a `select` with
`default` a choice that is forced. `missed`, `owed` and `bypass` are history
variables: they record why a change was legitimately given up on (Pause, a failed
load, a rollback), how often a resync overtook the waiting request and how often a
request overtook the pending resync. No guard reads them.

### SnapshotStore and VersionedStore (proofs in SnapshotStoreProofs)

`publishSnapshot` in its steps: stamp the generation, store the pointer, push the
replaced state to the ring, copy the subscriber map, call the subscribers one by
one. Subscribers register, read, cancel and panic between any two of them, and
Rollback callers look a generation up and queue it. `VersionedStore` is what the
component promises: a log that only grows and a retained list that slides along it.
The refinement maps its log to the part of `log` the pointer has reached and its
list to `RingList`.

### Coalescer (proofs in CoalescerProofs)

Bursts with their deadlines, timers that may fire late and whose flush waits for
the lock, callbacks that take any time, and Stop. A burst is named by the event that
began it; the joined reason string is the set of events. `MaxDrift` lets the clock
advance between the reading at the start of Push and `time.Until`.

### FileWatch (proofs in FileWatchProofs)

From an edit on disk to the live snapshot: `New`'s initial reload, the registration
of watches, the callback with its `running`/`pending` slot, the request, the reload
that reads one directory after the other, `refreshWatchPaths` after success and
after failure, Pause, Resume and Close. `Root` stands for the configuration
directory together with its base and overlay parents; an overlay is a directory that
appears later. The coalescer is a bit per directory and the queue holds only these
requests: those components have their own modules.

### Assembly (proofs in AssemblyProofs, instances in MCInputs)

One writer reads files, samples the codec generation, takes each layer from the
FIFO cache or decodes it, fingerprints the inputs, skips or commits; overrides,
plans and rollbacks are the other requests. A file without a decoder, or that its
decoder refuses, fails the run and leaves the cache as it is. Files are edited and decoders registered
concurrently, the two steps of `Register` being separate. A decoded tree is a
record: what the bytes mean, which decoder made it, whether later stages wrote to it.

### ProviderWatch with StreamProvider, ConsulProvider, HTTPProvider, VaultProvider (proofs in ProvidersProofs, composed in MCProviders)

ProviderWatch is the manager's side: the loop that subscribes from the last revision,
consumes, backs off and subscribes again, and the writer's `Load`. Each of the four
others adds one provider: what its server does (change, restart, expire a token, fail
a request), its `Load` in the steps between which something else can happen (request,
response, decode, accept), and its watch loop. The stream's handler stores a document
and offers its event in two steps. The queue between event and load is one
bit, since ReloadQueue shows that it loses nothing. `kind` says which provider runs.

| State | Code |
|---|---|
| `ver`, `bad`, `srv` | the remote document as a version, the versions that do not decode, the server's own state |
| `sub`, `ch`, `revision`, `wpc` | the subscription, its channel, `runProviderWatcher`'s locals |
| `want`, `lpc`, `resp`, `since`, `served` | a reload asked for, the load in progress, what is live |
| `prov` | the provider's fields: accepted index, ETag, version, token; its goroutines |

### ObjectLoads and Notifications (proofs in DeliveryProofs, composed in MCDelivery)

ObjectLoads has two callers that load one object of s3, azblob, gcs or appconfig:
gate, conditional request, attributes and content as separate requests, one-time
tokens, rejected content. Notifications puts the consumers on top: sns, azservicebus
and pubsub refresh and then settle; s3events sends an event and deletes the message.
Messages are redelivered, duplicated, refused, and a supervised `Run` ends and starts
again.

### WatchPaths (proofs in DeliveryProofs, composed in MCDelivery)

`AddPath`, `register`, `track` and `Close` against a chain of directories that are
removed, moved away and made again. The kernel's watches follow inodes; its events
are a queue. `missed` and `stray` mark the two limits of the code (section 6).

### Observers (proofs in DeliveryProofs, composed in MCDelivery)

`observe.Multi`, the `AsyncObserver` with its bounded queue and `Close`, and the event
bus of fastconfd with its clients, each a bounded channel and a reader of the current
configuration.

### Discovery and ProfileExpr (MCInputs)

`ProfileExpr` is the recursive-descent parser over tokens; what a sub-expression
parsed to is the set of profile sets it is true of. `Discovery` is `Scan` and
`assemble`: metadata, active profiles, base directory, overlays with their own
metadata and expression, the global filter, axes, priority windows, strictness, the
directories announced to the watcher, and the stable sort of file, generator, provider
and override layers.

### Flattening and PagedLoad (MCInputs)

`Flattening` is how vault, consul, environment variables, .env files, Downward API
files, labels and routing labels turn flat entries into a tree. A key is its place in
lexical order and the path it splits to. `PagedLoad` collects the pages of Parameter
Store and Azure App Configuration.

### ConfTree, JSONPatch, Provenance and Documents (MCTrees)

`ConfTree` is `confmap`: a tree is a record of kind, leaf, children and items; paths and
the merge with its options are operators on it. `JSONPatch` edits it, `Provenance` is
the index of origins, and `Documents` is the merge stage, which stages one layer or
patch after the other.

### Rewrites, TypedHooks, Redaction and Features (proofs in FeaturesProofs, composed in MCTrees)

`Rewrites` runs the registered transforms and then resolves secret references.
`TypedHooks` builds the plan (one shape of one round of `propagate` is a step), applies
it, decodes, assigns, fills defaults and checks the rules of fields, and fails where the
code does: text that does not parse, a kind or an unknown key that the decoder refuses, a
default its field cannot hold, a rule that is broken. A field has its Go name and its
tags; hooks look it up by `InputAliases`, the decoder by `DecoderKeys` of its bridge. A
struct is a value, which always exists, or a pointer, which may be nil. `Redaction` compiles a
type and patterns and shows a snapshot's map, diff and retained values. `Features` is
the evaluation of a rule, with a function from anchors to buckets for the hash, and the
caller's default for a key without a rule.

These algorithm modules check operators against reference definitions that are stated
differently: the last visible writer of a path instead of the recursive merge, sets of
locations for RFC 6902, a truth table for expressions, the set of surviving entries for
insertion in order, paths for redaction. Those on trees use RECURSIVE operators and are
model-checked only; Features is proved about.

## 3. Runs

| Run | Instance | What it shows |
|---|---|---|
| queue_overflow | one caller (Reload or Plan), queue of 1, 2 changes, one Pause, one failing load, stage or subscriber, `errorsCh` of 1 | no change is lost on overflow (`QuiescentFresh`); at most one resync overtakes a waiting request (`AtMostOneBypass`) and at most one request a pending resync (`ResyncServedNext`); types and capacities |
| queue_calls | two calls among Reload, Rollback and an option error, one provider, `errorsCh` of 2 | a Reload that returned nil is visible (`ReadYourWrites`); the writer never waits for a caller (`ReplyNeverBlocks`); `errorsCh` holds the newest errors in order and without a hole (`ErrorsNewest`); only a rollback publishes an older version (`NoRegression`) |
| queue_live | two changes, queue of 1, one Reload | every call and every shutdown returns (`EveryoneReturns`), sources that stop changing get published (`Converges`) |
| store | 2 subscribers, 1 rollback, 4 generations, ring of 2 | `NoMissedUpdate`, `CanceledQuiet`, `CallbackContext`; a follower learns of the newest generation although others panic (`FollowersLearn`); the ring is the window before the live generation; the store implements `VersionedStore` |
| coalescer | 2 goroutines, 1 key, 3 events, drift 1 | each event is reported exactly once, by the deadline unless the timer is late, not before its window (`ReportedOnceInTime`), and in the end unless Stop came (`EventsReported`) |
| coalescer_push_waits | 1 key, 2 events | *violated*: Push can run `fn` itself (finding 1) |
| file_watch | root, one overlay, 2 callbacks, 1 failure, 1 pause | no seen edit is lost and what is live is watched (`EditsCovered`), one reload per directory, a seen edit eventually is live (`EditsArrive`) |
| file_watch_startup | root, one overlay | *violated*: an edit slips between initial scan and watch (finding 2) |
| providers | one provider of each kind, 3 versions, 1 failure, a channel of 1, 2 tokens | what a provider knows is announced, a version vault will not announce again is on its way to a load, a gap is reported and a 304 is exact (`SignalsExact`); a document that stops changing is loaded (`ChangesLoaded`); the loops end with the manager (`WatchersStop`) |
| delivery | 2 versions of an object, 1 failure, 1 duplicate; 3 directories, 4 changes; 3 events, queues of 1, 2 clients | overlapping loads are coherent (`LoadsCoherent`, `RejectedStays`); a settled message has done its work (`SettledIsLoaded`) and the last version is loaded (`AnnouncedLoaded`); watches follow directories (`WatchesFollow`); observers and clients get or account for every event (`EventsAccounted`) |
| inputs | 2 files, cache of 1, all requests, 1 registration; some 5000 sites; keys of depth 3; 3 pages | what is published is what was read (`ReloadReflectsInputs`, `CacheSound`); the files selected, their order, the directories announced (`LayersFollowSite`); entries become trees (`EntriesBecomeTrees`) |
| trees | 3 layers and a patch, trees of depth 3, chains of 2 migrations, some 1000 types with up to 60 inputs each, 4 buckets | merge, patch and origins (`DocumentsFollowReference`); transforms and secrets (`RewritesAreExact`); hooks, decoding, defaults, field rules (`DecodedAsMeant`); views (`SecretsMasked`); rollouts (`RolloutShare`) |

The last four runs hold several parts that do not interact: the first state picks one.
A property such as `LayersFollowSite` is the conjunction of named parts, each with its
own comment, and each part has a mistake of its own that it detects.

**Bounds.** They are chosen so that each interesting case happens: a channel of
capacity 1 is full after one request, so overflow, eviction from `errorsCh` and a
refused send all occur; an `errorsCh` of 2 has an order to keep and a middle to lose; with the caller's request in the queue, one change overflows
and the other comes during the resync; a ring of 2 with 4 generations fills and
wraps; two callbacks are one that runs and one that sets `pending`, or arrives as the first
leaves; a cache of one entry evicts at the second file and hits
when that file is missing; four requests are a reload, an edit's reload, a rollback
and the reload that must not be skipped.
Three versions of a document are the one accepted, one that is being loaded and one that
comes meanwhile; one failure of each kind at any request covers failed, lost and
rejected loads; two tokens are an expired one and its replacement. Four changes to a
chain of three directories move a parent away and make both levels again. The bands of
`internal/scan` are scaled from hundreds to a few priorities (base 3, overlays 2 x 2,
axes 2 x 2) so that files and overlays overflow them; expressions have up to four
tokens of any kind. Trees have up to three keys and depth three: a parent, a conflict on
it and a leaf below. Types vary one question at a time: where hooks are (fields, elements,
pointers, a type in itself), which tags a field has and how its key is spelled, and which
default and rule it carries two or three structs deep, with values below, at and above
the bound.
`MaxVersion`, `MaxPauses`, `MaxFails`, `MaxGen`, `MaxEvents`, `MaxTime`, `MaxEdits`
and `MaxRuns` only keep the state space finite. The theorems of section 5 hold for
every value of these bounds and of the capacities. Calls are
interchangeable, so MCReloadQueue declares symmetry; queue_calls, which checks no
liveness, uses it. In providers, delivery and trees the system may stop (a document
that no longer changes, a closed watcher, a finished tree), so deadlock is not checked
there; the other runs take an explicit stuttering step where work may end, and deadlock
stays checked.

**Fairness.** Weak fairness of each goroutine's own steps: the Go scheduler runs a
runnable goroutine eventually, and a channel operation that stays possible is
eventually taken. In ReloadQueue that covers each caller inside `submitAndWait`,
each consumer, the drain of Pause, `finishClose` and the writer; not the environment
(calls, changes, cancellation, Pause, Close, reading errors). A provider's `Load` is
assumed to return, which the code leaves to the provider and its context.
SnapshotStore assumes that a subscriber returns or panics (`subscribe.go:35` asks
callbacks to return quickly). Coalescer assumes that time advances, timers fire and `fn`
returns. FileWatch assumes that callbacks and the writer run.
The providers run assumes that the writer, the subscription loop, the provider's poll
and its renewal loop run, and that an application whose `New` failed calls it again. In
delivery a message service redelivers what is not settled, a `Run` that returned an
error is started again (its documentation leaves supervision to the caller), and
appconfig is reloaded periodically, because a notification cannot make it poll early.

**Mutants.** Next to each modelled definition stand the mistakes (`\* Mistake: ...`)
that its properties detect: a dropped guard, a swapped order, a missing reset, an
off-by-one. `PROJECT.json` pairs every property with one of them.

## 4. Findings

1. `internal/coalesce/coalesce.go:82` promises that Push "never waits for fn". When
   a Push finds the burst past its deadline it calls `fn` on its own goroutine
   (`coalesce.go:144-146`). In the manager that goroutine is the watcher's, and `fn`
   waits for a reload, so no further event is read meanwhile.
2. `file_watch.go:21` says directories are subscribed before their contents are
   loaded, so that nothing slips between scan and watch. `New` reloads first
   (`manager.go:86-90`) and later reloads register directories after reading them
   (`reload.go:135-145`). An edit in the gap is shown only after some later reload.

Both runs state the quoted sentence as a property, and TLC finds it violated.

Smaller observations made while modelling, which the properties name as exceptions or
the models leave out:

- `transform/transform.go:19` says aliases rewrite old keys to their new home. An alias
  whose target lies below its source (`db` to `db.host`) sets the target and then
  deletes the source with it; `AliasesMoveValues` speaks of separate paths.
- `transform/migration.go:31-33` calls a chain gap-free and its target the highest
  version it can reach. `NewChain` checks neither: a gap is an error of `Run`, and the
  last migration may overshoot the target.
- `confmap/patch.go:355-360`: the path recorded for an item appended with `-` keeps the
  `-`, so `Explain` of the list does not show the patch (`Unreported`).
- The metadata of an overlay that does not match is read but its directory is not
  announced to the watcher: an edit that makes it match shows at the next reload.
- `internal/watcher`: `AddPath` does not look again after it has put the watch in place,
  and a directory below a parent that was moved away keeps a watch that nothing reports
  (`missed`, `stray`).
- `internal/typeinfo/walk.go:27`: defaults and field rules are not applied in a type
  that is nested in itself.
- `codec/typed_hooks.go:86-87` accepts JSON and YAML names alike, the decoder only those of
  its bridge. With the JSON bridge a `*url.URL` is assigned from a key that only its yaml
  tag names, though the decoder ignores that key (or refuses it as unknown), and a
  `time.Duration` under such a key is ignored. Of two spellings of one key the hook
  converts one and the decoder reads both. `DecodedAsMeant` speaks of inputs that give each
  field under one name the decoder knows (`Spelled`).
- A required struct that was not configured passes if one of its fields has a default.
- `codec/typed_hooks.go:248`: a field's lower-case or Go name may pick up a key that was
  meant for a sibling.
- `providers/labels/routing.go:148`: keys `a[0]` and `a[0][1]` beside each other are
  promoted in the order of a Go map.
- Consul's watch compares indexes only: a server that restarts and climbs back to the
  same index is not told apart, and a zero index announces nothing.
- `providers/s3/s3events` deletes a message once its event is in the channel; if the
  reload fails nothing announces the version again.
- A `RawCapture` shows the last transform run even if that reload failed later.

## 5. Theorems

The assumptions are the named `ASSUME`s of the modules: capacities of channels are
at least 1, bounds and the history capacity are natural numbers, the event request is
not a call; a rule's percentages are integers and `Anchors`, the domain of the hash,
holds every attribute a rollout can hash. TLC evaluates them in every run. Assembly,
WatchPaths, Observers, Notifications and Features are steps of larger runs and have no
specification of their own; their proof modules state it (`AssemblySpec`, `PathSpec`,
`ObserverSpec`, `NotifySpec`, `FeatureSpec`) as initial predicate and next-state relation
of that module, without fairness. Every inductive invariant of the concurrent modules
below was an invariant of a TLC run before it was proved.

**ReloadQueueProofs** (any calls, providers, capacities and bounds)

- `TypeCorrect`: `TypeOK`, capacities included, is inductive.
- `ErrorsInOrder`: inductive with types; the eviction step keeps `errs` a contiguous
  run of numbers ending in the newest.
- `NoStarvation`: `BypassInv` adds where `next` points after a resync: the loop goes
  on to prefer `reloadCh`.
- `ResyncNotStarved`: `TokenInv` adds where the loop goes after a request: it looks at
  the token before it looks at `reloadCh` again.
- `AnswersFit`: `AnswerInv` says that a request is in the queue at most once, in
  service at most once, never both, and that a filled `doneCh` means it is in
  neither; so each answer channel is written once.
- `NeverBack`: `VersionInv` says that nothing asked for, loaded or retained is ahead
  of the sources, and what the current run has loaded is not older than what is
  published. `Stages` ties `loaded` and `toLoad` to `wpc`. The action property then
  follows for each publishing step.
- `NoLostChange`: `QuiescentFresh` speaks of quiet states only and is far from
  inductive. `TrackedInv` says where an unpublished change can be: in the watch
  channel, in the consumer's hands, in the queue, in a token, in a resync or run
  that has not loaded that provider yet, or given up on. Every action moves the
  change from one place to another; in a quiet state only the last one is left.
- `ReloadVisible`: `VisibleInv` follows a Reload from the version current at the call
  through its load to its answer: until somebody asks for a rollback, what a call that
  has been or is about to be told `ok` asked for is published.

**SnapshotStoreProofs** (any values, capacity, subscribers and bounds)

- `StoreTyped`, `HistoryIsWindow`: inductive together with `Place` (what `prev`,
  `state` and `gen` are at each step of a publication) and `TargetsExist`. The
  argument is arithmetic modulo the capacity; lemmas say what `Push` does to
  `RingList` before and after the ring is full.
- `CallbacksInContext`, `CancelQuiets`, `FollowersUpToDate`: from these, `Quiet`
  (a canceled subscriber left in the round belongs to a publication that was visible
  when it canceled) and `AllKnown` (a follower knows the live value, or is still to
  be called in this round).
- `StoreRefines`: initial states map to initial states, `StoreState` to
  `PublishValue`, `PushPrev` to `Retire`, every other step to a stutter.

**CoalescerProofs** (any keys, pushing goroutines, windows, drift and bounds)

- `EventsReportedOnce`: `ReportedOnceInTime` says when an event is reported and that
  it is not reported twice; neither is inductive alone. The invariant adds that a
  burst and its events belong to the key that holds it (`Sorted`), that numbers not
  yet used have neither timer nor flush (`Fresh`), and that no timer expires and no
  flush waits before the window of its burst is over (`Timed`). The last one carries
  the clock through Push, where it may drift under the lock.

**FileWatchProofs** (any overlays, callbacks and bounds)

- `SlotsBoundQueue`: a directory whose slot is taken belongs to exactly one callback
  (`Slots`), and each request in the queue to a callback that waits for it
  (`Requests`). That gives an injection from the queue to the directories in
  `running`, and the bound is a fact about cardinalities.
- `EditsAreCovered`: every reload reads all directories, so `Tracked` says that for a
  seen edit that is not live some reload is still to come (a burst, a callback that has
  not sent its request, `pending`, the queue) or the run in progress reads far enough
  (`ReadsUpTo`). `WatchInv` adds what startup has registered, that nothing noted, read or
  live is ahead of the disk, that a run reads no less than what is live, and that a
  directory is watched before it is live; without it an edit of a new overlay could go
  unseen.

**AssemblyProofs** (any files, cache capacity, registrations, kinds of request)

- `CacheIsSound`: the difficulty is that `Register` stores the decoder and bumps the
  generation in two steps while a run samples the generation before and after it
  decodes. `Generations` orders the counters and says that an unchanged generation
  means no registration has returned since; `RunFresh` says what the run may hit.
- `ReloadsReflectInputs`: `Staging` follows the files one by one through cache hit and
  decode; `Published` says what the published fingerprint stands for, so that a skipped
  commit is as good as a commit. It is what rollback and overrides must clear.

**DeliveryProofs** (a chain of directories of any depth; any queues, clients and events;
any versions, failures, duplicates and channel capacity)

- `WatchesFollowDirs`: existing directories are those down to some level (`Chain`), so
  that the nearest one is the path or the top (lemma `NearestIn`). `Followed` says that
  a wanted path is anchored at a registered directory that is the nearest one or whose
  next level's creation is queued, or an event that drops a registration is queued, or
  the pass in progress still visits the path. `NearestIsWatched` is what is left when
  the queue is empty and no pass runs.
- `ObserversAccount`: `OrderInv` writes the accepted events as the delivered ones, the
  one in the target's hand and the queue, in this order; `CountInv` adds the dropped
  ones and those an emitter holds; `CloseInv` is the order of lock, close and the end
  of the goroutine.
- `LoadsStayCoherent`: `GateInv` says that who is inside `Load` of a serialized
  provider holds the gate; hence the condition an azblob request carries is still the
  accepted revision when the answer comes, and a 304 is answered from a cache that has
  not moved. `LoadOK` relates what a caller has in hand to the version at its call. s3
  has no gate: there `CacheInv` (what is accepted has been returned) replaces it.
- `SettledMessagesAreLoaded`: `Done(v)` strengthens the property by what a load in
  progress will answer for: it began after version v was stored. Each step keeps it
  (`DoneKept`), and a handler that is about to settle has it. The proofs of the loads
  are used only through what a step is to the handlers (`Moved`).
- `RejectedContentStays`, an action property: without a standing error the accepted
  document is the last content delivered, and a load in progress has not yet returned.
- `DeliverySafe`: the system the delivery run checks has all five properties. A step of
  it is a step of one part and leaves the variables of the others alone, so it implements
  each part's specification (`PartsMove`).

**ProvidersProofs** (any versions of the document, failures, tokens and channel capacity)

- `SignalsAreExact`: about `Spec` of MCProviders, so about all four providers over the
  shared watch loop. The parts of `SignalsExact` are not inductive. For the stream,
  `Drained` says that nothing is left in the channel between two subscriptions and
  `Marked` that the marked event of a cold start is the first of its subscription and
  what was skipped is later than all the loop remembers; a gap is then reported because
  the first event the loop takes carries the mark. For vault, `Unsuppressed` says that
  nothing is suppressed before the subscription is open. For http, `Accepted` ties the
  accepted ETag and body to the server's (an ETag that is still the server's has the
  document as its body) and `Arriving` says the same of the answer in flight; without it
  a change between response and acceptance would break a later 304. The manager's steps
  are shown once to leave a provider's own state alone (`ManagingFrame`, `ManagingKeeps`);
  each provider then has a lemma per group of steps.

**FeaturesProofs** (any rules, contexts, hash and number of buckets)

- `RolloutsShareBuckets`: `Evaluate` takes the first open rollout, which is the least
  element of a set of places; that it exists follows from the well-foundedness of `<`
  (`FirstIs`). `InBucketIs` brings the three cases of `inBucket` down to one comparison,
  and needs that buckets lie between 0 and `Buckets - 1`: that is where none at 0 and all
  at 100 come from. `Intervals` is then the statement about one key. A raised percentage
  opens at most that one rollout and closes none (`RaisedOpens`), and the least element
  of a set that grew by one place is the old one or that place (`FirstGrows`).

**Model-checked only.** Liveness (`EveryoneReturns`, `Converges`,
`FollowersLearn`, `EventsReported`, `EditsArrive`, `ChangesLoaded`, `WatchersStop`,
`AnnouncedLoaded`), because TLAPS does not reason about fairness here. `LayersFollowSite`,
`EntriesBecomeTrees`, `DocumentsFollowReference`, `RewritesAreExact`, `DecodedAsMeant`
and `SecretsMasked`: they say what parsers, folds and recursive walks over trees compute,
which needs induction over data, and all but the first are about RECURSIVE operators,
which the prover does not accept.

## 6. What the models leave out

- ReloadQueue: the contents of layers (a version per provider stands for them); `Load`,
  which starts no goroutines. Loads, stages and subscribers fail at most `MaxFails`
  times in a run.
- SnapshotStore: subscriber filters by hash and equality are the comparison of the
  extracted values.
- Coalescer: the text of the reasons.
- FileWatch: events that report a watcher error, which carry the empty key and
  behave as those of one more directory.
- Assembly: the hash is taken to be injective; what layers contain is the subject of
  Documents.
- ProviderWatch: Pause belongs to ReloadQueue (after Resume a missed change needs an
  explicit Reload, `docs/design/spec.md:46`). The length of waits is arbitrary. The
  stream provider follows `examples/nats`, whose channel closes only at the end of its
  context; other ends of a subscription come from the contract.
- VaultProvider: a provider whose login has no renewal loop keeps an expired token; the
  model gives leased tokens a renewal loop, as `Watch` does.
- ObjectLoads: s3 has no gate, so `LoadFresh` does not speak of it.
- WatchPaths: one chain of directories, no symbolic links.
- Discovery: characters of names and expressions, decoding of metadata, the size limit of
  a file (an unreadable file stands for it).
- Flattening: the parsing of lines, quotes and numbers; a file that does not parse is
  marked as such. Depth limits of recursive walks (256) are not reached.
- PagedLoad: the pager of the Azure SDK, which has no guard against repeated tokens of
  its own, is followed through pages that end.
- TypedHooks: of the decode bridge, which is a library, the keys and kinds it takes for a
  field are modelled; the hooks are conversions that succeed, fail or pass. Embedded
  structs, pointers as elements, maps given for a URL, and the application's own
  `Defaulter` are left out.
- Callbacks that call their own manager: `subscribe.go:35-37` documents the deadlock.

**Not modelled** because they are parsing, formatting, reflection or wire protocol:
codecs, dump, option plumbing, authentication methods, exporters, command line tools,
code generation, logging and template adapters, error values.

## 7. Plan

Done: all modules of section 2, and proofs of every safety property of the concurrent
modules and of the feature rules. What could follow: the bands of Discovery (that the
priorities of files grow strictly, part of `MergeOrder`). That needs equations for its
folds and facts about `SelectSeq`, of which the prover's library has none.
