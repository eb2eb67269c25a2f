--------------------------- MODULE FileWatchProofs ---------------------------
(***************************************************************************)
(* Proofs about FileWatch, for any overlays, any number of callbacks and   *)
(* any bounds.                                                             *)
(***************************************************************************)
EXTENDS FileWatch, FiniteSetTheorems, TLAPS

-----------------------------------------------------------------------------
(* Type correctness.                                                       *)

Stations == {"idle", "enter", "paused", "lock", "request", "wait", "relock"}

DiskTyped ==
  /\ phase \in {"load", "watch", "run"}
  /\ ver \in [Dirs -> Nat] /\ noted \in [Dirs -> Nat]
  /\ watched \subseteq Dirs /\ bursts \subseteq Dirs

CallbackTyped ==
  /\ cbpc \in [Callbacks -> Stations] /\ cbkey \in [Callbacks -> Dirs]
  /\ running \subseteq Dirs /\ pending \subseteq Dirs
  /\ queue \in Seq(Callbacks) /\ serving \in Callbacks \cup {None}

WriterTyped ==
  /\ writer \in {"idle", "read", "refresh", "giveup", "commit"}
  /\ plan \subseteq Dirs /\ unread \subseteq Dirs
  /\ seen \in [Dirs -> Nat] /\ live \in [Dirs -> Nat] /\ excused \subseteq Dirs
  /\ paused \in 0 .. 1 /\ closed \in 0 .. 1 /\ fails \in Nat /\ pauses \in Nat

Typed == DiskTyped /\ CallbackTyped /\ WriterTyped

\* The three parts are the type invariant.
LEMMA TypedIsTypeOK == Typed <=> TypeOK
  BY DEF Typed, DiskTyped, CallbackTyped, WriterTyped, TypeOK, Stations

\* The answer to a request keeps the types.
LEMMA AnswerTyped ==
  ASSUME Typed, AnswerRequest
  PROVE  cbpc' \in [Callbacks -> Stations] /\ phase' \in {"load", "watch", "run"}
<1> USE DEF Typed, DiskTyped, CallbackTyped, AnswerRequest, Stations
<1>1. CASE serving = None
  BY <1>1
<1>2. CASE serving # None
  <2>1. (IF cbpc[serving] = "wait" THEN "relock" ELSE cbpc[serving]) \in Stations
    BY <1>2
  <2> QED  BY <1>2, <2>1
<1> QED  BY <1>1, <1>2

\* Every reachable state is well typed.
LEMMA TypedAlways == Spec => []Typed
<1>1. Init => Typed
  <2> SUFFICES ASSUME Init PROVE Typed
    OBVIOUS
  <2> USE DEF Init, Dirs
  <2>1. DiskTyped  BY DEF DiskTyped
  <2>2. CallbackTyped  BY DEF CallbackTyped, Stations
  <2>3. WriterTyped  BY DEF WriterTyped
  <2> QED  BY <2>1, <2>2, <2>3 DEF Typed
<1>2. Typed /\ [Next]_vars => Typed'
  <2> SUFFICES ASSUME Typed, [Next]_vars PROVE Typed'
    OBVIOUS
  <2>0. DiskTyped /\ CallbackTyped /\ WriterTyped
    BY DEF Typed
  <2> USE <2>0 DEF cbVars, runVars, ctlVars
  <2>1. ASSUME NEW c \in Callbacks, Callback(c) PROVE Typed'
    <3> USE DEF Goto, AtCallback, Callback
    <3>1. DiskTyped'
      BY <2>1 DEF DiskTyped, Begin, Enter, TestPaused, Lock, Request, Abandon, Relock
    <3>2. CallbackTyped'
      <4>1. CASE \E d \in Dirs : Begin(c, d)
        BY <4>1 DEF Begin, CallbackTyped, Stations
      <4>2. CASE Enter(c) \/ TestPaused(c) \/ Abandon(c)
        BY <4>2 DEF Enter, TestPaused, Abandon, CallbackTyped, Stations
      <4>3. CASE Lock(c)
        BY <4>3 DEF Lock, CallbackTyped, Stations
      <4>4. CASE Request(c)
        BY <4>4 DEF Request, CallbackTyped, Stations
      <4>5. CASE Relock(c)
        BY <4>5 DEF Relock, CallbackTyped, Stations
      <4> QED  BY <2>1, <4>1, <4>2, <4>3, <4>4, <4>5
    <3>3. WriterTyped'
      BY <2>1 DEF WriterTyped, Begin, Enter, TestPaused, Lock, Request, Abandon, Relock
    <3> QED  BY <3>1, <3>2, <3>3 DEF Typed
  <2>2. CASE Take
    <3> USE <2>2 DEF Take, AtWriter
    <3>1. DiskTyped'  BY DEF DiskTyped
    <3>2. CallbackTyped'
      <4>1. Head(queue) \in Callbacks /\ Tail(queue) \in Seq(Callbacks)
        BY DEF CallbackTyped
      <4> QED  BY <4>1 DEF CallbackTyped
    <3>3. WriterTyped'  BY DEF WriterTyped, Dirs
    <3> QED  BY <3>1, <3>2, <3>3 DEF Typed
  <2>3. CASE Failures \/ \E d \in Dirs : ReadDir(d)
    <3> USE DEF Failures, AtWriter
    <3>1. DiskTyped' /\ CallbackTyped'
      <4>1. CASE CommitFails
        BY <4>1, AnswerTyped DEF CommitFails, DiskTyped, CallbackTyped, Typed
      <4>2. CASE \E d \in Dirs : ReadFails(d) \/ ReadDir(d)
        BY <4>2 DEF ReadFails, ReadDir, DiskTyped, CallbackTyped
      <4> QED  BY <2>3, <4>1, <4>2
    <3>2. WriterTyped'
      BY <2>3 DEF CommitFails, ReadFails, ReadDir, WriterTyped, DiskTyped, Exists
    <3> QED  BY <3>1, <3>2 DEF Typed
  <2>4. CASE ReadDone \/ Refresh \/ GiveUp \/ Commit \/ StartFileWatcher
    <3> USE DEF AtWriter, Watch
    <3>1. DiskTyped'
      BY <2>4, AnswerTyped DEF ReadDone, Refresh, GiveUp, Commit, StartFileWatcher,
                               DiskTyped, WriterTyped, Typed
    <3>2. CallbackTyped'
      BY <2>4, AnswerTyped DEF ReadDone, Refresh, GiveUp, Commit, StartFileWatcher,
                               CallbackTyped, Typed
    <3>3. WriterTyped'
      BY <2>4 DEF ReadDone, Refresh, GiveUp, Commit, StartFileWatcher, WriterTyped
    <3> QED  BY <3>1, <3>2, <3>3 DEF Typed
  <2>5. CASE Environment
    <3> USE DEF Environment, Edit, Create, Notify, Exists
    <3>1. DiskTyped'
      <4>1. PICK d \in Dirs : Edit(d) \/ Create(d)
        BY <2>5
      <4>2. ver' \in [Dirs -> Nat] /\ noted' \in [Dirs -> Nat]
        BY <4>1 DEF DiskTyped
      <4>3. bursts' \subseteq Dirs
        BY <4>1 DEF DiskTyped, Dirs
      <4> QED  BY <4>1, <4>2, <4>3 DEF DiskTyped
    <3>2. CallbackTyped' /\ WriterTyped'
      BY <2>5 DEF CallbackTyped, WriterTyped
    <3> QED  BY <3>1, <3>2 DEF Typed
  <2>6. CASE Pause \/ Resume \/ Close
    BY <2>6 DEF Pause, Resume, Close, Control, DiskTyped, CallbackTyped, WriterTyped, Typed
  <2>7. CASE UNCHANGED vars
    BY <2>7 DEF vars, DiskTyped, CallbackTyped, WriterTyped, Typed
  <2> QED
    BY <2>1, <2>2, <2>3, <2>4, <2>5, <2>6, <2>7 DEF Next, Writer, Done
<1> QED  BY <1>1, <1>2, PTL DEF Spec

-----------------------------------------------------------------------------
(* One reload per directory.                                               *)

\* The callback owns the slot of its directory.
InSlot(c) == cbpc[c] \in {"request", "wait", "relock"}

\* running holds the directories whose slot somebody owns, one callback each, and a
\* burst is left to a callback that is still there to see it.
Slots ==
  /\ \A b, c \in Callbacks : InSlot(b) /\ InSlot(c) /\ cbkey[b] = cbkey[c] => b = c
  /\ \A c \in Callbacks : InSlot(c) => cbkey[c] \in running
  /\ \A d \in running : \E c \in Callbacks : InSlot(c) /\ cbkey[c] = d
  /\ pending \subseteq running
  /\ IsFiniteSet(running)

\* Until Close every request in the queue or in service is that of a callback that
\* waits for it, and each is there once.
Requests ==
  closed = 0 =>
    /\ \A i \in 1 .. Len(queue) : cbpc[queue[i]] = "wait"
    /\ \A i, j \in 1 .. Len(queue) : i # j => queue[i] # queue[j]
    /\ writer # "idle" /\ serving # None =>
         cbpc[serving] = "wait" /\ \A i \in 1 .. Len(queue) : queue[i] # serving

\* Steps of the writer and of the environment leave the slots alone; an answer moves
\* the callback it serves inside its slot.
LEMMA SlotsFrame ==
  ASSUME Typed, UNCHANGED <<cbkey, running, pending>>,
         UNCHANGED cbpc \/ AnswerRequest
  PROVE  /\ \A c \in Callbacks : InSlot(c)' = InSlot(c)
         /\ Slots => Slots'
<1>1. \A c \in Callbacks : InSlot(c)' = InSlot(c)
  BY DEF InSlot, AnswerRequest, Typed, CallbackTyped
<1>2. Slots => Slots'
  <2> HIDE DEF InSlot
  <2> QED  BY <1>1 DEF Slots
<1> QED  BY <1>1, <1>2

\* The slots stay in order.
LEMMA SlotsStep == Typed /\ Slots /\ [Next]_vars => Slots'
<1> SUFFICES ASSUME Typed, Slots, [Next]_vars PROVE Slots'
  OBVIOUS
<1> USE DEF cbVars, runVars, ctlVars
<1>1. ASSUME NEW c \in Callbacks, Callback(c) PROVE Slots'
  <2> USE DEF Goto, AtCallback, Typed, CallbackTyped
  <2>1. CASE \E d \in Dirs : Begin(c, d)
    <3>1. ~InSlot(c) /\ ~InSlot(c)' /\ UNCHANGED <<running, pending>>
      BY <2>1 DEF Begin, InSlot
    <3>2. \A b \in Callbacks \ {c} : InSlot(b)' = InSlot(b) /\ cbkey'[b] = cbkey[b]
      BY <2>1 DEF Begin, InSlot
    <3> QED  BY <3>1, <3>2 DEF Slots
  <2>2. CASE Enter(c) \/ TestPaused(c)
    <3>1. ~InSlot(c) /\ ~InSlot(c)' /\ UNCHANGED <<cbkey, running, pending>>
      BY <2>2 DEF Enter, TestPaused, InSlot
    <3>2. \A b \in Callbacks \ {c} : InSlot(b)' = InSlot(b)
      BY <2>2 DEF Enter, TestPaused, InSlot
    <3> QED  BY <3>1, <3>2 DEF Slots
  <2>3. CASE Lock(c)
    <3>1. ~InSlot(c) /\ cbkey' = cbkey /\ \A b \in Callbacks \ {c} : InSlot(b)' = InSlot(b)
      BY <2>3 DEF Lock, InSlot
    <3>2. CASE cbkey[c] \in running
      <4>1. ~InSlot(c)' /\ running' = running /\ pending' = pending \cup {cbkey[c]}
        BY <2>3, <3>2 DEF Lock, InSlot
      <4> QED  BY <3>1, <3>2, <4>1 DEF Slots
    <3>3. CASE cbkey[c] \notin running
      <4>1. /\ InSlot(c)' /\ running' = running \cup {cbkey[c]}
            /\ pending' = pending \ {cbkey[c]}
        BY <2>3, <3>3 DEF Lock, InSlot
      <4>2. IsFiniteSet(running')
        BY <4>1, FS_AddElement DEF Slots
      <4> QED  BY <3>1, <3>3, <4>1, <4>2 DEF Slots
    <3> QED  BY <3>2, <3>3
  <2>4. CASE Request(c) \/ Abandon(c)
    <3>1. InSlot(c) /\ InSlot(c)' /\ UNCHANGED <<cbkey, running, pending>>
      BY <2>4 DEF Request, Abandon, InSlot
    <3>2. \A b \in Callbacks \ {c} : InSlot(b)' = InSlot(b)
      BY <2>4 DEF Request, Abandon, InSlot
    <3> QED  BY <3>1, <3>2 DEF Slots
  <2>5. CASE Relock(c)
    <3>1. InSlot(c) /\ cbkey' = cbkey /\ \A b \in Callbacks \ {c} : InSlot(b)' = InSlot(b)
      BY <2>5 DEF Relock, InSlot
    <3>2. CASE cbkey[c] \in pending
      <4>1. InSlot(c)' /\ running' = running /\ pending' = pending \ {cbkey[c]}
        BY <2>5, <3>2 DEF Relock, InSlot
      <4> QED  BY <3>1, <3>2, <4>1 DEF Slots
    <3>3. CASE cbkey[c] \notin pending
      <4>1. ~InSlot(c)' /\ running' = running \ {cbkey[c]} /\ pending' = pending
        BY <2>5, <3>3 DEF Relock, InSlot
      <4>2. IsFiniteSet(running')
        BY <4>1, FS_RemoveElement DEF Slots
      <4> QED  BY <3>1, <3>3, <4>1, <4>2 DEF Slots
    <3> QED  BY <3>2, <3>3
  <2> QED  BY <1>1, <2>1, <2>2, <2>3, <2>4, <2>5 DEF Callback
<1>2. CASE Writer \/ Failures
  BY <1>2, SlotsFrame DEF Writer, Failures, Take, ReadDir, ReadDone, ReadFails, Refresh,
       GiveUp, Commit, CommitFails, StartFileWatcher, AtWriter
<1>3. CASE Environment \/ Pause \/ Resume \/ Close \/ UNCHANGED vars
  BY <1>3, SlotsFrame DEF Environment, Edit, Create, Pause, Resume, Close, Control, vars
<1> QED
  BY <1>1, <1>2, <1>3 DEF Next, Done

\* Requests stay those of waiting callbacks.
LEMMA RequestsStep == Typed /\ Requests /\ [Next]_vars => Requests'
<1> SUFFICES ASSUME Typed, Requests, [Next]_vars, closed' = 0
             PROVE  /\ \A i \in 1 .. Len(queue') : cbpc'[queue'[i]] = "wait"
                    /\ \A i, j \in 1 .. Len(queue') : i # j => queue'[i] # queue'[j]
                    /\ writer' # "idle" /\ serving' # None =>
                         /\ cbpc'[serving'] = "wait"
                         /\ \A i \in 1 .. Len(queue') : queue'[i] # serving'
  BY DEF Requests
<1> DEFINE Fine == /\ \A i \in 1 .. Len(queue') : cbpc'[queue'[i]] = "wait"
                   /\ \A i, j \in 1 .. Len(queue') : i # j => queue'[i] # queue'[j]
                   /\ writer' # "idle" /\ serving' # None =>
                        /\ cbpc'[serving'] = "wait"
                        /\ \A i \in 1 .. Len(queue') : queue'[i] # serving'
<1> USE DEF cbVars, runVars, ctlVars
<1>0. closed = 0
  BY DEF Typed, WriterTyped, Next, Callback, Writer, Failures, Environment, Done, vars,
         Begin, Enter, TestPaused, Lock, Request, Abandon, Relock, AtCallback, Take,
         ReadDir, ReadDone, ReadFails, Refresh, GiveUp, Commit, CommitFails,
         StartFileWatcher, AtWriter, Edit, Create, Pause, Resume, Close
<1>1. /\ \A i \in 1 .. Len(queue) : cbpc[queue[i]] = "wait"
      /\ \A i, j \in 1 .. Len(queue) : i # j => queue[i] # queue[j]
      /\ writer # "idle" /\ serving # None =>
           cbpc[serving] = "wait" /\ \A i \in 1 .. Len(queue) : queue[i] # serving
  BY <1>0 DEF Requests
<1>2. \A i \in 1 .. Len(queue) : queue[i] \in Callbacks
  BY DEF Typed, CallbackTyped
<1>3. ASSUME NEW c \in Callbacks, Callback(c) PROVE Fine
  <2> USE DEF Goto, AtCallback
  <2>1. UNCHANGED <<writer, serving>>
    BY <1>3 DEF Callback, Begin, Enter, TestPaused, Lock, Request, Abandon, Relock
  <2>2. \A b \in Callbacks \ {c} : cbpc'[b] = cbpc[b]
    BY <1>3 DEF Callback, Begin, Enter, TestPaused, Lock, Request, Abandon, Relock,
                Typed, CallbackTyped
  <2>3. CASE Request(c)
    <3>1. /\ cbpc[c] = "request" /\ cbpc'[c] = "wait" /\ queue' = Append(queue, c)
      BY <1>0, <2>3 DEF Request, Typed, CallbackTyped
    <3>2. /\ Len(queue') = Len(queue) + 1 /\ queue'[Len(queue) + 1] = c
          /\ \A i \in 1 .. Len(queue) : queue'[i] = queue[i]
          /\ Len(queue) \in Nat
      BY <3>1 DEF Typed, CallbackTyped
    <3>3. serving # c \/ writer = "idle" \/ serving = None
      BY <3>1, <1>1
    <3>4. serving \in Callbacks \cup {None}
      BY DEF Typed, CallbackTyped
    <3>5. \A i \in 1 .. Len(queue') : i \in 1 .. Len(queue) \/ i = Len(queue) + 1
      BY <3>2
    <3> QED  BY <3>1, <3>2, <3>3, <3>4, <3>5, <1>1, <1>2, <2>1, <2>2
  <2>4. CASE ~Request(c)
    <3>1. cbpc[c] # "wait" /\ queue' = queue
      BY <1>0, <1>3, <2>4 DEF Callback, Begin, Enter, TestPaused, Lock, Abandon, Relock
    <3>2. serving \in Callbacks \cup {None}
      BY DEF Typed, CallbackTyped
    <3> QED  BY <3>1, <3>2, <1>1, <1>2, <2>1, <2>2
  <2> QED  BY <2>3, <2>4
<1>4. CASE Take
  <2>1. /\ serving' = queue[1] /\ Len(queue) \in Nat \ {0} /\ Len(queue') = Len(queue) - 1
        /\ \A i \in 1 .. Len(queue') : queue'[i] = queue[i + 1]
        /\ cbpc' = cbpc
    BY <1>4 DEF Take, Typed, CallbackTyped
  <2>2. \A i \in 1 .. Len(queue') : i + 1 \in 1 .. Len(queue)
    BY <2>1
  <2>3. \A i, j \in 1 .. Len(queue') : i # j => i + 1 # j + 1
    BY <2>1
  <2>4. ASSUME NEW i \in 1 .. Len(queue')
        PROVE  /\ queue'[i] = queue[i + 1] /\ i + 1 \in 1 .. Len(queue)
               /\ cbpc'[queue'[i]] = "wait" /\ queue[i + 1] # queue[1]
    <3>1. i + 1 \in 1 .. Len(queue) /\ 1 \in 1 .. Len(queue) /\ i + 1 # 1
      BY <2>1, <2>2
    <3> QED  BY <2>1, <3>1, <1>1
  <2>5. ASSUME NEW i \in 1 .. Len(queue'), NEW j \in 1 .. Len(queue'), i # j
        PROVE  queue'[i] # queue'[j]
    <3>1. queue[i + 1] # queue[j + 1]
      BY <2>2, <2>3, <2>5, <1>1
    <3> QED  BY <2>4, <3>1
  <2>6. cbpc'[serving'] = "wait"
    <3>1. 1 \in 1 .. Len(queue)
      BY <2>1
    <3> QED  BY <2>1, <3>1, <1>1
  <2>7. \A i \in 1 .. Len(queue') : queue'[i] # serving'
    BY <2>1, <2>4
  <2> HIDE DEF Requests
  <2> QED  BY <2>4, <2>5, <2>6, <2>7
<1>5. CASE GiveUp \/ Commit \/ CommitFails
  <2>1. queue' = queue /\ writer' = "idle" /\ AnswerRequest /\ writer # "idle"
    BY <1>5 DEF GiveUp, Commit, CommitFails
  <2>2. \A i \in 1 .. Len(queue) : cbpc'[queue[i]] = cbpc[queue[i]]
    BY <2>1, <1>1, <1>2 DEF AnswerRequest, Typed, CallbackTyped
  <2> QED  BY <2>1, <2>2, <1>1
<1>6. CASE \/ ReadDone \/ Refresh \/ StartFileWatcher
           \/ \E d \in Dirs : ReadDir(d) \/ ReadFails(d)
  <2>1. UNCHANGED <<cbpc, queue, serving>> /\ (writer = "idle" => writer' = "idle")
    BY <1>6 DEF ReadDone, Refresh, StartFileWatcher, ReadDir, ReadFails
  <2> QED  BY <2>1, <1>1
<1>7. CASE Environment \/ Pause \/ Resume \/ Close \/ UNCHANGED vars
  <2>1. UNCHANGED <<cbpc, queue, serving, writer>>
    BY <1>7 DEF Environment, Edit, Create, Pause, Resume, Close, Control, vars
  <2> QED  BY <2>1, <1>1
<1> QED
  BY <1>3, <1>4, <1>5, <1>6, <1>7 DEF Next, Writer, Failures, Done

\* Slots and requests always fit together.
LEMMA SlotsAlways == Spec => [](Slots /\ Requests)
<1>1. Init => Slots /\ Requests
  BY FS_EmptySet DEF Init, Slots, Requests, InSlot
<1> QED  BY <1>1, SlotsStep, RequestsStep, TypedAlways, PTL DEF Spec

\* A directory has at most one reload in progress, however many bursts come for it,
\* and the queue holds no more requests than there are directories being reloaded
\* (dirReloadSlot): the map from requests to directories is injective.
THEOREM SlotsBoundQueue == Spec => []OneReloadPerDir
<1>1. Typed /\ Slots /\ Requests => OneReloadPerDir
  <2> SUFFICES ASSUME Typed, Slots, Requests PROVE OneReloadPerDir
    OBVIOUS
  <2>1. ASSUME NEW b \in Callbacks, NEW c \in Callbacks,
               {cbpc[b], cbpc[c]} \subseteq {"request", "wait", "relock"},
               cbkey[b] = cbkey[c]
        PROVE  b = c
    BY <2>1 DEF Slots, InSlot
  <2>2. ASSUME closed = 0 PROVE Len(queue) <= Cardinality(running)
    <3> DEFINE dirOf == [i \in 1 .. Len(queue) |-> cbkey[queue[i]]]
    <3>1. Len(queue) \in Nat /\ \A i \in 1 .. Len(queue) : queue[i] \in Callbacks
      BY DEF Typed, CallbackTyped
    <3>2. \A i \in 1 .. Len(queue) : InSlot(queue[i]) /\ cbkey[queue[i]] \in running
      BY <2>2, <3>1 DEF Requests, Slots, InSlot
    <3>3. \A i, j \in 1 .. Len(queue) : cbkey[queue[i]] = cbkey[queue[j]] => i = j
      BY <2>2, <3>1, <3>2 DEF Requests, Slots
    <3>4. dirOf \in Injection(1 .. Len(queue), running)
      BY <3>2, <3>3 DEF Injection, IsInjective
    <3>5. Cardinality(1 .. Len(queue)) <= Cardinality(running)
      BY <3>4, FS_Injection DEF Slots
    <3>6. Cardinality(1 .. Len(queue)) = Len(queue)
      <4>1. /\ Cardinality(1 .. Len(queue)) =
                 IF 1 > Len(queue) THEN 0 ELSE Len(queue) - 1 + 1
        BY <3>1, FS_Interval
      <4> QED  BY <3>1, <4>1
    <3> QED  BY <3>5, <3>6
  <2> QED  BY <2>1, <2>2 DEF OneReloadPerDir
<1> QED  BY <1>1, TypedAlways, SlotsAlways, PTL

-----------------------------------------------------------------------------
(* No edit is lost.                                                        *)

\* Before the watcher is started there is nothing but the initial reload, and what
\* it read is what the watcher will be given.
Startup ==
  /\ phase = "load" => writer \in {"read", "refresh", "commit"} /\ serving = None
  /\ phase = "watch" => writer = "idle" /\ \A d \in Dirs : live[d] > 0 => d \in plan
  /\ phase = "run" => (writer = "idle" \/ serving # None)
  /\ phase # "run" => watched = {} /\ \A d \in Dirs : noted[d] = 0

\* What is noted, read or live was on the disk; what was read is in the plan, and
\* the plan is watched before it is published.
Bounded ==
  /\ \A d \in Dirs : noted[d] <= ver[d] /\ live[d] <= ver[d] /\ seen[d] <= ver[d]
  /\ \A d \in Dirs : seen[d] > 0 => d \in plan
  /\ phase = "run" /\ closed = 0 /\ writer = "commit" => plan \subseteq watched

\* Directory d will be read, or has been read at edit n or later.
ReadsUpTo(d, n) ==
  \/ writer = "read" /\ (Root \in unread \/ d \in unread \/ seen[d] >= n)
  \/ writer \in {"refresh", "commit"} /\ seen[d] >= n

\* A reload does not go back behind the live snapshot.
NotBehind ==
  writer \in {"read", "refresh", "commit"} => \A d \in Dirs : ReadsUpTo(d, live[d])

\* A reload that has not begun to read is still to come: a burst, a callback before
\* its request, a burst left to a slot, a request, or a failure to be recorded.
ToCome ==
  \/ bursts # {}
  \/ \E c \in Callbacks : cbpc[c] \in {"enter", "paused", "lock", "request"}
  \/ pending # {}
  \/ queue # <<>>
  \/ writer = "giveup"

\* Every noted edit is live, excused, or on its way.
Tracked ==
  closed = 0 => \A d \in Dirs : \/ live[d] >= noted[d] \/ d \in excused
                                \/ ToCome \/ ReadsUpTo(d, noted[d])

WatchInv == Startup /\ Bounded /\ NotBehind /\ LiveIsWatched

\* What the callbacks do concerns neither the disk nor the writer.
LEMMA WatchInvFrame ==
  ASSUME WatchInv, closed \in 0 .. 1,
         UNCHANGED <<phase, ver, watched, noted, writer, runVars, live>>,
         closed' = closed \/ closed' = 1
  PROVE  WatchInv'
BY DEF WatchInv, Startup, Bounded, NotBehind, ReadsUpTo, LiveIsWatched, runVars

\* Types of what is compared.
LEMMA NumbersTyped ==
  ASSUME Typed
  PROVE  \A d \in Dirs : /\ ver[d] \in Nat /\ noted[d] \in Nat
                         /\ live[d] \in Nat /\ seen[d] \in Nat
BY DEF Typed, DiskTyped, WriterTyped

\* A step that reads a directory brings it up to date.
LEMMA ReadDirReads ==
  ASSUME Typed, WatchInv, NEW d \in Dirs, ReadDir(d)
  PROVE  /\ \A e \in Dirs : seen'[e] = IF e = d THEN ver[d] ELSE seen[e]
         /\ \A e \in Dirs, n \in Nat :
              n <= ver[e] /\ ReadsUpTo(e, n) => ReadsUpTo(e, n)'
<1> USE NumbersTyped
<1>1. \A e \in Dirs : seen'[e] = IF e = d THEN ver[d] ELSE seen[e]
  BY DEF ReadDir, Typed, WriterTyped
<1>2. ASSUME NEW e \in Dirs, NEW n \in Nat, n <= ver[e], ReadsUpTo(e, n)
      PROVE  ReadsUpTo(e, n)'
  <2>0. writer = "read" /\ writer' = "read" /\ d \in unread /\ Root \in Dirs
    BY DEF ReadDir, Dirs
  <2>1. CASE e = d
    <3>1. seen'[e] >= n
      BY <1>1, <1>2, <2>1
    <3> QED  BY <3>1, <2>0 DEF ReadsUpTo
  <2>2. CASE e # d /\ d = Root
    <3>1. CASE ver[e] > 0
      <4>1. e \in unread'
        BY <2>2, <3>1 DEF ReadDir, Exists
      <4> QED  BY <4>1, <2>0 DEF ReadsUpTo
    <3>2. CASE ver[e] = 0
      <4>1. n = 0 /\ seen'[e] \in Nat
        BY <1>1, <1>2, <3>2
      <4> QED  BY <4>1, <2>0 DEF ReadsUpTo
    <3> QED  BY <3>1, <3>2
  <2>3. CASE e # d /\ d # Root
    <3>1. seen'[e] = seen[e] /\ unread' = unread \ {d}
      BY <1>1, <2>3 DEF ReadDir
    <3> QED  BY <1>2, <2>0, <2>3, <3>1 DEF ReadsUpTo
  <2> QED  BY <2>1, <2>2, <2>3
<1> QED  BY <1>1, <1>2

\* The disk, the plan and the writer stay in step.
LEMMA WatchInvStep == Typed /\ WatchInv /\ [Next]_vars => WatchInv'
<1> SUFFICES ASSUME Typed, WatchInv, [Next]_vars PROVE WatchInv'
  OBVIOUS
<1> USE DEF cbVars, runVars, ctlVars
<1>0. closed \in 0 .. 1 /\ Root \in Dirs
  BY DEF Typed, WriterTyped, Dirs
<1>00. Startup /\ Bounded /\ NotBehind /\ LiveIsWatched
  BY DEF WatchInv
<1>1. CASE \/ \E c \in Callbacks : Callback(c)
           \/ Pause \/ Resume \/ Close \/ UNCHANGED vars
  <2>1. /\ UNCHANGED <<phase, ver, watched, noted, writer, runVars, live>>
        /\ closed' = closed \/ closed' = 1
    BY <1>1 DEF Callback, Begin, Enter, TestPaused, Lock, Request, Abandon, Relock,
                AtCallback, Pause, Resume, Close, Control, vars
  <2> QED  BY <2>1, <1>0, WatchInvFrame
<1>2. CASE Environment
  <2>1. PICK d \in Dirs : Edit(d) \/ Create(d)
    BY <1>2 DEF Environment
  <2>2. \A e \in Dirs : ver'[e] >= ver[e] /\ ver'[e] \in Nat /\ ver[e] \in Nat
    BY <2>1, NumbersTyped DEF Edit, Create, Exists, Typed, DiskTyped
  <2>3. \A e \in Dirs : noted'[e] <= ver'[e]
    BY <2>1, <1>00, NumbersTyped DEF Edit, Create, Exists, Typed, DiskTyped, Bounded
  <2>4. UNCHANGED <<phase, watched, writer, runVars, live, closed>>
    BY <2>1 DEF Edit, Create
  <2>5. watched = {} => noted' = noted
    BY <2>1 DEF Edit, Create
  <2>6. Startup' /\ LiveIsWatched'
    BY <1>00, <2>4, <2>5 DEF Startup, LiveIsWatched
  <2>7. Bounded'
    BY <1>00, <2>2, <2>3, <2>4, NumbersTyped DEF Bounded
  <2>8. NotBehind'
    BY <1>00, <2>4 DEF NotBehind, ReadsUpTo
  <2> QED  BY <2>6, <2>7, <2>8 DEF WatchInv
<1>3. CASE Take
  <2> USE <1>3 DEF Take, AtWriter
  <2>0. serving' # None
    BY WatchAssumption DEF Typed, CallbackTyped
  <2>1. Startup' /\ LiveIsWatched'
    BY <1>00, <1>0, <2>0 DEF Startup, LiveIsWatched
  <2>2. Bounded' /\ NotBehind'
    BY <1>00, <1>0, NumbersTyped DEF Bounded, NotBehind, ReadsUpTo
  <2> QED  BY <2>1, <2>2 DEF WatchInv
<1>4. ASSUME NEW d \in Dirs, ReadDir(d) PROVE WatchInv'
  <2>1. /\ \A e \in Dirs : seen'[e] = IF e = d THEN ver[d] ELSE seen[e]
        /\ \A e \in Dirs, n \in Nat : n <= ver[e] /\ ReadsUpTo(e, n) => ReadsUpTo(e, n)'
    BY <1>4, ReadDirReads
  <2>2. /\ UNCHANGED <<phase, ver, watched, noted, writer, serving, live, closed>>
        /\ plan' = plan \cup {d} /\ writer = "read"
    BY <1>4 DEF ReadDir, AtWriter
  <2>3. Startup' /\ LiveIsWatched'
    BY <1>00, <2>2 DEF Startup, LiveIsWatched
  <2>4. Bounded'
    BY <1>00, <2>1, <2>2, NumbersTyped DEF Bounded
  <2>5. NotBehind'
    <3> SUFFICES ASSUME NEW e \in Dirs PROVE ReadsUpTo(e, live[e])'
      BY DEF NotBehind
    <3>1. live[e] \in Nat /\ live[e] <= ver[e] /\ ReadsUpTo(e, live[e])
      BY <1>00, <2>2, NumbersTyped DEF Bounded, NotBehind
    <3> QED  BY <2>1, <2>2, <3>1 DEF ReadsUpTo
  <2> QED  BY <2>3, <2>4, <2>5 DEF WatchInv
<1>5. CASE ReadDone
  <2> USE <1>5 DEF ReadDone, AtWriter
  <2>1. Startup' /\ LiveIsWatched' /\ Bounded'
    BY <1>00 DEF Startup, LiveIsWatched, Bounded
  <2>2. NotBehind'
    BY <1>00 DEF NotBehind, ReadsUpTo
  <2> QED  BY <2>1, <2>2 DEF WatchInv
<1>6. ASSUME NEW d \in Dirs, ReadFails(d) PROVE WatchInv'
  <2>1. /\ UNCHANGED <<phase, ver, watched, noted, serving, live, closed, seen>>
        /\ plan' = plan \cup {d} /\ writer = "read" /\ writer' = "giveup"
        /\ serving # None
    BY <1>6 DEF ReadFails, AtWriter
  <2> QED  BY <1>00, <2>1 DEF WatchInv, Startup, LiveIsWatched, Bounded, NotBehind
<1>7. CASE Refresh
  <2>1. /\ UNCHANGED <<phase, ver, noted, runVars, live, closed>>
        /\ writer = "refresh" /\ writer' = "commit"
        /\ watched' = IF phase = "run" /\ closed = 0 THEN watched \cup plan ELSE watched
    BY <1>7 DEF Refresh, AtWriter, Watch
  <2>2. Startup' /\ LiveIsWatched' /\ Bounded'
    BY <1>00, <2>1 DEF Startup, LiveIsWatched, Bounded
  <2>3. NotBehind'
    BY <1>00, <2>1 DEF NotBehind, ReadsUpTo
  <2> QED  BY <2>2, <2>3 DEF WatchInv
<1>8. CASE GiveUp \/ CommitFails
  <2>1. /\ UNCHANGED <<ver, noted, runVars, live, closed>>
        /\ writer # "idle" /\ writer' = "idle" /\ watched \subseteq watched'
        /\ phase # "run" => watched' = watched
    BY <1>8 DEF GiveUp, CommitFails, AtWriter, Watch
  <2>2. phase = "run" /\ phase' = "run"
    BY <1>8, <1>00 DEF GiveUp, CommitFails, AnswerRequest, Startup, Typed, DiskTyped
  <2> QED
    BY <1>00, <2>1, <2>2 DEF WatchInv, Startup, LiveIsWatched, Bounded, NotBehind
<1>9. CASE Commit
  <2>1. /\ UNCHANGED <<ver, noted, runVars, closed, watched>> /\ live' = seen
        /\ writer = "commit" /\ writer' = "idle" /\ AnswerRequest
    BY <1>9 DEF Commit, AtWriter
  <2>2. \/ phase = "load" /\ phase' = "watch"
        \/ phase = "run" /\ phase' = "run"
    BY <1>00, <2>1 DEF AnswerRequest, Startup, Typed, DiskTyped
  <2>3. Startup' /\ LiveIsWatched'
    BY <1>00, <2>1, <2>2 DEF Startup, LiveIsWatched, Bounded
  <2>4. Bounded' /\ NotBehind'
    BY <1>00, <2>1 DEF Bounded, NotBehind
  <2> QED  BY <2>3, <2>4 DEF WatchInv
<1>10. CASE StartFileWatcher
  <2>1. /\ UNCHANGED <<ver, noted, runVars, closed, writer, live>>
        /\ phase = "watch" /\ phase' = "run" /\ watched' = plan
    BY <1>10 DEF StartFileWatcher, AtWriter
  <2> QED
    BY <1>00, <2>1 DEF WatchInv, Startup, LiveIsWatched, Bounded, NotBehind
<1> QED
  BY <1>1, <1>2, <1>3, <1>4, <1>5, <1>6, <1>7, <1>8, <1>9, <1>10
     DEF Next, Writer, Failures, Done

\* No step loses track of a noted edit.
LEMMA TrackedStep == Typed /\ WatchInv /\ Tracked /\ [Next]_vars => Tracked'
<1> SUFFICES ASSUME Typed, WatchInv, Tracked, [Next]_vars, closed' = 0, NEW e \in Dirs
             PROVE  \/ live'[e] >= noted'[e] \/ e \in excused' \/ ToCome'
                    \/ ReadsUpTo(e, noted[e])'
  BY DEF Tracked
<1> DEFINE Kept == \/ live'[e] >= noted'[e] \/ e \in excused' \/ ToCome'
                   \/ ReadsUpTo(e, noted[e])'
<1> USE DEF cbVars, runVars, ctlVars
<1>0. closed = 0
  BY DEF Typed, WriterTyped, Next, Callback, Writer, Failures, Environment, Done, vars,
         Begin, Enter, TestPaused, Lock, Request, Abandon, Relock, AtCallback, Take,
         ReadDir, ReadDone, ReadFails, Refresh, GiveUp, Commit, CommitFails,
         StartFileWatcher, AtWriter, Edit, Create, Pause, Resume, Close
<1>1. live[e] >= noted[e] \/ e \in excused \/ ToCome \/ ReadsUpTo(e, noted[e])
  BY <1>0 DEF Tracked
<1>2. /\ ver[e] \in Nat /\ noted[e] \in Nat /\ live[e] \in Nat /\ seen[e] \in Nat
      /\ noted[e] <= ver[e] /\ live[e] <= ver[e]
  BY NumbersTyped DEF WatchInv, Bounded
<1>3. ASSUME NEW c \in Callbacks, Callback(c) PROVE Kept
  <2> USE DEF AtCallback, Goto
  <2>0. UNCHANGED <<noted, live, writer, runVars>>
    BY <1>3 DEF Callback, Begin, Enter, TestPaused, Lock, Request, Abandon, Relock
  <2>1. CASE \/ cbpc'[c] \in {"enter", "paused", "lock", "request"}
             \/ e \in excused' \/ pending' # {} \/ queue' # <<>>
    BY <2>1 DEF ToCome
  <2>2. CASE ~ \/ cbpc'[c] \in {"enter", "paused", "lock", "request"}
               \/ e \in excused' \/ pending' # {} \/ queue' # <<>>
    <3>1. Relock(c)
      BY <1>0, <1>3, <2>2 DEF Callback, Begin, Enter, TestPaused, Lock, Request,
           Abandon, Relock, Typed, CallbackTyped, DiskTyped
    <3>2. /\ UNCHANGED <<bursts, queue, excused, pending>> /\ cbpc[c] = "relock"
          /\ \A b \in Callbacks \ {c} : cbpc'[b] = cbpc[b]
      BY <2>2, <3>1 DEF Relock, Typed, CallbackTyped
    <3>3. ToCome => ToCome'
      BY <3>2, <2>0 DEF ToCome
    <3> QED  BY <1>1, <2>0, <3>2, <3>3 DEF ReadsUpTo
  <2> QED  BY <2>1, <2>2
<1>4. CASE Environment
  <2>1. PICK d \in Dirs : Edit(d) \/ Create(d)
    BY <1>4 DEF Environment
  <2>2. CASE noted' = noted
    <3>1. /\ UNCHANGED <<cbVars, queue, writer, runVars, live, excused>>
          /\ bursts \subseteq bursts'
      BY <2>1 DEF Edit, Create, Notify
    <3>2. ToCome => ToCome'
      BY <3>1 DEF ToCome
    <3> QED  BY <1>1, <2>2, <3>1, <3>2 DEF ReadsUpTo
  <2>3. CASE noted' # noted
    <3>1. bursts' # {}
      BY <1>0, <2>1, <2>3 DEF Edit, Create, Notify
    <3> QED  BY <3>1 DEF ToCome
  <2> QED  BY <2>2, <2>3
<1>5. CASE Take
  <2>1. ReadsUpTo(e, noted[e])'
    BY <1>5 DEF Take, ReadsUpTo
  <2> QED  BY <2>1
<1>6. ASSUME NEW d \in Dirs, ReadDir(d) PROVE Kept
  <2>1. UNCHANGED <<noted, live, excused, bursts, cbpc, pending, queue, writer>>
    BY <1>6 DEF ReadDir, AtWriter
  <2>2. ReadsUpTo(e, noted[e]) => ReadsUpTo(e, noted[e])'
    <3>1. ASSUME ReadsUpTo(e, noted[e]) PROVE ReadsUpTo(e, noted[e])'
      <4>1. \A n \in Nat : n <= ver[e] /\ ReadsUpTo(e, n) => ReadsUpTo(e, n)'
        BY <1>6, ReadDirReads
      <4> QED  BY <4>1, <3>1, <1>2, <2>1 DEF ReadsUpTo
    <3> QED  BY <3>1
  <2> QED  BY <1>1, <2>1, <2>2 DEF ToCome
<1>7. CASE ReadDone \/ Refresh
  <2>1. UNCHANGED <<noted, live, excused, bursts, cbpc, pending, queue, seen>>
    BY <1>7 DEF ReadDone, Refresh, AtWriter
  <2>2. ReadsUpTo(e, noted[e]) => ReadsUpTo(e, noted[e])'
    BY <1>7, <2>1 DEF ReadsUpTo, ReadDone, Refresh
  <2>3. writer # "giveup"
    BY <1>7 DEF ReadDone, Refresh
  <2> QED  BY <1>1, <2>1, <2>2, <2>3 DEF ToCome
<1>8. CASE \E d \in Dirs : ReadFails(d)
  BY <1>8 DEF ReadFails, ToCome
<1>9. CASE GiveUp \/ CommitFails
  BY <1>9 DEF GiveUp, CommitFails
<1>10. CASE Commit
  <2>1. /\ UNCHANGED <<noted, bursts, pending, queue>> /\ live' = seen
        /\ excused' = {d \in excused : seen[d] < noted[d]}
        /\ writer = "commit" /\ AnswerRequest
    BY <1>10 DEF Commit, AtWriter
  <2>2. seen[e] >= live[e]
    BY <2>1 DEF WatchInv, NotBehind, ReadsUpTo
  <2>3. \A c \in Callbacks : cbpc[c] # "wait" => cbpc'[c] = cbpc[c]
    BY <2>1 DEF AnswerRequest, Typed, CallbackTyped
  <2>4. ToCome => ToCome'
    BY <2>1, <2>3 DEF ToCome
  <2>5. ReadsUpTo(e, noted[e]) => seen[e] >= noted[e]
    BY <2>1 DEF ReadsUpTo
  <2>6. seen[e] >= noted[e] \/ e \in excused \/ ToCome
    BY <1>1, <1>2, <2>2, <2>5
  <2>7. seen[e] >= noted[e] \/ seen[e] < noted[e]
    BY <1>2
  <2> QED  BY <2>1, <2>4, <2>6, <2>7
<1>11. CASE StartFileWatcher \/ Pause \/ Resume \/ Close \/ UNCHANGED vars
  <2>1. UNCHANGED <<noted, live, excused, bursts, cbpc, pending, queue, seen, unread, writer>>
    BY <1>0, <1>11 DEF StartFileWatcher, Pause, Resume, Close, AtWriter, Control, vars
  <2> QED  BY <1>1, <2>1 DEF ToCome, ReadsUpTo
<1> QED
  BY <1>3, <1>4, <1>5, <1>6, <1>7, <1>8, <1>9, <1>10, <1>11
     DEF Next, Writer, Failures, Done

\* An edit noted by the watcher is never lost between coalescer, slots, queue and
\* writer, unless Pause or a failed reload left it out, and the directories of the
\* live snapshot are watched (dirReloadSlot, refreshWatchPaths, startFileWatcher).
THEOREM EditsAreCovered == Spec => []EditsCovered
<1>1. Init => WatchInv /\ Tracked
  BY DEF Init, WatchInv, Startup, Bounded, NotBehind, ReadsUpTo, LiveIsWatched,
         Tracked, Dirs
<1>2. Typed /\ Slots /\ WatchInv /\ Tracked => EditsCovered
  <2> SUFFICES ASSUME Typed, Slots, WatchInv, Tracked PROVE EditsCovered
    OBVIOUS
  <2>1. TypeOK
    BY TypedIsTypeOK
  <2>2. ASSUME Calm, closed = 0, NEW d \in Dirs \ excused PROVE live[d] >= noted[d]
    <3>1. running = {}
      BY <2>2 DEF Calm, Slots, InSlot
    <3>2. ~ToCome
      BY <2>2, <3>1 DEF Calm, Slots, ToCome
    <3> QED  BY <2>2, <3>2 DEF Calm, Tracked, ReadsUpTo
  <2>3. NoLostEdit
    BY <2>2 DEF NoLostEdit
  <2> QED  BY <2>1, <2>3 DEF WatchInv, EditsCovered
<1> QED
  BY <1>1, <1>2, WatchInvStep, TrackedStep, TypedAlways, SlotsAlways, PTL DEF Spec
=============================================================================
