------------------------------ MODULE FileWatch ------------------------------
(***************************************************************************)
(* File-driven reloads (file_watch.go, reload.go): the initial reload and  *)
(* the registration of watches, the coalescer's callback with its slot per *)
(* directory, and the reloads it requests.  The coalescer (module          *)
(* Coalescer) is a pending bit per directory; the writer's queue (module   *)
(* ReloadQueue) is a sequence without other requests.                      *)
(***************************************************************************)
EXTENDS Integers, Sequences, FiniteSets

CONSTANTS Root,       \* WithDir, always there
          Overlays,   \* directories below it, created later
          Callbacks,  \* goroutines that run the coalescer's callback
          None,       \* not a callback
          MaxEdits,   \* bound on the edits of each directory
          MaxFails,   \* bound on failing reloads
          MaxPauses   \* bound on Pause calls

ASSUME WatchAssumption ==
  /\ Root \notin Overlays /\ None \notin Callbacks
  /\ MaxEdits \in Nat /\ MaxFails \in Nat /\ MaxPauses \in Nat

Dirs == {Root} \cup Overlays

VARIABLES
  phase,     \* New: "load", "watch", then "run"
  ver,       \* Dirs -> the edits made in it; 0 for an overlay not created
  watched,   \* the directories the fsnotify watcher has registered
  noted,     \* Dirs -> the last edit made while it was watched
  bursts,    \* the directories with a pending burst in the coalescer
  cbpc,      \* Callbacks -> where the callback stands
  cbkey,     \* Callbacks -> its key
  running, pending,  \* dirReloadSlot.running, .pending: sets of directories
  queue,     \* the callbacks whose request waits for the writer
  writer,    \* where the writer stands: "idle", "read", "refresh", "commit",
             \* or "giveup", a refresh after a failed assembly
  serving,   \* the callback whose request it serves, None for the initial one
  plan,      \* scannedDirs of this reload, as listed by OnDir
  unread,    \* the directories it has still to read
  seen,      \* Dirs -> the edit it read
  live,      \* Dirs -> the edit the live snapshot shows
  excused,   \* directories with a change that Pause or a failed reload left out
  paused, closed,    \* 0 or 1
  fails, pauses      \* counters for the bounds

cbVars == <<cbpc, cbkey, running, pending>>
runVars == <<serving, plan, unread, seen>>
ctlVars == <<paused, closed, pauses>>
vars == <<phase, ver, watched, noted, bursts, cbVars, queue, writer, runVars, live,
          excused, ctlVars, fails>>

Exists == {d \in Dirs : ver[d] > 0}

\* New scans the root and loads it; nothing is watched yet.
Init ==
  /\ phase = "load"
  /\ ver = [d \in Dirs |-> IF d = Root THEN 1 ELSE 0]
  /\ watched = {} /\ noted = [d \in Dirs |-> 0] /\ bursts = {}
  /\ cbpc = [c \in Callbacks |-> "idle"] /\ cbkey = [c \in Callbacks |-> Root]
  /\ running = {} /\ pending = {} /\ queue = <<>>
  /\ writer = "read" /\ serving = None /\ plan = {Root} /\ unread = {Root}
  /\ seen = [d \in Dirs |-> 0] /\ live = [d \in Dirs |-> 0]
  /\ excused = {} /\ paused = 0 /\ closed = 0 /\ fails = 0 /\ pauses = 0

-----------------------------------------------------------------------------
(* The file system and fsnotify.                                           *)

\* An event for a path in directory d reaches the coalescer, if d is watched.
Notify(d) ==
  IF d \in watched /\ closed = 0
    THEN bursts' = bursts \cup {d}
    ELSE UNCHANGED bursts

\* Somebody edits a file in d.
Edit(d) ==
  /\ d \in Exists /\ ver[d] < MaxEdits
  /\ ver' = [ver EXCEPT ![d] = @ + 1]
  /\ noted' = IF d \in watched THEN [noted EXCEPT ![d] = ver[d] + 1] ELSE noted
  /\ Notify(d)
  /\ UNCHANGED <<phase, watched, cbVars, queue, writer, runVars, live, excused,
                 ctlVars, fails>>

\* Somebody creates overlay d with a file in it, an event in its parent.
Create(d) ==
  /\ d \in Dirs \ Exists
  /\ ver' = [ver EXCEPT ![d] = 1]
  /\ noted' = IF Root \in watched THEN [noted EXCEPT ![d] = 1] ELSE noted
  /\ Notify(Root)
  /\ UNCHANGED <<phase, watched, cbVars, queue, writer, runVars, live, excused,
                 ctlVars, fails>>

-----------------------------------------------------------------------------
(* The coalescer's callback.                                               *)

Goto(c, l) == cbpc' = [cbpc EXCEPT ![c] = l]
AtCallback(c) == UNCHANGED <<phase, ver, watched, noted, writer, runVars, live,
                             ctlVars, fails>>

\* The burst of directory d is flushed.
Begin(c, d) ==
  /\ cbpc[c] = "idle" /\ d \in bursts
  /\ bursts' = bursts \ {d}
  /\ cbkey' = [cbkey EXCEPT ![c] = d]
  /\ Goto(c, "enter")
  /\ UNCHANGED <<running, pending, queue, excused>> /\ AtCallback(c)

\* Nothing after Close.
Enter(c) ==
  /\ cbpc[c] = "enter"
  /\ Goto(c, IF closed = 1 THEN "idle" ELSE "paused")
  /\ UNCHANGED <<bursts, cbkey, running, pending, queue, excused>> /\ AtCallback(c)

\* The event is ignored while paused.
TestPaused(c) ==
  /\ cbpc[c] = "paused"
  /\ IF paused = 1
       THEN Goto(c, "idle") /\ excused' = Dirs
       ELSE Goto(c, "lock") /\ UNCHANGED excused
  /\ UNCHANGED <<bursts, cbkey, running, pending, queue>> /\ AtCallback(c)

\* Mistake: a directory whose reload is running ignores the burst.
LockForgetting(c) ==
  /\ cbpc[c] = "lock"
  /\ IF cbkey[c] \in running
       THEN Goto(c, "idle") /\ UNCHANGED <<running, pending>>
       ELSE /\ Goto(c, "request")
            /\ running' = running \cup {cbkey[c]}
            /\ pending' = pending \ {cbkey[c]}
  /\ UNCHANGED <<bursts, cbkey, queue, excused>> /\ AtCallback(c)

\* Mistake: every burst requests a reload of its own.
LockShared(c) ==
  /\ cbpc[c] = "lock"
  /\ Goto(c, "request")
  /\ running' = running \cup {cbkey[c]}
  /\ pending' = pending \ {cbkey[c]}
  /\ UNCHANGED <<bursts, cbkey, queue, excused>> /\ AtCallback(c)

\* The directory's slot: leave the work to the callback that is running, or
\* become that callback.
Lock(c) ==
  /\ cbpc[c] = "lock"
  /\ IF cbkey[c] \in running
       THEN /\ Goto(c, "idle")
            /\ pending' = pending \cup {cbkey[c]}
            /\ UNCHANGED running
       ELSE /\ Goto(c, "request")
            /\ running' = running \cup {cbkey[c]}
            /\ pending' = pending \ {cbkey[c]}
  /\ UNCHANGED <<bursts, cbkey, queue, excused>> /\ AtCallback(c)

\* requestReload: queue the request and wait, unless the manager is closed.
Request(c) ==
  /\ cbpc[c] = "request"
  /\ IF closed = 1
       THEN Goto(c, "relock") /\ UNCHANGED queue
       ELSE Goto(c, "wait") /\ queue' = Append(queue, c)
  /\ UNCHANGED <<bursts, cbkey, running, pending, excused>> /\ AtCallback(c)

\* Close ends the wait.
Abandon(c) ==
  /\ cbpc[c] = "wait" /\ closed = 1
  /\ Goto(c, "relock")
  /\ UNCHANGED <<bursts, cbkey, running, pending, queue, excused>> /\ AtCallback(c)

\* Mistake: the slot is released although a burst came meanwhile.
RelockOnce(c) ==
  /\ cbpc[c] = "relock"
  /\ Goto(c, "idle") /\ running' = running \ {cbkey[c]}
  /\ UNCHANGED <<bursts, cbkey, pending, queue, excused>> /\ AtCallback(c)

\* Reload once more if a burst came meanwhile; otherwise release the slot.
Relock(c) ==
  /\ cbpc[c] = "relock"
  /\ IF cbkey[c] \in pending
       THEN /\ Goto(c, "request")
            /\ pending' = pending \ {cbkey[c]}
            /\ UNCHANGED running
       ELSE /\ Goto(c, "idle")
            /\ running' = running \ {cbkey[c]}
            /\ UNCHANGED pending
  /\ UNCHANGED <<bursts, cbkey, queue, excused>> /\ AtCallback(c)

-----------------------------------------------------------------------------
(* The writer.                                                             *)

AtWriter == UNCHANGED <<ver, noted, bursts, cbkey, running, pending, ctlVars>>

\* The writer takes a request.
Take ==
  /\ phase = "run" /\ writer = "idle" /\ queue # <<>> /\ closed = 0
  /\ serving' = Head(queue) /\ queue' = Tail(queue)
  /\ writer' = "read" /\ plan' = {Root} /\ unread' = {Root}
  /\ seen' = [d \in Dirs |-> 0]
  /\ UNCHANGED <<phase, watched, cbpc, live, excused, fails>> /\ AtWriter

\* assembleFileLayers reads one directory after another, and OnDir lists it.  The
\* root comes first and tells which overlays there are.
ReadDir(d) ==
  /\ writer = "read" /\ d \in unread
  /\ seen' = [seen EXCEPT ![d] = ver[d]]
  /\ plan' = plan \cup {d}
  /\ unread' = IF d = Root THEN Exists \ {Root} ELSE unread \ {d}
  /\ UNCHANGED <<phase, watched, cbpc, queue, writer, serving, live, excused, fails>>
  /\ AtWriter

ReadDone ==
  /\ writer = "read" /\ unread = {} /\ writer' = "refresh"
  /\ UNCHANGED <<phase, watched, cbpc, queue, runVars, live, excused, fails>> /\ AtWriter

\* A file of directory d cannot be read or decoded.
ReadFails(d) ==
  /\ writer = "read" /\ d \in unread /\ serving # None /\ fails < MaxFails
  /\ plan' = plan \cup {d}
  /\ writer' = "giveup" /\ fails' = fails + 1
  /\ UNCHANGED <<phase, watched, cbpc, queue, serving, unread, seen, live, excused>>
  /\ AtWriter

\* Mistake: the directories are recorded but not added to the watcher.
WatchRecorded == UNCHANGED watched

\* refreshWatchPaths: the directories scanned are watched from now on.  There is
\* no watcher yet in the initial reload, and none after Close.
Watch == watched' = IF phase = "run" /\ closed = 0 THEN watched \cup plan
                                                   ELSE watched

Refresh ==
  /\ writer = "refresh" /\ Watch /\ writer' = "commit"
  /\ UNCHANGED <<phase, cbpc, queue, runVars, live, excused, fails>> /\ AtWriter

\* The request is answered, if its caller still waits; the initial reload
\* returns to New.
AnswerRequest ==
  IF serving = None
    THEN phase' = "watch" /\ UNCHANGED cbpc
    ELSE /\ cbpc' = [cbpc EXCEPT ![serving] = IF @ = "wait" THEN "relock" ELSE @]
         /\ UNCHANGED phase

\* A failed assembly keeps the live snapshot and still watches what it scanned.
GiveUp ==
  /\ writer = "giveup" /\ Watch /\ writer' = "idle"
  /\ excused' = Dirs /\ AnswerRequest
  /\ UNCHANGED <<queue, runVars, live, fails>> /\ AtWriter

\* The new snapshot is published.
Commit ==
  /\ writer = "commit" /\ writer' = "idle"
  /\ live' = seen
  /\ excused' = {d \in excused : seen[d] < noted[d]}
  /\ AnswerRequest
  /\ UNCHANGED <<watched, queue, runVars, fails>> /\ AtWriter

\* Validation or a hook rejects it.
CommitFails ==
  /\ writer = "commit" /\ serving # None /\ fails < MaxFails
  /\ writer' = "idle" /\ fails' = fails + 1
  /\ excused' = Dirs /\ AnswerRequest
  /\ UNCHANGED <<watched, queue, runVars, live>> /\ AtWriter

\* startFileWatcher watches the static paths and what the initial reload
\* scanned.
StartFileWatcher ==
  /\ phase = "watch" /\ phase' = "run"
  /\ watched' = plan
  /\ UNCHANGED <<cbpc, queue, writer, runVars, live, excused, fails>> /\ AtWriter

-----------------------------------------------------------------------------
(* Control.                                                                *)

Control == UNCHANGED <<phase, ver, watched, noted, cbVars, queue, writer, runVars,
                       live, excused, fails>>

Pause ==
  /\ phase = "run" /\ paused = 0 /\ pauses < MaxPauses
  /\ paused' = 1 /\ pauses' = pauses + 1
  /\ UNCHANGED <<bursts, closed>> /\ Control

\* Mistake: pauses are counted.
ResumeCounted ==
  /\ phase = "run" /\ paused' = paused - 1
  /\ UNCHANGED <<bursts, closed, pauses>> /\ Control

Resume ==
  /\ paused = 1 /\ paused' = 0
  /\ UNCHANGED <<bursts, closed, pauses>> /\ Control

\* Close ends the watcher goroutine, which stops the coalescer.
Close ==
  /\ phase = "run" /\ closed = 0 /\ closed' = 1
  /\ bursts' = {}
  /\ UNCHANGED <<paused, pauses>> /\ Control

-----------------------------------------------------------------------------

Calm ==
  /\ phase = "run" /\ bursts = {} /\ queue = <<>> /\ writer = "idle"
  /\ \A c \in Callbacks : cbpc[c] = "idle"

\* Nothing is going on and the bounds are reached, or the manager is closed.
Done == (Calm \/ closed = 1) /\ UNCHANGED vars

Callback(c) == \/ \E d \in Dirs : Begin(c, d)
               \/ Enter(c) \/ TestPaused(c) \/ Lock(c) \/ Request(c)
               \/ Abandon(c) \/ Relock(c)
Writer == \/ Take \/ \E d \in Dirs : ReadDir(d)
          \/ ReadDone \/ Refresh \/ GiveUp \/ Commit
          \/ StartFileWatcher
Failures == CommitFails \/ \E d \in Dirs : ReadFails(d)
Environment == \E d \in Dirs : Edit(d) \/ Create(d)

Next == \/ \E c \in Callbacks : Callback(c)
        \/ Writer \/ Failures \/ Environment \/ Pause \/ Resume \/ Close \/ Done

Spec == Init /\ [][Next]_vars

\* Bursts are flushed, callbacks run and the writer serves its queue.
FairSpec == /\ Spec /\ WF_vars(Writer)
            /\ \A c \in Callbacks : WF_vars(Callback(c))

-----------------------------------------------------------------------------

\* Every variable has its type.
TypeOK ==
  /\ phase \in {"load", "watch", "run"}
  /\ ver \in [Dirs -> Nat] /\ noted \in [Dirs -> Nat]
  /\ watched \subseteq Dirs /\ bursts \subseteq Dirs
  /\ cbpc \in [Callbacks -> {"idle", "enter", "paused", "lock", "request", "wait",
                             "relock"}]
  /\ cbkey \in [Callbacks -> Dirs]
  /\ running \subseteq Dirs /\ pending \subseteq Dirs
  /\ queue \in Seq(Callbacks) /\ serving \in Callbacks \cup {None}
  /\ writer \in {"idle", "read", "refresh", "giveup", "commit"}
  /\ plan \subseteq Dirs /\ unread \subseteq Dirs
  /\ seen \in [Dirs -> Nat] /\ live \in [Dirs -> Nat] /\ excused \subseteq Dirs
  /\ paused \in 0 .. 1 /\ closed \in 0 .. 1 /\ fails \in Nat /\ pauses \in Nat

\* No change seen by the watcher is lost between bursts, slots and the queue:
\* when all is calm the live snapshot shows it, unless the manager was paused
\* or the reload failed.
NoLostEdit ==
  Calm /\ closed = 0 => \A d \in Dirs \ excused : live[d] >= noted[d]

\* A directory that keeps changing has one reload in progress and at most one
\* more to come: it cannot fill the writer's queue.
OneReloadPerDir ==
  /\ \A b, c \in Callbacks :
       /\ {cbpc[b], cbpc[c]} \subseteq {"request", "wait", "relock"}
       /\ cbkey[b] = cbkey[c]
       => b = c
  /\ closed = 0 => Len(queue) <= Cardinality(running)

\* A directory shown in the live snapshot is watched: its next change will be
\* seen.
LiveIsWatched ==
  phase = "run" /\ closed = 0 => \A d \in Dirs : live[d] > 0 => d \in watched

\* A change seen by the watcher is eventually in the live snapshot.
EditsArrive ==
  \A d \in Dirs, n \in 1 .. MaxEdits :
    noted[d] = n ~> live[d] >= n \/ closed = 1 \/ d \in excused

\* "startFileWatcher subscribes parent directories before loading their contents,
\* so file creation and Kubernetes symlink swaps cannot slip between scan and
\* watch": when all is calm the live snapshot shows every change.
NothingSlips == Calm /\ closed = 0 /\ excused = {} => live = ver

\* Every edit the watcher saw is live or on its way there, and every directory of the
\* live snapshot is watched, so that later edits are seen (callback, refreshWatchPaths).
EditsCovered == TypeOK /\ NoLostEdit /\ LiveIsWatched
=============================================================================
