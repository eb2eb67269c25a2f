------------------------------ MODULE WatchPaths ------------------------------
(***************************************************************************)
(* internal/watcher: which directories are registered while directories    *)
(* are removed, moved and made again.  Directories form one chain: level 0 *)
(* always exists, level n + 1 lies in level n.  The kernel watches inodes, *)
(* which are numbered as directories are made.                             *)
(***************************************************************************)
EXTENDS Integers, Sequences

CONSTANTS Depth,     \* the deepest level
          MaxOps     \* bound on changes of the file system

ASSUME WatchPathsAssumption == Depth \in Nat \ {0} /\ MaxOps \in Nat

Levels == 0 .. Depth
Paths == 1 .. Depth

VARIABLES
  ino,       \* the inode at each level, 0 where there is none
  ops,       \* changes so far
  kw,        \* the inode fsnotify watches under each name, 0 for none
  fsq,       \* fsw.Events: [op, level]
  wanted,    \* w.want
  dirs,      \* w.dirs
  job,       \* the caller that holds w.mu: [pc, todo, loop, added, path, dir]
  missed,    \* paths whose last registration raced with a change: see AddWatch
  stray,     \* registered directories that moved away with a parent
  wclosed    \* w.closed

pathVars == <<ino, ops, kw, fsq, wanted, dirs, job, missed, stray, wclosed>>

NoJob == [pc |-> "idle", todo |-> {}, loop |-> 0, added |-> 0, path |-> 0, dir |-> 0]

PathInit ==
  /\ ops = 0 /\ fsq = <<>> /\ wanted = {} /\ dirs = {} /\ missed = {} /\ stray = {}
  /\ \E n \in Levels : ino = [l \in Levels |-> IF l <= n THEN 1 ELSE 0]
  /\ kw = [l \in Levels |-> 0] /\ job = NoJob /\ wclosed = 0

ThereIs(l) == ino[l] # 0
Live(l) == kw[l] # 0 /\ kw[l] = ino[l]

-----------------------------------------------------------------------------
(* The file system and fsnotify.                                           *)

Happens == ops < MaxOps /\ ops' = ops + 1 /\ UNCHANGED <<wanted, dirs, job, missed, wclosed>>
Reported(op, l, seen) ==
  fsq' = IF seen /\ wclosed = 0 THEN Append(fsq, [op |-> op, level |-> l]) ELSE fsq

MakeDir(l) ==
  /\ l > 0 /\ ThereIs(l - 1) /\ ~ThereIs(l) /\ Happens
  /\ ino' = [ino EXCEPT ![l] = ops + 2]
  /\ Reported("create", l, Live(l - 1)) /\ UNCHANGED <<kw, stray>>

\* An empty directory is removed; the kernel drops its watch.
RemoveDir(l) ==
  /\ l > 0 /\ ThereIs(l) /\ (\A n \in Levels : n > l => ~ThereIs(n)) /\ Happens
  /\ ino' = [ino EXCEPT ![l] = 0] /\ kw' = [kw EXCEPT ![l] = 0]
  /\ Reported("remove", l, Live(l) \/ Live(l - 1)) /\ UNCHANGED stray

\* A directory is moved away with what it holds; only its own watch and that of
\* its parent report it.
MoveDir(l) ==
  /\ l > 0 /\ ThereIs(l) /\ Happens
  /\ ino' = [n \in Levels |-> IF n >= l THEN 0 ELSE ino[n]]
  /\ stray' = stray \cup {n \in dirs : n > l /\ Live(n)}
  /\ kw' = [kw EXCEPT ![l] = 0]
  /\ Reported("rename", l, Live(l) \/ Live(l - 1))

-----------------------------------------------------------------------------
(* The watcher.                                                            *)

\* The path if it is a directory, otherwise its nearest existing ancestor.
watchDir(p) == CHOOSE l \in 0 .. p : ThereIs(l) /\ \A n \in l + 1 .. p : ~ThereIs(n)

StartJob(todo, loop) == job' = [NoJob EXCEPT !.pc = "resolve", !.todo = todo, !.loop = loop]

AddPath(p) ==
  /\ job.pc = "idle" /\ wclosed = 0
  /\ wanted' = wanted \cup {p} /\ StartJob({p}, 0)
  /\ UNCHANGED <<ino, ops, kw, fsq, dirs, missed, stray, wclosed>>

\* Mistake: a directory that is gone stays registered.
TrackKeeping(ev) ==
  \/ /\ ev.op \in {"remove", "rename"} /\ StartJob(wanted, 1)
     /\ UNCHANGED <<dirs, kw, stray>>
  \/ ev.op = "create" /\ ThereIs(ev.level) /\ StartJob(wanted, 1)
     /\ UNCHANGED <<dirs, kw, stray>>
  \/ ev.op = "create" /\ ~ThereIs(ev.level) /\ UNCHANGED <<dirs, kw, stray, job>>

\* track: a removed or moved directory loses its watch; then, and when a directory
\* appears, the wanted paths are registered again.
track(ev) ==
  \/ /\ ev.op \in {"remove", "rename"} /\ ev.level \in dirs
     /\ dirs' = dirs \ {ev.level} /\ kw' = [kw EXCEPT ![ev.level] = 0]
     /\ stray' = stray \ {ev.level} /\ StartJob(wanted, 1)
  \/ /\ ev.op \in {"remove", "rename"} /\ ev.level \notin dirs
     /\ UNCHANGED <<dirs, kw, stray, job>>
  \/ /\ ev.op = "create" /\ ThereIs(ev.level) /\ StartJob(wanted, 1)
     /\ UNCHANGED <<dirs, kw, stray>>
  \/ /\ ev.op = "create" /\ ~ThereIs(ev.level)
     /\ UNCHANGED <<dirs, kw, stray, job>>

\* Run takes an event; the push to the coalescer is module FileWatch's.
RunEvent ==
  /\ job.pc = "idle" /\ wclosed = 0 /\ fsq # <<>>
  /\ track(Head(fsq)) /\ fsq' = Tail(fsq)
  /\ UNCHANGED <<ino, ops, wanted, missed, wclosed>>

\* register, first half: resolve a path; its directory may be registered already.
Resolve(p) ==
  /\ job.pc = "resolve" /\ p \in job.todo
  /\ LET dir == watchDir(p) IN
       IF dir \in dirs
         THEN job' = [job EXCEPT !.todo = @ \ {p}] /\ missed' = missed \ {p}
         ELSE job' = [job EXCEPT !.pc = "add", !.path = p, !.dir = dir] /\ UNCHANGED missed
  /\ UNCHANGED <<ino, ops, kw, fsq, wanted, dirs, stray, wclosed>>

\* Second half: fsw.Add, which fails when the directory has gone meanwhile.  A
\* deeper directory that appeared meanwhile is missed too, unless a pass follows.
AddWatch ==
  /\ job.pc = "add"
  /\ LET rest == [job EXCEPT !.pc = "resolve", !.todo = @ \ {job.path}, !.path = 0, !.dir = 0] IN
     \/ /\ ThereIs(job.dir)
        /\ kw' = [kw EXCEPT ![job.dir] = ino[job.dir]] /\ dirs' = dirs \cup {job.dir}
        /\ job' = [rest EXCEPT !.added = 1]
        /\ missed' = IF job.loop = 0 /\ watchDir(job.path) # job.dir
                       THEN missed \cup {job.path} ELSE missed \ {job.path}
     \/ /\ ~ThereIs(job.dir) /\ job' = rest /\ missed' = missed \cup {job.path}
        /\ UNCHANGED <<kw, dirs>>
  /\ UNCHANGED <<ino, ops, fsq, wanted, stray, wclosed>>

\* Mistake: one pass over the wanted paths is enough.
EndPassOnce ==
  /\ job.pc = "resolve" /\ job.todo = {} /\ job' = NoJob
  /\ UNCHANGED <<ino, ops, kw, fsq, wanted, dirs, missed, stray, wclosed>>

\* track repeats the pass while watches were added.
EndPass ==
  /\ job.pc = "resolve" /\ job.todo = {}
  /\ job' = IF job.loop = 1 /\ job.added = 1
              THEN [job EXCEPT !.todo = wanted, !.added = 0] ELSE NoJob
  /\ UNCHANGED <<ino, ops, kw, fsq, wanted, dirs, missed, stray, wclosed>>

CloseWatcher ==
  /\ job.pc = "idle" /\ wclosed = 0 /\ wclosed' = 1
  /\ kw' = [l \in Levels |-> 0] /\ fsq' = <<>>
  /\ UNCHANGED <<ino, ops, wanted, dirs, job, missed, stray>>

PathNext ==
  \/ \E l \in Levels : MakeDir(l) \/ RemoveDir(l) \/ MoveDir(l)
  \/ \E p \in Paths : AddPath(p) \/ Resolve(p)
  \/ RunEvent \/ AddWatch \/ EndPass \/ CloseWatcher

-----------------------------------------------------------------------------

\* A watch that died is noticed: its directory is watched as it is now, or the
\* event that will drop the registration is on its way.  A directory that moved
\* away below a moved parent is the exception: nothing reports it.
DeadWatchNoticed ==
  wclosed = 0 =>
    \A d \in dirs :
      \/ Live(d) \/ d \in stray
      \/ \E i \in DOMAIN fsq : fsq[i].level = d /\ fsq[i].op \in {"remove", "rename"}

\* Once the events are drained every wanted path is watched at its nearest
\* existing directory, whatever was made before the watch was in place.  Left out:
\* a path whose directory vanished, or in AddPath appeared, between the look and
\* the watch, and the time after a parent was moved away.
NearestIsWatched ==
  wclosed = 0 /\ job.pc = "idle" /\ fsq = <<>> /\ stray = {} =>
    \A p \in wanted \ missed : watchDir(p) \in dirs

\* Registrations follow the directories: a dead watch is noticed, and every wanted path is
\* watched at the nearest directory that exists (track, register).
WatchesFollow == DeadWatchNoticed /\ NearestIsWatched
=============================================================================
