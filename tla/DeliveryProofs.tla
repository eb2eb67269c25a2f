---------------------------- MODULE DeliveryProofs ----------------------------
(***************************************************************************)
(* Proofs about the parts at the manager's edge: WatchPaths for a chain of *)
(* any depth and any number of changes of the file system, Observers for   *)
(* any clients and any capacities, ObjectLoads and Notifications for any   *)
(* number of versions, failures and duplicates and any capacity of the     *)
(* channel of s3events; and about MCDelivery, where they stand together.   *)
(***************************************************************************)
EXTENDS MCDelivery, TLAPS

-----------------------------------------------------------------------------
(***************************************************************************)
(* Watched paths.                                                          *)
(***************************************************************************)

\* WatchPaths on its own.
PathSpec == PathInit /\ [][PathNext]_pathVars

-----------------------------------------------------------------------------
(* The inductive invariant.                                                *)

Drops(ev) == ev.op \in {"remove", "rename"}

EventTypes == [op : {"create", "remove", "rename"}, level : Levels]

DiskTyped ==
  /\ ino \in [Levels -> Nat] /\ kw \in [Levels -> Nat] /\ ops \in Nat
  /\ fsq \in Seq(EventTypes)

JobTypes == [pc : {"idle", "resolve", "add"}, todo : SUBSET Paths, loop : 0 .. 1,
             added : 0 .. 1, path : Levels, dir : Levels]

WatcherTyped ==
  /\ wanted \subseteq Paths /\ dirs \subseteq Levels /\ wclosed \in 0 .. 1
  /\ job \in JobTypes
  /\ job.pc = "add" => job.path \in Paths

Typed == DiskTyped /\ WatcherTyped

\* The directories that exist are those down to some level.
Chain == \E top \in Levels : \A l \in Levels : ThereIs(l) <=> l <= top

\* An event in the queue will drop a registration and start a pass.
DropComes == \E i \in 1 .. Len(fsq) : Drops(fsq[i]) /\ fsq[i].level \in dirs

\* The pass in progress has still to look at path p.
ToVisit(p) ==
  job.pc # "idle" /\ (p \in job.todo \/ (job.loop = 1 /\ job.added = 1))

\* A directory above p is registered, and it is the nearest one or the event of the
\* next one's creation is in the queue.
Anchored(p) ==
  \E n \in dirs : /\ n <= watchDir(p)
                  /\ \/ n = watchDir(p)
                     \/ \E i \in 1 .. Len(fsq) :
                          fsq[i].op = "create" /\ fsq[i].level = n + 1

\* Every wanted path is watched at the nearest directory, or will be looked at again.
Followed ==
  wclosed = 0 /\ stray = {} =>
    \A p \in wanted \ missed : Anchored(p) \/ DropComes \/ ToVisit(p)

PathInv == Typed /\ Chain /\ DeadWatchNoticed /\ Followed

-----------------------------------------------------------------------------
(* Lemmas.                                                                 *)

\* Level numbers.
LEMMA LevelFacts ==
  /\ Depth \in Nat \ {0} /\ 0 \in Levels
  /\ \A l \in Levels : l \in Nat /\ l <= Depth
  /\ \A l \in Levels : l > 0 => l - 1 \in Levels
  /\ Paths \subseteq Levels
  /\ \A p \in Paths : p > 0
BY WatchPathsAssumption DEF Levels, Paths

\* With a chain f ending at "top", a path is watched at itself or at the top.
LEMMA NearestIn ==
  ASSUME NEW f, NEW top \in Levels, \A l \in Levels : f[l] # 0 <=> l <= top, NEW p \in Paths
  PROVE  (CHOOSE l \in 0 .. p : f[l] # 0 /\ \A n \in l + 1 .. p : ~(f[n] # 0)) =
           IF p <= top THEN p ELSE top
<1> DEFINE near == IF p <= top THEN p ELSE top
           Fits(l) == f[l] # 0 /\ \A n \in l + 1 .. p : ~(f[n] # 0)
<1>1. top \in Nat /\ p \in Nat /\ \A l \in 0 .. p : l \in Levels /\ l \in Nat
  BY LevelFacts DEF Levels, Paths
<1>2. near \in 0 .. p /\ Fits(near)
  <2>1. near \in 0 .. p
    BY <1>1
  <2>2. f[near] # 0
    BY <1>1, <2>1
  <2>3. ASSUME NEW n \in near + 1 .. p PROVE ~(f[n] # 0)
    <3>1. n \in 0 .. p /\ ~(n <= top)
      BY <1>1, <2>1
    <3> QED  BY <1>1, <3>1
  <2> QED  BY <2>1, <2>2, <2>3
<1>3. ASSUME NEW l \in 0 .. p, Fits(l) PROVE l = near
  <2>1. l \in Nat /\ l <= p /\ l <= top
    BY <1>1, <1>3
  <2>2. ~(l < near)
    <3> SUFFICES ASSUME l < near PROVE FALSE
      OBVIOUS
    <3>1. near \in l + 1 .. p
      BY <1>1, <2>1
    <3> QED  BY <1>2, <1>3, <3>1
  <2> QED  BY <1>1, <2>1, <2>2
<1> HIDE DEF near, Fits
<1>4. (CHOOSE l \in 0 .. p : Fits(l)) = near
  BY <1>2, <1>3
<1> QED  BY <1>4 DEF near, Fits

\* The same for the directories that exist.
LEMMA NearestDir ==
  ASSUME NEW top \in Levels, \A l \in Levels : ThereIs(l) <=> l <= top, NEW p \in Paths
  PROVE  watchDir(p) = IF p <= top THEN p ELSE top
BY NearestIn DEF watchDir, ThereIs

\* The same for the directories that will exist after a step.
LEMMA NearestDirNext ==
  ASSUME NEW top \in Levels, \A l \in Levels : ThereIs(l)' <=> l <= top, NEW p \in Paths
  PROVE  watchDir(p)' = IF p <= top THEN p ELSE top
BY NearestIn DEF watchDir, ThereIs

\* The watched directory of a path exists and lies above it.
LEMMA NearestFacts ==
  ASSUME Chain, NEW p \in Paths
  PROVE  watchDir(p) \in Levels /\ watchDir(p) <= p /\ ThereIs(watchDir(p))
<1>1. PICK top \in Levels : \A l \in Levels : ThereIs(l) <=> l <= top
  BY DEF Chain
<1>2. watchDir(p) = IF p <= top THEN p ELSE top
  BY <1>1, NearestDir
<1> QED  BY <1>1, <1>2, LevelFacts

\* Everything above an existing directory exists.
LEMMA ChainBelow ==
  ASSUME Chain, NEW l \in Levels, NEW n \in Levels, ThereIs(l), n <= l
  PROVE  ThereIs(n)
BY LevelFacts DEF Chain

\* The queue of events only grows at its end.
LEMMA QueueGrows ==
  ASSUME Typed, NEW ev \in EventTypes, fsq' = fsq \/ fsq' = Append(fsq, ev)
  PROVE  /\ fsq' \in Seq(EventTypes)
         /\ \A i \in 1 .. Len(fsq) : i \in 1 .. Len(fsq') /\ fsq'[i] = fsq[i]
         /\ fsq' = Append(fsq, ev) => \E i \in 1 .. Len(fsq') : fsq'[i] = ev
<1>1. fsq \in Seq(EventTypes) /\ Len(fsq) \in Nat
  BY DEF Typed, DiskTyped
<1>2. CASE fsq' = fsq /\ fsq' # Append(fsq, ev)
  BY <1>1, <1>2
<1>3. CASE fsq' = Append(fsq, ev)
  <2>1. /\ Len(fsq') = Len(fsq) + 1 /\ fsq' \in Seq(EventTypes)
        /\ \A i \in 1 .. Len(fsq) : fsq'[i] = fsq[i]
        /\ fsq'[Len(fsq) + 1] = ev
    BY <1>1, <1>3
  <2>2. Len(fsq) + 1 \in 1 .. Len(fsq') /\ \A i \in 1 .. Len(fsq) : i \in 1 .. Len(fsq')
    BY <1>1, <2>1
  <2> QED  BY <2>1, <2>2
<1> QED  BY <1>2, <1>3

\* A registered directory whose watch is dead has its event in the queue.
LEMMA DeadComes ==
  ASSUME Typed, DeadWatchNoticed, wclosed = 0, stray = {}, NEW d \in dirs, ~Live(d)
  PROVE  DropComes
<1>1. PICK i \in DOMAIN fsq : fsq[i].level = d /\ fsq[i].op \in {"remove", "rename"}
  BY DEF DeadWatchNoticed
<1>2. i \in 1 .. Len(fsq)
  BY <1>1 DEF Typed, DiskTyped
<1> QED  BY <1>1, <1>2 DEF DropComes, Drops

\* The invariant about dead watches, with the queue's positions as a range.
LEMMA NoticedDef ==
  ASSUME fsq \in Seq(EventTypes)
  PROVE  DeadWatchNoticed <=>
           (wclosed = 0 =>
             \A d \in dirs : \/ Live(d) \/ d \in stray
                             \/ \E i \in 1 .. Len(fsq) : fsq[i].level = d /\ Drops(fsq[i]))
<1>1. DOMAIN fsq = 1 .. Len(fsq)
  OBVIOUS
<1> QED  BY <1>1 DEF DeadWatchNoticed, Drops

-----------------------------------------------------------------------------
(* The file system changes.                                                *)

\* What a change leaves alone keeps every path it does not touch in sight.
LEMMA SightKept ==
  ASSUME PathInv, UNCHANGED <<wanted, dirs, job, missed, wclosed>>, stray \subseteq stray',
         \A i \in 1 .. Len(fsq) : i \in 1 .. Len(fsq') /\ fsq'[i] = fsq[i],
         wclosed = 0 /\ stray' = {} =>
           \A p \in Paths : Anchored(p) => Anchored(p)' \/ DropComes'
  PROVE  Followed'
<1> SUFFICES ASSUME wclosed = 0, stray' = {}, NEW p \in wanted \ missed
             PROVE  Anchored(p)' \/ DropComes' \/ ToVisit(p)'
  BY DEF Followed
<1>1. p \in Paths /\ (Anchored(p) \/ DropComes \/ ToVisit(p))
  BY DEF PathInv, Typed, WatcherTyped, Followed
<1>2. DropComes => DropComes'
  BY DEF DropComes, Drops
<1>3. ToVisit(p) => ToVisit(p)'
  BY DEF ToVisit
<1> QED  BY <1>1, <1>2, <1>3

\* A directory made below a live watch is reported.
LEMMA MakeDirStep ==
  ASSUME PathInv, NEW l \in Levels, MakeDir(l)
  PROVE  PathInv'
<1>0. Typed /\ Chain /\ DeadWatchNoticed /\ Followed
  BY DEF PathInv
<1> DEFINE ev == [op |-> "create", level |-> l]
<1>1. /\ l > 0 /\ ThereIs(l - 1) /\ ~ThereIs(l) /\ ino' = [ino EXCEPT ![l] = ops + 2]
      /\ UNCHANGED <<wanted, dirs, job, missed, wclosed, kw, stray>> /\ ops' = ops + 1
      /\ fsq' = fsq \/ fsq' = Append(fsq, ev)
      /\ Live(l - 1) /\ wclosed = 0 => fsq' = Append(fsq, ev)
  BY DEF MakeDir, Happens, Reported
<1>2. ev \in EventTypes /\ ev.op = "create" /\ ev.level = l
  BY DEF EventTypes
<1> HIDE DEF ev
<1>3. /\ fsq' \in Seq(EventTypes)
      /\ \A i \in 1 .. Len(fsq) : i \in 1 .. Len(fsq') /\ fsq'[i] = fsq[i]
      /\ fsq' = Append(fsq, ev) => \E i \in 1 .. Len(fsq') : fsq'[i] = ev
  BY <1>0, <1>1, <1>2, QueueGrows
<1>4. /\ l \in Nat /\ l - 1 \in Levels /\ ops \in Nat
      /\ ino'[l] = ops + 2 /\ \A n \in Levels \ {l} : ino'[n] = ino[n]
      /\ ino' \in [Levels -> Nat]
  BY <1>0, <1>1, LevelFacts DEF Typed, DiskTyped
<1>5. Typed'
  BY <1>0, <1>1, <1>3, <1>4 DEF Typed, DiskTyped, WatcherTyped
<1>6. PICK top \in Levels : \A n \in Levels : ThereIs(n) <=> n <= top
  BY <1>0 DEF Chain
<1>7. top = l - 1 /\ top \in Nat
  BY <1>1, <1>4, <1>6, LevelFacts
<1>8. \A n \in Levels : ThereIs(n)' <=> n <= l
  <2> SUFFICES ASSUME NEW n \in Levels PROVE ThereIs(n)' <=> n <= l
    OBVIOUS
  <2>1. n \in Nat
    BY LevelFacts
  <2>2. CASE n = l
    BY <1>4, <2>1, <2>2 DEF ThereIs
  <2>3. CASE n # l
    BY <1>4, <1>6, <1>7, <2>1, <2>3 DEF ThereIs
  <2> QED  BY <2>2, <2>3
<1>9. Chain'
  BY <1>8 DEF Chain
<1>10. \A n \in Levels : Live(n) => Live(n)'
  BY <1>1, <1>4 DEF Live, ThereIs
<1>11. DeadWatchNoticed'
  <2>1. wclosed' = 0 =>
          \A d \in dirs' : \/ Live(d)' \/ d \in stray'
                           \/ \E i \in 1 .. Len(fsq') : fsq'[i].level = d /\ Drops(fsq'[i])
    BY <1>0, <1>1, <1>3, <1>10, NoticedDef DEF Typed, DiskTyped, WatcherTyped
  <2>2. DOMAIN fsq' = 1 .. Len(fsq')
    BY <1>3
  <2> QED  BY <2>1, <2>2 DEF DeadWatchNoticed, Drops
<1>12. Followed'
  <2> SUFFICES ASSUME wclosed = 0, stray' = {}, NEW p \in Paths, Anchored(p)
               PROVE  Anchored(p)' \/ DropComes'
    BY <1>1, <1>3, SightKept
  <2>1. /\ watchDir(p) = IF p <= top THEN p ELSE top
        /\ watchDir(p)' = IF p <= l THEN p ELSE l
    BY <1>6, <1>8, NearestDir, NearestDirNext
  <2>2. PICK n \in dirs : /\ n <= watchDir(p)
                          /\ \/ n = watchDir(p)
                             \/ \E i \in 1 .. Len(fsq) :
                                  fsq[i].op = "create" /\ fsq[i].level = n + 1
    BY DEF Anchored
  <2>3. n \in Levels /\ n \in Nat /\ p \in Nat /\ n <= watchDir(p)' /\ n <= top
    <3>1. n \in Levels /\ p \in Levels
      BY <1>0, <2>2, LevelFacts DEF Typed, WatcherTyped
    <3>2. n \in Nat /\ p \in Nat /\ l \in Nat /\ top \in Nat
      BY <3>1, LevelFacts
    <3> QED  BY <1>7, <2>1, <2>2, <3>1, <3>2
  <2>4. CASE watchDir(p)' = watchDir(p)
    BY <1>1, <1>3, <2>2, <2>4 DEF Anchored
  <2>5. CASE \E i \in 1 .. Len(fsq) : fsq[i].op = "create" /\ fsq[i].level = n + 1
    BY <1>1, <1>3, <2>3, <2>5 DEF Anchored
  <2>6. CASE n = watchDir(p) /\ watchDir(p)' # watchDir(p)
    <3>1. n = l - 1 /\ n + 1 = l
      BY <1>4, <1>7, <2>1, <2>3, <2>6
    <3>2. CASE Live(n)
      <4>1. \E i \in 1 .. Len(fsq') : fsq'[i].op = "create" /\ fsq'[i].level = n + 1
        BY <1>1, <1>2, <1>3, <3>1, <3>2
      <4> QED  BY <1>1, <2>3, <4>1 DEF Anchored
    <3>3. CASE ~Live(n)
      <4>1. DropComes
        BY <1>0, <1>1, <3>3, DeadComes
      <4> QED  BY <1>1, <1>3, <4>1 DEF DropComes, Drops
    <3> QED  BY <3>2, <3>3
  <2> QED  BY <2>2, <2>4, <2>5, <2>6
<1> QED  BY <1>5, <1>9, <1>11, <1>12 DEF PathInv

\* A directory that goes, alone or with those below it.
LEMMA GoneStep ==
  ASSUME PathInv, NEW l \in Levels, RemoveDir(l) \/ MoveDir(l)
  PROVE  PathInv'
<1>0. Typed /\ Chain /\ DeadWatchNoticed /\ Followed
  BY DEF PathInv
<1>1. PICK op \in {"remove", "rename"} :
        /\ fsq' = fsq \/ fsq' = Append(fsq, [op |-> op, level |-> l])
        /\ Live(l) /\ wclosed = 0 => fsq' = Append(fsq, [op |-> op, level |-> l])
  BY DEF RemoveDir, MoveDir, Reported
<1> DEFINE ev == [op |-> op, level |-> l]
<1>2. /\ l > 0 /\ ThereIs(l) /\ kw' = [kw EXCEPT ![l] = 0] /\ ops' = ops + 1
      /\ UNCHANGED <<wanted, dirs, job, missed, wclosed>> /\ stray \subseteq stray'
  BY DEF RemoveDir, MoveDir, Happens
<1>3. l \in Nat /\ l - 1 \in Levels /\ ops \in Nat
  BY <1>0, <1>2, LevelFacts DEF Typed, DiskTyped
<1>4. \A n \in Levels : ino'[n] = IF n >= l THEN 0 ELSE ino[n]
  <2>1. CASE MoveDir(l)
    BY <2>1 DEF MoveDir
  <2>2. CASE RemoveDir(l)
    <3> SUFFICES ASSUME NEW n \in Levels PROVE ino'[n] = IF n >= l THEN 0 ELSE ino[n]
      OBVIOUS
    <3>1. n \in Nat
      BY LevelFacts
    <3>2. n > l => ino[n] = 0
      BY <2>2 DEF RemoveDir, ThereIs
    <3>3. ino'[n] = IF n = l THEN 0 ELSE ino[n]
      BY <1>0, <2>2 DEF RemoveDir, Typed, DiskTyped
    <3> QED  BY <1>3, <3>1, <3>2, <3>3
  <2> QED  BY <2>1, <2>2
<1>5. \A n \in dirs : n > l /\ Live(n) => n \in stray'
  <2>1. CASE MoveDir(l)
    BY <2>1 DEF MoveDir
  <2>2. CASE RemoveDir(l)
    BY <1>0, <2>2 DEF RemoveDir, ThereIs, Live, Typed, WatcherTyped
  <2> QED  BY <2>1, <2>2
<1>6. ev \in EventTypes /\ ev.op \in {"remove", "rename"} /\ ev.level = l
  BY DEF EventTypes
<1>7. /\ fsq' = fsq \/ fsq' = Append(fsq, ev)
      /\ Live(l) /\ wclosed = 0 => fsq' = Append(fsq, ev)
  BY <1>1
<1> HIDE DEF ev
<1>8. /\ fsq' \in Seq(EventTypes)
      /\ \A i \in 1 .. Len(fsq) : i \in 1 .. Len(fsq') /\ fsq'[i] = fsq[i]
      /\ fsq' = Append(fsq, ev) => \E i \in 1 .. Len(fsq') : fsq'[i] = ev
  BY <1>0, <1>6, <1>7, QueueGrows
<1>9. Typed'
  <2>1. ino' \in [Levels -> Nat]
    <3>1. CASE MoveDir(l)
      BY <1>0, <3>1 DEF MoveDir, Typed, DiskTyped
    <3>2. CASE RemoveDir(l)
      BY <1>0, <3>2 DEF RemoveDir, Typed, DiskTyped
    <3> QED  BY <3>1, <3>2
  <2>2. kw' \in [Levels -> Nat] /\ ops' \in Nat
    BY <1>0, <1>2, <1>3 DEF Typed, DiskTyped
  <2> QED  BY <1>0, <1>2, <1>8, <2>1, <2>2 DEF Typed, DiskTyped, WatcherTyped
<1>10. PICK top \in Levels : \A n \in Levels : ThereIs(n) <=> n <= top
  BY <1>0 DEF Chain
<1>11. \A n \in Levels : ThereIs(n)' <=> n <= l - 1
  <2> SUFFICES ASSUME NEW n \in Levels PROVE ThereIs(n)' <=> n <= l - 1
    OBVIOUS
  <2>1. n \in Nat /\ l <= top /\ top \in Nat
    BY <1>2, <1>10, LevelFacts
  <2>2. n < l => ThereIs(n)
    BY <1>3, <1>10, <2>1
  <2> QED  BY <1>3, <1>4, <2>1, <2>2 DEF ThereIs
<1>12. Chain'
  BY <1>3, <1>11 DEF Chain
<1>13. \A n \in Levels : n < l /\ Live(n) => Live(n)'
  <2> SUFFICES ASSUME NEW n \in Levels, n < l, Live(n) PROVE Live(n)'
    OBVIOUS
  <2>1. n \in Nat /\ ~(n >= l) /\ n # l
    BY <1>3, LevelFacts
  <2>2. ino'[n] = ino[n] /\ kw'[n] = kw[n]
    BY <1>0, <1>2, <1>4, <2>1 DEF Typed, DiskTyped
  <2> QED  BY <2>2 DEF Live
<1>14. ASSUME wclosed = 0, NEW d \in dirs, d >= l
       PROVE  \/ d \in stray'
              \/ \E i \in 1 .. Len(fsq') : fsq'[i].level = d /\ Drops(fsq'[i])
  <2>1. d \in Levels /\ d \in Nat
    BY <1>0, LevelFacts DEF Typed, WatcherTyped
  <2>2. CASE Live(d) /\ d = l
    BY <1>6, <1>7, <1>8, <1>14, <2>2 DEF Drops
  <2>3. CASE Live(d) /\ d > l
    BY <1>5, <2>3
  <2>4. CASE ~Live(d)
    <3>1. d \in stray \/ \E i \in 1 .. Len(fsq) : fsq[i].level = d /\ Drops(fsq[i])
      BY <1>0, <1>14, <2>4, NoticedDef DEF Typed, DiskTyped
    <3> QED  BY <1>2, <1>8, <3>1
  <2> QED  BY <1>3, <1>14, <2>1, <2>2, <2>3, <2>4
<1>15. DeadWatchNoticed'
  <2>1. ASSUME wclosed' = 0, NEW d \in dirs'
        PROVE  \/ Live(d)' \/ d \in stray'
               \/ \E i \in 1 .. Len(fsq') : fsq'[i].level = d /\ Drops(fsq'[i])
    <3>1. d \in dirs /\ d \in Levels /\ d \in Nat /\ wclosed = 0
      BY <1>0, <1>2, <2>1, LevelFacts DEF Typed, WatcherTyped
    <3>2. CASE d >= l
      BY <1>14, <3>1, <3>2
    <3>3. CASE d < l
      <4>1. Live(d) \/ d \in stray \/ \E i \in 1 .. Len(fsq) : fsq[i].level = d /\ Drops(fsq[i])
        BY <1>0, <3>1, NoticedDef DEF Typed, DiskTyped
      <4> QED  BY <1>2, <1>8, <1>13, <3>1, <3>3, <4>1
    <3> QED  BY <1>3, <3>1, <3>2, <3>3
  <2>2. DOMAIN fsq' = 1 .. Len(fsq')
    BY <1>8
  <2> QED  BY <2>1, <2>2 DEF DeadWatchNoticed, Drops
<1>16. Followed'
  <2> SUFFICES ASSUME wclosed = 0, stray' = {}, NEW p \in Paths, Anchored(p)
               PROVE  Anchored(p)' \/ DropComes'
    BY <1>2, <1>8, SightKept
  <2>1. /\ watchDir(p) = IF p <= top THEN p ELSE top
        /\ watchDir(p)' = IF p <= l - 1 THEN p ELSE l - 1
    BY <1>3, <1>10, <1>11, NearestDir, NearestDirNext
  <2>2. PICK n \in dirs : /\ n <= watchDir(p)
                          /\ \/ n = watchDir(p)
                             \/ \E i \in 1 .. Len(fsq) :
                                  fsq[i].op = "create" /\ fsq[i].level = n + 1
    BY DEF Anchored
  <2>3. n \in Levels /\ n \in Nat /\ p \in Nat /\ top \in Nat /\ l <= top
    BY <1>0, <1>2, <1>10, <2>2, LevelFacts DEF Typed, WatcherTyped
  <2>4. CASE n >= l
    BY <1>2, <1>14, <2>4 DEF DropComes
  <2>5. CASE n < l
    <3>1. n <= watchDir(p)'
      BY <1>3, <2>1, <2>2, <2>3, <2>5
    <3>2. n = watchDir(p) => n = watchDir(p)'
      BY <1>3, <2>1, <2>3, <2>5
    <3> QED  BY <1>2, <1>8, <2>2, <3>1, <3>2 DEF Anchored
  <2> QED  BY <1>3, <2>3, <2>4, <2>5
<1> QED  BY <1>9, <1>12, <1>15, <1>16 DEF PathInv

-----------------------------------------------------------------------------
(* The watcher works.                                                      *)

\* The watcher does not change the directories.
LEMMA DiskFrame ==
  ASSUME Chain, UNCHANGED ino
  PROVE  Chain' /\ \A p \in Paths : watchDir(p)' = watchDir(p)
<1>1. \A l : ThereIs(l)' = ThereIs(l)
  BY DEF ThereIs
<1>2. Chain'
  BY <1>1 DEF Chain
<1>3. \A p \in Paths : watchDir(p)' = watchDir(p)
  BY DEF watchDir, ThereIs
<1> QED  BY <1>2, <1>3

\* Steps of a pass that neither register nor drop anything.
LEMMA PassFrame ==
  ASSUME PathInv, UNCHANGED <<ino, kw, fsq, dirs, stray, wclosed>>
  PROVE  /\ Chain' /\ DeadWatchNoticed'
         /\ \A p \in Paths : (Anchored(p)' <=> Anchored(p)) /\ watchDir(p)' = watchDir(p)
         /\ DropComes' <=> DropComes
<1>1. Chain' /\ \A p \in Paths : watchDir(p)' = watchDir(p)
  BY DiskFrame DEF PathInv
<1>2. DeadWatchNoticed'
  BY DEF PathInv, DeadWatchNoticed, Live
<1>3. \A p \in Paths : Anchored(p)' <=> Anchored(p)
  BY <1>1 DEF Anchored
<1>4. DropComes' <=> DropComes
  BY DEF DropComes, Drops
<1> QED  BY <1>1, <1>2, <1>3, <1>4

\* The fields of the job at hand.
LEMMA JobFacts ==
  ASSUME Typed
  PROVE  /\ job.pc \in {"idle", "resolve", "add"} /\ job.todo \subseteq Paths
         /\ job.loop \in 0 .. 1 /\ job.added \in 0 .. 1
         /\ job.path \in Levels /\ job.dir \in Levels
BY DEF Typed, WatcherTyped, JobTypes

\* No job at hand.
LEMMA IdleJob == NoJob \in JobTypes /\ NoJob.pc = "idle"
<1>1. 0 \in 0 .. 1 /\ {} \in SUBSET Paths
  OBVIOUS
<1> QED  BY <1>1, LevelFacts DEF NoJob, JobTypes

\* A job that starts.
LEMMA NewJob ==
  ASSUME NEW S \in SUBSET Paths, NEW k \in 0 .. 1, NEW j,
         j = [NoJob EXCEPT !.pc = "resolve", !.todo = S, !.loop = k]
  PROVE  j \in JobTypes /\ j.pc = "resolve" /\ j.todo = S
BY IdleJob DEF JobTypes

\* The job after a registration was tried.
LEMMA RestOfJob ==
  ASSUME NEW j \in JobTypes, NEW p, NEW rest,
         rest = [j EXCEPT !.pc = "resolve", !.todo = @ \ {p}, !.path = 0, !.dir = 0]
  PROVE  /\ rest \in JobTypes /\ rest.pc = "resolve" /\ rest.todo = j.todo \ {p}
         /\ rest.loop = j.loop /\ rest.added = j.added
<1>1. j.todo \ {p} \in SUBSET Paths /\ 0 \in Levels
  BY LevelFacts DEF JobTypes
<1>2. rest.pc = "resolve" /\ rest.todo = j.todo \ {p} /\ rest.loop = j.loop /\ rest.added = j.added
  BY DEF JobTypes
<1>3. rest \in JobTypes
  BY <1>1 DEF JobTypes
<1> QED  BY <1>2, <1>3

\* The job after a registration succeeded.
LEMMA MoreOfJob ==
  ASSUME NEW rest \in JobTypes, NEW more, more = [rest EXCEPT !.added = 1]
  PROVE  /\ more \in JobTypes /\ more.pc = rest.pc /\ more.todo = rest.todo
         /\ more.loop = rest.loop /\ more.added = 1
<1>1. 1 \in 0 .. 1
  OBVIOUS
<1> QED  BY <1>1 DEF JobTypes

\* A new wanted path is looked at first.
LEMMA AddPathStep ==
  ASSUME PathInv, NEW p \in Paths, AddPath(p)
  PROVE  PathInv'
<1>1. /\ job.pc = "idle" /\ wanted' = wanted \cup {p}
      /\ job' = [NoJob EXCEPT !.pc = "resolve", !.todo = {p}, !.loop = 0]
      /\ UNCHANGED <<ino, ops, kw, fsq, dirs, missed, stray, wclosed>>
  BY DEF AddPath, StartJob
<1>2. job' \in JobTypes /\ job'.pc = "resolve" /\ job'.todo = {p}
  <2>1. {p} \in SUBSET Paths /\ 0 \in 0 .. 1
    OBVIOUS
  <2>2. job' = [NoJob EXCEPT !.pc = "resolve", !.todo = {p}, !.loop = 0]
    BY <1>1
  <2>3. \A S \in SUBSET Paths, k \in 0 .. 1 :
          job' = [NoJob EXCEPT !.pc = "resolve", !.todo = S, !.loop = k] =>
            job' \in JobTypes /\ job'.pc = "resolve" /\ job'.todo = S
    BY NewJob
  <2> QED  BY <2>1, <2>2, <2>3, Zenon
<1>3. Typed'
  BY <1>1, <1>2 DEF PathInv, Typed, DiskTyped, WatcherTyped
<1>4. Followed'
  <2> SUFFICES ASSUME wclosed = 0, stray = {}, NEW q \in wanted' \ missed
               PROVE  Anchored(q)' \/ DropComes' \/ ToVisit(q)'
    BY <1>1 DEF Followed
  <2>1. CASE q = p
    BY <1>2, <2>1 DEF ToVisit
  <2>2. CASE q # p
    <3>1. q \in wanted \ missed /\ q \in Paths
      BY <1>1, <2>2 DEF PathInv, Typed, WatcherTyped
    <3>2. Anchored(q) \/ DropComes
      BY <1>1, <3>1 DEF PathInv, Followed, ToVisit
    <3> QED  BY <1>1, <3>1, <3>2, PassFrame
  <2> QED  BY <2>1, <2>2
<1> QED  BY <1>1, <1>3, <1>4, PassFrame DEF PathInv

\* The path at hand is found registered, or its registration begins.
LEMMA ResolveStep ==
  ASSUME PathInv, NEW p \in Paths, Resolve(p)
  PROVE  PathInv'
<1>1. /\ job.pc = "resolve" /\ p \in job.todo
      /\ \/ /\ watchDir(p) \in dirs /\ job' = [job EXCEPT !.todo = @ \ {p}]
            /\ missed' = missed \ {p}
         \/ /\ watchDir(p) \notin dirs
            /\ job' = [job EXCEPT !.pc = "add", !.path = p, !.dir = watchDir(p)]
            /\ missed' = missed
      /\ UNCHANGED <<ino, ops, kw, fsq, wanted, dirs, stray, wclosed>>
  BY DEF Resolve
<1>2. watchDir(p) \in Levels /\ p \in Levels
  BY NearestFacts, LevelFacts DEF PathInv
<1>3. Typed'
  <2>1. DiskTyped'
    BY <1>1 DEF PathInv, Typed, DiskTyped
  <2>2. WatcherTyped'
    BY <1>1, <1>2 DEF PathInv, Typed, WatcherTyped, JobTypes
  <2> QED  BY <2>1, <2>2 DEF Typed
<1>4. /\ job'.pc # "idle" /\ job'.loop = job.loop /\ job'.added = job.added
      /\ \A q \in job.todo : q # p => q \in job'.todo
      /\ watchDir(p) \notin dirs => p \in job'.todo
  BY <1>1 DEF PathInv, Typed, WatcherTyped, JobTypes
<1>5. Followed'
  <2> SUFFICES ASSUME wclosed = 0, stray = {}, NEW q \in wanted \ missed'
               PROVE  Anchored(q)' \/ DropComes' \/ ToVisit(q)'
    BY <1>1 DEF Followed
  <2>1. q \in Paths
    BY DEF PathInv, Typed, WatcherTyped
  <2>2. CASE q = p /\ watchDir(p) \in dirs
    <3>1. Anchored(q)
      BY <1>2, <2>2, LevelFacts DEF Anchored
    <3> QED  BY <1>1, <2>1, <3>1, PassFrame
  <2>3. CASE q = p /\ watchDir(p) \notin dirs
    BY <1>4, <2>3 DEF ToVisit
  <2>4. CASE q # p
    <3>1. Anchored(q) \/ DropComes \/ ToVisit(q)
      BY <1>1, <2>4 DEF PathInv, Followed
    <3>2. ToVisit(q) => ToVisit(q)'
      BY <1>4, <2>4 DEF ToVisit
    <3> QED  BY <1>1, <2>1, <3>1, <3>2, PassFrame
  <2> QED  BY <2>2, <2>3, <2>4
<1> QED  BY <1>1, <1>3, <1>5, PassFrame DEF PathInv

\* A pass ends: it is repeated if it registered anything.
LEMMA EndPassStep == PathInv /\ EndPass => PathInv'
<1> SUFFICES ASSUME PathInv, EndPass PROVE PathInv'
  OBVIOUS
<1>1. /\ job.pc = "resolve" /\ job.todo = {}
      /\ job' = IF job.loop = 1 /\ job.added = 1
                  THEN [job EXCEPT !.todo = wanted, !.added = 0] ELSE NoJob
      /\ UNCHANGED <<ino, ops, kw, fsq, wanted, dirs, missed, stray, wclosed>>
  BY DEF EndPass
<1>2. Typed'
  <2>1. DiskTyped'
    BY <1>1 DEF PathInv, Typed, DiskTyped
  <2>2. WatcherTyped'
    <3>1. [job EXCEPT !.todo = wanted, !.added = 0] \in JobTypes
      <4>1. wanted \in SUBSET Paths /\ 0 \in 0 .. 1 /\ job \in JobTypes
        BY DEF PathInv, Typed, WatcherTyped
      <4> QED  BY <4>1 DEF JobTypes
    <3>2. [job EXCEPT !.todo = wanted, !.added = 0].pc = job.pc
      BY DEF PathInv, Typed, WatcherTyped, JobTypes
    <3>3. job' \in JobTypes /\ job'.pc # "add"
      BY <1>1, <3>1, <3>2, IdleJob
    <3> QED  BY <1>1, <3>3 DEF PathInv, Typed, WatcherTyped
  <2> QED  BY <2>1, <2>2 DEF Typed
<1>3. job.loop = 1 /\ job.added = 1 => job'.pc = "resolve" /\ job'.todo = wanted
  BY <1>1 DEF PathInv, Typed, WatcherTyped, JobTypes
<1>4. Followed'
  <2> SUFFICES ASSUME wclosed = 0, stray = {}, NEW q \in wanted \ missed
               PROVE  Anchored(q)' \/ DropComes' \/ ToVisit(q)'
    BY <1>1 DEF Followed
  <2>1. q \in Paths
    BY DEF PathInv, Typed, WatcherTyped
  <2>2. CASE job.loop = 1 /\ job.added = 1
    BY <1>3, <2>2 DEF ToVisit
  <2>3. CASE ~(job.loop = 1 /\ job.added = 1)
    <3>1. Anchored(q) \/ DropComes
      BY <1>1, <2>3 DEF PathInv, Followed, ToVisit
    <3> QED  BY <1>1, <2>1, <3>1, PassFrame
  <2> QED  BY <2>2, <2>3
<1> QED  BY <1>1, <1>2, <1>4, PassFrame DEF PathInv

\* The registration of the path at hand succeeds, or its directory has gone.
LEMMA AddWatchStep == PathInv /\ AddWatch => PathInv'
<1> SUFFICES ASSUME PathInv, AddWatch PROVE PathInv'
  OBVIOUS
<1>0. Typed /\ Chain /\ DeadWatchNoticed /\ Followed
  BY DEF PathInv
<1> DEFINE rest == [job EXCEPT !.pc = "resolve", !.todo = @ \ {job.path}, !.path = 0, !.dir = 0]
           p == job.path
           d == job.dir
<1>1. /\ job.pc = "add"
      /\ UNCHANGED <<ino, ops, fsq, wanted, stray, wclosed>>
      /\ \/ /\ ThereIs(d) /\ kw' = [kw EXCEPT ![d] = ino[d]] /\ dirs' = dirs \cup {d}
            /\ job' = [rest EXCEPT !.added = 1]
            /\ missed' = IF job.loop = 0 /\ watchDir(p) # d THEN missed \cup {p}
                                                           ELSE missed \ {p}
         \/ /\ ~ThereIs(d) /\ job' = rest /\ missed' = missed \cup {p}
            /\ UNCHANGED <<kw, dirs>>
  BY DEF AddWatch
<1>2. p \in Paths /\ d \in Levels /\ job.todo \subseteq Paths
  BY <1>0, <1>1, JobFacts DEF Typed, WatcherTyped
<1>3. /\ job' \in JobTypes /\ job'.pc = "resolve" /\ job'.todo = job.todo \ {p} /\ job'.loop = job.loop
      /\ job'.added = job.added \/ job'.added = 1
      /\ ThereIs(d) => job'.added = 1
  <2>1. job \in JobTypes
    BY <1>0 DEF Typed, WatcherTyped
  <2>2. /\ rest \in JobTypes /\ rest.pc = "resolve" /\ rest.todo = job.todo \ {p}
        /\ rest.loop = job.loop /\ rest.added = job.added
    BY <2>1, RestOfJob
  <2> HIDE DEF rest
  <2>3. CASE ThereIs(d)
    <3>1. job' = [rest EXCEPT !.added = 1]
      BY <1>1, <2>3
    <3> QED  BY <2>2, <3>1, MoreOfJob
  <2>4. CASE ~ThereIs(d)
    <3>1. job' = rest
      BY <1>1, <2>4
    <3> QED  BY <2>2, <2>4, <3>1
  <2> QED  BY <2>3, <2>4
<1> HIDE DEF rest
<1>4. /\ dirs \subseteq dirs' /\ dirs' \subseteq dirs \cup {d} /\ dirs' \subseteq Levels
      /\ d \in dirs' \ dirs => ThereIs(d)
      /\ kw' \in [Levels -> Nat] /\ \A n \in Levels \ {d} : kw'[n] = kw[n]
      /\ ThereIs(d) => d \in dirs' /\ kw'[d] = ino[d]
      /\ ~ThereIs(d) => kw' = kw
  BY <1>0, <1>1, <1>2 DEF Typed, DiskTyped, WatcherTyped
<1>5. Typed'
  BY <1>0, <1>1, <1>3, <1>4 DEF Typed, DiskTyped, WatcherTyped
<1>6. Chain' /\ \A q \in Paths : watchDir(q)' = watchDir(q)
  BY <1>0, <1>1, DiskFrame
<1>7. DeadWatchNoticed'
  <2>1. \A n \in Levels : Live(n) => Live(n)'
    BY <1>1, <1>4 DEF Live, ThereIs
  <2>2. \A n \in dirs' \ dirs : Live(n)'
    BY <1>1, <1>4 DEF Live, ThereIs
  <2> QED  BY <1>0, <1>1, <1>4, <2>1, <2>2 DEF DeadWatchNoticed, Typed, WatcherTyped
<1>8. Followed'
  <2> SUFFICES ASSUME wclosed = 0, stray = {}, NEW q \in wanted \ missed'
               PROVE  Anchored(q)' \/ DropComes' \/ ToVisit(q)'
    BY <1>1 DEF Followed
  <2>1. q \in Paths
    BY <1>0 DEF Typed, WatcherTyped
  <2>2. CASE q = p
    <3>1. ThereIs(d) /\ (job.loop # 0 \/ watchDir(p) = d)
      BY <1>1, <2>2
    <3>2. CASE watchDir(p) = d
      <4>1. watchDir(q)' \in dirs' /\ watchDir(q)' \in Nat
        BY <1>2, <1>4, <1>6, <2>1, <2>2, <3>1, <3>2, LevelFacts
      <4> QED  BY <4>1 DEF Anchored
    <3>3. CASE job.loop # 0
      <4>1. job'.loop = 1 /\ job'.added = 1
        BY <1>0, <1>3, <3>1, <3>3, JobFacts
      <4> QED  BY <1>3, <4>1 DEF ToVisit
    <3> QED  BY <3>1, <3>2, <3>3
  <2>3. CASE q # p
    <3>1. Anchored(q) \/ DropComes \/ ToVisit(q)
      BY <1>0, <1>1, <2>3 DEF Followed
    <3>2. ToVisit(q) => ToVisit(q)'
      BY <1>1, <1>3, <2>3 DEF ToVisit
    <3>3. Anchored(q) => Anchored(q)'
      BY <1>1, <1>4, <1>6, <2>1 DEF Anchored
    <3>4. DropComes => DropComes'
      BY <1>1, <1>4 DEF DropComes, Drops
    <3> QED  BY <3>1, <3>2, <3>3, <3>4
  <2> QED  BY <2>2, <2>3
<1> QED  BY <1>5, <1>6, <1>7, <1>8 DEF PathInv

\* An event is taken: it starts a pass over all wanted paths, or none depended on it.
LEMMA RunEventStep == PathInv /\ RunEvent => PathInv'
<1> SUFFICES ASSUME PathInv, RunEvent PROVE PathInv'
  OBVIOUS
<1>0. Typed /\ Chain /\ DeadWatchNoticed /\ Followed
  BY DEF PathInv
<1> DEFINE ev == fsq[1]
<1>1. /\ job.pc = "idle" /\ wclosed = 0 /\ fsq # <<>> /\ track(ev) /\ fsq' = Tail(fsq)
      /\ UNCHANGED <<ino, ops, wanted, missed, wclosed>>
  BY <1>0 DEF RunEvent, Typed, DiskTyped
<1>2. /\ ev \in EventTypes /\ fsq' \in Seq(EventTypes) /\ Len(fsq) \in Nat \ {0}
      /\ Len(fsq') = Len(fsq) - 1 /\ \A i \in 1 .. Len(fsq') : fsq'[i] = fsq[i + 1]
  BY <1>0, <1>1 DEF Typed, DiskTyped
<1>3. ev.op \in {"create", "remove", "rename"} /\ ev.level \in Levels
  BY <1>2 DEF EventTypes
<1>4. \A i \in 1 .. Len(fsq) : i = 1 \/ (i - 1 \in 1 .. Len(fsq') /\ fsq'[i - 1] = fsq[i])
  BY <1>2
<1> HIDE DEF ev
<1>5. \/ /\ Drops(ev) /\ ev.level \in dirs
         /\ dirs' = dirs \ {ev.level} /\ kw' = [kw EXCEPT ![ev.level] = 0]
         /\ stray' = stray \ {ev.level} /\ StartJob(wanted, 1)
      \/ /\ ev.op = "create" /\ StartJob(wanted, 1) /\ UNCHANGED <<dirs, kw, stray>>
      \/ /\ (Drops(ev) /\ ev.level \notin dirs) \/ (ev.op = "create" /\ ~ThereIs(ev.level))
         /\ UNCHANGED <<dirs, kw, stray, job>>
  BY <1>1 DEF track, Drops
<1>6. Chain' /\ \A q \in Paths : watchDir(q)' = watchDir(q)
  BY <1>0, <1>1, DiskFrame
<1>7. StartJob(wanted, 1) =>
        job' \in JobTypes /\ job'.pc = "resolve" /\ job'.todo = wanted
  <2>1. wanted \in SUBSET Paths /\ 1 \in 0 .. 1
    BY <1>0 DEF Typed, WatcherTyped
  <2> QED  BY <2>1, NewJob DEF StartJob
<1>8. Typed'
  <2>1. DiskTyped'
    <3>1. [kw EXCEPT ![ev.level] = 0] \in [Levels -> Nat]
      BY <1>0 DEF Typed, DiskTyped
    <3>2. kw' \in [Levels -> Nat]
      BY <1>0, <1>5, <3>1 DEF Typed, DiskTyped
    <3> QED  BY <1>0, <1>1, <1>2, <3>2 DEF Typed, DiskTyped
  <2>2. WatcherTyped'
    BY <1>0, <1>1, <1>5, <1>7 DEF Typed, WatcherTyped
  <2> QED  BY <2>1, <2>2 DEF Typed
<1>9. DeadWatchNoticed'
  <2>1. ASSUME NEW d \in dirs'
        PROVE  \/ Live(d)' \/ d \in stray'
               \/ \E i \in 1 .. Len(fsq') : fsq'[i].level = d /\ Drops(fsq'[i])
    <3>1. d \in dirs /\ d \in Levels /\ (Drops(ev) => d # ev.level)
      BY <1>0, <1>3, <1>5, <2>1 DEF Typed, WatcherTyped, Drops
    <3>2. (Live(d) => Live(d)') /\ (d \in stray => d \in stray')
      BY <1>0, <1>1, <1>3, <1>5, <3>1 DEF Live, Typed, DiskTyped, Drops
    <3>3. Live(d) \/ d \in stray \/ \E i \in 1 .. Len(fsq) : fsq[i].level = d /\ Drops(fsq[i])
      BY <1>0, <1>1, <3>1, NoticedDef DEF Typed, DiskTyped
    <3>4. ASSUME NEW i \in 1 .. Len(fsq), fsq[i].level = d, Drops(fsq[i])
          PROVE  \E j \in 1 .. Len(fsq') : fsq'[j].level = d /\ Drops(fsq'[j])
      <4>1. i # 1
        BY <3>1, <3>4 DEF ev
      <4> QED  BY <1>4, <3>4, <4>1
    <3> QED  BY <3>2, <3>3, <3>4
  <2>2. DOMAIN fsq' = 1 .. Len(fsq')
    BY <1>2
  <2> QED  BY <2>1, <2>2 DEF DeadWatchNoticed, Drops
<1>10. Followed'
  <2> SUFFICES ASSUME stray' = {}, NEW q \in wanted \ missed
               PROVE  Anchored(q)' \/ DropComes' \/ ToVisit(q)'
    BY <1>1 DEF Followed
  <2>1. q \in Paths
    BY <1>0 DEF Typed, WatcherTyped
  <2>2. CASE StartJob(wanted, 1)
    BY <1>7, <2>2 DEF ToVisit
  <2>3. CASE ~StartJob(wanted, 1)
    <3>1. /\ (Drops(ev) /\ ev.level \notin dirs) \/ (ev.op = "create" /\ ~ThereIs(ev.level))
          /\ UNCHANGED <<dirs, kw, stray, job>>
      BY <1>5, <2>3
    <3>2. Anchored(q) \/ DropComes
      BY <1>0, <1>1, <3>1 DEF Followed, ToVisit
    <3>3. ASSUME DropComes PROVE DropComes'
      <4>1. PICK i \in 1 .. Len(fsq) : Drops(fsq[i]) /\ fsq[i].level \in dirs
        BY <3>3 DEF DropComes
      <4>2. i # 1
        BY <3>1, <4>1 DEF ev, Drops
      <4>3. i - 1 \in 1 .. Len(fsq') /\ fsq'[i - 1] = fsq[i]
        BY <1>4, <4>2
      <4>4. Drops(fsq'[i - 1]) /\ fsq'[i - 1].level \in dirs'
        BY <3>1, <4>1, <4>3
      <4> QED  BY <4>3, <4>4 DEF DropComes, Drops
    <3>4. ASSUME Anchored(q) PROVE Anchored(q)'
      <4>1. PICK n \in dirs : /\ n <= watchDir(q)
                              /\ \/ n = watchDir(q)
                                 \/ \E i \in 1 .. Len(fsq) :
                                      fsq[i].op = "create" /\ fsq[i].level = n + 1
        BY <3>4 DEF Anchored
      <4>2. /\ watchDir(q) \in Levels /\ ThereIs(watchDir(q)) /\ n \in Levels
            /\ watchDir(q) \in Nat /\ n \in Nat /\ watchDir(q) <= Depth
        BY <1>0, <2>1, NearestFacts, LevelFacts DEF Typed, WatcherTyped
      <4>3. CASE n = watchDir(q)
        BY <1>6, <2>1, <3>1, <4>2, <4>3 DEF Anchored
      <4>4. CASE n # watchDir(q)
        <5>1. PICK i \in 1 .. Len(fsq) : fsq[i].op = "create" /\ fsq[i].level = n + 1
          BY <4>1, <4>4
        <5>2. n + 1 <= watchDir(q) /\ n + 1 \in Levels
          BY <4>1, <4>2, <4>4, LevelFacts DEF Levels
        <5>3. ThereIs(n + 1)
          BY <1>0, <4>2, <5>2, ChainBelow
        <5>4. i # 1
          BY <3>1, <5>1, <5>3 DEF ev, Drops
        <5>5. i - 1 \in 1 .. Len(fsq') /\ fsq'[i - 1] = fsq[i]
          BY <1>4, <5>4
        <5> QED  BY <1>6, <2>1, <3>1, <4>1, <5>1, <5>5 DEF Anchored
      <4> QED  BY <4>3, <4>4
    <3> QED  BY <3>2, <3>3, <3>4
  <2> QED  BY <2>2, <2>3
<1> QED  BY <1>6, <1>8, <1>9, <1>10 DEF PathInv

-----------------------------------------------------------------------------
(* The theorem.                                                            *)

\* Every step keeps the invariant.
LEMMA InvStep == PathInv /\ [PathNext]_pathVars => PathInv'
<1> SUFFICES ASSUME PathInv, [PathNext]_pathVars PROVE PathInv'
  OBVIOUS
<1>1. CASE CloseWatcher
  <2>1. /\ wclosed' = 1 /\ kw' = [l \in Levels |-> 0] /\ fsq' = <<>>
        /\ UNCHANGED <<ino, ops, wanted, dirs, job, missed, stray>>
    BY <1>1 DEF CloseWatcher
  <2>2. Typed'
    BY <2>1 DEF PathInv, Typed, DiskTyped, WatcherTyped
  <2>3. DeadWatchNoticed' /\ Followed'
    BY <2>1 DEF DeadWatchNoticed, Followed
  <2> QED  BY <2>1, <2>2, <2>3, DiskFrame DEF PathInv
<1>2. CASE UNCHANGED pathVars
  <2>1. Typed'
    BY <1>2 DEF PathInv, Typed, DiskTyped, WatcherTyped, pathVars
  <2>2. Chain' /\ DeadWatchNoticed' /\ (\A q \in Paths : Anchored(q)' <=> Anchored(q))
        /\ (DropComes' <=> DropComes)
    BY <1>2, PassFrame DEF pathVars
  <2>3. Followed'
    BY <1>2, <2>2 DEF PathInv, Typed, WatcherTyped, Followed, ToVisit, pathVars
  <2> QED  BY <2>1, <2>2, <2>3 DEF PathInv
<1> QED
  BY <1>1, <1>2, MakeDirStep, GoneStep, AddPathStep, ResolveStep, RunEventStep,
     AddWatchStep, EndPassStep DEF PathNext

\* Nothing is wanted at first.
LEMMA PathInvInit == PathInit => PathInv
<1> SUFFICES ASSUME PathInit PROVE PathInv
  OBVIOUS
<1>1. PICK n \in Levels : ino = [l \in Levels |-> IF l <= n THEN 1 ELSE 0]
  BY DEF PathInit
<1>2. Typed
  <2>1. ino \in [Levels -> Nat] /\ kw \in [Levels -> Nat]
    BY <1>1 DEF PathInit
  <2>2. DiskTyped
    BY <2>1 DEF PathInit, DiskTyped
  <2>3. job \in JobTypes /\ job.pc = "idle"
    BY IdleJob DEF PathInit
  <2>4. WatcherTyped
    BY <2>3 DEF PathInit, WatcherTyped
  <2> QED  BY <2>2, <2>4 DEF Typed
<1>3. \A l \in Levels : ThereIs(l) <=> l <= n
  BY <1>1 DEF ThereIs
<1>4. Chain
  BY <1>3 DEF Chain
<1>5. DeadWatchNoticed /\ Followed
  BY DEF PathInit, DeadWatchNoticed, Followed
<1> QED  BY <1>2, <1>4, <1>5 DEF PathInv

\* Registrations follow the directories through removals, moves and re-creations: a
\* watch that died has its event on the way, and once the events are drained every
\* wanted path is watched at the nearest directory that exists (track, register).
THEOREM WatchesFollowDirs == PathSpec => []WatchesFollow
<1>1. PathInv => WatchesFollow
  <2> SUFFICES ASSUME PathInv PROVE NearestIsWatched
    BY DEF PathInv, WatchesFollow
  <2> SUFFICES ASSUME wclosed = 0, job.pc = "idle", fsq = <<>>, stray = {},
                      NEW p \in wanted \ missed
               PROVE  watchDir(p) \in dirs
    BY DEF NearestIsWatched
  <2>1. ~ToVisit(p) /\ Len(fsq) = 0
    BY DEF ToVisit
  <2>2. 1 .. Len(fsq) = {}
    BY <2>1
  <2>3. Anchored(p)
    BY <2>1, <2>2 DEF PathInv, Followed, DropComes
  <2> QED  BY <2>2, <2>3 DEF Anchored
<1> QED  BY <1>1, PathInvInit, InvStep, PTL DEF PathSpec

-----------------------------------------------------------------------------
(***************************************************************************)
(* Observers.                                                              *)
(***************************************************************************)

ObserverSpec == ObserverInit /\ [][ObserverNext]_observerVars

-----------------------------------------------------------------------------
(* The inductive invariant.                                                *)

Pcs == {"idle", "observe", "send", "publish"}
Numbers == Nat \ {0}

EmitterTyped ==
  /\ emitted \in Nat /\ gen \in Nat
  /\ emitter \in [Emitters -> [pc : Pcs, ev : Nat]]
  /\ \A e \in Emitters : emitter[e].pc # "idle" => emitter[e].ev > 0

QueueTyped ==
  /\ queue \in Seq(Numbers) /\ accepted \in Seq(Numbers) /\ delivered \in Seq(Numbers)
  /\ qclosed \in 0 .. 1 /\ closing \in {"open", "wait", "closed"}
  /\ target \in Int /\ dropped \in Nat

ClientTyped == client \in [Clients -> [on : 0 .. 1, chan : Nat, seen : Nat]]

TypeInv == EmitterTyped /\ QueueTyped /\ ClientTyped

\* The channel is closed once Close has held the lock alone, and run has ended
\* when Close returns.
CloseInv ==
  /\ qclosed = 1 <=> closing # "open"
  /\ qclosed = 1 => \A e \in Emitters : emitter[e].pc # "send"
  /\ target = -1 => qclosed = 1 /\ queue = <<>>
  /\ closing = "closed" => target = -1

\* 1 while the target is being called.
InHand == IF target > 0 THEN 1 ELSE 0

\* What was accepted has been delivered, is in the target's hand, or waits in the
\* queue, in this order.
OrderInv ==
  /\ Len(accepted) = Len(delivered) + InHand + Len(queue)
  /\ \A i \in 1 .. Len(delivered) : accepted[i] = delivered[i]
  /\ target > 0 => accepted[Len(delivered) + 1] = target
  /\ \A i \in 1 .. Len(queue) : accepted[Len(delivered) + InHand + i] = queue[i]

Observing(e) == IF emitter[e].pc \in {"observe", "send"} THEN 1 ELSE 0

\* Every event has been accepted, has been dropped, or is being observed.
CountInv == Len(accepted) + dropped + Observing(1) + Observing(2) = emitted

ObserverInv == TypeInv /\ CloseInv /\ OrderInv /\ CountInv /\ ClientsTold

-----------------------------------------------------------------------------

\* The invariant holds at the beginning.
LEMMA ObserverInitially == ObserverInit => ObserverInv
<1> SUFFICES ASSUME ObserverInit PROVE ObserverInv
  OBVIOUS
<1> USE ObserverAssumption DEF ObserverInit, Emitters, Silent, Away
<1>1. TypeInv
  BY DEF TypeInv, EmitterTyped, QueueTyped, ClientTyped, Pcs, Numbers
<1>2. CloseInv  BY DEF CloseInv
<1>3. OrderInv  BY DEF OrderInv, InHand
<1>4. CountInv  BY DEF CountInv, Observing
<1>5. ClientsTold  BY DEF ClientsTold
<1> QED  BY <1>1, <1>2, <1>3, <1>4, <1>5 DEF ObserverInv

\* What Append adds.
LEMMA AppendAdds ==
  ASSUME NEW S, NEW s \in Seq(S), NEW x \in S
  PROVE  /\ Append(s, x) \in Seq(S) /\ Len(Append(s, x)) = Len(s) + 1
         /\ Append(s, x)[Len(s) + 1] = x
         /\ \A i \in 1 .. Len(s) : Append(s, x)[i] = s[i]
  OBVIOUS

\* Observing counts.
LEMMA ObservingTyped ==
  \A d \in Emitters : Observing(d) \in 0 .. 1 /\ Observing(d)' \in 0 .. 1
  BY DEF Observing

\* One emitter more or less is inside Observe.
LEMMA ObservingSum ==
  ASSUME NEW e \in Emitters, \A d \in Emitters \ {e} : Observing(d)' = Observing(d)
  PROVE  (Observing(1) + Observing(2))' =
           Observing(1) + Observing(2) + Observing(e)' - Observing(e)
<1>2. CASE e = 1
  BY ObservingTyped, <1>2 DEF Emitters
<1>3. CASE e = 2
  BY ObservingTyped, <1>3 DEF Emitters
<1> QED  BY <1>2, <1>3 DEF Emitters

\* What an emitter's step does to the emitters.
LEMMA EmitterMoves ==
  ASSUME EmitterTyped, NEW e \in Emitters, NEW r \in [pc : Pcs, ev : Nat],
         emitter' = [emitter EXCEPT ![e] = r],
         r.pc # "idle" => r.ev > 0, UNCHANGED <<emitted, gen>>
  PROVE  /\ EmitterTyped'
         /\ emitter'[e] = r /\ \A d \in Emitters \ {e} : emitter'[d] = emitter[d]
  BY DEF EmitterTyped

\* The record an emitter goes on with.
LEMMA AfterTyped ==
  ASSUME EmitterTyped, NEW e \in Emitters, emitter[e].pc # "idle"
  PROVE  /\ After(e) \in [pc : Pcs, ev : Nat] /\ After(e).pc \in {"idle", "publish"}
         /\ After(e).pc # "idle" => After(e).ev > 0
         /\ e = 1 => After(e).pc = "publish"
  BY DEF EmitterTyped, After, Silent, Pcs

\* Every step of the observers, the emitters and the clients keeps the invariant.
LEMMA ObserverStep == ObserverInv /\ [ObserverNext]_observerVars => ObserverInv'
<1> SUFFICES ASSUME ObserverInv, [ObserverNext]_observerVars PROVE ObserverInv'
  OBVIOUS
<1>0. /\ EmitterTyped /\ QueueTyped /\ ClientTyped
      /\ CloseInv /\ OrderInv /\ CountInv /\ ClientsTold
  BY DEF ObserverInv, TypeInv
<1> USE <1>0, ObserverAssumption DEF TypeInv
<1>1. ASSUME NEW e \in Emitters, Happen(e) PROVE ObserverInv'
  <2> USE <1>1 DEF Happen
  <2>0. /\ emitter'[e].pc = "observe" /\ emitter[e].pc = "idle"
        /\ \A d \in Emitters \ {e} : emitter'[d] = emitter[d]
    BY DEF EmitterTyped
  <2>1. EmitterTyped'  BY DEF EmitterTyped, Pcs
  <2>2. QueueTyped' /\ ClientTyped'  BY DEF QueueTyped, ClientTyped
  <2>3. CloseInv'  BY <2>0 DEF CloseInv
  <2>4. OrderInv'  BY DEF OrderInv, InHand
  <2>5. CountInv'
    <3>1. /\ Observing(e) = 0 /\ Observing(e)' = 1
          /\ \A d \in Emitters \ {e} : Observing(d)' = Observing(d)
      BY <2>0 DEF Observing
    <3>2. (Observing(1) + Observing(2))' = Observing(1) + Observing(2) + 1
      BY <3>1, ObservingSum, ObservingTyped DEF Emitters
    <3> QED  BY <3>2, ObservingTyped DEF Emitters, CountInv, EmitterTyped, QueueTyped
  <2>6. ClientsTold'  BY <2>0 DEF ClientsTold, Emitters
  <2> QED  BY <2>1, <2>2, <2>3, <2>4, <2>5, <2>6 DEF ObserverInv
<1>2. ASSUME NEW e \in Emitters, ObserveLock(e) PROVE ObserverInv'
  <2> USE <1>2 DEF ObserveLock
  <2>1. CASE closing = "open"
    <3> DEFINE r == [emitter[e] EXCEPT !.pc = "send"]
    <3>1. r \in [pc : Pcs, ev : Nat] /\ r.pc = "send" /\ r.ev > 0
      BY DEF EmitterTyped, Pcs
    <3>2. emitter' = [emitter EXCEPT ![e] = r]
      BY <2>1 DEF EmitterTyped
    <3> HIDE DEF r
    <3>3. EmitterTyped' /\ emitter'[e] = r /\ \A d \in Emitters \ {e} : emitter'[d] = emitter[d]
      BY <3>1, <3>2, EmitterMoves
    <3>4. QueueTyped' /\ ClientTyped'  BY <2>1 DEF QueueTyped, ClientTyped
    <3>5. CloseInv'  BY <2>1, <3>3, <3>1 DEF CloseInv, QueueTyped
    <3>6. OrderInv'  BY <2>1 DEF OrderInv, InHand
    <3>7. CountInv'
      <4>1. \A d \in Emitters : Observing(d)' = Observing(d)
        BY <3>3, <3>1 DEF Observing
      <4> QED  BY <4>1, <2>1 DEF CountInv, Emitters
    <3>8. ClientsTold'  BY <2>1, <3>3, <3>1 DEF ClientsTold, Emitters
    <3> QED  BY <3>3, <3>4, <3>5, <3>6, <3>7, <3>8 DEF ObserverInv
  <2>2. CASE closing # "open"
    <3>1. EmitterTyped' /\ emitter'[e] = After(e) /\ \A d \in Emitters \ {e} : emitter'[d] = emitter[d]
      BY <2>2, AfterTyped, EmitterMoves
    <3>2. After(e).pc \in {"idle", "publish"} /\ (e = 1 => After(e).pc = "publish")
      BY AfterTyped
    <3>4. QueueTyped' /\ ClientTyped'  BY <2>2 DEF QueueTyped, ClientTyped
    <3>5. CloseInv'  BY <2>2, <3>1, <3>2 DEF CloseInv
    <3>6. OrderInv'  BY <2>2 DEF OrderInv, InHand
    <3>7. CountInv'
      <4>1. /\ Observing(e) = 1 /\ Observing(e)' = 0
            /\ \A d \in Emitters \ {e} : Observing(d)' = Observing(d)
        BY <3>1, <3>2 DEF Observing
      <4>2. (Observing(1) + Observing(2))' = Observing(1) + Observing(2) - 1
        BY <4>1, ObservingSum, ObservingTyped DEF Emitters
      <4>3. accepted' = accepted /\ dropped' = dropped + 1 /\ emitted' = emitted
        BY <2>2
      <4>4. Len(accepted) \in Nat /\ dropped \in Nat /\ emitted \in Nat
        BY DEF QueueTyped, EmitterTyped
      <4> HIDE <1>2 DEF ObserveLock
      <4> QED  BY <4>2, <4>3, <4>4, ObservingTyped DEF Emitters, CountInv
    <3>8. ClientsTold'  BY <2>2, <3>1, <3>2 DEF ClientsTold, Emitters
    <3> QED  BY <3>1, <3>4, <3>5, <3>6, <3>7, <3>8 DEF ObserverInv
  <2> QED  BY <2>1, <2>2
<1>3. ASSUME NEW e \in Emitters, ObserveSend(e) PROVE ObserverInv'
  <2> USE <1>3 DEF ObserveSend
  <2>1. EmitterTyped' /\ emitter'[e] = After(e) /\ \A d \in Emitters \ {e} : emitter'[d] = emitter[d]
    BY AfterTyped, EmitterMoves
  <2>2. After(e).pc \in {"idle", "publish"} /\ (e = 1 => After(e).pc = "publish")
    BY AfterTyped
  <2>3. emitter[e].ev \in Numbers
    BY DEF EmitterTyped, Numbers
  <2>4. ClientTyped'  BY DEF ClientTyped
  <2>5. CloseInv'
    <3>1. qclosed = 0
      BY DEF CloseInv, QueueTyped
    <3> QED  BY <3>1, <2>1, <2>2 DEF CloseInv
  <2>6. ClientsTold'  BY <2>1, <2>2 DEF ClientsTold, Emitters
  <2>7. (Observing(1) + Observing(2))' = Observing(1) + Observing(2) - 1
    <3>1. /\ Observing(e) = 1 /\ Observing(e)' = 0
          /\ \A d \in Emitters \ {e} : Observing(d)' = Observing(d)
      BY <2>1, <2>2 DEF Observing
    <3> QED  BY <3>1, ObservingSum, ObservingTyped DEF Emitters
  <2>8. CASE Len(queue) < QueueCap
    <3>0. /\ queue' = Append(queue, emitter[e].ev) /\ accepted' = Append(accepted, emitter[e].ev)
          /\ dropped' = dropped
      BY <2>8
    <3>1. /\ Len(queue') = Len(queue) + 1 /\ queue'[Len(queue) + 1] = emitter[e].ev
          /\ \A i \in 1 .. Len(queue) : queue'[i] = queue[i]
          /\ queue' \in Seq(Numbers)
      BY <3>0, <2>3, AppendAdds DEF QueueTyped
    <3>2. /\ Len(accepted') = Len(accepted) + 1 /\ accepted'[Len(accepted) + 1] = emitter[e].ev
          /\ \A i \in 1 .. Len(accepted) : accepted'[i] = accepted[i]
          /\ accepted' \in Seq(Numbers)
      BY <3>0, <2>3, AppendAdds DEF QueueTyped
    <3>3. QueueTyped'  BY <3>0, <3>1, <3>2 DEF QueueTyped
    <3>4. OrderInv'
      <4>1. InHand' = InHand /\ InHand \in 0 .. 1
        BY DEF InHand
      <4>2. Len(delivered) \in Nat /\ Len(queue) \in Nat /\ delivered' = delivered /\ target' = target
        BY DEF QueueTyped
      <4>3. target > 0 => InHand = 1
        BY DEF InHand
      <4>4. Len(accepted') = Len(delivered') + InHand' + Len(queue')
        BY <3>1, <3>2, <4>1, <4>2 DEF OrderInv
      <4>5. \A i \in 1 .. Len(delivered') : accepted'[i] = delivered'[i]
        BY <3>2, <4>1, <4>2 DEF OrderInv
      <4>6. target' > 0 => accepted'[Len(delivered') + 1] = target'
        BY <3>2, <4>1, <4>2, <4>3 DEF OrderInv
      <4>7. \A i \in 1 .. Len(queue') : accepted'[Len(delivered') + InHand' + i] = queue'[i]
        <5> TAKE i \in 1 .. Len(queue')
        <5>1. CASE i = Len(queue) + 1
          BY <5>1, <3>1, <3>2, <4>1, <4>2 DEF OrderInv
        <5>2. CASE i \in 1 .. Len(queue)
          <6>1. accepted[Len(delivered) + InHand + i] = queue[i]
            BY <5>2 DEF OrderInv
          <6>2. Len(delivered) + InHand + i \in 1 .. Len(accepted)
            BY <5>2, <4>1, <4>2 DEF OrderInv
          <6> QED  BY <5>2, <6>1, <6>2, <3>1, <3>2, <4>1, <4>2
        <5> QED  BY <5>1, <5>2, <3>1, <4>2
      <4> QED  BY <4>4, <4>5, <4>6, <4>7 DEF OrderInv
    <3>5. CountInv'
      BY <3>0, <3>2, <2>7, ObservingTyped DEF Emitters, CountInv, QueueTyped, EmitterTyped
    <3> QED  BY <2>1, <2>4, <2>5, <2>6, <3>3, <3>4, <3>5 DEF ObserverInv
  <2>9. CASE ~(Len(queue) < QueueCap)
    <3>2. QueueTyped'  BY <2>9 DEF QueueTyped
    <3>3. OrderInv'  BY <2>9 DEF OrderInv, InHand
    <3>4. CountInv'
      BY <2>9, <2>7, ObservingTyped DEF Emitters, CountInv, QueueTyped, EmitterTyped
    <3> QED  BY <2>1, <2>4, <2>5, <2>6, <3>2, <3>3, <3>4 DEF ObserverInv
  <2> QED  BY <2>8, <2>9
<1>4. CASE CloseObserver \/ CloseReturns
  <2> USE <1>4 DEF CloseObserver, CloseReturns
  <2>1. EmitterTyped' /\ QueueTyped' /\ ClientTyped'
    BY DEF EmitterTyped, QueueTyped, ClientTyped
  <2>2. CloseInv'  BY DEF CloseInv, QueueTyped
  <2>3. OrderInv'  BY DEF OrderInv, InHand
  <2>4. CountInv'  BY DEF CountInv, Observing
  <2>5. ClientsTold'  BY DEF ClientsTold
  <2> QED  BY <2>1, <2>2, <2>3, <2>4, <2>5 DEF ObserverInv
<1>5. CASE RunTakes
  <2> USE <1>5 DEF RunTakes
  <2>1. EmitterTyped' /\ ClientTyped'  BY DEF EmitterTyped, ClientTyped
  <2>2. CountInv'  BY DEF CountInv, Observing
  <2>3. ClientsTold'  BY DEF ClientsTold
  <2>4. CASE queue # <<>>
    <3>0. target' = Head(queue) /\ queue' = Tail(queue)
      BY <2>4
    <3>1. /\ target' = queue[1] /\ queue[1] \in Numbers /\ queue' \in Seq(Numbers)
          /\ Len(queue') = Len(queue) - 1
          /\ \A i \in 1 .. Len(queue') : queue'[i] = queue[i + 1]
      BY <2>4, <3>0 DEF QueueTyped
    <3>2. target' > 0  BY <3>1 DEF Numbers
    <3>3. QueueTyped'  BY <3>1 DEF QueueTyped, Numbers
    <3>4. CloseInv'  BY <3>2, <2>4 DEF CloseInv
    <3>5. OrderInv'
      <4>1. InHand = 0 /\ InHand' = 1
        BY <3>2 DEF InHand
      <4>2. \A i \in 1 .. Len(queue) : accepted[Len(delivered) + i] = queue[i]
        BY <4>1 DEF OrderInv, QueueTyped
      <4>3. Len(queue) \in Nat \ {0} /\ Len(delivered) \in Nat
        BY <2>4 DEF QueueTyped
      <4>4. accepted[Len(delivered) + 1] = target'
        BY <4>2, <4>3, <3>1
      <4>5. \A i \in 1 .. Len(queue') : accepted[Len(delivered) + 1 + i] = queue'[i]
        <5> TAKE i \in 1 .. Len(queue')
        <5>1. i + 1 \in 1 .. Len(queue)
          BY <3>1, <4>3
        <5>2. accepted[Len(delivered) + (i + 1)] = queue[i + 1]
          BY <5>1, <4>2
        <5> QED  BY <5>2, <3>1, <4>3
      <4>6. accepted' = accepted /\ delivered' = delivered
        OBVIOUS
      <4> HIDE <1>5 DEF RunTakes
      <4>7. Len(accepted) = Len(delivered) + 1 + Len(queue')
        BY <4>1, <4>3, <3>1 DEF OrderInv
      <4> QED  BY <4>1, <4>4, <4>5, <4>6, <4>7 DEF OrderInv
    <3> QED  BY <2>1, <2>2, <2>3, <3>3, <3>4, <3>5 DEF ObserverInv
  <2>5. CASE queue = <<>>
    <3>1. QueueTyped'  BY <2>5 DEF QueueTyped
    <3>2. CloseInv'  BY <2>5 DEF CloseInv
    <3>3. OrderInv'  BY <2>5 DEF OrderInv, InHand
    <3> QED  BY <2>1, <2>2, <2>3, <3>1, <3>2, <3>3 DEF ObserverInv
  <2> QED  BY <2>4, <2>5
<1>6. CASE TargetObserves
  <2> USE <1>6 DEF TargetObserves
  <2>0. /\ delivered' \in Seq(Numbers) /\ Len(delivered') = Len(delivered) + 1
        /\ \A i \in 1 .. Len(delivered) : delivered'[i] = delivered[i]
        /\ delivered'[Len(delivered) + 1] = target
    BY DEF QueueTyped, Numbers
  <2>1. EmitterTyped' /\ QueueTyped' /\ ClientTyped'
    BY <2>0 DEF EmitterTyped, QueueTyped, ClientTyped
  <2>2. CloseInv'  BY DEF CloseInv
  <2>3. OrderInv'
    <3>1. InHand = 1 /\ InHand' = 0
      BY DEF InHand
    <3> QED  BY <3>1, <2>0 DEF OrderInv, QueueTyped
  <2>4. CountInv'  BY DEF CountInv, Observing
  <2>5. ClientsTold'  BY DEF ClientsTold
  <2> QED  BY <2>1, <2>2, <2>3, <2>4, <2>5 DEF ObserverInv
<1>7. CASE Publish
  <2> USE <1>7 DEF Publish
  <2>0. 1 \in Emitters /\ Silent \in [pc : Pcs, ev : Nat] /\ Silent.pc = "idle"
    BY DEF Emitters, Silent, Pcs
  <2>1. /\ EmitterTyped' /\ emitter'[1] = Silent
        /\ \A d \in Emitters \ {1} : emitter'[d] = emitter[d]
    BY <2>0, EmitterMoves
  <2>2. QueueTyped'  BY DEF QueueTyped
  <2>3. \A c \in Clients : client[c].on \in 0 .. 1 /\ client[c].chan \in Nat /\ client[c].seen \in Nat
    BY DEF ClientTyped
  <2>4. ClientTyped'
    <3> SUFFICES ASSUME NEW c \in Clients
                 PROVE  (IF client[c].on = 1 /\ client[c].chan < ClientCap
                           THEN [client[c] EXCEPT !.chan = @ + 1] ELSE client[c])
                          \in [on : 0 .. 1, chan : Nat, seen : Nat]
      BY DEF ClientTyped
    <3> QED  BY <2>3 DEF ClientTyped
  <2>5. CloseInv'  BY <2>0, <2>1 DEF CloseInv
  <2>6. OrderInv'  BY DEF OrderInv, InHand
  <2>7. CountInv'
    <3>1. \A d \in Emitters : Observing(d)' = Observing(d)
      BY <2>0, <2>1 DEF Observing
    <3> QED  BY <3>1 DEF CountInv, Emitters
  <2>8. \A c \in Clients : client'[c].on = 1 => client'[c].chan > 0
    BY <2>3 DEF ClientTyped
  <2>9. ClientsTold'  BY <2>8 DEF ClientsTold
  <2> QED  BY <2>1, <2>2, <2>4, <2>5, <2>6, <2>7, <2>9 DEF ObserverInv
<1>8. ASSUME NEW c \in Clients,
             SubscribeClient(c) \/ StreamToClient(c) \/ UnsubscribeClient(c)
      PROVE  ObserverInv'
  <2> USE <1>8 DEF SubscribeClient, StreamToClient, UnsubscribeClient, Away
  <2>0. /\ client' \in [Clients -> [on : 0 .. 1, chan : Nat, seen : Nat]]
        /\ \A d \in Clients \ {c} : client'[d] = client[d]
        /\ client'[c].on = 1 => client'[c].seen = gen
    <3>1. CASE SubscribeClient(c)
      BY <3>1 DEF EmitterTyped, ClientTyped
    <3>2. CASE StreamToClient(c)
      <4>1. client[c].chan - 1 \in Nat /\ gen \in Nat
        BY <3>2 DEF ClientTyped, EmitterTyped
      <4> QED  BY <3>2, <4>1 DEF ClientTyped
    <3>3. CASE UnsubscribeClient(c)
      BY <3>3 DEF ClientTyped
    <3> QED  BY <3>1, <3>2, <3>3
  <2>1. EmitterTyped' /\ QueueTyped' /\ ClientTyped'
    BY <2>0 DEF EmitterTyped, QueueTyped, ClientTyped
  <2>2. CloseInv'  BY DEF CloseInv
  <2>3. OrderInv'  BY DEF OrderInv, InHand
  <2>4. CountInv'  BY DEF CountInv, Observing
  <2>5. ClientsTold'
    <3>1. gen' = gen /\ emitter' = emitter
      OBVIOUS
    <3> HIDE <1>8 DEF SubscribeClient, StreamToClient, UnsubscribeClient
    <3> QED  BY <2>0, <3>1 DEF ClientsTold
  <2> QED  BY <2>1, <2>2, <2>3, <2>4, <2>5 DEF ObserverInv
<1>9. CASE UNCHANGED observerVars
  BY <1>9 DEF observerVars, ObserverInv, EmitterTyped, QueueTyped, ClientTyped,
              CloseInv, OrderInv, InHand, CountInv, Observing, ClientsTold
<1> QED
  BY <1>1, <1>2, <1>3, <1>4, <1>5, <1>6, <1>7, <1>8, <1>9 DEF ObserverNext

\* Every event is delivered in order, counted as dropped or covered by an older one,
\* nothing is sent after the close, and no client is left with an old configuration:
\* AsyncObserver and the event bus of fastconfd, for every queue capacity.
THEOREM ObserversAccount == ObserverSpec => []EventsAccounted
<1>1. ObserverInv => EventsAccounted
  <2> SUFFICES ASSUME ObserverInv PROVE EventsAccounted
    OBVIOUS
  <2> USE DEF ObserverInv, TypeInv
  <2>1. NoSendClosed
    BY DEF NoSendClosed, CloseInv
  <2>2. Len(delivered) <= Len(accepted)
    BY DEF OrderInv, InHand, QueueTyped
  <2>3. delivered = SubSeq(accepted, 1, Len(delivered))
    BY <2>2 DEF OrderInv, QueueTyped
  <2>4. closing = "closed" => delivered = accepted
    <3> SUFFICES ASSUME closing = "closed" PROVE delivered = accepted
      OBVIOUS
    <3>1. Len(accepted) = Len(delivered)
      BY DEF CloseInv, OrderInv, InHand, QueueTyped
    <3> QED  BY <3>1 DEF OrderInv, QueueTyped
  <2>5. (\A e \in Emitters : emitter[e].pc \notin {"observe", "send"}) =>
          Len(accepted) + dropped = emitted
    BY DEF CountInv, Observing, Emitters, QueueTyped
  <2> QED
    BY <2>1, <2>3, <2>4, <2>5 DEF EventsAccounted, ObserverAccounts
<1> QED
  BY ObserverInitially, ObserverStep, <1>1, PTL DEF ObserverSpec

-----------------------------------------------------------------------------
(***************************************************************************)
(* Notifications and the loads they cause.                                 *)
(***************************************************************************)

\* Notifications on its own.
NotifySpec == NotifyInit /\ [][NotifyNext]_deliveryVars

-----------------------------------------------------------------------------
(* The inductive invariant: the loads.                                     *)

Inside == {"ask", "sent", "read", "got"}
Versions == 0 .. MaxObj

LoadTypes == [pc : {"idle", "wait"} \cup Inside, cond : Versions, doc : Versions,
              rev : Versions, since : Versions, out : 0 .. 1]
AppTypes == [token : 0 .. 2, twice : 0 .. 1, session : Versions, seen : Versions,
             due : 0 .. 1, err : 0 .. 1]
CacheTypes == [doc : Versions, rev : Versions]

StoreTyped == /\ okind \in {"s3", "azblob", "gcs", "appconfig"}
              /\ over \in 1 .. MaxObj /\ obad \subseteq 2 .. MaxObj
              /\ ofails \in 0 .. MaxObjFails
LoadTyped == /\ gate \in 0 .. 2 /\ loaded \in Versions
             /\ cache \in CacheTypes /\ app \in AppTypes
             /\ oload \in [Loaders -> LoadTypes]

\* Who is inside Load of a serialized provider holds the gate, and nobody else does.
GateInv == /\ gate # 0 => gate \in Loaders /\ oload[gate].pc \in Inside
           /\ okind # "s3" => \A l \in Loaders : oload[l].pc \in Inside => gate = l

\* What is accepted has been returned, and with its own revision.
CacheInv == cache.doc = cache.rev /\ cache.doc <= loaded

\* What a caller has in hand is no older than its call.
LoadOK(l) ==
  /\ oload[l].since <= over /\ oload[l].cond <= loaded
  /\ oload[l].pc # "idle" => oload[l].out = 0
  /\ okind = "azblob" /\ oload[l].pc = "sent" => oload[l].cond = cache.rev
  /\ oload[l].pc = "got" =>
       /\ oload[l].doc \in {0, oload[l].rev}
       /\ oload[l].doc # 0 => oload[l].doc >= oload[l].since
       /\ oload[l].doc = 0 => loaded >= oload[l].since
       /\ oload[l].doc = 0 /\ okind = "azblob" => cache.doc >= oload[l].since
  /\ oload[l].pc = "read" => oload[l].rev >= oload[l].since

\* The session's token has not been sent; without an error the document accepted is the
\* last content delivered.
AppInv == /\ app.twice = 0 /\ app.token # 2
          /\ okind = "appconfig" /\ app.err = 0 => cache.doc = app.seen

LoadsInv == /\ StoreTyped /\ LoadTyped /\ GateInv /\ CacheInv /\ AppInv
            /\ \A l \in Loaders : LoadOK(l)

-----------------------------------------------------------------------------
(* The inductive invariant: the messages.                                  *)

HandlerTypes == [pc : {"idle", "match", "refresh", "settle", "refuse"}, msg : Messages]

NotifyTyped == /\ nkind \in {"sns", "azservicebus", "pubsub", "s3events"}
               /\ noise \in {"other", "malformed"}
               /\ msgs \in [Messages -> {"none", "queued", "flight", "gone"}]
               /\ handler \in [Loaders -> HandlerTypes]
               /\ events \in 0 .. EventCap /\ dups \in 0 .. MaxDups

\* Version v was loaded, or s3events has still to ask for it, is asking, or failed.
Done(v) == \/ loaded >= v \/ okind = "appconfig"
           \/ /\ nkind = "s3events"
              /\ \/ events > 0
                 \/ oload[2].pc # "idle" /\ oload[2].since >= v
                 \/ oload[2].pc = "idle" /\ oload[2].out = 0

\* Only versions that were stored are announced; a message that is gone has done its work.
MessageOK(m) == /\ msgs[m] # "none" => m <= over
                /\ m # 0 /\ msgs[m] = "gone" => Done(m)

\* A message about to be settled has done its work; the load of a refresh was called
\* after its message had come.
HandlerOK(h) ==
  /\ handler[h].msg <= over
  /\ handler[h].pc = "settle" /\ handler[h].msg # 0 => Done(handler[h].msg)
  /\ handler[h].pc = "refresh" =>
       /\ nkind # "s3events"
       /\ \/ okind = "appconfig"
          \/ oload[h].pc # "idle" /\ oload[h].since >= handler[h].msg
          \/ oload[h].pc = "idle" /\ (oload[h].out # 0 => loaded >= handler[h].msg)

MessagesInv == /\ NotifyTyped
               /\ \A m \in Messages : MessageOK(m)
               /\ \A h \in Loaders : HandlerOK(h)

NotifyInv == LoadsInv /\ MessagesInv

-----------------------------------------------------------------------------
(* The loads.                                                              *)

\* The numbers of versions.
LEMMA VersionFacts ==
  /\ MaxObj \in Nat \ {0} /\ MaxObjFails \in Nat /\ 0 \in Versions
  /\ \A v \in Versions : v \in Nat /\ v <= MaxObj
  /\ \A v \in 1 .. MaxObj : v \in Versions /\ v > 0
BY ObjectAssumption DEF Versions

\* The flags.
LEMMA Flags == 0 \in 0 .. 1 /\ 1 \in 0 .. 1 /\ 0 \in 0 .. 2 /\ 1 \in 0 .. 2
OBVIOUS

\* The fields of a caller.
LEMMA LoadFields ==
  ASSUME NEW r \in LoadTypes
  PROVE  /\ r.pc \in {"idle", "wait"} \cup Inside /\ r.cond \in Versions /\ r.doc \in Versions
         /\ r.rev \in Versions /\ r.since \in Versions /\ r.out \in 0 .. 1
BY DEF LoadTypes

\* One caller's record is replaced.
LEMMA SetLoad ==
  ASSUME LoadTyped, NEW l \in Loaders, NEW r \in LoadTypes, oload' = [oload EXCEPT ![l] = r]
  PROVE  /\ oload' \in [Loaders -> LoadTypes] /\ oload'[l] = r
         /\ \A k \in Loaders \ {l} : oload'[k] = oload[k]
BY DEF LoadTyped

\* What a caller's step is to everybody else.
Carried(l) ==
  /\ oload[l].pc # "idle"
  /\ \/ oload'[l].pc # "idle" /\ oload'[l].since = oload[l].since
     \/ /\ oload'[l].pc = "idle"
        /\ oload'[l].out = 0 \/ okind = "appconfig" \/ loaded' >= oload[l].since
Moved(l) ==
  /\ UNCHANGED <<okind, over>> /\ loaded' >= loaded /\ loaded' \in Versions
  /\ \A k \in Loaders \ {l} : oload'[k] = oload[k]
  /\ Carried(l)
  /\ okind = "appconfig" /\ oload'[l].out # 0 => app'.err = 0

\* The record of a caller that has returned.
LEMMA ReturnedLoad ==
  ASSUME NEW k \in 0 .. 1, NEW r, r = [IdleLoad EXCEPT !.out = k]
  PROVE  r \in LoadTypes /\ r.pc = "idle" /\ r.since = 0 /\ r.cond = 0 /\ r.out = k
BY VersionFacts DEF IdleLoad, LoadTypes

\* Load returns.
LEMMA ReturnStep ==
  ASSUME LoadsInv, NEW l \in Loaders, NEW doc \in Versions,
         oload[l].pc # "idle", ObjReturns(l, doc),
         UNCHANGED <<okind, over, obad>>, ofails' \in 0 .. MaxObjFails,
         cache' \in CacheTypes, cache'.doc = cache'.rev,
         cache' = cache \/ (cache'.doc = doc /\ oload[l].pc \in Inside),
         app' \in AppTypes, AppInv', okind # "appconfig" \/ doc = 0 \/ app'.err = 0,
         doc = 0 \/ okind = "appconfig" \/ doc >= oload[l].since \/ loaded >= oload[l].since
  PROVE  LoadsInv' /\ Moved(l)
<1>0. StoreTyped /\ LoadTyped /\ GateInv /\ CacheInv /\ \A k \in Loaders : LoadOK(k)
  BY DEF LoadsInv
<1> DEFINE r == [IdleLoad EXCEPT !.out = IF doc = 0 THEN 0 ELSE 1]
<1>1. oload' = [oload EXCEPT ![l] = r]
  BY DEF ObjReturns
<1>2. r \in LoadTypes /\ r.pc = "idle" /\ r.since = 0 /\ r.cond = 0 /\ (doc = 0 => r.out = 0)
  <2>1. CASE doc = 0
    <3>1. r = [IdleLoad EXCEPT !.out = 0] /\ 0 \in 0 .. 1
      BY <2>1
    <3> HIDE DEF r
    <3> QED  BY <3>1, ReturnedLoad
  <2>2. CASE doc # 0
    <3>1. r = [IdleLoad EXCEPT !.out = 1] /\ 1 \in 0 .. 1
      BY <2>2
    <3> HIDE DEF r
    <3> QED  BY <2>2, <3>1, ReturnedLoad
  <2> QED  BY <2>1, <2>2
<1> HIDE DEF r
<1>3. /\ oload' \in [Loaders -> LoadTypes] /\ oload'[l] = r
      /\ \A k \in Loaders \ {l} : oload'[k] = oload[k]
  BY <1>0, <1>1, <1>2, SetLoad
<1>4. /\ loaded' \in Versions /\ loaded' >= loaded /\ loaded' >= doc
      /\ loaded' \in Nat /\ loaded \in Nat /\ doc \in Nat /\ over' = over /\ over \in Nat
  <2>1. loaded \in Nat /\ doc \in Nat /\ over \in Nat /\ loaded \in Versions
    BY <1>0, VersionFacts DEF LoadTyped, StoreTyped
  <2>2. loaded' = IF doc > loaded THEN doc ELSE loaded
    BY DEF ObjReturns
  <2> QED  BY <2>1, <2>2
<1>5. gate' = IF gate = l THEN 0 ELSE gate
  BY DEF ObjReturns, OpenGate
<1>6. StoreTyped' /\ LoadTyped'
  <2>1. gate' \in 0 .. 2
    BY <1>0, <1>5 DEF LoadTyped
  <2> QED  BY <1>0, <1>3, <1>4, <2>1 DEF StoreTyped, LoadTyped
<1>7. GateInv'
  BY <1>0, <1>2, <1>3, <1>5 DEF GateInv, Inside
<1>8. CacheInv'
  <2>1. CASE cache' = cache
    <3>1. cache.doc \in Nat
      BY <1>0, VersionFacts DEF LoadTyped, CacheTypes
    <3> QED  BY <1>0, <1>4, <2>1, <3>1 DEF CacheInv
  <2>2. CASE cache'.doc = doc
    BY <1>4, <2>2 DEF CacheInv
  <2> QED  BY <2>1, <2>2
<1>9. ASSUME NEW k \in Loaders PROVE LoadOK(k)'
  <2>1. CASE k = l
    <3>1. oload'[k].pc = "idle" /\ oload'[k].since = 0 /\ oload'[k].cond = 0
      BY <1>2, <1>3, <2>1
    <3> QED  BY <1>4, <3>1 DEF LoadOK
  <2>2. CASE k # l
    <3>1. oload'[k] = oload[k] /\ oload[k].cond \in Nat /\ oload[k].since \in Nat
      BY <1>0, <1>3, <2>2, LoadFields, VersionFacts DEF LoadTyped
    <3>2. oload[k].cond <= loaded'
      BY <1>0, <1>4, <3>1 DEF LoadOK
    <3>3. loaded >= oload[k].since => loaded' >= oload[k].since
      BY <1>4, <3>1
    <3>4. CASE cache' = cache
      BY <1>0, <1>4, <3>1, <3>2, <3>3, <3>4 DEF LoadOK
    <3>5. CASE oload[l].pc \in Inside
      <4>1. okind = "azblob" => oload[k].pc \notin Inside
        BY <1>0, <2>2, <3>5 DEF GateInv
      <4> QED  BY <1>0, <1>4, <3>1, <3>2, <3>3, <4>1 DEF LoadOK, Inside
    <3> QED  BY <3>4, <3>5
  <2> QED  BY <2>1, <2>2
<1>10. Moved(l)
  <2>1. oload[l].since \in Nat
    BY <1>0, LoadFields, VersionFacts DEF LoadTyped
  <2>2. oload'[l].out = 0 \/ okind = "appconfig" \/ loaded' >= oload[l].since
    BY <1>2, <1>3, <1>4, <2>1
  <2>3. okind = "appconfig" /\ oload'[l].out # 0 => app'.err = 0
    BY <1>2, <1>3
  <2> QED  BY <1>2, <1>3, <1>4, <2>2, <2>3 DEF Moved, Carried
<1> QED  BY <1>6, <1>7, <1>8, <1>9, <1>10 DEF LoadsInv

\* A caller goes on inside Load.
LEMMA InsideStep ==
  ASSUME LoadsInv, NEW l \in Loaders, NEW r \in LoadTypes,
         oload' = [oload EXCEPT ![l] = r], oload[l].pc # "idle", r.pc \in Inside,
         r.since = oload[l].since, UNCHANGED <<okind, over, obad, cache, loaded>>,
         ofails' \in 0 .. MaxObjFails, app' \in AppTypes, AppInv', LoadOK(l)',
         \/ gate' = gate /\ oload[l].pc \in Inside
         \/ gate' = l /\ gate = 0
  PROVE  LoadsInv' /\ Moved(l)
<1>0. StoreTyped /\ LoadTyped /\ GateInv /\ CacheInv /\ \A k \in Loaders : LoadOK(k)
  BY DEF LoadsInv
<1>1. /\ oload' \in [Loaders -> LoadTypes] /\ oload'[l] = r
      /\ \A k \in Loaders \ {l} : oload'[k] = oload[k]
  BY <1>0, SetLoad
<1>2. StoreTyped' /\ LoadTyped'
  <2>1. gate' \in 0 .. 2
    BY <1>0 DEF LoadTyped, Loaders
  <2> QED  BY <1>0, <1>1, <2>1 DEF StoreTyped, LoadTyped
<1>3. GateInv'
  <2>1. CASE gate' = gate /\ oload[l].pc \in Inside
    BY <1>0, <1>1, <2>1 DEF GateInv
  <2>2. CASE gate' = l /\ gate = 0
    BY <1>0, <1>1, <2>2 DEF GateInv, Loaders
  <2> QED  BY <2>1, <2>2
<1>4. CacheInv'
  BY <1>0 DEF CacheInv
<1>5. ASSUME NEW k \in Loaders PROVE LoadOK(k)'
  <2>1. CASE k # l
    BY <1>0, <1>1, <2>1 DEF LoadOK
  <2> QED  BY <2>1
<1>6. Moved(l)
  <2>1. loaded \in Nat /\ loaded \in Versions
    BY <1>0, VersionFacts DEF LoadTyped
  <2>2. oload'[l].out = 0
    BY <1>1 DEF LoadOK, Inside
  <2> QED  BY <1>1, <2>1, <2>2 DEF Moved, Carried, Inside
<1> QED  BY <1>2, <1>3, <1>4, <1>5, <1>6 DEF LoadsInv

\* What the steps of a caller start from.
LEMMA LoadStart ==
  ASSUME LoadsInv, NEW l \in Loaders
  PROVE  /\ oload[l] \in LoadTypes /\ app \in AppTypes /\ cache \in CacheTypes
         /\ cache.doc \in Versions /\ cache.rev \in Versions /\ cache.doc = cache.rev
         /\ oload[l].since \in Nat /\ oload[l].cond \in Nat /\ oload[l].doc \in Versions
         /\ oload[l].rev \in Versions /\ cache.doc \in Nat /\ cache.doc <= loaded
         /\ loaded \in Nat /\ over \in Nat /\ over > 0 /\ over \in Versions
         /\ oload[l].since <= over /\ oload[l].cond <= loaded /\ LoadOK(l) /\ AppInv
         /\ ofails \in 0 .. MaxObjFails /\ 0 \in Versions
         /\ (ObjRequestFails => ofails' \in 0 .. MaxObjFails)
<1>0. StoreTyped /\ LoadTyped /\ CacheInv /\ LoadOK(l) /\ AppInv
  BY DEF LoadsInv
<1>1. oload[l] \in LoadTypes /\ app \in AppTypes /\ cache \in CacheTypes
  BY <1>0 DEF LoadTyped
<1>2. cache.doc \in Versions /\ cache.rev \in Versions
  BY <1>1 DEF CacheTypes
<1>3. /\ oload[l].since \in Versions /\ oload[l].cond \in Versions /\ oload[l].doc \in Versions
      /\ oload[l].rev \in Versions
  BY <1>1, LoadFields
<1>4. loaded \in Versions /\ over \in 1 .. MaxObj /\ ofails \in 0 .. MaxObjFails
  BY <1>0 DEF StoreTyped, LoadTyped
<1>5. ObjRequestFails => ofails' \in 0 .. MaxObjFails
  BY <1>4, VersionFacts DEF ObjRequestFails
<1>6. /\ cache.doc = cache.rev /\ cache.doc <= loaded
      /\ oload[l].since <= over /\ oload[l].cond <= loaded
  BY <1>0 DEF CacheInv, LoadOK
<1> QED  BY <1>0, <1>1, <1>2, <1>3, <1>4, <1>5, <1>6, VersionFacts

\* A caller's position changes.
LEMMA GoesTo ==
  ASSUME NEW o \in LoadTypes, NEW x \in Inside, NEW r, r = [o EXCEPT !.pc = x]
  PROVE  /\ r \in LoadTypes /\ r.pc = x /\ r.cond = o.cond /\ r.doc = o.doc /\ r.rev = o.rev
         /\ r.since = o.since /\ r.out = o.out
BY DEF LoadTypes

\* The gate is entered.
LEMMA EnterStep ==
  ASSUME LoadsInv, NEW l \in Loaders, ObjEnter(l)
  PROVE  LoadsInv' /\ Moved(l)
<1>0. /\ oload[l] \in LoadTypes /\ app \in AppTypes /\ LoadOK(l) /\ AppInv
      /\ ofails \in 0 .. MaxObjFails
  BY LoadStart
<1>1. /\ oload[l].pc = "wait" /\ gate = 0 /\ gate' = l
      /\ UNCHANGED <<okind, over, obad, ofails, cache, app, loaded>>
  BY DEF ObjEnter, OpenGate
<1> DEFINE r == [oload[l] EXCEPT !.pc = "ask"]
<1>2. oload' = [oload EXCEPT ![l] = r]
  BY DEF ObjEnter
<1>3. /\ r \in LoadTypes /\ r.pc = "ask" /\ r.cond = oload[l].cond
      /\ r.since = oload[l].since /\ r.out = oload[l].out
  BY <1>0, GoesTo DEF Inside
<1> HIDE DEF r
<1>4. oload'[l] = r
  BY <1>2, <1>3, SetLoad DEF LoadsInv
<1>5. LoadOK(l)' /\ AppInv'
  BY <1>0, <1>1, <1>3, <1>4 DEF LoadOK, AppInv
<1>6. r.pc \in Inside /\ oload[l].pc # "idle" /\ app' \in AppTypes /\ ofails' \in 0 .. MaxObjFails
  BY <1>0, <1>1, <1>3 DEF Inside
<1> QED  BY <1>1, <1>2, <1>3, <1>5, <1>6, InsideStep

\* The request is made with the accepted ETag.
LEMMA CondAskStep ==
  ASSUME LoadsInv, NEW l \in Loaders, CondAsk(l)
  PROVE  LoadsInv' /\ Moved(l)
<1>0. /\ oload[l] \in LoadTypes /\ app \in AppTypes /\ LoadOK(l) /\ AppInv
      /\ ofails \in 0 .. MaxObjFails /\ cache.rev \in Versions /\ cache.rev <= loaded
  BY LoadStart
<1>1. /\ oload[l].pc = "ask"
      /\ UNCHANGED <<okind, over, obad, ofails, gate, cache, app, loaded>>
  BY DEF CondAsk
<1> DEFINE q == [oload[l] EXCEPT !.cond = cache.rev]
           r == [q EXCEPT !.pc = "sent"]
<1>2. oload' = [oload EXCEPT ![l] = r]
  BY <1>0 DEF CondAsk, LoadsInv, LoadTyped
<1>3. q \in LoadTypes /\ q.cond = cache.rev /\ q.since = oload[l].since /\ q.out = oload[l].out
  BY <1>0 DEF LoadTypes
<1> HIDE DEF q
<1>4. /\ r \in LoadTypes /\ r.pc = "sent" /\ r.cond = cache.rev
      /\ r.since = oload[l].since /\ r.out = oload[l].out
  BY <1>3, GoesTo DEF Inside
<1> HIDE DEF r
<1>5. oload'[l] = r
  BY <1>2, <1>4, SetLoad DEF LoadsInv
<1>6. LoadOK(l)' /\ AppInv'
  BY <1>0, <1>1, <1>4, <1>5 DEF LoadOK, AppInv
<1>7. /\ r.pc \in Inside /\ oload[l].pc \in Inside /\ oload[l].pc # "idle"
      /\ app' \in AppTypes /\ ofails' \in 0 .. MaxObjFails
  BY <1>0, <1>1, <1>4 DEF Inside
<1> QED  BY <1>1, <1>2, <1>4, <1>6, <1>7, InsideStep

\* An error is returned.
LEMMA FailStep ==
  ASSUME LoadsInv, NEW l \in Loaders, oload[l].pc # "idle", ObjReturns(l, 0),
         UNCHANGED <<okind, over, obad, cache>>, ofails' \in 0 .. MaxObjFails,
         app' \in AppTypes, AppInv'
  PROVE  LoadsInv' /\ Moved(l)
<1>1. 0 \in Versions /\ cache' \in CacheTypes /\ cache'.doc = cache'.rev
  BY LoadStart
<1> QED  BY <1>1, ReturnStep

\* The answer: the version stored, or not modified.
LEMMA CondAnswerStep ==
  ASSUME LoadsInv, NEW l \in Loaders, CondAnswer(l)
  PROVE  LoadsInv' /\ Moved(l)
<1>0. /\ oload[l] \in LoadTypes /\ app \in AppTypes /\ LoadOK(l) /\ AppInv
      /\ ofails \in 0 .. MaxObjFails /\ cache.doc = cache.rev /\ over \in Versions
      /\ over \in Nat /\ over > 0 /\ oload[l].since \in Nat /\ oload[l].since <= over
      /\ oload[l].cond <= loaded /\ loaded \in Nat /\ 0 \in Versions
      /\ (ObjRequestFails => ofails' \in 0 .. MaxObjFails)
  BY LoadStart
<1>1. oload[l].pc = "sent" /\ UNCHANGED <<okind, over, obad, cache, app>>
  BY DEF CondAnswer
<1>2. app' \in AppTypes /\ AppInv' /\ oload[l].pc \in Inside /\ oload[l].pc # "idle"
  BY <1>0, <1>1 DEF AppInv, Inside
<1>3. CASE ObjRequestFails /\ ObjReturns(l, 0)
  BY <1>0, <1>1, <1>2, <1>3, FailStep
<1> DEFINE body == IF oload[l].cond = over THEN 0 ELSE over
           p == [oload[l] EXCEPT !.pc = "got"]
           q == [p EXCEPT !.cond = 0]
           r == [[q EXCEPT !.doc = body] EXCEPT !.rev = over]
<1>4. CASE oload' = [oload EXCEPT ![l].pc = "got", ![l].cond = 0, ![l].doc = body, ![l].rev = over]
           /\ UNCHANGED <<ofails, gate, loaded>>
  <2>1. oload' = [oload EXCEPT ![l] = r]
    BY <1>0, <1>4 DEF LoadsInv, LoadTyped
  <2>2. body \in Versions
    BY <1>0
  <2> HIDE DEF body
  <2>3. p \in LoadTypes /\ p.pc = "got" /\ p.since = oload[l].since /\ p.out = oload[l].out
    BY <1>0, GoesTo DEF Inside
  <2> HIDE DEF p
  <2>4. q \in LoadTypes /\ q.pc = "got" /\ q.cond = 0 /\ q.since = oload[l].since /\ q.out = oload[l].out
    BY <1>0, <2>3 DEF LoadTypes
  <2> HIDE DEF q
  <2>5. /\ r \in LoadTypes /\ r.pc = "got" /\ r.cond = 0 /\ r.doc = body /\ r.rev = over
        /\ r.since = oload[l].since /\ r.out = oload[l].out
    BY <1>0, <2>2, <2>4 DEF LoadTypes
  <2> HIDE DEF r
  <2>6. oload'[l] = r
    BY <2>1, <2>5, SetLoad DEF LoadsInv
  <2>7. LoadOK(l)'
    <3>1. CASE oload[l].cond = over
      <4>1. body = 0 /\ loaded >= oload[l].since
        BY <1>0, <3>1 DEF body
      <4>2. okind = "azblob" => cache.doc >= oload[l].since
        BY <1>0, <1>1, <3>1 DEF LoadOK
      <4> QED  BY <1>0, <1>1, <1>4, <2>5, <2>6, <4>1, <4>2 DEF LoadOK
    <3>2. CASE oload[l].cond # over
      <4>1. body = over
        BY <3>2 DEF body
      <4> QED  BY <1>0, <1>1, <1>4, <2>5, <2>6, <4>1 DEF LoadOK
    <3> QED  BY <3>1, <3>2
  <2>8. r.pc \in Inside /\ ofails' \in 0 .. MaxObjFails
    BY <1>0, <1>4, <2>5 DEF Inside
  <2> QED  BY <1>1, <1>2, <1>4, <2>1, <2>5, <2>7, <2>8, InsideStep
<1> QED  BY <1>3, <1>4 DEF CondAnswer

\* A document becomes the accepted one.
LEMMA NewCache ==
  ASSUME NEW v \in Versions, NEW c, c = [doc |-> v, rev |-> v]
  PROVE  c \in CacheTypes /\ c.doc = v /\ c.rev = v
BY DEF CacheTypes

\* The answer is accepted, or it does not decode.
LEMMA CondAcceptStep ==
  ASSUME LoadsInv, NEW l \in Loaders, CondAccept(l)
  PROVE  LoadsInv' /\ Moved(l)
<1>0. /\ app \in AppTypes /\ cache \in CacheTypes /\ LoadOK(l) /\ AppInv
      /\ ofails \in 0 .. MaxObjFails /\ cache.doc \in Versions /\ cache.doc = cache.rev
      /\ oload[l].doc \in Versions
  BY LoadStart
<1>1. okind \in {"s3", "azblob"} /\ oload[l].pc = "got" /\ UNCHANGED <<okind, over, obad, ofails, app>>
  BY DEF CondAccept
<1>2. app' \in AppTypes /\ AppInv' /\ oload[l].pc \in Inside /\ oload[l].pc # "idle"
  BY <1>0, <1>1 DEF AppInv, Inside
<1>3. CASE oload[l].doc = 0 /\ ObjReturns(l, cache.doc) /\ cache' = cache
  <2>1. loaded >= oload[l].since
    BY <1>0, <1>1, <1>3 DEF LoadOK
  <2> QED  BY <1>0, <1>1, <1>2, <1>3, <2>1, ReturnStep
<1>4. CASE /\ oload[l].doc # 0 /\ cache' = [doc |-> oload[l].doc, rev |-> oload[l].rev]
           /\ ObjReturns(l, oload[l].doc)
  <2>1. oload[l].doc = oload[l].rev /\ oload[l].doc >= oload[l].since
    BY <1>0, <1>1, <1>4 DEF LoadOK
  <2>2. cache' \in CacheTypes /\ cache'.doc = oload[l].doc /\ cache'.rev = oload[l].doc
    BY <1>0, <1>4, <2>1, NewCache
  <2> QED  BY <1>0, <1>1, <1>2, <1>4, <2>1, <2>2, ReturnStep
<1>5. CASE ObjReturns(l, 0) /\ cache' = cache
  BY <1>0, <1>1, <1>2, <1>5, FailStep
<1> QED  BY <1>3, <1>4, <1>5 DEF CondAccept

\* gcs asks for the generation.
LEMMA GCSAttrsStep ==
  ASSUME LoadsInv, NEW l \in Loaders, GCSAttrs(l)
  PROVE  LoadsInv' /\ Moved(l)
<1>0. /\ oload[l] \in LoadTypes /\ app \in AppTypes /\ cache \in CacheTypes /\ LoadOK(l) /\ AppInv
      /\ ofails \in 0 .. MaxObjFails /\ cache.doc \in Versions /\ cache.doc = cache.rev
      /\ over \in Versions /\ over \in Nat /\ oload[l].since \in Nat /\ oload[l].since <= over
      /\ (ObjRequestFails => ofails' \in 0 .. MaxObjFails)
  BY LoadStart
<1>1. okind = "gcs" /\ oload[l].pc = "ask" /\ UNCHANGED <<okind, over, obad, cache, app>>
  BY DEF GCSAttrs
<1>2. app' \in AppTypes /\ AppInv' /\ oload[l].pc \in Inside /\ oload[l].pc # "idle"
  BY <1>0, <1>1 DEF AppInv, Inside
<1>3. CASE cache.rev = over /\ ObjReturns(l, cache.doc) /\ UNCHANGED ofails
  <2>1. cache.doc >= oload[l].since /\ ofails' \in 0 .. MaxObjFails
    BY <1>0, <1>3
  <2> QED  BY <1>0, <1>1, <1>2, <1>3, <2>1, ReturnStep
<1>4. CASE ObjRequestFails /\ ObjReturns(l, 0)
  BY <1>0, <1>1, <1>2, <1>4, FailStep
<1> DEFINE q == [oload[l] EXCEPT !.pc = "read"]
           r == [q EXCEPT !.rev = over]
<1>5. CASE oload' = [oload EXCEPT ![l].pc = "read", ![l].rev = over]
           /\ UNCHANGED <<ofails, gate, loaded>>
  <2>1. oload' = [oload EXCEPT ![l] = r]
    BY <1>0, <1>5 DEF LoadsInv, LoadTyped
  <2>2. /\ q \in LoadTypes /\ q.pc = "read" /\ q.cond = oload[l].cond
        /\ q.since = oload[l].since /\ q.out = oload[l].out
    BY <1>0, GoesTo DEF Inside
  <2> HIDE DEF q
  <2>3. /\ r \in LoadTypes /\ r.pc = "read" /\ r.cond = oload[l].cond /\ r.rev = over
        /\ r.since = oload[l].since /\ r.out = oload[l].out
    BY <1>0, <2>2 DEF LoadTypes
  <2> HIDE DEF r
  <2>4. oload'[l] = r
    BY <2>1, <2>3, SetLoad DEF LoadsInv
  <2>5. LoadOK(l)'
    BY <1>0, <1>1, <1>5, <2>3, <2>4 DEF LoadOK
  <2>6. r.pc \in Inside /\ ofails' \in 0 .. MaxObjFails
    BY <1>0, <1>5, <2>3 DEF Inside
  <2> QED  BY <1>1, <1>2, <1>5, <2>1, <2>3, <2>5, <2>6, InsideStep
<1> QED  BY <1>3, <1>4, <1>5 DEF GCSAttrs

\* gcs reads the generation it was told.
LEMMA GCSReadStep ==
  ASSUME LoadsInv, NEW l \in Loaders, GCSRead(l)
  PROVE  LoadsInv' /\ Moved(l)
<1>0. /\ app \in AppTypes /\ LoadOK(l) /\ AppInv /\ ofails \in 0 .. MaxObjFails
      /\ oload[l].rev \in Versions /\ (ObjRequestFails => ofails' \in 0 .. MaxObjFails)
  BY LoadStart
<1> DEFINE g == oload[l].rev
<1>1. okind = "gcs" /\ oload[l].pc = "read" /\ UNCHANGED <<okind, over, obad, app>>
  BY DEF GCSRead
<1>2. app' \in AppTypes /\ AppInv' /\ oload[l].pc \in Inside /\ oload[l].pc # "idle"
  BY <1>0, <1>1 DEF AppInv, Inside
<1>3. CASE cache' = [doc |-> g, rev |-> g] /\ ObjReturns(l, g) /\ UNCHANGED ofails
  <2>1. g >= oload[l].since
    BY <1>0, <1>1 DEF LoadOK
  <2>2. cache' \in CacheTypes /\ cache'.doc = g /\ cache'.rev = g
    BY <1>0, <1>3, NewCache
  <2>3. ofails' \in 0 .. MaxObjFails
    BY <1>0, <1>3
  <2> QED  BY <1>0, <1>1, <1>2, <1>3, <2>1, <2>2, <2>3, ReturnStep
<1>4. CASE ObjReturns(l, 0) /\ cache' = cache /\ ofails' \in 0 .. MaxObjFails
  BY <1>1, <1>2, <1>4, FailStep
<1> QED  BY <1>0, <1>3, <1>4 DEF GCSRead

\* A caller gives up its wait for the gate.
LEMMA GivesUpStep ==
  ASSUME LoadsInv, NEW l \in Loaders, ObjGivesUp(l)
  PROVE  LoadsInv' /\ Moved(l)
<1>0. app \in AppTypes /\ AppInv /\ (ObjRequestFails => ofails' \in 0 .. MaxObjFails)
  BY LoadStart
<1>1. /\ oload[l].pc = "wait" /\ ObjRequestFails /\ ObjReturns(l, 0)
      /\ UNCHANGED <<okind, over, obad, cache, app>>
  BY DEF ObjGivesUp
<1>2. app' \in AppTypes /\ AppInv' /\ oload[l].pc # "idle"
  BY <1>0, <1>1 DEF AppInv
<1> QED  BY <1>0, <1>1, <1>2, FailStep

\* snapshot is answered.
LEMMA SnapshotStep ==
  ASSUME LoadsInv, NEW l \in Loaders, oload[l].pc # "idle", okind = "appconfig",
         NEW s, AppSnapshot(l, s, cache), app'.err = s.err, app'.err \in 0 .. 1,
         UNCHANGED <<okind, over, obad, ofails, cache>>, app' \in AppTypes, AppInv'
  PROVE  LoadsInv' /\ Moved(l)
<1>0. /\ ofails' \in 0 .. MaxObjFails /\ cache' \in CacheTypes /\ cache'.doc = cache'.rev
      /\ cache.doc \in Versions
  BY LoadStart
<1>1. CASE s.err = 1
  <2>1. ObjReturns(l, 0)
    BY <1>1 DEF AppSnapshot
  <2> QED  BY <1>0, <2>1, FailStep
<1>2. CASE s.err # 1
  <2>1. ObjReturns(l, cache.doc) /\ app'.err = 0
    BY <1>2 DEF AppSnapshot
  <2> QED  BY <1>0, <2>1, ReturnStep
<1> QED  BY <1>1, <1>2

\* The fields of the session.
LEMMA AppFields ==
  ASSUME NEW s \in AppTypes
  PROVE  /\ s.token \in 0 .. 2 /\ s.twice \in 0 .. 1 /\ s.session \in Versions
         /\ s.seen \in Versions /\ s.due \in 0 .. 1 /\ s.err \in 0 .. 1
BY DEF AppTypes

\* Before the next poll.
LEMMA AppEarlyStep ==
  ASSUME LoadsInv, NEW l \in Loaders, AppEarly(l)
  PROVE  LoadsInv' /\ Moved(l)
<1>0. app \in AppTypes /\ AppInv /\ app.err \in 0 .. 1
  BY LoadStart, AppFields
<1>1. /\ okind = "appconfig" /\ oload[l].pc = "ask" /\ AppSnapshot(l, app, cache)
      /\ UNCHANGED <<okind, over, obad, ofails, cache, app>>
  BY DEF AppEarly
<1>2. app' \in AppTypes /\ AppInv' /\ app'.err = app.err /\ app'.err \in 0 .. 1 /\ oload[l].pc # "idle"
  BY <1>0, <1>1 DEF AppInv
<1> QED  BY <1>1, <1>2, SnapshotStep

\* The session after a request that failed.
LEMMA FailedSession ==
  ASSUME LoadsInv, app' = [app EXCEPT !.due = 0, !.err = 1], UNCHANGED <<okind, cache>>
  PROVE  app' \in AppTypes /\ AppInv'
<1>0. app \in AppTypes /\ AppInv
  BY DEF LoadsInv, LoadTyped
<1>1. app' \in AppTypes /\ app'.err = 1 /\ app'.twice = app.twice /\ app'.token = app.token
  BY <1>0, Flags DEF AppTypes
<1> QED  BY <1>0, <1>1 DEF AppInv

\* A session is started.
LEMMA AppStartStep ==
  ASSUME LoadsInv, NEW l \in Loaders, AppStart(l)
  PROVE  LoadsInv' /\ (Moved(l) \/ UNCHANGED <<okind, over, oload, loaded>>)
<1>0. /\ app \in AppTypes /\ AppInv /\ 0 \in Versions
      /\ (ObjRequestFails => ofails' \in 0 .. MaxObjFails)
  BY LoadStart
<1>1. oload[l].pc = "ask" /\ UNCHANGED <<okind, over, obad, cache>> /\ oload[l].pc # "idle"
  BY DEF AppStart
<1>2. CASE app' = [app EXCEPT !.token = 1, !.session = 0] /\ UNCHANGED <<ofails, gate, oload, loaded>>
  <2>1. app' \in AppTypes /\ app'.token = 1
    BY <1>0, <1>2, Flags, VersionFacts DEF AppTypes
  <2>2. app'.twice = app.twice /\ app'.err = app.err /\ app'.seen = app.seen
    BY <1>0, <1>2, Flags, VersionFacts DEF AppTypes
  <2>3. AppInv'
    BY <1>0, <1>1, <2>1, <2>2 DEF AppInv
  <2>4. StoreTyped' /\ LoadTyped' /\ GateInv' /\ CacheInv'
    BY <1>1, <1>2, <2>1 DEF LoadsInv, StoreTyped, LoadTyped, GateInv, CacheInv
  <2>5. \A k \in Loaders : LoadOK(k)'
    BY <1>1, <1>2 DEF LoadsInv, LoadOK
  <2> QED  BY <1>1, <1>2, <2>3, <2>4, <2>5 DEF LoadsInv
<1>3. CASE ObjRequestFails /\ app' = [app EXCEPT !.due = 0, !.err = 1] /\ ObjReturns(l, 0)
  BY <1>0, <1>1, <1>3, FailedSession, FailStep
<1> QED  BY <1>2, <1>3 DEF AppStart

\* The token is sent and forgotten.
LEMMA AppSendStep ==
  ASSUME LoadsInv, NEW l \in Loaders, AppSend(l)
  PROVE  LoadsInv' /\ Moved(l)
<1>0. /\ oload[l] \in LoadTypes /\ app \in AppTypes /\ LoadOK(l) /\ AppInv
      /\ ofails \in 0 .. MaxObjFails
  BY LoadStart
<1>1. /\ okind = "appconfig" /\ oload[l].pc = "ask"
      /\ UNCHANGED <<okind, over, obad, ofails, gate, cache, loaded>>
  BY DEF AppSend
<1>2. app' \in AppTypes /\ AppInv'
  <2>1. app.twice = 0 /\ app.token # 2 /\ app.twice \in 0 .. 1
    BY <1>0 DEF AppInv
  <2>2. app' = [app EXCEPT !.token = 0, !.twice = app.twice]
    BY <2>1 DEF AppSend
  <2>3. /\ app' \in AppTypes /\ app'.token = 0 /\ app'.twice = app.twice /\ app'.err = app.err
        /\ app'.seen = app.seen
    BY <1>0, <2>1, <2>2, Flags DEF AppTypes
  <2> QED  BY <1>0, <1>1, <2>3 DEF AppInv
<1> DEFINE r == [oload[l] EXCEPT !.pc = "sent"]
<1>3. oload' = [oload EXCEPT ![l] = r]
  BY DEF AppSend
<1>4. /\ r \in LoadTypes /\ r.pc = "sent" /\ r.cond = oload[l].cond
      /\ r.since = oload[l].since /\ r.out = oload[l].out
  BY <1>0, GoesTo DEF Inside
<1> HIDE DEF r
<1>5. oload'[l] = r
  BY <1>3, <1>4, SetLoad DEF LoadsInv
<1>6. LoadOK(l)'
  BY <1>0, <1>1, <1>4, <1>5 DEF LoadOK
<1>7. /\ r.pc \in Inside /\ oload[l].pc \in Inside /\ oload[l].pc # "idle"
      /\ ofails' \in 0 .. MaxObjFails
  BY <1>0, <1>1, <1>4 DEF Inside
<1> QED  BY <1>1, <1>2, <1>3, <1>4, <1>6, <1>7, InsideStep

\* The session's answer.
LEMMA AppAnswerStep ==
  ASSUME LoadsInv, NEW l \in Loaders, AppAnswer(l)
  PROVE  LoadsInv' /\ Moved(l)
<1>0. /\ app \in AppTypes /\ AppInv /\ over \in Versions /\ ofails \in 0 .. MaxObjFails
      /\ (ObjRequestFails => ofails' \in 0 .. MaxObjFails)
  BY LoadStart
<1>1. /\ okind = "appconfig" /\ oload[l].pc = "sent" /\ oload[l].pc # "idle"
      /\ UNCHANGED <<okind, over, obad>>
  BY DEF AppAnswer
<1> DEFINE s == [app EXCEPT !.token = 1, !.due = 0]
<1>2. s \in AppTypes /\ s.token = 1 /\ s.twice = app.twice /\ s.err = app.err /\ s.seen = app.seen
  BY <1>0, Flags DEF AppTypes
<1>3. \/ /\ app' = s /\ AppSnapshot(l, s, cache) /\ UNCHANGED <<cache, ofails>>
      \/ /\ app' = [s EXCEPT !.session = over, !.seen = over, !.err = 0]
         /\ cache' = [doc |-> over, rev |-> over] /\ ObjReturns(l, over) /\ UNCHANGED ofails
      \/ /\ app' = [s EXCEPT !.session = over, !.seen = over, !.err = 1]
         /\ ObjReturns(l, 0) /\ UNCHANGED <<cache, ofails>>
      \/ /\ ObjRequestFails /\ app' = [app EXCEPT !.due = 0, !.err = 1]
         /\ ObjReturns(l, 0) /\ UNCHANGED cache
  BY DEF AppAnswer
<1> HIDE DEF s
<1>4. CASE app' = s /\ AppSnapshot(l, s, cache) /\ UNCHANGED <<cache, ofails>>
  <2>1. app' \in AppTypes /\ AppInv' /\ app'.err = s.err /\ app'.err \in 0 .. 1
    BY <1>0, <1>1, <1>2, <1>4, AppFields DEF AppInv
  <2> QED  BY <1>1, <1>4, <2>1, SnapshotStep
<1>5. CASE /\ app' = [s EXCEPT !.session = over, !.seen = over, !.err = 0]
           /\ cache' = [doc |-> over, rev |-> over] /\ ObjReturns(l, over) /\ UNCHANGED ofails
  <2>1. cache' \in CacheTypes /\ cache'.doc = over /\ cache'.rev = over
    BY <1>0, <1>5, NewCache
  <2>2. app' \in AppTypes /\ app'.seen = over /\ app'.err = 0
    BY <1>0, <1>2, <1>5, Flags DEF AppTypes
  <2>3. app'.twice = s.twice /\ app'.token = s.token
    BY <1>2, <1>5 DEF AppTypes
  <2>4. AppInv'
    BY <1>0, <1>1, <1>2, <2>1, <2>2, <2>3 DEF AppInv
  <2>5. oload[l].pc \in Inside /\ ofails' \in 0 .. MaxObjFails
    BY <1>0, <1>1, <1>5 DEF Inside
  <2> QED  BY <1>0, <1>1, <1>5, <2>1, <2>2, <2>4, <2>5, ReturnStep
<1>6. CASE /\ app' = [s EXCEPT !.session = over, !.seen = over, !.err = 1]
           /\ ObjReturns(l, 0) /\ UNCHANGED <<cache, ofails>>
  <2>1. app' \in AppTypes /\ app'.err = 1
    BY <1>0, <1>2, <1>6, Flags DEF AppTypes
  <2>2. app'.twice = s.twice /\ app'.token = s.token
    BY <1>2, <1>6 DEF AppTypes
  <2>3. AppInv' /\ ofails' \in 0 .. MaxObjFails
    BY <1>0, <1>2, <1>6, <2>1, <2>2 DEF AppInv
  <2> QED  BY <1>1, <1>6, <2>1, <2>3, FailStep
<1>7. CASE /\ ObjRequestFails /\ app' = [app EXCEPT !.due = 0, !.err = 1]
           /\ ObjReturns(l, 0) /\ UNCHANGED cache
  BY <1>0, <1>1, <1>7, FailedSession, FailStep
<1> QED  BY <1>3, <1>4, <1>5, <1>6, <1>7

-----------------------------------------------------------------------------
(* The whole of the loads.                                                 *)

\* Load is called.
LEMMA BeginStep ==
  ASSUME LoadsInv, NEW l \in Loaders, ObjBegin(l)
  PROVE  /\ LoadsInv' /\ UNCHANGED <<okind, over, loaded>>
         /\ oload[l].pc = "idle" /\ oload'[l].pc # "idle" /\ oload'[l].since = over
         /\ \A k \in Loaders \ {l} : oload'[k] = oload[k]
<1>0. /\ StoreTyped /\ LoadTyped /\ GateInv /\ CacheInv /\ AppInv
      /\ \A k \in Loaders : LoadOK(k)
  BY DEF LoadsInv
<1>1. /\ oload[l].pc = "idle"
      /\ UNCHANGED <<okind, over, obad, ofails, gate, cache, app, loaded>>
  BY DEF ObjBegin
<1> DEFINE x == IF Gated THEN "wait" ELSE "ask"
           q == [IdleLoad EXCEPT !.pc = x]
           r == [q EXCEPT !.since = over]
<1>2. oload' = [oload EXCEPT ![l] = r]
  BY DEF ObjBegin, IdleLoad
<1>3. /\ x \in {"idle", "wait"} \cup Inside /\ x # "idle" /\ x \notin {"sent", "got", "read"}
      /\ x \in Inside => okind = "s3"
  BY DEF Gated, Inside
<1> HIDE DEF x
<1>4. q \in LoadTypes /\ q.pc = x /\ q.cond = 0 /\ q.out = 0
  BY <1>3, VersionFacts DEF IdleLoad, LoadTypes
<1> HIDE DEF q
<1>5. over \in Versions /\ over \in Nat /\ loaded \in Nat
  BY <1>0, VersionFacts DEF StoreTyped, LoadTyped
<1>6. r \in LoadTypes /\ r.pc = x /\ r.since = over /\ r.cond = 0 /\ r.out = 0
  BY <1>4, <1>5 DEF LoadTypes
<1> HIDE DEF r
<1>7. /\ oload' \in [Loaders -> LoadTypes] /\ oload'[l] = r
      /\ \A k \in Loaders \ {l} : oload'[k] = oload[k]
  BY <1>0, <1>2, <1>6, SetLoad
<1>8. StoreTyped' /\ LoadTyped' /\ CacheInv' /\ AppInv'
  BY <1>0, <1>1, <1>7 DEF StoreTyped, LoadTyped, CacheInv, AppInv
<1>9. GateInv'
  <2>1. gate # l
    BY <1>0, <1>1 DEF GateInv, Inside, Loaders
  <2>2. gate # 0 => gate \in Loaders /\ oload'[gate].pc \in Inside
    BY <1>0, <1>7, <2>1 DEF GateInv
  <2>3. okind # "s3" => \A k \in Loaders : oload'[k].pc \in Inside => gate = k
    BY <1>0, <1>3, <1>6, <1>7 DEF GateInv
  <2> QED  BY <1>1, <2>2, <2>3 DEF GateInv
<1>10. ASSUME NEW k \in Loaders PROVE LoadOK(k)'
  <2>1. CASE k = l
    BY <1>1, <1>3, <1>5, <1>6, <1>7, <2>1 DEF LoadOK
  <2>2. CASE k # l
    BY <1>0, <1>1, <1>7, <2>2 DEF LoadOK
  <2> QED  BY <2>1, <2>2
<1> QED  BY <1>1, <1>3, <1>6, <1>7, <1>8, <1>9, <1>10 DEF LoadsInv

\* The object is replaced.
LEMMA ChangeStep ==
  ASSUME LoadsInv, NEW d \in BOOLEAN, ObjChanges(d)
  PROVE  LoadsInv' /\ over' = over + 1 /\ over + 1 \in Versions /\ UNCHANGED <<okind, oload, loaded>>
<1>0. /\ StoreTyped /\ LoadTyped /\ GateInv /\ CacheInv /\ AppInv
      /\ \A k \in Loaders : LoadOK(k)
  BY DEF LoadsInv
<1>1. /\ over < MaxObj /\ over' = over + 1
      /\ obad' = obad \/ obad' = obad \cup {over + 1}
      /\ UNCHANGED <<okind, ofails, gate, cache, oload, app, loaded>>
  BY DEF ObjChanges
<1>2. over \in Nat /\ over > 0 /\ over + 1 \in 2 .. MaxObj /\ over + 1 \in Versions
  BY <1>0, <1>1, VersionFacts DEF StoreTyped, Versions
<1>3. StoreTyped'
  <2>1. over' \in 1 .. MaxObj
    BY <1>1, <1>2
  <2>2. obad' \subseteq 2 .. MaxObj
    BY <1>0, <1>1, <1>2 DEF StoreTyped
  <2> QED  BY <1>0, <1>1, <2>1, <2>2 DEF StoreTyped
<1>4. LoadTyped' /\ GateInv' /\ CacheInv' /\ AppInv'
  BY <1>0, <1>1 DEF LoadTyped, GateInv, CacheInv, AppInv
<1>5. ASSUME NEW k \in Loaders PROVE LoadOK(k)'
  <2>1. oload[k].since \in Nat
    BY LoadStart
  <2>2. oload[k].since <= over'
    BY <1>0, <1>1, <1>2, <2>1 DEF LoadOK
  <2> QED  BY <1>0, <1>1, <2>2 DEF LoadOK
<1> QED  BY <1>1, <1>2, <1>3, <1>4, <1>5 DEF LoadsInv

\* A poll falls due, or the loads do nothing.
LEMMA LoadsFrame ==
  ASSUME LoadsInv, UNCHANGED <<okind, over, obad, gate, cache, oload, loaded>>,
         ofails' \in 0 .. MaxObjFails, app' = app \/ app' = [app EXCEPT !.due = 1]
  PROVE  LoadsInv'
<1>0. /\ StoreTyped /\ LoadTyped /\ GateInv /\ CacheInv /\ AppInv /\ app \in AppTypes
      /\ \A k \in Loaders : LoadOK(k)
  BY DEF LoadsInv, LoadTyped
<1>1. /\ app' \in AppTypes /\ app'.twice = app.twice /\ app'.token = app.token
      /\ app'.err = app.err /\ app'.seen = app.seen
  BY <1>0, Flags DEF AppTypes
<1>2. AppInv'
  BY <1>0, <1>1 DEF AppInv
<1>3. StoreTyped' /\ LoadTyped' /\ GateInv' /\ CacheInv'
  BY <1>0, <1>1 DEF StoreTyped, LoadTyped, GateInv, CacheInv
<1>4. \A k \in Loaders : LoadOK(k)'
  BY <1>0 DEF LoadOK
<1> QED  BY <1>2, <1>3, <1>4 DEF LoadsInv

\* Any step of a caller.
LEMMA LoadsStep ==
  ASSUME LoadsInv, NEW l \in Loaders, LoadSteps(l) \/ ObjGivesUp(l)
  PROVE  LoadsInv' /\ (Moved(l) \/ UNCHANGED <<okind, over, oload, loaded>>)
BY EnterStep, CondAskStep, CondAnswerStep, CondAcceptStep, GCSAttrsStep, GCSReadStep,
   AppEarlyStep, AppStartStep, AppSendStep, AppAnswerStep, GivesUpStep DEF LoadSteps

-----------------------------------------------------------------------------
(* The messages.                                                           *)

\* What a step does to the loads, as the messages see it.
Begun(k) == oload'[k].pc # "idle" /\ oload'[k].since = over
LoadsMove ==
  /\ UNCHANGED <<okind, nkind>> /\ over' >= over /\ loaded' >= loaded
  /\ \A k \in Loaders : oload'[k] = oload[k] \/ Carried(k) \/ Begun(k)
  /\ events' >= events \/ Begun(2)

\* Message and version numbers.
LEMMA MessageFacts ==
  /\ Messages = Versions /\ \A m \in Messages : m \in Nat
  /\ 1 \in Loaders /\ 2 \in Loaders /\ Handlers \subseteq Loaders
  /\ EventCap \in Nat /\ MaxDups \in Nat
BY VersionFacts, NotifyAssumption DEF Messages, Versions, Handlers, Loaders

\* What has been done stays done.
LEMMA DoneKept ==
  ASSUME LoadsInv, LoadsInv', LoadsMove, events \in Nat, events' \in Nat,
         NEW v \in Versions, v <= over, Done(v)
  PROVE  Done(v)'
<1>1. v \in Nat /\ loaded \in Nat /\ loaded' \in Nat /\ over \in Nat
  BY VersionFacts DEF LoadsInv, LoadTyped, StoreTyped
<1>2. 2 \in Loaders /\ oload[2].since \in Nat
  BY LoadStart, MessageFacts
<1>3. CASE loaded >= v \/ okind = "appconfig"
  BY <1>1, <1>3 DEF LoadsMove, Done
<1>4. CASE nkind = "s3events" /\ ~(loaded >= v) /\ okind # "appconfig"
  <2>1. CASE Begun(2)
    BY <1>1, <1>4, <2>1 DEF LoadsMove, Done, Begun
  <2>2. CASE events' >= events /\ events > 0
    <3>1. events' > 0
      BY <2>2
    <3> QED  BY <1>4, <3>1 DEF LoadsMove, Done
  <2>3. CASE oload'[2] = oload[2] /\ ~(events > 0)
    BY <1>4, <2>3 DEF LoadsMove, Done
  <2>4. CASE Carried(2) /\ ~(events > 0)
    <3>1. oload[2].pc # "idle" /\ oload[2].since >= v
      BY <1>4, <2>4 DEF Carried, Done
    <3>2. loaded' >= oload[2].since => loaded' >= v
      BY <1>1, <1>2, <3>1
    <3> QED  BY <1>4, <2>4, <3>1, <3>2 DEF LoadsMove, Carried, Done
  <2> QED  BY <1>2, <2>1, <2>2, <2>3, <2>4 DEF LoadsMove
<1> QED  BY <1>3, <1>4 DEF Done

\* The types of the counters and of a handler.
LEMMA NotifyFacts ==
  ASSUME MessagesInv
  PROVE  /\ events \in Nat /\ dups \in Nat
         /\ \A h \in Loaders : /\ handler[h] \in HandlerTypes /\ handler[h].msg \in Messages
                               /\ handler[h].msg \in Nat /\ handler[h].msg <= over
<1>1. \A h \in Loaders : handler[h] \in HandlerTypes /\ handler[h].msg <= over
  BY DEF MessagesInv, NotifyTyped, HandlerOK
<1>2. \A h \in Loaders : handler[h].msg \in Messages
  BY <1>1 DEF HandlerTypes
<1>3. events \in Nat /\ dups \in Nat
  BY MessageFacts DEF MessagesInv, NotifyTyped
<1> QED  BY <1>1, <1>2, <1>3, MessageFacts

\* Messages and handlers that a step does not touch.
LEMMA Untouched ==
  ASSUME NotifyInv, LoadsInv', LoadsMove, events' \in Nat
  PROVE  /\ \A m \in Messages : msgs'[m] = msgs[m] => MessageOK(m)'
         /\ \A h \in Loaders : handler'[h] = handler[h] => HandlerOK(h)'
<1>0. LoadsInv /\ MessagesInv /\ events \in Nat /\ over \in Nat /\ over' \in Nat /\ over' >= over
  BY NotifyFacts, VersionFacts DEF NotifyInv, LoadsMove, LoadsInv, StoreTyped
<1>1. ASSUME NEW m \in Messages, msgs'[m] = msgs[m] PROVE MessageOK(m)'
  <2>1. MessageOK(m) /\ m \in Versions /\ m \in Nat
    BY <1>0, MessageFacts DEF MessagesInv
  <2>2. msgs[m] # "none" => m <= over'
    BY <1>0, <2>1 DEF MessageOK
  <2>3. m # 0 /\ msgs[m] = "gone" => Done(m)'
    BY <1>0, <2>1, DoneKept DEF MessageOK
  <2> QED  BY <1>1, <2>2, <2>3 DEF MessageOK
<1>2. ASSUME NEW h \in Loaders, handler'[h] = handler[h] PROVE HandlerOK(h)'
  <2> DEFINE m == handler[h].msg
  <2>1. HandlerOK(h) /\ m \in Versions /\ m \in Nat /\ m <= over /\ m <= over'
    BY <1>0, NotifyFacts, MessageFacts DEF MessagesInv
  <2>2. handler[h].pc = "settle" /\ m # 0 => Done(m)
    BY <2>1 DEF HandlerOK
  <2> HIDE DEF m
  <2>3. \A n : n = m /\ Done(n) => Done(n)'
    BY <1>0, <2>1, DoneKept
  <2>4. handler'[h].pc = "settle" /\ handler'[h].msg # 0 => Done(handler[h].msg)'
    BY <1>2, <2>2, <2>3 DEF m
  <2>5. ASSUME handler[h].pc = "refresh"
        PROVE  /\ nkind' # "s3events"
               /\ \/ okind' = "appconfig"
                  \/ oload'[h].pc # "idle" /\ oload'[h].since >= m
                  \/ oload'[h].pc = "idle" /\ (oload'[h].out # 0 => loaded' >= m)
    <3>1. /\ nkind # "s3events"
          /\ \/ okind = "appconfig"
             \/ oload[h].pc # "idle" /\ oload[h].since >= m
             \/ oload[h].pc = "idle" /\ (oload[h].out # 0 => loaded >= m)
      BY <2>1, <2>5 DEF HandlerOK, m
    <3>2. loaded \in Nat /\ loaded' \in Nat /\ oload[h].since \in Nat
      BY <1>0, LoadStart, VersionFacts DEF LoadsInv, LoadTyped
    <3>3. CASE oload'[h] = oload[h]
      BY <2>1, <3>1, <3>2, <3>3 DEF LoadsMove
    <3>4. CASE Carried(h)
      BY <2>1, <3>1, <3>2, <3>4 DEF LoadsMove, Carried
    <3>5. CASE Begun(h)
      BY <1>0, <2>1, <3>1, <3>5 DEF LoadsMove, Begun
    <3> QED  BY <3>3, <3>4, <3>5 DEF LoadsMove
  <2> QED  BY <1>2, <2>1, <2>4, <2>5 DEF HandlerOK, m
<1> QED  BY <1>1, <1>2

\* A step that leaves the handlers alone.
LEMMA MessagesStep ==
  ASSUME NotifyInv, LoadsInv', LoadsMove, handler' = handler, noise' = noise,
         events' \in 0 .. EventCap, dups' \in 0 .. MaxDups,
         msgs' \in [Messages -> {"none", "queued", "flight", "gone"}],
         \A m \in Messages : msgs'[m] = msgs[m] \/ MessageOK(m)'
  PROVE  NotifyInv'
<1>1. events' \in Nat
  BY MessageFacts
<1>2. NotifyTyped'
  BY DEF NotifyInv, MessagesInv, NotifyTyped, LoadsMove
<1> QED  BY <1>1, <1>2, Untouched DEF NotifyInv, MessagesInv

\* A step of one handler.
LEMMA HandlerStep ==
  ASSUME NotifyInv, LoadsInv', LoadsMove, NEW h \in Loaders, NEW x \in HandlerTypes,
         handler' = [handler EXCEPT ![h] = x], noise' = noise,
         events' \in 0 .. EventCap, dups' \in 0 .. MaxDups,
         msgs' \in [Messages -> {"none", "queued", "flight", "gone"}],
         \A m \in Messages : msgs'[m] = msgs[m] \/ MessageOK(m)', HandlerOK(h)'
  PROVE  NotifyInv'
<1>1. events' \in Nat
  BY MessageFacts
<1>2. handler' \in [Loaders -> HandlerTypes] /\ \A k \in Loaders \ {h} : handler'[k] = handler[k]
  BY DEF NotifyInv, MessagesInv, NotifyTyped
<1>3. NotifyTyped'
  BY <1>2 DEF NotifyInv, MessagesInv, NotifyTyped, LoadsMove
<1>4. \A k \in Loaders : HandlerOK(k)'
  BY <1>1, <1>2, Untouched
<1> QED  BY <1>1, <1>3, <1>4, Untouched DEF NotifyInv, MessagesInv

\* The loads rest.
LEMMA Still ==
  ASSUME NotifyInv, UNCHANGED <<okind, over, obad, gate, cache, oload, app, loaded, nkind>>,
         ofails' \in 0 .. MaxObjFails, events' \in Nat, events' >= events
  PROVE  LoadsInv' /\ LoadsMove
<1>1. LoadsInv' /\ over \in Nat /\ loaded \in Nat
  BY LoadsFrame, VersionFacts DEF NotifyInv, LoadsInv, StoreTyped, LoadTyped
<1> QED  BY <1>1 DEF LoadsMove

\* The same when all of the loads' variables are left alone.
LEMMA StillAll ==
  ASSUME NotifyInv, UNCHANGED <<objVars, nkind>>, events' = events
  PROVE  LoadsInv' /\ LoadsMove
<1>1. ofails' \in 0 .. MaxObjFails /\ events' \in Nat /\ events' >= events
  BY NotifyFacts DEF NotifyInv, LoadsInv, StoreTyped, objVars
<1> QED  BY <1>1, Still DEF objVars

\* A message changes its state.
LEMMA PutMessage ==
  ASSUME NotifyInv, NEW m \in Messages, NEW st \in {"none", "queued", "flight", "gone"},
         msgs' = [msgs EXCEPT ![m] = st]
  PROVE  /\ msgs' \in [Messages -> {"none", "queued", "flight", "gone"}] /\ msgs'[m] = st
         /\ \A n \in Messages \ {m} : msgs'[n] = msgs[n]
BY DEF NotifyInv, MessagesInv, NotifyTyped

\* A message that was announced is queued or in flight.
LEMMA MessageWaits ==
  ASSUME NotifyInv, NEW m \in Messages, NEW st \in {"queued", "flight"}, m <= over',
         msgs' = [msgs EXCEPT ![m] = st]
  PROVE  /\ msgs' \in [Messages -> {"none", "queued", "flight", "gone"}]
         /\ \A n \in Messages : msgs'[n] = msgs[n] \/ MessageOK(n)'
<1>1. /\ msgs' \in [Messages -> {"none", "queued", "flight", "gone"}] /\ msgs'[m] = st
      /\ \A n \in Messages \ {m} : msgs'[n] = msgs[n]
  BY PutMessage
<1>2. MessageOK(m)'
  BY <1>1 DEF MessageOK
<1> QED  BY <1>1, <1>2

\* A handler goes on with its message.
LEMMA GotoStep ==
  ASSUME NotifyInv, LoadsInv', LoadsMove, NEW h \in Loaders,
         NEW x \in {"idle", "match", "refresh", "settle", "refuse"}, Goto(h, x),
         UNCHANGED <<noise, msgs, dups>>, events' \in 0 .. EventCap
  PROVE  /\ handler'[h].pc = x /\ handler'[h].msg = handler[h].msg
         /\ HandlerOK(h)' => NotifyInv'
<1> DEFINE y == [handler[h] EXCEPT !.pc = x]
<1>1. handler[h] \in HandlerTypes /\ handler \in [Loaders -> HandlerTypes]
  BY DEF NotifyInv, MessagesInv, NotifyTyped
<1>2. handler' = [handler EXCEPT ![h] = y]
  BY DEF Goto
<1>3. y \in HandlerTypes /\ y.pc = x /\ y.msg = handler[h].msg
  BY <1>1 DEF HandlerTypes
<1> HIDE DEF y
<1>4. handler'[h] = y
  BY <1>1, <1>2
<1>5. /\ dups' \in 0 .. MaxDups /\ msgs' \in [Messages -> {"none", "queued", "flight", "gone"}]
      /\ \A m \in Messages : msgs'[m] = msgs[m] \/ MessageOK(m)'
  BY DEF NotifyInv, MessagesInv, NotifyTyped
<1> QED  BY <1>2, <1>3, <1>4, <1>5, HandlerStep

\* A handler is done with its message.
LEMMA LeaveStep ==
  ASSUME NotifyInv, LoadsInv', LoadsMove, NEW h \in Loaders, Leave(h), noise' = noise,
         events' \in 0 .. EventCap, dups' \in 0 .. MaxDups,
         msgs' \in [Messages -> {"none", "queued", "flight", "gone"}],
         \A m \in Messages : msgs'[m] = msgs[m] \/ MessageOK(m)'
  PROVE  NotifyInv'
<1>1. handler \in [Loaders -> HandlerTypes] /\ over' \in Nat
  BY VersionFacts DEF NotifyInv, MessagesInv, NotifyTyped, LoadsInv, StoreTyped
<1>2. Free \in HandlerTypes /\ Free.pc = "idle" /\ Free.msg = 0
  BY VersionFacts, MessageFacts DEF Free, HandlerTypes
<1>3. handler' = [handler EXCEPT ![h] = Free]
  BY DEF Leave
<1>4. handler'[h] = Free
  BY <1>1, <1>3
<1>5. HandlerOK(h)'
  BY <1>1, <1>2, <1>4 DEF HandlerOK
<1> QED  BY <1>2, <1>3, <1>5, HandlerStep

\* The object changes and is announced.
LEMMA AnnounceStep == NotifyInv /\ Announce => NotifyInv'
<1> SUFFICES ASSUME NotifyInv, Announce PROVE NotifyInv'
  OBVIOUS
<1>1. PICK d \in BOOLEAN : ObjChanges(d)
  BY DEF Announce
<1>2. LoadsInv' /\ over' = over + 1 /\ over + 1 \in Versions /\ UNCHANGED <<okind, oload, loaded>>
  BY <1>1, ChangeStep DEF NotifyInv
<1>3. /\ msgs' = [msgs EXCEPT ![over + 1] = "queued"]
      /\ UNCHANGED <<nkind, noise, handler, events, dups>>
  BY DEF Announce
<1>4. /\ over \in Nat /\ loaded \in Nat /\ events \in Nat /\ over + 1 \in Messages
      /\ events' \in 0 .. EventCap /\ dups' \in 0 .. MaxDups
  BY <1>2, <1>3, NotifyFacts, VersionFacts, MessageFacts
     DEF NotifyInv, LoadsInv, StoreTyped, LoadTyped, MessagesInv, NotifyTyped
<1>5. LoadsMove
  BY <1>2, <1>3, <1>4 DEF LoadsMove
<1>6. over + 1 <= over'
  BY <1>2, <1>4
<1>7. /\ msgs' \in [Messages -> {"none", "queued", "flight", "gone"}]
      /\ \A n \in Messages : msgs'[n] = msgs[n] \/ MessageOK(n)'
  BY <1>3, <1>4, <1>6, MessageWaits
<1> QED  BY <1>2, <1>3, <1>4, <1>5, <1>7, MessagesStep

\* A message is queued again.
LEMMA AgainStep ==
  ASSUME NotifyInv, NEW m \in Messages, Duplicate(m) \/ Redeliver(m)
  PROVE  NotifyInv'
<1>1. /\ msgs[m] = "flight" /\ msgs' = [msgs EXCEPT ![m] = "queued"]
      /\ dups' = dups \/ (dups < MaxDups /\ dups' = dups + 1)
      /\ UNCHANGED <<objVars, nkind, noise, handler, events>>
  BY DEF Duplicate, Redeliver
<1>2. events' \in 0 .. EventCap /\ dups' \in 0 .. MaxDups
  BY <1>1, MessageFacts DEF NotifyInv, MessagesInv, NotifyTyped
<1>3. LoadsInv' /\ LoadsMove
  BY <1>1, StillAll
<1>4. m <= over'
  BY <1>1 DEF NotifyInv, MessagesInv, MessageOK, objVars
<1>5. /\ msgs' \in [Messages -> {"none", "queued", "flight", "gone"}]
      /\ \A n \in Messages : msgs'[n] = msgs[n] \/ MessageOK(n)'
  BY <1>1, <1>4, MessageWaits
<1> QED  BY <1>1, <1>2, <1>3, <1>5, MessagesStep

\* A message is delivered.
LEMMA DeliverStep ==
  ASSUME NotifyInv, NEW h \in Loaders, NEW m \in Messages, ReceiveMessage(h, m)
  PROVE  NotifyInv'
<1> DEFINE x == [pc |-> "match", msg |-> m]
<1>1. /\ msgs[m] = "queued" /\ msgs' = [msgs EXCEPT ![m] = "flight"]
      /\ handler' = [handler EXCEPT ![h] = x]
      /\ UNCHANGED <<objVars, nkind, noise, events, dups>>
  BY DEF ReceiveMessage, RunReceives, PollReceives, Deliver
<1>2. events' \in 0 .. EventCap /\ dups' \in 0 .. MaxDups
  BY <1>1 DEF NotifyInv, MessagesInv, NotifyTyped
<1>3. LoadsInv' /\ LoadsMove
  BY <1>1, StillAll
<1>4. m <= over'
  BY <1>1 DEF NotifyInv, MessagesInv, MessageOK, objVars
<1>5. /\ msgs' \in [Messages -> {"none", "queued", "flight", "gone"}]
      /\ \A n \in Messages : msgs'[n] = msgs[n] \/ MessageOK(n)'
  BY <1>1, <1>4, MessageWaits
<1>6. x \in HandlerTypes /\ x.pc = "match" /\ x.msg = m
  BY DEF HandlerTypes
<1> HIDE DEF x
<1>7. handler'[h] = x
  BY <1>1 DEF NotifyInv, MessagesInv, NotifyTyped
<1>8. HandlerOK(h)'
  BY <1>4, <1>6, <1>7 DEF HandlerOK
<1> QED  BY <1>1, <1>2, <1>3, <1>5, <1>6, <1>8, HandlerStep

\* The types of what a handler's step leaves alone.
LEMMA Kept ==
  ASSUME NotifyInv
  PROVE  /\ events \in 0 .. EventCap /\ dups \in 0 .. MaxDups /\ over \in Nat /\ loaded \in Nat
         /\ msgs \in [Messages -> {"none", "queued", "flight", "gone"}]
         /\ ofails \in 0 .. MaxObjFails /\ events \in Nat
         /\ (ObjRequestFails => ofails' \in 0 .. MaxObjFails)
<1>1. 1 \in Loaders /\ LoadsInv
  BY MessageFacts DEF NotifyInv
<1>2. over \in Nat /\ loaded \in Nat /\ ofails \in 0 .. MaxObjFails
      /\ (ObjRequestFails => ofails' \in 0 .. MaxObjFails)
  BY <1>1, LoadStart
<1> QED  BY <1>2, NotifyFacts DEF NotifyInv, MessagesInv, NotifyTyped

\* A message that does not match or cannot be parsed.
LEMMA MatchNoiseStep ==
  ASSUME NotifyInv, NEW h \in Loaders, MatchNoise(h)
  PROVE  NotifyInv'
<1> DEFINE x == IF noise = "other" THEN "settle" ELSE "refuse"
<1>1. handler[h].msg = 0 /\ Goto(h, x) /\ UNCHANGED <<objVars, nkind, noise, msgs, events, dups>>
  BY DEF MatchNoise
<1>2. x \in {"idle", "match", "refresh", "settle", "refuse"} /\ x # "refresh"
  OBVIOUS
<1> HIDE DEF x
<1>3. LoadsInv' /\ LoadsMove /\ events' \in 0 .. EventCap
  BY <1>1, StillAll, Kept
<1>4. handler'[h].pc = x /\ handler'[h].msg = 0
  BY <1>1, <1>2, <1>3, GotoStep
<1>5. HandlerOK(h)'
  BY <1>1, <1>2, <1>4, Kept DEF HandlerOK, objVars
<1> QED  BY <1>1, <1>2, <1>3, <1>5, GotoStep

\* A refresh begins.
LEMMA StartRefreshStep ==
  ASSUME NotifyInv, NEW h \in Loaders, StartRefresh(h)
  PROVE  NotifyInv'
<1>1. /\ nkind # "s3events" /\ ObjBegin(h) /\ Goto(h, "refresh")
      /\ UNCHANGED <<nkind, noise, msgs, events, dups>>
  BY DEF StartRefresh
<1>2. /\ LoadsInv' /\ UNCHANGED <<okind, over, loaded>>
      /\ oload'[h].pc # "idle" /\ oload'[h].since = over
      /\ \A k \in Loaders \ {h} : oload'[k] = oload[k]
  BY <1>1, BeginStep DEF NotifyInv
<1>3. LoadsMove /\ events' \in 0 .. EventCap
  BY <1>1, <1>2, Kept DEF LoadsMove, Begun
<1>4. handler'[h].pc = "refresh" /\ handler'[h].msg = handler[h].msg
  BY <1>1, <1>2, <1>3, GotoStep
<1>5. handler[h].msg <= over /\ handler[h].msg \in Nat /\ over \in Nat
  BY NotifyFacts, Kept DEF NotifyInv
<1>6. HandlerOK(h)'
  BY <1>1, <1>2, <1>4, <1>5 DEF HandlerOK
<1> QED  BY <1>1, <1>2, <1>3, <1>6, GotoStep

\* A refresh has returned.
LEMMA EndRefreshStep ==
  ASSUME NotifyInv, NEW h \in Loaders, EndRefresh(h)
  PROVE  NotifyInv'
<1>1. /\ handler[h].pc = "refresh" /\ oload[h].pc = "idle"
      /\ UNCHANGED <<okind, over, obad, gate, cache, oload, app, loaded>>
      /\ UNCHANGED <<nkind, noise, msgs, events, dups>>
      /\ \/ oload[h].out # 0 /\ Goto(h, "settle") /\ ofails' = ofails
         \/ Goto(h, "refuse") /\ (ofails' = ofails \/ ObjRequestFails)
  BY DEF EndRefresh
<1>2. ofails' \in 0 .. MaxObjFails /\ events' \in 0 .. EventCap /\ events' \in Nat /\ events' >= events
  BY <1>1, Kept
<1>3. LoadsInv' /\ LoadsMove
  BY <1>1, <1>2, Still
<1>4. HandlerOK(h) /\ handler[h].msg <= over'
  BY <1>1, NotifyFacts DEF NotifyInv, MessagesInv
<1>5. CASE oload[h].out # 0 /\ Goto(h, "settle")
  <2>1. handler'[h].pc = "settle" /\ handler'[h].msg = handler[h].msg
    BY <1>1, <1>2, <1>3, <1>5, GotoStep
  <2>2. okind = "appconfig" \/ loaded >= handler[h].msg
    BY <1>1, <1>4, <1>5 DEF HandlerOK
  <2>3. HandlerOK(h)'
    BY <1>1, <1>4, <2>1, <2>2 DEF HandlerOK, Done
  <2> QED  BY <1>1, <1>2, <1>3, <1>5, <2>3, GotoStep
<1>6. CASE Goto(h, "refuse")
  <2>1. handler'[h].pc = "refuse" /\ handler'[h].msg = handler[h].msg
    BY <1>1, <1>2, <1>3, <1>6, GotoStep
  <2>2. HandlerOK(h)'
    BY <1>4, <2>1 DEF HandlerOK
  <2> QED  BY <1>1, <1>2, <1>3, <1>6, <2>2, GotoStep
<1> QED  BY <1>1, <1>5, <1>6

\* A message is settled, or its settlement fails.
LEMMA SettlesStep ==
  ASSUME NotifyInv, NEW h \in Loaders, Settles(h)
  PROVE  NotifyInv'
<1> DEFINE m == handler[h].msg
<1>1. /\ handler[h].pc = "settle" /\ Leave(h)
      /\ UNCHANGED <<okind, over, obad, gate, cache, oload, app, loaded>>
      /\ UNCHANGED <<nkind, noise, events, dups>>
      /\ \/ msgs' = [msgs EXCEPT ![m] = "gone"] /\ ofails' = ofails
         \/ ObjRequestFails /\ msgs' = msgs
  BY DEF Settles
<1>2. /\ ofails' \in 0 .. MaxObjFails /\ events' \in 0 .. EventCap /\ events' \in Nat
      /\ events' >= events /\ dups' \in 0 .. MaxDups
  BY <1>1, Kept
<1>3. LoadsInv' /\ LoadsMove
  BY <1>1, <1>2, Still
<1>4. m \in Messages /\ m <= over'
  BY <1>1, NotifyFacts DEF NotifyInv
<1>5. m # 0 => Done(m)
  BY <1>1 DEF NotifyInv, MessagesInv, HandlerOK
<1> HIDE DEF m
<1>6. CASE msgs' = msgs
  BY <1>1, <1>2, <1>3, <1>6, Kept, LeaveStep
<1>7. CASE msgs' = [msgs EXCEPT ![m] = "gone"]
  <2>1. /\ msgs' \in [Messages -> {"none", "queued", "flight", "gone"}] /\ msgs'[m] = "gone"
        /\ \A n \in Messages \ {m} : msgs'[n] = msgs[n]
    BY <1>4, <1>7, PutMessage
  <2>2. \A n : n = m /\ n # 0 => Done(n)'
    BY <1>1, <1>5 DEF Done
  <2>3. \A n \in Messages : n = m => MessageOK(n)'
    BY <1>4, <2>1, <2>2 DEF MessageOK
  <2>4. \A n \in Messages : msgs'[n] = msgs[n] \/ MessageOK(n)'
    BY <2>1, <2>3
  <2> QED  BY <1>1, <1>2, <1>3, <2>1, <2>4, LeaveStep
<1> QED  BY <1>1, <1>6, <1>7

\* A message is refused, its run ends, or it is left in the queue.
LEMMA DropsStep ==
  ASSUME NotifyInv, NEW h \in Loaders, Refuse(h) \/ RunEnds(h) \/ SkipNoise(h)
  PROVE  NotifyInv'
<1> DEFINE m == handler[h].msg
<1>1. /\ Leave(h) /\ UNCHANGED <<objVars, nkind, noise, events>>
      /\ dups' = dups \/ (dups < MaxDups /\ dups' = dups + 1)
      /\ msgs' = msgs \/ msgs' = [msgs EXCEPT ![m] = "queued"]
  BY DEF Refuse, RunEnds, SkipNoise
<1>2. events' \in 0 .. EventCap /\ dups' \in 0 .. MaxDups
  BY <1>1, Kept, MessageFacts
<1>3. LoadsInv' /\ LoadsMove
  BY <1>1, StillAll
<1>4. m \in Messages /\ m <= over'
  BY <1>1, NotifyFacts DEF NotifyInv, objVars
<1> HIDE DEF m
<1>5. /\ msgs' \in [Messages -> {"none", "queued", "flight", "gone"}]
      /\ \A n \in Messages : msgs'[n] = msgs[n] \/ MessageOK(n)'
  <2>1. CASE msgs' = msgs
    BY <2>1, Kept
  <2>2. CASE msgs' = [msgs EXCEPT ![m] = "queued"]
    BY <1>4, <2>2, MessageWaits
  <2> QED  BY <1>1, <2>1, <2>2
<1> QED  BY <1>1, <1>2, <1>3, <1>5, LeaveStep

\* s3events forwards an event.
LEMMA EmitStep ==
  ASSUME NotifyInv, NEW h \in Loaders, Emit(h)
  PROVE  NotifyInv'
<1>1. /\ nkind = "s3events" /\ events < EventCap /\ events' = events + 1 /\ Goto(h, "settle")
      /\ UNCHANGED <<objVars, nkind, noise, msgs, dups>>
  BY DEF Emit
<1>2. /\ events' \in 0 .. EventCap /\ events' \in Nat /\ events' >= events /\ events' > 0
      /\ ofails' \in 0 .. MaxObjFails
  BY <1>1, Kept, MessageFacts DEF objVars
<1>3. LoadsInv' /\ LoadsMove
  BY <1>1, <1>2, Still DEF objVars
<1>4. handler'[h].pc = "settle" /\ handler'[h].msg = handler[h].msg
  BY <1>1, <1>2, <1>3, GotoStep
<1>5. handler[h].msg <= over'
  BY <1>1, NotifyFacts DEF NotifyInv, objVars
<1>6. HandlerOK(h)'
  BY <1>1, <1>2, <1>4, <1>5 DEF HandlerOK, Done
<1> QED  BY <1>1, <1>2, <1>3, <1>6, GotoStep

\* A load begins without a message: the manager's, after an event, or the application's.
LEMMA UnaskedStep ==
  ASSUME NotifyInv, ConsumeEvent \/ LoadUnasked
  PROVE  NotifyInv'
<1>1. /\ ObjBegin(2) /\ UNCHANGED <<nkind, noise, msgs, handler, dups>>
      /\ events' = events \/ (events > 0 /\ events' = events - 1)
  BY DEF ConsumeEvent, LoadUnasked, notifyVars
<1>2. /\ LoadsInv' /\ UNCHANGED <<okind, over, loaded>> /\ Begun(2)
      /\ \A k \in Loaders \ {2} : oload'[k] = oload[k]
  BY <1>1, BeginStep, MessageFacts DEF NotifyInv, Begun
<1>3. /\ events' \in 0 .. EventCap /\ dups' \in 0 .. MaxDups
      /\ msgs' \in [Messages -> {"none", "queued", "flight", "gone"}]
  BY <1>1, Kept, MessageFacts
<1>4. LoadsMove
  BY <1>1, <1>2, Kept DEF LoadsMove
<1> QED  BY <1>1, <1>2, <1>3, <1>4, MessagesStep

\* A caller inside Load goes on, a wait is given up, or a poll falls due.
LEMMA LoadingStep ==
  ASSUME NotifyInv, UNCHANGED notifyVars,
         AppPollDue \/ \E l \in Loaders : LoadSteps(l) \/ ObjGivesUp(l)
  PROVE  NotifyInv'
<1>0. /\ UNCHANGED <<nkind, noise, msgs, handler, events, dups>>
      /\ events' \in 0 .. EventCap /\ dups' \in 0 .. MaxDups /\ events' \in Nat /\ events' >= events
      /\ msgs' \in [Messages -> {"none", "queued", "flight", "gone"}]
      /\ over \in Nat /\ loaded \in Nat
  BY Kept DEF notifyVars
<1>1. CASE AppPollDue
  <2>1. LoadsInv'
    BY <1>1, Kept, LoadsFrame DEF AppPollDue, NotifyInv
  <2>2. LoadsMove
    BY <1>0, <1>1 DEF AppPollDue, LoadsMove
  <2> QED  BY <1>0, <2>1, <2>2, MessagesStep
<1>2. CASE \E l \in Loaders : LoadSteps(l) \/ ObjGivesUp(l)
  <2>1. PICK l \in Loaders : LoadSteps(l) \/ ObjGivesUp(l)
    BY <1>2
  <2>2. LoadsInv' /\ (Moved(l) \/ UNCHANGED <<okind, over, oload, loaded>>)
    BY <2>1, LoadsStep DEF NotifyInv
  <2>3. LoadsMove
    BY <1>0, <2>2 DEF LoadsMove, Moved
  <2> QED  BY <1>0, <2>2, <2>3, MessagesStep
<1> QED  BY <1>1, <1>2

\* Every step preserves the invariant.
LEMMA InvNext == NotifyInv /\ [NotifyNext]_deliveryVars => NotifyInv'
<1> SUFFICES ASSUME NotifyInv, [NotifyNext]_deliveryVars PROVE NotifyInv'
  OBVIOUS
<1>1. CASE UNCHANGED deliveryVars
  <2>1. UNCHANGED <<objVars, nkind, noise, msgs, handler, events, dups>>
    BY <1>1 DEF deliveryVars, notifyVars
  <2>2. LoadsInv' /\ LoadsMove
    BY <2>1, StillAll
  <2>3. /\ events' \in 0 .. EventCap /\ dups' \in 0 .. MaxDups
        /\ msgs' \in [Messages -> {"none", "queued", "flight", "gone"}]
    BY <2>1, Kept
  <2> QED  BY <2>1, <2>2, <2>3, MessagesStep
<1>2. CASE Announce \/ LoadUnasked \/ ConsumeEvent
  BY <1>2, AnnounceStep, UnaskedStep
<1>3. CASE AppPollDue /\ UNCHANGED notifyVars
  BY <1>3, LoadingStep
<1>4. CASE \E m \in Messages : Duplicate(m) \/ Redeliver(m)
  BY <1>4, AgainStep
<1>5. CASE \E h \in Handlers : Handles(h) \/ RunEnds(h)
  <2>1. PICK h \in Loaders : Handles(h) \/ RunEnds(h)
    BY <1>5, MessageFacts
  <2>2. CASE \E m \in Messages : ReceiveMessage(h, m)
    BY <2>2, DeliverStep
  <2>3. CASE MatchNoise(h) \/ StartRefresh(h) \/ EndRefresh(h)
    BY <2>3, MatchNoiseStep, StartRefreshStep, EndRefreshStep
  <2>4. CASE Settle(h) \/ Ack(h)
    BY <2>4, SettlesStep DEF Settle, Ack
  <2>5. CASE Refuse(h) \/ SkipNoise(h) \/ RunEnds(h) \/ Emit(h)
    BY <2>5, DropsStep, EmitStep
  <2> QED  BY <2>1, <2>2, <2>3, <2>4, <2>5 DEF Handles
<1>6. CASE \E l \in Loaders : LoadRuns(l) \/ (ObjGivesUp(l) /\ UNCHANGED notifyVars)
  BY <1>6, LoadingStep DEF LoadRuns
<1> QED  BY <1>1, <1>2, <1>3, <1>4, <1>5, <1>6 DEF NotifyNext

\* Nothing is loaded and nothing has been announced at first.
LEMMA NotifyInvInit == NotifyInit => NotifyInv
<1> SUFFICES ASSUME NotifyInit PROVE NotifyInv
  OBVIOUS
<1>1. /\ over = 1 /\ obad = {} /\ ofails = 0 /\ gate = 0 /\ loaded = 0 /\ cache = EmptyCache
      /\ oload = [l \in Loaders |-> IdleLoad] /\ app = NoSession
  BY DEF NotifyInit, ObjInit, OpenGate
<1>2. PICK pair \in {<<"sns", "s3">>, <<"sns", "appconfig">>, <<"s3events", "s3">>,
                     <<"azservicebus", "azblob">>, <<"pubsub", "gcs">>} :
        nkind = pair[1] /\ okind = pair[2]
  BY DEF NotifyInit
<1>3. /\ noise \in {"other", "malformed"} /\ events = 0 /\ dups = 0
      /\ msgs = [m \in Messages |-> IF m = 0 THEN "queued" ELSE "none"]
      /\ handler = [h \in Loaders |-> Free]
  BY DEF NotifyInit
<1>4. /\ nkind \in {"sns", "azservicebus", "pubsub", "s3events"}
      /\ okind \in {"s3", "azblob", "gcs", "appconfig"}
  BY <1>2
<1>5. IdleLoad \in LoadTypes /\ IdleLoad.pc = "idle" /\ IdleLoad.since = 0 /\ IdleLoad.cond = 0
  BY VersionFacts, Flags DEF IdleLoad, LoadTypes
<1>6. /\ NoSession \in AppTypes /\ NoSession.twice = 0 /\ NoSession.token = 0
      /\ NoSession.seen = 0
  BY VersionFacts, Flags DEF NoSession, AppTypes
<1>7. EmptyCache \in CacheTypes /\ EmptyCache.doc = 0 /\ EmptyCache.rev = 0
  BY VersionFacts DEF EmptyCache, CacheTypes
<1>8. LoadsInv
  <2>1. StoreTyped
    BY <1>1, <1>4, VersionFacts DEF StoreTyped
  <2>2. LoadTyped
    BY <1>1, <1>5, <1>6, <1>7, VersionFacts, Flags DEF LoadTyped
  <2>3. GateInv /\ CacheInv /\ AppInv
    BY <1>1, <1>5, <1>6, <1>7 DEF GateInv, CacheInv, AppInv, Inside
  <2>4. \A l \in Loaders : LoadOK(l)
    BY <1>1, <1>5 DEF LoadOK
  <2> QED  BY <2>1, <2>2, <2>3, <2>4 DEF LoadsInv
<1>9. MessagesInv
  <2>1. Free \in HandlerTypes /\ Free.pc = "idle" /\ Free.msg = 0
    BY VersionFacts, MessageFacts DEF Free, HandlerTypes
  <2>2. NotifyTyped
    BY <1>3, <1>4, <2>1, MessageFacts DEF NotifyTyped
  <2>3. \A m \in Messages : MessageOK(m)
    BY <1>1, <1>3 DEF MessageOK
  <2>4. \A h \in Loaders : HandlerOK(h)
    BY <1>1, <1>3, <2>1 DEF HandlerOK
  <2> QED  BY <2>2, <2>3, <2>4 DEF MessagesInv
<1> QED  BY <1>8, <1>9 DEF NotifyInv

\* The invariant always holds.
LEMMA Invariance == NotifySpec => []NotifyInv
BY NotifyInvInit, InvNext, PTL DEF NotifySpec

-----------------------------------------------------------------------------
(* The theorems.                                                           *)

\* Overlapping loads of one object stay coherent: content and revision belong together,
\* nothing older than the call is returned, and no one-time token is sent twice.
THEOREM LoadsStayCoherent == NotifySpec => []LoadsCoherent
<1>1. NotifyInv => LoadsCoherent
  <2> SUFFICES ASSUME NotifyInv PROVE LoadsCoherent
    OBVIOUS
  <2>0. /\ StoreTyped /\ LoadTyped /\ GateInv /\ CacheInv /\ AppInv /\ NotifyTyped
        /\ \A l \in Loaders : LoadOK(l)
    BY DEF NotifyInv, LoadsInv, MessagesInv
  <2>1. NotifyTypeOK
    <3>1. \A l \in Loaders : oload[l].pc \in {"idle", "wait", "ask", "sent", "read", "got"}
      BY <2>0, LoadFields DEF LoadTyped, Inside
    <3>2. \A h \in Loaders : handler[h].pc \in {"idle", "match", "refresh", "settle", "refuse"}
      BY <2>0 DEF NotifyTyped, HandlerTypes
    <3>3. gate # 0 => oload[gate].pc \in {"ask", "sent", "read", "got"}
      BY <2>0 DEF GateInv, Inside
    <3>4. /\ cache \in [doc : 0 .. MaxObj, rev : 0 .. MaxObj] /\ loaded \in 0 .. MaxObj
          /\ over \in 1 .. MaxObj /\ obad \subseteq 2 .. MaxObj
          /\ ofails \in 0 .. MaxObjFails /\ dups \in 0 .. MaxDups /\ events \in 0 .. EventCap
      BY <2>0 DEF LoadTyped, StoreTyped, NotifyTyped, CacheTypes, Versions
    <3> QED  BY <3>1, <3>2, <3>3, <3>4 DEF NotifyTypeOK
  <2>2. RevisionPaired
    BY <2>0 DEF RevisionPaired, CacheInv, LoadOK
  <2>3. LoadFresh
    BY <2>0 DEF LoadFresh, LoadOK
  <2>4. TokenOnce
    BY <2>0 DEF TokenOnce, AppInv
  <2> QED  BY <2>1, <2>2, <2>3, <2>4 DEF LoadsCoherent
<1> QED  BY <1>1, Invariance, PTL

\* A message is settled only after its version, or a later one, was loaded; s3events has
\* still to ask for it or its load failed; appconfig may answer from its cache.
THEOREM SettledMessagesAreLoaded == NotifySpec => []SettledIsLoaded
<1>1. NotifyInv => SettledIsLoaded
  <2> SUFFICES ASSUME NotifyInv, NEW v \in 2 .. MaxObj, msgs[v] = "gone"
               PROVE  \/ loaded >= v \/ okind = "appconfig"
                      \/ nkind = "s3events" /\ (events > 0 \/ oload[2].pc # "idle" \/ oload[2].out = 0)
    BY DEF SettledIsLoaded
  <2>1. v \in Messages /\ v # 0
    BY VersionFacts DEF Messages
  <2>2. Done(v)
    BY <2>1 DEF NotifyInv, MessagesInv, MessageOK
  <2> QED  BY <2>2 DEF Done
<1> QED  BY <1>1, Invariance, PTL

\* appconfig returns the last content it was sent or an error: content that does not
\* decode stays an error while the service has nothing newer.
THEOREM RejectedContentStays == NotifySpec => RejectedStays
<1> DEFINE Stays == okind = "appconfig" =>
                      \A l \in Loaders : oload[l].pc # "idle" /\ oload'[l].out = 1 =>
                        cache'.doc = app'.seen
<1>1. NotifyInv /\ NotifyInv' /\ [NotifyNext]_deliveryVars => [Stays]_objVars
  <2> SUFFICES ASSUME NotifyInv, NotifyInv', [NotifyNext]_deliveryVars, okind = "appconfig",
                      NEW l \in Loaders, oload[l].pc # "idle", oload'[l].out = 1,
                      ~UNCHANGED objVars
               PROVE  cache'.doc = app'.seen
    OBVIOUS
  <2>1. oload[l].out = 0 /\ oload'[l] # oload[l]
    BY DEF NotifyInv, LoadsInv, LoadOK
  <2>2. ASSUME NEW k \in Loaders, ObjBegin(k) PROVE FALSE
    <3>1. oload[k].pc = "idle" /\ \A j \in Loaders \ {k} : oload'[j] = oload[j]
      BY <2>2, BeginStep DEF NotifyInv
    <3> QED  BY <2>1, <3>1
  <2>3. PICK k \in Loaders : LoadSteps(k) \/ ObjGivesUp(k)
    <3>1. Announce => oload' = oload
      BY DEF Announce, ObjChanges
    <3>2. AppPollDue => oload' = oload
      BY DEF AppPollDue
    <3>3. \A m \in Messages : Duplicate(m) \/ Redeliver(m) => oload' = oload
      BY DEF Duplicate, Redeliver, objVars
    <3>4. \A h \in Loaders : Handles(h) \/ RunEnds(h) => oload' = oload \/ ObjBegin(h)
      BY DEF Handles, RunEnds, ReceiveMessage, RunReceives, PollReceives, Deliver, MatchNoise,
             StartRefresh, EndRefresh, Settle, Settles, Ack, Refuse, SkipNoise, Emit, objVars
    <3>5. LoadUnasked \/ ConsumeEvent => ObjBegin(2)
      BY DEF LoadUnasked, ConsumeEvent
    <3>6. UNCHANGED deliveryVars => oload' = oload
      BY DEF deliveryVars, objVars
    <3> QED  BY <2>1, <2>2, <3>1, <3>2, <3>3, <3>4, <3>5, <3>6, MessageFacts
             DEF NotifyNext, LoadRuns
  <2>4. Moved(k)
    BY <2>1, <2>3, LoadsStep DEF NotifyInv
  <2>5. k = l /\ app'.err = 0 /\ okind' = "appconfig"
    BY <2>1, <2>4 DEF Moved
  <2> QED  BY <2>5 DEF NotifyInv, LoadsInv, AppInv
<1> QED  BY <1>1, Invariance, PTL DEF NotifySpec, RejectedStays

-----------------------------------------------------------------------------
(***************************************************************************)
(* Together.                                                               *)
(***************************************************************************)

\* Each part takes its own steps or none.
LEMMA PartsMove == Spec => NotifySpec /\ PathSpec /\ ObserverSpec
<1>1. Init => NotifyInit /\ PathInit /\ ObserverInit
  BY DEF Init
<1>2. [Next]_vars => [NotifyNext]_deliveryVars
  BY DEF Next, vars
<1>3. [Next]_vars => [PathNext]_pathVars
  BY DEF Next, vars
<1>4. [Next]_vars => [ObserverNext]_observerVars
  BY DEF Next, vars
<1> QED
  BY <1>1, <1>2, <1>3, <1>4, PTL DEF Spec, NotifySpec, PathSpec, ObserverSpec

\* The specification that the model checker runs has all of these properties, for all
\* values of its constants.
THEOREM DeliverySafe ==
  Spec => /\ []LoadsCoherent /\ []SettledIsLoaded /\ RejectedStays
          /\ []WatchesFollow /\ []EventsAccounted
BY PartsMove, LoadsStayCoherent, SettledMessagesAreLoaded, RejectedContentStays, WatchesFollowDirs,
   ObserversAccount, PTL
=============================================================================
