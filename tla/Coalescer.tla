------------------------------ MODULE Coalescer ------------------------------
(***************************************************************************)
(* The coalescer (internal/coalesce): one burst of events per key, flushed *)
(* by its timer when the key falls quiet, or by the Push that finds its    *)
(* deadline passed.  Push and flush take c.mu for their whole critical     *)
(* section and call fn after unlocking.  A timer may fire late, its flush  *)
(* may wait for the lock, and fn may take any time.                        *)
(***************************************************************************)
EXTENDS Integers, FiniteSets

CONSTANTS Keys, Pushers,                     \* directories, calling goroutines
          Quiet, MaxLag, SwapHint,           \* Options; 0 selects the default
          DefaultQuiet, DefaultMaxLag, DefaultSwapHint,
          MaxDrift,                          \* how long Push may hold c.mu
          MaxEvents, MaxTime                 \* bounds: Push calls, clock

ASSUME OptionsAssumption ==
  /\ Quiet \in Nat /\ MaxLag \in Nat /\ SwapHint \in Nat
  /\ DefaultQuiet \in Nat \ {0} /\ DefaultMaxLag \in Nat \ {0}
  /\ DefaultSwapHint \in Nat \ {0}
  /\ MaxDrift \in Nat /\ MaxEvents \in Nat /\ MaxTime \in Nat

Least(a, b) == IF a <= b THEN a ELSE b

\* Options.normalize.
OrDefault(o, default) == IF o = 0 THEN default ELSE o
QuietWindow == OrDefault(Quiet, DefaultQuiet)
LagWindow   == OrDefault(MaxLag, DefaultMaxLag)
SwapWindow  == Least(OrDefault(SwapHint, DefaultSwapHint), QuietWindow)

Window(swap) == IF swap = 1 THEN SwapWindow ELSE QuietWindow

\* A burst is named by the event that began it.
Events == 1 .. MaxEvents

VARIABLES
  now,       \* the clock
  last,      \* the number of Push calls so far; the last one's event
  key,       \* Events -> the key it was pushed for, "none" at first
  bursts,    \* c.bursts: Keys -> the pending burst, 0 for none
  deadline,  \* Events -> burst.deadline
  reasons,   \* Events -> the events of the burst
  swapSeen,  \* the bursts that have seen a swap commit
  armed,     \* the bursts whose timer is running
  expiry,    \* Events -> when it expires
  fired,     \* Events -> flush goroutines that wait for the lock
  calls,     \* calls of fn in progress: [by, key, events]
  delivered, \* the events whose fn call has returned
  dropped,   \* the events Stop disarmed or Push ignored
  stopped,   \* c.stopped, 0 or 1
  brief      \* bursts that were flushed before a full window

timerVars == <<armed, expiry, fired>>
burstVars == <<bursts, deadline, reasons, swapSeen>>
eventVars == <<last, key>>
fnVars == <<calls, delivered>>
vars == <<now, eventVars, burstVars, timerVars, fnVars, dropped, stopped, brief>>

Busy == {c.by : c \in calls}

Init ==
  /\ now = 0 /\ last = 0
  /\ key = [e \in Events |-> "none"]
  /\ bursts = [k \in Keys |-> 0]
  /\ deadline = [e \in Events |-> 0]
  /\ reasons = [e \in Events |-> {}] /\ swapSeen = {}
  /\ armed = {} /\ expiry = [e \in Events |-> 0] /\ fired = [e \in Events |-> 0]
  /\ calls = {} /\ delivered = {} /\ dropped = {} /\ stopped = 0 /\ brief = {}

-----------------------------------------------------------------------------

\* The clock advances.
Tick ==
  /\ now < MaxTime /\ now' = now + 1
  /\ UNCHANGED <<eventVars, burstVars, timerVars, fnVars, dropped, stopped, brief>>

\* A running timer that has expired starts its flush goroutine.
Fire(b) ==
  /\ b \in armed /\ expiry[b] <= now
  /\ armed' = armed \ {b} /\ fired' = [fired EXCEPT ![b] = @ + 1]
  /\ UNCHANGED <<now, eventVars, burstVars, expiry, fnVars, dropped, stopped, brief>>

\* Push reads the clock at its start, to compare it with the deadline.
Expired(k) == bursts[k] # 0 /\ now >= deadline[bursts[k]]

\* A Push after Stop.
PushStopped ==
  /\ stopped = 1
  /\ dropped' = dropped \cup {last'}
  /\ UNCHANGED <<burstVars, timerVars, fnVars>>

\* Mistake: the burst that replaces an expired one gets no timer of its own.
BeginBurstUnarmed(e, k, swap, at, p) ==
  /\ bursts' = [bursts EXCEPT ![k] = e]
  /\ deadline' = [deadline EXCEPT ![e] = now + LagWindow]
  /\ reasons' = [reasons EXCEPT ![e] = {e}]
  /\ swapSeen' = IF swap = 1 THEN swapSeen \cup {e} ELSE swapSeen
  /\ expiry' = [expiry EXCEPT ![e] = at + Least(Window(swap), LagWindow)]
  /\ armed' = IF Expired(k) THEN armed ELSE armed \cup {e}
  /\ calls' = IF Expired(k)
                THEN calls \cup {[by |-> p, key |-> k,
                                  events |-> reasons[bursts[k]]]}
                ELSE calls

\* The first event of a burst.  A burst past its deadline is replaced; its timer
\* is stopped and the pusher will call fn for it after unlocking.
BeginBurst(e, k, swap, at, p) ==
  /\ bursts' = [bursts EXCEPT ![k] = e]
  /\ deadline' = [deadline EXCEPT ![e] = now + LagWindow]
  /\ reasons' = [reasons EXCEPT ![e] = {e}]
  /\ swapSeen' = IF swap = 1 THEN swapSeen \cup {e} ELSE swapSeen
  /\ expiry' = [expiry EXCEPT ![e] = at + Least(Window(swap), LagWindow)]
  /\ armed' = (armed \ {bursts[k]}) \cup {e}
  /\ calls' = IF Expired(k)
                THEN calls \cup {[by |-> p, key |-> k,
                                  events |-> reasons[bursts[k]]]}
                ELSE calls

\* Mistake: the window is not cut at the deadline.
RearmUncut(b, swap, at) ==
  IF swap = 1 \/ b \notin swapSeen
    THEN /\ armed' = armed \cup {b}
         /\ expiry' = [expiry EXCEPT ![b] = at + Window(swap)]
    ELSE UNCHANGED <<armed, expiry>>

\* The timer of burst b is set again, to a window cut at the deadline as seen by
\* a second reading of the clock.  A burst that has seen a swap is not extended
\* by other events, and a window that has become empty is not set.
Rearm(b, swap, at) ==
  IF swap = 1 \/ (b \notin swapSeen /\ at < deadline[b])
    THEN /\ armed' = armed \cup {b}
         /\ expiry' = [expiry EXCEPT ![b] = IF deadline[b] <= at THEN at
                         ELSE Least(at + Window(swap), deadline[b])]
    ELSE UNCHANGED <<armed, expiry>>

\* Mistake: the reason is not recorded once the swap window is running.
ExtendBurstDeaf(e, b, swap, at) ==
  /\ reasons' = IF b \in swapSeen THEN reasons
                                 ELSE [reasons EXCEPT ![b] = @ \cup {e}]
  /\ swapSeen' = IF swap = 1 THEN swapSeen \cup {b} ELSE swapSeen
  /\ Rearm(b, swap, at)
  /\ UNCHANGED <<bursts, deadline, calls>>

\* A further event of the pending burst b.
ExtendBurst(e, b, swap, at) ==
  /\ reasons' = [reasons EXCEPT ![b] = @ \cup {e}]
  /\ swapSeen' = IF swap = 1 THEN swapSeen \cup {b} ELSE swapSeen
  /\ Rearm(b, swap, at)
  /\ UNCHANGED <<bursts, deadline, calls>>

\* Push(key, reason, swapCommit) by goroutine p.  The clock may advance by
\* "drift" inside the critical section.
Push(p, k, swap, drift) ==
  /\ p \notin Busy /\ last < MaxEvents /\ now + LagWindow + drift < MaxTime
  /\ last' = last + 1
  /\ key' = [key EXCEPT ![last + 1] = k]
  /\ now' = now + drift
  /\ \/ PushStopped
     \/ /\ stopped = 0
        /\ \/ /\ bursts[k] = 0 \/ Expired(k)
              /\ BeginBurst(last + 1, k, swap, now + drift, p)
           \/ /\ bursts[k] # 0 /\ ~Expired(k)
              /\ ExtendBurst(last + 1, bursts[k], swap, now + drift)
        /\ UNCHANGED <<fired, delivered, dropped>>
  /\ UNCHANGED <<stopped, brief>>

\* Mistake: a flush takes whatever burst the key has by now.
MayFlushAny(b) == stopped = 0 /\ bursts[key[b]] # 0

\* A flush goes on only for the burst its timer belongs to.
MayFlush(b) == stopped = 0 /\ bursts[key[b]] = b

\* Mistake: a flush that runs before the timer has fired.
FlushUnfired(b) ==
  /\ b \in armed /\ fired' = [fired EXCEPT ![b] = @ - 1]
  /\ MayFlush(b)
  /\ bursts' = [bursts EXCEPT ![key[b]] = 0]
  /\ calls' = calls \cup {[by |-> "timer", key |-> key[b], events |-> reasons[b]]}
  /\ UNCHANGED <<now, eventVars, deadline, reasons, swapSeen, armed, expiry,
                 delivered, dropped, stopped, brief>>

\* A waiting flush goroutine gets the lock.
Flush(b) ==
  /\ fired[b] > 0 /\ fired' = [fired EXCEPT ![b] = @ - 1]
  /\ \/ /\ ~MayFlush(b)
        /\ UNCHANGED <<bursts, calls, brief>>
     \/ /\ MayFlush(b)
        /\ LET taken == bursts[key[b]] IN
             /\ bursts' = [bursts EXCEPT ![key[b]] = 0]
             /\ calls' = calls \cup {[by |-> "timer", key |-> key[b],
                                      events |-> reasons[taken]]}
             /\ brief' = IF now < deadline[taken] - LagWindow + Least(LagWindow,
                                IF taken \in swapSeen THEN SwapWindow
                                                      ELSE QuietWindow)
                           THEN brief \cup {taken} ELSE brief
  /\ UNCHANGED <<now, eventVars, deadline, reasons, swapSeen, armed, expiry,
                 delivered, dropped, stopped>>

\* A call of fn returns.
Return(c) ==
  /\ calls' = calls \ {c} /\ delivered' = delivered \cup c.events
  /\ UNCHANGED <<now, eventVars, burstVars, timerVars, dropped, stopped, brief>>

Pending == {e \in Events : \E k \in Keys : bursts[k] # 0 /\ e \in reasons[bursts[k]]}

\* Stop disarms the pending bursts and drops their reasons.
Stop ==
  /\ stopped = 0 /\ stopped' = 1
  /\ armed' = armed \ {bursts[k] : k \in Keys}
  /\ bursts' = [k \in Keys |-> 0]
  /\ dropped' = dropped \cup Pending
  /\ UNCHANGED <<now, eventVars, deadline, reasons, swapSeen, expiry, fired,
                 fnVars, brief>>

\* The clock has reached its bound.
Halt == now = MaxTime /\ UNCHANGED vars

Timers == \E b \in Events : Fire(b) \/ Flush(b)
Returns == \E c \in calls : Return(c)

Next ==
  \/ Tick \/ Timers \/ Returns \/ Stop \/ Halt
  \/ \E p \in Pushers, k \in Keys, swap \in 0 .. 1, drift \in 0 .. MaxDrift :
       Push(p, k, swap, drift)

Spec == Init /\ [][Next]_vars

\* Time passes, timers fire, goroutines get the lock and fn returns.
FairSpec == Spec /\ WF_vars(Tick) /\ WF_vars(Timers) /\ WF_vars(Returns)

-----------------------------------------------------------------------------

\* Every variable has its type.
TypeOK ==
  /\ now \in Nat /\ last \in 0 .. MaxEvents
  /\ key \in [Events -> Keys \cup {"none"}]
  /\ bursts \in [Keys -> 0 .. last]
  /\ deadline \in [Events -> Nat]
  /\ reasons \in [Events -> SUBSET (1 .. last)]
  /\ swapSeen \subseteq Events /\ armed \subseteq Events
  /\ expiry \in [Events -> Nat] /\ fired \in [Events -> Nat]
  /\ calls \subseteq [by : Pushers \cup {"timer"}, key : Keys, events : SUBSET Events]
  /\ delivered \subseteq Events /\ dropped \subseteq Events
  /\ stopped \in 0 .. 1 /\ brief \subseteq Events

Calling == UNION {c.events : c \in calls}

\* No event is lost and none is reported twice: each one is in the burst of its
\* own key, in one call of fn for its key, delivered, or dropped by Stop.
ExactlyOnce ==
  /\ 1 .. last = Pending \cup Calling \cup delivered \cup dropped
  /\ Pending \cap (Calling \cup delivered \cup dropped) = {}
  /\ Calling \cap (delivered \cup dropped) = {} /\ delivered \cap dropped = {}
  /\ \A c \in calls : \A e \in c.events : key[e] = c.key
  /\ \A c, d \in calls : c # d => c.events \cap d.events = {}

\* A pending burst always has a running timer or a flush on its way, and the
\* timer is never set past the burst's deadline by more than Push took.
DeadlineKept ==
  \A k \in Keys : bursts[k] # 0 =>
    LET b == bursts[k] IN
      /\ b \in armed \/ fired[b] > 0
      /\ b \in armed => expiry[b] <= deadline[b] + MaxDrift

\* A timer that outlives its burst does not cut the next burst of the key short:
\* a burst flushed by a timer has lasted a whole window.
NotCutShort == brief = {}

\* Events are eventually reported, unless the coalescer is stopped.
EventsReported ==
  \A e \in Events : last = e /\ stopped = 0 ~> e \in delivered \/ stopped = 1

\* "Push is concurrent-safe and never waits for fn."
PushNeverWaits == Busy \cap Pushers = {}

\* Every event is reported exactly once, within the deadline of its burst and not before
\* its window is over (Push, flush and Stop together).
ReportedOnceInTime == TypeOK /\ ExactlyOnce /\ DeadlineKept /\ NotCutShort
=============================================================================
