--------------------------- MODULE CoalescerProofs ---------------------------
(***************************************************************************)
(* Proofs about Coalescer, for any keys, pushers, windows and bounds.      *)
(***************************************************************************)
EXTENDS Coalescer, TLAPS

-----------------------------------------------------------------------------
(* The windows.                                                            *)

\* normalize leaves positive windows, the swap window within the quiet one.
LEMMA Windows ==
  /\ QuietWindow \in Nat \ {0} /\ LagWindow \in Nat \ {0} /\ SwapWindow \in Nat \ {0}
  /\ SwapWindow <= QuietWindow
BY OptionsAssumption DEF QuietWindow, LagWindow, SwapWindow, OrDefault, Least

\* The windows cut at the deadline, after a swap and without one.
SwapSpan == Least(LagWindow, SwapWindow)
QuietSpan == Least(LagWindow, QuietWindow)
Span(b) == IF b \in swapSeen THEN SwapSpan ELSE QuietSpan

\* A swap makes the window shorter, if it changes it at all.
LEMMA Spans ==
  /\ SwapSpan \in Nat /\ QuietSpan \in Nat /\ SwapSpan <= QuietSpan
  /\ SwapSpan <= LagWindow /\ QuietSpan <= LagWindow
  /\ SwapSpan <= SwapWindow /\ QuietSpan <= QuietWindow
BY Windows DEF SwapSpan, QuietSpan, Least

\* The first timer of a burst is set to a whole window.
LEMMA FirstSpan ==
  ASSUME NEW swap \in 0 .. 1
  PROVE  Least(Window(swap), LagWindow) = IF swap = 1 THEN SwapSpan ELSE QuietSpan
BY Windows DEF SwapSpan, QuietSpan, Least, Window

-----------------------------------------------------------------------------
(* The inductive invariant.                                                *)

ClockTyped ==
  /\ now \in Nat /\ deadline \in [Events -> Nat]
  /\ expiry \in [Events -> Nat] /\ fired \in [Events -> Nat]
  /\ swapSeen \subseteq Events /\ armed \subseteq Events

EventTyped ==
  /\ last \in 0 .. MaxEvents
  /\ key \in [Events -> Keys \cup {"none"}]
  /\ bursts \in [Keys -> 0 .. last]
  /\ reasons \in [Events -> SUBSET (1 .. last)]
  /\ stopped \in 0 .. 1

CallTyped ==
  /\ calls \subseteq [by : Pushers \cup {"timer"}, key : Keys, events : SUBSET Events]
  /\ delivered \subseteq Events /\ dropped \subseteq Events

Typed == ClockTyped /\ EventTyped /\ CallTyped

\* Every burst and its events belong to the key that holds it; Stop leaves none.
Sorted ==
  /\ \A k \in Keys : bursts[k] # 0 =>
       key[bursts[k]] = k /\ \A e \in reasons[bursts[k]] : key[e] = k
  /\ \A e \in 1 .. last : key[e] \in Keys
  /\ stopped = 1 => \A k \in Keys : bursts[k] = 0

\* Events still to come have neither timer nor flush.
Fresh ==
  \A e \in Events : e > last =>
    deadline[e] = 0 /\ fired[e] = 0 /\ e \notin armed /\ e \notin swapSeen

\* No timer expires, and no flush waits, before the window of its burst is over.
Timed ==
  \A b \in Events :
    /\ deadline[b] - LagWindow <= now
    /\ b \in armed => expiry[b] >= deadline[b] - LagWindow + Span(b)
    /\ fired[b] > 0 => now >= deadline[b] - LagWindow + Span(b)

Inv == Typed /\ Sorted /\ Fresh /\ Timed /\ DeadlineKept /\ ExactlyOnce /\ NotCutShort

\* What the clock, the timers and the events are.
LEMMA TypeFacts ==
  ASSUME Typed
  PROVE  /\ now \in Nat /\ last \in Nat /\ last <= MaxEvents /\ MaxEvents \in Nat
         /\ \A e \in Events : /\ e \in Nat /\ e > 0 /\ e <= MaxEvents
                              /\ deadline[e] \in Nat /\ expiry[e] \in Nat
                              /\ fired[e] \in Nat
         /\ \A k \in Keys : /\ bursts[k] \in Nat /\ bursts[k] <= last
                            /\ bursts[k] # 0 => bursts[k] \in Events
         /\ \A e \in Events : reasons[e] \subseteq Events
         /\ \A e \in Events : \A x \in reasons[e] : x <= last
BY OptionsAssumption DEF Typed, ClockTyped, EventTyped, Events

\* A further call of fn.
LEMMA CallsGrow ==
  ASSUME NEW c, calls' = calls \cup {c}
  PROVE  Calling' = Calling \cup c.events
BY DEF Calling

\* A step of the clock, a timer or a call of fn leaves the bursts alone.
LEMMA TickStep == Inv /\ Tick => Inv'
<1> SUFFICES ASSUME Inv, Tick PROVE Inv'
  OBVIOUS
<1> USE DEF eventVars, burstVars, timerVars, fnVars
<1>1. UNCHANGED <<eventVars, burstVars, timerVars, fnVars, dropped, stopped, brief>>
      /\ now' = now + 1
  BY DEF Tick
<1>2. Typed'
  BY <1>1 DEF Inv, Typed, ClockTyped, EventTyped, CallTyped
<1>3. Sorted' /\ Fresh' /\ DeadlineKept' /\ NotCutShort'
  BY <1>1 DEF Inv, Sorted, Fresh, DeadlineKept, NotCutShort
<1>4. Timed'
  BY <1>1, TypeFacts, Windows, Spans DEF Inv, Timed, Span
<1>5. ExactlyOnce'
  BY <1>1 DEF Inv, ExactlyOnce, Pending, Calling
<1> QED  BY <1>2, <1>3, <1>4, <1>5 DEF Inv

\* A timer fires no earlier than it was set to.
LEMMA FireStep ==
  ASSUME Inv, NEW b \in Events, Fire(b)
  PROVE  Inv'
<1> USE DEF eventVars, burstVars, timerVars, fnVars
<1>0. Typed /\ Sorted /\ Fresh /\ Timed /\ DeadlineKept /\ ExactlyOnce /\ NotCutShort
  BY DEF Inv
<1>1. /\ UNCHANGED <<now, eventVars, burstVars, expiry, fnVars, dropped, stopped, brief>>
      /\ b \in armed /\ expiry[b] <= now /\ armed' = armed \ {b}
      /\ fired' = [fired EXCEPT ![b] = @ + 1]
  BY DEF Fire
<1>2. /\ fired'[b] = fired[b] + 1 /\ fired' \in [Events -> Nat]
      /\ \A e \in Events \ {b} : fired'[e] = fired[e]
  BY <1>0, <1>1 DEF Typed, ClockTyped
<1>3. Typed'
  BY <1>0, <1>1, <1>2 DEF Typed, ClockTyped, EventTyped, CallTyped
<1>4. Sorted' /\ NotCutShort'
  BY <1>0, <1>1 DEF Sorted, NotCutShort
<1>5. Fresh'
  BY <1>0, <1>1, <1>2 DEF Fresh
<1>6. DeadlineKept'
  BY <1>0, <1>1, <1>2, TypeFacts DEF DeadlineKept
<1>7. Timed'
  <2> SUFFICES ASSUME NEW e \in Events
               PROVE  /\ deadline[e] - LagWindow <= now
                      /\ e \in armed' => expiry[e] >= deadline[e] - LagWindow + Span(e)
                      /\ fired'[e] > 0 => now >= deadline[e] - LagWindow + Span(e)
    BY <1>1 DEF Timed, Span
  <2>1. /\ deadline[e] - LagWindow <= now
        /\ e \in armed => expiry[e] >= deadline[e] - LagWindow + Span(e)
        /\ fired[e] > 0 => now >= deadline[e] - LagWindow + Span(e)
    BY <1>0 DEF Timed
  <2>2. /\ now \in Nat /\ deadline[e] \in Nat /\ expiry[e] \in Nat
        /\ LagWindow \in Nat /\ Span(e) \in Nat
    BY <1>0, TypeFacts, Windows, Spans DEF Span
  <2> QED  BY <1>1, <1>2, <2>1, <2>2
<1>8. ExactlyOnce'
  BY <1>0, <1>1 DEF ExactlyOnce, Pending, Calling
<1> QED  BY <1>3, <1>4, <1>5, <1>6, <1>7, <1>8 DEF Inv

\* A call of fn that returns hands over its events.
LEMMA ReturnStep ==
  ASSUME Inv, NEW c \in calls, Return(c)
  PROVE  Inv'
<1> USE DEF eventVars, burstVars, timerVars, fnVars
<1>0. Typed /\ Sorted /\ Fresh /\ Timed /\ DeadlineKept /\ ExactlyOnce /\ NotCutShort
  BY DEF Inv
<1>1. /\ UNCHANGED <<now, eventVars, burstVars, timerVars, dropped, stopped, brief>>
      /\ calls' = calls \ {c} /\ delivered' = delivered \cup c.events
  BY DEF Return
<1>2. Typed'
  <2>1. c.events \subseteq Events
    BY <1>0 DEF Typed, CallTyped
  <2> QED  BY <1>0, <1>1, <2>1 DEF Typed, ClockTyped, EventTyped, CallTyped
<1>3. Sorted' /\ Fresh' /\ DeadlineKept' /\ NotCutShort' /\ Timed'
  BY <1>0, <1>1 DEF Sorted, Fresh, DeadlineKept, NotCutShort, Timed, Span
<1>4. ExactlyOnce'
  <2>1. Pending' = Pending
    BY <1>1 DEF Pending
  <2>2. Calling' = Calling \ c.events
    BY <1>0, <1>1 DEF Calling, ExactlyOnce
  <2>3. c.events \subseteq Calling
    BY DEF Calling
  <2>4. /\ 1 .. last = Pending \cup Calling' \cup delivered' \cup dropped
        /\ Pending \cap (Calling' \cup delivered' \cup dropped) = {}
        /\ Calling' \cap (delivered' \cup dropped) = {} /\ delivered' \cap dropped = {}
    BY <1>0, <1>1, <2>2, <2>3 DEF ExactlyOnce
  <2>5. /\ \A a \in calls' : \A e \in a.events : key[e] = a.key
        /\ \A a, d \in calls' : a # d => a.events \cap d.events = {}
    BY <1>0, <1>1 DEF ExactlyOnce
  <2> QED  BY <1>1, <2>1, <2>4, <2>5 DEF ExactlyOnce
<1> QED  BY <1>2, <1>3, <1>4 DEF Inv

\* Stop drops what is pending and nothing else.
LEMMA StopStep == Inv /\ Stop => Inv'
<1> SUFFICES ASSUME Inv, Stop PROVE Inv'
  OBVIOUS
<1> USE DEF eventVars, burstVars, timerVars, fnVars
<1>0. Typed /\ Sorted /\ Fresh /\ Timed /\ DeadlineKept /\ ExactlyOnce /\ NotCutShort
  BY DEF Inv
<1>1. /\ UNCHANGED <<now, eventVars, deadline, reasons, swapSeen, expiry, fired, fnVars,
                     brief>>
      /\ stopped' = 1 /\ armed' \subseteq armed /\ bursts' = [k \in Keys |-> 0]
      /\ dropped' = dropped \cup Pending
  BY DEF Stop
<1>2. Pending' = {} /\ Pending \subseteq Events /\ Calling' = Calling
  BY <1>1 DEF Pending, Calling
<1>3. Typed'
  BY <1>0, <1>1, <1>2, TypeFacts DEF Typed, ClockTyped, EventTyped, CallTyped
<1>4. Sorted' /\ Fresh' /\ DeadlineKept' /\ NotCutShort'
  BY <1>0, <1>1 DEF Sorted, Fresh, DeadlineKept, NotCutShort
<1>5. Timed'
  BY <1>0, <1>1 DEF Timed, Span
<1>6. ExactlyOnce'
  BY <1>0, <1>1, <1>2 DEF ExactlyOnce
<1> QED  BY <1>3, <1>4, <1>5, <1>6 DEF Inv

\* Only bursts whose window is over are flushed, each once.
LEMMA FlushStep ==
  ASSUME Inv, NEW b \in Events, Flush(b)
  PROVE  Inv'
<1> USE DEF eventVars, burstVars, timerVars, fnVars
<1>0. Typed /\ Sorted /\ Fresh /\ Timed /\ DeadlineKept /\ ExactlyOnce /\ NotCutShort
  BY DEF Inv
<1>1. /\ UNCHANGED <<now, eventVars, deadline, reasons, swapSeen, armed, expiry,
                     delivered, dropped, stopped>>
      /\ fired[b] > 0 /\ fired' = [fired EXCEPT ![b] = @ - 1]
  BY DEF Flush
<1>2. /\ fired'[b] = fired[b] - 1 /\ fired' \in [Events -> Nat]
      /\ \A e \in Events \ {b} : fired'[e] = fired[e]
  BY <1>0, <1>1 DEF Typed, ClockTyped
<1>3. b \in 1 .. last /\ key[b] \in Keys
  <2>1. b <= last
    BY <1>0, <1>1, TypeFacts DEF Fresh
  <2> QED  BY <1>0, <2>1, TypeFacts DEF Sorted
<1>4. Fresh'
  BY <1>0, <1>1, <1>2, <1>3, TypeFacts DEF Fresh
<1>5. Timed'
  <2> SUFFICES ASSUME NEW e \in Events
               PROVE  /\ deadline[e] - LagWindow <= now
                      /\ e \in armed => expiry[e] >= deadline[e] - LagWindow + Span(e)
                      /\ fired'[e] > 0 => now >= deadline[e] - LagWindow + Span(e)
    BY <1>1 DEF Timed, Span
  <2> QED  BY <1>0, <1>1, <1>2 DEF Timed
<1>6. CASE ~MayFlush(b)
  <2>1. UNCHANGED <<bursts, calls, brief>>
    BY <1>6 DEF Flush
  <2>2. \A k \in Keys : bursts[k] # b
    BY <1>0, <1>6, TypeFacts DEF MayFlush, Sorted, Typed, EventTyped
  <2>3. Typed'
    BY <1>0, <1>1, <1>2, <2>1 DEF Typed, ClockTyped, EventTyped, CallTyped
  <2>4. Sorted' /\ NotCutShort'
    BY <1>0, <1>1, <2>1 DEF Sorted, NotCutShort
  <2>5. DeadlineKept'
    BY <1>0, <1>1, <1>2, <2>1, <2>2, TypeFacts DEF DeadlineKept
  <2>6. ExactlyOnce'
    BY <1>0, <1>1, <2>1 DEF ExactlyOnce, Pending, Calling
  <2> QED  BY <1>4, <1>5, <2>3, <2>4, <2>5, <2>6 DEF Inv
<1>7. CASE MayFlush(b)
  <2> DEFINE k == key[b]
             call == [by |-> "timer", key |-> k, events |-> reasons[b]]
  <2>1. /\ bursts[k] = b /\ bursts' = [bursts EXCEPT ![k] = 0]
        /\ calls' = calls \cup {call}
        /\ brief' = IF now < deadline[b] - LagWindow + Least(LagWindow,
                           IF b \in swapSeen THEN SwapWindow ELSE QuietWindow)
                      THEN brief \cup {b} ELSE brief
    BY <1>7 DEF Flush, MayFlush
  <2>2. k \in Keys /\ bursts'[k] = 0 /\ \A j \in Keys \ {k} : bursts'[j] = bursts[j]
    BY <1>0, <1>3, <2>1 DEF Typed, EventTyped
  <2>3. call.by = "timer" /\ call.key = k /\ call.events = reasons[b]
    OBVIOUS
  <2>4. call \in [by : Pushers \cup {"timer"}, key : Keys, events : SUBSET Events]
    BY <1>0, <2>2, TypeFacts
  <2> HIDE DEF k, call
  <2>5. Typed'
    <3>0. 0 \in 0 .. last
      BY <1>0, TypeFacts
    <3>1. bursts' \in [Keys -> 0 .. last]
      BY <1>0, <2>1, <3>0 DEF Typed, EventTyped
    <3>2. EventTyped'
      BY <1>0, <1>1, <3>1 DEF Typed, EventTyped
    <3>3. ClockTyped'
      BY <1>0, <1>1, <1>2 DEF Typed, ClockTyped
    <3>4. CallTyped'
      BY <1>0, <1>1, <2>1, <2>4 DEF Typed, CallTyped
    <3> QED  BY <3>2, <3>3, <3>4 DEF Typed
  <2>6. Sorted'
    BY <1>0, <1>1, <2>2 DEF Sorted
  <2>7. NotCutShort'
    <3>1. Least(LagWindow, IF b \in swapSeen THEN SwapWindow ELSE QuietWindow) = Span(b)
      BY DEF Span, SwapSpan, QuietSpan
    <3>2. now >= deadline[b] - LagWindow + Span(b)
      BY <1>0, <1>1 DEF Timed
    <3>3. now \in Nat /\ deadline[b] \in Nat /\ LagWindow \in Nat /\ Span(b) \in Nat
      BY <1>0, TypeFacts, Windows, Spans DEF Span
    <3> QED  BY <1>0, <2>1, <3>1, <3>2, <3>3 DEF NotCutShort
  <2>8. DeadlineKept'
    <3>1. \A j \in Keys \ {k} : bursts[j] # b
      BY <1>0, <2>1, TypeFacts DEF Sorted, k
    <3> QED  BY <1>0, <1>1, <1>2, <2>2, <3>1, TypeFacts DEF DeadlineKept
  <2>9. ExactlyOnce'
    <3>1. b # 0 /\ \A e \in reasons[b] : key[e] = k
      BY <1>0, <2>1, <2>2, TypeFacts DEF Sorted
    <3>2. \A j \in Keys \ {k} : bursts[j] # 0 => reasons[bursts[j]] \cap reasons[b] = {}
      BY <1>0, <3>1 DEF Sorted
    <3>3. reasons[b] \subseteq Pending
      BY <1>0, <2>1, <2>2, <3>1, TypeFacts DEF Pending
    <3>4. Pending' = Pending \ reasons[b]
      BY <1>1, <2>1, <2>2, <3>1, <3>2 DEF Pending
    <3>5. Calling' = Calling \cup reasons[b]
      BY <2>1, <2>3, CallsGrow
    <3>6. /\ 1 .. last = Pending' \cup Calling' \cup delivered \cup dropped
          /\ Pending' \cap (Calling' \cup delivered \cup dropped) = {}
          /\ Calling' \cap (delivered \cup dropped) = {} /\ delivered \cap dropped = {}
      BY <1>0, <3>3, <3>4, <3>5 DEF ExactlyOnce
    <3>7. \A c \in calls' : \A e \in c.events : key[e] = c.key
      BY <1>0, <2>1, <2>3, <3>1 DEF ExactlyOnce
    <3>8. \A c \in calls : c.events \cap reasons[b] = {}
      BY <1>0, <3>3 DEF ExactlyOnce, Calling
    <3>9. \A c, d \in calls' : c # d => c.events \cap d.events = {}
      BY <1>0, <2>1, <2>3, <3>8 DEF ExactlyOnce
    <3> QED  BY <1>1, <3>6, <3>7, <3>9 DEF ExactlyOnce
  <2> QED  BY <1>4, <1>5, <2>5, <2>6, <2>7, <2>8, <2>9 DEF Inv
<1> QED  BY <1>6, <1>7

\* A new event: its key, the clock and the types all pushes share.
LEMMA PushFrame ==
  ASSUME Inv, NEW p \in Pushers, NEW k \in Keys, NEW swap \in 0 .. 1,
         NEW drift \in 0 .. MaxDrift, Push(p, k, swap, drift)
  PROVE  /\ last + 1 \in Events /\ last' = last + 1 /\ last' \in 0 .. MaxEvents
         /\ now' = now + drift /\ now' \in Nat /\ drift \in Nat /\ now' >= now
         /\ key' \in [Events -> Keys \cup {"none"}] /\ key'[last + 1] = k
         /\ \A e \in 1 .. last : key'[e] = key[e]
         /\ \A e \in 1 .. last + 1 : e \in 1 .. last \/ e = last + 1
         /\ \A e \in 1 .. last' : key'[e] \in Keys
         /\ \A j \in Keys : bursts[j] # last + 1
         /\ \A e \in Events : last + 1 \notin reasons[e]
         /\ UNCHANGED <<stopped, brief>>
<1>0. Typed /\ Sorted
  BY DEF Inv
<1>1. /\ last < MaxEvents /\ last' = last + 1 /\ now' = now + drift
      /\ key' = [key EXCEPT ![last + 1] = k] /\ UNCHANGED <<stopped, brief>>
  BY DEF Push
<1>2. last + 1 \in Events /\ last' \in 0 .. MaxEvents /\ last \in Nat
  BY <1>0, <1>1, TypeFacts DEF Events
<1>3. now' \in Nat /\ drift \in Nat /\ now' >= now
  BY <1>0, <1>1, TypeFacts, OptionsAssumption
<1>4. /\ key' \in [Events -> Keys \cup {"none"}] /\ key'[last + 1] = k
      /\ \A e \in Events \ {last + 1} : key'[e] = key[e]
  BY <1>0, <1>1, <1>2 DEF Typed, EventTyped
<1>5. /\ \A e \in 1 .. last : e \in Events \ {last + 1}
      /\ \A e \in 1 .. last + 1 : e \in 1 .. last \/ e = last + 1
  BY <1>1, <1>2, OptionsAssumption DEF Events
<1>6. \A e \in 1 .. last' : key'[e] \in Keys
  BY <1>0, <1>1, <1>4, <1>5 DEF Sorted
<1>7. (\A j \in Keys : bursts[j] # last + 1) /\ (\A e \in Events : last + 1 \notin reasons[e])
  BY <1>0, <1>2, TypeFacts
<1> QED  BY <1>1, <1>2, <1>3, <1>4, <1>5, <1>6, <1>7

\* Types that grow with the events.
LEMMA EventsGrow ==
  ASSUME Inv, last' = last + 1
  PROVE  /\ \A j \in Keys : bursts[j] \in 0 .. last'
         /\ \A e \in Events : reasons[e] \subseteq 1 .. last'
         /\ last + 1 \in 0 .. last' /\ last + 1 \in 1 .. last'
BY TypeFacts DEF Inv, Typed, EventTyped

\* A Push after Stop drops its event.
LEMMA PushStoppedStep ==
  ASSUME Inv, NEW p \in Pushers, NEW k \in Keys, NEW swap \in 0 .. 1,
         NEW drift \in 0 .. MaxDrift, Push(p, k, swap, drift), PushStopped
  PROVE  Inv'
<1> USE DEF burstVars, timerVars, fnVars
<1>0. Typed /\ Sorted /\ Fresh /\ Timed /\ DeadlineKept /\ ExactlyOnce /\ NotCutShort
  BY DEF Inv
<1>1. /\ stopped = 1 /\ dropped' = dropped \cup {last'}
      /\ UNCHANGED <<burstVars, timerVars, fnVars>>
  BY DEF PushStopped
<1> DEFINE e == last + 1
<1>2. /\ e \in Events /\ last' = e /\ last' \in 0 .. MaxEvents
      /\ now' \in Nat /\ now' >= now
      /\ key' \in [Events -> Keys \cup {"none"}]
      /\ \A x \in 1 .. last : key'[x] = key[x]
      /\ \A x \in 1 .. last' : key'[x] \in Keys
      /\ UNCHANGED <<stopped, brief>>
  BY PushFrame
<1>3. \A j \in Keys : bursts[j] = 0
  BY <1>0, <1>1 DEF Sorted
<1>4. Typed'
  <2>1. ClockTyped' /\ CallTyped'
    BY <1>0, <1>1, <1>2 DEF Typed, ClockTyped, CallTyped
  <2>2. EventTyped'
    <3>1. bursts' \in [Keys -> 0 .. last']
      BY <1>0, <1>1, <1>2, EventsGrow DEF Typed, EventTyped
    <3>2. reasons' \in [Events -> SUBSET (1 .. last')]
      BY <1>0, <1>1, <1>2, EventsGrow DEF Typed, EventTyped
    <3> QED  BY <1>0, <1>2, <3>1, <3>2 DEF Typed, EventTyped
  <2> QED  BY <2>1, <2>2 DEF Typed
<1>5. Sorted' /\ DeadlineKept' /\ NotCutShort'
  BY <1>0, <1>1, <1>2, <1>3 DEF Sorted, DeadlineKept, NotCutShort
<1>6. Fresh'
  BY <1>0, <1>1, <1>2, TypeFacts DEF Fresh
<1>7. Timed'
  BY <1>0, <1>1, <1>2, TypeFacts, Windows, Spans DEF Timed, Span
<1>8. ExactlyOnce'
  <2>1. Pending' = {} /\ Pending = {} /\ Calling' = Calling /\ delivered' = delivered
    BY <1>1, <1>3 DEF Pending, Calling
  <2>2. 1 .. last' = (1 .. last) \cup {e} /\ e \notin 1 .. last
    BY <1>0, <1>2, TypeFacts
  <2>3. /\ 1 .. last' = Pending' \cup Calling' \cup delivered' \cup dropped'
        /\ Pending' \cap (Calling' \cup delivered' \cup dropped') = {}
        /\ Calling' \cap (delivered' \cup dropped') = {} /\ delivered' \cap dropped' = {}
    BY <1>0, <1>1, <1>2, <2>1, <2>2 DEF ExactlyOnce
  <2>4. \A c \in calls : \A x \in c.events : x \in 1 .. last
    BY <1>0 DEF ExactlyOnce, Calling
  <2>5. /\ \A c \in calls' : \A x \in c.events : key'[x] = c.key
        /\ \A c, d \in calls' : c # d => c.events \cap d.events = {}
    BY <1>0, <1>1, <1>2, <2>4 DEF ExactlyOnce
  <2> QED  BY <2>3, <2>5 DEF ExactlyOnce
<1> QED  BY <1>4, <1>5, <1>6, <1>7, <1>8 DEF Inv

\* A Push that begins a burst reports the expired one it replaces, if any.
LEMMA BeginStep ==
  ASSUME Inv, NEW p \in Pushers, NEW k \in Keys, NEW swap \in 0 .. 1,
         NEW drift \in 0 .. MaxDrift, Push(p, k, swap, drift), stopped = 0,
         bursts[k] = 0 \/ Expired(k),
         BeginBurst(last + 1, k, swap, now + drift, p),
         UNCHANGED <<fired, delivered, dropped>>
  PROVE  Inv'
<1>0. Typed /\ Sorted /\ Fresh /\ Timed /\ DeadlineKept /\ ExactlyOnce /\ NotCutShort
  BY DEF Inv
<1> DEFINE e == last + 1
           old == bursts[k]
           call == [by |-> p, key |-> k, events |-> reasons[old]]
<1>1. /\ bursts' = [bursts EXCEPT ![k] = e]
      /\ deadline' = [deadline EXCEPT ![e] = now + LagWindow]
      /\ reasons' = [reasons EXCEPT ![e] = {e}]
      /\ swapSeen' = IF swap = 1 THEN swapSeen \cup {e} ELSE swapSeen
      /\ expiry' = [expiry EXCEPT ![e] = now + drift + Least(Window(swap), LagWindow)]
      /\ armed' = (armed \ {old}) \cup {e}
      /\ calls' = IF old # 0 THEN calls \cup {call} ELSE calls
  BY DEF BeginBurst, Expired
<1>2. /\ e \in Events /\ last' = e /\ last' \in 0 .. MaxEvents
      /\ now' = now + drift /\ now' \in Nat /\ drift \in Nat /\ now' >= now
      /\ key' \in [Events -> Keys \cup {"none"}] /\ key'[e] = k
      /\ \A x \in 1 .. last : key'[x] = key[x]
      /\ \A x \in 1 .. last' : key'[x] \in Keys
      /\ \A j \in Keys : bursts[j] # e
      /\ \A x \in Events : e \notin reasons[x]
      /\ UNCHANGED <<stopped, brief>>
  BY PushFrame
<1>3. call.by = p /\ call.key = k /\ call.events = reasons[old]
  OBVIOUS
<1>4. old # 0 => call \in [by : Pushers \cup {"timer"}, key : Keys, events : SUBSET Events]
  BY <1>0, TypeFacts
<1>5. Least(Window(swap), LagWindow) = IF swap = 1 THEN SwapSpan ELSE QuietSpan
  BY FirstSpan
<1>6. old # 0 => old \in Events /\ old \in 1 .. last
  BY <1>0, TypeFacts DEF Events
<1>7. e \in 0 .. last' /\ e \in 1 .. last' /\ e > last /\ ~(e > last') /\ e # 0
  BY <1>0, <1>2, TypeFacts
<1> HIDE DEF call, old, e
<1>8. /\ bursts'[k] = e /\ \A j \in Keys \ {k} : bursts'[j] = bursts[j]
      /\ deadline'[e] = now + LagWindow
      /\ \A x \in Events \ {e} : deadline'[x] = deadline[x]
      /\ reasons'[e] = {e} /\ \A x \in Events \ {e} : reasons'[x] = reasons[x]
      /\ expiry'[e] = now + drift + Least(Window(swap), LagWindow)
      /\ \A x \in Events \ {e} : expiry'[x] = expiry[x]
  BY <1>0, <1>1, <1>2 DEF Typed, ClockTyped, EventTyped
<1>9. Typed'
  <2>1. ClockTyped'
    <3>1. now + LagWindow \in Nat /\ now + drift + Least(Window(swap), LagWindow) \in Nat
      BY <1>0, <1>2, <1>5, TypeFacts, Windows, Spans
    <3> QED  BY <1>0, <1>1, <1>2, <3>1 DEF Typed, ClockTyped
  <2>2. EventTyped'
    <3>1. last' = last + 1
      BY <1>2 DEF e
    <3>2. bursts' \in [Keys -> 0 .. last']
      BY <1>0, <1>1, <1>2, <1>7, <3>1, EventsGrow DEF Typed, EventTyped
    <3>3. reasons' \in [Events -> SUBSET (1 .. last')]
      BY <1>0, <1>1, <1>2, <1>7, <3>1, EventsGrow DEF Typed, EventTyped
    <3> QED  BY <1>0, <1>2, <3>2, <3>3 DEF Typed, EventTyped
  <2>3. CallTyped'
    BY <1>0, <1>1, <1>4 DEF Typed, CallTyped
  <2> QED  BY <2>1, <2>2, <2>3 DEF Typed
<1>10. \A j \in Keys \ {k} : bursts[j] # 0 =>
         /\ bursts[j] \in Events /\ bursts[j] \in 1 .. last /\ bursts[j] # e
         /\ bursts[j] # old /\ reasons'[bursts[j]] = reasons[bursts[j]]
         /\ reasons[bursts[j]] \subseteq 1 .. last
  BY <1>0, <1>2, <1>8, TypeFacts DEF Sorted, old, Events
<1>11. Sorted'
  <2>1. ASSUME NEW j \in Keys, bursts'[j] # 0
        PROVE  key'[bursts'[j]] = j /\ \A x \in reasons'[bursts'[j]] : key'[x] = j
    <3>1. CASE j = k
      BY <3>1, <1>2, <1>8
    <3>2. CASE j # k
      BY <3>2, <2>1, <1>0, <1>2, <1>8, <1>10 DEF Sorted
    <3> QED  BY <3>1, <3>2
  <2> QED  BY <2>1, <1>2 DEF Sorted
<1>12. Fresh'
  <2> SUFFICES ASSUME NEW x \in Events, x > last'
               PROVE  deadline'[x] = 0 /\ fired'[x] = 0 /\ x \notin armed' /\ x \notin swapSeen'
    BY DEF Fresh
  <2>0. x \in Nat /\ e \in Nat /\ last \in Nat /\ x > e
    BY <1>0, <1>2, TypeFacts
  <2>1. x > last /\ x # e
    BY <1>7, <2>0
  <2> QED  BY <1>0, <1>1, <1>8, <2>1 DEF Fresh
<1>13. Timed'
  <2> SUFFICES ASSUME NEW x \in Events
               PROVE  /\ deadline'[x] - LagWindow <= now'
                      /\ x \in armed' => expiry'[x] >= deadline'[x] - LagWindow + Span(x)'
                      /\ fired'[x] > 0 => now' >= deadline'[x] - LagWindow + Span(x)'
    BY DEF Timed
  <2>1. CASE x = e
    <3>1. fired'[x] = 0
      BY <1>0, <1>2, <1>7, <2>1 DEF Fresh
    <3>2. Span(x)' = IF swap = 1 THEN SwapSpan ELSE QuietSpan
      BY <1>0, <1>1, <1>2, <1>7, <2>1 DEF Span, Fresh
    <3>3. Span(x)' \in Nat /\ LagWindow \in Nat /\ now \in Nat
      BY <1>0, <3>2, TypeFacts, Spans, Windows
    <3> QED  BY <1>2, <1>5, <1>8, <2>1, <3>1, <3>2, <3>3
  <2>2. CASE x # e
    <3>1. /\ Span(x)' = Span(x) /\ deadline'[x] = deadline[x] /\ expiry'[x] = expiry[x]
          /\ x \in armed' => x \in armed
      BY <1>1, <1>8, <2>2 DEF Span
    <3>2. Span(x) \in Nat /\ LagWindow \in Nat /\ now \in Nat /\ deadline[x] \in Nat
      BY <1>0, TypeFacts, Spans, Windows DEF Span
    <3> QED  BY <1>0, <1>2, <3>1, <3>2 DEF Timed
  <2> QED  BY <2>1, <2>2
<1>14. DeadlineKept'
  <2>1. ASSUME NEW j \in Keys, bursts'[j] # 0
        PROVE  /\ bursts'[j] \in armed' \/ fired'[bursts'[j]] > 0
               /\ bursts'[j] \in armed' =>
                    expiry'[bursts'[j]] <= deadline'[bursts'[j]] + MaxDrift
    <3>1. CASE j = k
      <4>1. Least(Window(swap), LagWindow) <= LagWindow
        BY <1>5, Spans
      <4>2. /\ Least(Window(swap), LagWindow) \in Nat /\ LagWindow \in Nat /\ now \in Nat
            /\ MaxDrift \in Nat /\ drift \in Nat /\ drift <= MaxDrift
        BY <1>0, <1>5, TypeFacts, Spans, Windows, OptionsAssumption
      <4> QED  BY <1>1, <1>8, <3>1, <4>1, <4>2
    <3>2. CASE j # k
      <4>1. /\ bursts'[j] = bursts[j] /\ bursts[j] # e /\ bursts[j] # old
            /\ bursts[j] \in Events
        BY <1>8, <1>10, <2>1, <3>2
      <4> QED  BY <1>0, <1>1, <1>8, <2>1, <4>1 DEF DeadlineKept
    <3> QED  BY <3>1, <3>2
  <2> QED  BY <2>1 DEF DeadlineKept
<1>15. NotCutShort'
  BY <1>0, <1>2 DEF NotCutShort
<1>16. ExactlyOnce'
  <2> DEFINE gone == IF old # 0 THEN reasons[old] ELSE {}
  <2>1. /\ gone \subseteq Pending /\ \A x \in gone : key[x] = k
    BY <1>0, <1>6, TypeFacts DEF Pending, Sorted, old
  <2>2. \A j \in Keys \ {k} : bursts[j] # 0 => reasons[bursts[j]] \cap gone = {}
    BY <1>0, <2>1 DEF Sorted
  <2>3. Pending' = (Pending \ gone) \cup {e}
    <3>1. ASSUME NEW x \in Pending' PROVE x \in (Pending \ gone) \cup {e}
      <4>1. PICK j \in Keys : bursts'[j] # 0 /\ x \in reasons'[bursts'[j]]
        BY <3>1 DEF Pending
      <4>2. CASE j = k
        BY <4>1, <4>2, <1>8
      <4>3. CASE j # k
        BY <4>1, <4>3, <1>8, <1>10, <2>2, <3>1 DEF Pending
      <4> QED  BY <4>2, <4>3
    <3>2. e \in Pending'
      BY <1>2, <1>7, <1>8 DEF Pending
    <3>3. ASSUME NEW x \in Pending, x \notin gone PROVE x \in Pending'
      <4>1. PICK j \in Keys : bursts[j] # 0 /\ x \in reasons[bursts[j]]
        BY <3>3 DEF Pending
      <4>2. j # k
        BY <4>1, <3>3 DEF old
      <4> QED  BY <4>1, <4>2, <1>8, <1>10, <3>3 DEF Pending
    <3> QED  BY <3>1, <3>2, <3>3
  <2>4. Calling' = Calling \cup gone
    <3>1. CASE old # 0
      BY <1>1, <1>3, <3>1, CallsGrow
    <3>2. CASE old = 0
      BY <1>1, <3>2 DEF Calling
    <3> QED  BY <3>1, <3>2
  <2> HIDE DEF gone
  <2>5. 1 .. last' = (1 .. last) \cup {e} /\ e \notin 1 .. last
    BY <1>0, <1>2, <1>7, TypeFacts DEF e
  <2>6. /\ 1 .. last' = Pending' \cup Calling' \cup delivered \cup dropped
        /\ Pending' \cap (Calling' \cup delivered \cup dropped) = {}
        /\ Calling' \cap (delivered \cup dropped) = {} /\ delivered \cap dropped = {}
    BY <1>0, <2>1, <2>3, <2>4, <2>5 DEF ExactlyOnce
  <2>7. \A c \in calls : \A x \in c.events : x \in 1 .. last
    BY <1>0 DEF ExactlyOnce, Calling
  <2>8. \A c \in calls : c.events \cap gone = {}
    BY <1>0, <2>1 DEF ExactlyOnce, Calling
  <2>9. \A c \in calls' : c \in calls \/ (c = call /\ old # 0)
    BY <1>1
  <2>10. old # 0 => \A x \in reasons[old] : key'[x] = k /\ x \in gone
    BY <1>0, <1>2, <1>6, <2>1, TypeFacts DEF gone, Typed, EventTyped
  <2>11. \A c \in calls' : \A x \in c.events : key'[x] = c.key
    BY <1>0, <1>2, <1>3, <2>7, <2>9, <2>10 DEF ExactlyOnce
  <2>12. \A c, d \in calls' : c # d => c.events \cap d.events = {}
    BY <1>0, <1>3, <2>8, <2>9, <2>10 DEF ExactlyOnce
  <2> QED  BY <2>6, <2>11, <2>12 DEF ExactlyOnce
<1> QED  BY <1>9, <1>11, <1>12, <1>13, <1>14, <1>15, <1>16 DEF Inv

\* A Push that extends a burst keeps its timer within the deadline and does not let it
\* expire before the window is over.
LEMMA ExtendStep ==
  ASSUME Inv, NEW p \in Pushers, NEW k \in Keys, NEW swap \in 0 .. 1,
         NEW drift \in 0 .. MaxDrift, Push(p, k, swap, drift), stopped = 0,
         bursts[k] # 0, ~Expired(k),
         ExtendBurst(last + 1, bursts[k], swap, now + drift),
         UNCHANGED <<fired, delivered, dropped>>
  PROVE  Inv'
<1>0. Typed /\ Sorted /\ Fresh /\ Timed /\ DeadlineKept /\ ExactlyOnce /\ NotCutShort
  BY DEF Inv
<1> DEFINE e == last + 1
           b == bursts[k]
           at == now + drift
           rearmed == swap = 1 \/ (b \notin swapSeen /\ at < deadline[b])
           until == IF deadline[b] <= at THEN at ELSE Least(at + Window(swap), deadline[b])
<1>1. /\ reasons' = [reasons EXCEPT ![b] = @ \cup {e}]
      /\ swapSeen' = IF swap = 1 THEN swapSeen \cup {b} ELSE swapSeen
      /\ rearmed => armed' = armed \cup {b} /\ expiry' = [expiry EXCEPT ![b] = until]
      /\ ~rearmed => UNCHANGED <<armed, expiry>>
      /\ UNCHANGED <<bursts, deadline, calls>>
  BY DEF ExtendBurst, Rearm
<1>2. /\ e \in Events /\ last' = e /\ last' \in 0 .. MaxEvents
      /\ now' = at /\ now' \in Nat /\ drift \in Nat /\ now' >= now
      /\ key' \in [Events -> Keys \cup {"none"}] /\ key'[e] = k
      /\ \A x \in 1 .. last : key'[x] = key[x]
      /\ \A x \in 1 .. last' : key'[x] \in Keys
      /\ \A j \in Keys : bursts[j] # e
      /\ \A x \in Events : e \notin reasons[x]
      /\ UNCHANGED <<stopped, brief>>
  BY PushFrame
<1>3. /\ b \in Events /\ b \in 1 .. last /\ b # e /\ now < deadline[b] /\ deadline[b] \in Nat
      /\ now \in Nat /\ at \in Nat /\ drift <= MaxDrift /\ MaxDrift \in Nat /\ now <= at
  BY <1>0, <1>2, TypeFacts, OptionsAssumption DEF Expired, Events
<1>4. e \in 0 .. last' /\ e \in 1 .. last' /\ e > last /\ ~(e > last') /\ e # 0 /\ ~(b > last)
  BY <1>0, <1>2, TypeFacts
<1>5. Window(swap) = IF swap = 1 THEN SwapWindow ELSE QuietWindow
  BY DEF Window
<1>6. /\ until \in Nat /\ until <= deadline[b] + MaxDrift
      /\ until >= deadline[b] \/ until >= at + Window(swap)
  BY <1>3, <1>5, Windows DEF Least
<1> HIDE DEF e, b, at, until
<1>7. /\ reasons'[b] = reasons[b] \cup {e} /\ \A x \in Events \ {b} : reasons'[x] = reasons[x]
      /\ \A x \in Events \ {b} : expiry'[x] = expiry[x]
      /\ rearmed => expiry'[b] = until
      /\ ~rearmed => expiry'[b] = expiry[b]
      /\ expiry' \in [Events -> Nat]
  BY <1>0, <1>1, <1>3, <1>6 DEF Typed, ClockTyped, EventTyped
<1>8. Typed'
  <2>1. ClockTyped'
    BY <1>0, <1>1, <1>2, <1>3, <1>7 DEF Typed, ClockTyped
  <2>2. EventTyped'
    <3>1. last' = last + 1
      BY <1>2 DEF e
    <3>2. bursts' \in [Keys -> 0 .. last']
      BY <1>0, <1>1, <3>1, EventsGrow DEF Typed, EventTyped
    <3>3. reasons[b] \cup {e} \subseteq 1 .. last'
      BY <1>3, <1>4, <3>1, EventsGrow
    <3>4. reasons' \in [Events -> SUBSET (1 .. last')]
      BY <1>0, <1>1, <3>1, <3>3, EventsGrow DEF Typed, EventTyped
    <3> QED  BY <1>0, <1>2, <3>2, <3>4 DEF Typed, EventTyped
  <2>3. CallTyped'
    BY <1>0, <1>1 DEF Typed, CallTyped
  <2> QED  BY <2>1, <2>2, <2>3 DEF Typed
<1>9. \A j \in Keys \ {k} : bursts[j] # 0 =>
        /\ bursts[j] \in Events /\ bursts[j] \in 1 .. last /\ bursts[j] # b
        /\ reasons'[bursts[j]] = reasons[bursts[j]]
        /\ reasons[bursts[j]] \subseteq 1 .. last
  <2> SUFFICES ASSUME NEW j \in Keys \ {k}, bursts[j] # 0
               PROVE  /\ bursts[j] \in Events /\ bursts[j] \in 1 .. last /\ bursts[j] # b
                      /\ reasons'[bursts[j]] = reasons[bursts[j]]
                      /\ reasons[bursts[j]] \subseteq 1 .. last
    OBVIOUS
  <2>1. bursts[j] \in Events /\ bursts[j] \in 1 .. last
    BY <1>0, TypeFacts DEF Events
  <2>2. bursts[j] # b
    BY <1>0, <1>3 DEF Sorted, b
  <2> QED  BY <1>0, <1>7, <2>1, <2>2 DEF Typed, EventTyped
<1>10. Sorted'
  <2>1. ASSUME NEW j \in Keys, bursts'[j] # 0
        PROVE  key'[bursts'[j]] = j /\ \A x \in reasons'[bursts'[j]] : key'[x] = j
    <3>1. CASE j = k
      <4>1. bursts'[j] = b /\ reasons[b] \subseteq 1 .. last
        BY <1>0, <1>1, <1>3, <3>1 DEF b, Typed, EventTyped
      <4>2. key[b] = k /\ \A x \in reasons[b] : key[x] = k
        BY <1>0 DEF Sorted, b
      <4> QED  BY <1>2, <1>3, <1>7, <3>1, <4>1, <4>2
    <3>2. CASE j # k
      BY <3>2, <2>1, <1>0, <1>1, <1>2, <1>9 DEF Sorted
    <3> QED  BY <3>1, <3>2
  <2> QED  BY <2>1, <1>2 DEF Sorted
<1>11. Fresh'
  <2> SUFFICES ASSUME NEW x \in Events, x > last'
               PROVE  deadline'[x] = 0 /\ fired'[x] = 0 /\ x \notin armed' /\ x \notin swapSeen'
    BY DEF Fresh
  <2>0. x \in Nat /\ e \in Nat /\ last \in Nat /\ x > e
    BY <1>0, <1>2, TypeFacts
  <2>1. x > last /\ x # b
    BY <1>4, <2>0
  <2> QED  BY <1>0, <1>1, <2>1 DEF Fresh
<1>12. Timed'
  <2> SUFFICES ASSUME NEW x \in Events
               PROVE  /\ deadline'[x] - LagWindow <= now'
                      /\ x \in armed' => expiry'[x] >= deadline'[x] - LagWindow + Span(x)'
                      /\ fired'[x] > 0 => now' >= deadline'[x] - LagWindow + Span(x)'
    BY DEF Timed
  <2>0. /\ Span(x) \in Nat /\ LagWindow \in Nat /\ deadline[x] \in Nat /\ expiry[x] \in Nat
        /\ Span(x)' \in Nat /\ now' \in Nat /\ now \in Nat
        /\ Span(x)' <= Span(x)
    BY <1>0, <1>1, <1>2, <1>3, TypeFacts, Spans, Windows DEF Span
  <2>1. /\ deadline[x] - LagWindow <= now
        /\ x \in armed => expiry[x] >= deadline[x] - LagWindow + Span(x)
        /\ fired[x] > 0 => now >= deadline[x] - LagWindow + Span(x)
    BY <1>0 DEF Timed
  <2>2. /\ deadline'[x] - LagWindow <= now'
        /\ fired'[x] > 0 => now' >= deadline'[x] - LagWindow + Span(x)'
    BY <1>1, <1>2, <2>0, <2>1
  <2>3. ASSUME x \in armed' PROVE expiry'[x] >= deadline[x] - LagWindow + Span(x)'
    <3>1. CASE x = b /\ rearmed
      <4>1. expiry'[x] = until /\ until \in Nat
        BY <1>6, <1>7, <3>1
      <4>2. Span(x)' <= LagWindow
        BY <2>0, Spans, Windows DEF Span
      <4>3. swap = 1 => Span(x)' = SwapSpan
        BY <1>1, <3>1 DEF Span
      <4>4. swap # 1 => Span(x)' = QuietSpan
        BY <1>1, <3>1 DEF Span
      <4>5. Span(x)' <= Window(swap) /\ Window(swap) \in Nat
        BY <1>5, <4>3, <4>4, Spans, Windows
      <4>6. until >= deadline[x] \/ until >= at + Window(swap)
        BY <1>6, <3>1
      <4> QED  BY <1>2, <1>3, <2>0, <2>1, <4>1, <4>2, <4>5, <4>6
    <3>2. CASE ~(x = b /\ rearmed)
      <4>1. x \in armed /\ expiry'[x] = expiry[x]
        BY <1>1, <1>7, <2>3, <3>2
      <4> QED  BY <2>0, <2>1, <4>1
    <3> QED  BY <3>1, <3>2
  <2> QED  BY <1>1, <2>2, <2>3
<1>13. DeadlineKept'
  <2>1. ASSUME NEW j \in Keys, bursts'[j] # 0
        PROVE  /\ bursts'[j] \in armed' \/ fired'[bursts'[j]] > 0
               /\ bursts'[j] \in armed' =>
                    expiry'[bursts'[j]] <= deadline'[bursts'[j]] + MaxDrift
    <3>1. bursts'[j] = bursts[j] /\ bursts[j] \in Events /\ deadline' = deadline
      BY <1>0, <1>1, <2>1, TypeFacts
    <3>2. /\ bursts[j] \in armed \/ fired[bursts[j]] > 0
          /\ bursts[j] \in armed => expiry[bursts[j]] <= deadline[bursts[j]] + MaxDrift
      BY <1>0, <2>1, <3>1 DEF DeadlineKept
    <3>3. CASE bursts[j] = b /\ rearmed
      BY <1>1, <1>6, <1>7, <3>1, <3>3
    <3>4. CASE ~(bursts[j] = b /\ rearmed)
      <4>1. /\ bursts[j] \in armed' <=> bursts[j] \in armed
            /\ expiry'[bursts[j]] = expiry[bursts[j]]
        BY <1>1, <1>7, <3>1, <3>4
      <4> QED  BY <3>1, <3>2, <4>1
    <3> QED  BY <3>3, <3>4
  <2> QED  BY <2>1 DEF DeadlineKept
<1>14. NotCutShort'
  BY <1>0, <1>2 DEF NotCutShort
<1>15. ExactlyOnce'
  <2>1. Pending' = Pending \cup {e}
    <3>1. ASSUME NEW x \in Pending' PROVE x \in Pending \cup {e}
      <4>1. PICK j \in Keys : bursts'[j] # 0 /\ x \in reasons'[bursts'[j]]
        BY <3>1 DEF Pending
      <4>2. CASE j = k
        BY <4>1, <4>2, <1>1, <1>7, <3>1 DEF Pending, b
      <4>3. CASE j # k
        BY <4>1, <4>3, <1>1, <1>9, <3>1 DEF Pending
      <4> QED  BY <4>2, <4>3
    <3>2. e \in Pending'
      BY <1>1, <1>2, <1>7 DEF Pending, b
    <3>3. ASSUME NEW x \in Pending PROVE x \in Pending'
      <4>1. PICK j \in Keys : bursts[j] # 0 /\ x \in reasons[bursts[j]]
        BY <3>3 DEF Pending
      <4>2. CASE j = k
        BY <4>1, <4>2, <1>1, <1>7, <3>3 DEF Pending, b
      <4>3. CASE j # k
        BY <4>1, <4>3, <1>1, <1>9, <3>3 DEF Pending
      <4> QED  BY <4>2, <4>3
    <3> QED  BY <3>1, <3>2, <3>3
  <2>2. Calling' = Calling
    BY <1>1 DEF Calling
  <2>3. 1 .. last' = (1 .. last) \cup {e} /\ e \notin 1 .. last
    BY <1>0, <1>2, <1>4, TypeFacts DEF e
  <2>4. /\ 1 .. last' = Pending' \cup Calling' \cup delivered \cup dropped
        /\ Pending' \cap (Calling' \cup delivered \cup dropped) = {}
        /\ Calling' \cap (delivered \cup dropped) = {} /\ delivered \cap dropped = {}
    BY <1>0, <2>1, <2>2, <2>3 DEF ExactlyOnce
  <2>5. \A c \in calls : \A x \in c.events : x \in 1 .. last
    BY <1>0 DEF ExactlyOnce, Calling
  <2>6. /\ \A c \in calls' : \A x \in c.events : key'[x] = c.key
        /\ \A c, d \in calls' : c # d => c.events \cap d.events = {}
    BY <1>0, <1>1, <1>2, <2>5 DEF ExactlyOnce
  <2> QED  BY <2>4, <2>6 DEF ExactlyOnce
<1> QED  BY <1>8, <1>10, <1>11, <1>12, <1>13, <1>14, <1>15 DEF Inv

\* Every step keeps the invariant.
LEMMA InvStep == Inv /\ [Next]_vars => Inv'
<1> SUFFICES ASSUME Inv, [Next]_vars PROVE Inv'
  OBVIOUS
<1>1. ASSUME NEW p \in Pushers, NEW k \in Keys, NEW swap \in 0 .. 1,
             NEW drift \in 0 .. MaxDrift, Push(p, k, swap, drift)
      PROVE  Inv'
  <2>1. CASE PushStopped
    BY <1>1, <2>1, PushStoppedStep
  <2>2. CASE /\ stopped = 0
             /\ bursts[k] = 0 \/ Expired(k)
             /\ BeginBurst(last + 1, k, swap, now + drift, p)
             /\ UNCHANGED <<fired, delivered, dropped>>
    BY <1>1, <2>2, BeginStep
  <2>3. CASE /\ stopped = 0 /\ bursts[k] # 0 /\ ~Expired(k)
             /\ ExtendBurst(last + 1, bursts[k], swap, now + drift)
             /\ UNCHANGED <<fired, delivered, dropped>>
    BY <1>1, <2>3, ExtendStep
  <2> QED  BY <1>1, <2>1, <2>2, <2>3 DEF Push
<1>2. CASE UNCHANGED vars
  <2>1. Typed'
    BY <1>2 DEF Inv, Typed, ClockTyped, EventTyped, CallTyped, vars, timerVars,
                burstVars, eventVars, fnVars
  <2>2. Sorted' /\ Fresh' /\ Timed' /\ DeadlineKept' /\ NotCutShort'
    BY <1>2 DEF Inv, Sorted, Fresh, Timed, Span, DeadlineKept, NotCutShort, vars,
                timerVars, burstVars, eventVars, fnVars
  <2>3. ExactlyOnce'
    BY <1>2 DEF Inv, ExactlyOnce, Pending, Calling, vars, timerVars, burstVars,
                eventVars, fnVars
  <2> QED  BY <2>1, <2>2, <2>3 DEF Inv
<1> QED
  BY <1>1, <1>2, TickStep, FireStep, FlushStep, ReturnStep, StopStep
     DEF Next, Timers, Returns, Halt

\* Nothing is pending at first.
LEMMA InvInit == Init => Inv
<1> SUFFICES ASSUME Init PROVE Inv
  OBVIOUS
<1> USE OptionsAssumption DEF Init
<1>1. Typed
  BY DEF Typed, ClockTyped, EventTyped, CallTyped
<1>2. Sorted /\ Fresh /\ DeadlineKept /\ NotCutShort
  BY DEF Sorted, Fresh, DeadlineKept, NotCutShort
<1>3. Timed
  BY Windows DEF Timed
<1>4. ExactlyOnce
  <2>1. Pending = {} /\ Calling = {} /\ 1 .. last = {}
    BY DEF Pending, Calling
  <2> QED  BY <2>1 DEF ExactlyOnce
<1> QED  BY <1>1, <1>2, <1>3, <1>4 DEF Inv

\* Every event is reported exactly once, by a call for its own key or by nobody after
\* Stop, its burst's timer within the deadline and not before the window is over,
\* whatever the timers, pushes and calls of fn do to each other (Push, flush, Stop).
THEOREM EventsReportedOnce == Spec => []ReportedOnceInTime
<1>1. Inv => ReportedOnceInTime
  <2> SUFFICES ASSUME Inv PROVE ReportedOnceInTime
    OBVIOUS
  <2>1. brief \subseteq Events
    BY DEF Inv, NotCutShort
  <2>2. TypeOK
    BY <2>1 DEF Inv, Typed, ClockTyped, EventTyped, CallTyped, TypeOK
  <2> QED  BY <2>2 DEF Inv, ReportedOnceInTime
<1> QED  BY <1>1, InvInit, InvStep, PTL DEF Spec
=============================================================================
