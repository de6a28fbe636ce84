--------------------------- MODULE SmartLockProofs ---------------------------
(***************************************************************************)
(* Theorems about SmartLock, for every length of the timer queue and any   *)
(* number of interrupts.                                                   *)
(*                                                                         *)
(* The properties are not inductive by themselves: they need that a timer  *)
(* with a flag is never started twice, and what a callback that has read   *)
(* its pin may still write after edges that came meanwhile.                *)
(***************************************************************************)
EXTENDS SmartLock, TLAPS

Flagged == Switches \cup {"debounce"}

\* A command for timer t is in the queue of the timer service.
InQueue(t) == \E k \in DOMAIN queue : queue[k] = t

\* A timer with a flag is in one place only: once in the queue, or running, or
\* in its callback.
StartedOnce ==
    \A t \in Flagged :
        /\ \A j, k \in DOMAIN queue : queue[j] = t /\ queue[k] = t => j = k
        /\ t \in active => ~InQueue(t)
        /\ callback = t => ~Pending(t)

\* The bolt presses at most one of its switches.
OnePressed == \A s, r \in Switches : s # r => level[s] = 1 \/ level[r] = 1

\* What is known of the pins while a callback holds a value it has read: the
\* door sensor's, if it has changed, is going to be read again; a switch's, if it
\* has changed, will not be (lost), and if the other switch has been pressed
\* since, its callback is still to come.
ReadingsKnown ==
    /\ (callback = "proximity" /\ output # level["proximity"]) =>
          Pending("proximity") \/ lost["proximity"] \in {"boot", "full"}
    /\ \A s \in Switches :
          (callback = s /\ output # level[s]) => lost[s] \in {"boot", "full", "late"}
    /\ \A s, r \in Switches :
          (callback = s /\ s # r /\ output = 0 /\ level[r] = 0) =>
             Pending(r) \/ lost[r] \in {"boot", "full", "late"}

LockInv ==
    /\ TypeOK
    /\ StartedOnce
    /\ FlagsMatchTimers
    /\ OutputsGuarded
    /\ OnePressed
    /\ ReadingsKnown
    /\ StatesFollow

-----------------------------------------------------------------------------
(***************************************************************************)
(* The queue of the timer service.                                         *)
(***************************************************************************)

\* A timer is pending if it runs or a command for it is queued.
LEMMA PendingSplit ==
    ASSUME NEW t
    PROVE  /\ Pending(t) <=> t \in active \/ InQueue(t)
           /\ Pending(t)' <=> t \in active' \/ InQueue(t)'
  BY DEF Pending, InQueue

\* The elements of a concatenation.
LEMMA ConcatElements ==
    ASSUME NEW S, NEW s \in Seq(S), NEW t \in Seq(S)
    PROVE  /\ s \o t \in Seq(S)
           /\ Len(s \o t) = Len(s) + Len(t)
           /\ \A k \in 1 .. Len(s) : (s \o t)[k] = s[k]
           /\ \A k \in 1 .. Len(t) : (s \o t)[Len(s) + k] = t[k]
  OBVIOUS

\* Commands go to the end of the queue, as many as fit.
LEMMA QueueAfterStart ==
    ASSUME TypeOK, NEW ts \in Seq(Timers), StartFromISR(ts)
    PROVE  /\ Fit(ts) \in 0 .. Len(ts)
           /\ queue' \in Seq(Timers)
           /\ Len(queue') = Len(queue) + Fit(ts)
           /\ Len(queue') <= QueueLength
           /\ \A k \in 1 .. Len(queue) : queue'[k] = queue[k]
           /\ \A k \in 1 .. Fit(ts) : queue'[Len(queue) + k] = ts[k]
<1>1. queue \in Seq(Timers) /\ Len(queue) \in Nat /\ Len(queue) <= QueueLength
      /\ Len(ts) \in Nat
  BY DEF TypeOK
<1>2. Fit(ts) \in 0 .. Len(ts) /\ Len(queue) + Fit(ts) <= QueueLength
  BY <1>1, QueueLengthAssumption DEF Fit
<1> DEFINE added == SubSeq(ts, 1, Fit(ts))
<1>3. added \in Seq(Timers) /\ Len(added) = Fit(ts)
      /\ \A k \in 1 .. Fit(ts) : added[k] = ts[k]
  BY <1>1, <1>2
<1>4. queue' = queue \o added
  BY DEF StartFromISR
<1> HIDE DEF added
<1>5. /\ queue \o added \in Seq(Timers)
      /\ Len(queue \o added) = Len(queue) + Len(added)
      /\ \A k \in 1 .. Len(queue) : (queue \o added)[k] = queue[k]
      /\ \A k \in 1 .. Len(added) : (queue \o added)[Len(queue) + k] = added[k]
  BY <1>1, <1>3, ConcatElements
<1> QED
  BY <1>1, <1>2, <1>3, <1>4, <1>5

\* A timer whose start is asked for has its command in the queue or is marked as
\* refused; nothing changes for the others, and no command leaves the queue.
LEMMA StartEffect ==
    ASSUME TypeOK, NEW ts \in Seq(Timers), StartFromISR(ts)
    PROVE  /\ \A t \in Timers : InQueue(t) => InQueue(t)'
           /\ \A k \in 1 .. Len(ts) : InQueue(ts[k])' \/ lost'[ts[k]] = "full"
           /\ \A t \in Timers : (\A k \in 1 .. Len(ts) : ts[k] # t) =>
                 /\ InQueue(t)' <=> InQueue(t)
                 /\ lost'[t] = lost[t]
           /\ lost' \in [Timers -> {"no", "boot", "full", "late"}]
<1>0. /\ Fit(ts) \in 0 .. Len(ts)
      /\ DOMAIN queue = 1 .. Len(queue) /\ DOMAIN queue' = 1 .. Len(queue')
      /\ Len(queue) \in Nat /\ Len(ts) \in Nat
      /\ Len(queue') = Len(queue) + Fit(ts)
      /\ \A k \in 1 .. Len(queue) : queue'[k] = queue[k]
      /\ \A k \in 1 .. Fit(ts) : queue'[Len(queue) + k] = ts[k]
  BY QueueAfterStart DEF TypeOK
<1>1. ASSUME NEW t \in Timers, InQueue(t) PROVE InQueue(t)'
  BY <1>0, <1>1 DEF InQueue
<1>2. \A k \in 1 .. Fit(ts) : InQueue(ts[k])'
  <2> SUFFICES ASSUME NEW k \in 1 .. Fit(ts) PROVE InQueue(ts[k])'
    OBVIOUS
  <2>1. Len(queue) + k \in DOMAIN queue' /\ queue'[Len(queue) + k] = ts[k]
    BY <1>0
  <2> QED
    BY <2>1 DEF InQueue
<1>3. ASSUME NEW k \in 1 .. Len(ts), k > Fit(ts) PROVE lost'[ts[k]] = "full"
  <2>1. ts[k] \in Timers /\ ts[k] \in Refused(ts)
    BY <1>0, <1>3 DEF Refused
  <2> QED
    BY <2>1 DEF StartFromISR
<1>4. ASSUME NEW t \in Timers, \A k \in 1 .. Len(ts) : ts[k] # t
      PROVE  /\ InQueue(t)' <=> InQueue(t)
             /\ lost'[t] = lost[t]
  <2>1. t \notin Accepted(ts) /\ t \notin Refused(ts)
    BY <1>0, <1>4 DEF Accepted, Refused
  <2>2. ASSUME NEW k \in DOMAIN queue', queue'[k] = t PROVE InQueue(t)
    <3>1. CASE k \in 1 .. Len(queue)
      BY <1>0, <2>2, <3>1 DEF InQueue
    <3>2. CASE k \notin 1 .. Len(queue)
      <4>1. k - Len(queue) \in 1 .. Fit(ts) /\ k = Len(queue) + (k - Len(queue))
        BY <1>0, <3>2
      <4>2. queue'[k] = ts[k - Len(queue)] /\ k - Len(queue) \in 1 .. Len(ts)
        BY <1>0, <4>1
      <4> QED
        BY <1>4, <2>2, <4>2
    <3> QED
      BY <3>1, <3>2
  <2> QED
    BY <1>1, <2>1, <2>2 DEF StartFromISR, InQueue
<1>5. lost' \in [Timers -> {"no", "boot", "full", "late"}]
  BY DEF StartFromISR, TypeOK
<1> QED
  BY <1>0, <1>1, <1>2, <1>3, <1>4, <1>5

\* Starting timers that are not queued, each once, puts none into the queue
\* twice.
LEMMA StartOnce ==
    ASSUME TypeOK, NEW ts \in Seq(Timers), StartFromISR(ts), NEW t \in Timers,
           \A j, k \in 1 .. Len(ts) : ts[j] = t /\ ts[k] = t => j = k,
           \A j, k \in DOMAIN queue : queue[j] = t /\ queue[k] = t => j = k,
           (\E k \in 1 .. Len(ts) : ts[k] = t) => ~InQueue(t)
    PROVE  \A j, k \in DOMAIN queue' : queue'[j] = t /\ queue'[k] = t => j = k
<1>0. /\ Fit(ts) \in 0 .. Len(ts)
      /\ DOMAIN queue = 1 .. Len(queue) /\ DOMAIN queue' = 1 .. Len(queue')
      /\ Len(queue) \in Nat /\ Len(ts) \in Nat
      /\ Len(queue') = Len(queue) + Fit(ts)
      /\ \A k \in 1 .. Len(queue) : queue'[k] = queue[k]
      /\ \A k \in 1 .. Fit(ts) : queue'[Len(queue) + k] = ts[k]
  BY QueueAfterStart DEF TypeOK
<1> SUFFICES ASSUME NEW j \in DOMAIN queue', NEW k \in DOMAIN queue',
                    queue'[j] = t, queue'[k] = t
             PROVE  j = k
  OBVIOUS
<1>1. ASSUME NEW i \in DOMAIN queue', queue'[i] = t, i \notin 1 .. Len(queue)
      PROVE  i - Len(queue) \in 1 .. Len(ts) /\ ts[i - Len(queue)] = t
  <2>1. i - Len(queue) \in 1 .. Fit(ts) /\ i = Len(queue) + (i - Len(queue))
    BY <1>0, <1>1
  <2> QED
    BY <1>0, <1>1, <2>1
<1>2. ASSUME NEW i \in 1 .. Len(queue), queue'[i] = t PROVE InQueue(t) /\ queue[i] = t
  BY <1>0, <1>2 DEF InQueue
<1>3. CASE j \in 1 .. Len(queue) /\ k \in 1 .. Len(queue)
  BY <1>0, <1>2, <1>3
<1>4. CASE j \notin 1 .. Len(queue) /\ k \notin 1 .. Len(queue)
  <2>1. j - Len(queue) = k - Len(queue)
    BY <1>1, <1>4
  <2> QED
    BY <1>0, <2>1
<1>5. CASE j \in 1 .. Len(queue) /\ k \notin 1 .. Len(queue)
  BY <1>1, <1>2, <1>5
<1>6. CASE j \notin 1 .. Len(queue) /\ k \in 1 .. Len(queue)
  BY <1>1, <1>2, <1>6
<1> QED
  BY <1>3, <1>4, <1>5, <1>6

\* The service takes a command from the queue: what was pending still is.
LEMMA TakeEffect ==
    ASSUME TypeOK, StartTimer
    PROVE  /\ queue' \in Seq(Timers) /\ Len(queue') <= QueueLength
           /\ active' \subseteq Timers
           /\ \A t : Pending(t)' <=> Pending(t)
           /\ \A t : (\A j, k \in DOMAIN queue : queue[j] = t /\ queue[k] = t => j = k) =>
                 /\ \A j, k \in DOMAIN queue' : queue'[j] = t /\ queue'[k] = t => j = k
                 /\ (t \in active => ~InQueue(t)) => (t \in active' => ~InQueue(t)')
<1>1. /\ queue \in Seq(Timers) /\ queue # <<>> /\ Len(queue) \in Nat
      /\ DOMAIN queue = 1 .. Len(queue) /\ queue' = Tail(queue)
      /\ active' = active \cup {Head(queue)}
      /\ Len(queue) <= QueueLength
  BY DEF TypeOK, StartTimer
<1>2. /\ queue' \in Seq(Timers) /\ Len(queue') = Len(queue) - 1 /\ Len(queue) >= 1
      /\ DOMAIN queue' = 1 .. Len(queue')
      /\ \A k \in 1 .. Len(queue') : queue'[k] = queue[k + 1]
      /\ Head(queue) = queue[1] /\ queue[1] \in Timers
  BY <1>1
<1>3. \A k \in DOMAIN queue' : k + 1 \in DOMAIN queue /\ queue'[k] = queue[k + 1]
  BY <1>1, <1>2
<1>4. \A k \in DOMAIN queue : k = 1 \/ (k - 1 \in DOMAIN queue' /\ queue'[k - 1] = queue[k])
  <2> SUFFICES ASSUME NEW k \in DOMAIN queue, k # 1
               PROVE  k - 1 \in DOMAIN queue' /\ queue'[k - 1] = queue[k]
    OBVIOUS
  <2>1. k - 1 \in 1 .. Len(queue') /\ (k - 1) + 1 = k
    BY <1>1, <1>2
  <2> QED
    BY <1>2, <2>1
<1>5. ASSUME NEW t PROVE Pending(t)' <=> Pending(t)
  <2>1. ASSUME Pending(t)' PROVE Pending(t)
    <3>1. CASE t \in active
      BY <3>1 DEF Pending
    <3>2. CASE t = queue[1]
      BY <1>1, <1>2, <3>2 DEF Pending
    <3>3. CASE \E k \in DOMAIN queue' : queue'[k] = t
      BY <1>3, <3>3 DEF Pending
    <3> QED
      BY <1>1, <1>2, <2>1, <3>1, <3>2, <3>3 DEF Pending
  <2>2. ASSUME Pending(t) PROVE Pending(t)'
    <3>1. CASE t \in active
      BY <1>1, <3>1 DEF Pending
    <3>2. CASE \E k \in DOMAIN queue : queue[k] = t
      BY <1>1, <1>2, <1>4, <3>2 DEF Pending
    <3> QED
      BY <2>2, <3>1, <3>2 DEF Pending
  <2> QED
    BY <2>1, <2>2
<1>6. ASSUME NEW t, \A j, k \in DOMAIN queue : queue[j] = t /\ queue[k] = t => j = k
      PROVE  /\ \A j, k \in DOMAIN queue' : queue'[j] = t /\ queue'[k] = t => j = k
             /\ (t \in active => ~InQueue(t)) => (t \in active' => ~InQueue(t)')
  <2>1. ASSUME NEW j \in DOMAIN queue', NEW k \in DOMAIN queue', queue'[j] = t, queue'[k] = t
        PROVE  j = k
    <3>1. j + 1 = k + 1
      BY <1>3, <1>6, <2>1
    <3> QED
      BY <1>2, <3>1
  <2>2. ASSUME t \in active => ~InQueue(t), t \in active', InQueue(t)'
        PROVE  FALSE
    <3>1. PICK k \in DOMAIN queue' : queue'[k] = t
      BY <2>2 DEF InQueue
    <3>2. k + 1 \in DOMAIN queue /\ queue[k + 1] = t
      BY <1>3, <3>1
    <3>3. t = queue[1]
      BY <1>1, <1>2, <2>2, <3>2 DEF InQueue
    <3>4. k + 1 = 1
      BY <1>1, <1>2, <1>6, <3>2, <3>3
    <3> QED
      BY <1>2, <3>4
  <2> QED
    BY <2>1, <2>2
<1>7. /\ Len(queue') <= QueueLength
      /\ active' \subseteq Timers
  BY <1>1, <1>2, QueueLengthAssumption DEF TypeOK
<1> QED
  BY <1>2, <1>5, <1>6, <1>7

-----------------------------------------------------------------------------
(***************************************************************************)
(* Steps of the timer service.                                             *)
(***************************************************************************)
\* Initially no timer is pending and the outputs are off.
LEMMA LockInit == Init => LockInv
<1> SUFFICES ASSUME Init PROVE LockInv
  OBVIOUS
<1> USE DEF Init
<1>1. TypeOK
  BY QueueLengthAssumption, MaxInterruptsAssumption
  DEF TypeOK, Timers, Sensors, Switches, Outputs
<1>2. \A t : ~Pending(t)
  BY DEF Pending
<1>3. StartedOnce /\ FlagsMatchTimers
  BY <1>2 DEF StartedOnce, FlagsMatchTimers, Flagged, Switches, Sensors, Outputs
<1>4. OutputsGuarded
  BY DEF OutputsGuarded, Outputs
<1>5. OnePressed
  BY DEF OnePressed, Switches, Sensors
<1>6. ReadingsKnown /\ StatesFollow
  BY DEF ReadingsKnown, StatesFollow, Switches, Sensors, Timers
<1> QED
  BY <1>1, <1>3, <1>4, <1>5, <1>6 DEF LockInv

\* The invariant speaks of the queue and of the running timers by way of Pending
\* only, apart from StartedOnce.
LEMMA StartTimerInv ==
    ASSUME LockInv, StartTimer
    PROVE  LockInv'
<1> USE DEF outputVars, stateVars, inputs
<1>0. UNCHANGED <<callback, output, outputVars, stateVars, inputs>>
  BY DEF StartTimer
<1>1. \A t : Pending(t)' <=> Pending(t)
  BY TakeEffect DEF LockInv
<1>2. TypeOK'
  BY <1>0, TakeEffect DEF LockInv, TypeOK
<1>3. StartedOnce'
  <2> SUFFICES ASSUME NEW t \in Flagged
               PROVE  /\ \A j, k \in DOMAIN queue' : queue'[j] = t /\ queue'[k] = t => j = k
                      /\ t \in active' => ~InQueue(t)'
                      /\ callback' = t => ~Pending(t)'
    BY DEF StartedOnce
  <2>1. /\ \A j, k \in DOMAIN queue : queue[j] = t /\ queue[k] = t => j = k
        /\ t \in active => ~InQueue(t)
        /\ callback = t => ~Pending(t)
    BY DEF LockInv, StartedOnce
  <2> QED
    BY <1>0, <1>1, <2>1, TakeEffect DEF LockInv
<1>4. FlagsMatchTimers'
  BY <1>0, <1>1 DEF LockInv, FlagsMatchTimers
<1>5. OutputsGuarded'
  BY <1>0, <1>1 DEF LockInv, OutputsGuarded
<1>6. OnePressed' /\ ReadingsKnown' /\ StatesFollow'
  BY <1>0, <1>1 DEF LockInv, OnePressed, ReadingsKnown, StatesFollow, Follows
<1> QED
  BY <1>2, <1>3, <1>4, <1>5, <1>6 DEF LockInv

\* A timer expires: nothing changes for the others, and one with a flag is not
\* pending any more.
LEMMA ExpireEffect ==
    ASSUME TypeOK, StartedOnce, NEW t, Expires(t)
    PROVE  /\ Pending(t) /\ callback = "none"
           /\ queue' = queue /\ active' \subseteq active
           /\ \A u : u # t => (Pending(u)' <=> Pending(u))
           /\ t \in Flagged => ~Pending(t)'
           /\ \A u \in Flagged : u \in active' => ~InQueue(u)'
<1> USE DEF Expires
<1>1. \A u : InQueue(u)' <=> InQueue(u)
  BY DEF InQueue
<1>2. Pending(t)
  BY PendingSplit
<1>3. \A u : u # t => (Pending(u)' <=> Pending(u))
  BY <1>1, PendingSplit
<1>4. t \in Flagged => ~Pending(t)'
  BY <1>1, PendingSplit DEF StartedOnce
<1>5. \A u \in Flagged : u \in active' => ~InQueue(u)'
  BY <1>1 DEF StartedOnce
<1> QED
  BY <1>2, <1>3, <1>4, <1>5

\* The first half of the callback of an output: the pin goes off, the callback
\* takes the place of the timer.
LEMMA OutputTimeoutInv ==
    ASSUME LockInv, NEW t \in Timers, OutputTimeout(t)
    PROVE  LockInv'
<1> USE DEF outputVars, stateVars, inputs
<1>0. /\ t \in Outputs /\ on' = [on EXCEPT ![t] = 0] /\ callback' = t
      /\ UNCHANGED <<output, buzzer, motorStatus, stateVars, inputs>>
      /\ Expires(t)
  BY DEF OutputTimeout
<1>1. /\ Pending(t) /\ callback = "none"
      /\ queue' = queue /\ active' \subseteq active
      /\ \A u : u # t => (Pending(u)' <=> Pending(u))
      /\ \A u \in Flagged : u \in active' => ~InQueue(u)'
  BY <1>0, ExpireEffect DEF LockInv
<1>2. t \notin Flagged /\ t \notin Sensors
  BY <1>0 DEF Flagged, Switches, Outputs, Sensors
<1>3. TypeOK'
  BY <1>0, <1>1 DEF LockInv, TypeOK
<1>4. StartedOnce'
  BY <1>0, <1>1, <1>2 DEF LockInv, StartedOnce
<1>5. FlagsMatchTimers'
  BY <1>0, <1>1, <1>2 DEF LockInv, FlagsMatchTimers, Flagged, Switches, Sensors
<1>6. OutputsGuarded'
  <2>1. ASSUME NEW u \in Outputs, on'[u] = 1 PROVE Pending(u)' \/ lost'[u] = "full"
    <3>1. u # t /\ on[u] = 1
      BY <1>0, <2>1 DEF LockInv, TypeOK
    <3> QED
      BY <1>0, <1>1, <3>1 DEF LockInv, OutputsGuarded
  <2>2. buzzer' = 1 => \E u \in {"good", "bad"} :
                          Pending(u)' \/ callback' = u \/ lost'[u] = "full"
    BY <1>0, <1>1 DEF LockInv, OutputsGuarded
  <2>3. (motorStatus' = 1 /\ on'["motor"] = 0) => callback' = "motor"
    BY <1>0, <1>1 DEF LockInv, OutputsGuarded, TypeOK, Outputs
  <2> QED
    BY <2>1, <2>2, <2>3 DEF OutputsGuarded
<1>7. OnePressed' /\ ReadingsKnown'
  BY <1>0, <1>1, <1>2 DEF LockInv, OnePressed, ReadingsKnown, Sensors, Switches
<1>8. StatesFollow'
  BY <1>0, <1>1, <1>2 DEF LockInv, StatesFollow, Follows, Sensors, Switches
<1> QED
  BY <1>3, <1>4, <1>5, <1>6, <1>7, <1>8 DEF LockInv

\* Its second half: the buzzer, or the motor's status.
LEMMA OutputTimeoutEndsInv ==
    ASSUME LockInv, NEW t \in Timers, OutputTimeoutEnds(t)
    PROVE  LockInv'
<1> USE DEF outputVars, stateVars, inputs, OutputTimeoutEnds
<1>1. \A u : (Pending(u)' <=> Pending(u)) /\ (InQueue(u)' <=> InQueue(u))
  BY DEF Pending, InQueue
<1>2. t \notin Flagged /\ t \notin Sensors
  BY DEF Flagged, Switches, Outputs, Sensors
<1>3. TypeOK'
  BY DEF LockInv, TypeOK
<1>4. StartedOnce'
  BY <1>1, <1>2 DEF LockInv, StartedOnce, Flagged, Switches
<1>5. FlagsMatchTimers'
  BY <1>1, <1>2 DEF LockInv, FlagsMatchTimers, Flagged, Switches, Sensors
<1>6. OutputsGuarded'
  <2>1. \A u \in Outputs : on'[u] = 1 => Pending(u)' \/ lost'[u] = "full"
    BY <1>1 DEF LockInv, OutputsGuarded
  <2>2. buzzer' = 1 => \E u \in {"good", "bad"} :
                          Pending(u)' \/ callback' = u \/ lost'[u] = "full"
    BY <1>1 DEF LockInv, OutputsGuarded
  <2>3. (motorStatus' = 1 /\ on'["motor"] = 0) => callback' = "motor"
    BY DEF LockInv, OutputsGuarded
  <2> QED
    BY <2>1, <2>2, <2>3 DEF OutputsGuarded
<1>7. OnePressed' /\ ReadingsKnown'
  BY <1>1, <1>2 DEF LockInv, OnePressed, ReadingsKnown, Sensors, Switches
<1>8. StatesFollow'
  BY <1>1, <1>2 DEF LockInv, StatesFollow, Follows, Sensors, Switches
<1> QED
  BY <1>3, <1>4, <1>5, <1>6, <1>7, <1>8 DEF LockInv

\* The callback of a sensor reads the pin: from here on an edge may come too late
\* for a switch.
LEMMA SensorTimeoutInv ==
    ASSUME LockInv, NEW t \in Timers, SensorTimeout(t)
    PROVE  LockInv'
<1> USE DEF outputVars, stateVars, inputs
<1>0. /\ t \in Sensors /\ output' = level[t] /\ callback' = t
      /\ UNCHANGED <<outputVars, stateVars, inputs>>
      /\ Expires(t)
  BY DEF SensorTimeout
<1>1. /\ Pending(t) /\ callback = "none"
      /\ queue' = queue /\ active' \subseteq active
      /\ \A u : u # t => (Pending(u)' <=> Pending(u))
      /\ t \in Flagged => ~Pending(t)'
      /\ \A u \in Flagged : u \in active' => ~InQueue(u)'
  BY <1>0, ExpireEffect DEF LockInv
<1>2. t \notin Outputs /\ t # "debounce"
  BY <1>0 DEF Switches, Outputs, Sensors
<1>3. TypeOK'
  BY <1>0, <1>1 DEF LockInv, TypeOK
<1>4. StartedOnce'
  BY <1>0, <1>1, <1>2 DEF LockInv, StartedOnce
<1>5. FlagsMatchTimers'
  BY <1>0, <1>1, <1>2 DEF LockInv, FlagsMatchTimers, Flagged, Switches
<1>6. OutputsGuarded'
  BY <1>0, <1>1, <1>2 DEF LockInv, OutputsGuarded, Outputs
<1>7. OnePressed' /\ ReadingsKnown'
  BY <1>0, <1>1, <1>2 DEF LockInv, OnePressed, ReadingsKnown, TypeOK, Sensors, Switches
<1>8. StatesFollow'
  BY <1>0, <1>1, <1>2 DEF LockInv, StatesFollow, Follows, Sensors, Switches
<1> QED
  BY <1>3, <1>4, <1>5, <1>6, <1>7, <1>8 DEF LockInv

\* The callback of a switch ends: what it read is the lock's state, and the flag
\* goes down.
LEMMA SwitchTimeoutEndsInv ==
    ASSUME LockInv, NEW t \in Timers, SwitchTimeoutEnds(t)
    PROVE  LockInv'
<1> USE DEF outputVars, stateVars, inputs, SwitchTimeoutEnds
<1>1. \A u : (Pending(u)' <=> Pending(u)) /\ (InQueue(u)' <=> InQueue(u))
  BY DEF Pending, InQueue
<1>2. t \in Flagged /\ t \notin Outputs /\ ~Pending(t)
  BY DEF LockInv, StartedOnce, Flagged, Switches, Outputs
<1>3. TypeOK'
  BY DEF LockInv, TypeOK, Sensors, Outputs, Switches
<1>4. StartedOnce'
  BY <1>1 DEF LockInv, StartedOnce, Flagged, Switches
<1>5. FlagsMatchTimers'
  BY <1>1, <1>2 DEF LockInv, FlagsMatchTimers, Flagged, Switches, TypeOK
<1>6. OutputsGuarded'
  BY <1>1, <1>2 DEF LockInv, OutputsGuarded, Outputs
<1>7. OnePressed' /\ ReadingsKnown'
  BY <1>1, <1>2 DEF LockInv, OnePressed, ReadingsKnown, Sensors, Switches
<1>8. StatesFollow'
  <2>1. currentDoorState' # level'["proximity"] =>
            Follows("proximity")' \/ lost'["proximity"] \in {"boot", "full"}
    BY <1>1 DEF LockInv, StatesFollow, Follows, Switches
  <2>2. ASSUME NEW s \in Switches, level'[s] = 0,
               currentLockState' # (IF s = "open" THEN 0 ELSE 1)
        PROVE  Follows(s)' \/ lost'[s] \in {"boot", "full", "late"}
    <3>1. CASE s = t
      BY <1>1, <1>2, <2>2, <3>1
      DEF LockInv, TypeOK, ReadingsKnown, StatesFollow, Follows, Switches
    <3>2. CASE s # t /\ output = 0
      BY <1>1, <2>2, <3>2 DEF LockInv, ReadingsKnown, Follows
    <3>3. CASE s # t /\ output = 1
      BY <1>1, <2>2, <3>3 DEF LockInv, StatesFollow, Follows
    <3> QED
      BY <3>1, <3>2, <3>3 DEF LockInv, TypeOK
  <2> QED
    BY <2>1, <2>2 DEF StatesFollow
<1> QED
  BY <1>3, <1>4, <1>5, <1>6, <1>7, <1>8 DEF LockInv

\* The second part of proximityTimerCallback stores what was read.
LEMMA ProximityTimeoutEndsInv ==
    ASSUME LockInv, ProximityTimeoutEnds
    PROVE  LockInv'
<1> USE DEF outputVars, stateVars, inputs, ProximityTimeoutEnds
<1>1. \A u : (Pending(u)' <=> Pending(u)) /\ (InQueue(u)' <=> InQueue(u))
  BY DEF Pending, InQueue
<1>3. TypeOK'
  BY DEF LockInv, TypeOK, Sensors, Outputs, Switches
<1>4. StartedOnce'
  BY <1>1 DEF LockInv, StartedOnce, Flagged, Switches
<1>5. FlagsMatchTimers'
  BY <1>1 DEF LockInv, FlagsMatchTimers, Flagged, Switches
<1>6. OutputsGuarded'
  BY <1>1 DEF LockInv, OutputsGuarded, Outputs
<1>7. OnePressed' /\ ReadingsKnown'
  BY <1>1 DEF LockInv, OnePressed, ReadingsKnown, Sensors, Switches
<1>8. StatesFollow'
  BY <1>1 DEF LockInv, StatesFollow, ReadingsKnown, Follows, Switches
<1> QED
  BY <1>3, <1>4, <1>5, <1>6, <1>7, <1>8 DEF LockInv

\* The keypad's flag is cleared when its timer, the only pending one, expires.
LEMMA DebounceTimeoutInv ==
    ASSUME LockInv, DebounceTimeout
    PROVE  LockInv'
<1> USE DEF outputVars, stateVars, inputs
<1>0. /\ running' = [running EXCEPT !["debounce"] = FALSE]
      /\ UNCHANGED <<callback, output, outputVars, currentLockState, currentDoorState,
                     inputs>>
      /\ Expires("debounce")
  BY DEF DebounceTimeout
<1>1. /\ callback = "none"
      /\ queue' = queue /\ active' \subseteq active
      /\ \A u : u # "debounce" => (Pending(u)' <=> Pending(u))
      /\ ~Pending("debounce")'
      /\ \A u \in Flagged : u \in active' => ~InQueue(u)'
  BY <1>0, ExpireEffect DEF LockInv, Flagged
<1>3. TypeOK'
  BY <1>0, <1>1 DEF LockInv, TypeOK
<1>4. StartedOnce'
  BY <1>0, <1>1 DEF LockInv, StartedOnce, Flagged, Switches
<1>5. FlagsMatchTimers'
  BY <1>0, <1>1 DEF LockInv, FlagsMatchTimers, Flagged, Switches, TypeOK
<1>6. OutputsGuarded'
  BY <1>0, <1>1 DEF LockInv, OutputsGuarded, Outputs
<1>7. OnePressed' /\ ReadingsKnown'
  BY <1>0, <1>1 DEF LockInv, OnePressed, ReadingsKnown, Sensors, Switches
<1>8. StatesFollow'
  BY <1>0, <1>1 DEF LockInv, StatesFollow, Follows, Sensors, Switches
<1> QED
  BY <1>3, <1>4, <1>5, <1>6, <1>7, <1>8 DEF LockInv

-----------------------------------------------------------------------------
(***************************************************************************)
(* Interrupts.                                                             *)
(***************************************************************************)

\* What an interrupt that starts timers leaves alone, and that it keeps
\* StartedOnce if the timers with a flag among them are at rest.
LEMMA InterruptEffect ==
    ASSUME TypeOK, StartedOnce, NEW ts \in Seq(Timers), StartFromISR(ts),
           UNCHANGED <<active, callback>>,
           \A j, k \in 1 .. Len(ts) : ts[j] = ts[k] => j = k,
           \A k \in 1 .. Len(ts) : ts[k] \in Flagged => ~Pending(ts[k]) /\ callback # ts[k]
    PROVE  /\ queue' \in Seq(Timers) /\ Len(queue') <= QueueLength
           /\ lost' \in [Timers -> {"no", "boot", "full", "late"}]
           /\ \A t \in Timers : Pending(t) => Pending(t)'
           /\ \A k \in 1 .. Len(ts) : Pending(ts[k])' \/ lost'[ts[k]] = "full"
           /\ \A t \in Timers : (\A k \in 1 .. Len(ts) : ts[k] # t) =>
                 /\ Pending(t)' <=> Pending(t)
                 /\ lost'[t] = lost[t]
           /\ StartedOnce'
<1>1. /\ \A t \in Timers : Pending(t) => Pending(t)'
      /\ \A k \in 1 .. Len(ts) : Pending(ts[k])' \/ lost'[ts[k]] = "full"
      /\ \A t \in Timers : (\A k \in 1 .. Len(ts) : ts[k] # t) =>
            /\ Pending(t)' <=> Pending(t)
            /\ lost'[t] = lost[t]
  BY StartEffect, PendingSplit
<1>2. StartedOnce'
  <2> SUFFICES ASSUME NEW t \in Flagged
               PROVE  /\ \A j, k \in DOMAIN queue' : queue'[j] = t /\ queue'[k] = t => j = k
                      /\ t \in active' => ~InQueue(t)'
                      /\ callback' = t => ~Pending(t)'
    BY DEF StartedOnce
  <2>0. t \in Timers
    BY DEF Flagged, Timers, Sensors
  <2>1. /\ \A j, k \in DOMAIN queue : queue[j] = t /\ queue[k] = t => j = k
        /\ t \in active => ~InQueue(t)
        /\ callback = t => ~Pending(t)
    BY DEF StartedOnce
  <2>2. CASE \A k \in 1 .. Len(ts) : ts[k] # t
    <3>1. InQueue(t)' <=> InQueue(t)
      BY <2>0, <2>2, StartEffect
    <3>2. \A j, k \in DOMAIN queue' : queue'[j] = t /\ queue'[k] = t => j = k
      BY <2>0, <2>1, <2>2, StartOnce
    <3> QED
      BY <1>1, <2>0, <2>1, <2>2, <3>1, <3>2
  <2>3. CASE \E k \in 1 .. Len(ts) : ts[k] = t
    <3>1. ~Pending(t) /\ ~InQueue(t) /\ t \notin active /\ callback # t
      BY <2>3, PendingSplit
    <3>2. \A j, k \in DOMAIN queue' : queue'[j] = t /\ queue'[k] = t => j = k
      BY <2>0, <2>1, <3>1, StartOnce
    <3> QED
      BY <3>1, <3>2
  <2> QED
    BY <2>2, <2>3
<1> QED
  BY <1>1, <1>2, QueueAfterStart, StartEffect

\* An edge of a limit switch.
LEMMA LockSwitchInv ==
    ASSUME LockInv, NEW s \in Switches, LockSwitchStateInterrupt(s),
           interrupts' \in 0 .. MaxInterrupts
    PROVE  LockInv'
<1> USE DEF outputVars
<1>0. /\ CanTurn(s) /\ level' = [level EXCEPT ![s] = 1 - @]
      /\ UNCHANGED <<active, callback, output, outputVars, currentLockState,
                     currentDoorState>>
  BY DEF LockSwitchStateInterrupt
<1>1. /\ s \in Sensors /\ s \in Timers /\ s \in Flagged /\ s \notin Outputs
      /\ s # "proximity" /\ s # "debounce"
  BY DEF Switches, Sensors, Timers, Flagged, Outputs
<1>2. level' \in [Sensors -> {0, 1}] /\ \A u \in Sensors : u # s => level'[u] = level[u]
  BY <1>0, <1>1 DEF LockInv, TypeOK
<1>3. OnePressed'
  <2> SUFFICES ASSUME NEW a \in Switches, NEW b \in Switches, a # b
               PROVE  level'[a] = 1 \/ level'[b] = 1
    BY DEF OnePressed
  <2>1. level[a] = 1 \/ level[b] = 1
    BY DEF LockInv, OnePressed
  <2> QED
    BY <1>0, <1>2, <2>1 DEF CanTurn, LockInv, TypeOK, Switches, Sensors
<1>4. CASE running[s]
  <2>0. /\ lost' = [lost EXCEPT ![s] = IF callback = s THEN "late" ELSE @]
        /\ UNCHANGED <<queue, running>>
    BY <1>4 DEF LockSwitchStateInterrupt
  <2>1. \A u : (Pending(u)' <=> Pending(u)) /\ (InQueue(u)' <=> InQueue(u))
    BY <1>0, <2>0 DEF Pending, InQueue
  <2>2. TypeOK'
    BY <1>0, <1>2, <2>0 DEF LockInv, TypeOK
  <2>3. StartedOnce' /\ FlagsMatchTimers'
    BY <1>0, <1>1, <2>0, <2>1 DEF LockInv, StartedOnce, FlagsMatchTimers, TypeOK, Timers
  <2>4. OutputsGuarded'
    BY <1>0, <1>1, <2>0, <2>1 DEF LockInv, OutputsGuarded, TypeOK, Outputs, Timers
  <2>5. Pending(s) \/ callback = s
    BY <1>4 DEF LockInv, FlagsMatchTimers
  <2>6. ReadingsKnown'
    <3>1. (callback' = "proximity" /\ output' # level'["proximity"]) =>
             Pending("proximity")' \/ lost'["proximity"] \in {"boot", "full"}
      BY <1>0, <1>1, <1>2, <2>0, <2>1
      DEF LockInv, ReadingsKnown, TypeOK, Sensors, Timers
    <3>2. \A a \in Switches :
             (callback' = a /\ output' # level'[a]) => lost'[a] \in {"boot", "full", "late"}
      BY <1>0, <1>1, <1>2, <2>0, <2>1
      DEF LockInv, ReadingsKnown, TypeOK, Sensors, Timers
    <3>3. \A a, r \in Switches :
             (callback' = a /\ a # r /\ output' = 0 /\ level'[r] = 0) =>
                Pending(r)' \/ lost'[r] \in {"boot", "full", "late"}
      BY <1>0, <1>1, <1>2, <2>0, <2>1, <2>5
      DEF LockInv, ReadingsKnown, TypeOK, Sensors, Timers
    <3> QED
      BY <3>1, <3>2, <3>3 DEF ReadingsKnown
  <2>7. StatesFollow'
    <3>1. currentDoorState' # level'["proximity"] =>
              Follows("proximity")' \/ lost'["proximity"] \in {"boot", "full"}
      BY <1>0, <1>1, <1>2, <2>0, <2>1
      DEF LockInv, StatesFollow, Follows, TypeOK, Sensors, Timers
    <3>2. ASSUME NEW a \in Switches, level'[a] = 0,
                 currentLockState' # (IF a = "open" THEN 0 ELSE 1)
          PROVE  Follows(a)' \/ lost'[a] \in {"boot", "full", "late"}
      <4>1. CASE a = s
        BY <1>0, <1>1, <2>0, <2>1, <2>5, <4>1 DEF LockInv, Follows, TypeOK
      <4>2. CASE a # s
        <5>1. a \in Sensors /\ a \in Timers
          BY DEF Sensors, Timers
        <5> QED
          BY <1>0, <1>2, <2>0, <2>1, <3>2, <4>2, <5>1
          DEF LockInv, StatesFollow, Follows, TypeOK
      <4> QED
        BY <4>1, <4>2
    <3> QED
      BY <3>1, <3>2 DEF StatesFollow
  <2> QED
    BY <1>3, <2>2, <2>3, <2>4, <2>6, <2>7 DEF LockInv
<1>5. CASE ~running[s]
  <2>0. /\ StartFromISR(<<s>>)
        /\ running' = [running EXCEPT ![s] = (s \in Accepted(<<s>>))]
    BY <1>5 DEF LockSwitchStateInterrupt
  <2>1. ~Pending(s) /\ callback # s
    BY <1>5 DEF LockInv, FlagsMatchTimers
  <2>2. /\ queue' \in Seq(Timers) /\ Len(queue') <= QueueLength
        /\ lost' \in [Timers -> {"no", "boot", "full", "late"}]
        /\ Pending(s)' \/ lost'[s] = "full"
        /\ \A t \in Timers : t # s => (Pending(t)' <=> Pending(t)) /\ lost'[t] = lost[t]
        /\ StartedOnce'
    <3> DEFINE ts == <<s>>
    <3>1. ts \in Seq(Timers) /\ Len(ts) = 1 /\ ts[1] = s /\ StartFromISR(ts)
      BY <1>1, <2>0
    <3> HIDE DEF ts
    <3>2. /\ \A j, k \in 1 .. Len(ts) : ts[j] = ts[k] => j = k
          /\ \A k \in 1 .. Len(ts) : ts[k] \in Flagged => ~Pending(ts[k]) /\ callback # ts[k]
          /\ TypeOK /\ StartedOnce /\ UNCHANGED <<active, callback>>
      BY <1>0, <2>1, <3>1 DEF LockInv
    <3>3. \A t : (\A k \in 1 .. Len(ts) : ts[k] # t) <=> t # s
      BY <3>1
    <3>4. /\ queue' \in Seq(Timers) /\ Len(queue') <= QueueLength
          /\ lost' \in [Timers -> {"no", "boot", "full", "late"}]
          /\ \A t \in Timers : Pending(t) => Pending(t)'
          /\ \A k \in 1 .. Len(ts) : Pending(ts[k])' \/ lost'[ts[k]] = "full"
          /\ \A t \in Timers : (\A k \in 1 .. Len(ts) : ts[k] # t) =>
                /\ Pending(t)' <=> Pending(t)
                /\ lost'[t] = lost[t]
          /\ StartedOnce'
      BY <3>1, <3>2, InterruptEffect
    <3> QED
      BY <3>1, <3>3, <3>4
  <2>3. running'[s] <=> Pending(s)'
    <3>1. s \in Accepted(<<s>>) <=> Fit(<<s>>) >= 1
      <4>1. <<s>> \in Seq(Timers) /\ Len(<<s>>) = 1 /\ <<s>>[1] = s
        BY <1>1
      <4>2. Fit(<<s>>) \in 0 .. 1
        BY <2>0, <4>1, QueueAfterStart DEF LockInv
      <4> QED
        BY <4>1, <4>2 DEF Accepted
    <3>2. Pending(s)' <=> Fit(<<s>>) >= 1
      <4>1. <<s>> \in Seq(Timers) /\ Len(<<s>>) = 1 /\ <<s>>[1] = s
        BY <1>1
      <4>2. /\ Fit(<<s>>) \in 0 .. 1
            /\ queue \in Seq(Timers) /\ queue' \in Seq(Timers)
            /\ Len(queue') = Len(queue) + Fit(<<s>>)
            /\ \A k \in 1 .. Len(queue) : queue'[k] = queue[k]
            /\ \A k \in 1 .. Fit(<<s>>) : queue'[Len(queue) + k] = <<s>>[k]
        BY <2>0, <4>1, QueueAfterStart DEF LockInv, TypeOK
      <4>3. CASE Fit(<<s>>) = 0
        <5>1. \A k \in DOMAIN queue' : k \in DOMAIN queue /\ queue'[k] = queue[k]
          BY <4>2, <4>3
        <5> QED
          BY <1>0, <2>1, <4>3, <5>1 DEF Pending
      <4>4. CASE Fit(<<s>>) = 1
        <5>1. Len(queue) + 1 \in DOMAIN queue' /\ queue'[Len(queue) + 1] = s
          BY <4>1, <4>2, <4>4
        <5> QED
          BY <4>4, <5>1 DEF Pending
      <4> QED
        BY <4>2, <4>3, <4>4
    <3> QED
      BY <1>1, <2>0, <3>1, <3>2 DEF LockInv, TypeOK, Flagged
  <2>4. TypeOK'
    BY <1>0, <1>2, <2>0, <2>2 DEF LockInv, TypeOK
  <2>5. FlagsMatchTimers'
    <3>1. ASSUME NEW a \in Switches PROVE running'[a] <=> Pending(a)' \/ callback' = a
      <4>1. a \in Timers
        BY DEF Timers, Sensors
      <4> QED
        BY <1>0, <2>0, <2>1, <2>2, <2>3, <4>1 DEF LockInv, FlagsMatchTimers, TypeOK
    <3>2. "debounce" \in Timers /\ "debounce" # s
      BY <1>1 DEF Timers
    <3> QED
      BY <2>0, <2>2, <3>1, <3>2 DEF LockInv, FlagsMatchTimers, TypeOK
  <2>6. OutputsGuarded'
    BY <1>0, <1>1, <2>2 DEF LockInv, OutputsGuarded, Outputs, Timers
  <2>7. ReadingsKnown'
    BY <1>0, <1>1, <1>2, <2>1, <2>2 DEF LockInv, ReadingsKnown, Sensors, Timers
  <2>8. StatesFollow'
    BY <1>0, <1>1, <1>2, <2>1, <2>2 DEF LockInv, StatesFollow, Follows, Sensors, Timers
  <2> QED
    BY <1>3, <2>2, <2>4, <2>5, <2>6, <2>7, <2>8 DEF LockInv
<1> QED
  BY <1>4, <1>5

\* An edge of the door sensor.
LEMMA ProximityInv ==
    ASSUME LockInv, ProximitySensorInterrupt, interrupts' \in 0 .. MaxInterrupts
    PROVE  LockInv'
<1> USE DEF outputVars, stateVars
<1>0. /\ level' = [level EXCEPT !["proximity"] = 1 - @]
      /\ StartFromISR(<<"proximity">>)
      /\ UNCHANGED <<active, callback, output, outputVars, stateVars>>
  BY DEF ProximitySensorInterrupt
<1>1. "proximity" \in Timers \ (Flagged \cup Outputs)
  BY DEF Timers, Sensors, Flagged, Outputs, Switches
<1>2. /\ queue' \in Seq(Timers) /\ Len(queue') <= QueueLength
      /\ lost' \in [Timers -> {"no", "boot", "full", "late"}]
      /\ Pending("proximity")' \/ lost'["proximity"] = "full"
      /\ \A t \in Timers : t # "proximity" =>
            (Pending(t)' <=> Pending(t)) /\ lost'[t] = lost[t]
      /\ StartedOnce'
  <2> DEFINE ts == <<"proximity">>
  <2>1. ts \in Seq(Timers) /\ Len(ts) = 1 /\ ts[1] = "proximity" /\ StartFromISR(ts)
    BY <1>0, <1>1
  <2> HIDE DEF ts
  <2>2. /\ \A j, k \in 1 .. Len(ts) : ts[j] = ts[k] => j = k
        /\ \A k \in 1 .. Len(ts) : ts[k] \notin Flagged
        /\ TypeOK /\ StartedOnce /\ UNCHANGED <<active, callback>>
    BY <1>0, <1>1, <2>1 DEF LockInv
  <2>3. \A t : (\A k \in 1 .. Len(ts) : ts[k] # t) <=> t # "proximity"
    BY <2>1
  <2>4. /\ queue' \in Seq(Timers) /\ Len(queue') <= QueueLength
        /\ lost' \in [Timers -> {"no", "boot", "full", "late"}]
        /\ \A t \in Timers : Pending(t) => Pending(t)'
        /\ \A k \in 1 .. Len(ts) : Pending(ts[k])' \/ lost'[ts[k]] = "full"
        /\ \A t \in Timers : (\A k \in 1 .. Len(ts) : ts[k] # t) =>
              /\ Pending(t)' <=> Pending(t)
              /\ lost'[t] = lost[t]
        /\ StartedOnce'
    BY <2>1, <2>2, InterruptEffect
  <2> QED
    BY <2>1, <2>3, <2>4
<1>3. TypeOK'
  BY <1>0, <1>2 DEF LockInv, TypeOK, Sensors
<1>4. FlagsMatchTimers'
  BY <1>0, <1>1, <1>2 DEF LockInv, FlagsMatchTimers, Flagged, Switches, Timers, Sensors
<1>5. OutputsGuarded'
  BY <1>0, <1>1, <1>2 DEF LockInv, OutputsGuarded, Outputs, Timers
<1>6. OnePressed' /\ ReadingsKnown' /\ StatesFollow'
  BY <1>0, <1>1, <1>2
  DEF LockInv, OnePressed, ReadingsKnown, StatesFollow, Follows, TypeOK, Switches, Sensors,
      Timers
<1> QED
  BY <1>2, <1>3, <1>4, <1>5, <1>6 DEF LockInv

\* A key: the debounce timer is started first, then those of the outputs that the
\* verdict switches on.
LEMMA KeypadInv ==
    ASSUME LockInv, NEW what \in {"edit", "wrong", "right"}, KeypadInterrupt(what),
           interrupts' \in 0 .. MaxInterrupts
    PROVE  LockInv'
<1> USE DEF outputVars
<1>0. /\ ~running["debounce"]
      /\ running' = [running EXCEPT !["debounce"] = TRUE]
      /\ UNCHANGED <<active, callback, output, currentLockState, currentDoorState, level>>
  BY DEF KeypadInterrupt
<1>1. /\ {"debounce", "good", "bad", "motor"} \subseteq Timers \ Sensors
      /\ \A t \in {"good", "bad", "motor"} : t \in Outputs /\ t \notin Flagged
      /\ "debounce" \notin Outputs
  BY DEF Timers, Sensors, Outputs, Flagged, Switches
<1>2. ~Pending("debounce") /\ callback # "debounce"
  BY <1>0 DEF LockInv, FlagsMatchTimers, TypeOK, Sensors, Outputs, Switches
<1> DEFINE Effect(S) ==
             /\ queue' \in Seq(Timers) /\ Len(queue') <= QueueLength
             /\ lost' \in [Timers -> {"no", "boot", "full", "late"}]
             /\ \A t \in Timers : Pending(t) => Pending(t)'
             /\ \A t \in S : Pending(t)' \/ lost'[t] = "full"
             /\ \A t \in Timers \ S : (Pending(t)' <=> Pending(t)) /\ lost'[t] = lost[t]
             /\ StartedOnce'
<1>3. ASSUME NEW ts \in Seq(Timers), StartFromISR(ts),
             \A j, k \in 1 .. Len(ts) : ts[j] = ts[k] => j = k,
             \A k \in 1 .. Len(ts) : ts[k] \in {"debounce", "good", "bad", "motor"}
      PROVE  Effect({ts[k] : k \in 1 .. Len(ts)})
  <2>1. /\ \A k \in 1 .. Len(ts) : ts[k] \in Flagged => ~Pending(ts[k]) /\ callback # ts[k]
        /\ TypeOK /\ StartedOnce /\ UNCHANGED <<active, callback>>
    BY <1>0, <1>1, <1>2, <1>3 DEF LockInv
  <2>2. /\ queue' \in Seq(Timers) /\ Len(queue') <= QueueLength
        /\ lost' \in [Timers -> {"no", "boot", "full", "late"}]
        /\ \A t \in Timers : Pending(t) => Pending(t)'
        /\ \A k \in 1 .. Len(ts) : Pending(ts[k])' \/ lost'[ts[k]] = "full"
        /\ \A t \in Timers : (\A k \in 1 .. Len(ts) : ts[k] # t) =>
              /\ Pending(t)' <=> Pending(t)
              /\ lost'[t] = lost[t]
        /\ StartedOnce'
    BY <1>3, <2>1, InterruptEffect
  <2> QED
    BY <2>2
<1>4. ASSUME what = "edit"
      PROVE  Effect({"debounce"}) /\ UNCHANGED <<on, buzzer, motorStatus>>
  <2> DEFINE ts == <<"debounce">>
  <2>1. StartFromISR(ts) /\ UNCHANGED <<on, buzzer, motorStatus>>
    BY <1>4, Zenon DEF KeypadInterrupt
  <2>2. ts \in Seq(Timers) /\ Len(ts) = 1 /\ ts[1] = "debounce"
    BY <1>1
  <2> HIDE DEF ts
  <2>3. {ts[k] : k \in 1 .. Len(ts)} = {"debounce"}
    BY <2>2
  <2>4. /\ \A j, k \in 1 .. Len(ts) : ts[j] = ts[k] => j = k
        /\ \A k \in 1 .. Len(ts) : ts[k] \in {"debounce", "good", "bad", "motor"}
    BY <2>2
  <2> HIDE DEF Effect
  <2>5. Effect({ts[k] : k \in 1 .. Len(ts)})
    BY <1>3, <2>1, <2>2, <2>4
  <2> QED
    BY <2>1, <2>3, <2>5
<1>5. ASSUME what = "wrong"
      PROVE  /\ Effect({"debounce", "bad"})
             /\ on' = [on EXCEPT !["bad"] = 1] /\ buzzer' = 1 /\ UNCHANGED motorStatus
  <2> DEFINE ts == <<"debounce", "bad">>
  <2>1. /\ StartFromISR(ts)
        /\ on' = [on EXCEPT !["bad"] = 1] /\ buzzer' = 1 /\ UNCHANGED motorStatus
    BY <1>5, Zenon DEF KeypadInterrupt
  <2>2. ts \in Seq(Timers) /\ Len(ts) = 2 /\ ts[1] = "debounce" /\ ts[2] = "bad"
    BY <1>1
  <2> HIDE DEF ts
  <2>3. {ts[k] : k \in 1 .. Len(ts)} = {"debounce", "bad"}
    BY <2>2
  <2>4. /\ \A j, k \in 1 .. Len(ts) : ts[j] = ts[k] => j = k
        /\ \A k \in 1 .. Len(ts) : ts[k] \in {"debounce", "good", "bad", "motor"}
    BY <2>2
  <2> HIDE DEF Effect
  <2>5. Effect({ts[k] : k \in 1 .. Len(ts)})
    BY <1>3, <2>1, <2>2, <2>4
  <2> QED
    BY <2>1, <2>3, <2>5
<1>6. ASSUME what = "right"
      PROVE  /\ Effect({"debounce", "good", "motor"})
             /\ on' = [on EXCEPT !["good"] = 1, !["motor"] = 1]
             /\ buzzer' = 1 /\ motorStatus' = 1
  <2> DEFINE ts == <<"debounce", "good", "motor">>
  <2>1. /\ StartFromISR(ts)
        /\ on' = [on EXCEPT !["good"] = 1, !["motor"] = 1]
        /\ buzzer' = 1 /\ motorStatus' = 1
    BY <1>6, Zenon DEF KeypadInterrupt
  <2>2. ts \in Seq(Timers) /\ Len(ts) = 3 /\ ts[1] = "debounce" /\ ts[2] = "good"
        /\ ts[3] = "motor"
    BY <1>1
  <2> HIDE DEF ts
  <2>3. {ts[k] : k \in 1 .. Len(ts)} = {"debounce", "good", "motor"}
    BY <2>2
  <2>4. /\ \A j, k \in 1 .. Len(ts) : ts[j] = ts[k] => j = k
        /\ \A k \in 1 .. Len(ts) : ts[k] \in {"debounce", "good", "bad", "motor"}
    BY <2>2
  <2> HIDE DEF Effect
  <2>5. Effect({ts[k] : k \in 1 .. Len(ts)})
    BY <1>3, <2>1, <2>2, <2>4
  <2> QED
    BY <2>1, <2>3, <2>5
<1>7. PICK S \in SUBSET {"debounce", "good", "bad", "motor"} :
         /\ Effect(S) /\ "debounce" \in S
         /\ \/ UNCHANGED <<on, buzzer, motorStatus>>
            \/ /\ "bad" \in S
               /\ on' = [on EXCEPT !["bad"] = 1] /\ buzzer' = 1 /\ UNCHANGED motorStatus
            \/ /\ "good" \in S /\ "motor" \in S
               /\ on' = [on EXCEPT !["good"] = 1, !["motor"] = 1]
               /\ buzzer' = 1 /\ motorStatus' = 1
  <2> HIDE DEF Effect
  <2>1. CASE what = "edit"
    BY <1>4, <2>1
  <2>2. CASE what = "wrong"
    BY <1>5, <2>2
  <2>3. CASE what = "right"
    BY <1>6, <2>3
  <2> QED
    BY <2>1, <2>2, <2>3
<1>8. TypeOK'
  BY <1>0, <1>7 DEF LockInv, TypeOK
<1>9. FlagsMatchTimers'
  <2>1. ASSUME NEW s \in Switches PROVE running'[s] <=> Pending(s)' \/ callback' = s
    <3>1. s \in Timers \ S /\ s # "debounce"
      BY <1>1 DEF Timers, Sensors, Switches
    <3> QED
      BY <1>0, <1>7, <3>1 DEF LockInv, FlagsMatchTimers, TypeOK
  <2>2. running'["debounce"]
    BY <1>0 DEF LockInv, TypeOK
  <2> QED
    BY <1>7, <2>1, <2>2 DEF FlagsMatchTimers
<1>10. OutputsGuarded'
  <2>1. ASSUME NEW t \in Outputs, on'[t] = 1 PROVE Pending(t)' \/ lost'[t] = "full"
    <3>1. t \in Timers
      BY DEF Timers
    <3>2. CASE t \in S
      BY <1>7, <3>2
    <3>3. CASE t \notin S
      <4>1. on[t] = 1
        BY <1>7, <2>1, <3>3 DEF LockInv, TypeOK
      <4> QED
        BY <1>7, <3>1, <3>3, <4>1 DEF LockInv, OutputsGuarded
    <3> QED
      BY <3>2, <3>3
  <2>2. buzzer' = 1 => \E t \in {"good", "bad"} :
                          Pending(t)' \/ callback' = t \/ lost'[t] = "full"
    <3>1. CASE "good" \in S \/ "bad" \in S
      BY <1>7, <3>1
    <3>2. CASE "good" \notin S /\ "bad" \notin S
      BY <1>0, <1>1, <1>7, <3>2 DEF LockInv, OutputsGuarded
    <3> QED
      BY <3>1, <3>2
  <2>3. (motorStatus' = 1 /\ on'["motor"] = 0) => callback' = "motor"
    BY <1>0, <1>1, <1>7 DEF LockInv, OutputsGuarded, TypeOK
  <2> QED
    BY <2>1, <2>2, <2>3 DEF OutputsGuarded
<1>11. \A s \in Sensors : s \in Timers \ S
  BY <1>1 DEF Timers
<1>12. OnePressed' /\ ReadingsKnown' /\ StatesFollow'
  BY <1>0, <1>7, <1>11
  DEF LockInv, OnePressed, ReadingsKnown, StatesFollow, Follows, Sensors
<1> QED
  BY <1>7, <1>8, <1>9, <1>10, <1>12 DEF LockInv

-----------------------------------------------------------------------------
\* Every step of the timer service and every interrupt preserves the invariant.
LEMMA LockStep == LockInv /\ [Next]_vars => LockInv'
<1> SUFFICES ASSUME LockInv, [Next]_vars PROVE LockInv'
  OBVIOUS
<1>1. CASE TimerService
  BY <1>1, StartTimerInv, DebounceTimeoutInv, ProximityTimeoutEndsInv, OutputTimeoutInv,
     OutputTimeoutEndsInv, SensorTimeoutInv, SwitchTimeoutEndsInv DEF TimerService
<1>2. CASE Interrupt
  <2>1. interrupts' \in 0 .. MaxInterrupts
    BY <1>2, MaxInterruptsAssumption DEF Interrupt, LockInv, TypeOK
  <2> QED
    BY <1>2, <2>1, LockSwitchInv, ProximityInv, KeypadInv DEF Interrupt
<1>3. CASE UNCHANGED vars
  BY <1>3 DEF vars, timerVars, outputVars, stateVars, inputs, LockInv, TypeOK, StartedOnce,
     FlagsMatchTimers, OutputsGuarded, OnePressed, ReadingsKnown, StatesFollow, Follows,
     Pending, InQueue
<1> QED
  BY <1>1, <1>2, <1>3 DEF Next

\* The inductive invariant, whatever the order of edges, timers and callbacks.
THEOREM LockCorrect == Spec => []LockInv
  BY LockInit, LockStep, PTL DEF Spec

\* Type correctness; the queue of the timer service stays within its bound.
THEOREM LockTypes == Spec => []TypeOK
<1>1. LockInv => TypeOK
  BY DEF LockInv
<1> QED
  BY <1>1, LockCorrect, PTL

\* What is on is going to be switched off: motor, lights and buzzer
\* (rotateMotorClockwise, passcodeWrong, passcodeCorrect and their timers).
THEOREM OutputsEnd == Spec => []OutputsGuarded
<1>1. LockInv => OutputsGuarded
  BY DEF LockInv
<1> QED
  BY <1>1, LockCorrect, PTL

\* The states of door and lock follow their sensors, with the exceptions that
\* StatesFollow names (lockSwitchStateInterrupt,
\* proximitySensorInterruptCallback and the callbacks of their timers).
THEOREM SensorsFollowed == Spec => []StatesFollow
<1>1. LockInv => StatesFollow
  BY DEF LockInv
<1> QED
  BY <1>1, LockCorrect, PTL

\* The flags of the timers tell whether they are going to expire, so no switch
\* goes deaf (lockSwitchStateInterrupt, keypadInterruptHandler).
THEOREM FlagsCorrect == Spec => []FlagsMatchTimers
<1>1. LockInv => FlagsMatchTimers
  BY DEF LockInv
<1> QED
  BY <1>1, LockCorrect, PTL
=============================================================================
