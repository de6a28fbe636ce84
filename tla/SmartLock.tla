----------------------------- MODULE SmartLock -----------------------------
(***************************************************************************)
(* The mechanism of the smart lock: motor, status lights, limit switches   *)
(* and door sensor (smartLockCore.c), with the debouncing of the keypad    *)
(* (matrixKeyboard.c).                                                     *)
(*                                                                         *)
(* Two contexts share this state without a lock: the GPIO interrupts,      *)
(* which run to their end on the core that installed them, and the task of *)
(* the FreeRTOS timer service, which interrupts preempt.  An interrupt     *)
(* starts a timer by posting a command to the service's queue, which it    *)
(* never waits for: with the queue full the command is refused.  The       *)
(* service takes commands in order and runs the callbacks of timers that   *)
(* expire, one at a time.                                                  *)
(*                                                                         *)
(* Abstractions.  There is no clock: a running timer may expire at any     *)
(* time.  What a key press amounts to is a parameter of the interrupt; the *)
(* keys and the passcode are the subject of module Keypad.                 *)
(***************************************************************************)
EXTENDS Naturals, Sequences

CONSTANTS
    QueueLength,   \* configTIMER_QUEUE_LENGTH, 10 in the build
    MaxInterrupts  \* bound: number of interrupts

ASSUME QueueLengthAssumption == QueueLength \in Nat \ {0}
ASSUME MaxInterruptsAssumption == MaxInterrupts \in Nat

Switches == {"open", "closed"}            \* limit switches of the bolt
Sensors  == Switches \cup {"proximity"}   \* inputs, each with a timer
Outputs  == {"motor", "good", "bad"}      \* outputs, each with a timer
Timers   == Sensors \cup Outputs \cup {"debounce"}

VARIABLES
    queue,       \* commands posted to the timer service
    active,      \* timers that are running
    callback,    \* timer whose callback is half done, or "none"
    output,      \* the pin level that callback has read, 0 outside of it
    level,       \* level of the sensors' pins; a switch is pressed at 0
    on,          \* pins of the outputs (motor: MOTOR_DRIVER_IN1_PIN)
    buzzer,      \* ACTIVE_BUZZER_PIN
    motorStatus, \* the software's idea of the motor
    running,     \* isOpenSwitchTimerRunning etc., isDebounceTimerRunning
    currentLockState, currentDoorState,
    interrupts,  \* number of interrupts so far
    \* History, read by no action.
    lost         \* why a timer's callback will not see the last event of its
                 \* pin: "no" (it will), no event since "boot", queue "full"
                 \* or the event came too "late" for the callback under way

timerVars  == <<queue, active, callback, output>>
outputVars == <<on, buzzer, motorStatus>>
stateVars  == <<running, currentLockState, currentDoorState>>
inputs     == <<level, lost, interrupts>>
vars == <<timerVars, outputVars, stateVars, inputs>>

\* initLock.  The states start at 0 whatever the sensors say.
Init ==
    /\ queue = <<>>
    /\ active = {}
    /\ callback = "none"
    /\ output = 0
    /\ level \in {l \in [Sensors -> {0, 1}] : \E s \in Switches : l[s] = 1}
    /\ on = [o \in Outputs |-> 0]
    /\ buzzer = 0
    /\ motorStatus = 0
    /\ running = [t \in Switches \cup {"debounce"} |-> FALSE]
    /\ currentLockState = 0
    /\ currentDoorState = 0
    /\ interrupts = 0
    /\ lost = [t \in Timers |-> IF t \in Sensors THEN "boot" ELSE "no"]

-----------------------------------------------------------------------------
(***************************************************************************)
(* The timer service, as far as the code uses it.                          *)
(***************************************************************************)

\* xTimerStartFromISR or xTimerResetFromISR for each timer of ts in turn: what
\* does not fit into the queue is refused.  (The wrong version refuses nothing.)
FitAll(ts) == Len(ts)
Fit(ts) == IF Len(queue) + Len(ts) <= QueueLength THEN Len(ts)
           ELSE QueueLength - Len(queue)
Accepted(ts) == {ts[k] : k \in 1 .. Fit(ts)}
Refused(ts)  == {ts[k] : k \in (Fit(ts) + 1) .. Len(ts)}
StartFromISR(ts) ==
    /\ queue' = queue \o SubSeq(ts, 1, Fit(ts))
    /\ lost' = [t \in Timers |-> IF t \in Refused(ts) THEN "full"
                                 ELSE IF t \in Accepted(ts) THEN "no" ELSE lost[t]]

\* The service starts the timer of the oldest command; a timer that is already
\* running starts anew.
StartTimer ==
    /\ callback = "none"
    /\ queue # <<>>
    /\ queue' = Tail(queue)
    /\ active' = active \cup {Head(queue)}
    /\ UNCHANGED <<callback, output, outputVars, stateVars, inputs>>

\* A timer expires: it stops running and its callback begins.
Expires(t) ==
    /\ callback = "none"
    /\ t \in active
    /\ active' = active \ {t}
    /\ UNCHANGED queue

-----------------------------------------------------------------------------
(***************************************************************************)
(* Callbacks.  Each has two parts with room for interrupts between them,   *)
(* except for the one of the keypad, which has one assignment.             *)
(***************************************************************************)

\* goodLedTimeoutCallback, badLedTimeoutCallback, motorTimeoutCallback: the
\* first pin is set to 0 ...
OutputTimeout(t) ==
    /\ Expires(t)
    /\ t \in Outputs
    /\ on' = [on EXCEPT ![t] = 0]
    /\ callback' = t
    /\ UNCHANGED <<output, buzzer, motorStatus, stateVars, inputs>>

\* ... and then the buzzer, or the motor's second pin and motorStatus.  (The
\* wrong version forgets both.)
OutputTimeoutEndsHalf(t) ==
    /\ callback = t
    /\ t \in Outputs
    /\ callback' = "none"
    /\ UNCHANGED <<queue, active, output, outputVars, stateVars, inputs>>
OutputTimeoutEnds(t) ==
    /\ callback = t
    /\ t \in Outputs
    /\ IF t = "motor" THEN motorStatus' = 0 /\ UNCHANGED buzzer
                      ELSE buzzer' = 0 /\ UNCHANGED motorStatus
    /\ callback' = "none"
    /\ UNCHANGED <<queue, active, output, on, stateVars, inputs>>

\* openSwitchTimerCallback, closedSwitchTimerCallback, proximityTimerCallback:
\* the pin is read ...
SensorTimeout(t) ==
    /\ Expires(t)
    /\ t \in Sensors
    /\ output' = level[t]
    /\ callback' = t
    /\ UNCHANGED <<outputVars, stateVars, inputs>>

\* ... and then the state is set; the switches' timers count as running until
\* the end.
SwitchTimeoutEnds(t) ==
    /\ callback = t
    /\ t \in Switches
    /\ currentLockState' = IF output = 1 THEN currentLockState
                           ELSE IF t = "open" THEN 0 ELSE 1
    /\ running' = [running EXCEPT ![t] = FALSE]
    /\ callback' = "none" /\ output' = 0
    /\ UNCHANGED <<queue, active, outputVars, currentDoorState, inputs>>
ProximityTimeoutEnds ==
    /\ callback = "proximity"
    /\ currentDoorState' = output
    /\ callback' = "none" /\ output' = 0
    /\ UNCHANGED <<queue, active, outputVars, running, currentLockState, inputs>>

\* debounceTimerCallback.  (The wrong version leaves the flag set.)
DebounceTimeoutKeepsFlag ==
    /\ Expires("debounce")
    /\ UNCHANGED <<callback, output, outputVars, stateVars, inputs>>
DebounceTimeout ==
    /\ Expires("debounce")
    /\ running' = [running EXCEPT !["debounce"] = FALSE]
    /\ UNCHANGED <<callback, output, outputVars, currentLockState, currentDoorState,
                   inputs>>

-----------------------------------------------------------------------------
(***************************************************************************)
(* Interrupts.                                                             *)
(***************************************************************************)

\* A limit switch is pressed or released: lockSwitchStateInterrupt.  The bolt
\* presses one switch at a time.  An edge while the timer counts as running
\* does nothing; if its callback has already read the pin, nobody will read it
\* again.  (The wrong version marks the timer as running even if the start was
\* refused.)
CanTurn(s) == level[s] = 1 => \A r \in Switches : level[r] = 1
LockSwitchMarksAnyway(s) ==
    /\ s \in Switches /\ CanTurn(s)
    /\ level' = [level EXCEPT ![s] = 1 - @]
    /\ IF running[s]
       THEN /\ lost' = [lost EXCEPT ![s] = IF callback = s THEN "late" ELSE @]
            /\ UNCHANGED <<queue, running>>
       ELSE /\ StartFromISR(<<s>>)
            /\ running' = [running EXCEPT ![s] = TRUE]
    /\ UNCHANGED <<active, callback, output, outputVars, currentLockState,
                   currentDoorState>>
LockSwitchStateInterrupt(s) ==
    /\ s \in Switches /\ CanTurn(s)
    /\ level' = [level EXCEPT ![s] = 1 - @]
    /\ IF running[s]
       THEN /\ lost' = [lost EXCEPT ![s] = IF callback = s THEN "late" ELSE @]
            /\ UNCHANGED <<queue, running>>
       ELSE /\ StartFromISR(<<s>>)
            /\ running' = [running EXCEPT ![s] = (s \in Accepted(<<s>>))]
    /\ UNCHANGED <<active, callback, output, outputVars, currentLockState,
                   currentDoorState>>

\* The door opens or closes: proximitySensorInterruptCallback restarts the
\* timer on every edge.  (The wrong version only starts it if it does not run.)
ProximityOnlyIfStopped ==
    /\ level' = [level EXCEPT !["proximity"] = 1 - @]
    /\ IF "proximity" \in active \/ callback = "proximity"
       THEN UNCHANGED <<queue, lost>>
       ELSE StartFromISR(<<"proximity">>)
    /\ UNCHANGED <<active, callback, output, outputVars, stateVars>>
ProximitySensorInterrupt ==
    /\ level' = [level EXCEPT !["proximity"] = 1 - @]
    /\ StartFromISR(<<"proximity">>)
    /\ UNCHANGED <<active, callback, output, outputVars, stateVars>>

\* keypadInterruptHandler, when no debounce is under way, with what the key
\* amounts to: an edited or ignored entry, passcodeWrong, or passcodeCorrect
\* and rotateMotorClockwise.  The handler marks the debounce timer as running
\* before it starts it, and starts it before the others.
KeypadInterrupt(what) ==
    /\ ~running["debounce"]
    /\ running' = [running EXCEPT !["debounce"] = TRUE]
    /\ CASE what = "edit"  -> /\ StartFromISR(<<"debounce">>)
                              /\ UNCHANGED outputVars
         [] what = "wrong" -> /\ StartFromISR(<<"debounce", "bad">>)
                              /\ on' = [on EXCEPT !["bad"] = 1]
                              /\ buzzer' = 1
                              /\ UNCHANGED motorStatus
         [] what = "right" -> /\ StartFromISR(<<"debounce", "good", "motor">>)
                              /\ on' = [on EXCEPT !["good"] = 1, !["motor"] = 1]
                              /\ buzzer' = 1
                              /\ motorStatus' = 1
    /\ UNCHANGED <<active, callback, output, currentLockState, currentDoorState,
                   level>>

-----------------------------------------------------------------------------
TimerService ==
    \/ StartTimer
    \/ DebounceTimeout
    \/ ProximityTimeoutEnds
    \/ \E t \in Timers : \/ OutputTimeout(t) \/ OutputTimeoutEnds(t)
                         \/ SensorTimeout(t) \/ SwitchTimeoutEnds(t)
Interrupt ==
    /\ interrupts < MaxInterrupts
    /\ interrupts' = interrupts + 1
    /\ \/ \E s \in Switches : LockSwitchStateInterrupt(s)
       \/ ProximitySensorInterrupt
       \/ \E what \in {"edit", "wrong", "right"} : KeypadInterrupt(what)

Next == TimerService \/ Interrupt

Spec == Init /\ [][Next]_vars

\* The task of the timer service runs whenever it has something to do, and a
\* timer that runs expires after a fixed time.
FairSpec == Spec /\ WF_vars(TimerService)

-----------------------------------------------------------------------------
(***************************************************************************)
(* Properties.                                                             *)
(***************************************************************************)

\* Type correctness; the queue of the timer service stays within its bound.
TypeOK ==
    /\ queue \in Seq(Timers) /\ Len(queue) <= QueueLength
    /\ active \subseteq Timers
    /\ callback \in Sensors \cup Outputs \cup {"none"}
    /\ output \in {0, 1}
    /\ level \in [Sensors -> {0, 1}]
    /\ on \in [Outputs -> {0, 1}]
    /\ buzzer \in {0, 1} /\ motorStatus \in {0, 1}
    /\ running \in [Switches \cup {"debounce"} -> BOOLEAN]
    /\ currentLockState \in {0, 1} /\ currentDoorState \in {0, 1}
    /\ lost \in [Timers -> {"no", "boot", "full", "late"}]
    /\ interrupts \in 0 .. MaxInterrupts

\* The callback of timer t will begin some time from now.
Pending(t) == t \in active \/ \E k \in DOMAIN queue : queue[k] = t

\* What is on is switched off later: the timer of an output that is on is running
\* or about to be started, and so is, or runs, one of those that switch off the
\* buzzer, unless the start was refused because the queue was full.  In
\* particular the motor does not turn for ever, although its callback and the
\* interrupt that starts it write the same pins and motorStatus in turns; and
\* motorStatus says that it turns although its pin is off only until the
\* callback that switched it off ends (rotateMotorClockwise, passcodeWrong,
\* passcodeCorrect and the callbacks of their timers).
OutputsGuarded ==
    /\ \A t \in Outputs : on[t] = 1 => Pending(t) \/ lost[t] = "full"
    /\ buzzer = 1 => \E t \in {"good", "bad"} :
                        Pending(t) \/ callback = t \/ lost[t] = "full"
    /\ (motorStatus = 1 /\ on["motor"] = 0) => callback = "motor"

\* A state that differs from its sensor is going to be corrected, however the
\* edges of the sensor fall between the steps of the callback that reads it,
\* unless there was no edge since the lock was switched on or the last start of
\* the timer was refused.  For the limit switches, whose timers are not
\* restarted, there is one more exception: the edge came after the callback had
\* read the pin and before it cleared its flag
\* (proximitySensorInterruptCallback, lockSwitchStateInterrupt and the callbacks
\* of their timers).
Follows(s) == Pending(s) \/ (callback = s /\ output = level[s])
StatesFollow ==
    /\ currentDoorState # level["proximity"] =>
          Follows("proximity") \/ lost["proximity"] \in {"boot", "full"}
    /\ \A s \in Switches :
          (level[s] = 0 /\ currentLockState # (IF s = "open" THEN 0 ELSE 1)) =>
             Follows(s) \/ lost[s] \in {"boot", "full", "late"}

\* The flag of a switch's timer is set exactly while the timer is going to run
\* its callback or runs it, and so the switch never goes deaf: a refused start
\* leaves the flag clear.  For the keypad's timer only one direction holds, and
\* not after a refused start (lockSwitchStateInterrupt, keypadInterruptHandler).
FlagsMatchTimers ==
    /\ \A s \in Switches : running[s] <=> Pending(s) \/ callback = s
    /\ Pending("debounce") => running["debounce"]
    /\ running["debounce"] => Pending("debounce") \/ lost["debounce"] = "full"

\* After a key press the keypad takes the next one, unless starting the
\* debounce timer was refused: then isDebounceTimerRunning stays 1 for good.
KeypadComesBack ==
    running["debounce"] ~> (~running["debounce"] \/ lost["debounce"] = "full")
=============================================================================
