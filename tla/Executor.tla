------------------------------ MODULE Executor ------------------------------
(***************************************************************************)
(* The Embassy executor inside its FreeRTOS task: FreeRtosTaskExecutor and *)
(* __pender (free_rtos/executor.rs), FreeRtosTimeDriver                    *)
(* (free_rtos/time_driver.rs), and its first task, embassy_main (lib.rs),  *)
(* which opens the sockets, waits for the network and spawns the others.   *)
(* Other threads and interrupts post events to the tasks at any moment.    *)
(*                                                                         *)
(* FreeRTOS counts ticks in a word that wraps; the driver extends it to a  *)
(* count that does not.  The variable time is the true number of ticks     *)
(* since power on.  Ticks go on while the executor runs, but at most Lag   *)
(* of them between two of its steps that look at the clock, and at most    *)
(* BootTicks before the first of them.                                     *)
(***************************************************************************)
EXTENDS Integers, FiniteSets, FiniteSetsExt

CONSTANTS
    Task,       \* the tasks
    Main,       \* embassy_main
    Sleeper,    \* the tasks that sleep over and over (heartbeat)
    Delay,      \* for how long each of them, and embassy_main, sleeps
    Period,     \* the longest of these delays
    Word,       \* 2^32, where the tick count wraps
    Lag,        \* ticks that pass before the executor looks at the clock again
    BootTicks,  \* ticks that pass before it looks at the clock at all
    MaxTime     \* bound: the ticks of a behaviour

ASSUME TaskAssumption ==
    /\ IsFiniteSet(Task) /\ Main \in Task
    /\ Sleeper \subseteq Task \ {Main} /\ Sleeper # {}
ASSUME TimeAssumption ==
    /\ {Period, Word, Lag, BootTicks, MaxTime} \subseteq Nat \ {0}
    /\ Delay \in [Sleeper \cup {Main} -> 1..Period]
    /\ Period + 2 * Lag < Word
    /\ Lag <= BootTicks /\ BootTicks < Word
    /\ Lag <= MaxTime

\* u64::MAX, the expiration of a timer that is not set.
Never == MaxTime + Word

VARIABLES
    time,       \* ticks since power on
    timekeeper, \* FreeRtosTimeDriver.timekeeper
    prev,       \* FreeRtosTimeDriver.free_rtos_now
    timer,      \* FreeRtosTimeDriver.queue: when each task is to be woken
    runq,       \* the tasks in Embassy's run queue
    batch,      \* the tasks taken from it and not yet polled
    notified,   \* the notification count of the FreeRTOS task is not 0
    event,      \* the tasks with a posted event they have not seen
    pc,         \* where the executor is
    nowTicks,   \* now_ticks, a local of wait_for_interrupt_or_timeout
    diffTicks,  \* diff_ticks, likewise
    until,      \* when the wait ends
    main,       \* where embassy_main is: "start", at the await of bind ("udp"),
                \* of listen ("tcp") or of its timer ("ip"), "done" or "failed"
    netif       \* netif_default is not null

clock == <<timekeeper, prev>>
work == <<runq, batch, notified, event>>
wait == <<nowTicks, diffTicks, until>>
boot == <<main, netif>>
vars == <<time, clock, timer, work, pc, wait, boot>>

\* At power on.  What embassy does before it calls run takes time but leaves
\* these variables alone; run spawns embassy_main.
Init ==
    /\ time = 0
    /\ timekeeper = 0
    /\ prev = 0
    /\ timer = [t \in Task |-> Never]
    /\ runq = {Main}
    /\ batch = {}
    /\ notified = TRUE
    /\ event = {}
    /\ pc = "poll"
    /\ nowTicks = 0
    /\ diffTicks = 0
    /\ until = 0
    /\ main = "start"
    /\ netif = FALSE

-----------------------------------------------------------------------------
(* The clock.                                                              *)

\* xTaskGetTickCount
TickCount == time % Word

\* Mutant: a tick count that has wrapped counts as no ticks.
SaturatingSub(a, b) == IF a < b THEN 0 ELSE a - b

\* u32::wrapping_sub
WrappingSub(a, b) == (a + Word - b) % Word

\* What now returns.
NowValue == timekeeper + WrappingSub(TickCount, prev)

\* FreeRtosTimeDriver::now, in a critical section.
Now ==
    /\ timekeeper' = NowValue
    /\ prev' = TickCount

\* The executor has not read the clock since power on, or there is no timer
\* for it to be late for.
Unread ==
    \/ main = "start"
    \/ pc = "run" /\ batch = {} /\ \A t \in Task : timer[t] = Never

\* How far the executor is behind: the ticks since it last looked at the
\* clock, or since the end of its wait.  If it waits for ever lwIP has to
\* answer embassy_main, which it does within Lag ticks, or embassy_main has
\* failed, and time no longer matters.
Behind == IF pc = "blocked" /\ until # Never THEN time - until ELSE time - timekeeper

Tick ==
    /\ time < MaxTime
    /\ Behind < IF Unread THEN BootTicks ELSE Lag
    /\ time' = time + 1
    /\ UNCHANGED <<clock, timer, work, pc, wait, boot>>

-----------------------------------------------------------------------------
(* Waking.                                                                 *)

\* Mutant: only a task that is waiting is notified.
PendWaiting == notified \/ pc = "blocked"

\* __pender: the count of notifications is incremented.
Pend == TRUE

\* Embassy wakes the tasks of S: those not queued yet are queued, and the
\* first one in an empty queue calls the pender.
Wake(S) ==
    LET new == S \ (runq \cup batch)
    IN  /\ runq' = runq \cup new
        /\ notified' = IF runq = {} /\ new # {} THEN Pend ELSE notified

\* Mutant: the posting thread does not wake the task.
QuietPost(t) ==
    /\ event' = event \cup {t}
    /\ UNCHANGED <<time, clock, timer, runq, batch, notified, pc, wait, boot>>

\* A callback of lwIP, or an interrupt, has something for a task.
Post(t) ==
    /\ event' = event \cup {t}
    /\ Wake({t})
    /\ UNCHANGED <<time, clock, timer, batch, pc, wait, boot>>

\* lwIP's thread has run the closure of async_lwip and signals the result.
Answer ==
    /\ main \in {"udp", "tcp"}
    /\ Main \notin event
    /\ Post(Main)

\* The firmware brings the network interface up.
NetifUp ==
    /\ ~ netif
    /\ netif' = TRUE
    /\ UNCHANGED <<time, clock, timer, work, pc, wait, main>>

\* next_expiration: the tasks whose timer is due are woken.
Due == {t \in Task : timer[t] <= NowValue}

NextExpiration ==
    /\ Now
    /\ timer' = [t \in Task |-> IF t \in Due THEN Never ELSE timer[t]]
    /\ Wake(Due)

-----------------------------------------------------------------------------
(* FreeRtosTaskExecutor::run.                                              *)

\* inner.poll() takes the whole run queue ...
Dequeue ==
    /\ pc = "poll"
    /\ batch' = runq
    /\ runq' = {}
    /\ pc' = "run"
    /\ UNCHANGED <<time, clock, timer, notified, event, wait, boot>>

\* ... and polls its tasks.
Polls(t) ==
    /\ pc = "run"
    /\ t \in batch
    /\ batch' = batch \ {t}
    /\ event' = event \ {t}
    /\ UNCHANGED <<time, pc, wait, netif>>

\* Timer::after(...).await, up to schedule_wake.
StartTimer(t) ==
    /\ Now
    /\ timer' = [timer EXCEPT ![t] = NowValue + Delay[t]]

\* A sleeper whose timer has fired sets it again; the others look at what was
\* posted.
PollTask(t) ==
    /\ t # Main
    /\ Polls(t)
    /\ IF t \in Sleeper /\ timer[t] = Never
       THEN StartTimer(t)
       ELSE UNCHANGED <<clock, timer>>
    /\ UNCHANGED <<runq, notified, main>>

\* bind: embassy_main waits for lwIP's thread to run the closure.  Or there is
\* no room for the closure, no pcb, or the port is taken.
UdpBind ==
    \/ main = "start" /\ main' = "udp"
    \/ main \in {"start", "udp"} /\ main' = "failed"

\* listen, likewise.  lwIP's thread preempts embassy_main and may have signalled
\* the result of bind before it waits: it goes on in the same poll then.
TcpListen ==
    \/ main \in {"start", "udp"} /\ main' = "tcp"
    \/ main \in {"start", "udp", "tcp"} /\ main' = "failed"

\* If either fails embassy_main returns, and no other task is ever spawned.
OpenSocket ==
    /\ UdpBind \/ TcpListen
    /\ UNCHANGED <<clock, timer, runq, notified>>

\* my_ipaddr().is_some(): there is an interface, whether it has an address
\* or not.
MyIpaddr == netif

\* The loop begins, or its timer has fired, so that the clock was read.
WaitForIp ==
    /\ ~ MyIpaddr
    /\ main' = "ip"
    /\ StartTimer(Main)
    /\ UNCHANGED <<runq, notified>>

\* All other tasks are spawned, hence in the run queue.
SpawnTasks ==
    /\ MyIpaddr
    /\ main' = "done"
    /\ Wake(Task \ {Main})
    /\ IF main = "ip" THEN Now ELSE UNCHANGED clock
    /\ UNCHANGED timer

PollMain ==
    /\ main \notin {"done", "failed"}
    /\ Polls(Main)
    /\ OpenSocket \/ WaitForIp \/ SpawnTasks

\* wait_for_interrupt_or_timeout: the clock is read once ...
ReadNow ==
    /\ pc = "run"
    /\ batch = {}
    /\ Now
    /\ nowTicks' = NowValue
    /\ pc' = "expiry"
    /\ UNCHANGED <<time, timer, work, diffTicks, until, boot>>

\* Mutant: the time of the expiration instead of the time until then.
NoDiff(exp, now) == exp

\* exp_ticks.saturating_sub(now_ticks).min(u32::MAX)
DiffTicks(exp, now) ==
    LET d == IF exp < now THEN 0 ELSE exp - now
    IN  IF d < Word - 1 THEN d ELSE Word - 1

\* ... and again for the next expiration.
Expiry ==
    /\ pc = "expiry"
    /\ NextExpiration
    /\ diffTicks' = DiffTicks(Min({timer'[t] : t \in Task}), nowTicks)
    /\ nowTicks' = 0
    /\ pc' = "take"
    /\ UNCHANGED <<time, batch, event, until, boot>>

\* ulTaskGenericNotifyTake: the count is cleared if it is not 0, at once ...
TakeNotified ==
    /\ pc \in {"take", "blocked"}
    /\ notified
    /\ notified' = FALSE
    /\ pc' = "woken"
    /\ diffTicks' = 0
    /\ until' = 0
    /\ UNCHANGED <<time, clock, timer, runq, batch, event, nowTicks, boot>>

\* ... otherwise the task blocks; u32::MAX is portMAX_DELAY, for ever.
Block ==
    /\ pc = "take"
    /\ ~ notified
    /\ pc' = "blocked"
    /\ until' = IF diffTicks = Word - 1 THEN Never ELSE time + diffTicks
    /\ diffTicks' = 0
    /\ UNCHANGED <<time, clock, timer, work, nowTicks, boot>>

TimeOut ==
    /\ pc = "blocked"
    /\ until <= time
    /\ pc' = "woken"
    /\ until' = 0
    /\ UNCHANGED <<time, clock, timer, work, nowTicks, diffTicks, boot>>

\* let _ = self.next_expiration()
Woken ==
    /\ pc = "woken"
    /\ NextExpiration
    /\ pc' = "poll"
    /\ UNCHANGED <<time, batch, event, wait, boot>>

Run ==
    \/ Dequeue \/ ReadNow \/ Expiry \/ TakeNotified \/ Block \/ TimeOut \/ Woken
    \/ PollMain \/ \E t \in Task : PollTask(t)

\* What goes on whether the executor runs or not.
Passing == Tick \/ NetifUp

\* What other threads have for the tasks that have been spawned.
Posting == Answer \/ (main = "done" /\ \E t \in Task \ (Sleeper \cup {Main}) : Post(t))

Next == Passing \/ Run \/ Posting

Spec == Init /\ [][Next]_vars

-----------------------------------------------------------------------------

TypeOK ==
    /\ time \in 0..MaxTime
    /\ timekeeper \in 0..MaxTime
    /\ prev \in 0..Word - 1
    /\ timer \in [Task -> 0..Never]
    /\ {runq, batch, event} \subseteq SUBSET Task
    /\ notified \in BOOLEAN
    /\ pc \in {"poll", "run", "expiry", "take", "blocked", "woken"}
    /\ nowTicks \in 0..MaxTime
    /\ diffTicks \in 0..Word - 1
    /\ until \in 0..Never
    /\ main \in {"start", "udp", "tcp", "ip", "done", "failed"}
    /\ netif \in BOOLEAN

\* What now returns is the true time although the tick count wraps: the
\* timers of the sleepers make the executor look at the clock at least once
\* in every 2^32 ticks (free_rtos/time_driver.rs 20-41, 61-78).
NowIsTime == NowValue = time

\* The delays of the executor that can add up: one for each sleeper it polls
\* or one that reads the clock, and one before it looks at the queue; or three
\* around its wait.
Delays == IF Cardinality(Sleeper) = 1 THEN 3 ELSE Cardinality(Sleeper) + 1

\* No timer is forgotten, and none is served later than a few delays of the
\* executor after it was due, although the clock is read before the queue and
\* again later, and the wait begins later still
\* (free_rtos/time_driver.rs 43-78).
TimersOnTime == \A t \in Task : time <= timer[t] + Delays * Lag

\* The executor does not go to sleep on a task that was woken after the last
\* poll: a notification is pending then, so that the wait ends at once
\* (free_rtos/executor.rs 36-42, 45-99).
NoSleepOnWork ==
    runq # {} => notified \/ pc \in {"poll", "woken"}

\* Whatever is posted to a task, it is polled to see it
\* (free_rtos/executor.rs 36-42).
EventIsSeen == \A t \in Task : t \in event ~> t \notin event

=============================================================================
