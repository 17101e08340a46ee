--------------------------- MODULE ExecutorProofs ---------------------------
(***************************************************************************)
(* No wake-up is lost between the executor's poll and its wait, the        *)
(* extended clock shows the true time and no timer is late, for every set  *)
(* of tasks, all their delays and every word size.                         *)
(***************************************************************************)
EXTENDS Executor, FiniteSetTheorems, WellFoundedInduction, TLAPS

\* The variables the argument is about have their types.
WorkTypeOK ==
    /\ runq \subseteq Task
    /\ batch \subseteq Task
    /\ notified \in BOOLEAN

\* NoSleepOnWork with the types is inductive.
WorkInv == WorkTypeOK /\ NoSleepOnWork

LEMMA InitWork == Init => WorkInv
  BY TaskAssumption DEF Init, WorkInv, WorkTypeOK, NoSleepOnWork

\* Waking tasks keeps the types, and a task in the run queue is announced by
\* a notification unless it was there before.
LEMMA WakeKeeps ==
    ASSUME WorkTypeOK, NEW S \in SUBSET Task, Wake(S)
    PROVE  /\ runq' \subseteq Task
           /\ notified' \in BOOLEAN
           /\ notified => notified'
           /\ runq' # {} => runq # {} \/ notified'
<1>1. CASE runq = {} /\ S \ (runq \cup batch) # {}
  BY <1>1 DEF Wake, Pend, WorkTypeOK
<1>2. CASE ~ (runq = {} /\ S \ (runq \cup batch) # {})
  BY <1>2 DEF Wake, WorkTypeOK
<1> QED
  BY <1>1, <1>2

\* A step that wakes tasks and leaves the executor where it is, or goes on to
\* a place where it may have work.
LEMMA WakingStep ==
    ASSUME WorkInv, NEW S \in SUBSET Task, Wake(S), UNCHANGED batch,
           pc \in {"poll", "woken"} => pc' \in {"poll", "woken"}
    PROVE  WorkInv'
  BY WakeKeeps DEF WorkInv, WorkTypeOK, NoSleepOnWork

LEMMA NextWork == WorkInv /\ [Next]_vars => WorkInv'
<1> SUFFICES ASSUME WorkInv, [Next]_vars PROVE WorkInv'
  OBVIOUS
<1> USE DEF WorkInv, WorkTypeOK, NoSleepOnWork
<1>1. CASE UNCHANGED vars
  BY <1>1 DEF vars, work
<1>2. CASE Passing
  BY <1>2 DEF Passing, Tick, NetifUp, work
<1>3. CASE Posting
  <2>1. ASSUME NEW t \in Task, Post(t) PROVE WorkInv'
    BY <2>1, WakingStep DEF Post
  <2> QED
    BY <1>3, <2>1, TaskAssumption DEF Posting, Answer
<1>4. CASE Dequeue
  BY <1>4 DEF Dequeue
<1>5. ASSUME NEW t \in Task, PollTask(t) PROVE WorkInv'
  BY <1>5 DEF PollTask, Polls
<1>6. CASE ReadNow
  BY <1>6 DEF ReadNow, work
<1>7. CASE Expiry \/ Woken
  <2>1. Due \in SUBSET Task
    BY DEF Due
  <2> QED
    BY <1>7, <2>1, WakingStep DEF Expiry, Woken, NextExpiration
<1>8. CASE TakeNotified
  BY <1>8 DEF TakeNotified
<1>9. CASE Block
  BY <1>9 DEF Block, work
<1>10. CASE TimeOut
  BY <1>10 DEF TimeOut, work
<1>11. CASE PollMain
  <2>1. batch' \subseteq Task /\ pc' = pc
    BY <1>11 DEF PollMain, Polls
  <2>2. CASE SpawnTasks
    <3>1. Wake(Task \ {Main})
      BY <2>2 DEF SpawnTasks
    <3> QED
      BY <2>1, <3>1, WakeKeeps
  <2>3. CASE OpenSocket \/ WaitForIp
    BY <2>1, <2>3 DEF OpenSocket, WaitForIp
  <2> QED
    BY <1>11, <2>2, <2>3 DEF PollMain
<1> QED
  BY <1>1, <1>2, <1>3, <1>4, <1>5, <1>6, <1>7, <1>8, <1>9, <1>10, <1>11 DEF Next, Run

\* The executor never waits on a task that was woken after the last poll: a
\* notification is pending then (free_rtos/executor.rs 36-42, 45-99).
THEOREM NoWakeUpLost == Spec => []NoSleepOnWork
<1>1. WorkInv => NoSleepOnWork
  BY DEF WorkInv
<1> QED
  BY InitWork, NextWork, <1>1, PTL DEF Spec

-----------------------------------------------------------------------------
(* Arithmetic.                                                             *)

LEMMA Constants ==
    /\ Period \in Nat /\ Period > 0
    /\ Word \in Nat /\ Word > 0
    /\ Lag \in Nat /\ Lag > 0
    /\ MaxTime \in Nat /\ MaxTime > 0
    /\ BootTicks \in Nat /\ Lag <= BootTicks /\ BootTicks < Word
    /\ Period + 2 * Lag < Word
    /\ Lag <= MaxTime
    /\ Never \in Nat /\ Never = MaxTime + Word
  BY TimeAssumption DEF Never

\* A set of naturals that is not empty has a least element.
LEMMA LeastNatural ==
    ASSUME NEW S, S \subseteq Nat, S # {}
    PROVE  \E m \in S : \A y \in S : m <= y
<1>1. PICK x \in S : \A y \in S : ~ (<<y, x>> \in OpToRel(<, Nat))
  BY NatLessThanWellFounded, WFMin
<1>2. \A y \in S : <<y, x>> \in OpToRel(<, Nat) <=> y < x
  BY Zenon DEF OpToRel
<1>3. \A y \in S : ~ (y < x)
  BY <1>1, <1>2, Zenon
<1> QED
  BY <1>3

LEMMA MinIsLeast ==
    ASSUME NEW S, S \subseteq Nat, S # {}
    PROVE  Min(S) \in S /\ \A y \in S : Min(S) <= y
<1>1. \E m \in S : \A y \in S : m <= y
  BY LeastNatural
<1> QED
  BY <1>1 DEF Min

\* A remainder is determined by its range.
LEMMA Remainder ==
    ASSUME NEW a \in Nat, NEW q \in Nat, NEW r \in 0..Word - 1, a = q * Word + r
    PROVE  a % Word = r
  BY Constants

\* wrapping_sub gives the ticks that have passed if they are fewer than a word
\* can count, wherever the counter has wrapped.
LEMMA WrappedDifference ==
    ASSUME NEW a \in Nat, NEW d \in 0..Word - 1
    PROVE  WrappingSub((a + d) % Word, a % Word) = d
<1>1. PICK q \in Nat, r \in 0..Word - 1 : a = q * Word + r /\ r = a % Word
  <2>1. Word \in Nat /\ Word > 0
    BY Constants
  <2> QED
    BY <2>1
<1>2. CASE r + d < Word
  <2>1. (a + d) % Word = r + d
    BY <1>1, <1>2, Constants, Remainder
  <2>2. WrappingSub(r + d, r) = (1 * Word + d) % Word
    BY <1>1, Constants DEF WrappingSub
  <2>3. (1 * Word + d) % Word = d
    BY Constants, Remainder
  <2> QED
    BY <1>1, <2>1, <2>2, <2>3
<1>3. CASE r + d >= Word
  <2>1. a + d = (q + 1) * Word + (r + d - Word) /\ r + d - Word \in 0..Word - 1 /\ q + 1 \in Nat
    BY <1>1, <1>3, Constants
  <2>2. (a + d) % Word = r + d - Word
    BY <2>1, Remainder
  <2>3. WrappingSub(r + d - Word, r) = (0 * Word + d) % Word
    BY <1>1, Constants DEF WrappingSub
  <2>4. (0 * Word + d) % Word = d
    BY Constants, Remainder
  <2> QED
    BY <1>1, <2>2, <2>3, <2>4
<1> QED
  BY <1>1, <1>2, <1>3, Constants

LEMMA Scaled ==
    ASSUME NEW a \in Nat, NEW b \in Nat, a <= b
    PROVE  a * Lag \in Nat /\ a * Lag <= b * Lag /\ (a + 1) * Lag = a * Lag + Lag
<1>1. (b - a) * Lag \in Nat /\ a * Lag \in Nat /\ b * Lag = a * Lag + (b - a) * Lag
  BY Constants
<1> QED
  BY <1>1, Constants

\* A wait computed with an old reading of the clock is too long by its age.
LEMMA OldReading ==
    ASSUME NEW d \in Nat, NEW old \in Nat, NEW now \in Nat, NEW m \in Nat, NEW exp \in Nat,
           d + old <= m, now <= old + Lag, m <= exp
    PROVE  d + now <= exp + Lag
  BY Constants

-----------------------------------------------------------------------------
(* The inductive invariant of the clock and the timers.                    *)

\* The driver has seen the tick count at timekeeper, not long ago: at power on,
\* a delay of the executor at most, or the longest wait and two delays.
ClockInv ==
    /\ prev = timekeeper % Word
    /\ timekeeper <= time
    /\ Unread => time <= timekeeper + BootTicks
    /\ ~ Unread /\ pc \notin {"blocked", "woken"} => time <= timekeeper + Lag
    /\ ~ Unread => time <= timekeeper + Period + 2 * Lag

\* Until embassy_main has spawned the other tasks it is alone.
MainInv ==
    /\ main # "done" => runq \cup batch \subseteq {Main}
    /\ main = "start" =>
          \/ pc = "poll" /\ runq = {Main} /\ batch = {}
          \/ pc = "run" /\ runq = {} /\ batch = {Main}

\* The tasks that use a timer.
Sleeping ==
    IF main = "done" THEN Sleeper ELSE IF main = "ip" THEN {Main} ELSE {}

\* A task that sleeps is queued, or has a timer that is at most a period ahead.
SleeperInv ==
    /\ runq \cap batch = {}
    /\ pc # "run" => batch = {}
    /\ \A t \in Task : timer[t] = Never \/ timer[t] <= timekeeper + Period
    /\ \A t \in Task \ Sleeping : timer[t] = Never
    /\ \A t \in Sleeping : timer[t] = Never <=> t \in runq \cup batch

\* The sleepers polled since the run queue was taken, except for one.
Polled == Cardinality(Sleeper) - 1 - Cardinality(batch \cap Sleeper)

\* By how much a timer may be overdue.
DueInv ==
    \A t \in Task :
        /\ pc \in {"poll", "take", "blocked", "woken"} => timekeeper < timer[t]
        /\ pc = "run" /\ timer[t] # Never => timekeeper < timer[t] + Polled * Lag
        /\ pc = "expiry" /\ timer[t] # Never =>
              timekeeper < timer[t] + Cardinality(Sleeper) * Lag
        /\ pc = "take" => diffTicks + timekeeper <= timer[t] + Lag
        /\ pc = "blocked" => until <= timer[t] + 2 * Lag
        /\ pc = "woken" => time <= timer[t] + 3 * Lag

\* The wait: for a period at most, unless a notification ends it at once or
\* there is no timer.
WaitInv ==
    /\ pc = "expiry" => nowTicks = timekeeper
    /\ pc = "take" /\ ~ notified => diffTicks <= Period \/ diffTicks = Word - 1
    /\ pc = "blocked" =>
          \/ until = Never /\ time <= timekeeper + Lag
          \/ until <= timekeeper + Period + Lag /\ time <= until + Lag

IInv == TypeOK /\ NoSleepOnWork /\ ClockInv /\ MainInv /\ SleeperInv /\ DueInv /\ WaitInv

\* What now returns is the true time.
LEMMA NowIs ==
    ASSUME TypeOK, ClockInv
    PROVE  /\ NowValue = time
           /\ time \in Nat /\ timekeeper \in Nat /\ time <= MaxTime /\ time < Never
           /\ TickCount \in 0..Word - 1
<1>1. time \in Nat /\ timekeeper \in Nat /\ time <= MaxTime /\ time < Never
  BY Constants DEF TypeOK
<1> DEFINE d == time - timekeeper
<1>2. d \in 0..Word - 1 /\ time = timekeeper + d
  <2>1. CASE Unread
    BY <1>1, <2>1, Constants DEF ClockInv
  <2>2. CASE ~ Unread
    BY <1>1, <2>2, Constants DEF ClockInv
  <2> QED
    BY <2>1, <2>2
<1> HIDE DEF d
<1>3. WrappingSub((timekeeper + d) % Word, timekeeper % Word) = d
  BY <1>1, <1>2, WrappedDifference
<1>4. NowValue = timekeeper + d
  BY <1>2, <1>3 DEF NowValue, TickCount, ClockInv
<1>5. time % Word \in 0..Word - 1
  BY <1>1, Constants
<1> QED
  BY <1>1, <1>2, <1>4, <1>5 DEF TickCount

LEMMA SleeperCount ==
    /\ IsFiniteSet(Sleeper)
    /\ Cardinality(Sleeper) \in Nat /\ Cardinality(Sleeper) >= 1
    /\ Delays \in Nat /\ Delays >= 3 /\ Delays >= Cardinality(Sleeper) + 1
<1>1. IsFiniteSet(Sleeper)
  BY TaskAssumption, FS_Subset
<1>2. Cardinality(Sleeper) \in Nat /\ Cardinality(Sleeper) # 0
  BY <1>1, TaskAssumption, FS_CardinalityType, FS_EmptySet
<1> QED
  BY <1>1, <1>2 DEF Delays

\* Of a set without one of them, the sleepers in it are fewer than all.
LEMMA FewerSleepers ==
    ASSUME NEW B
    PROVE  /\ IsFiniteSet(B \cap Sleeper)
           /\ Cardinality(B \cap Sleeper) \in Nat
           /\ Cardinality(Sleeper) - 1 - Cardinality(B \cap Sleeper) \in Int
           /\ Cardinality(Sleeper) - 1 - Cardinality(B \cap Sleeper) <= Cardinality(Sleeper) - 1
           /\ \A t \in Sleeper : t \notin B =>
                 Cardinality(Sleeper) - 1 - Cardinality(B \cap Sleeper) \in Nat
<1>1. /\ IsFiniteSet(B \cap Sleeper)
      /\ Cardinality(B \cap Sleeper) <= Cardinality(Sleeper)
      /\ Cardinality(Sleeper) = Cardinality(B \cap Sleeper) => Sleeper = B \cap Sleeper
  BY SleeperCount, FS_Subset
<1>2. Cardinality(B \cap Sleeper) \in Nat
  BY <1>1, FS_CardinalityType
<1>3. ASSUME NEW t \in Sleeper, t \notin B
      PROVE  Cardinality(Sleeper) - 1 - Cardinality(B \cap Sleeper) \in Nat
  <2>1. Cardinality(Sleeper) # Cardinality(B \cap Sleeper)
    BY <1>1, <1>3
  <2> QED
    BY <1>1, <1>2, <2>1, SleeperCount
<1> QED
  BY <1>1, <1>2, <1>3, SleeperCount

\* A task that has a timer is not queued, and the clock has been read.
LEMMA TimerSet ==
    ASSUME MainInv, SleeperInv, NEW t \in Task, timer[t] # Never
    PROVE  /\ t \in Sleeping /\ t \notin runq \cup batch
           /\ ~ Unread
           /\ \E s \in Sleeper : s \notin runq \cup batch
           /\ Polled \in Nat /\ Polled <= Cardinality(Sleeper) - 1
<1>1. t \in Sleeping /\ t \notin runq \cup batch
  BY DEF SleeperInv
<1>2. (main = "done" /\ t \in Sleeper) \/ (main = "ip" /\ t = Main)
  BY <1>1 DEF Sleeping
<1>3. ~ Unread
  BY <1>2 DEF Unread
<1>4. \E s \in Sleeper : s \notin runq \cup batch
  <2>1. CASE main = "done"
    BY <1>1, <1>2, <2>1
  <2>2. CASE main = "ip"
    <3>1. runq \cup batch \subseteq {Main}
      BY <2>2 DEF MainInv
    <3> QED
      BY <3>1, TaskAssumption
  <2> QED
    BY <1>2, <2>1, <2>2
<1>5. Polled \in Nat /\ Polled <= Cardinality(Sleeper) - 1
  BY <1>4, FewerSleepers DEF Polled
<1> QED
  BY <1>1, <1>3, <1>4, <1>5

LEMMA InitInv == Init => IInv
<1> SUFFICES ASSUME Init PROVE IInv
  OBVIOUS
<1>1. TypeOK
  <2>1. Main \in Task
    BY TaskAssumption
  <2>2. 0 \in 0..MaxTime /\ 0 \in 0..Word - 1 /\ 0 \in 0..Never /\ Never \in 0..Never
    BY Constants
  <2>3. notified \in BOOLEAN /\ netif \in BOOLEAN
    BY DEF Init
  <2>4. timer \in [Task -> 0..Never]
    BY <2>2 DEF Init
  <2> QED
    BY <2>1, <2>2, <2>3, <2>4 DEF Init, TypeOK
<1>2. NoSleepOnWork
  BY DEF Init, NoSleepOnWork
<1>3. ClockInv
  <2>1. 0 % Word = 0
    BY Constants
  <2>2. Unread
    BY DEF Init, Unread
  <2> QED
    BY <2>1, <2>2, Constants DEF Init, ClockInv
<1>4. MainInv /\ SleeperInv
  BY TaskAssumption DEF Init, MainInv, SleeperInv, Sleeping
<1>5. DueInv /\ WaitInv
  BY Constants DEF Init, DueInv, WaitInv
<1> QED
  BY <1>1, <1>2, <1>3, <1>4, <1>5 DEF IInv

\* A tick: the executor is less than a delay behind, or has not started.
LEMMA TickInv == ASSUME IInv, Tick PROVE IInv'
<1>1. TypeOK /\ NoSleepOnWork /\ ClockInv /\ MainInv /\ SleeperInv /\ DueInv /\ WaitInv
  BY DEF IInv
<1>2. UNCHANGED <<timekeeper, prev, timer, runq, batch, notified, event, pc, nowTicks, diffTicks,
                  until, main, netif>>
  BY DEF Tick, clock, work, wait, boot
<1>3. Unread' = Unread /\ Sleeping' = Sleeping /\ Polled' = Polled
  BY <1>2 DEF Unread, Sleeping, Polled
<1>4. /\ time \in 0..MaxTime /\ timekeeper \in 0..MaxTime /\ until \in 0..Never
      /\ timer \in [Task -> 0..Never]
  BY <1>1 DEF TypeOK
<1>5. time' = time + 1 /\ time < MaxTime
  BY DEF Tick
<1>6. pc = "blocked" => ~ Unread
  BY <1>1 DEF Unread, MainInv
<1>7. /\ pc = "blocked" /\ until # Never => time - until < Lag
      /\ ~ (pc = "blocked" /\ until # Never) /\ ~ Unread => time - timekeeper < Lag
      /\ Unread => time - timekeeper < BootTicks
  BY <1>6 DEF Tick, Behind
<1>8. TypeOK'
  BY <1>1, <1>2, <1>5, Constants DEF TypeOK
<1>9. NoSleepOnWork' /\ MainInv' /\ SleeperInv'
  BY <1>1, <1>2, <1>3 DEF NoSleepOnWork, MainInv, SleeperInv
<1>10. WaitInv'
  <2>1. CASE pc = "blocked"
    <3>1. CASE until = Never
      <4>1. time - timekeeper < Lag
        BY <1>6, <1>7, <2>1, <3>1
      <4> QED
        BY <1>2, <1>4, <1>5, <2>1, <3>1, <4>1, Constants DEF WaitInv
    <3>2. CASE until # Never
      <4>1. time - until < Lag /\ until <= timekeeper + Period + Lag
        BY <1>1, <1>7, <2>1, <3>2 DEF WaitInv
      <4> QED
        BY <1>2, <1>4, <1>5, <2>1, <4>1, Constants DEF WaitInv
    <3> QED
      BY <3>1, <3>2
  <2>2. CASE pc # "blocked"
    BY <1>1, <1>2, <2>2 DEF WaitInv
  <2> QED
    BY <2>1, <2>2
<1>11. ClockInv'
  <2>1. CASE Unread
    BY <1>1, <1>2, <1>3, <1>4, <1>5, <1>7, <2>1, Constants DEF ClockInv
  <2>2. CASE ~ Unread /\ ~ (pc = "blocked" /\ until # Never)
    BY <1>1, <1>2, <1>3, <1>4, <1>5, <1>7, <2>2, Constants DEF ClockInv
  <2>3. CASE ~ Unread /\ pc = "blocked" /\ until # Never
    <3>1. until <= timekeeper + Period + Lag /\ time - until < Lag
      BY <1>1, <1>7, <2>3 DEF WaitInv
    <3> QED
      BY <1>1, <1>2, <1>3, <1>4, <1>5, <2>3, <3>1, Constants DEF ClockInv
  <2> QED
    BY <2>1, <2>2, <2>3
<1>12. DueInv'
  <2>1. ASSUME NEW t \in Task, pc = "woken" PROVE time + 1 <= timer[t] + 3 * Lag
    <3>1. timekeeper < timer[t] /\ timer[t] \in Nat
      BY <1>1, <1>4, <2>1, Constants DEF DueInv
    <3>2. CASE timer[t] = Never
      BY <1>4, <1>5, <3>2, Constants
    <3>3. CASE timer[t] # Never
      <4>1. time - timekeeper < Lag
        BY <1>1, <1>7, <2>1, <3>3, TimerSet
      <4> QED
        BY <1>4, <3>1, <4>1, Constants
    <3> QED
      BY <3>2, <3>3
  <2> QED
    BY <1>1, <1>2, <1>3, <1>5, <2>1 DEF DueInv
<1> QED
  BY <1>8, <1>9, <1>10, <1>11, <1>12 DEF IInv

\* The interface matters to embassy_main alone.
LEMMA NetifUpInv == ASSUME IInv, NetifUp PROVE IInv'
<1>1. /\ UNCHANGED <<time, timekeeper, prev, timer, runq, batch, notified, event, pc, nowTicks,
                     diffTicks, until, main>>
      /\ netif' = TRUE
  BY DEF NetifUp, clock, work, wait
<1>2. Unread' = Unread /\ Sleeping' = Sleeping /\ Polled' = Polled
  BY <1>1 DEF Unread, Sleeping, Polled
<1>3. TypeOK' /\ NoSleepOnWork'
  BY <1>1 DEF IInv, TypeOK, NoSleepOnWork
<1>4. ClockInv' /\ MainInv' /\ SleeperInv'
  BY <1>1, <1>2 DEF IInv, ClockInv, MainInv, SleeperInv
<1>5. DueInv' /\ WaitInv'
  BY <1>1, <1>2 DEF IInv, DueInv, WaitInv
<1> QED
  BY <1>3, <1>4, <1>5 DEF IInv

\* What waking tasks does to the types.
LEMMA WakeTypes ==
    ASSUME TypeOK, NEW S \in SUBSET Task, Wake(S)
    PROVE  /\ runq' \in SUBSET Task
           /\ notified' \in BOOLEAN
           /\ notified => notified'
           /\ runq' = runq \cup (S \ batch)
<1>1. WorkTypeOK
  BY DEF TypeOK, WorkTypeOK
<1>2. runq' \subseteq Task /\ notified' \in BOOLEAN /\ (notified => notified')
  BY <1>1, WakeKeeps
<1>3. runq' = runq \cup (S \ (runq \cup batch))
  BY DEF Wake
<1> QED
  BY <1>2, <1>3

\* Something is posted to a task that has no timer.
LEMMA PostInv ==
    ASSUME IInv, NEW t \in Task \ Sleeping, Post(t),
           main # "start", main # "done" => t = Main
    PROVE  IInv'
<1>1. TypeOK /\ NoSleepOnWork /\ ClockInv /\ MainInv /\ SleeperInv /\ DueInv /\ WaitInv
  BY DEF IInv
<1>2. /\ UNCHANGED <<time, timekeeper, prev, timer, batch, pc, nowTicks, diffTicks, until, main, netif>>
      /\ event' = event \cup {t} /\ Wake({t})
  BY DEF Post, clock, wait, boot
<1>3. /\ runq' \in SUBSET Task /\ notified' \in BOOLEAN /\ (notified => notified')
      /\ runq' = runq \cup ({t} \ batch)
  BY <1>1, <1>2, WakeTypes
<1>4. TypeOK'
  BY <1>1, <1>2, <1>3 DEF TypeOK
<1>5. NoSleepOnWork'
  <2>1. WorkInv
    BY <1>1 DEF TypeOK, WorkInv, WorkTypeOK
  <2> QED
    BY <2>1, <1>2, WakingStep DEF WorkInv
<1>6. ClockInv' /\ DueInv'
  BY <1>1, <1>2 DEF ClockInv, DueInv, Polled, Unread
<1>7. MainInv'
  BY <1>1, <1>2, <1>3 DEF MainInv
<1>8. SleeperInv'
  <2>1. Sleeping' = Sleeping
    BY <1>2 DEF Sleeping
  <2> QED
    BY <1>1, <1>2, <1>3, <2>1 DEF SleeperInv
<1>9. WaitInv'
  BY <1>1, <1>2, <1>3 DEF WaitInv
<1> QED
  BY <1>4, <1>5, <1>6, <1>7, <1>8, <1>9 DEF IInv

LEMMA PostingInv == ASSUME IInv, Posting PROVE IInv'
<1>1. CASE Answer
  <2>1. main \in {"udp", "tcp"} /\ Post(Main)
    BY <1>1 DEF Answer
  <2> QED
    BY <2>1, PostInv, TaskAssumption DEF Sleeping
<1>2. CASE main = "done" /\ \E t \in Task \ (Sleeper \cup {Main}) : Post(t)
  BY <1>2, PostInv DEF Sleeping
<1> QED
  BY <1>1, <1>2 DEF Posting

\* Reading the clock brings the driver up to date.
LEMMA NowKeeps ==
    ASSUME TypeOK, ClockInv, Now, UNCHANGED time
    PROVE  /\ timekeeper' = time /\ prev' = time % Word
           /\ timekeeper' \in 0..MaxTime /\ prev' \in 0..Word - 1
           /\ ClockInv'
<1>1. timekeeper' = time /\ prev' = time % Word /\ prev' \in 0..Word - 1
  BY NowIs DEF Now, TickCount
<1>2. time \in Nat /\ time <= MaxTime
  BY NowIs
<1>3. ClockInv'
  BY <1>1, <1>2, Constants DEF ClockInv
<1> QED
  BY <1>1, <1>2, <1>3

\* The run queue is taken: a sleeper with a timer is not in it.
LEMMA DequeueInv == ASSUME IInv, Dequeue PROVE IInv'
<1>1. TypeOK /\ NoSleepOnWork /\ ClockInv /\ MainInv /\ SleeperInv /\ DueInv /\ WaitInv
  BY DEF IInv
<1>2. /\ UNCHANGED <<time, timekeeper, prev, timer, notified, event, nowTicks, diffTicks, until,
                     main, netif>>
      /\ batch' = runq /\ runq' = {} /\ pc = "poll" /\ pc' = "run" /\ batch = {}
  BY <1>1 DEF Dequeue, clock, wait, boot, SleeperInv
<1>3. TypeOK' /\ NoSleepOnWork' /\ MainInv' /\ WaitInv'
  BY <1>1, <1>2 DEF TypeOK, NoSleepOnWork, MainInv, WaitInv
<1>4. SleeperInv'
  <2>1. Sleeping' = Sleeping
    BY <1>2 DEF Sleeping
  <2> QED
    BY <1>1, <1>2, <2>1 DEF SleeperInv
<1>5. ClockInv'
  <2>1. Unread => Unread'
    BY <1>2 DEF Unread
  <2>2. time \in Nat /\ timekeeper \in Nat
    BY <1>1, NowIs
  <2>3. CASE Unread
    BY <1>1, <1>2, <2>1, <2>3 DEF ClockInv
  <2>4. CASE ~ Unread
    <3>1. time <= timekeeper + Lag
      BY <1>1, <1>2, <2>4 DEF ClockInv
    <3> QED
      BY <1>1, <1>2, <2>2, <3>1, Constants DEF ClockInv
  <2> QED
    BY <2>3, <2>4
<1>6. DueInv'
  <2>1. ASSUME NEW t \in Task, timer[t] # Never PROVE timekeeper < timer[t] + Polled' * Lag
    <3>1. PICK s \in Sleeper : s \notin batch'
      BY <1>1, <1>2, <2>1, TimerSet
    <3>2. Polled' \in Nat
      BY <3>1, FewerSleepers DEF Polled
    <3>3. Polled' * Lag \in Nat
      BY <3>2, Scaled
    <3>4. timekeeper < timer[t] /\ timer[t] \in Nat /\ timekeeper \in Nat
      BY <1>1, <1>2, Constants DEF DueInv, TypeOK
    <3> QED
      BY <3>3, <3>4
  <2> QED
    BY <1>2, <2>1 DEF DueInv
<1> QED
  BY <1>3, <1>4, <1>5, <1>6 DEF IInv

\* A task is polled.  If it is a sleeper the clock is read, a delay later at
\* most, and one more sleeper has been polled.
LEMMA PollTaskInv == ASSUME IInv, NEW u \in Task, PollTask(u) PROVE IInv'
<1>1. TypeOK /\ NoSleepOnWork /\ ClockInv /\ MainInv /\ SleeperInv /\ DueInv /\ WaitInv
  BY DEF IInv
<1>2. /\ UNCHANGED <<time, runq, notified, pc, nowTicks, diffTicks, until, main, netif>>
      /\ pc = "run" /\ u \in batch /\ batch' = batch \ {u} /\ event' = event \ {u} /\ u # Main
  BY DEF PollTask, Polls, wait
<1> main = "done" /\ ~ Unread /\ Sleeping = Sleeper /\ Sleeping' = Sleeper
  BY <1>1, <1>2 DEF MainInv, Unread, Sleeping
<1>3. NoSleepOnWork' /\ MainInv' /\ WaitInv'
  BY <1>1, <1>2 DEF NoSleepOnWork, MainInv, WaitInv
<1>4. /\ time \in Nat /\ timekeeper \in Nat /\ timer \in [Task -> Nat] /\ NowValue = time
      /\ time <= MaxTime /\ time <= timekeeper + Lag
  BY <1>1, <1>2, NowIs, Constants DEF TypeOK, ClockInv
<1>5. CASE u \in Sleeper
  <2>1. timer[u] = Never
    BY <1>1, <1>2, <1>5 DEF SleeperInv
  <2>2. Now /\ timer' = [timer EXCEPT ![u] = time + Delay[u]]
    BY <1>4, <1>5, <2>1 DEF PollTask, StartTimer
  <2>3. /\ timekeeper' = time /\ timekeeper' \in 0..MaxTime /\ prev' \in 0..Word - 1
        /\ ClockInv'
    BY <1>1, <1>2, <2>2, NowKeeps
  <2>4. /\ timer'[u] = time + Delay[u] /\ Delay[u] \in 1..Period
        /\ time + Delay[u] \in 0..Never /\ time + Delay[u] # Never
        /\ \A t \in Task : t # u => timer'[t] = timer[t]
    <3>1. Delay[u] \in 1..Period
      BY <1>5, TimeAssumption
    <3> QED
      BY <1>4, <2>2, <3>1, Constants
  <2>5. TypeOK'
    <3>1. timer' \in [Task -> 0..Never]
      BY <1>1, <2>2, <2>4 DEF TypeOK
    <3> QED
      BY <1>1, <1>2, <2>3, <3>1 DEF TypeOK
  <2>6. SleeperInv'
    <3>1. \A t \in Task : timer'[t] = Never \/ timer'[t] <= timekeeper' + Period
      <4>1. ASSUME NEW t \in Task, t # u, timer[t] # Never PROVE timer[t] <= time + Period
        <5>1. timer[t] <= timekeeper + Period /\ timekeeper <= time
          BY <1>1, <4>1 DEF SleeperInv, ClockInv
        <5> QED
          BY <1>4, <5>1, Constants
      <4> QED
        BY <1>4, <2>3, <2>4, <4>1, Constants
    <3>2. \A t \in Task \ Sleeper : timer'[t] = Never
      BY <1>1, <1>5, <2>4 DEF SleeperInv
    <3>3. \A t \in Sleeper : timer'[t] = Never <=> t \in runq' \cup batch'
      <4>1. u \notin runq
        BY <1>1, <1>2 DEF SleeperInv
      <4>2. \A t \in Sleeper : t \in Task
        BY TaskAssumption
      <4> QED
        BY <1>1, <1>2, <2>4, <4>1, <4>2 DEF SleeperInv
    <3> QED
      BY <1>1, <1>2, <3>1, <3>2, <3>3 DEF SleeperInv
  <2>7. DueInv'
    <3>1. Polled' = Polled + 1 /\ Polled \in Int
      <4>1. batch' \cap Sleeper = (batch \cap Sleeper) \ {u} /\ u \in batch \cap Sleeper
        BY <1>2, <1>5
      <4>2. IsFiniteSet(batch \cap Sleeper) /\ Cardinality(batch \cap Sleeper) \in Nat
        BY FewerSleepers
      <4>3. Cardinality(batch' \cap Sleeper) = Cardinality(batch \cap Sleeper) - 1
        BY <4>1, <4>2, FS_RemoveElement
      <4> QED
        BY <4>2, <4>3, SleeperCount DEF Polled
    <3>2. ASSUME NEW t \in Task, timer'[t] # Never
          PROVE  timekeeper' < timer'[t] + Polled' * Lag
      <4>1. CASE t = u
        <5>1. Polled' \in Nat
          BY <1>2, <1>5, FewerSleepers DEF Polled
        <5>2. Polled' * Lag \in Nat
          BY <5>1, Scaled
        <5> QED
          BY <1>4, <2>3, <2>4, <4>1, <5>2, Constants
      <4>2. CASE t # u
        <5>1. timer'[t] = timer[t] /\ timer[t] # Never
          BY <2>4, <3>2, <4>2
        <5>2. t \in Sleeper /\ t \notin batch
          BY <1>1, <5>1 DEF SleeperInv
        <5>3. Polled \in Nat
          BY <5>2, FewerSleepers DEF Polled
        <5>4. (Polled + 1) * Lag = Polled * Lag + Lag /\ Polled * Lag \in Nat
          BY <5>3, Scaled
        <5>5. timekeeper < timer[t] + Polled * Lag
          BY <1>1, <1>2, <5>1 DEF DueInv
        <5>6. timer[t] \in Nat
          BY <1>4
        <5> QED
          BY <1>4, <2>3, <3>1, <5>1, <5>4, <5>5, <5>6, Constants
      <4> QED
        BY <4>1, <4>2
    <3> QED
      BY <1>2, <3>2 DEF DueInv
  <2> QED
    BY <1>3, <2>3, <2>5, <2>6, <2>7 DEF IInv
<1>6. CASE u \notin Sleeper
  <2>1. UNCHANGED <<timekeeper, prev, timer>>
    BY <1>6 DEF PollTask, clock
  <2>2. TypeOK' /\ ClockInv'
    BY <1>1, <1>2, <1>4, <2>1, Constants DEF TypeOK, ClockInv
  <2>3. SleeperInv'
    BY <1>1, <1>2, <1>6, <2>1 DEF SleeperInv
  <2>4. batch' \cap Sleeper = batch \cap Sleeper
    BY <1>2, <1>6
  <2>5. DueInv'
    BY <1>1, <1>2, <2>1, <2>4 DEF DueInv, Polled
  <2> QED
    BY <1>3, <2>2, <2>3, <2>5 DEF IInv
<1> QED
  BY <1>5, <1>6

\* When embassy_main is polled nothing else is queued and there is no timer.
LEMMA MainPolled ==
    ASSUME IInv, PollMain
    PROVE  /\ UNCHANGED <<time, pc, nowTicks, diffTicks, until, netif>>
           /\ pc = "run" /\ batch = {Main} /\ batch' = {} /\ event' = event \ {Main} /\ runq = {}
           /\ main # "done" /\ (main # "start" => ~ Unread)
           /\ \A t \in Task : timer[t] = Never
<1>1. MainInv /\ SleeperInv
  BY DEF IInv
<1>2. /\ UNCHANGED <<time, pc, nowTicks, diffTicks, until, netif>>
      /\ pc = "run" /\ Main \in batch /\ batch' = batch \ {Main} /\ event' = event \ {Main}
  BY DEF PollMain, Polls, wait
<1>3. main \in {"start", "udp", "tcp", "ip"}
  BY DEF PollMain, IInv, TypeOK
<1>4. batch = {Main} /\ runq = {}
  BY <1>1, <1>2, <1>3 DEF MainInv, SleeperInv
<1>5. \A t \in Task : timer[t] = Never
  BY <1>1, <1>3, <1>4 DEF SleeperInv, Sleeping
<1> QED
  BY <1>2, <1>3, <1>4, <1>5 DEF Unread

\* embassy_main waits for lwIP: no task is queued, and there is no timer.
LEMMA OpenSocketInv == ASSUME IInv, PollMain, OpenSocket PROVE IInv'
<1>1. TypeOK /\ NoSleepOnWork /\ ClockInv /\ MainInv /\ SleeperInv /\ DueInv /\ WaitInv
  BY DEF IInv
<1>2. /\ UNCHANGED <<time, timekeeper, prev, timer, runq, notified, pc, nowTicks, diffTicks, until, netif>>
      /\ pc = "run" /\ batch' = {} /\ event' = event \ {Main} /\ runq = {}
      /\ \A t \in Task : timer[t] = Never
  BY MainPolled DEF OpenSocket, clock
<1>3. main' \in {"udp", "tcp", "failed"}
  BY DEF OpenSocket, UdpBind, TcpListen
<1>4. TypeOK' /\ NoSleepOnWork' /\ WaitInv'
  BY <1>1, <1>2, <1>3 DEF TypeOK, NoSleepOnWork, WaitInv
<1>5. MainInv' /\ SleeperInv'
  BY <1>1, <1>2, <1>3 DEF MainInv, SleeperInv, Sleeping
<1>6. ClockInv'
  <2>1. time \in Nat /\ timekeeper \in Nat
    BY <1>1, NowIs
  <2>2. CASE main = "start"
    <3>1. Unread /\ Unread'
      BY <1>2, <1>3, <2>2 DEF Unread
    <3> QED
      BY <1>1, <1>2, <3>1 DEF ClockInv
  <2>3. CASE main # "start"
    <3>1. time <= timekeeper + Lag
      BY <1>1, <1>2, <2>3, MainPolled DEF ClockInv
    <3> QED
      BY <1>1, <1>2, <2>1, <3>1, Constants DEF ClockInv
  <2> QED
    BY <2>2, <2>3
<1>7. DueInv'
  BY <1>2 DEF DueInv
<1> QED
  BY <1>4, <1>5, <1>6, <1>7 DEF IInv

\* embassy_main sets its timer.
LEMMA WaitForIpInv == ASSUME IInv, PollMain, WaitForIp PROVE IInv'
<1>1. TypeOK /\ NoSleepOnWork /\ ClockInv /\ MainInv /\ SleeperInv /\ DueInv /\ WaitInv
  BY DEF IInv
<1>2. /\ UNCHANGED <<time, runq, notified, pc, nowTicks, diffTicks, until, netif>>
      /\ pc = "run" /\ batch' = {} /\ event' = event \ {Main} /\ runq = {}
      /\ \A t \in Task : timer[t] = Never
  BY MainPolled DEF WaitForIp
<1>3. main' = "ip" /\ Now /\ timer' = [timer EXCEPT ![Main] = NowValue + Delay[Main]]
  BY DEF WaitForIp, StartTimer
<1>4. time \in Nat /\ time <= MaxTime /\ NowValue = time /\ timer \in [Task -> 0..Never]
  BY <1>1, NowIs DEF TypeOK
<1>5. timekeeper' = time /\ timekeeper' \in 0..MaxTime /\ prev' \in 0..Word - 1 /\ ClockInv'
  BY <1>1, <1>2, <1>3, NowKeeps
<1>6. Main \in Task /\ Delay[Main] \in 1..Period
  BY TaskAssumption, TimeAssumption
<1>7. /\ timer'[Main] = time + Delay[Main]
      /\ time + Delay[Main] \in 0..Never /\ time + Delay[Main] # Never
      /\ time < time + Delay[Main] /\ time + Delay[Main] <= time + Period
      /\ \A t \in Task : t # Main => timer'[t] = Never
  BY <1>2, <1>3, <1>4, <1>6, Constants
<1>8. TypeOK' /\ NoSleepOnWork' /\ WaitInv'
  <2>1. timer' \in [Task -> 0..Never]
    BY <1>3, <1>4, <1>7
  <2> QED
    BY <1>1, <1>2, <1>3, <1>5, <2>1 DEF TypeOK, NoSleepOnWork, WaitInv
<1>9. MainInv' /\ SleeperInv'
  <2>1. Sleeping' = {Main}
    BY <1>3 DEF Sleeping
  <2> QED
    BY <1>2, <1>3, <1>5, <1>6, <1>7, <2>1 DEF MainInv, SleeperInv
<1>10. DueInv'
  <2>1. Polled' \in Nat
    BY <1>2, TaskAssumption, FewerSleepers DEF Polled
  <2>2. Polled' * Lag \in Nat
    BY <2>1, Scaled
  <2>3. ASSUME NEW t \in Task, timer'[t] # Never
        PROVE  timekeeper' < timer'[t] + Polled' * Lag
    <3>1. t = Main
      BY <1>7, <2>3
    <3> QED
      BY <1>4, <1>5, <1>6, <1>7, <2>2, <3>1, Constants
  <2> QED
    BY <1>2, <2>3 DEF DueInv
<1> QED
  BY <1>5, <1>8, <1>9, <1>10 DEF IInv

\* The sleepers are spawned: they are queued and have no timer yet.
LEMMA SpawnTasksInv == ASSUME IInv, PollMain, SpawnTasks PROVE IInv'
<1>1. TypeOK /\ NoSleepOnWork /\ ClockInv /\ MainInv /\ SleeperInv /\ DueInv /\ WaitInv
  BY DEF IInv
<1>2. /\ UNCHANGED <<time, timer, pc, nowTicks, diffTicks, until, netif>>
      /\ pc = "run" /\ batch = {Main} /\ batch' = {} /\ event' = event \ {Main} /\ runq = {}
      /\ \A t \in Task : timer[t] = Never
  BY MainPolled DEF SpawnTasks
<1>3. main' = "done" /\ Wake(Task \ {Main})
  BY DEF SpawnTasks
<1>4. /\ runq' \in SUBSET Task /\ notified' \in BOOLEAN
      /\ runq' = Task \ {Main} /\ notified'
  <2>1. Sleeper # {} /\ Sleeper \subseteq Task \ {Main}
    BY TaskAssumption
  <2> QED
    BY <1>2, <1>3, <2>1 DEF Wake, Pend
<1>5. timekeeper' \in 0..MaxTime /\ prev' \in 0..Word - 1 /\ ClockInv'
  <2>1. CASE main = "ip"
    BY <1>1, <1>2, <2>1, NowKeeps DEF SpawnTasks
  <2>2. CASE main # "ip"
    <3>1. UNCHANGED <<timekeeper, prev>> /\ Unread'
      BY <1>2, <2>2 DEF SpawnTasks, clock, Unread
    <3>2. time <= timekeeper + BootTicks
      <4>1. CASE Unread
        BY <1>1, <4>1 DEF ClockInv
      <4>2. CASE ~ Unread
        <5>1. time <= timekeeper + Lag /\ time \in Nat /\ timekeeper \in Nat
          BY <1>1, <1>2, <4>2, NowIs DEF ClockInv
        <5> QED
          BY <5>1, Constants
      <4> QED
        BY <4>1, <4>2
    <3> QED
      BY <1>1, <1>2, <3>1, <3>2 DEF TypeOK, ClockInv
  <2> QED
    BY <2>1, <2>2
<1>6. TypeOK' /\ NoSleepOnWork' /\ WaitInv'
  BY <1>1, <1>2, <1>3, <1>4, <1>5 DEF TypeOK, NoSleepOnWork, WaitInv
<1>7. MainInv' /\ SleeperInv'
  <2>1. Sleeping' = Sleeper
    BY <1>3 DEF Sleeping
  <2> QED
    BY <1>2, <1>3, <1>4, <2>1, TaskAssumption DEF MainInv, SleeperInv
<1>8. DueInv'
  BY <1>2 DEF DueInv
<1> QED
  BY <1>5, <1>6, <1>7, <1>8 DEF IInv

\* The clock is read after the poll: every sleeper has been polled.
LEMMA ReadNowInv == ASSUME IInv, ReadNow PROVE IInv'
<1>1. TypeOK /\ NoSleepOnWork /\ ClockInv /\ MainInv /\ SleeperInv /\ DueInv /\ WaitInv
  BY DEF IInv
<1>2. /\ UNCHANGED <<time, timer, runq, batch, notified, event, diffTicks, until, main, netif>>
      /\ Now /\ pc = "run" /\ pc' = "expiry" /\ batch = {} /\ nowTicks' = NowValue
  BY DEF ReadNow, work, boot
<1>3. /\ time \in Nat /\ timekeeper \in Nat /\ timer \in [Task -> Nat] /\ NowValue = time
      /\ timekeeper <= time
  BY <1>1, <1>2, NowIs, Constants DEF TypeOK, ClockInv
<1>4. timekeeper' = time /\ timekeeper' \in 0..MaxTime /\ prev' \in 0..Word - 1 /\ ClockInv'
  BY <1>1, <1>2, NowKeeps
<1>5. TypeOK' /\ NoSleepOnWork' /\ MainInv'
  BY <1>1, <1>2, <1>3, <1>4 DEF TypeOK, NoSleepOnWork, MainInv
<1>6. SleeperInv'
  <2> Sleeping' = Sleeping
    BY <1>2 DEF Sleeping
  <2>1. ASSUME NEW t \in Task, timer[t] # Never PROVE timer[t] <= time + Period
    <3>1. timer[t] <= timekeeper + Period /\ timer[t] \in Nat
      BY <1>1, <1>3, <2>1 DEF SleeperInv
    <3> QED
      BY <1>3, <3>1, Constants
  <2> QED
    BY <1>1, <1>2, <1>4, <2>1 DEF SleeperInv
<1>7. DueInv'
  <2>1. ASSUME NEW t \in Task, timer[t] # Never
        PROVE  time < timer[t] + Cardinality(Sleeper) * Lag
    <3> DEFINE c == Cardinality(Sleeper) - 1
    <3>1. Polled = c /\ c \in Nat /\ Cardinality(Sleeper) = c + 1
      <4>1. batch \cap Sleeper = {}
        BY <1>2
      <4> QED
        BY <4>1, SleeperCount, FS_EmptySet DEF Polled
    <3>2. timekeeper < timer[t] + Polled * Lag /\ timer[t] \in Nat
      BY <1>1, <1>2, <1>3, <2>1 DEF DueInv
    <3>4. time <= timekeeper + Lag
      BY <1>1, <1>2, <2>1, TimerSet DEF ClockInv
    <3> HIDE DEF c
    <3>3. (c + 1) * Lag = c * Lag + Lag /\ c * Lag \in Nat
      BY <3>1, Scaled
    <3> QED
      BY <1>3, <3>1, <3>2, <3>3, <3>4, Constants
  <2> QED
    BY <1>2, <1>4, <2>1 DEF DueInv
<1>8. WaitInv'
  BY <1>2, <1>3, <1>4 DEF WaitInv
<1> QED
  BY <1>4, <1>5, <1>6, <1>7, <1>8 DEF IInv

\* next_expiration leaves no timer that is due, and the sleepers whose timers
\* it has taken from the queue are in the run queue.
LEMMA ExpirationKeeps ==
    ASSUME IInv, NextExpiration, UNCHANGED <<time, batch, event, main, netif>>,
           pc # "run", pc' # "run",
           pc \in {"poll", "woken"} => pc' \in {"poll", "woken"},
           nowTicks' \in 0..MaxTime, diffTicks' \in 0..Word - 1, until' \in 0..Never,
           pc' \in {"poll", "take"}
    PROVE  /\ TypeOK' /\ NoSleepOnWork' /\ ClockInv' /\ MainInv' /\ SleeperInv'
           /\ timekeeper' = time
           /\ \A t \in Task : /\ timer'[t] \in Nat /\ time < timer'[t]
                              /\ timer'[t] = Never \/ timer'[t] = timer[t]
<1>1. TypeOK /\ NoSleepOnWork /\ ClockInv /\ MainInv /\ SleeperInv
  BY DEF IInv
<1>2. /\ time \in Nat /\ timekeeper \in Nat /\ timer \in [Task -> 0..Never] /\ NowValue = time
      /\ timekeeper <= time /\ time < Never
  BY <1>1, NowIs, Constants DEF TypeOK, ClockInv
<1>3. timekeeper' = time /\ timekeeper' \in 0..MaxTime /\ prev' \in 0..Word - 1 /\ ClockInv'
  BY <1>1, NowKeeps DEF NextExpiration
<1>4. Due = {t \in Task : timer[t] <= time}
  BY <1>2 DEF Due
<1>5. timer' = [t \in Task |-> IF t \in Due THEN Never ELSE timer[t]]
  BY DEF NextExpiration
<1>6. /\ timer' \in [Task -> 0..Never]
      /\ \A t \in Task : /\ timer'[t] \in Nat /\ time < timer'[t]
                         /\ timer'[t] = Never \/ timer'[t] = timer[t]
                         /\ timer'[t] = Never <=> timer[t] = Never \/ t \in Due
  BY <1>2, <1>4, <1>5, Constants
<1>7. Due \in SUBSET Task /\ Wake(Due)
  BY <1>4 DEF NextExpiration
<1>8. runq' \in SUBSET Task /\ notified' \in BOOLEAN /\ runq' = runq \cup (Due \ batch)
  BY <1>1, <1>7, WakeTypes
<1>9. TypeOK'
  BY <1>1, <1>3, <1>6, <1>8 DEF TypeOK
<1>10. NoSleepOnWork'
  <2>1. WorkInv
    BY <1>1 DEF TypeOK, WorkInv, WorkTypeOK
  <2> QED
    BY <2>1, <1>7, WakingStep DEF WorkInv
<1>11. SleeperInv'
  <2>1. batch = {} /\ batch' = {}
    BY <1>1 DEF SleeperInv
  <2>2. ASSUME NEW t \in Task, timer'[t] # Never PROVE timer'[t] <= time + Period
    <3>1. timer'[t] = timer[t] /\ timer[t] # Never /\ timer[t] \in Nat
      BY <1>6, <2>2
    <3>2. timer[t] <= timekeeper + Period
      BY <1>1, <3>1 DEF SleeperInv
    <3> QED
      BY <1>2, <3>1, <3>2, Constants
  <2>3. \A t \in Task \ Sleeping : timer'[t] = Never
    BY <1>1, <1>6 DEF SleeperInv
  <2>4. \A t \in Sleeping : timer'[t] = Never <=> t \in runq' \cup batch'
    <3>1. \A t \in Sleeping : t \in Task
      BY TaskAssumption DEF Sleeping
    <3> QED
      BY <1>1, <1>6, <1>8, <2>1, <3>1 DEF SleeperInv
  <2>5. Sleeping' = Sleeping
    BY DEF Sleeping
  <2> QED
    BY <1>3, <2>1, <2>2, <2>3, <2>4, <2>5 DEF SleeperInv
<1>12. MainInv'
  <2>1. Due \subseteq Sleeping
    BY <1>1, <1>2, <1>4 DEF SleeperInv
  <2>2. main # "done" => Due \subseteq {Main}
    BY <2>1 DEF Sleeping
  <2>3. main = "start" => Due = {} /\ pc = "poll"
    BY <1>1, <2>1 DEF Sleeping, MainInv
  <2> QED
    BY <1>1, <1>8, <2>2, <2>3 DEF MainInv
<1> QED
  BY <1>3, <1>6, <1>9, <1>10, <1>11, <1>12

\* The wait is computed: up to the next expiration and a delay, and for a
\* period at most unless there is no timer.
LEMMA ExpiryInv == ASSUME IInv, Expiry PROVE IInv'
<1>1. TypeOK /\ ClockInv /\ MainInv /\ SleeperInv /\ WaitInv
  BY DEF IInv
<1>2. /\ NextExpiration /\ UNCHANGED <<time, batch, event, until, main, netif>>
      /\ pc = "expiry" /\ pc' = "take" /\ nowTicks' = 0
      /\ diffTicks' = DiffTicks(Min({timer'[t] : t \in Task}), nowTicks)
  BY DEF Expiry, boot
<1>3. /\ nowTicks = timekeeper /\ time \in Nat /\ timekeeper \in Nat /\ time <= MaxTime
      /\ timekeeper <= time /\ time <= timekeeper + Lag
  <2>1. ~ Unread
    BY <1>1, <1>2 DEF Unread, MainInv
  <2> QED
    BY <1>1, <1>2, <2>1, NowIs DEF ClockInv, WaitInv
<1> DEFINE D == {timer'[t] : t \in Task}
<1>4. timer' = [t \in Task |-> IF t \in Due THEN Never ELSE timer[t]]
  BY <1>2 DEF NextExpiration
<1>5. D \subseteq Nat /\ D # {}
  <2>1. timer \in [Task -> Nat]
    BY <1>1, Constants DEF TypeOK
  <2> QED
    BY <1>4, <2>1, Constants, TaskAssumption
<1>6. PICK m \in D : m = Min(D) /\ \A y \in D : m <= y
  BY <1>5, MinIsLeast
<1>7. m \in Nat /\ \A t \in Task : m <= timer'[t]
  BY <1>5, <1>6
<1>8. diffTicks' = DiffTicks(m, timekeeper)
  BY <1>2, <1>3, <1>6
<1> HIDE DEF D
<1>9. diffTicks' \in 0..Word - 1 /\ (timekeeper <= m => diffTicks' + timekeeper <= m)
  BY <1>3, <1>7, <1>8, Constants DEF DiffTicks
<1>10. nowTicks' \in 0..MaxTime /\ until' \in 0..Never
  BY <1>1, <1>2, Constants DEF TypeOK
<1>11. /\ TypeOK' /\ NoSleepOnWork' /\ ClockInv' /\ MainInv' /\ SleeperInv'
       /\ timekeeper' = time
       /\ \A t \in Task : /\ timer'[t] \in Nat /\ time < timer'[t]
                          /\ timer'[t] = Never \/ timer'[t] = timer[t]
  BY <1>2, <1>9, <1>10, ExpirationKeeps
<1>12. DueInv'
  <2>1. timekeeper <= m
    <3>1. PICK t \in Task : m = timer'[t]
      BY <1>6 DEF D
    <3> QED
      BY <1>3, <1>7, <1>11, <3>1
  <2>2. ASSUME NEW t \in Task PROVE diffTicks' + timekeeper' <= timer'[t] + Lag
    <3>1. timer'[t] \in Nat /\ m \in Nat /\ m <= timer'[t] /\ timekeeper' = time
      BY <1>7, <1>11
    <3>2. diffTicks' \in Nat /\ diffTicks' + timekeeper <= m
      BY <1>9, <2>1, Constants
    <3>3. diffTicks' + time <= timer'[t] + Lag
      BY <1>3, <3>1, <3>2, OldReading, Zenon
    <3> QED
      BY <3>1, <3>3, Zenon
  <2> QED
    BY <1>2, <1>11, <2>2 DEF DueInv
<1>13. WaitInv'
  <2>1. CASE \E t \in Task : timer'[t] # Never
    <3>1. PICK t \in Task : timer'[t] # Never
      BY <2>1
    <3>2. timer'[t] = timer[t] /\ timer[t] # Never /\ timer[t] \in Nat
      BY <1>11, <3>1
    <3>3. timer[t] <= timekeeper + Period
      BY <1>1, <3>2 DEF SleeperInv
    <3>4. m <= timekeeper + Period
      BY <1>3, <1>7, <3>1, <3>2, <3>3, Constants
    <3>5. diffTicks' <= Period
      BY <1>3, <1>7, <1>8, <3>4, Constants DEF DiffTicks
    <3> QED
      BY <1>2, <3>5 DEF WaitInv
  <2>2. CASE \A t \in Task : timer'[t] = Never
    <3>1. m = Never
      BY <1>6, <2>2 DEF D
    <3>2. diffTicks' = Word - 1
      BY <1>3, <1>8, <3>1, Constants DEF DiffTicks
    <3> QED
      BY <1>2, <3>2 DEF WaitInv
  <2> QED
    BY <2>1, <2>2
<1> QED
  BY <1>11, <1>12, <1>13 DEF IInv

\* The wait ends, or does not begin, because of a notification.
LEMMA TakeNotifiedInv == ASSUME IInv, TakeNotified PROVE IInv'
<1>1. TypeOK /\ NoSleepOnWork /\ ClockInv /\ MainInv /\ SleeperInv /\ DueInv /\ WaitInv
  BY DEF IInv
<1>2. /\ UNCHANGED <<time, timekeeper, prev, timer, runq, batch, event, nowTicks, main, netif>>
      /\ pc \in {"take", "blocked"} /\ pc' = "woken" /\ notified' = FALSE
      /\ diffTicks' = 0 /\ until' = 0
  BY DEF TakeNotified, clock, boot
<1> ~ Unread /\ ~ Unread' /\ Sleeping' = Sleeping
  BY <1>1, <1>2 DEF Unread, MainInv, Sleeping
<1>3. TypeOK'
  <2>1. 0 \in 0..Word - 1 /\ 0 \in 0..Never
    BY Constants
  <2>2. notified' \in BOOLEAN /\ pc' \in {"poll", "run", "expiry", "take", "blocked", "woken"}
    BY <1>2
  <2> QED
    BY <1>1, <1>2, <2>1, <2>2 DEF TypeOK
<1>4. NoSleepOnWork' /\ ClockInv' /\ MainInv' /\ SleeperInv' /\ WaitInv'
  BY <1>1, <1>2 DEF NoSleepOnWork, ClockInv, MainInv, SleeperInv, WaitInv
<1>5. DueInv'
  <2>1. ASSUME NEW t \in Task PROVE time <= timer[t] + 3 * Lag
    <3>1. /\ time \in Nat /\ timekeeper \in Nat /\ timer[t] \in Nat /\ until \in Nat
          /\ time < Never
      BY <1>1, Constants DEF TypeOK
    <3>2. CASE pc = "take"
      BY <1>1, <3>1, <3>2, Constants DEF ClockInv, DueInv
    <3>3. CASE pc = "blocked"
      <4>1. until <= timer[t] + 2 * Lag /\ (until = Never \/ time <= until + Lag)
        BY <1>1, <3>3 DEF DueInv, WaitInv
      <4> QED
        BY <3>1, <4>1, Constants
    <3> QED
      BY <1>2, <3>2, <3>3
  <2> QED
    BY <1>1, <1>2, <2>1 DEF DueInv
<1> QED
  BY <1>3, <1>4, <1>5 DEF IInv

\* The task blocks; for ever only if there is no timer.
LEMMA BlockInv == ASSUME IInv, Block PROVE IInv'
<1>1. TypeOK /\ NoSleepOnWork /\ ClockInv /\ MainInv /\ SleeperInv /\ DueInv /\ WaitInv
  BY DEF IInv
<1>2. /\ UNCHANGED <<time, timekeeper, prev, timer, runq, batch, notified, event, nowTicks, main, netif>>
      /\ pc = "take" /\ pc' = "blocked" /\ ~ notified /\ diffTicks' = 0
      /\ until' = IF diffTicks = Word - 1 THEN Never ELSE time + diffTicks
  BY DEF Block, clock, work, boot
<1> ~ Unread /\ ~ Unread' /\ Sleeping' = Sleeping
  BY <1>1, <1>2 DEF Unread, MainInv, Sleeping
<1>3. /\ time \in 0..MaxTime /\ timekeeper \in Nat /\ diffTicks \in Nat
      /\ diffTicks <= Period \/ diffTicks = Word - 1
      /\ time <= timekeeper + Lag
  BY <1>1, <1>2, Constants DEF TypeOK, WaitInv, ClockInv
<1>4. until' \in 0..Never
  BY <1>2, <1>3, Constants
<1>5. TypeOK'
  BY <1>1, <1>2, <1>4, Constants DEF TypeOK
<1>6. NoSleepOnWork' /\ ClockInv' /\ MainInv' /\ SleeperInv'
  BY <1>1, <1>2 DEF NoSleepOnWork, ClockInv, MainInv, SleeperInv
<1>7. WaitInv'
  <2>1. CASE diffTicks = Word - 1
    BY <1>2, <1>3, <2>1 DEF WaitInv
  <2>2. CASE diffTicks # Word - 1
    BY <1>2, <1>3, <2>2, Constants DEF WaitInv
  <2> QED
    BY <2>1, <2>2
<1>8. DueInv'
  <2>1. ASSUME NEW t \in Task PROVE until' <= timer[t] + 2 * Lag
    <3>1. diffTicks + timekeeper <= timer[t] + Lag /\ timer[t] \in Nat
      BY <1>1, <1>2, Constants DEF DueInv, TypeOK
    <3>2. CASE diffTicks # Word - 1
      BY <1>2, <1>3, <3>1, <3>2, Constants
    <3>3. CASE diffTicks = Word - 1
      <4>1. timer[t] = Never \/ timer[t] <= timekeeper + Period
        BY <1>1 DEF SleeperInv
      <4>2. timer[t] = Never
        BY <1>3, <3>1, <3>3, <4>1, Constants
      <4> QED
        BY <1>2, <3>3, <4>2, Constants
    <3> QED
      BY <3>2, <3>3
  <2> QED
    BY <1>1, <1>2, <2>1 DEF DueInv
<1> QED
  BY <1>5, <1>6, <1>7, <1>8 DEF IInv

\* The wait has timed out.
LEMMA TimeOutInv == ASSUME IInv, TimeOut PROVE IInv'
<1>1. TypeOK /\ NoSleepOnWork /\ ClockInv /\ MainInv /\ SleeperInv /\ DueInv /\ WaitInv
  BY DEF IInv
<1>2. /\ UNCHANGED <<time, timekeeper, prev, timer, runq, batch, notified, event, nowTicks, diffTicks,
                     main, netif>>
      /\ pc = "blocked" /\ pc' = "woken" /\ until' = 0
  BY DEF TimeOut, clock, work, boot
<1> ~ Unread /\ ~ Unread' /\ Sleeping' = Sleeping
  BY <1>1, <1>2 DEF Unread, MainInv, Sleeping
<1>3. TypeOK'
  BY <1>1, <1>2, Constants DEF TypeOK
<1>4. NoSleepOnWork' /\ ClockInv' /\ MainInv' /\ SleeperInv' /\ WaitInv'
  BY <1>1, <1>2 DEF NoSleepOnWork, ClockInv, MainInv, SleeperInv, WaitInv
<1>5. DueInv'
  <2>1. ASSUME NEW t \in Task PROVE time <= timer[t] + 3 * Lag
    <3>1. time \in Nat /\ timer[t] \in Nat /\ until \in Nat /\ time < Never
      BY <1>1, Constants DEF TypeOK
    <3>2. until <= timer[t] + 2 * Lag /\ (until = Never \/ time <= until + Lag)
      BY <1>1, <1>2 DEF DueInv, WaitInv
    <3> QED
      BY <3>1, <3>2, Constants
  <2> QED
    BY <1>1, <1>2, <2>1 DEF DueInv
<1> QED
  BY <1>3, <1>4, <1>5 DEF IInv

LEMMA WokenInv == ASSUME IInv, Woken PROVE IInv'
<1>1. /\ NextExpiration /\ UNCHANGED <<time, batch, event, nowTicks, diffTicks, until, main, netif>>
      /\ pc = "woken" /\ pc' = "poll"
  BY DEF Woken, wait, boot
<1>2. nowTicks' \in 0..MaxTime /\ diffTicks' \in 0..Word - 1 /\ until' \in 0..Never
  BY <1>1 DEF IInv, TypeOK
<1>3. /\ TypeOK' /\ NoSleepOnWork' /\ ClockInv' /\ MainInv' /\ SleeperInv'
      /\ timekeeper' = time
      /\ \A t \in Task : timer'[t] \in Nat /\ time < timer'[t]
  BY <1>1, <1>2, ExpirationKeeps
<1>4. DueInv' /\ WaitInv'
  BY <1>1, <1>3 DEF DueInv, WaitInv
<1> QED
  BY <1>3, <1>4 DEF IInv

LEMMA NextInv == IInv /\ [Next]_vars => IInv'
<1> SUFFICES ASSUME IInv, [Next]_vars PROVE IInv'
  OBVIOUS
<1>1. CASE UNCHANGED vars
  <2>1. UNCHANGED <<time, timekeeper, prev, timer, runq, batch, notified, event, pc, nowTicks,
                    diffTicks, until, main, netif>>
    BY <1>1 DEF vars, clock, work, wait, boot
  <2>2. Unread' = Unread /\ Sleeping' = Sleeping /\ Polled' = Polled
    BY <2>1 DEF Unread, Sleeping, Polled
  <2>3. TypeOK' /\ NoSleepOnWork'
    BY <2>1 DEF IInv, TypeOK, NoSleepOnWork
  <2>4. ClockInv' /\ MainInv' /\ SleeperInv'
    BY <2>1, <2>2 DEF IInv, ClockInv, MainInv, SleeperInv
  <2>5. DueInv' /\ WaitInv'
    BY <2>1, <2>2 DEF IInv, DueInv, WaitInv
  <2> QED
    BY <2>3, <2>4, <2>5 DEF IInv
<1>2. CASE PollMain
  BY <1>2, OpenSocketInv, WaitForIpInv, SpawnTasksInv DEF PollMain
<1>3. CASE Passing \/ Posting
  BY <1>3, TickInv, NetifUpInv, PostingInv DEF Passing
<1>4. CASE Run /\ ~ PollMain
  BY <1>4, DequeueInv, PollTaskInv, ReadNowInv, ExpiryInv, TakeNotifiedInv, BlockInv,
     TimeOutInv, WokenInv DEF Run
<1> QED
  BY <1>1, <1>2, <1>3, <1>4 DEF Next

LEMMA Invariance == Spec => []IInv
  BY InitInv, NextInv, PTL DEF Spec

\* Every variable of the executor and of its time driver keeps its type
\* (free_rtos/executor.rs 16-99, free_rtos/time_driver.rs 20-78).
THEOREM TypeCorrect == Spec => []TypeOK
<1>1. IInv => TypeOK
  BY DEF IInv
<1> QED
  BY Invariance, <1>1, PTL

\* The extended clock shows the true time, however often the 32-bit tick
\* count has wrapped, also while embassy_main is the only task and waits for
\* lwIP without a timer (free_rtos/time_driver.rs 20-41, 61-78).
THEOREM ClockShowsTime == Spec => []NowIsTime
<1>1. IInv => NowIsTime
  BY NowIs DEF IInv, NowIsTime
<1> QED
  BY Invariance, <1>1, PTL

\* No timer, that of embassy_main included, is served later than the delays of
\* the executor that can add up, for every number of sleepers and all their
\* delays (free_rtos/time_driver.rs 43-78, lib.rs 196-202).
THEOREM TimersServed == Spec => []TimersOnTime
<1>1. IInv => TimersOnTime
  <2> SUFFICES ASSUME IInv, NEW t \in Task PROVE time <= timer[t] + Delays * Lag
    BY DEF TimersOnTime
  <2>1. TypeOK /\ ClockInv /\ MainInv /\ SleeperInv /\ DueInv /\ WaitInv
    BY DEF IInv
  <2>2. /\ time \in Nat /\ timekeeper \in Nat /\ timer[t] \in Nat /\ until \in Nat /\ time < Never
        /\ pc \in {"poll", "run", "expiry", "take", "blocked", "woken"}
    BY <2>1, NowIs, Constants DEF TypeOK
  <2> DEFINE c == Cardinality(Sleeper)
             dl == Delays * Lag
             cl == c * Lag
  <2>3. /\ c \in Nat /\ dl \in Nat /\ cl \in Nat
        /\ 3 * Lag <= dl /\ cl + Lag <= dl
    <3>1. c \in Nat /\ c + 1 \in Nat /\ c + 1 <= Delays /\ Delays \in Nat /\ 3 <= Delays
      BY SleeperCount
    <3>2. c * Lag \in Nat /\ (c + 1) * Lag = c * Lag + Lag
      BY <3>1, Scaled
    <3>3. (c + 1) * Lag <= Delays * Lag
      BY <3>1, Scaled
    <3>4. 3 * Lag <= Delays * Lag /\ Delays * Lag \in Nat
      BY <3>1, Scaled
    <3> QED
      BY <3>1, <3>2, <3>3, <3>4
  <2> HIDE DEF c, dl, cl
  <2>4. CASE timer[t] = Never
    BY <2>2, <2>3, <2>4, Constants DEF dl
  <2>5. CASE timer[t] # Never /\ pc \in {"poll", "take"}
    <3>1. time <= timekeeper + Lag /\ timekeeper < timer[t]
      BY <2>1, <2>5, TimerSet DEF ClockInv, DueInv
    <3> QED
      BY <2>2, <2>3, <3>1, Constants DEF dl
  <2>6. CASE timer[t] # Never /\ pc = "run"
    <3>1. time <= timekeeper + Lag /\ timekeeper < timer[t] + Polled * Lag
      BY <2>1, <2>6, TimerSet DEF ClockInv, DueInv
    <3>2. Polled \in Nat /\ Polled <= Cardinality(Sleeper) - 1
      BY <2>1, <2>6, TimerSet
    <3>3. Polled <= c
      BY <3>2, SleeperCount DEF c
    <3>4. Polled * Lag \in Nat /\ Polled * Lag <= cl
      BY <2>3, <3>2, <3>3, Scaled DEF cl
    <3> QED
      BY <2>2, <2>3, <3>1, <3>4, Constants DEF dl
  <2>7. CASE timer[t] # Never /\ pc = "expiry"
    <3>1. time <= timekeeper + Lag /\ timekeeper < timer[t] + cl
      BY <2>1, <2>7, TimerSet DEF ClockInv, DueInv, cl, c
    <3> QED
      BY <2>2, <2>3, <3>1, Constants DEF dl
  <2>8. CASE pc = "blocked"
    <3>1. until <= timer[t] + 2 * Lag /\ (until = Never \/ time <= until + Lag)
      BY <2>1, <2>8 DEF DueInv, WaitInv
    <3> QED
      BY <2>2, <2>3, <3>1, Constants DEF dl
  <2>9. CASE pc = "woken"
    <3>1. time <= timer[t] + 3 * Lag
      BY <2>1, <2>9 DEF DueInv
    <3> QED
      BY <2>2, <2>3, <3>1, Constants DEF dl
  <2> QED
    BY <2>2, <2>4, <2>5, <2>6, <2>7, <2>8, <2>9
<1> QED
  BY Invariance, <1>1, PTL

=============================================================================
