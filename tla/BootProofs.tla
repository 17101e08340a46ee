----------------------------- MODULE BootProofs -----------------------------
(***************************************************************************)
(* The firmware from power on: while the drive is cleaned ticks are        *)
(* counted and nobody looks at the clock, and then the executor behaves as *)
(* Executor says, so that what is proved of it holds of the whole program; *)
(* and no job file of an earlier life is left when the executor starts,    *)
(* for every content of the drive.                                         *)
(***************************************************************************)
EXTENDS Boot, ExecutorProofs

\* While the drive is cleaned time passes and the network may come up; later
\* the executor's variables change as its own actions say.
LEMMA BootStep == [BootNext]_allVars => [Next]_vars
<1> SUFFICES ASSUME [BootNext]_allVars PROVE [Next]_vars
  OBVIOUS
<1>1. CASE UNCHANGED allVars
  BY <1>1 DEF allVars
<1>2. CASE FindAndDelete(Scan \/ FindFails)
  BY <1>2 DEF FindAndDelete
<1>3. CASE Executing(Run \/ Posting)
  BY <1>3 DEF Executing, Next
<1>4. CASE Meanwhile(Passing)
  BY <1>4 DEF Meanwhile, Next
<1> QED
  BY <1>1, <1>2, <1>3, <1>4 DEF BootNext

\* The firmware implements the executor: what embassy does before run only
\* takes time (lib.rs 104-137).
THEOREM ExecutorImplemented == BootSpec => Spec
<1>1. BootInit => Init
  BY DEF BootInit
<1> QED
  BY <1>1, BootStep, PTL DEF BootSpec, Spec

\* The extended clock shows the true time from power on: after the ticks that
\* passed while the drive was cleaned, while embassy_main opens the sockets and
\* waits for the network on its own timer, and once all tasks run
\* (free_rtos/time_driver.rs 20-41, 61-78, lib.rs 104-137, 175-230).
THEOREM BootClockShowsTime == BootSpec => []NowIsTime
  BY ExecutorImplemented, ClockShowsTime, PTL

\* No timer is late from power on, the timer of embassy_main included, although
\* the clock that sets it may not have been read since power on
\* (free_rtos/time_driver.rs 43-78, lib.rs 196-202).
THEOREM BootTimersServed == BootSpec => []TimersOnTime
  BY ExecutorImplemented, TimersServed, PTL

-----------------------------------------------------------------------------
(* The drive.                                                              *)

Stages == {"gcode", "partial", "run", "panic"}

BootTypes ==
    /\ stage \in Stages
    /\ dir \in Seq(Entry)
    /\ ioError \in BOOLEAN

\* A pattern whose scan is over has no match left, unless the drive failed: no
\* later scan brings a file back.
Cleaned ==
    ~ ioError =>
        /\ stage \notin {"gcode", "panic"} => \A i \in DOMAIN dir : dir[i].ext # "gcode"
        /\ stage \notin {"gcode", "partial", "panic"} => \A i \in DOMAIN dir : dir[i].ext # "partial"

BootInv == BootTypes /\ Cleaned

\* The first match is a match.
LEMMA FirstMatches ==
    ASSUME BootTypes, Matches # {}
    PROVE  Min(Matches) \in Matches /\ Min(Matches) \in 1..Len(dir) /\ Len(dir) \in Nat
<1>1. Matches \subseteq 1..Len(dir) /\ Len(dir) \in Nat
  BY DEF Matches, BootTypes
<1>2. Matches \subseteq Nat
  BY <1>1
<1> QED
  BY <1>1, <1>2, MinIsLeast

\* A deleted file is gone, and every entry left was there before.
LEMMA DeleteKeeps ==
    ASSUME BootTypes, Delete
    PROVE  dir' \in Seq(Entry) /\ \A i \in DOMAIN dir' : \E j \in DOMAIN dir : dir'[i] = dir[j]
<1> DEFINE n == Len(dir)
           k == Min(Matches)
<1>1. n \in Nat /\ k \in 1..n
  BY FirstMatches DEF Delete
<1>2. DOMAIN dir = 1..n /\ \A i \in 1..n : dir[i] \in Entry
  BY DEF BootTypes
<1>3. dir' = [i \in 1..n - 1 |-> dir[IF i < k THEN i ELSE i + 1]]
  BY DEF Delete
<1> HIDE DEF n, k
<1>4. \A i \in 1..n - 1 : (IF i < k THEN i ELSE i + 1) \in 1..n
  BY <1>1
<1>5. DOMAIN dir' = 1..n - 1 /\ n - 1 \in Nat
  BY <1>1, <1>3
<1>6. \A i \in 1..n - 1 : dir'[i] = dir[IF i < k THEN i ELSE i + 1]
  BY <1>3
<1>7. \A i \in DOMAIN dir' : \E j \in DOMAIN dir : dir'[i] = dir[j]
  BY <1>2, <1>4, <1>5, <1>6
<1>8. dir' \in [1..n - 1 -> Entry]
  BY <1>2, <1>3, <1>4
<1>9. dir' \in Seq(Entry)
  BY <1>5, <1>8
<1> QED
  BY <1>7, <1>9

LEMMA InitBoot == BootInit => BootInv
<1> SUFFICES ASSUME BootInit PROVE BootInv
  OBVIOUS
<1>1. dir \in Seq(Entry)
  <2>1. PICK n \in 0..MaxEntries : dir \in [1..n -> Entry]
    BY DEF BootInit
  <2>2. n \in Nat
    BY <2>1, EntryAssumption
  <2> QED
    BY <2>1, <2>2
<1> QED
  BY <1>1 DEF BootInit, BootInv, BootTypes, Stages, Cleaned

\* A step of find_and_delete.
LEMMA ScanBoot ==
    ASSUME BootInv, FindAndDelete(Scan \/ FindFails)
    PROVE  BootInv'
<1>1. BootTypes /\ Cleaned /\ stage \in {"gcode", "partial"}
  BY DEF BootInv, FindAndDelete
<1>2. Scan \/ FindFails
  BY DEF FindAndDelete
<1>3. CASE GiveUp
  BY <1>1, <1>3 DEF GiveUp, Return, BootInv, BootTypes, Stages, Cleaned
<1>4. CASE NoneLeft
  <2>1. \A i \in DOMAIN dir : dir[i].ext # stage
    BY <1>4 DEF NoneLeft, Matches
  <2> QED
    BY <1>1, <1>4, <2>1 DEF NoneLeft, Return, BootInv, BootTypes, Stages, Cleaned
<1>5. CASE Skip
  BY <1>1, <1>5 DEF Skip, bootVars, BootInv, BootTypes, Cleaned
<1>6. CASE Overflow
  BY <1>1, <1>6 DEF Overflow, BootInv, BootTypes, Stages, Cleaned
<1>7. CASE Delete
  <2>1. dir' \in Seq(Entry) /\ \A i \in DOMAIN dir' : \E j \in DOMAIN dir : dir'[i] = dir[j]
    BY <1>1, <1>7, DeleteKeeps
  <2>2. UNCHANGED <<stage, ioError>>
    BY <1>7 DEF Delete
  <2>3. BootTypes'
    BY <1>1, <2>1, <2>2 DEF BootTypes
  <2>4. Cleaned'
    BY <1>1, <2>1, <2>2, Zenon DEF Cleaned
  <2> QED
    BY <2>3, <2>4 DEF BootInv
<1> QED
  BY <1>2, <1>3, <1>4, <1>5, <1>6, <1>7 DEF Scan, FindFails, DeleteFails

LEMMA NextBoot == BootInv /\ [BootNext]_allVars => BootInv'
<1> SUFFICES ASSUME BootInv, [BootNext]_allVars PROVE BootInv'
  OBVIOUS
<1>1. CASE UNCHANGED allVars
  BY <1>1 DEF allVars, bootVars, BootInv, BootTypes, Cleaned
<1>2. CASE FindAndDelete(Scan \/ FindFails)
  BY <1>2, ScanBoot
<1>3. CASE Executing(Run \/ Posting) \/ Meanwhile(Passing)
  BY <1>3 DEF Executing, Meanwhile, bootVars, BootInv, BootTypes, Cleaned
<1> QED
  BY <1>1, <1>2, <1>3 DEF BootNext

LEMMA BootInvariance == BootSpec => []BootInv
  BY InitBoot, NextBoot, PTL DEF BootSpec

\* Every variable of the firmware keeps its type; of the drive, no scan leaves
\* a gap in the directory (fs.rs 257-325, lib.rs 104-137).
THEOREM BootTypeCorrect == BootSpec => []BootTypeOK
<1>1. BootInv /\ TypeOK => BootTypeOK
  BY DEF BootInv, BootTypes, Stages, BootTypeOK
<1> QED
  BY <1>1, BootInvariance, ExecutorImplemented, TypeCorrect, PTL

\* When the executor starts no job file of an earlier life is left on the
\* drive unless the drive failed, whatever was on it
\* (fs.rs 257-325, lib.rs 120).
THEOREM OldJobsRemoved == BootSpec => []NoOldJobs
<1>1. BootInv => NoOldJobs
  <2> SUFFICES ASSUME BootInv, stage = "run", ~ ioError, NEW i \in DOMAIN dir
               PROVE  dir[i].ext = "other"
    BY DEF NoOldJobs
  <2>1. dir[i].ext # "gcode" /\ dir[i].ext # "partial"
    BY DEF BootInv, Cleaned
  <2>2. dir[i] \in Entry
    BY DEF BootInv, BootTypes
  <2>3. dir[i].ext \in {"gcode", "partial", "other"}
    BY <2>2, EntryAssumption
  <2> QED
    BY <2>1, <2>3
<1> QED
  BY <1>1, BootInvariance, PTL

=============================================================================
