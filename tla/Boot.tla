-------------------------------- MODULE Boot --------------------------------
(***************************************************************************)
(* The FreeRTOS task of the firmware, embassy (lib.rs): after a delay of   *)
(* 5 s it removes the job files of an earlier life from the USB drive      *)
(* (clean_usb, fs.rs), sets the printer offline and then runs the executor *)
(* for good.  Time passes, and the network may come up, meanwhile.         *)
(*                                                                         *)
(* A directory is the sequence of its entries in the order of a scan.  Of  *)
(* a name only the extension and the length of its path, /usb/<name>,      *)
(* matter.                                                                 *)
(***************************************************************************)
EXTENDS Executor, Sequences

CONSTANTS
    PathCap,    \* 64, the bytes of a path
    Entry,      \* bound: the directory entries there may be
    MaxEntries  \* bound: how many

\* stuck: it cannot be deleted, as a directory that is not empty.
ASSUME EntryAssumption ==
    /\ Entry \subseteq [ext : {"gcode", "partial", "other"}, path : Nat, stuck : BOOLEAN]
    /\ PathCap \in Nat /\ MaxEntries \in Nat

VARIABLES
    stage,      \* "gcode" or "partial" (the pattern scanned for), "run" (the
                \* executor) or "panic"
    dir,        \* the directory
    ioError     \* find_and_delete gave up (history)

bootVars == <<stage, dir, ioError>>

BootInit ==
    /\ Init
    /\ stage = "gcode"
    /\ \E n \in 0..MaxEntries : dir \in [1..n -> Entry]
    /\ ioError = FALSE

\* Mutant: only one pattern is looked for.
GcodeOnly == stage' = "run"

\* find_and_delete returns: the next pattern, or set_offline and the
\* executor.
Return == stage' = IF stage = "gcode" THEN "partial" ELSE "run"

GiveUp == Return /\ ioError' = TRUE /\ UNCHANGED dir

Matches == {i \in DOMAIN dir : dir[i].ext = stage}

\* f_findfirst fails: return.
FindFails == GiveUp

\* No match.
NoneLeft ==
    /\ Matches = {}
    /\ Return
    /\ UNCHANGED <<dir, ioError>>

\* The first match, and what becomes of it.
First == dir[Min(Matches)]

\* write! finds no room for the path: "skipping", and the scan begins again.
Skip ==
    /\ Matches # {}
    /\ First.path > PathCap
    /\ UNCHANGED bootVars

\* The path has room in a String<64> but not, with its NUL, in a CString<64>:
\* unwrap panics, and the firmware aborts.
Overflow ==
    /\ Matches # {}
    /\ First.path = PathCap
    /\ stage' = "panic"
    /\ UNCHANGED <<dir, ioError>>

Delete ==
    /\ Matches # {}
    /\ First.path < PathCap
    /\ ~ First.stuck
    /\ dir' = [i \in 1..Len(dir) - 1 |-> dir[IF i < Min(Matches) THEN i ELSE i + 1]]
    /\ UNCHANGED <<stage, ioError>>

\* Mutant: the scan begins again.
RetryDelete ==
    /\ Matches # {}
    /\ First.path < PathCap
    /\ First.stuck
    /\ UNCHANGED bootVars

\* delete fails: return, "avoid an infinite loop if delete keeps failing".
DeleteFails ==
    /\ Matches # {}
    /\ First.path < PathCap
    /\ GiveUp

Scan == NoneLeft \/ Skip \/ Overflow \/ Delete \/ DeleteFails

FindAndDelete(A) ==
    /\ stage \in {"gcode", "partial"}
    /\ A
    /\ UNCHANGED vars

\* An action of the executor, once it runs.
Executing(A) ==
    /\ stage = "run"
    /\ A
    /\ UNCHANGED bootVars

\* What goes on while the drive is cleaned, too.
Meanwhile(A) ==
    /\ stage # "panic"
    /\ A
    /\ UNCHANGED bootVars

BootNext ==
    FindAndDelete(Scan \/ FindFails) \/ Executing(Run \/ Posting) \/ Meanwhile(Passing)

allVars == <<vars, bootVars>>

(***************************************************************************)
(* The FreeRTOS task runs on, ticks are counted and lwIP answers.  Nothing *)
(* says that a scan ever fails, or that there is a network.                *)
(***************************************************************************)
BootFairness ==
    /\ WF_allVars(FindAndDelete(Scan) \/ Executing(Run))
    /\ WF_allVars(Meanwhile(Tick))
    /\ WF_allVars(Executing(Answer))

BootSpec == BootInit /\ [][BootNext]_allVars /\ BootFairness

-----------------------------------------------------------------------------

BootTypeOK ==
    /\ TypeOK
    /\ stage \in {"gcode", "partial", "run", "panic"}
    /\ dir \in Seq(Entry)
    /\ ioError \in BOOLEAN

\* When the executor starts no job file of an earlier life is left, so that
\* a machine has no file of a job it was not sent since, unless the drive
\* failed (fs.rs 257-325, lib.rs 120).
NoOldJobs ==
    stage = "run" /\ ~ ioError => \A i \in DOMAIN dir : dir[i].ext = "other"

\* The paths of all job files fit.
PathsFit == \A i \in DOMAIN dir : dir[i].ext # "other" => dir[i].path < PathCap

\* The network comes up while time goes on, for two periods at least.
NetifInTime == [](time > MaxTime - 2 * Period => netif)

\* clean_usb returns and, unless a socket cannot be opened, the tasks are
\* spawned once there is a network, whatever cannot be deleted, if the paths
\* of all job files fit (fs.rs 257-325, lib.rs 104-137, 175-230).
BootCompletes == PathsFit /\ NetifInTime => <>(main \in {"done", "failed"})

=============================================================================
