----------------------------- MODULE TokenRing -----------------------------
(***************************************************************************)
(* What the ring promises: at most one ledger counts at a time, the token. *)
(* It goes from machine to machine, only a job of the token is printed,    *)
(* and a job leaves it only by being printed.  It is lost only if machines *)
(* have lost power; then a machine makes a new one of the jobs it knows.   *)
(***************************************************************************)
CONSTANTS
    Machine,    \* the machines
    Job         \* the job guids

VARIABLES
    tokens,     \* the ledgers that count, each with its holder and jobs
    printed,    \* the jobs that were started
    cut         \* some machine has lost power

vars == <<tokens, printed, cut>>

Init ==
    /\ tokens = {}
    /\ printed = {}
    /\ cut = FALSE

\* A machine finds that there is no ledger, or that it is stuck.
Create ==
    /\ tokens = {}
    /\ \E m \in Machine, J \in SUBSET Job : tokens' = {[holder |-> m, jobs |-> J]}
    /\ UNCHANGED <<printed, cut>>

Pass ==
    /\ \E t \in tokens, m \in Machine : tokens' = {[t EXCEPT !.holder = m]}
    /\ UNCHANGED <<printed, cut>>

Add ==
    /\ \E t \in tokens, J \in SUBSET Job : tokens' = {[t EXCEPT !.jobs = @ \cup J]}
    /\ UNCHANGED <<printed, cut>>

StartJob ==
    /\ \E t \in tokens : \E j \in t.jobs :
          /\ tokens' = {[t EXCEPT !.jobs = @ \ {j}]}
          /\ printed' = printed \cup {j}
    /\ UNCHANGED cut

\* A machine loses power, and the token if it had it; or the token is
\* handed to a machine that has lost power.
Lose ==
    /\ cut' = TRUE
    /\ tokens' \in {tokens, {}}
    /\ UNCHANGED printed

Next == Create \/ Pass \/ Add \/ StartJob \/ Lose

Spec == Init /\ [][Next]_vars

=============================================================================
