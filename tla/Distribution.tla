---------------------------- MODULE Distribution ----------------------------
(***************************************************************************)
(* What distribute_file promises for one file: the machines it knows are   *)
(* tried one after the other, each once, and a machine counts as served    *)
(* only if it answered while it was its turn.                              *)
(***************************************************************************)
CONSTANT Peer   \* the machines of the address book

VARIABLES
    outcome,    \* "todo", "trying", "ok" or "failed", for each machine
    answered    \* the machines that answered

vars == <<outcome, answered>>

Init ==
    /\ outcome = [p \in Peer |-> "todo"]
    /\ answered = {}

Try(p) ==
    /\ outcome[p] = "todo"
    /\ \A q \in Peer : outcome[q] # "trying"
    /\ outcome' = [outcome EXCEPT ![p] = "trying"]
    /\ UNCHANGED answered

Answer(p) ==
    /\ outcome[p] = "trying"
    /\ answered' = answered \cup {p}
    /\ UNCHANGED outcome

Finish(p) ==
    /\ outcome[p] = "trying"
    /\ \/ p \in answered /\ outcome' = [outcome EXCEPT ![p] = "ok"]
       \/ outcome' = [outcome EXCEPT ![p] = "failed"]
    /\ UNCHANGED answered

Next == \E p \in Peer : Try(p) \/ Answer(p) \/ Finish(p)

Spec == Init /\ [][Next]_vars

=============================================================================
