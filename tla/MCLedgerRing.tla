---------------------------- MODULE MCLedgerRing ----------------------------
(* Small instances of LedgerRing; the cfg files choose among them.         *)
EXTENDS LedgerRing

OneMachine == {7}
TwoMachines == {7, 21}
ThreeMachines == {7, 9, 21}

=============================================================================
