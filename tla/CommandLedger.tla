----------------------------- MODULE CommandLedger -----------------------------
(***************************************************************************)
(* What clients may expect of the repository, disk and crashes left out: a *)
(* list of commands that only grows, takes each command at most once, and  *)
(* acknowledges a command only after it was taken.  Taking and             *)
(* acknowledging are separate because an answer may be lost: the command   *)
(* is then acknowledged when it is sent again.                             *)
(***************************************************************************)
EXTENDS Sequences

CONSTANT Command

VARIABLES
    ledger,     \* the commands taken, in order
    acked       \* the commands acknowledged

Taken == {ledger[i] : i \in DOMAIN ledger}

Init == ledger = <<>> /\ acked = {}

Take(command) ==
    /\ command \notin Taken
    /\ ledger' = Append(ledger, command)
    /\ UNCHANGED acked

Acknowledge(command) ==
    /\ command \in Taken
    /\ acked' = acked \cup {command}
    /\ UNCHANGED ledger

Next == \E command \in Command : Take(command) \/ Acknowledge(command)

Spec == Init /\ [][Next]_<<ledger, acked>>

=============================================================================
