---------------------------- MODULE SharedLedger ----------------------------
(***************************************************************************)
(* What the memory that runs share promises about one key: each change     *)
(* happens at once, on what every earlier change left.                     *)
(***************************************************************************)
EXTENDS Integers

CONSTANTS Runs, Reservations, Budget, Seconds, MaxTime, Nobody

VARIABLES ledger, now

Init ==
    /\ ledger = [count |-> 0, reserved |-> {}, owner |-> Nobody, until |-> 0]
    /\ now = 0

Tick == now < MaxTime /\ now' = now + 1 /\ UNCHANGED ledger

Bump == ledger' = [ledger EXCEPT !.count = @ + 1] /\ UNCHANGED now

\* An attempt at a task is counted once, and only while the budget lasts.
Reserve(r) ==
    /\ r \notin ledger.reserved /\ ledger.count < Budget
    /\ ledger' = [ledger EXCEPT !.count = @ + 1, !.reserved = @ \cup {r}]
    /\ UNCHANGED now

\* A key is taken, or kept for longer, only by its holder or past its lease.
Claim(p, until) ==
    /\ ledger.owner \in {Nobody, p} \/ ledger.until <= now
    /\ ledger' = [ledger EXCEPT !.owner = p, !.until = until]
    /\ UNCHANGED now

Release(p) ==
    /\ ledger.owner = p
    /\ ledger' = [ledger EXCEPT !.owner = Nobody, !.until = 0]
    /\ UNCHANGED now

Next ==
    \/ Tick \/ Bump
    \/ \E r \in Reservations : Reserve(r)
    \/ \E p \in Runs : Release(p) \/ \E until \in 1..now + Seconds : Claim(p, until)

Spec == Init /\ [][Next]_<<ledger, now>>
=============================================================================
