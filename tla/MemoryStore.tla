---------------------------- MODULE MemoryStore -----------------------------
(***************************************************************************)
(* The memory that runs share (cycle/memory.py): a JSON file that every    *)
(* run of the machine reads, changes and replaces under a lock file. The   *)
(* lock is a file created with O_EXCL; one left by a process that died is  *)
(* told by its age, and unlinked by whoever finds it so.                   *)
(*                                                                         *)
(* One key stands for the file: its counter, the reservations made of it,  *)
(* and its claim, with the time it is good until. What the fields say, and *)
(* a person's forgetting of a key, are left out. The temporary file shares *)
(* its name between processes too; a save is one replacement here.         *)
(***************************************************************************)
EXTENDS Integers, FiniteSets

CONSTANTS
    Runs,          \* the processes; each claims in its own name
    Reservations,  \* attempts at the task, each with its token
    Budget,        \* what the task's gate lets the counter reach
    Seconds,       \* how long a claim is good for
    Mortal,        \* runs whose process may die
    Faulty,        \* runs that may fail to read the file, or to write it
    MaxTime,       \* bound: ticks of the clock
    MaxOps,        \* bound: run -> changes it tries to make
    Nobody         \* no lock, no owner

ASSUME MemoryAssumption ==
    /\ Mortal \subseteq Runs /\ Faulty \subseteq Runs /\ Nobody \notin Runs \cup Reservations
    /\ Budget \in Nat /\ Seconds \in Nat \ {0} /\ MaxTime \in Nat
    /\ MaxOps \in [Runs -> Nat] /\ IsFiniteSet(Runs) /\ IsFiniteSet(Reservations)

Op(what, of) == [what |-> what, of |-> of]
Operations == {Op(w, Nobody) : w \in {"bump", "claim", "release"}}
              \cup {Op("reserve", r) : r \in Reservations}

Records == [count : Nat, reserved : SUBSET Reservations,
            owner : Runs \cup {Nobody}, until : 0..MaxTime + Seconds]

VARIABLES
    file,     \* the record of the key
    lock,     \* the lock file: who made it, and whether it is old
    now,
    pc,       \* run -> where in its change it is
    op,       \* run -> the change
    mem,      \* run -> what it read, changed in memory
    begun,    \* run -> changes it began
    held,     \* run -> until when it was told that the claim is its own
    granted,  \* reservations that some run was told it has
    bumps     \* how many were tried, and how many reported as made

vars == <<file, lock, now, pc, op, mem, begun, held, granted, bumps>>
caller == <<held, granted, bumps>>

NewRecord == [count |-> 0, reserved |-> {}, owner |-> Nobody, until |-> 0]
NoLock == [by |-> Nobody, old |-> FALSE]

Inside(p) == pc[p] \in {"load", "save", "drop", "fail"}

Init ==
    /\ file = NewRecord /\ lock = NoLock /\ now = 0
    /\ pc = [p \in Runs |-> "idle"] /\ op = [p \in Runs |-> Op("bump", Nobody)]
    /\ mem = [p \in Runs |-> NewRecord] /\ begun = [p \in Runs |-> 0]
    /\ held = [p \in Runs |-> 0] /\ granted = {}
    /\ bumps = [tried |-> 0, made |-> 0]

-----------------------------------------------------------------------------
(* The changes.                                                            *)

\* Mutant: for longer than was asked for.
UntilTwice == now + 2 * Seconds

Until == now + Seconds

\* Mutant: the lease of the holder is not looked at.
MayClaimOver(p, record) == record.until < MaxTime + Seconds

\* claim: somebody else's lease has to be over.
MayClaim(p, record) == record.owner \in {Nobody, p} \/ record.until <= now

\* Mutant: a reservation is not looked up first.
ReservedAgain(record, r) ==
    IF record.count >= Budget THEN record
    ELSE [record EXCEPT !.count = @ + 1, !.reserved = @ \cup {r}]

\* remember_once with the verifier of an admission: a replay changes nothing.
Reserved(record, r) ==
    IF r \in record.reserved \/ record.count >= Budget THEN record
    ELSE [record EXCEPT !.count = @ + 1, !.reserved = @ \cup {r}]

Changed(p, record) ==
    CASE op[p].what = "bump" -> [record EXCEPT !.count = @ + 1]
      [] op[p].what = "reserve" -> Reserved(record, op[p].of)
      [] op[p].what = "claim" ->
            IF MayClaim(p, record) THEN [record EXCEPT !.owner = p, !.until = Until]
            ELSE record
      [] op[p].what = "release" ->
            IF record.owner = p THEN [record EXCEPT !.owner = Nobody, !.until = 0]
            ELSE record

-----------------------------------------------------------------------------
(* One change of one run.                                                  *)

\* A run that gives its claim back stops counting on it before it says so.
Begin(p) ==
    /\ pc[p] = "idle" /\ begun[p] < MaxOps[p]
    /\ \E o \in Operations :
          /\ op' = [op EXCEPT ![p] = o]
          /\ held' = IF o.what = "release" THEN [held EXCEPT ![p] = 0] ELSE held
          /\ bumps' = IF o.what = "bump" THEN [bumps EXCEPT !.tried = @ + 1] ELSE bumps
    /\ pc' = [pc EXCEPT ![p] = "take"]
    /\ begun' = [begun EXCEPT ![p] = @ + 1]
    /\ UNCHANGED <<file, lock, now, mem, granted>>

\* Mutant: the lock is not asked for.
MayTakeAnyway == TRUE

\* O_CREAT | O_EXCL
MayTake == lock.by = Nobody

TakeLock(p) ==
    /\ pc[p] = "take" /\ MayTake
    /\ lock' = [by |-> p, old |-> FALSE]
    /\ pc' = [pc EXCEPT ![p] = "load"]
    /\ UNCHANGED <<file, now, op, mem, begun, caller>>

\* _is_stale, before the lock that was looked at is unlinked.
FindStale(p) ==
    /\ pc[p] = "take" /\ lock.by # Nobody /\ lock.old
    /\ pc' = [pc EXCEPT ![p] = "break"]
    /\ UNCHANGED <<file, lock, now, op, mem, begun, caller>>

\* _drop_lock of whatever lock is there by now.
BreakLock(p) ==
    /\ pc[p] = "break"
    /\ lock' = NoLock
    /\ pc' = [pc EXCEPT ![p] = "take"]
    /\ UNCHANGED <<file, now, op, mem, begun, caller>>

\* LOCK_TIMEOUT: the change is not made, and its caller is told so.
GiveUp(p) ==
    /\ pc[p] = "take" /\ lock.by # Nobody /\ ~lock.old
    /\ pc' = [pc EXCEPT ![p] = "idle"]
    /\ UNCHANGED <<file, lock, now, op, mem, begun, caller>>

\* _change.__enter__, and the body of the change.
Load(p) ==
    /\ pc[p] = "load"
    /\ mem' = [mem EXCEPT ![p] = Changed(p, file)]
    /\ pc' = [pc EXCEPT ![p] = "save"]
    /\ UNCHANGED <<file, lock, now, op, begun, caller>>

\* A file that cannot be read: the lock stays behind.
LoadFails(p) ==
    /\ pc[p] = "load" /\ p \in Faulty
    /\ pc' = [pc EXCEPT ![p] = "idle"]
    /\ UNCHANGED <<file, lock, now, op, mem, begun, caller>>

Save(p) ==
    /\ pc[p] = "save"
    /\ file' = mem[p]
    /\ pc' = [pc EXCEPT ![p] = "drop"]
    /\ UNCHANGED <<lock, now, op, mem, begun, caller>>

\* The directory may fail to be flushed after the file was replaced.
SaveFails(p) ==
    /\ pc[p] = "save" /\ p \in Faulty
    /\ file' \in {file, mem[p]}
    /\ pc' = [pc EXCEPT ![p] = "fail"]
    /\ UNCHANGED <<lock, now, op, mem, begun, caller>>

\* What a change that was saved is reported to be.
ToldClaimed(p) == op[p].what = "claim" /\ mem[p].owner = p

\* _change.__exit__: the lock is unlinked whoever made it; the caller goes on.
Drop(p) ==
    /\ pc[p] \in {"drop", "fail"}
    /\ lock' = NoLock
    /\ pc' = [pc EXCEPT ![p] = "idle"]
    /\ IF pc[p] = "fail" THEN UNCHANGED caller
       ELSE /\ held' = IF op[p].what = "claim"
                       THEN [held EXCEPT ![p] = IF ToldClaimed(p) THEN mem[p].until ELSE 0]
                       ELSE held
            /\ granted' = granted \cup (mem[p].reserved \cap {op[p].of})
            /\ bumps' = IF op[p].what = "bump" THEN [bumps EXCEPT !.made = @ + 1] ELSE bumps
    /\ UNCHANGED <<file, now, op, mem, begun>>

-----------------------------------------------------------------------------
(* Processes and time.                                                     *)

Die(p) ==
    /\ p \in Mortal /\ pc[p] # "dead"
    /\ pc' = [pc EXCEPT ![p] = "dead"]
    /\ held' = [held EXCEPT ![p] = 0]
    /\ UNCHANGED <<file, lock, now, op, mem, begun, granted, bumps>>

\* LOCK_STALE is far longer than a change takes.
MayAge == lock.by # Nobody /\ ~Inside(lock.by)

Age ==
    /\ MayAge /\ ~lock.old
    /\ lock' = [lock EXCEPT !.old = TRUE]
    /\ UNCHANGED <<file, now, pc, op, mem, begun, caller>>

Tick ==
    /\ now < MaxTime
    /\ now' = now + 1
    /\ UNCHANGED <<file, lock, pc, op, mem, begun, caller>>

Change(p) ==
    \/ TakeLock(p) \/ FindStale(p) \/ BreakLock(p) \/ GiveUp(p)
    \/ Load(p) \/ LoadFails(p) \/ Save(p) \/ SaveFails(p) \/ Drop(p)

Next == Age \/ Tick \/ \E p \in Runs : Begin(p) \/ Die(p) \/ Change(p)

Spec == Init /\ [][Next]_vars

-----------------------------------------------------------------------------
TypeOK ==
    /\ file \in Records /\ mem \in [Runs -> Records]
    /\ lock \in [by : Runs \cup {Nobody}, old : BOOLEAN] /\ now \in 0..MaxTime
    /\ pc \in [Runs -> {"idle", "take", "break", "load", "save", "drop", "fail", "dead"}]
    /\ op \in [Runs -> Operations] /\ begun \in [Runs -> Nat]
    /\ held \in [Runs -> 0..MaxTime + Seconds]
    /\ granted \subseteq Reservations /\ bumps \in [tried : Nat, made : Nat]

\* Two runs that were told the task is theirs, for a time that is not over,
\* would both work on it: claim answers yes to one of them at a time.
ExclusiveClaim ==
    \A p, q \in Runs : held[p] > now /\ held[q] > now => p = q

\* Every attempt a run was told it may make is on the disk, counted once
\* however often it is asked for again, and so is every bump reported as made:
\* read-modify-write from two runs loses neither, whatever process dies with
\* the lock or before it reports.
NothingLost ==
    /\ granted \subseteq file.reserved
    /\ file.count - Cardinality(file.reserved) \in bumps.made..bumps.tried

\* The file moves as the ledger does, one whole change at a time.
Ledger == INSTANCE SharedLedger WITH ledger <- file
ImplementsLedger == Ledger!Spec
=============================================================================
