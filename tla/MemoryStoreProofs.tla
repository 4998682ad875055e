-------------------------- MODULE MemoryStoreProofs -------------------------
(***************************************************************************)
(* What is proved of MemoryStore for every number of runs, reservations,   *)
(* changes and ticks, and for any run that may die or fail.                *)
(*                                                                         *)
(* The types hold always. The rest needs that nobody unlinks a lock that   *)
(* somebody is using: between FindStale and BreakLock the stale lock may   *)
(* have become another one, and the code does not look again. Where more   *)
(* than one run is left to take a lock over, the code fails at this (the   *)
(* run memory_takeover). So the theorems are about what it does keep:      *)
(* OneHeir says that a lock left behind has one run at most to take it     *)
(* over. That a takeover then unlinks only what is stale still is proved,  *)
(* not assumed.                                                            *)
(***************************************************************************)
EXTENDS MemoryStore, FiniteSetTheorems, TLAPS

\* What _drop_lock finds when it takes a stale lock over.
StaleStill == \A p \in Runs : BreakLock(p) => lock.by = Nobody \/ lock.old
TakesOverStale == [][StaleStill]_vars

-----------------------------------------------------------------------------
(* The inductive invariant.                                                *)

\* Only the owner of the lock is inside, and an old lock has nobody inside.
LockInv ==
    /\ \A p \in Runs : Inside(p) => lock.by = p
    /\ lock.by # Nobody /\ lock.old => ~Inside(lock.by)

\* What the run that holds the lock is about to save, next to the file it
\* read. It read the clock then, and the clock may have moved since.
Kept(p) == mem[p] = file
Bumped(p) == mem[p] = [file EXCEPT !.count = @ + 1]
Counted(p, r) ==
    /\ r \in Reservations /\ r \notin file.reserved /\ file.count < Budget
    /\ mem[p] = [file EXCEPT !.count = @ + 1, !.reserved = @ \cup {r}]
Claimed(p, until) ==
    /\ file.owner \in {Nobody, p} \/ file.until <= now
    /\ held[p] <= until
    /\ mem[p] = [file EXCEPT !.owner = p, !.until = until]
Freed(p) == file.owner = p /\ mem[p] = [file EXCEPT !.owner = Nobody, !.until = 0]

SaveInv(p) ==
    pc[p] = "save" =>
        \/ op[p].what = "bump" /\ Bumped(p)
        \/ op[p].what = "reserve" /\ (Kept(p) \/ Counted(p, op[p].of))
        \/ op[p].what = "claim" /\ (Kept(p) \/ \E until \in 1..now + Seconds : Claimed(p, until))
        \/ op[p].what = "release" /\ (Kept(p) \/ Freed(p))

\* A claim that was told and is not over is in the file, for at least as long.
ClaimInv ==
    /\ file.until <= now + Seconds
    /\ \A p \in Runs :
          /\ held[p] <= now + Seconds
          /\ op[p].what = "release" => held[p] = 0
          /\ held[p] > now => file.owner = p /\ file.until >= held[p]
          /\ pc[p] = "drop" => mem[p] = file

\* The bumps in the file, those that may still get there, and the one that
\* did and was not reported yet.
Spent == file.count - Cardinality(file.reserved)
Pending == {p \in Runs : op[p].what = "bump" /\ pc[p] \in {"take", "break", "load", "save"}}
Unreported == \E p \in Runs : op[p].what = "bump" /\ pc[p] = "drop"

CountInv ==
    /\ Spent + Cardinality(Pending) <= bumps.tried
    /\ bumps.made <= Spent
    /\ Unreported => bumps.made + 1 <= Spent
    /\ granted \subseteq file.reserved

IInv ==
    /\ TypeOK
    /\ LockInv
    /\ \A p \in Runs : SaveInv(p)
    /\ ClaimInv
    /\ CountInv

-----------------------------------------------------------------------------
(* Types.                                                                  *)

LEMMA OperationFacts ==
    ASSUME NEW o \in Operations
    PROVE  /\ o.what \in {"bump", "claim", "release", "reserve"}
           /\ o.what = "reserve" => o.of \in Reservations
  BY DEF Operations, Op

LEMMA RecordParts ==
    ASSUME NEW r \in Records
    PROVE  /\ r.count \in Nat /\ r.reserved \in SUBSET Reservations
           /\ r.owner \in Runs \cup {Nobody} /\ r.until \in 0..MaxTime + Seconds
  BY DEF Records

\* The records that changes make.
LEMMA BumpTyped == ASSUME NEW r \in Records PROVE [r EXCEPT !.count = @ + 1] \in Records
  BY DEF Records

LEMMA ReserveTyped ==
    ASSUME NEW r \in Records, NEW a \in Reservations
    PROVE  [r EXCEPT !.count = @ + 1, !.reserved = @ \cup {a}] \in Records
  <1>1. r.reserved \cup {a} \in SUBSET Reservations /\ r.count + 1 \in Nat
    BY RecordParts
  <1> QED
    BY <1>1 DEF Records

LEMMA ChangedTyped ==
    ASSUME TypeOK, NEW p \in Runs, NEW record \in Records
    PROVE  Changed(p, record) \in Records
  <1>1. /\ op[p].what \in {"bump", "claim", "release", "reserve"}
        /\ op[p].what = "reserve" => op[p].of \in Reservations
    BY OperationFacts DEF TypeOK
  <1>2. CASE op[p].what = "bump"
    <2>1. Changed(p, record) = [record EXCEPT !.count = @ + 1]
      BY <1>2 DEF Changed
    <2> QED
      BY <2>1, BumpTyped
  <1>3. CASE op[p].what = "reserve"
    <2>1. Changed(p, record) \in {record, [record EXCEPT !.count = @ + 1,
                                                       !.reserved = @ \cup {op[p].of}]}
      BY <1>3 DEF Changed, Reserved
    <2> QED
      BY <1>1, <1>3, <2>1, ReserveTyped
  <1>4. CASE op[p].what = "claim"
    <2>1. Changed(p, record) \in {record, [record EXCEPT !.owner = p, !.until = Until]}
      BY <1>4 DEF Changed
    <2>2. Until \in 0..MaxTime + Seconds
      BY MemoryAssumption DEF TypeOK, Until
    <2>3. [record EXCEPT !.owner = p, !.until = Until] \in Records
      BY <2>2 DEF Records
    <2> QED
      BY <2>1, <2>3
  <1>5. CASE op[p].what = "release"
    <2>1. Changed(p, record) \in {record, [record EXCEPT !.owner = Nobody, !.until = 0]}
      BY <1>5 DEF Changed
    <2>2. 0 \in 0..MaxTime + Seconds
      BY MemoryAssumption
    <2>3. [record EXCEPT !.owner = Nobody, !.until = 0] \in Records
      BY <2>2 DEF Records
    <2> QED
      BY <2>1, <2>3
  <1> QED
    BY <1>1, <1>2, <1>3, <1>4, <1>5

LEMMA InitTyped == Init => TypeOK
  <1> SUFFICES ASSUME Init PROVE TypeOK
    OBVIOUS
  <1>1. NewRecord \in Records
    BY MemoryAssumption DEF NewRecord, Records
  <1>2. Op("bump", Nobody) \in Operations
    BY DEF Operations
  <1> QED
    BY <1>1, <1>2, MemoryAssumption DEF Init, TypeOK, NoLock

LEMMA StepTyped == TypeOK /\ [Next]_vars => TypeOK'
  <1> SUFFICES ASSUME TypeOK, [Next]_vars PROVE TypeOK'
    OBVIOUS
  <1> USE MemoryAssumption
  <1>1. CASE Age
    BY <1>1 DEF Age, MayAge, TypeOK, caller
  <1>2. CASE Tick
    BY <1>2 DEF Tick, TypeOK, caller
  <1>3. ASSUME NEW p \in Runs, Begin(p) PROVE TypeOK'
    BY <1>3 DEF Begin, TypeOK
  <1>4. ASSUME NEW p \in Runs, Die(p) PROVE TypeOK'
    BY <1>4 DEF Die, TypeOK
  <1>5. ASSUME NEW p \in Runs, TakeLock(p) PROVE TypeOK'
    BY <1>5 DEF TakeLock, TypeOK, caller
  <1>6. ASSUME NEW p \in Runs, FindStale(p) \/ GiveUp(p) \/ LoadFails(p) PROVE TypeOK'
    BY <1>6 DEF FindStale, GiveUp, LoadFails, TypeOK, caller
  <1>7. ASSUME NEW p \in Runs, BreakLock(p) PROVE TypeOK'
    BY <1>7 DEF BreakLock, NoLock, TypeOK, caller
  <1>8. ASSUME NEW p \in Runs, Load(p) PROVE TypeOK'
    <2>1. Changed(p, file) \in Records
      BY ChangedTyped DEF TypeOK
    <2> QED
      BY <1>8, <2>1 DEF Load, TypeOK, caller
  <1>9. ASSUME NEW p \in Runs, Save(p) \/ SaveFails(p) PROVE TypeOK'
    BY <1>9 DEF Save, SaveFails, TypeOK, caller
  <1>10. ASSUME NEW p \in Runs, Drop(p) PROVE TypeOK'
    <2>1. /\ mem[p].until \in 0..MaxTime + Seconds /\ mem[p].reserved \subseteq Reservations
          /\ 0 \in 0..MaxTime + Seconds
      BY DEF TypeOK, Records
    <2>2. held' \in [Runs -> 0..MaxTime + Seconds]
      BY <1>10, <2>1 DEF Drop, TypeOK, caller
    <2>3. granted' \subseteq Reservations /\ bumps' \in [tried : Nat, made : Nat]
      BY <1>10, <2>1 DEF Drop, TypeOK, caller
    <2> QED
      BY <1>10, <2>2, <2>3 DEF Drop, NoLock, TypeOK
  <1>11. CASE UNCHANGED vars
    BY <1>11 DEF vars, TypeOK
  <1> QED
    BY <1>1, <1>2, <1>3, <1>4, <1>5, <1>6, <1>7, <1>8, <1>9, <1>10, <1>11 DEF Next, Change

\* The file and the memory of every run are records, the lock names one of the
\* runs, a claim is never told for longer than the clock and the lease allow:
\* for any number of runs, whoever dies and whatever fails.
THEOREM TypeCorrect == Spec => []TypeOK
  <1> QED
    BY InitTyped, StepTyped, PTL DEF Spec

-----------------------------------------------------------------------------
(* The lock.                                                               *)

\* A step that leaves the lock alone, and lets nobody in.
LEMMA LockKept ==
    ASSUME LockInv, lock' = lock, \A p \in Runs : Inside(p)' => Inside(p), lock.by \in Runs \cup {Nobody}
    PROVE  LockInv'
  BY DEF LockInv

LEMMA LockStep ==
    ASSUME TypeOK, LockInv, Next, StaleStill PROVE LockInv'
  <1> USE MemoryAssumption
  <1>1. lock.by \in Runs \cup {Nobody}
    BY DEF TypeOK
  <1>2. CASE Age
    BY <1>2 DEF Age, MayAge, LockInv, Inside, TypeOK
  <1>3. CASE Tick
    BY <1>1, <1>3, LockKept DEF Tick, Inside
  <1>4. ASSUME NEW p \in Runs, Begin(p) PROVE LockInv'
    <2>1. \A q \in Runs : Inside(q)' => Inside(q)
      BY <1>4 DEF Begin, Inside, TypeOK
    <2> QED
      BY <1>1, <1>4, <2>1, LockKept DEF Begin
  <1>5. ASSUME NEW p \in Runs, Die(p) PROVE LockInv'
    <2>1. \A q \in Runs : Inside(q)' => Inside(q)
      BY <1>5 DEF Die, Inside, TypeOK
    <2> QED
      BY <1>1, <1>5, <2>1, LockKept DEF Die
  <1>6. ASSUME NEW p \in Runs, TakeLock(p) PROVE LockInv'
    <2>1. lock.by = Nobody /\ lock' = [by |-> p, old |-> FALSE]
      BY <1>6 DEF TakeLock, MayTake
    <2>2. \A q \in Runs : ~Inside(q)
      BY <2>1 DEF LockInv
    <2>3. \A q \in Runs : Inside(q)' => q = p
      BY <1>6, <2>2 DEF TakeLock, Inside, TypeOK
    <2> QED
      BY <2>1, <2>3 DEF LockInv
  <1>7. ASSUME NEW p \in Runs, FindStale(p) \/ GiveUp(p) \/ LoadFails(p) PROVE LockInv'
    <2>1. \A q \in Runs : Inside(q)' => Inside(q)
      BY <1>7 DEF FindStale, GiveUp, LoadFails, Inside, TypeOK
    <2>2. lock' = lock
      BY <1>7 DEF FindStale, GiveUp, LoadFails
    <2> QED
      BY <1>1, <2>1, <2>2, LockKept
  \* What is unlinked is stale or nothing: nobody is inside.
  <1>8. ASSUME NEW p \in Runs, BreakLock(p) PROVE LockInv'
    <2>1. lock.by = Nobody \/ lock.old
      BY <1>8 DEF StaleStill
    <2>2. \A q \in Runs : ~Inside(q)
      BY <1>1, <2>1 DEF LockInv
    <2>3. \A q \in Runs : ~Inside(q)'
      BY <1>8, <2>2 DEF BreakLock, Inside, TypeOK
    <2> QED
      BY <1>8, <2>3 DEF LockInv, BreakLock, NoLock
  <1>9. ASSUME NEW p \in Runs, Load(p) \/ Save(p) \/ SaveFails(p) PROVE LockInv'
    <2>1. \A q \in Runs : Inside(q)' => Inside(q)
      BY <1>9 DEF Load, Save, SaveFails, Inside, TypeOK
    <2>2. lock' = lock
      BY <1>9 DEF Load, Save, SaveFails
    <2> QED
      BY <1>1, <2>1, <2>2, LockKept
  <1>10. ASSUME NEW p \in Runs, Drop(p) PROVE LockInv'
    <2>1. Inside(p) /\ pc' = [pc EXCEPT ![p] = "idle"] /\ lock' = NoLock
      BY <1>10 DEF Drop, Inside
    <2>2. \A q \in Runs : q # p => ~Inside(q)
      BY <2>1 DEF LockInv
    <2>3. \A q \in Runs : ~Inside(q)'
      BY <2>1, <2>2 DEF Inside, TypeOK
    <2> QED
      BY <2>1, <2>3 DEF LockInv, NoLock
  <1> QED
    BY <1>2, <1>3, <1>4, <1>5, <1>6, <1>7, <1>8, <1>9, <1>10 DEF Next, Change

\* Only one run is between taking the lock and dropping it.
LEMMA Alone ==
    ASSUME LockInv, NEW p \in Runs, Inside(p), NEW q \in Runs, Inside(q)
    PROVE  p = q
  BY DEF LockInv

-----------------------------------------------------------------------------
(* What is saved.                                                          *)

\* What Load puts into memory is one change of the file it read.
LEMMA LoadSays ==
    ASSUME TypeOK, ClaimInv, NEW p \in Runs, Load(p)
    PROVE  SaveInv(p)'
  <1> USE MemoryAssumption
  <1>1. /\ pc[p] = "load" /\ mem'[p] = Changed(p, file) /\ file' = file /\ op' = op /\ now' = now
        /\ held' = held /\ p \in Runs
    BY DEF Load, TypeOK, caller
  <1>2. /\ op[p].what \in {"bump", "claim", "release", "reserve"}
        /\ op[p].what = "reserve" => op[p].of \in Reservations
    BY OperationFacts DEF TypeOK
  <1>3. CASE op[p].what = "bump"
    BY <1>1, <1>3 DEF Changed, SaveInv, Bumped
  <1>4. CASE op[p].what = "reserve"
    <2>1. CASE op[p].of \in file.reserved \/ file.count >= Budget
      BY <1>1, <1>4, <2>1 DEF Changed, Reserved, SaveInv, Kept
    <2>2. CASE ~(op[p].of \in file.reserved \/ file.count >= Budget)
      <3>1. file.count < Budget
        BY <2>2 DEF TypeOK, Records
      <3> QED
        BY <1>1, <1>2, <1>4, <2>2, <3>1 DEF Changed, Reserved, SaveInv, Counted
    <2> QED
      BY <2>1, <2>2
  <1>5. CASE op[p].what = "claim"
    <2>1. Until \in 1..now + Seconds /\ held[p] <= Until
      BY DEF Until, ClaimInv, TypeOK
    <2>2. CASE MayClaim(p, file)
      <3>1. mem'[p] = [file EXCEPT !.owner = p, !.until = Until]
        BY <1>1, <1>5, <2>2 DEF Changed
      <3>2. Claimed(p, Until)'
        BY <1>1, <2>1, <2>2, <3>1 DEF Claimed, MayClaim, Until
      <3> QED
        BY <1>1, <1>5, <2>1, <3>2 DEF SaveInv, Until
    <2>3. CASE ~MayClaim(p, file)
      BY <1>1, <1>5, <2>3 DEF Changed, SaveInv, Kept
    <2> QED
      BY <2>2, <2>3
  <1>6. CASE op[p].what = "release"
    <2>1. CASE file.owner = p
      BY <1>1, <1>6, <2>1 DEF Changed, SaveInv, Freed
    <2>2. CASE file.owner # p
      BY <1>1, <1>6, <2>2 DEF Changed, SaveInv, Kept
    <2> QED
      BY <2>1, <2>2
  <1> QED
    BY <1>2, <1>3, <1>4, <1>5, <1>6

LEMMA LaterLeases ==
    ASSUME NEW a \in Nat, NEW b \in Nat, a <= b, NEW c \in Nat
    PROVE  1..a + c \subseteq 1..b + c
  OBVIOUS

\* What does not touch the file or a run's memory keeps what is said of it.
LEMMA SaveKept ==
    ASSUME TypeOK, TypeOK', NEW q \in Runs, SaveInv(q), pc'[q] = "save" => pc[q] = "save",
           op'[q] = op[q], mem'[q] = mem[q], file' = file, now' >= now, held'[q] <= held[q]
    PROVE  SaveInv(q)'
  <1> SUFFICES ASSUME pc[q] = "save" PROVE SaveInv(q)'
    BY DEF SaveInv
  <1>1. now \in Nat /\ now' \in Nat /\ held[q] \in Nat /\ held'[q] \in Nat /\ Seconds \in Nat
        /\ file.until \in Nat
    BY MemoryAssumption DEF TypeOK, Records
  <1>2. 1..now + Seconds \subseteq 1..now' + Seconds
    BY <1>1, LaterLeases
  <1>3. \A until \in 1..now + Seconds : Claimed(q, until) => Claimed(q, until)'
    BY <1>1 DEF Claimed
  <1> QED
    BY <1>2, <1>3 DEF SaveInv, Kept, Bumped, Counted, Freed

LEMMA SaveStep ==
    ASSUME IInv, TypeOK', Next, NEW q \in Runs PROVE SaveInv(q)'
  <1> USE MemoryAssumption
  <1>1. TypeOK /\ LockInv /\ SaveInv(q) /\ ClaimInv /\ now \in Nat
    BY DEF IInv, TypeOK
  <1>2. now' >= now
    BY <1>1 DEF Next, Change, Age, Tick, Begin, Die, TakeLock, FindStale, BreakLock, GiveUp,
               Load, LoadFails, Save, SaveFails, Drop
  <1>3. CASE Age \/ Tick
    BY <1>1, <1>2, <1>3, SaveKept DEF Age, Tick, caller, TypeOK
  <1>4. ASSUME NEW p \in Runs, Begin(p) PROVE SaveInv(q)'
    <2>1. CASE p = q
      BY <1>1, <1>4, <2>1 DEF Begin, SaveInv, TypeOK
    <2>2. CASE p # q
      BY <1>1, <1>2, <1>4, <2>2, SaveKept DEF Begin, TypeOK
    <2> QED
      BY <2>1, <2>2
  <1>5. ASSUME NEW p \in Runs, Die(p) PROVE SaveInv(q)'
    BY <1>1, <1>2, <1>5, SaveKept DEF Die, TypeOK
  <1>6. ASSUME NEW p \in Runs,
               TakeLock(p) \/ FindStale(p) \/ BreakLock(p) \/ GiveUp(p) \/ LoadFails(p)
        PROVE  SaveInv(q)'
    BY <1>1, <1>2, <1>6, SaveKept
       DEF TakeLock, FindStale, BreakLock, GiveUp, LoadFails, TypeOK, caller
  <1>7. ASSUME NEW p \in Runs, Load(p) PROVE SaveInv(q)'
    <2>1. CASE p = q
      BY <1>1, <1>7, <2>1, LoadSays
    <2>2. CASE p # q
      BY <1>1, <1>2, <1>7, <2>2, SaveKept DEF Load, TypeOK, caller
    <2> QED
      BY <2>1, <2>2
  \* The one that saves is the only one inside.
  <1>8. ASSUME NEW p \in Runs, Save(p) \/ SaveFails(p) PROVE SaveInv(q)'
    <2>1. Inside(p) /\ pc'[p] # "save" /\ (q # p => pc'[q] = pc[q])
      BY <1>1, <1>8 DEF Save, SaveFails, Inside, TypeOK
    <2>2. pc'[q] # "save"
      BY <1>1, <2>1, Alone DEF Inside
    <2> QED
      BY <2>2 DEF SaveInv
  <1>9. ASSUME NEW p \in Runs, Drop(p) PROVE SaveInv(q)'
    <2>1. pc'[p] = "idle" /\ (q # p => pc'[q] = pc[q] /\ held'[q] = held[q])
      BY <1>1, <1>9 DEF Drop, TypeOK, caller
    <2>2. CASE p = q
      BY <2>1, <2>2 DEF SaveInv
    <2>3. CASE p # q
      BY <1>1, <1>2, <1>9, <2>1, <2>3, SaveKept DEF Drop, TypeOK
    <2> QED
      BY <2>2, <2>3
  <1> QED
    BY <1>3, <1>4, <1>5, <1>6, <1>7, <1>8, <1>9 DEF Next, Change

-----------------------------------------------------------------------------
(* Claims.                                                                 *)

\* What is saved over the file keeps every claim that is not over.
LEMMA SavedClaims ==
    ASSUME IInv, NEW p \in Runs, pc[p] = "save"
    PROVE  /\ mem[p].until <= now + Seconds
           /\ \A q \in Runs : held[q] > now => mem[p].owner = q /\ mem[p].until >= held[q]
  <1>1. TypeOK /\ ClaimInv /\ SaveInv(p) /\ file \in Records /\ now \in Nat /\ Seconds \in Nat
    BY MemoryAssumption DEF IInv, TypeOK
  <1>2. CASE Kept(p)
    BY <1>1, <1>2 DEF Kept, ClaimInv
  <1>3. CASE Bumped(p) \/ Counted(p, op[p].of)
    <2>1. mem[p].until = file.until /\ mem[p].owner = file.owner
      BY <1>1, <1>3 DEF Bumped, Counted, Records
    <2> QED
      BY <1>1, <2>1 DEF ClaimInv
  <1>4. ASSUME NEW until \in 1..now + Seconds, Claimed(p, until)
        PROVE  /\ mem[p].until <= now + Seconds
               /\ \A q \in Runs : held[q] > now => mem[p].owner = q /\ mem[p].until >= held[q]
    <2>1. mem[p].until = until /\ mem[p].owner = p
      BY <1>1, <1>4 DEF Claimed, Records
    <2>2. ASSUME NEW q \in Runs, held[q] > now PROVE q = p /\ until >= held[q]
      <3>1. file.owner = q /\ file.until >= held[q] /\ held[q] \in Nat /\ file.until \in Nat
        BY <1>1, <2>2, MemoryAssumption DEF ClaimInv, TypeOK, Records
      <3>2. q = p
        BY <1>1, <1>4, <2>2, <3>1, MemoryAssumption DEF Claimed
      <3> QED
        BY <1>4, <3>1, <3>2 DEF Claimed
    <2> QED
      BY <2>1, <2>2
  <1>5. CASE op[p].what = "release" /\ Freed(p)
    <2>1. mem[p].until = 0
      BY <1>1, <1>5 DEF Freed, Records
    <2>2. \A q \in Runs : ~(held[q] > now)
      BY <1>1, <1>5 DEF ClaimInv, Freed
    <2> QED
      BY <1>1, <2>1, <2>2
  <1> QED
    BY <1>1, <1>2, <1>3, <1>4, <1>5 DEF SaveInv

LEMMA ClaimKept ==
    ASSUME ClaimInv, file' = file, now' = now, mem' = mem, op' = op, held' = held,
           \A q \in Runs : pc'[q] = "drop" => pc[q] = "drop"
    PROVE  ClaimInv'
  BY DEF ClaimInv

LEMMA ClaimStep ==
    ASSUME IInv, TypeOK', Next PROVE ClaimInv'
  <1> USE MemoryAssumption
  <1>1. TypeOK /\ LockInv /\ ClaimInv /\ now \in Nat
    BY DEF IInv, TypeOK
  <1>2. CASE Age
    BY <1>1, <1>2 DEF Age, caller, ClaimInv
  <1>3. CASE Tick
    <2>1. \A q \in Runs : held[q] \in Nat
      BY <1>1 DEF TypeOK
    <2>2. file.until \in Nat
      BY <1>1 DEF TypeOK, Records
    <2> QED
      BY <1>1, <1>3, <2>1, <2>2 DEF Tick, caller, ClaimInv
  <1>4. ASSUME NEW p \in Runs, Begin(p) PROVE ClaimInv'
    BY <1>1, <1>4 DEF Begin, ClaimInv, TypeOK
  <1>5. ASSUME NEW p \in Runs, Die(p) PROVE ClaimInv'
    BY <1>1, <1>5 DEF Die, ClaimInv, TypeOK
  <1>6. ASSUME NEW p \in Runs,
               TakeLock(p) \/ FindStale(p) \/ BreakLock(p) \/ GiveUp(p) \/ LoadFails(p)
        PROVE  ClaimInv'
    <2>1. \A q \in Runs : pc'[q] = "drop" => pc[q] = "drop"
      BY <1>1, <1>6 DEF TakeLock, FindStale, BreakLock, GiveUp, LoadFails, TypeOK
    <2> QED
      BY <1>1, <1>6, <2>1, ClaimKept
         DEF TakeLock, FindStale, BreakLock, GiveUp, LoadFails, caller
  <1>7. ASSUME NEW p \in Runs, Load(p) PROVE ClaimInv'
    BY <1>1, <1>7 DEF Load, ClaimInv, TypeOK, caller
  <1>8. ASSUME NEW p \in Runs, Save(p) \/ SaveFails(p) PROVE ClaimInv'
    <2>1. /\ pc[p] = "save" /\ Inside(p) /\ file' \in {file, mem[p]} /\ mem' = mem /\ op' = op
          /\ held' = held /\ now' = now /\ \A q \in Runs : q # p => pc'[q] = pc[q]
          /\ pc'[p] = "drop" => file' = mem[p]
      BY <1>1, <1>8 DEF Save, SaveFails, Inside, TypeOK, caller
    <2>2. \A q \in Runs : q # p => pc[q] # "drop"
      BY <1>1, <2>1, Alone DEF Inside
    <2>3. /\ mem[p].until <= now + Seconds
          /\ \A q \in Runs : held[q] > now => mem[p].owner = q /\ mem[p].until >= held[q]
      BY <2>1, SavedClaims
    <2> QED
      BY <1>1, <2>1, <2>2, <2>3 DEF ClaimInv
  <1>9. ASSUME NEW p \in Runs, Drop(p) PROVE ClaimInv'
    <2>1. /\ pc[p] \in {"drop", "fail"} /\ pc' = [pc EXCEPT ![p] = "idle"]
          /\ file' = file /\ now' = now /\ op' = op /\ mem' = mem
      BY <1>9 DEF Drop
    <2>2. \A q \in Runs : q # p => held'[q] = held[q]
      BY <1>1, <1>9 DEF Drop, TypeOK, caller
    <2>3. CASE pc[p] = "drop" /\ op[p].what = "claim"
      <3>1. mem[p] = file
        BY <1>1, <2>3 DEF ClaimInv
      <3>2. held'[p] = IF file.owner = p THEN file.until ELSE 0
        BY <1>1, <1>9, <2>3, <3>1 DEF Drop, TypeOK, ToldClaimed
      <3>3. file.until \in Nat
        BY <1>1 DEF TypeOK, Records
      <3>4. \A q \in Runs : pc'[q] = "drop" => pc[q] = "drop"
        BY <1>1, <2>1 DEF TypeOK
      <3> QED
        BY <1>1, <2>1, <2>2, <2>3, <3>2, <3>3, <3>4 DEF ClaimInv
    <2>4. CASE ~(pc[p] = "drop" /\ op[p].what = "claim")
      BY <1>1, <1>9, <2>1, <2>4 DEF Drop, ClaimInv, TypeOK, caller
    <2> QED
      BY <2>3, <2>4
  <1> QED
    BY <1>2, <1>3, <1>4, <1>5, <1>6, <1>7, <1>8, <1>9 DEF Next, Change

-----------------------------------------------------------------------------
(* Counts.                                                                 *)

LEMMA FiniteRecords ==
    ASSUME NEW r \in Records
    PROVE  IsFiniteSet(r.reserved) /\ Cardinality(r.reserved) \in Nat
  <1>1. IsFiniteSet(r.reserved)
    BY RecordParts, FS_Subset, MemoryAssumption
  <1> QED
    BY <1>1, FS_CardinalityType

LEMMA FinitePending ==
    /\ IsFiniteSet(Pending) /\ Cardinality(Pending) \in Nat
    /\ \A s \in SUBSET Pending : IsFiniteSet(s) /\ Cardinality(s) \in Nat
                                 /\ Cardinality(s) <= Cardinality(Pending)
  <1>1. Pending \subseteq Runs
    BY DEF Pending
  <1>2. IsFiniteSet(Pending)
    BY <1>1, FS_Subset, MemoryAssumption
  <1> QED
    BY <1>2, FS_Subset, FS_CardinalityType

\* What counts once was bumped, or reserved under a token of its own.
LEMMA SavedCount ==
    ASSUME TypeOK, NEW p \in Runs, SaveInv(p), pc[p] = "save"
    PROVE  /\ file.reserved \subseteq mem[p].reserved
           /\ mem[p].count - Cardinality(mem[p].reserved) =
                 Spent + (IF op[p].what = "bump" THEN 1 ELSE 0)
  <1>1. file \in Records /\ file.count \in Nat
    BY RecordParts DEF TypeOK
  <1>2. IsFiniteSet(file.reserved) /\ Cardinality(file.reserved) \in Nat
    BY <1>1, FiniteRecords
  <1>3. CASE op[p].what = "bump"
    <2>1. mem[p].count = file.count + 1 /\ mem[p].reserved = file.reserved
      BY <1>1, <1>3 DEF SaveInv, Bumped, Records
    <2> QED
      BY <1>1, <1>2, <1>3, <2>1 DEF Spent
  <1>4. CASE op[p].what # "bump" /\ Counted(p, op[p].of)
    <2>1. /\ mem[p].count = file.count + 1
          /\ mem[p].reserved = file.reserved \cup {op[p].of}
          /\ op[p].of \notin file.reserved
      BY <1>1, <1>4 DEF Counted, Records
    <2>2. Cardinality(mem[p].reserved) = Cardinality(file.reserved) + 1
      BY <1>2, <2>1, FS_AddElement
    <2> QED
      BY <1>1, <1>2, <1>4, <2>1, <2>2 DEF Spent
  <1>5. CASE op[p].what # "bump" /\ ~Counted(p, op[p].of)
    <2>1. mem[p].count = file.count /\ mem[p].reserved = file.reserved
      BY <1>1, <1>5 DEF SaveInv, Kept, Claimed, Freed, Records
    <2> QED
      BY <1>1, <1>2, <1>5, <2>1 DEF Spent
  <1> QED
    BY <1>3, <1>4, <1>5

LEMMA CountKept ==
    ASSUME TypeOK, CountInv, file' = file, bumps' = bumps, granted' = granted,
           Pending' \subseteq Pending, Unreported' => Unreported
    PROVE  CountInv'
  <1>1. Cardinality(Pending') \in Nat /\ Cardinality(Pending') <= Cardinality(Pending)
        /\ Cardinality(Pending) \in Nat
    BY FinitePending
  <1>2. Spent' = Spent /\ Spent \in Int /\ bumps.tried \in Nat
    BY FiniteRecords, RecordParts DEF Spent, TypeOK
  <1>3. Spent' + Cardinality(Pending') <= bumps'.tried
    BY <1>1, <1>2 DEF CountInv
  <1>4. Cardinality(Pending)' = Cardinality(Pending')
    OBVIOUS
  <1> QED
    BY <1>2, <1>3, <1>4 DEF CountInv

LEMMA CountBegin ==
    ASSUME TypeOK, CountInv, NEW p \in Runs, Begin(p) PROVE CountInv'
  <1> USE MemoryAssumption
  <1>1. PICK o \in Operations :
            /\ op' = [op EXCEPT ![p] = o]
            /\ bumps' = IF o.what = "bump" THEN [bumps EXCEPT !.tried = @ + 1] ELSE bumps
    BY DEF Begin
  <1>2. /\ pc[p] = "idle" /\ pc' = [pc EXCEPT ![p] = "take"] /\ file' = file
        /\ granted' = granted
    BY DEF Begin
  <1>3. Unreported' => Unreported
    BY <1>1, <1>2 DEF Unreported, TypeOK
  <1>4. p \notin Pending /\ Spent' = Spent /\ Spent \in Int
    BY <1>2, FiniteRecords, RecordParts DEF Pending, Spent, TypeOK
  <1>5. CASE o.what = "bump"
    <2>1. Pending' = Pending \cup {p}
      BY <1>1, <1>2, <1>5 DEF Pending, TypeOK
    <2>2. Cardinality(Pending') = Cardinality(Pending) + 1 /\ Cardinality(Pending) \in Nat
      BY <1>4, <2>1, FinitePending, FS_AddElement
    <2>3. bumps'.tried = bumps.tried + 1 /\ bumps'.made = bumps.made /\ bumps.tried \in Nat
      BY <1>1, <1>5 DEF TypeOK
    <2>4. Spent' + Cardinality(Pending') <= bumps'.tried
      BY <1>4, <2>2, <2>3 DEF CountInv
    <2>5. Cardinality(Pending)' = Cardinality(Pending')
      OBVIOUS
    <2> QED
      BY <1>2, <1>3, <1>4, <2>3, <2>4, <2>5 DEF CountInv
  <1>6. CASE o.what # "bump"
    <2>1. Pending' \subseteq Pending
      BY <1>1, <1>2, <1>6 DEF Pending, TypeOK
    <2> QED
      BY <1>1, <1>2, <1>3, <1>6, <2>1, CountKept
  <1> QED
    BY <1>5, <1>6

\* A save, whole or in doubt: a bump is no longer pending, and may be counted.
LEMMA CountSave ==
    ASSUME TypeOK, TypeOK', LockInv, CountInv, NEW p \in Runs, SaveInv(p),
           Save(p) \/ SaveFails(p)
    PROVE  CountInv'
  <1>1. /\ pc[p] = "save" /\ Inside(p) /\ file' \in {file, mem[p]} /\ op' = op
        /\ pc'[p] \in {"drop", "fail"} /\ \A q \in Runs : q # p => pc'[q] = pc[q]
        /\ pc'[p] = "drop" => file' = mem[p]
        /\ bumps' = bumps /\ granted' = granted
    BY DEF Save, SaveFails, Inside, TypeOK, caller
  <1>2. Unreported' => op[p].what = "bump" /\ file' = mem[p]
    <2>1. \A q \in Runs : q # p => pc'[q] # "drop"
      BY <1>1, Alone DEF Inside
    <2> QED
      BY <1>1, <2>1 DEF Unreported
  <1>3. Pending' \subseteq Pending
    BY <1>1 DEF Pending
  <1>4. CASE file' = file /\ ~Unreported'
    BY <1>1, <1>3, <1>4, CountKept
  <1>5. CASE file' = mem[p]
    <2>1. Spent' = Spent + (IF op[p].what = "bump" THEN 1 ELSE 0)
          /\ file.reserved \subseteq file'.reserved
      BY <1>1, <1>5, SavedCount DEF Spent
    <2>2. Spent \in Int /\ bumps.tried \in Nat /\ bumps.made \in Nat
      BY FiniteRecords, RecordParts DEF Spent, TypeOK
    <2>3. Cardinality(Pending') \in Nat /\ Cardinality(Pending) \in Nat
          /\ Cardinality(Pending') <= Cardinality(Pending)
      BY <1>3, FinitePending
    <2>4. op[p].what = "bump" => Cardinality(Pending') = Cardinality(Pending) - 1
      <3> SUFFICES ASSUME op[p].what = "bump"
                   PROVE  Cardinality(Pending') = Cardinality(Pending) - 1
        OBVIOUS
      <3>1. Pending' = Pending \ {p} /\ p \in Pending
        BY <1>1 DEF Pending
      <3> QED
        BY <3>1, FinitePending, FS_RemoveElement
    <2>5. Spent' + Cardinality(Pending') <= bumps'.tried
      BY <1>1, <2>1, <2>2, <2>3, <2>4 DEF CountInv
    <2>6. Cardinality(Pending)' = Cardinality(Pending')
      OBVIOUS
    <2>7. bumps'.made <= Spent' /\ (Unreported' => bumps'.made + 1 <= Spent')
      BY <1>1, <1>2, <2>1, <2>2 DEF CountInv
    <2> QED
      BY <1>1, <2>1, <2>5, <2>6, <2>7 DEF CountInv
  <1>6. CASE Unreported' /\ file' = file
    BY <1>2, <1>5, <1>6
  <1> QED
    BY <1>1, <1>4, <1>5, <1>6

LEMMA CountDrop ==
    ASSUME TypeOK, LockInv, ClaimInv, CountInv, NEW p \in Runs, Drop(p) PROVE CountInv'
  <1>1. /\ pc[p] \in {"drop", "fail"} /\ Inside(p) /\ pc' = [pc EXCEPT ![p] = "idle"]
        /\ file' = file /\ op' = op
    BY DEF Drop, Inside
  <1>2. Pending' \subseteq Pending /\ (Unreported' => Unreported)
    BY <1>1 DEF Pending, Unreported, TypeOK
  <1>3. CASE pc[p] = "fail"
    BY <1>1, <1>2, <1>3, CountKept DEF Drop, caller
  <1>4. CASE pc[p] = "drop"
    <2>1. /\ granted' \subseteq granted \cup file.reserved
          /\ bumps' = IF op[p].what = "bump" THEN [bumps EXCEPT !.made = @ + 1] ELSE bumps
      BY <1>4 DEF Drop, ClaimInv
    <2>2. ~Unreported'
      BY <1>1, Alone DEF Unreported, Inside, TypeOK
    <2>3. op[p].what = "bump" => Unreported
      BY <1>4 DEF Unreported
    <2>4. /\ bumps'.tried = bumps.tried
          /\ bumps'.made = IF op[p].what = "bump" THEN bumps.made + 1 ELSE bumps.made
      BY <2>1 DEF TypeOK
    <2>5. Cardinality(Pending') \in Nat /\ Cardinality(Pending) \in Nat
          /\ Cardinality(Pending') <= Cardinality(Pending)
      BY <1>2, FinitePending
    <2>6. Spent' = Spent /\ Spent \in Int /\ bumps.tried \in Nat /\ bumps.made \in Nat
      BY <1>1, FiniteRecords, RecordParts DEF Spent, TypeOK
    <2>7. Spent' + Cardinality(Pending') <= bumps'.tried /\ bumps'.made <= Spent'
      BY <2>3, <2>4, <2>5, <2>6 DEF CountInv
    <2>8. Cardinality(Pending)' = Cardinality(Pending')
      OBVIOUS
    <2> QED
      BY <1>1, <2>1, <2>2, <2>7, <2>8 DEF CountInv
  <1> QED
    BY <1>1, <1>3, <1>4

LEMMA CountStep ==
    ASSUME IInv, TypeOK', Next PROVE CountInv'
  <1>1. TypeOK /\ LockInv /\ ClaimInv /\ CountInv /\ \A p \in Runs : SaveInv(p)
    BY DEF IInv
  <1>2. CASE Age \/ Tick
    <2>1. pc' = pc /\ op' = op /\ file' = file /\ granted' = granted /\ bumps' = bumps
      BY <1>2 DEF Age, Tick, caller
    <2>2. Pending' = Pending /\ Unreported' = Unreported
      BY <2>1 DEF Pending, Unreported
    <2> QED
      BY <1>1, <2>1, <2>2, CountKept
  <1>3. ASSUME NEW p \in Runs,
               Die(p) \/ TakeLock(p) \/ FindStale(p) \/ BreakLock(p) \/ GiveUp(p) \/ Load(p)
               \/ LoadFails(p)
        PROVE  CountInv'
    <2>1. /\ file' = file /\ op' = op /\ bumps' = bumps /\ granted' = granted
          /\ \A q \in Runs : pc'[q] = pc[q] \/ q = p
      BY <1>1, <1>3 DEF Die, TakeLock, FindStale, BreakLock, GiveUp, Load, LoadFails, TypeOK, caller
    <2>2. \/ pc'[p] \in {"dead", "idle"}
          \/ {pc[p], pc'[p]} \subseteq {"take", "break", "load", "save"}
      BY <1>1, <1>3 DEF Die, TakeLock, FindStale, BreakLock, GiveUp, Load, LoadFails, TypeOK
    <2>3. Pending' \subseteq Pending /\ (Unreported' => Unreported)
      BY <2>1, <2>2 DEF Pending, Unreported
    <2> QED
      BY <1>1, <2>1, <2>3, CountKept
  <1>4. ASSUME NEW p \in Runs, Begin(p) PROVE CountInv'
    BY <1>1, <1>4, CountBegin
  <1>5. ASSUME NEW p \in Runs, Save(p) \/ SaveFails(p) PROVE CountInv'
    BY <1>1, <1>5, CountSave
  <1>6. ASSUME NEW p \in Runs, Drop(p) PROVE CountInv'
    BY <1>1, <1>6, CountDrop
  <1> QED
    BY <1>2, <1>3, <1>4, <1>5, <1>6 DEF Next, Change

-----------------------------------------------------------------------------
(* The theorems.                                                           *)

LEMMA InitInv == Init => IInv
  <1> SUFFICES ASSUME Init PROVE IInv
    OBVIOUS
  <1> USE MemoryAssumption
  <1>1. TypeOK
    BY InitTyped
  <1>2. LockInv /\ \A p \in Runs : SaveInv(p)
    BY DEF Init, LockInv, SaveInv, Inside, NoLock
  <1>3. ClaimInv
    BY DEF Init, ClaimInv, NewRecord, Op
  <1>4. CountInv
    <2>1. Pending = {} /\ ~Unreported
      BY DEF Init, Pending, Unreported
    <2>2. Cardinality(Pending) = 0 /\ Cardinality(file.reserved) = 0
      BY <2>1, FS_EmptySet DEF Init, NewRecord
    <2> QED
      BY <2>1, <2>2 DEF CountInv, Spent, Init, NewRecord
  <1> QED
    BY <1>1, <1>2, <1>3, <1>4 DEF IInv

LEMMA StepInv == IInv /\ [Next]_vars /\ [StaleStill]_vars => IInv'
  <1> SUFFICES ASSUME IInv, [Next]_vars, [StaleStill]_vars PROVE IInv'
    OBVIOUS
  <1>1. TypeOK'
    BY StepTyped DEF IInv
  <1>2. CASE UNCHANGED vars
    <2>1. LockInv' /\ \A p \in Runs : SaveInv(p)'
      BY <1>2 DEF IInv, vars, LockInv, Inside, SaveInv, Kept, Bumped, Counted, Claimed, Freed
    <2>2. ClaimInv'
      BY <1>2, ClaimKept DEF IInv, vars
    <2>3. Pending' = Pending /\ Unreported' = Unreported
      BY <1>2 DEF vars, Pending, Unreported
    <2>4. CountInv'
      BY <1>2, <2>3, CountKept DEF IInv, vars
    <2> QED
      BY <1>1, <2>1, <2>2, <2>4 DEF IInv
  <1>3. CASE Next /\ ~UNCHANGED vars
    BY <1>1, <1>3, LockStep, SaveStep, ClaimStep, CountStep DEF IInv
  <1> QED
    BY <1>2, <1>3

LEMMA InvWhileStale == Spec /\ TakesOverStale => []IInv
  <1> QED
    BY InitInv, StepInv, PTL DEF Spec, TakesOverStale

LEMMA ExclusiveFromInv == IInv => ExclusiveClaim
  BY DEF IInv, ClaimInv, ExclusiveClaim

LEMMA NothingLostFromInv == IInv => NothingLost
  <1> SUFFICES ASSUME IInv PROVE NothingLost
    OBVIOUS
  <1>1. Spent \in Int /\ bumps.made \in Nat /\ bumps.tried \in Nat /\ Cardinality(Pending) \in Nat
    BY FiniteRecords, FinitePending, RecordParts DEF IInv, Spent, TypeOK
  <1>2. Spent \in bumps.made..bumps.tried
    BY <1>1 DEF IInv, CountInv
  <1> QED
    BY <1>2 DEF IInv, CountInv, NothingLost, Spent

\* A file that is replaced is replaced by one whole change of what it said.
LEMMA SaveIsOneChange ==
    ASSUME IInv, NEW p \in Runs, pc[p] = "save", file' = mem[p], now' = now
    PROVE  [Ledger!Next]_<<file, now>>
  <1>1. SaveInv(p) /\ TypeOK
    BY DEF IInv
  <1>2. CASE Kept(p)
    BY <1>2 DEF Kept
  <1>3. CASE Bumped(p)
    BY <1>3 DEF Bumped, Ledger!Next, Ledger!Bump
  <1>4. CASE Counted(p, op[p].of)
    BY <1>4 DEF Counted, Ledger!Next, Ledger!Reserve
  <1>5. ASSUME NEW until \in 1..now + Seconds, Claimed(p, until)
        PROVE  Ledger!Next
    BY <1>5 DEF Claimed, Ledger!Next, Ledger!Claim
  <1>6. CASE Freed(p)
    BY <1>6 DEF Freed, Ledger!Next, Ledger!Release
  <1> QED
    BY <1>1, <1>2, <1>3, <1>4, <1>5, <1>6 DEF SaveInv

LEMMA StepIsOneChange == IInv /\ [Next]_vars => [Ledger!Next]_<<file, now>>
  <1> SUFFICES ASSUME IInv, [Next]_vars PROVE [Ledger!Next]_<<file, now>>
    OBVIOUS
  <1>1. CASE Tick
    BY <1>1 DEF Tick, Ledger!Next, Ledger!Tick
  <1>2. ASSUME NEW p \in Runs, Save(p) \/ SaveFails(p)
        PROVE  [Ledger!Next]_<<file, now>>
    <2>1. pc[p] = "save" /\ now' = now /\ (file' = file \/ file' = mem[p])
      BY <1>2 DEF Save, SaveFails
    <2> QED
      BY <2>1, SaveIsOneChange
  <1>3. ASSUME NEW p \in Runs,
               Begin(p) \/ Die(p) \/ TakeLock(p) \/ FindStale(p) \/ BreakLock(p) \/ GiveUp(p)
               \/ Load(p) \/ LoadFails(p) \/ Drop(p)
        PROVE  UNCHANGED <<file, now>>
    BY <1>3 DEF Begin, Die, TakeLock, FindStale, BreakLock, GiveUp, Load, LoadFails, Drop
  <1>4. CASE Age \/ UNCHANGED vars
    BY <1>4 DEF Age, vars
  <1> QED
    BY <1>1, <1>2, <1>3, <1>4 DEF Next, Change

-----------------------------------------------------------------------------
(* Where no process dies with the lock and no file fails, no lock is ever  *)
(* left behind, and none is taken over.                                    *)

NeverLeft ==
    /\ TypeOK /\ LockInv
    /\ lock.by # Nobody => Inside(lock.by)
    /\ ~lock.old
    /\ \A p \in Runs : pc[p] # "break"

LEMMA NeverLeftStep ==
    ASSUME Mortal = {}, Faulty = {} PROVE NeverLeft /\ [Next]_vars => NeverLeft' /\ [StaleStill]_vars
  <1> SUFFICES ASSUME NeverLeft, [Next]_vars PROVE NeverLeft' /\ [StaleStill]_vars
    OBVIOUS
  <1> USE MemoryAssumption
  <1>1. StaleStill /\ \A p \in Runs : ~BreakLock(p)
    BY DEF NeverLeft, StaleStill, BreakLock
  <1>2. TypeOK'
    BY StepTyped DEF NeverLeft
  <1>3. CASE UNCHANGED vars
    BY <1>1, <1>2, <1>3 DEF NeverLeft, LockInv, vars, Inside
  <1>4. CASE Next
    <2>1. LockInv'
      BY <1>1, <1>4, LockStep DEF NeverLeft
    <2>2. lock.by \in Runs \cup {Nobody} /\ pc \in [Runs -> {"idle", "take", "break", "load", "save", "drop", "fail", "dead"}]
      BY DEF NeverLeft, TypeOK
    <2>3. CASE Age
      BY <2>3 DEF NeverLeft, Age, MayAge
    <2>4. CASE Tick
      BY <1>1, <1>2, <2>1, <2>4 DEF NeverLeft, Tick, Inside
    <2>5. ASSUME NEW p \in Runs, Begin(p) \/ Load(p) \/ Save(p) \/ GiveUp(p)
          PROVE  NeverLeft'
      <3>1. /\ lock' = lock /\ \A q \in Runs : q # p => pc'[q] = pc[q]
            /\ pc'[p] # "break" /\ (Inside(p) <=> Inside(p)')
        BY <2>2, <2>5 DEF Begin, Load, Save, GiveUp, Inside
      <3> QED
        BY <1>2, <2>1, <2>2, <3>1 DEF NeverLeft, Inside
    <2>6. ASSUME NEW p \in Runs, TakeLock(p) PROVE NeverLeft'
      BY <1>2, <2>1, <2>2, <2>6 DEF NeverLeft, TakeLock, Inside
    <2>7. ASSUME NEW p \in Runs, Drop(p) PROVE NeverLeft'
      BY <1>2, <2>1, <2>2, <2>7 DEF NeverLeft, Drop, NoLock, Inside
    <2>8. ASSUME NEW p \in Runs, FindStale(p) \/ Die(p) \/ LoadFails(p) \/ SaveFails(p)
          PROVE  FALSE
      BY <2>8 DEF NeverLeft, FindStale, Die, LoadFails, SaveFails
    <2> QED
      BY <1>1, <1>4, <2>3, <2>4, <2>5, <2>6, <2>7, <2>8 DEF Next, Change
  <1> QED
    BY <1>1, <1>3, <1>4

-----------------------------------------------------------------------------
(* Where there are two runs, either may die with the lock or without it:   *)
(* the lock it leaves is the other one's alone to take over.               *)

\* A run that fails to read leaves its lock behind and lives: it is out of the
\* way if that was its last change.
OneHeir ==
    \/ Mortal = {} /\ Faulty = {}
    \/ (\E p, q \in Runs : Runs = {p, q}) /\ \A p \in Faulty : MaxOps[p] <= 1

Gone(p) == pc[p] = "dead" \/ (pc[p] = "idle" /\ begun[p] >= MaxOps[p])

\* The lock of a run that is not inside is that of one that is gone, and who is
\* about to break a lock has that one before it.
HeirInv ==
    /\ TypeOK /\ LockInv
    /\ \A p \in Runs : pc[p] \notin {"idle", "dead"} => begun[p] >= 1
    /\ lock.by # Nobody => Inside(lock.by) \/ Gone(lock.by)
    /\ \A p \in Runs : pc[p] = "break" => lock.by # Nobody /\ lock.old

LEMMA HeirStep ==
    ASSUME NEW a \in Runs, NEW b \in Runs, Runs = {a, b}, \A p \in Faulty : MaxOps[p] <= 1
    PROVE  HeirInv /\ [Next]_vars => HeirInv' /\ [StaleStill]_vars
  <1> SUFFICES ASSUME HeirInv, [Next]_vars PROVE HeirInv' /\ [StaleStill]_vars
    OBVIOUS
  <1> USE MemoryAssumption
  <1>1. StaleStill
    BY DEF HeirInv, StaleStill, BreakLock
  <1>2. TypeOK'
    BY StepTyped DEF HeirInv
  <1>3. CASE UNCHANGED vars
    BY <1>1, <1>2, <1>3 DEF HeirInv, LockInv, vars, Inside, Gone
  <1>4. CASE Next
    <2>1. LockInv'
      BY <1>1, <1>4, LockStep DEF HeirInv
    <2>2. /\ lock.by \in Runs \cup {Nobody} /\ Nobody \notin Runs
          /\ pc \in [Runs -> {"idle", "take", "break", "load", "save", "drop", "fail", "dead"}]
          /\ begun \in [Runs -> Nat] /\ MaxOps \in [Runs -> Nat]
      BY DEF HeirInv, TypeOK
    \* Two runs are not about to break one lock, nor is one about to break its own.
    <2>3. ASSUME NEW p \in Runs, pc[p] = "break" PROVE lock.by # p /\ Gone(lock.by)
      BY <2>2, <2>3 DEF HeirInv, LockInv, Inside, Gone
    <2>4. ASSUME Age PROVE HeirInv'
      <3>1. /\ lock' = [lock EXCEPT !.old = TRUE] /\ lock.by # Nobody /\ ~lock.old
            /\ pc' = pc /\ begun' = begun
        BY <2>4 DEF Age, MayAge
      <3>2. lock'.by = lock.by /\ \A q \in Runs : pc[q] # "break"
        BY <2>2, <3>1 DEF HeirInv, TypeOK
      <3> QED
        BY <1>2, <2>1, <2>2, <3>1, <3>2 DEF HeirInv, Inside, Gone
    <2>5. ASSUME Tick PROVE HeirInv'
      <3>1. lock' = lock /\ pc' = pc /\ begun' = begun
        BY <2>5 DEF Tick
      <3> QED
        BY <1>2, <2>1, <3>1 DEF HeirInv, Inside, Gone
    <2>6. ASSUME NEW p \in Runs, Begin(p) PROVE HeirInv'
      <3>1. /\ lock' = lock /\ pc' = [pc EXCEPT ![p] = "take"] /\ ~Gone(p) /\ ~Inside(p)
            /\ begun' = [begun EXCEPT ![p] = @ + 1]
        BY <2>2, <2>6 DEF Begin, Gone, Inside
      <3> QED
        BY <1>2, <2>1, <2>2, <3>1 DEF HeirInv, Inside, Gone
    <2>7. ASSUME NEW p \in Runs, Die(p) PROVE HeirInv'
      <3>1. lock' = lock /\ begun' = begun /\ pc' = [pc EXCEPT ![p] = "dead"]
        BY <2>7 DEF Die
      <3> QED
        BY <1>2, <2>1, <2>2, <3>1 DEF HeirInv, Inside, Gone
    <2>8. ASSUME NEW p \in Runs, TakeLock(p) PROVE HeirInv'
      <3>1. /\ lock.by = Nobody /\ lock' = [by |-> p, old |-> FALSE] /\ begun' = begun
            /\ pc' = [pc EXCEPT ![p] = "load"] /\ pc[p] = "take"
        BY <2>8 DEF TakeLock, MayTake
      <3>2. \A q \in Runs : pc[q] # "break"
        BY <3>1 DEF HeirInv
      <3> QED
        BY <1>2, <2>1, <2>2, <3>1, <3>2 DEF HeirInv, Inside
    <2>9. ASSUME NEW p \in Runs, FindStale(p) PROVE HeirInv'
      <3>1. /\ lock' = lock /\ lock.by # Nobody /\ lock.old /\ begun' = begun /\ pc[p] = "take"
            /\ pc' = [pc EXCEPT ![p] = "break"]
        BY <2>9 DEF FindStale
      <3> QED
        BY <1>2, <2>1, <2>2, <3>1 DEF HeirInv, Inside, Gone
    \* The other run is gone, and is not about to break anything.
    <2>10. ASSUME NEW p \in Runs, BreakLock(p) PROVE HeirInv'
      <3>1. /\ lock' = NoLock /\ begun' = begun /\ pc[p] = "break"
            /\ pc' = [pc EXCEPT ![p] = "take"]
        BY <2>10 DEF BreakLock
      <3>2. \A q \in Runs : q # p => pc[q] # "break"
        BY <2>2, <2>3, <3>1 DEF HeirInv, Gone
      <3> QED
        BY <1>2, <2>1, <2>2, <3>1, <3>2 DEF HeirInv, NoLock
    <2>11. ASSUME NEW p \in Runs, GiveUp(p) \/ Load(p) \/ Save(p) \/ SaveFails(p) PROVE HeirInv'
      <3>1. /\ lock' = lock /\ begun' = begun /\ pc[p] \notin {"idle", "dead"}
            /\ \A q \in Runs : q # p => pc'[q] = pc[q]
            /\ pc'[p] # "break" /\ (Inside(p) <=> Inside(p)')
        BY <2>2, <2>11 DEF GiveUp, Load, Save, SaveFails, Inside
      <3> QED
        BY <1>2, <2>1, <2>2, <3>1 DEF HeirInv, Inside, Gone
    <2>12. ASSUME NEW p \in Runs, LoadFails(p) PROVE HeirInv'
      <3>1. /\ lock' = lock /\ begun' = begun /\ pc[p] = "load" /\ pc' = [pc EXCEPT ![p] = "idle"]
            /\ MaxOps[p] <= 1 /\ begun[p] >= 1
        BY <2>12 DEF LoadFails, HeirInv
      <3>2. Gone(p)'
        BY <2>2, <3>1 DEF Gone
      <3> QED
        BY <1>2, <2>1, <2>2, <3>1, <3>2 DEF HeirInv, Inside, Gone
    <2>13. ASSUME NEW p \in Runs, Drop(p) PROVE HeirInv'
      <3>1. /\ lock' = NoLock /\ begun' = begun /\ Inside(p) /\ pc' = [pc EXCEPT ![p] = "idle"]
        BY <2>13 DEF Drop, Inside
      <3>2. lock.by = p /\ \A q \in Runs : pc[q] # "break"
        BY <2>2, <2>3, <3>1 DEF HeirInv, LockInv, Gone, Inside
      <3> QED
        BY <1>2, <2>1, <2>2, <3>1, <3>2 DEF HeirInv, NoLock
    <2> QED
      BY <1>1, <1>4, <2>4, <2>5, <2>6, <2>7, <2>8, <2>9, <2>10, <2>11, <2>12, <2>13
         DEF Next, Change
  <1> QED
    BY <1>1, <1>3, <1>4

-----------------------------------------------------------------------------
(* The theorems. Each holds where OneHeir does: any number of runs that    *)
(* neither die nor fail, or two of which either may die at any step and    *)
(* fail at the only change it makes.                                       *)

\* Where a lock left behind has one heir, a takeover unlinks only a lock that
\* is stale still, or nothing.
THEOREM TakeoverSound == ASSUME OneHeir PROVE Spec => TakesOverStale
  <1>1. CASE Mortal = {} /\ Faulty = {}
    <2>1. Init => NeverLeft
      BY InitTyped, InitInv, MemoryAssumption DEF IInv, Init, NeverLeft, NoLock
    <2>2. NeverLeft /\ [Next]_vars => NeverLeft' /\ [StaleStill]_vars
      BY <1>1, NeverLeftStep
    <2> QED
      BY <2>1, <2>2, PTL DEF Spec, TakesOverStale
  <1>2. CASE ~(Mortal = {} /\ Faulty = {})
    <2>1. Init => HeirInv
      BY InitTyped, InitInv, MemoryAssumption DEF IInv, Init, HeirInv, NoLock
    <2>2. HeirInv /\ [Next]_vars => HeirInv' /\ [StaleStill]_vars
      BY <1>2, HeirStep DEF OneHeir
    <2> QED
      BY <2>1, <2>2, PTL DEF Spec, TakesOverStale
  <1> QED
    BY <1>1, <1>2

\* Where a lock left behind has one heir: the inductive invariant. One run is
\* inside the lock, what it read is what the file holds, and what callers were
\* told is in the file.
THEOREM InvAlways == ASSUME OneHeir PROVE Spec => []IInv
  <1> QED
    BY TakeoverSound, InvWhileStale, PTL

\* Where a lock left behind has one heir, no two runs are told at one time that
\* the task is theirs. With two heirs they may be: memory_takeover.
THEOREM ExclusiveClaimHolds == ASSUME OneHeir PROVE Spec => []ExclusiveClaim
  <1> QED
    BY ExclusiveFromInv, InvAlways, PTL

\* Where a lock left behind has one heir, every reservation that was told is on
\* the disk, and the counter is what was reported and at most what was tried.
THEOREM NothingLostHolds == ASSUME OneHeir PROVE Spec => []NothingLost
  <1> QED
    BY NothingLostFromInv, InvAlways, PTL

\* Where a lock left behind has one heir, the file, its lock and the processes
\* implement the ledger: each change happens at once, on what every earlier
\* change left.
THEOREM RefinesLedger == ASSUME OneHeir PROVE Spec => ImplementsLedger
  <1>1. Init => Ledger!Init
    BY DEF Init, NewRecord, Ledger!Init
  <1> QED
    BY <1>1, StepIsOneChange, InvAlways, PTL DEF Spec, ImplementsLedger, Ledger!Spec
=============================================================================
