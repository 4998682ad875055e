------------------------- MODULE StepSchedulerProofs -------------------------
(***************************************************************************)
(* What holds of the scheduler for every cycle and every size of the pool: *)
(* types; one life per step and needs that are met; groups, the pool and   *)
(* verdicts; how a run ends, what a failure stops and why a step ended as  *)
(* it did; and that the scheduler keeps CycleContract.                     *)
(***************************************************************************)
EXTENDS StepScheduler, StepGraphProofs, FiniteSetTheorems, Integers, TLAPS

-----------------------------------------------------------------------------
(* The type invariant.                                                     *)

\* Where a save leads: on, or out of the loop.
LEMMA SavedType ==
    ASSUME loop \in LoopStates, broken \in BOOLEAN,
           NEW next \in LoopStates \ {"launch"}, Saved(next)
    PROVE  loop' \in LoopStates \ {"launch"} /\ broken' \in BOOLEAN
BY DEF Saved, LoopStates

\* What _record concludes with is a terminal status: a wait or a revision that
\* was refused is one because the token is set.
LEMMA VerdictType ==
    ASSUME NEW s \in Steps, NEW r \in Results,
           TokenSet(s) \/ r \notin {"revise", "unfinished"}
    PROVE  Verdict(s, r) \in Terminal
PROOF
<1>1. Heard(r) \in {"success", "skipped", "failed", "cancelled", "waiting"}
  BY DEF Heard
<1>2. CASE TokenSet(s)
  BY <1>1, <1>2 DEF Verdict, Terminal
<1>3. CASE ~TokenSet(s)
  BY <1>1, <1>3 DEF Verdict, Terminal, Heard
<1> QED
  BY <1>2, <1>3

\* The results queue holds results of steps, whoever takes from it or adds to it.
LEMMA QueueType ==
    ASSUME NEW T, NEW q \in Seq(T)
    PROVE  /\ q # <<>> => Head(q) \in T /\ Tail(q) \in Seq(T)
           /\ \A x \in T : Append(q, x) \in Seq(T)
OBVIOUS

\* The part of the state that _record's three endings write.
RecordedType ==
    /\ status' \in [Steps -> Statuses] /\ begun' \subseteq Steps /\ waiting' \subseteq Steps
    /\ waits' \in [Steps -> Nat] /\ revised' \in [Gates -> Nat]
    /\ due' \subseteq Steps /\ expired' \subseteq Steps /\ stop' \in BOOLEAN
    /\ loop' \in LoopStates \ {"launch"} /\ broken' \in BOOLEAN

\* Sending a plan back.
LEMMA ReopenType ==
    ASSUME TypeOK, NEW next \in LoopStates \ {"launch"}, NEW g \in Gates, Reopen(g, next)
    PROVE  RecordedType
PROOF
<1>1. loop' \in LoopStates \ {"launch"} /\ broken' \in BOOLEAN
  BY SavedType DEF Reopen, TypeOK
<1>2. CASE broken'
  BY <1>1, <1>2 DEF Reopen, TypeOK, RecordedType
<1>3. CASE ~broken'
  <2>1. status' \in [Steps -> Statuses]
    BY <1>3 DEF Reopen, TypeOK, Statuses
  <2>2. waits' \in [Steps -> Nat]
    <3>1. waits' = [s \in Steps |-> IF s \in Revisited(g) THEN 0 ELSE waits[s]]
      BY <1>3 DEF Reopen
    <3>2. waits \in [Steps -> Nat]
      BY DEF TypeOK
    <3> QED
      BY <3>1, <3>2
  <2>3. revised' \in [Gates -> Nat]
    <3>1. revised' = [revised EXCEPT ![g] = revised[g] + 1]
      BY <1>3 DEF Reopen
    <3>2. revised \in [Gates -> Nat]
      BY DEF TypeOK
    <3> QED
      BY <3>1, <3>2
  <2> QED
    BY <1>1, <1>3, <2>1, <2>2, <2>3 DEF Reopen, TypeOK, RecordedType
<1> QED
  BY <1>2, <1>3

\* Setting a step aside.
LEMMA ParkType ==
    ASSUME TypeOK, NEW next \in LoopStates \ {"launch"}, NEW s \in Steps, Park(s, next)
    PROVE  RecordedType
PROOF
<1>1. loop' \in LoopStates \ {"launch"} /\ broken' \in BOOLEAN
  BY SavedType DEF Park, TypeOK
<1>2. status' \in [Steps -> Statuses] /\ waits' \in [Steps -> Nat]
  BY DEF Park, TypeOK, Statuses
<1> QED
  BY <1>1, <1>2 DEF Park, TypeOK, RecordedType

\* A verdict.
LEMMA ConcludeType ==
    ASSUME TypeOK, NEW next \in LoopStates \ {"launch"}, NEW s \in Steps, NEW r \in Results,
           TokenSet(s) \/ r \notin {"revise", "unfinished"},
           Conclude(s, r, next)
    PROVE  RecordedType
PROOF
<1>1. Verdict(s, r) \in Statuses
  BY VerdictType DEF Statuses
<1>2. status' \in [Steps -> Statuses]
  BY <1>1 DEF Conclude, TypeOK
<1>3. loop' \in LoopStates \ {"launch"} /\ broken' \in BOOLEAN /\ stop' \in BOOLEAN
  BY SavedType DEF Conclude, TypeOK, LoopStates, StopAfter
<1> QED
  BY <1>2, <1>3 DEF Conclude, TypeOK, RecordedType

\* What taking a result does, with the step and its result named.
Recorded(s, r, next) ==
    /\ done # <<>> /\ done' = Tail(done)
    /\ s = Head(done).step /\ r \in {"failed", Head(done).result}
    /\ inflight' = inflight \ {s}
    /\ overdue' = [overdue EXCEPT ![s] = "none"]
    /\ \/ ~TokenSet(s) /\ r = "revise" /\ MayRevise(s, inflight \ {s}) /\ Reopen(s, next)
       \/ ~TokenSet(s) /\ r = "unfinished" /\ Park(s, next)
       \/ (TokenSet(s) \/ r \notin {"revise", "unfinished"}) /\ Conclude(s, r, next)
    /\ UNCHANGED <<extended, told, cancel, threadVars, cleaned, cursor, moved>>

\* Taking a result is taking it for one step, whatever the queue held.
LEMMA RecordShape ==
    ASSUME TypeOK, NEW next \in LoopStates \ {"launch"}, Record(next)
    PROVE  \E s \in Steps, r \in Results : Recorded(s, r, next)
PROOF
<1>1. done # <<>> /\ done \in Seq([step : Steps, result : Results])
  BY DEF Record, TypeOK
<1>2. Head(done) \in [step : Steps, result : Results]
  BY <1>1, QueueType
<1>3. PICK s \in Steps, q \in Results : s = Head(done).step /\ q = Head(done).result
  BY <1>2
<1>4. CASE q = "revise" /\ ~TokenSet(s) /\ ~MayRevise(s, inflight \ {s})
  <2>1. Recorded(s, "failed", next)
    BY <1>3, <1>4 DEF Record, Recorded, Withdrawn
  <2> QED
    BY <2>1 DEF Results
<1>5. CASE ~(q = "revise" /\ ~TokenSet(s) /\ ~MayRevise(s, inflight \ {s}))
  <2>1. Recorded(s, q, next)
    BY <1>3, <1>5 DEF Record, Recorded, Withdrawn
  <2> QED
    BY <2>1
<1> QED
  BY <1>4, <1>5

\* Taking a result, whichever of the three endings it has.
LEMMA RecordType ==
    ASSUME TypeOK, NEW next \in LoopStates \ {"launch"}, Record(next)
    PROVE  TypeOK'
PROOF
<1>1. PICK s \in Steps, r \in Results : Recorded(s, r, next)
  BY RecordShape
<1>2. RecordedType
  <2>1. CASE MayRevise(s, inflight \ {s}) /\ Reopen(s, next)
    BY <2>1, ReopenType DEF MayRevise
  <2>2. CASE Park(s, next)
    BY <2>2, ParkType
  <2>3. CASE (TokenSet(s) \/ r \notin {"revise", "unfinished"}) /\ Conclude(s, r, next)
    BY <2>3, ConcludeType
  <2> QED
    BY <1>1, <2>1, <2>2, <2>3 DEF Recorded
<1>3. done' \in Seq([step : Steps, result : Results])
  <2>1. done \in Seq([step : Steps, result : Results]) /\ done # <<>> /\ done' = Tail(done)
    BY <1>1 DEF Recorded, TypeOK
  <2> QED
    BY <2>1, QueueType
<1>4. overdue' \in [Steps -> {"none", "asked", "continue", "stop"}] /\ inflight' \subseteq Steps
  BY <1>1 DEF Recorded, TypeOK
<1> QED
  BY <1>1, <1>2, <1>3, <1>4 DEF Recorded, RecordedType, TypeOK, threadVars

\* The decisions of the loop that read the record and write only where it is.
LEMMA WalkType ==
    ASSUME TypeOK,
           PassOver \/ ReadyToLaunch \/ NoRoom \/ EndPass \/ TakeNothing \/ Settled \/ EndTurn
           \/ Interrupt \/ Close \/ EndDrain \/ EndLeftover \/ Ended
    PROVE  TypeOK'
PROOF
<1>0. cursor \in Steps => cursor + 1 \in 1..(N + 1)
  BY NAssumption DEF Steps
<1>a. 1 \in 1..(N + 1)
  BY NAssumption
<1> USE DEF TypeOK, LoopStates, recordVars, timeVars, tokenVars, threadVars
<1>1. CASE PassOver       BY <1>0, <1>1 DEF PassOver
<1>2. CASE ReadyToLaunch  BY <1>2 DEF ReadyToLaunch
<1>3. CASE NoRoom         BY <1>0, <1>3 DEF NoRoom
<1>4. CASE EndPass        BY <1>a, <1>4 DEF EndPass
<1>5. CASE TakeNothing    BY <1>5 DEF TakeNothing
<1>6. CASE Settled        BY <1>6 DEF Settled
<1>7. CASE EndTurn        BY <1>7 DEF EndTurn
<1>8. CASE Interrupt      BY <1>8 DEF Interrupt
<1>9. CASE Close          BY <1>9 DEF Close
<1>10. CASE EndDrain      BY <1>10 DEF EndDrain
<1>11. CASE EndLeftover   BY <1>11 DEF EndLeftover
<1>12. CASE Ended         BY <1>12 DEF Ended, vars, loopVars
<1> QED
  BY <1>1, <1>2, <1>3, <1>4, <1>5, <1>6, <1>7, <1>8, <1>9, <1>10, <1>11, <1>12

\* The decisions of the loop that write the record.
LEMMA DecisionType ==
    ASSUME TypeOK,
           \/ BeginTurn \/ ResolveUnrun \/ Launch \/ EnforceDeadlines \/ GiveUpInflight \/ Cleanup
           \/ \E s \in Steps : SettleOverdue(s) \/ ExpireWaiting(s) \/ GiveUp(s)
    PROVE  TypeOK'
PROOF
<1>0. cursor \in Steps => cursor + 1 \in 1..(N + 1)
  BY NAssumption DEF Steps
<1>a. 1 \in 1..(N + 1)
  BY NAssumption
<1> USE DEF TypeOK, recordVars, timeVars, tokenVars, threadVars
<1>1. CASE BeginTurn
  <2>1. status' \in [Steps -> Statuses]
    BY <1>1 DEF BeginTurn, Woken, Statuses
  <2> QED
    BY <1>a, <1>1, <2>1 DEF BeginTurn, Woken, LoopStates
<1>2. CASE ResolveUnrun
  <2>1. loop' \in LoopStates \ {"launch"} /\ broken' \in BOOLEAN
    BY <1>2, SavedType DEF ResolveUnrun, LoopStates
  <2>2. status' \in [Steps -> Statuses] /\ stop' \in BOOLEAN
    BY <1>2 DEF ResolveUnrun, Statuses, StopAfter
  <2>3. cursor' \in 1..(N + 1) /\ moved' \in BOOLEAN
    BY <1>0, <1>2 DEF ResolveUnrun
  <2> QED
    BY <1>2, <2>1, <2>2, <2>3 DEF ResolveUnrun
<1>3. CASE Launch
  <2>1. loop' \in LoopStates \ {"launch"} /\ broken' \in BOOLEAN
    BY <1>3, SavedType DEF Launch, LoopStates
  <2>2. cursor \in Steps /\ cursor' \in 1..(N + 1)
    BY <1>0, <1>3 DEF Launch
  <2>3. status' \in [Steps -> Statuses] /\ tries' \in [Steps -> Nat] /\ outcome' \in [Steps -> Results]
    BY <1>3 DEF Launch, Statuses, Results
  <2>4. worker' \in [Steps -> WorkerStates]
    BY <1>3 DEF Launch, WorkerStates
  <2> QED
    BY <1>3, <2>1, <2>2, <2>3, <2>4 DEF Launch
<1>4. CASE EnforceDeadlines
  <2>1. overdue' \in [Steps -> {"none", "asked", "continue", "stop"}]
    BY <1>4 DEF EnforceDeadlines
  <2> QED
    BY <1>4, <2>1 DEF EnforceDeadlines, LoopStates
<1>5. CASE GiveUpInflight
  <2>1. status' \in [Steps -> Statuses]
    BY <1>5 DEF GiveUpInflight, Statuses, Terminal
  <2> QED
    BY <1>5, <2>1 DEF GiveUpInflight, LoopStates
<1>6. CASE Cleanup
  <2>1. cleaned' = [s \in Steps |-> IF s \in prepared THEN cleaned[s] + 1 ELSE cleaned[s]]
    BY <1>6 DEF Cleanup
  <2>2. cleaned' \in [Steps -> Nat]
    BY <2>1
  <2> QED
    BY <1>6, <2>2 DEF Cleanup, LoopStates
<1>7. ASSUME NEW s \in Steps, SettleOverdue(s)
      PROVE  TypeOK'
  <2>1. overdue' \in [Steps -> {"none", "asked", "continue", "stop"}]
    BY <1>7 DEF SettleOverdue
  <2>2. extended' \in [Steps -> Nat]
    <3>1. UNCHANGED extended \/ extended' = [extended EXCEPT ![s] = extended[s] + 1]
      BY <1>7 DEF SettleOverdue
    <3> HIDE DEF TypeOK
    <3>2. extended \in [Steps -> Nat]
      BY DEF TypeOK
    <3> QED
      BY <3>1, <3>2
  <2>3. expired' \subseteq Steps /\ told' \subseteq Steps
    BY <1>7 DEF SettleOverdue
  <2> QED
    BY <1>7, <2>1, <2>2, <2>3 DEF SettleOverdue, loopVars
<1>8. ASSUME NEW s \in Steps, ExpireWaiting(s)
      PROVE  TypeOK'
  <2>1. loop' \in LoopStates \ {"launch"} /\ broken' \in BOOLEAN
    BY <1>8, SavedType DEF ExpireWaiting, LoopStates
  <2>2. status' \in [Steps -> Statuses] /\ stop' \in BOOLEAN
    BY <1>8 DEF ExpireWaiting, Statuses, Terminal, StopAfter
  <2> QED
    BY <1>8, <2>1, <2>2 DEF ExpireWaiting
<1>9. ASSUME NEW s \in Steps, GiveUp(s)
      PROVE  TypeOK'
  <2>1. loop' \in LoopStates \ {"launch"} /\ broken' \in BOOLEAN
    BY <1>9, SavedType DEF GiveUp, Remaining, LoopStates
  <2>2. status' \in [Steps -> Statuses] /\ stop' \in BOOLEAN
    BY <1>9 DEF GiveUp, Remaining, Statuses, Terminal, StopAfter
  <2> QED
    BY <1>9, <2>1, <2>2 DEF GiveUp, Remaining
<1> QED
  BY <1>1, <1>2, <1>3, <1>4, <1>5, <1>6, <1>7, <1>8, <1>9

\* The workers.
LEMMA WorkType ==
    ASSUME TypeOK, NEW s \in Steps, Work(s)
    PROVE  TypeOK'
PROOF
<1> USE DEF TypeOK, recordVars, timeVars, tokenVars, loopVars, WorkerStates, Results
<1>1. CASE EnterRefused(s)  BY <1>1 DEF EnterRefused
<1>2. CASE Enter(s)
  <2>1. free' \in [Groups -> BOOLEAN]
    BY <1>2 DEF Enter
  <2> QED
    BY <1>2, <2>1 DEF Enter
<1>3. CASE Prepare(s)
  <2>1. tries' \in [Steps -> Nat]
    BY <1>3 DEF Prepare
  <2>2. worker' \in [Steps -> WorkerStates] /\ outcome' \in [Steps -> Results]
    BY <1>3 DEF Prepare
  <2> QED
    BY <1>3, <2>1, <2>2 DEF Prepare
<1>4. CASE BeginAttempt(s)  BY <1>4 DEF BeginAttempt
<1>5. CASE Return(s)
  <2>1. Replies(s) \subseteq Results
    BY DEF Replies
  <2>2. worker' \in [Steps -> WorkerStates] /\ outcome' \in [Steps -> Results]
    BY <1>5, <2>1 DEF Return
  <2> QED
    BY <1>5, <2>2 DEF Return
<1>6. CASE Backoff(s)
  <2>1. tries' \in [Steps -> Nat]
    <3>1. UNCHANGED tries \/ tries' = [tries EXCEPT ![s] = tries[s] + 1]
      BY <1>6 DEF Backoff
    <3> HIDE DEF TypeOK
    <3>2. tries \in [Steps -> Nat]
      BY DEF TypeOK
    <3> QED
      BY <3>1, <3>2
  <2> QED
    BY <1>6, <2>1 DEF Backoff
<1>7. CASE Leave(s)
  <2>1. [step |-> s, result |-> outcome[s]] \in [step : Steps, result : Results]
    OBVIOUS
  <2>2. done' \in Seq([step : Steps, result : Results])
    <3>1. done \in Seq([step : Steps, result : Results])
      OBVIOUS
    <3>2. UNCHANGED done \/ done' = Append(done, [step |-> s, result |-> outcome[s]])
      BY <1>7 DEF Leave, Put
    <3> HIDE DEF TypeOK, Results
    <3> QED
      BY <3>1, <3>2, <2>1, QueueType
  <2>3. free' \in [Groups -> BOOLEAN]
    <3>1. UNCHANGED free \/ free' = [g \in Groups |-> free[g] \/ (Grouped(s) /\ GroupOf[s] = g)]
      BY <1>7 DEF Leave, Put
    <3>2. [g \in Groups |-> free[g] \/ (Grouped(s) /\ GroupOf[s] = g)] \in [Groups -> BOOLEAN]
      OBVIOUS
    <3> QED
      BY <3>1, <3>2
  <2>4. worker' \in [Steps -> WorkerStates] /\ outcome' \in [Steps -> Results]
    BY <1>7 DEF Leave, Put
  <2> QED
    BY <1>7, <2>2, <2>3, <2>4 DEF Leave, Put
<1> QED
  BY <1>1, <1>2, <1>3, <1>4, <1>5, <1>6, <1>7 DEF Work

\* Everybody else.
LEMMA EnvironmentType ==
    ASSUME TypeOK, Environment
    PROVE  TypeOK'
PROOF
<1> USE DEF TypeOK, recordVars, timeVars, tokenVars, threadVars, loopVars
<1>1. CASE PressStop  BY <1>1 DEF PressStop
<1>2. CASE Interrupt  BY <1>2, WalkType
<1>3. ASSUME NEW s \in Steps, Expire(s)    PROVE TypeOK'
  BY <1>3 DEF Expire
<1>4. ASSUME NEW s \in Steps, WaitOver(s)  PROVE TypeOK'
  BY <1>4 DEF WaitOver
<1>5. ASSUME NEW s \in Steps, Answer(s)    PROVE TypeOK'
  BY <1>5 DEF Answer
<1> QED
  BY <1>1, <1>2, <1>3, <1>4, <1>5 DEF Environment

\* Before the loop runs.
LEMMA InitType ==
    ASSUME Init
    PROVE  TypeOK
PROOF
<1>1. 1 \in 1..(N + 1) /\ 0 \in Nat
  BY NAssumption
<1>2. done \in Seq([step : Steps, result : Results])
  BY DEF Init
<1> QED
  BY <1>1, <1>2 DEF Init, TypeOK, Statuses, WorkerStates, Results, LoopStates

\* Whoever moves.
LEMMA StepType ==
    ASSUME TypeOK, [Next]_vars
    PROVE  TypeOK'
PROOF
<1>1. CASE Take \/ Drain
  BY <1>1, RecordType DEF Take, Drain, LoopStates
<1>2. CASE Loop /\ ~(Take \/ Drain)
  BY <1>2, WalkType, DecisionType DEF Loop
<1>3. CASE Environment
  BY <1>3, EnvironmentType
<1>4. CASE Ended
  BY <1>4, WalkType
<1>5. ASSUME NEW s \in Steps, Work(s) PROVE TypeOK'
  BY <1>5, WorkType
<1>6. CASE UNCHANGED vars
  BY <1>6 DEF vars, recordVars, timeVars, tokenVars, threadVars, loopVars, TypeOK
<1> QED
  BY <1>1, <1>2, <1>3, <1>4, <1>5, <1>6 DEF Next

\* Every reachable state is one the loop and its threads can be in.
THEOREM TypeCorrect == Spec => []TypeOK
  BY InitType, StepType, PTL DEF Spec

-----------------------------------------------------------------------------
(* That a step has one life at a time and works only after what it needs,  *)
(* for every cycle, pool, deadline, failure and revision.                  *)
(*                                                                         *)
(* NeedsMet is not inductive by itself.  A result may change a step only   *)
(* if it is the result of the running step (OneLife); a step set aside may *)
(* time out only if it did work (RecordMatchesLoop); a step may start only *)
(* if what was read before the start still stands (CursorReady); and a     *)
(* plan may be sent back only because whatever waits for a reopened step   *)
(* lies downstream of the plan (UpstreamIsDownstream, DownstreamClosed).   *)

SafetyInv ==
    TypeOK /\ OneLife /\ RecordMatchesLoop /\ NeedsMet /\ CursorReady

\* The statuses of steps that have begun to work on their own account.
Worked == {"running", "waiting", "success", "failed", "timeout"}

-----------------------------------------------------------------------------
(* One life.                                                               *)

\* The conjuncts of OneLife, by name.
OneWorker == \A s \in Steps : worker[s] # "none" => s \in inflight \ Queued
OneResult == \A i, j \in DOMAIN done : done[i].step = done[j].step => i = j
NoStranger == Queued \subseteq inflight
InflightAlive ==
    \A s \in inflight : status[s] = "running" /\ (worker[s] # "none" \/ s \in Queued \/ broken)

\* What the queue holds after its head was taken: everything but the head.
LEMMA TailOfQueue ==
    ASSUME TypeOK, OneResult, done # <<>>, done' = Tail(done)
    PROVE  /\ Queued' = Queued \ {Head(done).step}
           /\ Head(done).step \in Queued
           /\ OneResult'
PROOF
<1>1. /\ Len(done) \in Nat \ {0} /\ DOMAIN done = 1..Len(done)
      /\ DOMAIN done' = 1..(Len(done) - 1)
      /\ Head(done) = done[1]
      /\ \A i \in DOMAIN done' : done'[i] = done[i + 1]
  BY DEF TypeOK
<1>2. \A i \in DOMAIN done' : i + 1 \in DOMAIN done /\ i + 1 # 1 /\ i \in Int
  BY <1>1
<1>3. \A i \in DOMAIN done \ {1} : i - 1 \in DOMAIN done' /\ (i - 1) + 1 = i
  BY <1>1
<1>4. 1 \in DOMAIN done
  BY <1>1
<1>5. \A i \in DOMAIN done : done[i].step = done[1].step => i = 1
  BY <1>4 DEF OneResult
<1>6. OneResult'
  <2> SUFFICES ASSUME NEW i \in DOMAIN done', NEW j \in DOMAIN done', done'[i].step = done'[j].step
               PROVE  i = j
    BY DEF OneResult
  <2>1. i + 1 = j + 1
    BY <1>1, <1>2 DEF OneResult
  <2> QED
    BY <1>2, <2>1
<1>7. Queued' = Queued \ {Head(done).step}
  <2>1. \A i \in DOMAIN done' : done'[i].step \in Queued \ {done[1].step}
    BY <1>1, <1>2, <1>5 DEF Queued
  <2>2. \A i \in DOMAIN done : done[i].step # done[1].step => done[i].step \in Queued'
    BY <1>1, <1>3 DEF Queued
  <2> QED
    BY <1>1, <2>1, <2>2 DEF Queued
<1> QED
  BY <1>1, <1>4, <1>6, <1>7 DEF Queued

\* Where the elements of a sequence are after one is added.
LEMMA AppendPlaces ==
    ASSUME NEW T, NEW q \in Seq(T), NEW x \in T
    PROVE  /\ Len(q) \in Nat /\ DOMAIN q = 1..Len(q)
           /\ DOMAIN Append(q, x) = 1..(Len(q) + 1)
           /\ \A i \in DOMAIN q : Append(q, x)[i] = q[i]
           /\ Append(q, x)[Len(q) + 1] = x
OBVIOUS

\* What the queue holds after a worker put its result.
LEMMA AppendToQueue ==
    ASSUME TypeOK, OneResult, NEW s \in Steps \ Queued, NEW r \in Results,
           done' = Append(done, [step |-> s, result |-> r])
    PROVE  Queued' = Queued \cup {s} /\ OneResult'
PROOF
<1>1. /\ Len(done) \in Nat /\ DOMAIN done = 1..Len(done)
      /\ DOMAIN done' = 1..(Len(done) + 1)
      /\ \A i \in DOMAIN done : done'[i] = done[i]
      /\ done'[Len(done) + 1] = [step |-> s, result |-> r]
  <2> DEFINE T == [step : Steps, result : Results]
             x == [step |-> s, result |-> r]
  <2>1. x \in T
    OBVIOUS
  <2>2. done \in Seq(T)
    BY DEF TypeOK
  <2>3. done' = Append(done, x)
    OBVIOUS
  <2> HIDE DEF T, x
  <2>4. /\ Len(done) \in Nat /\ DOMAIN done = 1..Len(done)
        /\ DOMAIN Append(done, x) = 1..(Len(done) + 1)
        /\ \A i \in DOMAIN done : Append(done, x)[i] = done[i]
        /\ Append(done, x)[Len(done) + 1] = x
    BY <2>1, <2>2, AppendPlaces
  <2> QED
    BY <2>3, <2>4 DEF x
<1>2. DOMAIN done' = DOMAIN done \cup {Len(done) + 1}
  BY <1>1
<1>3. done'[Len(done) + 1].step = s
  BY <1>1
<1>4. Queued' = Queued \cup {s}
  BY <1>1, <1>2, <1>3 DEF Queued
<1>5. \A i \in DOMAIN done : done'[i].step # s
  BY <1>1 DEF Queued
<1>6. OneResult'
  BY <1>1, <1>2, <1>3, <1>5 DEF OneResult
<1> QED
  BY <1>4, <1>6

-----------------------------------------------------------------------------
(* What keeps the parts.                                                   *)

\* A step that moves no verdict, and lets work only a step that has what it
\* needs, keeps NeedsMet.
LEMMA NeedsKept ==
    ASSUME TypeOK, NeedsMet,
           \A s \in Steps : status[s] \in Terminal => status'[s] = status[s],
           \A s \in Steps : status'[s] \in Worked =>
               status[s] \in Worked \/ \A n \in Needs[s] : Satisfied(s, n)
    PROVE  NeedsMet'
PROOF
<1> SUFFICES ASSUME NEW s \in Steps, status'[s] \in Worked, NEW n \in Needs[s]
             PROVE  Satisfied(s, n)'
  BY DEF NeedsMet, Worked
<1>1. Satisfied(s, n)
  BY DEF NeedsMet, Worked
<1>2. n \in Steps
  BY NeedsAssumption
<1> QED
  BY <1>1, <1>2 DEF Satisfied, Terminal

\* A decision that touches neither the record nor the threads.
LEMMA QuietSafe ==
    ASSUME SafetyInv, TypeOK', CursorReady',
           UNCHANGED <<status, inflight, waiting, worker, done, broken>>,
           Accounting' => Accounting
    PROVE  SafetyInv'
PROOF
<1>1. NeedsMet'
  BY DEF SafetyInv, NeedsMet, Satisfied
<1>2. OneLife' /\ RecordMatchesLoop'
  BY DEF SafetyInv, OneLife, RecordMatchesLoop, Queued
<1> QED
  BY <1>1, <1>2 DEF SafetyInv

\* The same four facts about any decision that starts or ends no thread.
LEMMA RecordSafe ==
    ASSUME SafetyInv, TypeOK', loop' # "launch",
           UNCHANGED <<inflight, worker, done>>,
           broken => broken',
           Accounting' => Accounting,
           \A s \in Steps : status[s] \in Terminal \/ s \in inflight => status'[s] = status[s],
           \A s \in Steps : status'[s] \in Worked =>
               status[s] \in Worked \/ \A n \in Needs[s] : Satisfied(s, n),
           \A s \in Steps : status'[s] = "running" => status[s] = "running",
           \A s \in Steps : status'[s] = "waiting" <=> s \in waiting'
    PROVE  SafetyInv'
PROOF
<1>1. NeedsMet'
  BY NeedsKept DEF SafetyInv
<1>2. OneLife'
  <2>1. CASE Accounting'
    BY <2>1 DEF SafetyInv, OneLife, Queued, TypeOK
  <2> QED
    BY <2>1 DEF OneLife
<1>3. RecordMatchesLoop'
  BY DEF SafetyInv, RecordMatchesLoop
<1> QED
  BY <1>1, <1>2, <1>3 DEF SafetyInv, CursorReady

-----------------------------------------------------------------------------
(* The loop.                                                               *)

\* Decisions that write only where the loop is, and tokens.
LEMMA WalkSafe ==
    ASSUME SafetyInv, TypeOK',
           \/ PassOver \/ ReadyToLaunch \/ NoRoom \/ EndPass \/ TakeNothing \/ EnforceDeadlines
           \/ Settled \/ EndTurn \/ Interrupt \/ Close \/ EndDrain \/ EndLeftover \/ Cleanup
           \/ Ended \/ \E s \in Steps : SettleOverdue(s)
    PROVE  SafetyInv'
PROOF
<1> USE DEF recordVars, timeVars, tokenVars, threadVars, loopVars, Accounting
<1>1. CASE PassOver
  BY <1>1, QuietSafe DEF PassOver, CursorReady
<1>2. CASE ReadyToLaunch
  <2>1. \A n \in Needs[cursor] : Satisfied(cursor, n)
    BY <1>2 DEF ReadyToLaunch, Readiness, Ready
  <2>2. CursorReady'
    BY <1>2, <2>1 DEF ReadyToLaunch, CursorReady, Satisfied
  <2> QED
    BY <1>2, <2>2, QuietSafe DEF ReadyToLaunch
<1>3. CASE NoRoom
  BY <1>3, QuietSafe DEF NoRoom, CursorReady
<1>4. CASE EndPass
  BY <1>4, QuietSafe DEF EndPass, CursorReady
<1>5. CASE TakeNothing
  BY <1>5, QuietSafe DEF TakeNothing, CursorReady
<1>6. CASE EnforceDeadlines
  BY <1>6, QuietSafe DEF EnforceDeadlines, CursorReady
<1>7. CASE Settled
  BY <1>7, QuietSafe DEF Settled, CursorReady
<1>8. CASE EndTurn
  BY <1>8, QuietSafe DEF EndTurn, CursorReady
<1>9. CASE Interrupt
  BY <1>9, QuietSafe DEF Interrupt, CursorReady
<1>10. CASE Close
  BY <1>10, QuietSafe DEF Close, CursorReady
<1>11. CASE EndDrain
  BY <1>11, QuietSafe DEF EndDrain, CursorReady
<1>12. CASE EndLeftover
  BY <1>12, QuietSafe DEF EndLeftover, CursorReady
<1>13. CASE Cleanup
  BY <1>13, QuietSafe DEF Cleanup, CursorReady
<1>14. CASE Ended
  BY <1>14, QuietSafe DEF Ended, vars, CursorReady
<1>15. ASSUME NEW s \in Steps, SettleOverdue(s)
       PROVE  SafetyInv'
  BY <1>15, QuietSafe DEF SettleOverdue, CursorReady
<1> QED
  BY <1>1, <1>2, <1>3, <1>4, <1>5, <1>6, <1>7, <1>8, <1>9, <1>10, <1>11, <1>12, <1>13, <1>14, <1>15

\* Decisions that write the record of steps no thread works on.
LEMMA DecisionSafe ==
    ASSUME SafetyInv, TypeOK',
           \/ BeginTurn \/ ResolveUnrun
           \/ \E s \in Steps : ExpireWaiting(s) \/ GiveUp(s)
    PROVE  SafetyInv'
PROOF
<1> USE DEF recordVars, timeVars, tokenVars, threadVars, loopVars, Accounting
<1>0. \A s \in Steps : /\ s \in waiting <=> status[s] = "waiting"
                       /\ Accounting /\ s \in inflight => status[s] = "running"
  BY DEF SafetyInv, RecordMatchesLoop, OneLife
<1>1. CASE BeginTurn
  <2>1. loop' # "launch" /\ broken' = broken /\ UNCHANGED <<inflight, worker, done>>
        /\ Accounting
    BY <1>1 DEF BeginTurn, Woken
  <2>2. \A s \in Steps : \/ status'[s] = status[s] /\ (s \in waiting <=> s \in waiting')
                         \/ s \in waiting /\ s \notin waiting' /\ status'[s] = "pending"
    BY <1>1 DEF BeginTurn, Woken
  <2>3. \A s \in Steps : s \in waiting' <=> status'[s] = "waiting"
    BY <1>0, <2>2
  <2>4. \A s \in Steps : status[s] \in Terminal \/ s \in inflight => status'[s] = status[s]
    BY <1>0, <2>1, <2>2 DEF Terminal
  <2>5. \A s \in Steps : /\ status'[s] \in Worked => status[s] \in Worked
                         /\ status'[s] = "running" => status[s] = "running"
    BY <2>2 DEF Worked
  <2> QED
    BY <2>1, <2>3, <2>4, <2>5, RecordSafe
<1>2. CASE ResolveUnrun
  <2>1. loop' # "launch" /\ (broken => broken') /\ UNCHANGED <<inflight, worker, done, waiting>>
        /\ Accounting /\ cursor \in Steps /\ status[cursor] = "pending" /\ cursor \notin inflight
    BY <1>2 DEF ResolveUnrun, Saved
  <2>2. PICK v \in Readiness(cursor) \cap Terminal : status' = [status EXCEPT ![cursor] = v]
    BY <1>2 DEF ResolveUnrun
  <2>3. v \in {"cancelled", "skipped"} \/ \A n \in Needs[cursor] : Satisfied(cursor, n)
    BY <2>2 DEF Readiness, Ready, Terminal
  <2>4. \A s \in Steps : status'[s] = IF s = cursor THEN v ELSE status[s]
    BY <2>2 DEF SafetyInv, TypeOK
  <2>5. \A s \in Steps : s \in waiting' <=> status'[s] = "waiting"
    BY <1>0, <2>1, <2>2, <2>4 DEF Terminal
  <2>6. \A s \in Steps : status[s] \in Terminal \/ s \in inflight => status'[s] = status[s]
    BY <2>1, <2>4 DEF Terminal
  <2>7. \A s \in Steps : status'[s] \in Worked =>
            status[s] \in Worked \/ \A n \in Needs[s] : Satisfied(s, n)
    BY <2>3, <2>4 DEF Worked
  <2>8. \A s \in Steps : status'[s] = "running" => status[s] = "running"
    BY <2>2, <2>4 DEF Terminal
  <2> QED
    BY <2>1, <2>5, <2>6, <2>7, <2>8, RecordSafe
<1>3. ASSUME NEW s \in Steps, ExpireWaiting(s)
      PROVE  SafetyInv'
  <2>1. loop' # "launch" /\ (broken => broken') /\ UNCHANGED <<inflight, worker, done>>
        /\ Accounting /\ status[s] = "waiting" /\ waiting' = waiting \ {s}
    BY <1>0, <1>3 DEF ExpireWaiting, Saved
  <2>2. \A t \in Steps : status'[t] = IF t = s THEN "timeout" ELSE status[t]
    BY <1>3 DEF ExpireWaiting, SafetyInv, TypeOK
  <2>3. \A t \in Steps : t \in waiting' <=> status'[t] = "waiting"
    BY <1>0, <2>1, <2>2
  <2>4. \A t \in Steps : status[t] \in Terminal \/ t \in inflight => status'[t] = status[t]
    BY <1>0, <2>1, <2>2 DEF Terminal
  <2>5. \A t \in Steps : /\ status'[t] \in Worked => status[t] \in Worked
                         /\ status'[t] = "running" => status[t] = "running"
    BY <2>1, <2>2 DEF Worked
  <2> QED
    BY <2>1, <2>3, <2>4, <2>5, RecordSafe
<1>4. ASSUME NEW s \in Steps, GiveUp(s)
      PROVE  SafetyInv'
  <2>1. loop = "leftover" /\ loop' # "launch" /\ (broken => broken') /\ ~Accounting'
        /\ UNCHANGED <<inflight, worker, done>> /\ waiting' = waiting \ {s}
        /\ (s \in waiting \/ status[s] = "pending")
    BY <1>4 DEF GiveUp, Remaining, Saved
  <2>2. PICK v \in {"cancelled", "timeout"} : /\ status' = [status EXCEPT ![s] = v]
                                              /\ v = "timeout" => s \in waiting
    BY <1>4 DEF GiveUp, Remaining
  <2>3. \A t \in Steps : status'[t] = IF t = s THEN v ELSE status[t]
    BY <2>2 DEF SafetyInv, TypeOK
  <2>4. \A t \in Steps : t \in waiting' <=> status'[t] = "waiting"
    BY <1>0, <2>1, <2>3
  <2>5. \A t \in Steps : status[t] \in Terminal => status'[t] = status[t]
    BY <1>0, <2>1, <2>3 DEF Terminal
  <2>6. \A t \in Steps : status'[t] \in Worked => status[t] \in Worked
    BY <1>0, <2>2, <2>3 DEF Worked
  <2>7. NeedsMet'
    BY <2>5, <2>6, NeedsKept DEF SafetyInv
  <2> QED
    BY <2>1, <2>4, <2>7 DEF SafetyInv, OneLife, RecordMatchesLoop, CursorReady
<1> QED
  BY <1>1, <1>2, <1>3, <1>4

\* A step starts: it was idle, and everything it needs is over.
LEMMA LaunchSafe ==
    ASSUME SafetyInv, TypeOK', Launch
    PROVE  SafetyInv'
PROOF
<1> USE DEF recordVars, timeVars, tokenVars, threadVars, Accounting
<1>1. /\ cursor \in Steps /\ status[cursor] = "pending" /\ cursor \notin inflight
      /\ \A n \in Needs[cursor] : Satisfied(cursor, n)
      /\ Accounting
  BY DEF Launch, SafetyInv, CursorReady, TypeOK
<1>2. /\ \A s \in Steps : status'[s] = IF s = cursor THEN "running" ELSE status[s]
      /\ inflight' = inflight \cup {cursor}
      /\ UNCHANGED <<waiting, done>>
      /\ loop' # "launch" /\ (broken => broken')
  BY DEF Launch, Saved, SafetyInv, TypeOK
<1>3. /\ \A s \in Steps : s # cursor => worker'[s] = worker[s]
      /\ worker'[cursor] # "none" \/ broken'
  BY <1>1 DEF Launch, SafetyInv, TypeOK
<1>4. NeedsMet'
  <2>1. \A s \in Steps : status[s] \in Terminal => status'[s] = status[s]
    BY <1>1, <1>2 DEF Terminal
  <2>2. \A s \in Steps : status'[s] \in Worked =>
            status[s] \in Worked \/ \A n \in Needs[s] : Satisfied(s, n)
    BY <1>1, <1>2
  <2> QED
    BY <2>1, <2>2, NeedsKept DEF SafetyInv
<1>5. OneLife'
  <2>1. Queued' = Queued /\ cursor \notin Queued
    BY <1>1, <1>2 DEF Queued, SafetyInv, OneLife
  <2>2. \A s \in Steps : worker'[s] # "none" => s \in inflight' \ Queued'
    BY <1>1, <1>2, <1>3, <2>1 DEF SafetyInv, OneLife
  <2>3. \A i, j \in DOMAIN done' : done'[i].step = done'[j].step => i = j
    BY <1>1, <1>2 DEF SafetyInv, OneLife
  <2>4. \A s \in inflight' : /\ status'[s] = "running"
                             /\ worker'[s] # "none" \/ s \in Queued' \/ broken'
    BY <1>1, <1>2, <1>3, <2>1 DEF SafetyInv, OneLife, TypeOK
  <2> QED
    BY <1>1, <1>2, <2>1, <2>2, <2>3, <2>4 DEF SafetyInv, OneLife
<1>6. RecordMatchesLoop'
  BY <1>1, <1>2 DEF SafetyInv, RecordMatchesLoop
<1> QED
  BY <1>2, <1>4, <1>5, <1>6 DEF SafetyInv, CursorReady

\* The end of the grace period: what is still in flight gets its verdict.
LEMMA GiveUpInflightSafe ==
    ASSUME SafetyInv, TypeOK', GiveUpInflight
    PROVE  SafetyInv'
PROOF
<1> USE DEF recordVars, timeVars, tokenVars, threadVars, Accounting
<1>1. \A s \in inflight : status[s] = "running"
  BY DEF GiveUpInflight, SafetyInv, OneLife
<1>2. /\ \A s \in Steps : status'[s] = IF s \notin inflight THEN status[s]
                                      ELSE IF s \in told THEN "timeout" ELSE "cancelled"
      /\ waiting' = waiting /\ loop' = "leftover"
  BY DEF GiveUpInflight
<1>3. NeedsMet'
  <2>1. \A s \in Steps : status[s] \in Terminal => status'[s] = status[s]
    BY <1>1, <1>2 DEF Terminal
  <2>2. \A s \in Steps : status'[s] \in Worked => status[s] \in Worked
    BY <1>1, <1>2 DEF Worked
  <2> QED
    BY <2>1, <2>2, NeedsKept DEF SafetyInv
<1>4. \A s \in Steps : s \in waiting' <=> status'[s] = "waiting"
  BY <1>1, <1>2 DEF SafetyInv, RecordMatchesLoop
<1> QED
  BY <1>2, <1>3, <1>4 DEF SafetyInv, OneLife, RecordMatchesLoop, CursorReady

-----------------------------------------------------------------------------
(* Writing down a result.                                                  *)

\* What waits for a step that starts over, and has begun, starts over too: it
\* lies downstream of the plan, and revisions.apply found nothing begun there.
LEMMA ReopenKeepsNeeds ==
    ASSUME SafetyInv, NEW g \in Gates, NEW flying, MayRevise(g, flying), status' =
               [s \in Steps |-> IF s \in Revisited(g) THEN "pending" ELSE status[s]]
    PROVE  NeedsMet'
PROOF
<1>0. g \in Steps /\ PlanOf[g] \in Upstream({g}) /\ PlanOf[g] \in Steps
  BY SchedulerAssumption DEF Gates, Upstream
<1>1. Revisited(g) \subseteq Downstream({PlanOf[g]})
  <2>1. g \in Downstream({PlanOf[g]})
    BY <1>0, UpstreamIsDownstream
  <2> QED
    BY <2>1 DEF Revisited, PathBack
<1>2. ClosedForward(Downstream({PlanOf[g]}))
  BY <1>0, DownstreamClosed
<1> SUFFICES ASSUME NEW s \in Steps, status'[s] \in Worked, NEW n \in Needs[s]
             PROVE  Satisfied(s, n)'
  BY DEF NeedsMet, Worked
<1>3. n \in Steps
  BY NeedsAssumption
<1>4. s \notin Revisited(g) /\ status'[s] = status[s]
  BY DEF Worked
<1>5. s \notin Downstream({PlanOf[g]})
  BY <1>4 DEF MayRevise, Worked
<1>6. n \notin Revisited(g)
  BY <1>1, <1>2, <1>5 DEF ClosedForward
<1>7. Satisfied(s, n)
  BY <1>4 DEF SafetyInv, NeedsMet, Worked
<1> QED
  BY <1>3, <1>6, <1>7 DEF Satisfied

\* The loop takes a result off its queue and writes it down.
LEMMA RecordKeeps ==
    ASSUME SafetyInv, TypeOK', NEW next \in {"enforce", "drain"}, Record(next), Accounting
    PROVE  SafetyInv'
PROOF
<1>1. PICK s \in Steps, r \in Results : Recorded(s, r, next)
  <2>1. next \in LoopStates \ {"launch"}
    BY DEF LoopStates
  <2> QED
    BY <2>1, RecordShape DEF SafetyInv
<1>2. /\ Queued' = Queued \ {s} /\ s \in Queued /\ OneResult'
      /\ s \in inflight /\ s \notin waiting /\ status[s] = "running" /\ worker[s] = "none"
  <2>1. done # <<>> /\ done' = Tail(done) /\ s = Head(done).step
    BY <1>1 DEF Recorded
  <2>2. Queued' = Queued \ {s} /\ s \in Queued /\ OneResult'
    BY <2>1, TailOfQueue DEF SafetyInv, OneLife, OneResult
  <2> QED
    BY <2>2 DEF SafetyInv, OneLife, RecordMatchesLoop
<1>3. inflight' = inflight \ {s} /\ worker' = worker
  BY <1>1 DEF Recorded, threadVars
<1>4. CASE Conclude(s, r, next) /\ (TokenSet(s) \/ r \notin {"revise", "unfinished"})
  <2>1. PICK v \in Terminal : status' = [status EXCEPT ![s] = v]
    BY <1>4, VerdictType DEF Conclude
  <2>2. \A t \in Steps : status'[t] = IF t = s THEN v ELSE status[t]
    BY <2>1 DEF SafetyInv, TypeOK
  <2>3. waiting' = waiting /\ loop' # "launch" /\ (broken => broken')
    BY <1>4 DEF Conclude, Saved
  <2>4. NeedsMet'
    <3>1. \A t \in Steps : status[t] \in Terminal => status'[t] = status[t]
      BY <1>2, <2>2 DEF Terminal
    <3>2. \A t \in Steps : status'[t] \in Worked => status[t] \in Worked
      BY <1>2, <2>2 DEF Worked
    <3> QED
      BY <3>1, <3>2, NeedsKept DEF SafetyInv
  <2>5. OneLife'
    <3>1. \A t \in Steps : worker'[t] # "none" => t \in inflight' \ Queued'
      BY <1>2, <1>3 DEF SafetyInv, OneLife
    <3>2. \A t \in inflight' : /\ status'[t] = "running"
                               /\ worker'[t] # "none" \/ t \in Queued' \/ broken'
      BY <1>2, <1>3, <2>2, <2>3 DEF SafetyInv, OneLife, TypeOK
    <3>3. Queued' \subseteq inflight'
      BY <1>2, <1>3 DEF SafetyInv, OneLife
    <3> QED
      BY <1>2, <3>1, <3>2, <3>3 DEF OneLife, OneResult
  <2>6. RecordMatchesLoop'
    BY <1>2, <1>3, <2>1, <2>2, <2>3 DEF SafetyInv, RecordMatchesLoop, Terminal
  <2> QED
    BY <2>3, <2>4, <2>5, <2>6 DEF SafetyInv, CursorReady
<1>5. CASE Park(s, next)
  <2>1. \A t \in Steps : status'[t] = IF t = s THEN "waiting" ELSE status[t]
    BY <1>5 DEF Park, SafetyInv, TypeOK
  <2>2. waiting' = waiting \cup {s} /\ loop' # "launch" /\ (broken => broken')
    BY <1>5 DEF Park, Saved
  <2>3. NeedsMet'
    <3>1. \A t \in Steps : status[t] \in Terminal => status'[t] = status[t]
      BY <1>2, <2>1 DEF Terminal
    <3>2. \A t \in Steps : status'[t] \in Worked => status[t] \in Worked
      BY <1>2, <2>1 DEF Worked
    <3> QED
      BY <3>1, <3>2, NeedsKept DEF SafetyInv
  <2>4. OneLife'
    <3>1. \A t \in Steps : worker'[t] # "none" => t \in inflight' \ Queued'
      BY <1>2, <1>3 DEF SafetyInv, OneLife
    <3>2. \A t \in inflight' : /\ status'[t] = "running"
                               /\ worker'[t] # "none" \/ t \in Queued' \/ broken'
      BY <1>2, <1>3, <2>1, <2>2 DEF SafetyInv, OneLife, TypeOK
    <3>3. Queued' \subseteq inflight'
      BY <1>2, <1>3 DEF SafetyInv, OneLife
    <3> QED
      BY <1>2, <3>1, <3>2, <3>3 DEF OneLife, OneResult
  <2>5. RecordMatchesLoop'
    BY <1>2, <1>3, <2>1, <2>2 DEF SafetyInv, RecordMatchesLoop
  <2> QED
    BY <2>2, <2>3, <2>4, <2>5 DEF SafetyInv, CursorReady
<1>6. CASE MayRevise(s, inflight \ {s}) /\ Reopen(s, next)
  <2>1. s \in Gates /\ Revisited(s) \cap (inflight \ {s}) = {} /\ s \in Revisited(s)
    BY <1>6 DEF MayRevise, Revisited, PathBack
  <2>2. loop' # "launch" /\ (broken => broken')
    BY <1>6 DEF Reopen, Saved
  <2>3. CASE broken'
    <3>1. status' = status /\ waiting' = waiting
      BY <1>6, <2>3 DEF Reopen
    <3>2. NeedsMet'
      BY <3>1, NeedsKept DEF SafetyInv
    <3>3. OneLife'
      BY <1>2, <1>3, <2>3, <3>1 DEF SafetyInv, OneLife, OneResult
    <3> QED
      BY <2>2, <2>3, <3>1, <3>2, <3>3 DEF SafetyInv, RecordMatchesLoop, CursorReady
  <2>4. CASE ~broken'
    <3>1. /\ status' = [t \in Steps |-> IF t \in Revisited(s) THEN "pending" ELSE status[t]]
          /\ waiting' = waiting \ Revisited(s)
      BY <1>6, <2>4 DEF Reopen
    <3>2. NeedsMet'
      BY <1>6, <2>1, <3>1, ReopenKeepsNeeds
    <3>3. OneLife'
      <4>1. \A t \in Steps : worker'[t] # "none" => t \in inflight' \ Queued'
        BY <1>2, <1>3 DEF SafetyInv, OneLife
      <4>2. \A t \in inflight' : /\ status'[t] = "running"
                                 /\ worker'[t] # "none" \/ t \in Queued' \/ broken'
        BY <1>2, <1>3, <2>1, <2>2, <3>1 DEF SafetyInv, OneLife, TypeOK
      <4>3. Queued' \subseteq inflight'
        BY <1>2, <1>3 DEF SafetyInv, OneLife
      <4> QED
        BY <1>2, <4>1, <4>2, <4>3 DEF OneLife, OneResult
    <3>4. RecordMatchesLoop'
      BY <1>2, <1>3, <2>1, <2>2, <3>1 DEF SafetyInv, RecordMatchesLoop, Accounting
    <3> QED
      BY <2>2, <3>2, <3>3, <3>4 DEF SafetyInv, CursorReady
  <2> QED
    BY <2>3, <2>4
<1> QED
  BY <1>1, <1>4, <1>5, <1>6 DEF Recorded

-----------------------------------------------------------------------------
(* The workers and everybody else.                                         *)

\* A worker touches no record: it moves on, or puts the one result of its step.
LEMMA WorkSafe ==
    ASSUME SafetyInv, TypeOK', NEW s \in Steps, Work(s)
    PROVE  SafetyInv'
PROOF
<1> USE DEF recordVars, timeVars, tokenVars, loopVars
<1>1. UNCHANGED <<status, inflight, waiting, loop, cursor, broken>> /\ worker[s] # "none"
  BY DEF Work, EnterRefused, Enter, Prepare, BeginAttempt, Return, Backoff, Leave, Put
<1>2. NeedsMet' /\ RecordMatchesLoop' /\ CursorReady'
  BY <1>1 DEF SafetyInv, NeedsMet, RecordMatchesLoop, CursorReady, Satisfied, Accounting
<1>3. ASSUME Accounting
      PROVE  OneLife'
  <2>1. s \in inflight \ Queued
    BY <1>1, <1>3 DEF SafetyInv, OneLife
  <2>2. CASE /\ done' = done
             /\ \E w \in WorkerStates \ {"none"} : worker' = [worker EXCEPT ![s] = w]
    <3>1. Queued' = Queued
      BY <2>2 DEF Queued
    <3>2. \A t \in Steps : worker'[t] # "none" => t \in inflight' \ Queued'
      BY <1>1, <1>3, <2>1, <2>2, <3>1 DEF SafetyInv, OneLife, TypeOK
    <3>3. \A t \in inflight' : /\ status'[t] = "running"
                               /\ worker'[t] # "none" \/ t \in Queued' \/ broken'
      BY <1>1, <1>3, <2>1, <2>2, <3>1 DEF SafetyInv, OneLife, TypeOK
    <3> QED
      BY <1>1, <1>3, <2>2, <3>1, <3>2, <3>3 DEF SafetyInv, OneLife
  <2>3. CASE /\ done' = Append(done, [step |-> s, result |-> outcome[s]])
             /\ worker' = [worker EXCEPT ![s] = "none"]
    <3>1. Queued' = Queued \cup {s} /\ OneResult'
      <4>1. outcome[s] \in Results /\ OneResult
        BY <1>3 DEF SafetyInv, TypeOK, OneLife, OneResult
      <4> QED
        BY <2>1, <2>3, <4>1, AppendToQueue DEF SafetyInv
    <3>2. \A t \in Steps : worker'[t] = IF t = s THEN "none" ELSE worker[t]
      BY <2>3 DEF SafetyInv, TypeOK
    <3>3. \A t \in Steps : worker'[t] # "none" => t \in inflight' \ Queued'
      BY <1>1, <1>3, <3>1, <3>2 DEF SafetyInv, OneLife
    <3>4. \A t \in inflight' : /\ status'[t] = "running"
                               /\ worker'[t] # "none" \/ t \in Queued' \/ broken'
      BY <1>1, <1>3, <3>1, <3>2 DEF SafetyInv, OneLife, TypeOK
    <3>5. Queued' \subseteq inflight'
      BY <1>1, <1>3, <2>1, <3>1 DEF SafetyInv, OneLife
    <3> QED
      BY <3>1, <3>3, <3>4, <3>5 DEF OneLife, OneResult
  <2>4. \/ /\ done' = done
           /\ \E w \in WorkerStates \ {"none"} : worker' = [worker EXCEPT ![s] = w]
        \/ /\ done' = Append(done, [step |-> s, result |-> outcome[s]])
           /\ worker' = [worker EXCEPT ![s] = "none"]
    BY DEF Work, EnterRefused, Enter, Prepare, BeginAttempt, Return, Backoff, Leave, Put, WorkerStates
  <2> QED
    BY <2>2, <2>3, <2>4
<1> QED
  BY <1>1, <1>2, <1>3 DEF SafetyInv, OneLife, Accounting

\* A clock, a person or the control thread changes no record and no thread.
LEMMA EnvironmentSafe ==
    ASSUME SafetyInv, TypeOK', Environment
    PROVE  SafetyInv'
PROOF
<1> USE DEF recordVars, timeVars, tokenVars, threadVars, loopVars
<1>1. CASE Interrupt
  BY <1>1, WalkSafe
<1>2. ASSUME ~Interrupt
      PROVE  UNCHANGED <<status, inflight, waiting, worker, done, loop, cursor, broken>>
  BY <1>2 DEF Environment, PressStop, Expire, WaitOver, Answer
<1>3. ASSUME ~Interrupt
      PROVE  CursorReady' /\ (Accounting' => Accounting)
  BY <1>2, <1>3 DEF SafetyInv, CursorReady, Satisfied, Accounting
<1> QED
  BY <1>1, <1>2, <1>3, QuietSafe

-----------------------------------------------------------------------------
(* The theorems.                                                           *)

\* The invariant is inductive.
THEOREM SafetyInvariant == Spec => []SafetyInv
PROOF
<1>1. Init => SafetyInv
  <2> SUFFICES ASSUME Init PROVE SafetyInv
    OBVIOUS
  <2>1. TypeOK
    BY InitType
  <2>2. Queued = {} /\ DOMAIN done = {}
    BY DEF Init, Queued
  <2>3. OneLife
    BY <2>2 DEF Init, OneLife
  <2> QED
    BY <2>1, <2>3 DEF Init, SafetyInv, RecordMatchesLoop, NeedsMet, CursorReady
<1>2. SafetyInv /\ [Next]_vars => SafetyInv'
  <2> SUFFICES ASSUME SafetyInv, [Next]_vars PROVE SafetyInv'
    OBVIOUS
  <2>1. TypeOK'
    BY StepType DEF SafetyInv
  <2>2. CASE Take \/ Drain
    BY <2>1, <2>2, RecordKeeps DEF Take, Drain, Accounting
  <2>3. CASE Launch
    BY <2>1, <2>3, LaunchSafe
  <2>4. CASE GiveUpInflight
    BY <2>1, <2>4, GiveUpInflightSafe
  <2>5. CASE Loop /\ ~(Take \/ Drain \/ Launch \/ GiveUpInflight)
    BY <2>1, <2>5, WalkSafe, DecisionSafe DEF Loop
  <2>6. CASE Environment
    BY <2>1, <2>6, EnvironmentSafe
  <2>7. CASE Ended
    BY <2>1, <2>7, WalkSafe
  <2>8. ASSUME NEW s \in Steps, Work(s) PROVE SafetyInv'
    BY <2>1, <2>8, WorkSafe
  <2>9. CASE UNCHANGED vars
    <3>1. CursorReady' /\ (Accounting' => Accounting)
      BY <2>9 DEF vars, recordVars, loopVars, SafetyInv, CursorReady, Satisfied, Accounting
    <3> QED
      BY <2>1, <2>9, <3>1, QuietSafe DEF vars, recordVars, threadVars, loopVars
  <2> QED
    BY <2>2, <2>3, <2>4, <2>5, <2>6, <2>7, <2>8, <2>9 DEF Next
<1> QED
  BY <1>1, <1>2, PTL DEF Spec

\* A step in flight is the step's only life: one worker or one result.
THEOREM OneLifeHolds == Spec => []OneLife
PROOF
<1>1. SafetyInv => OneLife
  BY DEF SafetyInv
<1> QED
  BY <1>1, SafetyInvariant, PTL

\* No step works whose needs are not met, also after a plan was sent back.
THEOREM NeedsMetHolds == Spec => []NeedsMet
PROOF
<1>1. SafetyInv => NeedsMet
  BY DEF SafetyInv
<1> QED
  BY <1>1, SafetyInvariant, PTL

\* The record of a step and what the loop keeps about it never part.
THEOREM RecordMatchesLoopHolds == Spec => []RecordMatchesLoop
PROOF
<1>1. SafetyInv => RecordMatchesLoop
  BY DEF SafetyInv
<1> QED
  BY <1>1, SafetyInvariant, PTL

-----------------------------------------------------------------------------
(* Concurrency groups, verdicts and the pool, for every cycle.             *)
(*                                                                         *)
(* The semaphore of a group excludes, and a worker reports, as long as no  *)
(* member of a group can be refused its restriction: _work releases the    *)
(* semaphore also when the refusal came before it was taken.  The run      *)
(* SchedulerRefusedHang shows what happens to a member that is refused;    *)
(* this is the exact condition under which it cannot.                      *)

\* A worker that took the semaphore of its group and has not released it.
Holding(s) == Inside(s) \/ worker[s] = "leave"

GroupInv ==
    /\ \A s \in Steps : worker[s] # "dead"
    /\ \A s \in DOMAIN GroupOf : worker[s] # "refused"
    /\ \A s \in DOMAIN GroupOf : Holding(s) => ~free[GroupOf[s]]
    /\ \A s, t \in DOMAIN GroupOf :
           s # t /\ GroupOf[s] = GroupOf[t] => ~(Holding(s) /\ Holding(t))

\* Nothing but a start and a worker's own step touches a thread or a semaphore.
LEMMA ThreadsLeftAlone ==
    ASSUME Next, ~Launch, \A s \in Steps : ~Work(s)
    PROVE  UNCHANGED <<worker, free>>
PROOF
<1> USE DEF threadVars
<1>1. CASE Loop
  BY <1>1 DEF Loop, BeginTurn, Woken, PassOver, ResolveUnrun, ReadyToLaunch, NoRoom, EndPass, Take,
        Drain, Record, TakeNothing, EnforceDeadlines, Settled, EndTurn, SettleOverdue, ExpireWaiting,
        GiveUp, Remaining, Close, EndDrain, GiveUpInflight, EndLeftover, Cleanup
<1>2. CASE Environment
  BY <1>2 DEF Environment, PressStop, Interrupt, Expire, WaitOver, Answer
<1>3. CASE Ended
  BY <1>3 DEF Ended, vars
<1> QED
  BY <1>1, <1>2, <1>3 DEF Next

\* A step of a group starts outside it.
LEMMA LaunchKeepsGroups ==
    ASSUME Confined \cap DOMAIN GroupOf = {}, SafetyInv, GroupInv, Launch
    PROVE  GroupInv'
PROOF
<1>1. cursor \in Steps
  BY DEF Launch, SafetyInv, TypeOK
<1>2. free' = free
  BY DEF Launch
<1>3. \/ worker' = worker
      \/ \E entry \in {"enter", "refused"} :
            /\ worker' = [worker EXCEPT ![cursor] = entry]
            /\ cursor \in DOMAIN GroupOf => entry = "enter"
  BY DEF Launch
<1>4. worker \in [Steps -> WorkerStates] /\ DOMAIN GroupOf \subseteq Steps
  BY SchedulerAssumption DEF SafetyInv, TypeOK
<1>5. \A s \in DOMAIN GroupOf : Holding(s)' => Holding(s)
  BY <1>3, <1>4 DEF Holding, Inside
<1>6. \A s \in Steps : worker'[s] # "dead"
  BY <1>1, <1>3, <1>4 DEF GroupInv
<1>7. \A s \in DOMAIN GroupOf : worker'[s] # "refused"
  BY <1>1, <1>3, <1>4 DEF GroupInv
<1> QED
  BY <1>2, <1>5, <1>6, <1>7 DEF GroupInv

\* A worker takes the semaphore when it is free, keeps it to the end of its
\* turn, and releases the one it holds.
LEMMA WorkKeepsGroups ==
    ASSUME SafetyInv, GroupInv, NEW s \in Steps, Work(s)
    PROVE  GroupInv'
PROOF
<1>0. worker \in [Steps -> WorkerStates] /\ free \in [Groups -> BOOLEAN]
      /\ DOMAIN GroupOf \subseteq Steps
  BY SchedulerAssumption DEF SafetyInv, TypeOK
<1>00. \A t \in DOMAIN GroupOf : GroupOf[t] \in Groups
  BY DEF Groups
<1>1. CASE Enter(s)
  <2>1. \A t \in Steps : worker'[t] = IF t = s THEN "prepare" ELSE worker[t]
    BY <1>0, <1>1 DEF Enter
  <2>2. free' = [g \in Groups |-> free[g] /\ ~(Grouped(s) /\ GroupOf[s] = g)]
    BY <1>1 DEF Enter
  <2>3. \A t \in DOMAIN GroupOf : Holding(t)' => Holding(t) \/ t = s
    BY <1>0, <2>1 DEF Holding, Inside
  <2>4. s \in DOMAIN GroupOf =>
            \A t \in DOMAIN GroupOf : GroupOf[t] = GroupOf[s] => ~Holding(t)
    BY <1>1 DEF Enter, MayEnter, Grouped, GroupInv
  <2>5. \A t \in DOMAIN GroupOf : Holding(t)' => ~free'[GroupOf[t]]
    BY <1>00, <2>2, <2>3 DEF GroupInv, Grouped
  <2>6. \A t, u \in DOMAIN GroupOf :
            t # u /\ GroupOf[t] = GroupOf[u] => ~(Holding(t)' /\ Holding(u)')
    BY <2>3, <2>4 DEF GroupInv
  <2>7. /\ \A t \in Steps : worker'[t] # "dead"
        /\ \A t \in DOMAIN GroupOf : worker'[t] # "refused"
    BY <1>0, <2>1 DEF GroupInv
  <2> QED
    BY <2>5, <2>6, <2>7 DEF GroupInv
<1>2. CASE Leave(s)
  <2>1. s \in DOMAIN GroupOf => ~free[GroupOf[s]]
    BY <1>2 DEF Leave, Put, GroupInv, Holding
  <2>2. /\ worker' = [worker EXCEPT ![s] = "none"]
        /\ free' = [g \in Groups |-> free[g] \/ (Grouped(s) /\ GroupOf[s] = g)]
    BY <1>2, <2>1 DEF Leave, Put, Grouped
  <2>3. \A t \in Steps : worker'[t] = IF t = s THEN "none" ELSE worker[t]
    BY <1>0, <2>2
  <2>4. \A t \in DOMAIN GroupOf : Holding(t)' => Holding(t) /\ t # s
    BY <1>0, <2>3 DEF Holding, Inside
  <2>5. Holding(s)
    BY <1>2 DEF Leave, Put, Holding
  <2>6. \A t \in DOMAIN GroupOf : Holding(t)' => ~free'[GroupOf[t]]
    BY <1>00, <2>2, <2>4, <2>5 DEF GroupInv, Grouped
  <2>7. /\ \A t \in Steps : worker'[t] # "dead"
        /\ \A t \in DOMAIN GroupOf : worker'[t] # "refused"
    BY <1>0, <2>3 DEF GroupInv
  <2> QED
    BY <2>4, <2>6, <2>7 DEF GroupInv
<1>3. CASE EnterRefused(s) \/ Prepare(s) \/ BeginAttempt(s) \/ Return(s) \/ Backoff(s)
  <2>1. /\ free' = free
        /\ \E w \in {"leave", "attempt", "executing", "backoff"} :
              worker' = [worker EXCEPT ![s] = w]
        /\ s \in DOMAIN GroupOf => Holding(s)
    BY <1>3 DEF EnterRefused, Prepare, BeginAttempt, Return, Backoff, Holding, Inside, GroupInv,
          threadVars
  <2>2. PICK w \in {"leave", "attempt", "executing", "backoff"} :
            \A t \in Steps : worker'[t] = IF t = s THEN w ELSE worker[t]
    BY <1>0, <2>1
  <2>3. \A t \in DOMAIN GroupOf : Holding(t)' => Holding(t)
    BY <1>0, <2>1, <2>2 DEF Holding, Inside
  <2>4. /\ \A t \in Steps : worker'[t] # "dead"
        /\ \A t \in DOMAIN GroupOf : worker'[t] # "refused"
    BY <1>0, <2>2 DEF GroupInv
  <2> QED
    BY <2>1, <2>3, <2>4 DEF GroupInv
<1> QED
  BY <1>1, <1>2, <1>3 DEF Work

\* Two members of a group are never both inside their plugin, and every worker
\* puts its result, when no member of a group can be refused its restriction.
THEOREM GroupsExclude ==
    ASSUME Confined \cap DOMAIN GroupOf = {}
    PROVE  Spec => [](GroupExclusion /\ AlwaysReports)
PROOF
<1>1. Init => GroupInv
  BY SchedulerAssumption DEF Init, GroupInv, Holding, Inside
<1>2. SafetyInv /\ GroupInv /\ [Next]_vars => GroupInv'
  <2> SUFFICES ASSUME SafetyInv, GroupInv, [Next]_vars PROVE GroupInv'
    OBVIOUS
  <2>1. CASE Launch
    BY <2>1, LaunchKeepsGroups
  <2>2. ASSUME NEW s \in Steps, Work(s) PROVE GroupInv'
    BY <2>2, WorkKeepsGroups
  <2>3. CASE UNCHANGED <<worker, free>>
    BY <2>3 DEF GroupInv, Holding, Inside
  <2> QED
    BY <2>1, <2>2, <2>3, ThreadsLeftAlone DEF vars, threadVars
<1>3. GroupInv => GroupExclusion /\ AlwaysReports
  BY DEF GroupInv, GroupExclusion, AlwaysReports, Holding
<1> QED
  BY <1>1, <1>2, <1>3, SafetyInvariant, PTL DEF Spec

-----------------------------------------------------------------------------
(* The pool.                                                               *)

\* Only a start puts a step in flight.
LEMMA FlightsOnlyStart ==
    ASSUME [Next]_vars, ~Launch
    PROVE  inflight' \subseteq inflight
PROOF
<1>1. CASE Loop
  BY <1>1 DEF Loop, BeginTurn, Woken, PassOver, ResolveUnrun, ReadyToLaunch, NoRoom, EndPass, Take,
        Drain, Record, TakeNothing, EnforceDeadlines, Settled, EndTurn, SettleOverdue, ExpireWaiting,
        GiveUp, Remaining, Close, EndDrain, GiveUpInflight, EndLeftover, Cleanup
<1>2. CASE Environment
  BY <1>2 DEF Environment, PressStop, Interrupt, Expire, WaitOver, Answer
<1>3. ASSUME NEW s \in Steps, Work(s)
      PROVE  inflight' \subseteq inflight
  BY <1>3 DEF Work, EnterRefused, Enter, Prepare, BeginAttempt, Return, Backoff, Leave, Put
<1>4. CASE Ended \/ UNCHANGED vars
  BY <1>4 DEF Ended, vars
<1> QED
  BY <1>1, <1>2, <1>3, <1>4 DEF Next

\* The pool never holds more than `jobs` steps, though the loop counts them
\* itself and a step is not out of the count until its result is recorded.
THEOREM PoolBounded == Spec => []PoolBound
PROOF
<1>1. Init => PoolBound
  BY FS_EmptySet, SchedulerAssumption DEF Init, PoolBound
<1>2. SafetyInv /\ PoolBound /\ [Next]_vars => PoolBound'
  <2> SUFFICES ASSUME SafetyInv, PoolBound, [Next]_vars PROVE PoolBound'
    OBVIOUS
  <2>1. IsFiniteSet(inflight) /\ Cardinality(inflight) \in Nat
    <3>1. IsFiniteSet(Steps)
      BY FS_Interval, NAssumption DEF Steps
    <3>2. inflight \subseteq Steps
      BY DEF SafetyInv, TypeOK
    <3> QED
      BY <3>1, <3>2, FS_Subset, FS_CardinalityType
  <2>2. CASE Launch
    <3>1. inflight' = inflight \cup {cursor} /\ cursor \notin inflight /\ Cardinality(inflight) < Jobs
      BY <2>2 DEF Launch, HasRoom, SafetyInv, CursorReady
    <3>2. Cardinality(inflight') = Cardinality(inflight) + 1
      BY <2>1, <3>1, FS_AddElement
    <3> QED
      BY <2>1, <3>1, <3>2, SchedulerAssumption DEF PoolBound
  <2>3. CASE ~Launch
    <3>1. inflight' \subseteq inflight
      BY <2>3, FlightsOnlyStart
    <3>2. Cardinality(inflight') <= Cardinality(inflight) /\ Cardinality(inflight') \in Nat
      BY <2>1, <3>1, FS_Subset, FS_CardinalityType
    <3> QED
      BY <2>1, <3>2, SchedulerAssumption DEF PoolBound
  <2> QED
    BY <2>2, <2>3
<1> QED
  BY <1>1, <1>2, SafetyInvariant, PTL DEF Spec

-----------------------------------------------------------------------------
(* Verdicts.                                                               *)

\* A verdict stands; only sending a plan back reopens a step.
THEOREM VerdictsStand == Spec => VerdictStands
PROOF
<1> DEFINE Stands == \A s \in Steps : status[s] \in Terminal /\ status'[s] # status[s] => revised' # revised
<1>1. SafetyInv /\ Next => Stands
  <2> SUFFICES ASSUME SafetyInv, Next, revised' = revised, NEW s \in Steps, status[s] \in Terminal
               PROVE  status'[s] = status[s]
    OBVIOUS
  <2> USE DEF recordVars
  <2>0. /\ s \notin waiting /\ status \in [Steps -> Statuses]
        /\ Accounting => s \notin inflight
    BY DEF SafetyInv, RecordMatchesLoop, OneLife, Terminal, TypeOK
  <2>1. CASE Take \/ Drain
    <3>1. PICK next \in {"enforce", "drain"} : Record(next) /\ Accounting
      BY <2>1 DEF Take, Drain, Accounting
    <3>2. PICK t \in Steps, r \in Results : Recorded(t, r, next)
      BY <3>1, RecordShape DEF SafetyInv, LoopStates
    <3>3. t \in inflight
      BY <3>1, <3>2, TailOfQueue DEF SafetyInv, OneLife, OneResult, Recorded
    <3>4. s # t
      BY <2>0, <3>1, <3>3
    <3>5. CASE Conclude(t, r, next) \/ Park(t, next)
      BY <2>0, <3>4, <3>5 DEF Conclude, Park
    <3>6. CASE MayRevise(t, inflight \ {t}) /\ Reopen(t, next)
      <4>1. t \in Gates /\ revised \in [Gates -> Nat]
        BY <3>6 DEF MayRevise, SafetyInv, TypeOK
      <4>2. revised' # [revised EXCEPT ![t] = revised[t] + 1]
        BY <4>1
      <4> QED
        BY <3>6, <4>2 DEF Reopen
    <3> QED
      BY <3>2, <3>5, <3>6 DEF Recorded
  <2>2. CASE BeginTurn
    BY <2>0, <2>2 DEF BeginTurn, Woken
  <2>3. CASE ResolveUnrun
    BY <2>0, <2>3 DEF ResolveUnrun, Terminal
  <2>4. CASE Launch
    BY <2>0, <2>4 DEF Launch, SafetyInv, CursorReady, Terminal
  <2>5. CASE GiveUpInflight
    BY <2>0, <2>5 DEF GiveUpInflight, Accounting
  <2>6. ASSUME NEW t \in Steps, ExpireWaiting(t) \/ GiveUp(t)
        PROVE  status'[s] = status[s]
    BY <2>0, <2>6 DEF ExpireWaiting, GiveUp, Remaining, Terminal
  <2>7. CASE PassOver \/ ReadyToLaunch \/ NoRoom \/ EndPass \/ TakeNothing \/ EnforceDeadlines
             \/ Settled \/ EndTurn \/ Close \/ EndDrain \/ EndLeftover \/ Cleanup
             \/ \E t \in Steps : SettleOverdue(t)
    BY <2>7 DEF PassOver, ReadyToLaunch, NoRoom, EndPass, TakeNothing, EnforceDeadlines, Settled,
          EndTurn, Close, EndDrain, EndLeftover, Cleanup, SettleOverdue
  <2>8. CASE Environment \/ Ended
    BY <2>8 DEF Environment, PressStop, Interrupt, Expire, WaitOver, Answer, Ended, vars
  <2>9. ASSUME NEW t \in Steps, Work(t)
        PROVE  status' = status
    BY <2>9 DEF Work, EnterRefused, Enter, Prepare, BeginAttempt, Return, Backoff, Leave, Put
  <2> QED
    BY <2>1, <2>2, <2>3, <2>4, <2>5, <2>6, <2>7, <2>8, <2>9 DEF Next, Loop
<1>2. SafetyInv /\ [Next]_vars => [Stands]_vars
  <2> HIDE DEF Stands
  <2> QED
    BY <1>1
<1> QED
  BY <1>2, SafetyInvariant, PTL DEF Spec, VerdictStands

-----------------------------------------------------------------------------
(* How a run ends, and why a step ended as it did.                         *)

\* Where the loop still decides what starts.
Turning == {"turn", "scan", "launch", "take", "enforce", "settle", "overwait"}

\* Where every straggler was told to give up.
Closing == {"drain", "remaining", "leftover", "cleanup", "ended"}

\* What the place of the loop says of the receipts, the stop and the record.
PlaceInv ==
    /\ loop \in Turning \cup {"remaining", "leftover"} => ~broken
    /\ loop = "launch" => ~stop
    /\ loop \in Closing => stop
    /\ loop \in {"leftover", "cleanup", "ended"} /\ ~broken =>
           \A s \in Steps : status[s] # "running"
    /\ loop \in {"cleanup", "ended"} /\ ~broken => \A s \in Steps : status[s] \in Terminal

\* A failure that stops the run has stopped it, or a lost receipt has.
FailureKnown == (\E f \in Steps \ Lenient : status[f] \in Broken) => stop \/ broken

\* Nothing but the loop moves the loop, the record and what it keeps of it.
LEMMA OthersRecordNothing ==
    ASSUME \/ \E s \in Steps : Work(s)
           \/ Environment /\ ~Interrupt
           \/ Ended \/ UNCHANGED vars
    PROVE  UNCHANGED <<recordVars, inflight, waiting, stop, told, cleaned, loopVars>>
PROOF
<1> USE DEF recordVars, tokenVars, timeVars, loopVars
<1>1. ASSUME NEW s \in Steps, Work(s)
      PROVE  UNCHANGED <<recordVars, inflight, waiting, stop, told, cleaned, loopVars>>
  BY <1>1 DEF Work, EnterRefused, Enter, Prepare, BeginAttempt, Return, Backoff, Leave, Put
<1>2. CASE Environment /\ ~Interrupt
  BY <1>2 DEF Environment, PressStop, Expire, WaitOver, Answer
<1>3. CASE Ended \/ UNCHANGED vars
  BY <1>3 DEF Ended, vars
<1> QED
  BY <1>1, <1>2, <1>3

\* A step changes its status in the loop, by one of its decisions.
LEMMA Writers ==
    ASSUME [Next]_vars
    PROVE  \/ Take \/ Drain \/ BeginTurn \/ ResolveUnrun \/ Launch \/ GiveUpInflight
           \/ \E s \in Steps : ExpireWaiting(s) \/ GiveUp(s)
           \/ PassOver \/ ReadyToLaunch \/ NoRoom \/ EndPass \/ TakeNothing \/ EnforceDeadlines
           \/ Settled \/ EndTurn \/ Interrupt \/ Close \/ EndDrain \/ EndLeftover \/ Cleanup
           \/ \E s \in Steps : SettleOverdue(s)
           \/ UNCHANGED <<recordVars, inflight, waiting, stop, told, cleaned, loopVars>>
PROOF
<1>1. CASE Loop
  BY <1>1 DEF Loop
<1>2. CASE Environment
  BY <1>2, OthersRecordNothing DEF Environment
<1>3. CASE ~Loop /\ ~Environment
  BY <1>3, OthersRecordNothing DEF Next
<1> QED
  BY <1>1, <1>2, <1>3

\* Each decision leads to a place whose conditions it has made true.
LEMMA PlaceStep ==
    ASSUME SafetyInv, PlaceInv, [Next]_vars
    PROVE  PlaceInv'
PROOF
<1> USE DEF recordVars, tokenVars, loopVars, Turning, Closing
<1>1. CASE Take \/ Drain
  <2>1. PICK next \in {"enforce", "drain"} : Record(next) /\ loop = IF next = "drain" THEN "drain" ELSE "take"
    BY <1>1 DEF Take, Drain
  <2>2. PICK s \in Steps, r \in Results : Recorded(s, r, next)
    BY <2>1, RecordShape DEF SafetyInv, LoopStates
  <2>3. /\ loop' \in {next, IF next = "drain" THEN "cleanup" ELSE "close"}
        /\ loop' \in {"enforce", "drain"} => broken' = broken
        /\ loop' \in {"cleanup", "close"} => broken'
    BY <2>1, <2>2 DEF Recorded, Reopen, Park, Conclude, Saved
  <2>4. stop => stop'
    BY <2>2 DEF Recorded, Reopen, Park, Conclude, StopAfter
  <2> QED
    BY <2>1, <2>3, <2>4 DEF PlaceInv
<1>2. CASE BeginTurn \/ ResolveUnrun \/ Launch \/ \E s \in Steps : ExpireWaiting(s)
  BY <1>2 DEF PlaceInv, BeginTurn, ResolveUnrun, Launch, ExpireWaiting, Saved
<1>3. CASE GiveUpInflight
  <2>1. loop = "remaining" /\ loop' = "leftover" /\ UNCHANGED <<broken, stop>>
    BY <1>3 DEF GiveUpInflight
  <2>2. \A s \in Steps : status'[s] =
            IF s \notin inflight THEN status[s] ELSE IF s \in told THEN "timeout" ELSE "cancelled"
    BY <1>3 DEF GiveUpInflight
  <2>3. \A s \in Steps : status[s] = "running" => s \in inflight
    BY <2>1 DEF PlaceInv, SafetyInv, RecordMatchesLoop, Accounting
  <2>4. \A s \in Steps : status'[s] # "running"
    BY <2>2, <2>3
  <2> QED
    BY <2>1, <2>4 DEF PlaceInv
<1>4. ASSUME NEW s \in Steps, GiveUp(s)
      PROVE  PlaceInv'
  <2>1. /\ loop = "leftover" /\ (stop => stop')
        /\ \/ loop' = "leftover" /\ broken' = broken
           \/ loop' = "cleanup" /\ broken'
    BY <1>4 DEF GiveUp, Saved, StopAfter
  <2>2. PICK v \in {"cancelled", "timeout"} : status' = [status EXCEPT ![s] = v]
    BY <1>4 DEF GiveUp
  <2>3. \A t \in Steps : status[t] # "running" => status'[t] # "running"
    BY <2>2 DEF SafetyInv, TypeOK
  <2> QED
    BY <2>1, <2>3 DEF PlaceInv
<1>5. CASE EndLeftover
  <2>1. /\ loop = "leftover" /\ loop' = "cleanup" /\ UNCHANGED <<status, broken, stop>>
        /\ \A s \in Steps : s \notin waiting
        /\ \A s \in Steps : ~(waiting = {} /\ status[s] = "pending")
    BY <1>5 DEF EndLeftover, Remaining
  <2>2. waiting = {}
    BY <2>1 DEF SafetyInv, TypeOK
  <2>3. \A s \in Steps : status[s] \notin {"pending", "waiting", "running"}
    BY <2>1, <2>2 DEF PlaceInv, SafetyInv, RecordMatchesLoop
  <2>4. \A s \in Steps : status[s] \in Terminal
    BY <2>3 DEF SafetyInv, TypeOK, Statuses
  <2> QED
    BY <2>1, <2>3, <2>4 DEF PlaceInv
<1>6. CASE ReadyToLaunch
  <2>1. ~stop
    BY <1>6 DEF ReadyToLaunch, Readiness, Stopping
  <2> QED
    BY <1>6, <2>1 DEF PlaceInv, ReadyToLaunch
<1>7. CASE PassOver \/ NoRoom \/ EndPass \/ TakeNothing \/ EnforceDeadlines \/ Settled \/ EndTurn
           \/ Interrupt \/ Close \/ \E s \in Steps : SettleOverdue(s)
  BY <1>7 DEF PlaceInv, PassOver, NoRoom, EndPass, TakeNothing, EnforceDeadlines, Settled, EndTurn,
        Interrupt, Close, SettleOverdue
<1>8. CASE EndDrain \/ Cleanup
  BY <1>8 DEF PlaceInv, EndDrain, Cleanup
<1>9. CASE UNCHANGED <<recordVars, inflight, waiting, stop, told, cleaned, loopVars>>
  BY <1>9 DEF PlaceInv
<1> QED
  BY <1>1, <1>2, <1>3, <1>4, <1>5, <1>6, <1>7, <1>8, <1>9, Writers

\* It is an invariant of the scheduler.
LEMMA PlaceAlways == Spec => []PlaceInv
PROOF
<1>1. Init => PlaceInv
  BY DEF Init, PlaceInv, Turning, Closing
<1>2. SafetyInv /\ PlaceInv /\ [Next]_vars => PlaceInv'
  BY PlaceStep
<1> QED
  BY <1>1, <1>2, SafetyInvariant, PTL DEF Spec

\* A run that ends gave every step a verdict, unless a receipt of it was lost;
\* one that says it succeeded left nothing undone (_resolve_remaining, _verdict).
THEOREM SettledAtEndHolds == Spec => []SettledAtEnd
PROOF
<1>1. PlaceInv => SettledAtEnd
  <2> SUFFICES ASSUME PlaceInv, loop = "ended"
               PROVE  /\ ~broken => \A s \in Steps : status[s] \in Terminal
                      /\ RunVerdict = "success" => \A s \in Steps : status[s] \in {"success", "skipped"}
    BY DEF SettledAtEnd
  <2>1. ~broken => \A s \in Steps : status[s] \in Terminal
    BY DEF PlaceInv
  <2>2. RunVerdict = "success" => ~broken /\ \A s \in Steps : status[s] \notin Broken \cup {"cancelled"}
    BY DEF RunVerdict
  <2> QED
    BY <2>1, <2>2 DEF Terminal, Broken
<1> QED
  BY <1>1, PlaceAlways, PTL

-----------------------------------------------------------------------------
(* What a failure stops.                                                   *)

\* Whoever records a failure of such a step also stops the run.
LEMMA FailureStep ==
    ASSUME SafetyInv, PlaceInv, FailureKnown, [Next]_vars
    PROVE  FailureKnown'
PROOF
<1> USE DEF recordVars, tokenVars, loopVars
<1>0. status \in [Steps -> Statuses] /\ stop \in BOOLEAN /\ broken \in BOOLEAN
  BY DEF SafetyInv, TypeOK
<1>1. CASE Take \/ Drain
  <2>1. PICK next \in {"enforce", "drain"} : Record(next)
    BY <1>1 DEF Take, Drain
  <2>2. PICK s \in Steps, r \in Results : Recorded(s, r, next)
    BY <2>1, RecordShape DEF SafetyInv, LoopStates
  <2>3. CASE Reopen(s, next)
    <3>1. \A t \in Steps : status'[t] \in Broken => status[t] \in Broken
      BY <2>3 DEF Reopen, Broken
    <3>2. stop' = stop /\ (broken => broken')
      BY <2>3 DEF Reopen, Saved
    <3> QED
      BY <3>1, <3>2 DEF FailureKnown
  <2>4. CASE Park(s, next)
    <3>1. \A t \in Steps : status'[t] \in Broken => status[t] \in Broken
      BY <1>0, <2>4 DEF Park, Broken
    <3>2. stop' = stop /\ (broken => broken')
      BY <2>4 DEF Park, Saved
    <3> QED
      BY <3>1, <3>2 DEF FailureKnown
  <2>5. CASE Conclude(s, r, next)
    <3>1. \A t \in Steps : status'[t] = IF t = s THEN Verdict(s, r) ELSE status[t]
      BY <1>0, <2>5 DEF Conclude
    <3>2. /\ broken => broken'
          /\ broken' \/ StopAfter(s, Verdict(s, r))
          /\ stop => stop'
      BY <2>5 DEF Conclude, Saved, StopAfter
    <3> QED
      BY <3>1, <3>2 DEF FailureKnown, StopAfter
  <2> QED
    BY <2>2, <2>3, <2>4, <2>5 DEF Recorded
<1>2. CASE BeginTurn \/ Launch
  <2>1. \A t \in Steps : status'[t] \in Broken => status[t] \in Broken
    BY <1>0, <1>2 DEF BeginTurn, Launch, Broken
  <2>2. stop' = stop /\ (broken => broken')
    BY <1>2 DEF BeginTurn, Launch, Saved
  <2> QED
    BY <2>1, <2>2 DEF FailureKnown
<1>3. ASSUME NEW s \in Steps, NEW v, status' = [status EXCEPT ![s] = v], StopAfter(s, v),
             broken => broken'
      PROVE  FailureKnown'
  <2>1. \A t \in Steps : status'[t] = IF t = s THEN v ELSE status[t]
    BY <1>0, <1>3
  <2> QED
    BY <1>3, <2>1 DEF FailureKnown, StopAfter
<1>4. CASE ResolveUnrun
  <2>1. PICK v \in Terminal : status' = [status EXCEPT ![cursor] = v] /\ StopAfter(cursor, v)
    BY <1>4 DEF ResolveUnrun
  <2>2. cursor \in Steps /\ (broken => broken')
    BY <1>4 DEF ResolveUnrun, Saved
  <2> QED
    BY <1>3, <2>1, <2>2
<1>5. ASSUME NEW s \in Steps, ExpireWaiting(s) \/ GiveUp(s)
      PROVE  FailureKnown'
  BY <1>3, <1>5 DEF ExpireWaiting, GiveUp, Saved
<1>6. CASE GiveUpInflight
  BY <1>6 DEF GiveUpInflight, PlaceInv, Closing, FailureKnown
<1>7. CASE \/ PassOver \/ ReadyToLaunch \/ NoRoom \/ EndPass \/ TakeNothing \/ EnforceDeadlines
           \/ Settled \/ EndTurn \/ Interrupt \/ Close \/ EndDrain \/ EndLeftover \/ Cleanup
           \/ \E s \in Steps : SettleOverdue(s)
           \/ UNCHANGED <<recordVars, inflight, waiting, stop, told, cleaned, loopVars>>
  <2>1. status' = status /\ (stop => stop') /\ broken' = broken
    BY <1>7 DEF PassOver, ReadyToLaunch, NoRoom, EndPass, TakeNothing, EnforceDeadlines, Settled,
          EndTurn, Interrupt, Close, EndDrain, EndLeftover, Cleanup, SettleOverdue
  <2> QED
    BY <2>1 DEF FailureKnown
<1> QED
  BY <1>1, <1>2, <1>4, <1>5, <1>6, <1>7, Writers

\* Once a step under `on_failure: stop` failed, nothing else starts (_record,
\* _readiness).
THEOREM FailureStopsHolds == Spec => FailureStops
PROOF
<1> DEFINE Halts == (\E f \in Steps \ Lenient : status[f] \in Broken) => inflight' \subseteq inflight
<1>1. Init => FailureKnown
  BY DEF Init, FailureKnown, Broken
<1>2. SafetyInv /\ PlaceInv /\ FailureKnown /\ [Next]_vars => FailureKnown'
  BY FailureStep
<1>3. PlaceInv /\ FailureKnown /\ [Next]_vars => [Halts]_vars
  <2> SUFFICES ASSUME PlaceInv, FailureKnown, [Next]_vars, NEW f \in Steps \ Lenient, status[f] \in Broken
               PROVE  inflight' \subseteq inflight
    OBVIOUS
  <2>1. ~Launch
    BY DEF PlaceInv, FailureKnown, Launch, Turning
  <2> QED
    BY <2>1, FlightsOnlyStart
<1> QED
  BY <1>1, <1>2, <1>3, SafetyInvariant, PlaceAlways, PTL DEF Spec, FailureStops

-----------------------------------------------------------------------------
(* Why a step ended as it did.                                             *)

\* A deadline is that of a step with a timeout that has begun, in flight or
\* set aside; a question about it is asked of a step in flight and not told.
DeadlineInv ==
    /\ inflight \subseteq begun /\ waiting \subseteq begun
    /\ expired \subseteq Timed \cap begun
    /\ told \cap inflight \subseteq Timed
    /\ QuestionsCurrent

\* A step whose worker is about to report, or has reported, nothing.
Silent(s) ==
    \/ worker[s] = "leave" /\ outcome[s] = "nothing"
    \/ \E i \in DOMAIN done : done[i].step = s /\ done[i].result = "nothing"

\* A worker has nothing to report only when its token is set.
SilenceInv == \A s \in Steps : Silent(s) => TokenSet(s)

\* The step whose result is taken is in flight.
LEMMA TakenWasInFlight ==
    ASSUME SafetyInv, Accounting, NEW s \in Steps, NEW r \in Results, NEW next, Recorded(s, r, next)
    PROVE  s \in inflight
PROOF
<1>1. done # <<>> /\ done' = Tail(done) /\ s = Head(done).step
  BY DEF Recorded
<1>2. s \in Queued
  BY <1>1, TailOfQueue DEF SafetyInv, OneLife, OneResult
<1> QED
  BY <1>2 DEF SafetyInv, OneLife

\* What a revision takes back of `begun` it takes back of the deadlines as well,
\* and no step of it is in flight.
LEMMA DeadlineStep ==
    ASSUME SafetyInv, DeadlineInv, [Next]_vars
    PROVE  DeadlineInv'
PROOF
<1> USE DEF recordVars, tokenVars, timeVars, loopVars, QuestionsCurrent
<1>0. overdue \in [Steps -> {"none", "asked", "continue", "stop"}] /\ Asks \subseteq Timed
  BY SchedulerAssumption DEF SafetyInv, TypeOK
<1>1. CASE Take \/ Drain
  <2>1. PICK next \in {"enforce", "drain"} : Record(next) /\ Accounting
    BY <1>1 DEF Take, Drain, Accounting
  <2>2. PICK s \in Steps, r \in Results : Recorded(s, r, next)
    BY <2>1, RecordShape DEF SafetyInv, LoopStates
  <2>3. /\ inflight' = inflight \ {s} /\ told' = told /\ s \in inflight
        /\ \A t \in Steps : overdue'[t] # "none" => t # s /\ overdue[t] # "none"
    BY <1>0, <2>1, <2>2, TakenWasInFlight DEF Recorded
  <2>4. \A t \in Steps : overdue'[t] # "none" => t \in (inflight' \cap expired) \ told'
    BY <2>1, <2>3 DEF DeadlineInv
  <2>5. CASE MayRevise(s, inflight \ {s}) /\ Reopen(s, next)
    <3>1. Revisited(s) \cap inflight' = {}
      BY <2>3, <2>5 DEF MayRevise
    <3>2. \/ UNCHANGED <<begun, waiting, expired>>
          \/ /\ begun' = begun \ Revisited(s) /\ waiting' = waiting \ Revisited(s)
             /\ expired' = expired \ Revisited(s)
      BY <2>5 DEF Reopen
    <3> QED
      BY <2>3, <2>4, <3>1, <3>2 DEF DeadlineInv
  <2>6. CASE Park(s, next) \/ Conclude(s, r, next)
    <3>1. waiting' \subseteq waiting \cup {s} /\ UNCHANGED <<begun, expired>>
      BY <2>6 DEF Park, Conclude
    <3> QED
      BY <2>3, <2>4, <3>1 DEF DeadlineInv
  <2> QED
    BY <2>2, <2>5, <2>6 DEF Recorded
<1>2. CASE Launch
  <2>1. /\ begun' = begun \cup {cursor} /\ inflight' = inflight \cup {cursor}
        /\ told' = told \ {cursor} /\ UNCHANGED <<waiting, expired, overdue>> /\ Accounting
    BY <1>2 DEF Launch, Accounting
  <2> QED
    BY <2>1 DEF DeadlineInv
<1>3. CASE EnforceDeadlines
  <2>1. PICK late \in SUBSET {s \in inflight \cap expired : overdue[s] = "none" /\ s \notin told} :
            /\ overdue' = [s \in Steps |-> IF s \in late \cap Asks THEN "asked" ELSE overdue[s]]
            /\ told' = told \cup (late \ Asks)
    BY <1>3 DEF EnforceDeadlines, TokenSet
  <2>2. UNCHANGED <<begun, inflight, waiting, expired>> /\ Accounting
    BY <1>3 DEF EnforceDeadlines, Accounting
  <2>3. \A s \in Steps : overdue'[s] # "none" => s \in (inflight \cap expired) \ told'
    BY <1>0, <2>1, <2>2 DEF DeadlineInv
  <2> QED
    BY <2>1, <2>2, <2>3 DEF DeadlineInv
<1>4. ASSUME NEW s \in Steps, SettleOverdue(s) PROVE DeadlineInv'
  <2>1. /\ overdue[s] # "none" /\ Accounting /\ UNCHANGED <<begun, inflight, waiting>>
        /\ overdue' = [overdue EXCEPT ![s] = "none"]
        /\ told' \subseteq told \cup {s} /\ expired' \subseteq expired
        /\ expired \ {s} \subseteq expired'
    BY <1>4 DEF SettleOverdue, Accounting
  <2>2. \A t \in Steps : overdue'[t] # "none" => overdue[t] # "none" /\ t # s
    BY <1>0, <2>1
  <2> QED
    BY <2>1, <2>2 DEF DeadlineInv
<1>5. CASE BeginTurn \/ \E s \in Steps : ExpireWaiting(s) \/ GiveUp(s)
  <2>1. /\ waiting' \subseteq waiting /\ UNCHANGED <<begun, inflight, expired, told, overdue>>
        /\ Accounting' => Accounting
    BY <1>5 DEF BeginTurn, ExpireWaiting, GiveUp, Accounting, Saved
  <2> QED
    BY <2>1 DEF DeadlineInv
<1>6. CASE GiveUpInflight
  BY <1>6 DEF GiveUpInflight, DeadlineInv, Accounting
<1>7. CASE \/ ResolveUnrun \/ PassOver \/ ReadyToLaunch \/ NoRoom \/ EndPass \/ TakeNothing
           \/ Settled \/ EndTurn \/ Interrupt \/ Close \/ EndDrain \/ EndLeftover \/ Cleanup
  <2>1. /\ UNCHANGED <<begun, inflight, waiting, expired, told, overdue>>
        /\ Accounting' => Accounting
    BY <1>7 DEF ResolveUnrun, Saved, PassOver, ReadyToLaunch, NoRoom, EndPass, TakeNothing, Settled,
          EndTurn, Interrupt, Close, EndDrain, EndLeftover, Cleanup, Accounting
  <2> QED
    BY <2>1 DEF DeadlineInv
<1>8. ASSUME NEW s \in Steps, Expire(s) PROVE DeadlineInv'
  BY <1>8 DEF Expire, DeadlineInv, Accounting
<1>9. ASSUME NEW s \in Steps, Answer(s) PROVE DeadlineInv'
  <2>1. /\ overdue[s] # "none"
        /\ \E a \in {"stop", "continue"} : overdue' = [overdue EXCEPT ![s] = a]
        /\ UNCHANGED <<begun, inflight, waiting, expired, told, loop>>
    BY <1>9 DEF Answer
  <2>2. \A t \in Steps : overdue'[t] # "none" => overdue[t] # "none"
    BY <1>0, <2>1
  <2> QED
    BY <2>1, <2>2 DEF DeadlineInv, Accounting
<1>10. ASSUME NEW s \in Steps, WaitOver(s) PROVE DeadlineInv'
  BY <1>10 DEF WaitOver, DeadlineInv, Accounting
<1>11. CASE PressStop \/ Ended \/ UNCHANGED vars
  BY <1>11 DEF PressStop, Ended, vars, DeadlineInv, Accounting
<1>12. ASSUME NEW s \in Steps, Work(s) PROVE DeadlineInv'
  <2>1. UNCHANGED <<begun, inflight, waiting, expired, told, overdue, loop>>
    BY <1>12 DEF Work, EnterRefused, Enter, Prepare, BeginAttempt, Return, Backoff, Leave, Put
  <2> QED
    BY <2>1 DEF DeadlineInv, Accounting
<1> QED
  BY <1>1, <1>2, <1>3, <1>4, <1>5, <1>6, <1>7, <1>8, <1>9, <1>10, <1>11, <1>12
     DEF Next, Loop, Environment

\* A stop stays, and a step that was told stays told until it starts anew.
LEMMA SignalsStay ==
    ASSUME [Next]_vars
    PROVE  /\ Stopping => Stopping'
           /\ \A s \in told : s \in told' \/ (Launch /\ s = cursor)
PROOF
<1> DEFINE Stay == /\ Stopping => Stopping'
                   /\ \A s \in told : s \in told' \/ (Launch /\ s = cursor)
<1> USE DEF recordVars, tokenVars, timeVars, loopVars, Stopping
<1>0. ASSUME stop => stop', cancel => cancel', told \subseteq told' PROVE Stay
  BY <1>0
<1>1. CASE Take \/ Drain
  <2>1. PICK next \in {"enforce", "drain"} : Record(next)
    BY <1>1 DEF Take, Drain
  <2>2. UNCHANGED <<told, cancel>>
    BY <2>1 DEF Record
  <2>3. stop => stop'
    BY <2>1 DEF Record, Reopen, Park, Conclude, StopAfter
  <2> QED
    BY <1>0, <2>2, <2>3
<1>2. CASE Launch
  BY <1>2 DEF Launch
<1>3. CASE \/ BeginTurn \/ PassOver \/ ReadyToLaunch \/ NoRoom \/ EndPass \/ TakeNothing
           \/ EnforceDeadlines \/ Settled \/ EndTurn \/ Interrupt \/ Close \/ EndDrain
           \/ GiveUpInflight \/ EndLeftover \/ Cleanup \/ \E s \in Steps : SettleOverdue(s)
  BY <1>3 DEF BeginTurn, PassOver, ReadyToLaunch, NoRoom, EndPass, TakeNothing, EnforceDeadlines,
        Settled, EndTurn, Interrupt, Close, EndDrain, GiveUpInflight, EndLeftover, Cleanup,
        SettleOverdue
<1>4. CASE ResolveUnrun \/ \E s \in Steps : ExpireWaiting(s) \/ GiveUp(s)
  <2>1. UNCHANGED <<told, cancel>>
    BY <1>4 DEF ResolveUnrun, ExpireWaiting, GiveUp
  <2>2. stop => stop'
    BY <1>4 DEF ResolveUnrun, ExpireWaiting, GiveUp, StopAfter
  <2> QED
    BY <1>0, <2>1, <2>2
<1>5. CASE PressStop \/ Ended \/ UNCHANGED vars
  BY <1>5 DEF PressStop, Ended, vars
<1>6. ASSUME NEW t \in Steps, Expire(t) \/ WaitOver(t) \/ Answer(t) \/ Work(t)
      PROVE  Stay
  BY <1>6 DEF Expire, WaitOver, Answer, Work, EnterRefused, Enter, Prepare, BeginAttempt, Return,
        Backoff, Leave, Put
<1> QED
  BY <1>1, <1>2, <1>3, <1>4, <1>5, <1>6 DEF Next, Loop, Environment

\* A token once set stays set, until its step starts anew.
LEMMA TokensStay ==
    ASSUME [Next]_vars, NEW s \in Steps, TokenSet(s), ~(Launch /\ s = cursor)
    PROVE  TokenSet(s)'
BY SignalsStay DEF TokenSet

\* Only a start and a worker's own step touch a worker's report; only the
\* worker adds to the queue, and only the loop takes from it.
LEMMA ReportsLeftAlone ==
    ASSUME [Next]_vars, ~Launch, \A s \in Steps : ~Work(s)
    PROVE  UNCHANGED <<worker, outcome>> /\ (done' = done \/ Take \/ Drain)
PROOF
<1> USE DEF threadVars
<1>1. CASE Loop
  BY <1>1 DEF Loop, BeginTurn, PassOver, ResolveUnrun, ReadyToLaunch, NoRoom, EndPass, Take,
        Drain, Record, TakeNothing, EnforceDeadlines, Settled, EndTurn, SettleOverdue, ExpireWaiting,
        GiveUp, Close, EndDrain, GiveUpInflight, EndLeftover, Cleanup
<1>2. CASE Environment
  BY <1>2 DEF Environment, PressStop, Interrupt, Expire, WaitOver, Answer
<1>3. CASE Ended \/ UNCHANGED vars
  BY <1>3 DEF Ended, vars
<1> QED
  BY <1>1, <1>2, <1>3 DEF Next

\* What is left of the queue is results that were in it.
LEMMA TailElements ==
    ASSUME NEW T, NEW q \in Seq(T), q # <<>>
    PROVE  \A i \in DOMAIN Tail(q) : i + 1 \in DOMAIN q /\ Tail(q)[i] = q[i + 1]
OBVIOUS

\* No step falls silent whose token is not set.
LEMMA SilenceStep ==
    ASSUME SafetyInv, SilenceInv, [Next]_vars
    PROVE  SilenceInv'
PROOF
<1>0. /\ worker \in [Steps -> WorkerStates] /\ outcome \in [Steps -> Results]
       /\ done \in Seq([step : Steps, result : Results])
  BY DEF SafetyInv, TypeOK
<1>1. CASE Launch
  <2>1. cursor \in Steps /\ cursor \notin inflight /\ Accounting
    BY <1>1 DEF SafetyInv, CursorReady, Launch, TypeOK, Accounting
  <2>2. worker[cursor] = "none" /\ cursor \notin Queued
    BY <2>1 DEF SafetyInv, OneLife
  <2>3. /\ done' = done /\ outcome' = [outcome EXCEPT ![cursor] = "nothing"]
        /\ worker' = worker \/ \E e \in {"enter", "refused"} : worker' = [worker EXCEPT ![cursor] = e]
    BY <1>1 DEF Launch
  <2>4. \A s \in Steps : Silent(s)' => s # cursor /\ Silent(s)
    BY <1>0, <2>1, <2>2, <2>3 DEF Silent, Queued
  <2> QED
    BY <2>4, TokensStay DEF SilenceInv
<1>2. CASE Take \/ Drain
  <2>1. PICK next \in {"enforce", "drain"} : Record(next)
    BY <1>2 DEF Take, Drain
  <2>2. done # <<>> /\ done' = Tail(done) /\ UNCHANGED <<worker, outcome>> /\ ~Launch
    BY <1>2, <2>1 DEF Record, threadVars, Take, Drain, Launch
  <2>3. \A i \in DOMAIN done' : i + 1 \in DOMAIN done /\ done'[i] = done[i + 1]
    BY <1>0, <2>2, TailElements
  <2>4. \A s \in Steps : Silent(s)' => Silent(s)
    BY <2>2, <2>3 DEF Silent
  <2> QED
    BY <2>2, <2>4, TokensStay DEF SilenceInv
<1>3. ASSUME NEW s \in Steps, Work(s) PROVE SilenceInv'
  <2>1. \A t \in Steps : TokenSet(t)' <=> TokenSet(t)
    BY <1>3 DEF Work, EnterRefused, Enter, Prepare, BeginAttempt, Return, Backoff, Leave, Put,
          timeVars, tokenVars, TokenSet, Stopping
  <2>2. CASE EnterRefused(s) \/ Enter(s) \/ Prepare(s) \/ BeginAttempt(s) \/ Return(s) \/ Backoff(s)
    <3>1. done' = done
      BY <2>2 DEF EnterRefused, Enter, Prepare, BeginAttempt, Return, Backoff
    <3>2. \A t \in Steps : t # s => worker'[t] = worker[t] /\ outcome'[t] = outcome[t]
      BY <1>0, <2>2 DEF EnterRefused, Enter, Prepare, BeginAttempt, Return, Backoff
    <3>3. worker'[s] = "leave" /\ outcome'[s] = "nothing" => TokenSet(s)
      <4>1. CASE EnterRefused(s) \/ Return(s)
        BY <1>0, <4>1 DEF EnterRefused, Return, Replies
      <4>2. CASE Enter(s) \/ BeginAttempt(s) \/ Backoff(s)
        BY <1>0, <4>2 DEF Enter, BeginAttempt, Backoff
      <4>3. CASE Prepare(s)
        BY <1>0, <4>3 DEF Prepare
      <4> QED
        BY <2>2, <4>1, <4>2, <4>3
    <3>4. \A t \in Steps : Silent(t)' => Silent(t) \/ TokenSet(t)
      BY <3>1, <3>2, <3>3 DEF Silent
    <3> QED
      BY <2>1, <3>4 DEF SilenceInv
  <2>3. CASE Leave(s)
    <3>1. \A t \in Steps : worker'[t] = "leave" /\ outcome'[t] = "nothing" =>
                               worker[t] = "leave" /\ outcome[t] = "nothing"
      BY <1>0, <2>3 DEF Leave
    <3>2. CASE done' = done
      BY <2>1, <3>1, <3>2 DEF SilenceInv, Silent
    <3>3. CASE Put(s)
      <4> DEFINE x == [step |-> s, result |-> outcome[s]]
      <4>1. x \in [step : Steps, result : Results] /\ x.step = s /\ x.result = outcome[s]
        BY <1>0
      <4>2. done' = Append(done, x)
        BY <3>3 DEF Put
      <4> HIDE DEF x
      <4>3. /\ DOMAIN done' = 1..(Len(done) + 1) /\ DOMAIN done = 1..Len(done) /\ Len(done) \in Nat
            /\ \A i \in DOMAIN done : done'[i] = done[i]
            /\ done'[Len(done) + 1] = x
        BY <1>0, <4>1, <4>2, AppendPlaces
      <4>4. \A i \in DOMAIN done' : i \in DOMAIN done \/ i = Len(done) + 1
        BY <4>3
      <4>5. \A t \in Steps : Silent(t)' => Silent(t)
        BY <2>3, <3>1, <4>1, <4>3, <4>4 DEF Silent, Leave
      <4> QED
        BY <2>1, <4>5 DEF SilenceInv
    <3> QED
      BY <2>3, <3>2, <3>3 DEF Leave
  <2> QED
    BY <1>3, <2>2, <2>3 DEF Work
<1>4. CASE ~Launch /\ ~(Take \/ Drain) /\ \A s \in Steps : ~Work(s)
  <2>1. UNCHANGED <<worker, outcome, done>>
    BY <1>4, ReportsLeftAlone
  <2>2. \A s \in Steps : Silent(s)' => Silent(s)
    BY <2>1 DEF Silent
  <2> QED
    BY <1>4, <2>2, TokensStay DEF SilenceInv
<1> QED
  BY <1>1, <1>2, <1>3, <1>4

\* What the result at the head of the queue is recorded as has a cause.
LEMMA VerdictHasCause ==
    ASSUME SafetyInv, DeadlineInv, SilenceInv, Accounting,
           NEW s \in Steps, NEW r \in Results, NEW next, Recorded(s, r, next)
    PROVE  /\ Verdict(s, r) = "cancelled" => Stopping
           /\ Verdict(s, r) = "timeout" => s \in Timed \cap begun
PROOF
<1>1. s \in inflight
  BY TakenWasInFlight
<1>2. done # <<>> /\ done \in Seq([step : Steps, result : Results])
      /\ s = Head(done).step /\ r \in {"failed", Head(done).result}
  BY DEF Recorded, SafetyInv, TypeOK
<1>3. r = "nothing" => Silent(s)
  <2>1. 1 \in DOMAIN done /\ Head(done) = done[1]
    BY <1>2
  <2> QED
    BY <1>2, <2>1 DEF Silent
<1>4. Heard(r) = "cancelled" => TokenSet(s)
  BY <1>3 DEF Heard, SilenceInv
<1> QED
  BY <1>1, <1>4 DEF Verdict, Heard, TokenSet, DeadlineInv

\* An ending of one step that has a cause, among steps whose endings have.
LEMMA CauseKept ==
    ASSUME SafetyInv, OutcomeHasCause, Stopping => Stopping', begun \subseteq begun',
           NEW s \in Steps, NEW v, status' = [status EXCEPT ![s] = v],
           v = "cancelled" => Stopping, v = "timeout" => s \in Timed \cap begun
    PROVE  OutcomeHasCause'
PROOF
<1>1. \A t \in Steps : status'[t] = IF t = s THEN v ELSE status[t]
  BY DEF SafetyInv, TypeOK
<1> QED
  BY <1>1 DEF OutcomeHasCause

\* Every action that ends a step has a cause for it.
LEMMA CauseStep ==
    ASSUME SafetyInv, PlaceInv, DeadlineInv, SilenceInv, OutcomeHasCause, [Next]_vars
    PROVE  OutcomeHasCause'
PROOF
<1> USE DEF recordVars, tokenVars, timeVars, loopVars
<1>0. Stopping => Stopping'
  BY SignalsStay
<1>1. CASE Take \/ Drain
  <2>1. PICK next \in {"enforce", "drain"} : Record(next) /\ Accounting
    BY <1>1 DEF Take, Drain, Accounting
  <2>2. PICK s \in Steps, r \in Results : Recorded(s, r, next)
    BY <2>1, RecordShape DEF SafetyInv, LoopStates
  <2>3. CASE Reopen(s, next)
    <3>1. CASE UNCHANGED <<status, begun>>
      BY <1>0, <3>1 DEF OutcomeHasCause
    <3>2. CASE /\ status' = [t \in Steps |-> IF t \in Revisited(s) THEN "pending" ELSE status[t]]
               /\ begun' = begun \ Revisited(s)
      BY <1>0, <3>2 DEF OutcomeHasCause
    <3> QED
      BY <2>3, <3>1, <3>2 DEF Reopen
  <2>4. CASE Park(s, next)
    <3>1. status' = [status EXCEPT ![s] = "waiting"] /\ begun' = begun
      BY <2>4 DEF Park
    <3> QED
      BY <1>0, <3>1, CauseKept
  <2>5. CASE Conclude(s, r, next)
    <3>1. status' = [status EXCEPT ![s] = Verdict(s, r)] /\ begun' = begun
      BY <2>5 DEF Conclude
    <3> QED
      BY <1>0, <2>1, <2>2, <3>1, CauseKept, VerdictHasCause
  <2> QED
    BY <2>2, <2>3, <2>4, <2>5 DEF Recorded
<1>2. CASE BeginTurn
  BY <1>0, <1>2 DEF BeginTurn, OutcomeHasCause
<1>3. CASE Launch
  <2>1. status' = [status EXCEPT ![cursor] = "running"] /\ begun \subseteq begun' /\ cursor \in Steps
    BY <1>3 DEF Launch, SafetyInv, TypeOK
  <2> QED
    BY <1>0, <2>1, CauseKept
<1>4. CASE ResolveUnrun
  <2>1. PICK v \in Readiness(cursor) \cap Terminal : status' = [status EXCEPT ![cursor] = v]
    BY <1>4 DEF ResolveUnrun
  <2>2. cursor \in Steps /\ begun' = begun
    BY <1>4 DEF ResolveUnrun
  <2>3. v # "timeout" /\ (v = "cancelled" => Stopping)
    BY <2>1 DEF Readiness
  <2> QED
    BY <1>0, <2>1, <2>2, <2>3, CauseKept
<1>5. ASSUME NEW s \in Steps, ExpireWaiting(s) PROVE OutcomeHasCause'
  <2>1. status' = [status EXCEPT ![s] = "timeout"] /\ begun' = begun /\ s \in expired
    BY <1>5 DEF ExpireWaiting
  <2> QED
    BY <1>0, <2>1, CauseKept DEF DeadlineInv
<1>6. ASSUME NEW s \in Steps, GiveUp(s) PROVE OutcomeHasCause'
  <2>1. Stopping /\ begun' = begun
    BY <1>6 DEF GiveUp, PlaceInv, Closing, Stopping
  <2>2. PICK v \in {"cancelled"} \cup (IF s \in waiting \cap Timed THEN {"timeout"} ELSE {}) :
            status' = [status EXCEPT ![s] = v]
    BY <1>6 DEF GiveUp
  <2>3. v = "timeout" => s \in Timed \cap begun
    BY <2>2 DEF DeadlineInv
  <2> QED
    BY <1>0, <2>1, <2>2, <2>3, CauseKept
<1>7. CASE GiveUpInflight
  <2>1. \A s \in Steps : status'[s] =
            IF s \notin inflight THEN status[s] ELSE IF s \in told THEN "timeout" ELSE "cancelled"
    BY <1>7 DEF GiveUpInflight
  <2>2. Stopping /\ begun' = begun
    BY <1>7 DEF GiveUpInflight, PlaceInv, Closing, Stopping
  <2> QED
    BY <1>0, <2>1, <2>2 DEF OutcomeHasCause, DeadlineInv
<1>8. CASE \/ PassOver \/ ReadyToLaunch \/ NoRoom \/ EndPass \/ TakeNothing \/ EnforceDeadlines
           \/ Settled \/ EndTurn \/ Interrupt \/ Close \/ EndDrain \/ EndLeftover \/ Cleanup
           \/ \E s \in Steps : SettleOverdue(s)
           \/ UNCHANGED <<recordVars, inflight, waiting, stop, told, cleaned, loopVars>>
  <2>1. UNCHANGED <<status, begun>>
    BY <1>8 DEF PassOver, ReadyToLaunch, NoRoom, EndPass, TakeNothing, EnforceDeadlines, Settled,
          EndTurn, Interrupt, Close, EndDrain, EndLeftover, Cleanup, SettleOverdue
  <2> QED
    BY <1>0, <2>1 DEF OutcomeHasCause
<1> QED
  BY <1>1, <1>2, <1>3, <1>4, <1>5, <1>6, <1>7, <1>8, Writers

LEMMA DeadlineAlways == Spec => []DeadlineInv
PROOF
<1>1. Init => DeadlineInv
  BY DEF Init, DeadlineInv, QuestionsCurrent
<1>2. SafetyInv /\ DeadlineInv /\ [Next]_vars => DeadlineInv'
  BY DeadlineStep
<1> QED
  BY <1>1, <1>2, SafetyInvariant, PTL DEF Spec

\* A standing question about an overdue step is one about the turn in flight:
\* a report, a wait, a plan sent back, a stop and Ctrl+C each leave none behind
\* that a later turn could be prolonged or ended by.
THEOREM QuestionsCurrentHolds == Spec => []QuestionsCurrent
PROOF
<1>1. DeadlineInv => QuestionsCurrent
  BY DEF DeadlineInv
<1> QED
  BY <1>1, DeadlineAlways, PTL

\* "cancelled" is said only on a run that is stopping, and "timeout" only of a
\* step that began and has a deadline, whenever result, deadline, question and
\* stop meet (_settle, _enforce_deadlines, _resolve_remaining).
THEOREM OutcomeHasCauseHolds == Spec => []OutcomeHasCause
PROOF
<1>1. Init => SilenceInv /\ OutcomeHasCause
  BY DEF Init, SilenceInv, Silent, OutcomeHasCause
<1>2. SafetyInv /\ SilenceInv /\ [Next]_vars => SilenceInv'
  BY SilenceStep
<1>3. SafetyInv /\ PlaceInv /\ DeadlineInv /\ SilenceInv /\ OutcomeHasCause /\ [Next]_vars
      => OutcomeHasCause'
  BY CauseStep
<1> QED
  BY <1>1, <1>2, <1>3, SafetyInvariant, PlaceAlways, DeadlineAlways, PTL DEF Spec

-----------------------------------------------------------------------------
(* The end without a straggler: nobody interrupts the loop, and receipts   *)
(* can be written.                                                         *)

\* No receipt is lost, by the loop or by a worker.
NothingLost ==
    /\ ~broken
    /\ \A s \in Steps : outcome[s] # "unsaved"
    /\ \A i \in DOMAIN done : done[i].result # "unsaved"

\* A run that closes has no step in flight and no thread.
NoStraggler ==
    loop \in Closing \cup {"close"} => inflight = {} /\ \A s \in Steps : worker[s] = "none"

\* Nothing was cleaned up before the end, and everything is at the end.
CleanedOnce ==
    /\ loop # "ended" => \A s \in Steps : cleaned[s] = 0
    /\ CleanedUp

\* Receipts are lost only where writing one may fail.
LEMMA NothingLostStep ==
    ASSUME ~StoreMayFail, SafetyInv, NothingLost, [Next]_vars
    PROVE  NothingLost'
PROOF
<1> USE DEF recordVars, tokenVars, timeVars, threadVars, loopVars
<1>0. /\ worker \in [Steps -> WorkerStates] /\ outcome \in [Steps -> Results]
      /\ done \in Seq([step : Steps, result : Results])
  BY DEF SafetyInv, TypeOK
<1>1. CASE Take \/ Drain
  <2>1. PICK next \in {"enforce", "drain"} : Record(next)
    BY <1>1 DEF Take, Drain
  <2>2. PICK s \in Steps, r \in Results : Recorded(s, r, next)
    BY <2>1, RecordShape DEF SafetyInv, LoopStates
  <2>3. done # <<>> /\ done' = Tail(done) /\ outcome' = outcome /\ r \in {"failed", Head(done).result}
    BY <2>2 DEF Recorded
  <2>4. 1 \in DOMAIN done /\ Head(done) = done[1]
    BY <1>0, <2>3
  <2>5. r # "unsaved"
    BY <2>3, <2>4 DEF NothingLost
  <2>6. ~broken'
    BY <2>2, <2>5 DEF Recorded, Reopen, Park, Conclude, Saved, NothingLost
  <2>7. \A i \in DOMAIN done' : i + 1 \in DOMAIN done /\ done'[i] = done[i + 1]
    BY <1>0, <2>3, TailElements
  <2> QED
    BY <2>3, <2>6, <2>7 DEF NothingLost
<1>2. CASE Launch
  BY <1>0, <1>2 DEF Launch, Saved, NothingLost
<1>3. ASSUME NEW s \in Steps, Work(s) PROVE NothingLost'
  <2>1. broken' = broken
    BY <1>3 DEF Work, EnterRefused, Enter, Prepare, BeginAttempt, Return, Backoff, Leave, Put
  <2>2. \A t \in Steps : outcome'[t] # "unsaved"
    BY <1>0, <1>3 DEF Work, EnterRefused, Enter, Prepare, BeginAttempt, Return, Replies, Backoff,
          Leave, NothingLost
  <2>3. CASE done' = done
    BY <2>1, <2>2, <2>3 DEF NothingLost
  <2>4. CASE Put(s)
    <3> DEFINE x == [step |-> s, result |-> outcome[s]]
    <3>1. x \in [step : Steps, result : Results] /\ x.result # "unsaved"
      BY <1>0 DEF NothingLost
    <3>2. done' = Append(done, x)
      BY <2>4 DEF Put
    <3> HIDE DEF x
    <3>3. /\ DOMAIN done' = 1..(Len(done) + 1) /\ DOMAIN done = 1..Len(done) /\ Len(done) \in Nat
          /\ \A i \in DOMAIN done : done'[i] = done[i]
          /\ done'[Len(done) + 1] = x
      BY <1>0, <3>1, <3>2, AppendPlaces
    <3>4. \A i \in DOMAIN done' : i \in DOMAIN done \/ i = Len(done) + 1
      BY <3>3
    <3> QED
      BY <2>1, <2>2, <3>1, <3>3, <3>4 DEF NothingLost
  <2> QED
    BY <1>3, <2>3, <2>4 DEF Work, EnterRefused, Enter, Prepare, BeginAttempt, Return, Backoff, Leave
<1>4. CASE ~Launch /\ ~(Take \/ Drain) /\ \A s \in Steps : ~Work(s)
  <2>1. UNCHANGED <<outcome, done>>
    BY <1>4, ReportsLeftAlone
  <2>2. broken' = broken
    BY <1>4, Writers DEF BeginTurn, ResolveUnrun, GiveUpInflight, ExpireWaiting, GiveUp, Saved,
          PassOver, ReadyToLaunch, NoRoom, EndPass, TakeNothing, EnforceDeadlines, Settled, EndTurn,
          Interrupt, Close, EndDrain, EndLeftover, Cleanup, SettleOverdue
  <2> QED
    BY <2>1, <2>2 DEF NothingLost
<1> QED
  BY <1>1, <1>2, <1>3, <1>4

\* A thread is somewhere in _work.
LEMMA IdleDoesNothing ==
    ASSUME NEW s \in Steps, worker[s] = "none"
    PROVE  ~Work(s)
BY DEF Work, EnterRefused, Enter, Prepare, BeginAttempt, Return, Backoff, Leave

\* The loop closes of its own accord only after a pass with nothing in flight.
LEMMA NoStragglerStep ==
    ASSUME ~Interruptible, SafetyInv, NothingLost', NoStraggler, [Next]_vars
    PROVE  NoStraggler'
PROOF
<1> USE DEF Closing, threadVars
<1>1. CASE EndPass
  <2>1. Accounting /\ worker' = worker /\ inflight' = inflight
    BY <1>1 DEF EndPass, Accounting
  <2>2. inflight = {} => \A s \in Steps : worker[s] = "none"
    BY <2>1 DEF SafetyInv, OneLife
  <2>3. loop' \in Closing \cup {"close"} => inflight = {}
    BY <1>1 DEF EndPass
  <2> QED
    BY <2>1, <2>2, <2>3 DEF NoStraggler
<1>2. CASE ~EndPass /\ loop \notin Closing \cup {"close"}
  <2>1. loop' \notin Closing \cup {"close"}
    <3>1. CASE Take
      <4>1. PICK s \in Steps, r \in Results : Recorded(s, r, "enforce")
        BY <3>1, RecordShape DEF Take, SafetyInv, LoopStates
      <4> QED
        BY <3>1, <4>1 DEF Take, Recorded, Reopen, Park, Conclude, Saved, NothingLost
    <3>2. CASE ResolveUnrun \/ Launch \/ \E s \in Steps : ExpireWaiting(s)
      BY <3>2 DEF ResolveUnrun, Launch, ExpireWaiting, Saved, NothingLost
    <3>3. CASE ~Take /\ ~ResolveUnrun /\ ~Launch /\ ~\E s \in Steps : ExpireWaiting(s)
      BY <1>2, <3>3, Writers DEF Drain, BeginTurn, GiveUpInflight, GiveUp, PassOver, ReadyToLaunch,
            NoRoom, TakeNothing, EnforceDeadlines, Settled, EndTurn, Interrupt, Close, EndDrain,
            EndLeftover, Cleanup, SettleOverdue, loopVars
    <3> QED
      BY <3>1, <3>2, <3>3
  <2> QED
    BY <2>1 DEF NoStraggler
<1>3. CASE loop \in Closing \cup {"close"}
  <2>1. inflight = {} /\ \A s \in Steps : worker[s] = "none"
    BY <1>3 DEF NoStraggler
  <2>2. ~Launch
    BY <1>3 DEF Launch
  <2>3. inflight' = {} /\ worker' = worker
    BY <2>1, <2>2, FlightsOnlyStart, IdleDoesNothing, ReportsLeftAlone
  <2> QED
    BY <2>1, <2>3 DEF NoStraggler
<1> QED
  BY <1>1, <1>2, <1>3

\* cleanup is called exactly once for every step that reached prepare, when the
\* run is over (registry.py), if no straggler outlives the grace period: the
\* loop is not interrupted, and no receipt is lost (_cleanup, drive).
THEOREM CleanedUpHolds ==
    ASSUME ~Interruptible, ~StoreMayFail
    PROVE  Spec => []CleanedUp
PROOF
<1>1. Init => NothingLost /\ NoStraggler /\ CleanedOnce
  BY DEF Init, NothingLost, NoStraggler, CleanedOnce, CleanedUp, Closing
<1>2. SafetyInv /\ NothingLost /\ [Next]_vars => NothingLost'
  BY NothingLostStep
<1>3. SafetyInv /\ NothingLost' /\ NoStraggler /\ [Next]_vars => NoStraggler'
  BY NoStragglerStep
<1>4. SafetyInv /\ NoStraggler /\ CleanedOnce /\ [Next]_vars => CleanedOnce'
  <2> SUFFICES ASSUME SafetyInv, NoStraggler, CleanedOnce, [Next]_vars PROVE CleanedOnce'
    OBVIOUS
  <2>1. CASE Cleanup
    <3>1. \A s \in Steps : cleaned'[s] = IF s \in prepared THEN 1 ELSE 0
      BY <2>1 DEF Cleanup, CleanedOnce
    <3> QED
      BY <2>1, <3>1 DEF Cleanup, CleanedOnce, CleanedUp, threadVars
  <2>2. CASE loop = "ended"
    <3>1. \A s \in Steps : ~Work(s)
      BY <2>2, IdleDoesNothing DEF NoStraggler, Closing
    <3>2. UNCHANGED <<cleaned, prepared, loop>>
      BY <2>2, <3>1 DEF Next, Loop, BeginTurn, PassOver, ResolveUnrun, ReadyToLaunch, NoRoom, Launch,
            EndPass, Take, TakeNothing, EnforceDeadlines, Settled, EndTurn, SettleOverdue,
            ExpireWaiting, GiveUp, Close, Drain, EndDrain, GiveUpInflight, EndLeftover, Cleanup,
            Environment, PressStop, Interrupt, Expire, WaitOver, Answer, Ended, vars, threadVars,
            loopVars
    <3> QED
      BY <2>2, <3>2 DEF CleanedOnce, CleanedUp
  <2>3. CASE ~Cleanup /\ loop # "ended"
    <3>1. cleaned' = cleaned /\ loop' # "ended"
      BY <2>3, Writers DEF BeginTurn, PassOver, ResolveUnrun, ReadyToLaunch, NoRoom, Launch,
            EndPass, Take, TakeNothing, EnforceDeadlines, Settled, EndTurn, SettleOverdue,
            ExpireWaiting, GiveUp, Close, Drain, EndDrain, GiveUpInflight, EndLeftover,
            Interrupt, Record, Reopen, Park, Conclude, Saved, loopVars
    <3> QED
      BY <2>3, <3>1 DEF CleanedOnce, CleanedUp
  <2> QED
    BY <2>1, <2>2, <2>3
<1>5. CleanedOnce => CleanedUp
  BY DEF CleanedOnce
<1> QED
  BY <1>1, <1>2, <1>3, <1>4, <1>5, SafetyInvariant, PTL DEF Spec

-----------------------------------------------------------------------------
(* The contract of a run.                                                  *)

\* The steps the record calls running.
Busy == {s \in Steps : status[s] = "running"}

\* Never more steps at work than workers, by the record alone: also one whose
\* receipt was lost counts.
BusyBound == Cardinality(Busy) <= Jobs

\* What a step may become without starting.
MovesOn(s) ==
    \/ status'[s] = status[s]
    \/ Contract!Lifecycle(s, status[s], status'[s]) /\ status'[s] # "running"

\* A plan goes back while its gate alone is at work on the path.
GoesBack(g) ==
    /\ status[g] = "running" /\ Revisited(g) \cap Busy = {g}
    /\ status' = [s \in Steps |-> IF s \in Revisited(g) THEN "pending" ELSE status[s]]

\* The moves of the contract's lifecycle, as the scheduler's actions make them.
LEMMA LifecycleMoves ==
    ASSUME NEW s \in Steps, NEW to,
           \/ status[s] = "pending" /\ to \in {"skipped", "cancelled"}
           \/ status[s] = "pending" /\ to \in {"running", "failed"} /\ Ready(s)
           \/ status[s] = "running" /\ to \in Terminal \cup {"waiting"}
           \/ status[s] = "waiting" /\ to \in {"pending", "timeout", "cancelled"}
    PROVE  Contract!Lifecycle(s, status[s], to)
BY DEF Contract!Lifecycle, Contract!Satisfied, Contract!Terminal, Terminal, Ready, Satisfied

\* One step of the file moves on, and the others stay.
LEMMA OneMovesOn ==
    ASSUME SafetyInv, NEW s \in Steps, NEW to, status' = [status EXCEPT ![s] = to],
           Contract!Lifecycle(s, status[s], to), to # "running"
    PROVE  \A t \in Steps : MovesOn(t)
PROOF
<1>1. \A t \in Steps : status'[t] = IF t = s THEN to ELSE status[t]
  BY DEF SafetyInv, TypeOK
<1> QED
  BY <1>1 DEF MovesOn

\* Whatever else the scheduler does moves steps on or sends one plan back.
LEMMA ContractMoves ==
    ASSUME SafetyInv, PlaceInv, [Next]_vars, ~Launch
    PROVE  (\A s \in Steps : MovesOn(s)) \/ \E g \in Gates : GoesBack(g)
PROOF
<1> USE DEF recordVars, tokenVars, timeVars, threadVars, loopVars
<1>0. \A s \in Steps : /\ s \in waiting <=> status[s] = "waiting"
                       /\ Accounting /\ s \in inflight => status[s] = "running"
                       /\ Accounting /\ ~broken /\ status[s] = "running" => s \in inflight
  BY DEF SafetyInv, RecordMatchesLoop, OneLife
<1>1. CASE Take \/ Drain
  <2>1. PICK next \in {"enforce", "drain"} :
            Record(next) /\ Accounting /\ loop = IF next = "drain" THEN "drain" ELSE "take"
    BY <1>1 DEF Take, Drain, Accounting
  <2>2. PICK s \in Steps, r \in Results : Recorded(s, r, next)
    BY <2>1, RecordShape DEF SafetyInv, LoopStates
  <2>3. s \in inflight /\ status[s] = "running"
    BY <1>0, <2>1, <2>2, TakenWasInFlight
  <2>4. CASE Reopen(s, next) /\ MayRevise(s, inflight \ {s}) /\ ~TokenSet(s)
    <3>1. CASE broken'
      BY <2>4, <3>1 DEF Reopen, MovesOn
    <3>2. CASE ~broken'
      <4>1. ~broken
        BY <2>1, <2>4 DEF PlaceInv, Turning, Closing, TokenSet, Stopping
      <4>2. s \in Gates /\ s \in Revisited(s) /\ Revisited(s) \cap (inflight \ {s}) = {}
        BY <2>4 DEF MayRevise, Revisited, PathBack
      <4>3. Revisited(s) \cap Busy = {s}
        BY <1>0, <2>1, <2>3, <4>1, <4>2 DEF Busy
      <4> QED
        BY <2>3, <2>4, <3>2, <4>2, <4>3 DEF Reopen, GoesBack
    <3> QED
      BY <3>1, <3>2
  <2>5. CASE Park(s, next)
    <3>1. status' = [status EXCEPT ![s] = "waiting"] /\ Contract!Lifecycle(s, status[s], "waiting")
      BY <2>3, <2>5, LifecycleMoves DEF Park
    <3> QED
      BY <3>1, OneMovesOn
  <2>6. CASE (TokenSet(s) \/ r \notin {"revise", "unfinished"}) /\ Conclude(s, r, next)
    <3>1. Verdict(s, r) \in Terminal
      BY <2>6, VerdictType
    <3>2. status' = [status EXCEPT ![s] = Verdict(s, r)]
      BY <2>6 DEF Conclude
    <3>3. Contract!Lifecycle(s, status[s], Verdict(s, r)) /\ Verdict(s, r) # "running"
      BY <2>3, <3>1, LifecycleMoves DEF Terminal
    <3> QED
      BY <3>2, <3>3, OneMovesOn
  <2> QED
    BY <2>2, <2>4, <2>5, <2>6 DEF Recorded
<1>2. CASE BeginTurn
  <2> SUFFICES ASSUME NEW s \in Steps PROVE MovesOn(s)
    OBVIOUS
  <2>1. status'[s] = IF s \in Woken THEN "pending" ELSE status[s]
    BY <1>2 DEF BeginTurn
  <2>2. s \in Woken => Contract!Lifecycle(s, status[s], "pending")
    BY <1>0, LifecycleMoves DEF Woken
  <2> QED
    BY <2>1, <2>2 DEF MovesOn
<1>3. CASE ResolveUnrun
  <2>1. PICK v \in Readiness(cursor) \cap Terminal : status' = [status EXCEPT ![cursor] = v]
    BY <1>3 DEF ResolveUnrun
  <2>2. cursor \in Steps /\ status[cursor] = "pending"
    BY <1>3 DEF ResolveUnrun
  <2>3. v \in {"skipped", "cancelled"} \/ (v = "failed" /\ Ready(cursor))
    BY <2>1 DEF Readiness, Terminal
  <2>4. Contract!Lifecycle(cursor, status[cursor], v) /\ v # "running"
    BY <2>2, <2>3, LifecycleMoves
  <2> QED
    BY <2>1, <2>2, <2>4, OneMovesOn
<1>4. ASSUME NEW s \in Steps, ExpireWaiting(s)
      PROVE  \A t \in Steps : MovesOn(t)
  <2>1. status' = [status EXCEPT ![s] = "timeout"] /\ status[s] = "waiting"
    BY <1>0, <1>4 DEF ExpireWaiting
  <2>2. Contract!Lifecycle(s, status[s], "timeout")
    BY <2>1, LifecycleMoves
  <2> QED
    BY <2>1, <2>2, OneMovesOn
<1>5. ASSUME NEW s \in Steps, GiveUp(s)
      PROVE  \A t \in Steps : MovesOn(t)
  <2>1. PICK v \in {"cancelled"} \cup (IF s \in waiting \cap Timed THEN {"timeout"} ELSE {}) :
            status' = [status EXCEPT ![s] = v]
    BY <1>5 DEF GiveUp
  <2>2. status[s] = "waiting" \/ (status[s] = "pending" /\ v = "cancelled")
    BY <1>0, <1>5, <2>1 DEF GiveUp, Remaining
  <2>3. Contract!Lifecycle(s, status[s], v) /\ v # "running"
    BY <2>1, <2>2, LifecycleMoves
  <2> QED
    BY <2>1, <2>3, OneMovesOn
<1>6. CASE GiveUpInflight
  <2> SUFFICES ASSUME NEW s \in Steps PROVE MovesOn(s)
    OBVIOUS
  <2>1. PICK v \in {"timeout", "cancelled"} :
            status'[s] = IF s \notin inflight THEN status[s] ELSE v
    BY <1>6 DEF GiveUpInflight
  <2>2. s \in inflight => status[s] = "running"
    BY <1>0, <1>6 DEF GiveUpInflight, Accounting
  <2>3. s \in inflight => Contract!Lifecycle(s, status[s], v)
    BY <2>2, LifecycleMoves DEF Terminal
  <2> QED
    BY <2>1, <2>3 DEF MovesOn
<1>7. CASE \/ PassOver \/ ReadyToLaunch \/ NoRoom \/ EndPass \/ TakeNothing \/ EnforceDeadlines
           \/ Settled \/ EndTurn \/ Interrupt \/ Close \/ EndDrain \/ EndLeftover \/ Cleanup
           \/ \E s \in Steps : SettleOverdue(s)
           \/ UNCHANGED <<recordVars, inflight, waiting, stop, told, cleaned, loopVars>>
  <2>1. status' = status
    BY <1>7 DEF PassOver, ReadyToLaunch, NoRoom, EndPass, TakeNothing, EnforceDeadlines, Settled,
          EndTurn, Interrupt, Close, EndDrain, EndLeftover, Cleanup, SettleOverdue
  <2> QED
    BY <2>1 DEF MovesOn
<1> QED
  BY <1>1, <1>2, <1>3, <1>4, <1>5, <1>6, <1>7, Writers

\* A run that is over, with every receipt written.
Over == loop = "ended" /\ ~broken

\* A start finds room, and nothing else adds a step at work.
LEMMA BusyStep ==
    ASSUME SafetyInv, PlaceInv, BusyBound, [Next]_vars
    PROVE  BusyBound'
PROOF
<1>1. IsFiniteSet(Steps) /\ IsFiniteSet(Busy) /\ IsFiniteSet(inflight)
  <2>1. IsFiniteSet(Steps)
    BY FS_Interval, NAssumption DEF Steps
  <2>2. inflight \subseteq Steps /\ Busy \subseteq Steps
    BY DEF SafetyInv, TypeOK, Busy
  <2> QED
    BY <2>1, <2>2, FS_Subset
<1>2. Cardinality(Busy) \in Nat /\ Cardinality(inflight) \in Nat /\ Jobs \in Nat
  BY <1>1, FS_CardinalityType, SchedulerAssumption
<1>3. CASE Launch
  <2>1. /\ Cardinality(inflight) < Jobs /\ cursor \notin inflight
        /\ status' = [status EXCEPT ![cursor] = "running"]
    BY <1>3 DEF Launch, HasRoom, SafetyInv, CursorReady
  <2>2. Busy \subseteq inflight
    BY <1>3 DEF Launch, PlaceInv, Turning, SafetyInv, RecordMatchesLoop, Accounting, Busy
  <2>3. Busy' \subseteq inflight \cup {cursor}
    BY <2>1, <2>2 DEF Busy, SafetyInv, TypeOK
  <2>4. /\ IsFiniteSet(inflight \cup {cursor})
        /\ Cardinality(inflight \cup {cursor}) = Cardinality(inflight) + 1
    BY <1>1, <2>1, FS_AddElement
  <2>5. Cardinality(Busy') <= Cardinality(inflight) + 1 /\ Cardinality(Busy') \in Nat
    BY <2>3, <2>4, FS_Subset, FS_CardinalityType
  <2> QED
    BY <1>2, <2>1, <2>5 DEF BusyBound
<1>4. CASE ~Launch
  <2>1. Busy' \subseteq Busy
    <3>1. CASE \A s \in Steps : MovesOn(s)
      BY <3>1 DEF MovesOn, Busy
    <3>2. CASE \E g \in Gates : GoesBack(g)
      BY <3>2 DEF GoesBack, Busy
    <3> QED
      BY <1>4, <3>1, <3>2, ContractMoves
  <2>2. Cardinality(Busy') <= Cardinality(Busy) /\ Cardinality(Busy') \in Nat
    BY <1>1, <2>1, FS_Subset, FS_CardinalityType
  <2> QED
    BY <1>2, <2>2 DEF BusyBound
<1> QED
  BY <1>3, <1>4

\* Only the end of the cleanup ends a run, and it is the last thing that does.
LEMMA OverStep ==
    ASSUME SafetyInv, PlaceInv, [Next]_vars
    PROVE  \/ Over' = Over /\ ~Over
           \/ UNCHANGED <<status, Over>>
           \/ Over' /\ status' = status /\ \A s \in Steps : status[s] \in Terminal
PROOF
<1> USE DEF recordVars, loopVars
<1>1. CASE Cleanup
  <2>1. status' = status /\ broken' = broken /\ loop = "cleanup" /\ loop' = "ended"
    BY <1>1 DEF Cleanup
  <2>2. ~broken => \A s \in Steps : status[s] \in Terminal
    BY <2>1 DEF PlaceInv
  <2> QED
    BY <2>1, <2>2 DEF Over
<1>2. CASE loop = "ended"
  <2>1. UNCHANGED <<status, loop, broken>>
    BY <1>2, Writers DEF BeginTurn, PassOver, ResolveUnrun, ReadyToLaunch, NoRoom, Launch, EndPass,
          Take, TakeNothing, EnforceDeadlines, Settled, EndTurn, SettleOverdue, ExpireWaiting, GiveUp,
          Close, Drain, EndDrain, GiveUpInflight, EndLeftover, Cleanup, Interrupt
  <2> QED
    BY <2>1 DEF Over
<1>3. CASE ~Cleanup /\ loop # "ended"
  <2>1. loop' # "ended"
    BY <1>3, Writers DEF BeginTurn, PassOver, ResolveUnrun, ReadyToLaunch, NoRoom, Launch, EndPass,
          Take, TakeNothing, EnforceDeadlines, Settled, EndTurn, SettleOverdue, ExpireWaiting, GiveUp,
          Close, Drain, EndDrain, GiveUpInflight, EndLeftover, Interrupt, Record, Reopen, Park,
          Conclude, Saved
  <2> QED
    BY <1>3, <2>1 DEF Over
<1> QED
  BY <1>1, <1>2, <1>3

\* Every step of the scheduler is one of the contract, or none.
LEMMA ContractStep ==
    ASSUME SafetyInv, TypeOK', PlaceInv, BusyBound', [Next]_vars
    PROVE  [Contract!Next]_<<status, Over>>
PROOF
<1>0. /\ Contract!Steps = Steps /\ Contract!Terminal = Terminal
      /\ Contract!Working = Busy
  BY DEF Contract!Steps, Steps, Contract!Terminal, Terminal, Contract!Working, Busy
<1>1. ASSUME Over' = Over, ~Over PROVE [Contract!Next]_<<status, Over>>
  <2>1. ASSUME \A s \in Steps : status'[s] # status[s] => Contract!Lifecycle(s, status[s], status'[s])
        PROVE  Contract!Advance
    <3>1. status' \in [Steps -> Terminal \cup {"pending", "running", "waiting"}]
      BY DEF TypeOK, Statuses
    <3>2. Contract!Working' = Busy'
      BY DEF Contract!Steps, Steps, Contract!Working, Busy
    <3>3. Contract!Cardinality(Busy') = Cardinality(Busy')
      BY DEF Contract!Cardinality, Cardinality, Contract!IsFiniteSet, IsFiniteSet
    <3> QED
      BY <1>0, <1>1, <2>1, <3>1, <3>2, <3>3 DEF Contract!Advance, BusyBound, Over
  <2>2. CASE Launch
    <3>1. \A s \in Steps : status'[s] = IF s = cursor THEN "running" ELSE status[s]
      BY <2>2 DEF Launch, SafetyInv, TypeOK
    <3>2. cursor \in Steps /\ status[cursor] = "pending" /\ Ready(cursor)
      BY <2>2 DEF Launch, SafetyInv, TypeOK, CursorReady, Ready
    <3>3. Contract!Lifecycle(cursor, status[cursor], "running")
      BY <3>2, LifecycleMoves
    <3> QED
      BY <2>1, <3>1, <3>3 DEF Contract!Next
  <2>3. CASE \A s \in Steps : MovesOn(s)
    BY <2>1, <2>3 DEF MovesOn, Contract!Next
  <2>4. ASSUME NEW g \in Gates, GoesBack(g) PROVE Contract!SendBack(g)
    <3>1. Contract!PathBack(PlanOf[g], g) = Revisited(g)
      BY DEF Contract!PathBack, PathBack, Revisited, Contract!Downstream, Downstream,
             Contract!Upstream, Upstream, Contract!ClosedForward, ClosedForward,
             Contract!ClosedBackward, ClosedBackward, Contract!Steps, Steps
    <3> QED
      BY <1>0, <1>1, <2>4, <3>1 DEF Contract!SendBack, GoesBack, Gates, Over
  <2> QED
    BY <2>2, <2>3, <2>4, ContractMoves DEF Contract!Next, Gates
<1>2. ASSUME UNCHANGED <<status, Over>> PROVE [Contract!Next]_<<status, Over>>
  BY <1>2
<1>3. ASSUME Over', status' = status, \A s \in Steps : status[s] \in Terminal
      PROVE  Contract!Finish
  BY <1>0, <1>3 DEF Contract!Finish, Over
<1> QED
  BY <1>1, <1>2, <1>3, OverStep DEF Contract!Next

\* What a run promises of its steps, whatever its scheduler does inside: their
\* lifecycle, needs, verdicts and the size of the pool, and that a run that is
\* over, no receipt lost, left no step without a verdict (docs/cycles.md,
\* _Scheduler).
THEOREM RefinesContract == Spec => KeepsContract
PROOF
<1>1. Init => BusyBound /\ Contract!Init
  <2> SUFFICES ASSUME Init PROVE BusyBound /\ Contract!Init
    OBVIOUS
  <2>1. Busy = {}
    BY DEF Init, Busy
  <2>2. BusyBound
    BY <2>1, FS_EmptySet, SchedulerAssumption DEF BusyBound
  <2> QED
    BY <2>2 DEF Init, Contract!Init, Contract!Steps, Steps
<1>2. SafetyInv /\ PlaceInv /\ BusyBound /\ [Next]_vars => BusyBound'
  BY BusyStep
<1>3. SafetyInv /\ SafetyInv' /\ PlaceInv /\ BusyBound' /\ [Next]_vars
      => [Contract!Next]_<<status, Over>>
  BY ContractStep DEF SafetyInv
<1> QED
  BY <1>1, <1>2, <1>3, SafetyInvariant, PlaceAlways, PTL DEF Spec, KeepsContract, Contract!Spec, Over
=============================================================================
