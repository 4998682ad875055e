---------------------------- MODULE StepScheduler ----------------------------
(***************************************************************************)
(* One run of a cycle: the loop of `_Scheduler` (cycle/executor.py), the   *)
(* worker threads it starts, the queue they answer on, and the tokens and  *)
(* deadlines that tell them to stop.                                       *)
(*                                                                         *)
(* The loop is the only thread that writes the run record; it is modelled  *)
(* with a program counter and one action per decision.  A worker is        *)
(* modelled from `pool.submit` to `done.put`.  Time is not measured: a     *)
(* step's deadline passes (Expire) and a wait is over (WaitOver) when the  *)
(* environment says so, and `_park`'s cap of a wait at the deadline is     *)
(* "the wait is over once the deadline passed".                            *)
(*                                                                         *)
(* Phases, pausing, node approvals and messages have modules of their own. *)
(***************************************************************************)
EXTENDS StepGraph, Sequences

CONSTANTS
    Jobs,           \* workers of the pool
    Disabled,       \* steps with `disabled: true`
    Conditional,    \* steps with an `if:`
    Fragile,        \* steps whose `if:`, plugin or ${...} may not resolve
    Confined,       \* steps whose restriction may be refused when they start
    Lenient,        \* steps with `on_failure: continue`
    Timed,          \* steps with a `timeout:`
    Asks,           \* steps a person is asked about once they are overdue
    Parking,        \* steps whose plugin may answer "not yet"
    Attempts,       \* step -> `retry: attempts`
    GroupOf,        \* step with a concurrency group -> that group
    PlanOf,         \* approval gate -> the plan step it may send back
    MaxWaits,       \* bound: turns of one step that end in a wait
    MaxExtensions,  \* bound: times one step is given more time
    MaxRevisions,   \* `max_revisions` of a gate
    Stoppable,      \* whether somebody may press Stop
    Interruptible,  \* whether Ctrl+C may reach the loop
    StoreMayFail    \* whether writing an execution receipt may fail

Groups == {GroupOf[s] : s \in DOMAIN GroupOf}
Gates == DOMAIN PlanOf

ASSUME SchedulerAssumption ==
    /\ Jobs \in Nat \ {0}
    /\ Disabled \subseteq Steps /\ Conditional \subseteq Steps /\ Fragile \subseteq Steps
    /\ Confined \subseteq Steps /\ Lenient \subseteq Steps /\ Timed \subseteq Steps
    /\ Asks \subseteq Timed /\ Parking \subseteq Steps
    /\ Attempts \in [Steps -> Nat \ {0}]
    /\ DOMAIN GroupOf \subseteq Steps
    /\ DOMAIN PlanOf \subseteq Steps
    /\ \A g \in DOMAIN PlanOf : PlanOf[g] \in Upstream({g})
    /\ MaxWaits \in Nat /\ MaxExtensions \in Nat /\ MaxRevisions \in Nat
    /\ {Stoppable, Interruptible, StoreMayFail} \subseteq BOOLEAN

Terminal == {"success", "failed", "timeout", "skipped", "cancelled"}
Statuses == {"pending", "running", "waiting"} \cup Terminal
Broken == {"failed", "timeout"}

\* What a worker brings back. "raised" is an exception of the plugin, "halted"
\* its Cancelled exception, "unsaved" a CheckpointError raised inside it.
Results == {"nothing", "success", "failed", "skipped", "raised", "halted", "unsaved", "unfinished",
            "revise"}

WorkerStates == {"none", "enter", "refused", "prepare", "attempt", "executing",
                 "backoff", "leave", "dead"}

LoopStates == {"turn", "scan", "launch", "take", "enforce", "settle", "overwait",
               "close", "drain", "remaining", "leftover", "cleanup", "ended"}

VARIABLES
    status,      \* the run record: step -> status
    begun,       \* self.begun: steps that had a first start
    inflight,    \* self.inflight: steps handed to the pool and not recorded
    waiting,     \* self.waiting: steps set aside until later
    waits,       \* self.waited: step -> turns that ended in a wait
    due,         \* waiting steps whose resume time passed
    expired,     \* steps whose deadline passed
    extended,    \* self.extended: step -> times given more
    overdue,     \* self.overdue: step -> the state of the question
    told,        \* steps whose own token is set: "timed out"
    cancel,      \* the run's token: somebody stopped the run
    stop,        \* the `stopping` token's own event
    revised,     \* gate -> plan revisions asked by it
    worker,      \* step -> where its worker thread is
    tries,       \* step -> the attempt its worker is at
    outcome,     \* step -> what its worker has to report
    free,        \* group -> whether its semaphore is free
    done,        \* the results queue
    prepared,    \* steps whose plugin was prepared
    cleaned,     \* step -> times its plugin was cleaned up
    loop,        \* where the loop is
    cursor,      \* the step _submit looks at
    moved,       \* _submit's `started`: this pass changed something
    broken       \* a CheckpointError is on its way out

recordVars == <<status, begun, waits, extended, revised>>
timeVars == <<due, expired, overdue, told>>
tokenVars == <<cancel, stop>>
threadVars == <<worker, tries, outcome, free, prepared>>
loopVars == <<loop, cursor, moved, broken>>
vars == <<recordVars, inflight, waiting, timeVars, tokenVars, threadVars, done, cleaned, loopVars>>

-----------------------------------------------------------------------------
(* Reading the record and the tokens.                                      *)

\* stopping.is_set(): its own event, or its parent's.
Stopping == stop \/ cancel

\* A step's token is a child of `stopping`.
TokenSet(s) == s \in told \/ Stopping

\* A need that is over lets the step go on if it succeeded, or if the step has
\* an `if:` and so decides for itself.
Satisfied(s, n) == status[n] = "success" \/ (status[n] \in Terminal /\ s \in Conditional)

\* Every need lets the step go on.
Ready(s) == \A n \in Needs[s] : Satisfied(s, n)

\* A need ended in a way that leaves nothing to wait for.
Hopeless(s) == \E n \in Needs[s] : status[n] \in Terminal /\ ~Satisfied(s, n)

\* _readiness. The list `needs` is a set here, so of a need that failed and one
\* that still runs either may be looked at first.
Readiness(s) ==
    IF Stopping THEN {"cancelled"}
    ELSE IF s \in Disabled THEN {"skipped"}
    ELSE IF Ready(s)
         THEN {"go"} \cup (IF s \in Conditional THEN {"skipped"} ELSE {})
                     \cup (IF s \in Fragile THEN {"failed"} ELSE {})
         ELSE (IF \E n \in Needs[s] : status[n] \notin Terminal THEN {"wait"} ELSE {})
              \cup (IF Hopeless(s) THEN {"skipped"} ELSE {})

\* Mutant: everything after the plan starts over.
RevisitedDownstream(g) == Downstream({PlanOf[g]})

\* What a revision asked for by gate g starts over.
Revisited(g) == PathBack(PlanOf[g], g)

\* Mutant: what the plan already led to is not looked at.
MayReviseAnyway(g, flying) ==
    g \in Gates /\ revised[g] < MaxRevisions /\ Revisited(g) \cap flying = {}

\* revisions.apply refuses a revision that is over its limit, that would touch
\* a step in flight, or whose dependent work has started.
MayRevise(g, flying) ==
    /\ g \in Gates
    /\ revised[g] < MaxRevisions
    /\ Revisited(g) \cap flying = {}
    /\ \A s \in Downstream({PlanOf[g]}) \ Revisited(g) : status[s] \in {"pending", "skipped"}

\* The next place of the loop, unless the receipt written on the way there
\* fails: then the CheckpointError leaves the loop (or the drain) at once.
Saved(next) ==
    \/ loop' = next /\ UNCHANGED broken
    \/ /\ StoreMayFail
       /\ broken' = TRUE
       /\ loop' = IF loop \in {"drain", "leftover"} THEN "cleanup" ELSE "close"

\* Mutant: a timeout is no failure.
StopAfterFailedOnly(s, verdict) == stop' = (stop \/ (verdict = "failed" /\ s \notin Lenient))

\* on_failure: stop.
StopAfter(s, verdict) == stop' = (stop \/ (verdict \in Broken /\ s \notin Lenient))

-----------------------------------------------------------------------------
Init ==
    /\ status = [s \in Steps |-> "pending"]
    /\ begun = {} /\ inflight = {} /\ waiting = {}
    /\ waits = [s \in Steps |-> 0]
    /\ due = {} /\ expired = {} /\ told = {}
    /\ extended = [s \in Steps |-> 0]
    /\ overdue = [s \in Steps |-> "none"]
    /\ cancel = FALSE /\ stop = FALSE
    /\ revised = [g \in Gates |-> 0]
    /\ worker = [s \in Steps |-> "none"]
    /\ tries = [s \in Steps |-> 0]
    /\ outcome = [s \in Steps |-> "nothing"]
    /\ free = [g \in Groups |-> TRUE]
    /\ done = <<>>
    /\ prepared = {}
    /\ cleaned = [s \in Steps |-> 0]
    /\ loop = "turn" /\ cursor = 1 /\ moved = FALSE /\ broken = FALSE

-----------------------------------------------------------------------------
(* The loop: what may start.                                               *)

\* Mutant: a stopped run still waits.
WokenByTimeOnly == {s \in waiting : s \in due \cup expired}

\* The steps whose wait is over; a stopping run waits for nothing.
Woken == {s \in waiting : Stopping \/ s \in due \cup expired}

\* _wake: they are pending again.
BeginTurn ==
    /\ loop = "turn"
    /\ waiting' = waiting \ Woken
    /\ due' = due \ Woken
    /\ status' = [s \in Steps |-> IF s \in Woken THEN "pending" ELSE status[s]]
    /\ loop' = "scan" /\ cursor' = 1 /\ moved' = FALSE
    /\ UNCHANGED <<begun, inflight, waits, expired, extended, overdue, told, tokenVars,
                   revised, threadVars, done, cleaned, broken>>

\* The step under the cursor is not pending, or something it needs is not over.
PassOver ==
    /\ loop = "scan" /\ cursor \in Steps
    /\ \/ status[cursor] # "pending"
       \/ cursor \in inflight
       \/ "wait" \in Readiness(cursor)
    /\ cursor' = cursor + 1
    /\ UNCHANGED <<recordVars, inflight, waiting, timeVars, tokenVars, threadVars, done,
                   cleaned, loop, moved, broken>>

\* A verdict without running: _resolve.
ResolveUnrun ==
    /\ loop = "scan" /\ cursor \in Steps
    /\ status[cursor] = "pending" /\ cursor \notin inflight
    /\ \E verdict \in Readiness(cursor) \cap Terminal :
        /\ status' = [status EXCEPT ![cursor] = verdict]
        /\ StopAfter(cursor, verdict)
    /\ cursor' = cursor + 1 /\ moved' = TRUE
    /\ Saved("scan")
    /\ UNCHANGED <<begun, inflight, waiting, waits, extended, revised, timeVars, cancel,
                   threadVars, done, cleaned>>

ReadyToLaunch ==
    /\ loop = "scan" /\ cursor \in Steps
    /\ status[cursor] = "pending" /\ cursor \notin inflight
    /\ "go" \in Readiness(cursor)
    /\ loop' = "launch"
    /\ UNCHANGED <<recordVars, inflight, waiting, timeVars, tokenVars, threadVars, done,
                   cleaned, cursor, moved, broken>>

HasRoom == Cardinality(inflight) < Jobs

\* The pool is full: the step stays pending.
NoRoom ==
    /\ loop = "launch"
    /\ ~HasRoom
    /\ loop' = "scan" /\ cursor' = cursor + 1
    /\ UNCHANGED <<recordVars, inflight, waiting, timeVars, tokenVars, threadVars, done,
                   cleaned, moved, broken>>

\* _start: a fresh token, the deadline of the first start, the receipt, the
\* restriction, and a worker. When the receipt fails there is no worker.
Launch ==
    /\ loop = "launch"
    /\ HasRoom
    /\ status' = [status EXCEPT ![cursor] = "running"]
    /\ begun' = begun \cup {cursor}
    /\ inflight' = inflight \cup {cursor}
    /\ told' = told \ {cursor}
    /\ Saved("scan")
    /\ IF broken' THEN UNCHANGED worker
       ELSE \E entry \in {"enter"} \cup (IF cursor \in Confined THEN {"refused"} ELSE {}) :
                worker' = [worker EXCEPT ![cursor] = entry]
    /\ tries' = [tries EXCEPT ![cursor] = 0]
    /\ outcome' = [outcome EXCEPT ![cursor] = "nothing"]
    /\ cursor' = cursor + 1 /\ moved' = TRUE
    /\ UNCHANGED <<waiting, waits, due, expired, extended, overdue, tokenVars, revised, free,
                   done, prepared, cleaned>>

\* The end of a pass over the file: again while something moved; over when
\* nothing is in flight or set aside.
EndPass ==
    /\ loop = "scan" /\ cursor = N + 1
    /\ cursor' = 1 /\ moved' = FALSE
    /\ loop' = IF moved THEN "scan"
               ELSE IF inflight = {} /\ waiting = {} THEN "close" ELSE "take"
    /\ UNCHANGED <<recordVars, inflight, waiting, timeVars, tokenVars, threadVars, done,
                   cleaned, broken>>

-----------------------------------------------------------------------------
(* The loop: writing down what happened.                                   *)

\* Mutant: an exception of the plugin is not turned into a status.
HeardVerbatim(r) ==
    IF r \in {"unfinished", "revise"} THEN "waiting"
    ELSE IF r = "nothing" THEN "cancelled" ELSE r

\* The status a result stands for, before the token has its say.
Heard(r) ==
    IF r \in {"success", "skipped"} THEN r
    ELSE IF r \in {"unfinished", "revise"} THEN "waiting"
    ELSE IF r = "nothing" THEN "cancelled" ELSE "failed"

\* Mutant: whatever the token says, told to stop reads "cancelled".
VerdictAlwaysCancelled(s, r) ==
    IF TokenSet(s) /\ Heard(r) \in {"failed", "cancelled", "waiting"} THEN "cancelled" ELSE Heard(r)

\* A step told to stop did not fail on its own account.
Verdict(s, r) ==
    IF TokenSet(s) /\ Heard(r) \in {"failed", "cancelled", "waiting"}
    THEN IF s \in told THEN "timeout" ELSE "cancelled"
    ELSE Heard(r)

\* revisions.apply: the plan, what leads to the gate and the gate start over.
Reopen(g, next) ==
    /\ Saved(next)
    /\ IF broken'
       THEN UNCHANGED <<status, begun, waits, revised, waiting, due, expired>>
       ELSE /\ status' = [s \in Steps |-> IF s \in Revisited(g) THEN "pending" ELSE status[s]]
            /\ begun' = begun \ Revisited(g)
            /\ waits' = [s \in Steps |-> IF s \in Revisited(g) THEN 0 ELSE waits[s]]
            /\ revised' = [revised EXCEPT ![g] = @ + 1]
            /\ waiting' = waiting \ Revisited(g)
            /\ due' = due \ Revisited(g)
            /\ expired' = expired \ Revisited(g)
    /\ UNCHANGED stop

\* Mutant: the step reads "waiting", and the loop forgets to come back to it.
ParkForgotten(s, next) ==
    /\ status' = [status EXCEPT ![s] = "waiting"]
    /\ waits' = [waits EXCEPT ![s] = @ + 1]
    /\ Saved(next)
    /\ UNCHANGED <<waiting, begun, revised, due, expired, stop>>

\* _park: not a verdict.
Park(s, next) ==
    /\ status' = [status EXCEPT ![s] = "waiting"]
    /\ waiting' = waiting \cup {s}
    /\ waits' = [waits EXCEPT ![s] = @ + 1]
    /\ Saved(next)
    /\ UNCHANGED <<begun, revised, due, expired, stop>>

\* The rest of _record: the verdict, its receipt, and what a failure stops.
\* A CheckpointError of the worker is raised again once it is written down.
Conclude(s, r, next) ==
    /\ status' = [status EXCEPT ![s] = Verdict(s, r)]
    /\ IF r = "unsaved"
       THEN broken' = TRUE /\ UNCHANGED stop
            /\ loop' = IF loop = "drain" THEN "cleanup" ELSE "close"
       ELSE Saved(next) /\ StopAfter(s, Verdict(s, r))
    /\ UNCHANGED <<begun, waits, revised, waiting, due, expired>>

\* Mutant: the question is left standing.
StillAsked(s) == overdue

\* A step that reports while somebody is being asked about it.
Withdrawn(s) == [overdue EXCEPT ![s] = "none"]

\* _record, for the result at the head of the queue.
Record(next) ==
    LET s == Head(done).step
        r == IF Head(done).result = "revise" /\ ~TokenSet(s) /\ ~MayRevise(s, inflight \ {s})
             THEN "failed" ELSE Head(done).result
    IN  /\ done # <<>>
        /\ done' = Tail(done)
        /\ inflight' = inflight \ {s}
        /\ overdue' = Withdrawn(s)
        /\ \/ ~TokenSet(s) /\ r = "revise" /\ Reopen(s, next)
           \/ ~TokenSet(s) /\ r = "unfinished" /\ Park(s, next)
           \/ (TokenSet(s) \/ r \notin {"revise", "unfinished"}) /\ Conclude(s, r, next)
        /\ UNCHANGED <<extended, told, cancel, threadVars, cleaned, cursor, moved>>

\* _take with a result.
Take == loop = "take" /\ Record("enforce")

\* _take without one: time to look at the deadlines.
TakeNothing ==
    /\ loop = "take" /\ done = <<>>
    /\ loop' = "enforce"
    /\ UNCHANGED <<recordVars, inflight, waiting, timeVars, tokenVars, threadVars, done,
                   cleaned, cursor, moved, broken>>

\* _enforce_deadlines: a step in flight past its deadline is asked about, or
\* its token is set. A question that stands lifts the deadline.
EnforceDeadlines ==
    /\ loop = "enforce"
    /\ LET late == {s \in inflight \cap expired : overdue[s] = "none" /\ ~TokenSet(s)}
       IN  /\ overdue' = [s \in Steps |-> IF s \in late \cap Asks THEN "asked" ELSE overdue[s]]
           /\ told' = told \cup (late \ Asks)
    /\ loop' = "settle"
    /\ UNCHANGED <<recordVars, inflight, waiting, due, expired, tokenVars, threadVars, done,
                   cleaned, cursor, moved, broken>>

\* _settle_overdue, one answered question: another timeout, or the token.
SettleOverdue(s) ==
    /\ loop = "settle"
    /\ overdue[s] \in {"continue", "stop"}
    /\ overdue' = [overdue EXCEPT ![s] = "none"]
    /\ IF overdue[s] = "continue"
       THEN /\ expired' = expired \ {s}
            /\ extended' = [extended EXCEPT ![s] = @ + 1]
            /\ UNCHANGED told
       ELSE told' = told \cup {s} /\ UNCHANGED <<expired, extended>>
    /\ UNCHANGED <<status, begun, waits, revised, inflight, waiting, due, tokenVars, threadVars,
                   done, cleaned, loopVars>>

Settled ==
    /\ loop = "settle"
    /\ \A s \in Steps : overdue[s] \notin {"continue", "stop"}
    /\ loop' = "overwait"
    /\ UNCHANGED <<recordVars, inflight, waiting, timeVars, tokenVars, threadVars, done,
                   cleaned, cursor, moved, broken>>

\* A waiting step has no thread to tell: its deadline is its verdict.
ExpireWaiting(s) ==
    /\ loop = "overwait"
    /\ s \in waiting \cap expired
    /\ waiting' = waiting \ {s}
    /\ due' = due \ {s}
    /\ status' = [status EXCEPT ![s] = "timeout"]
    /\ StopAfter(s, "timeout")
    /\ Saved("overwait")
    /\ UNCHANGED <<begun, waits, extended, revised, inflight, expired, overdue, told, cancel,
                   threadVars, done, cleaned, cursor, moved>>

EndTurn ==
    /\ loop = "overwait"
    /\ waiting \cap expired = {}
    /\ loop' = "turn"
    /\ UNCHANGED <<recordVars, inflight, waiting, timeVars, tokenVars, threadVars, done,
                   cleaned, cursor, moved, broken>>

-----------------------------------------------------------------------------
(* The loop: the end of the run.                                           *)

\* KeyboardInterrupt while the loop sits on its queue.
Interrupt ==
    /\ Interruptible
    /\ loop = "take"
    /\ cancel' = TRUE
    /\ loop' = "close"
    /\ UNCHANGED <<recordVars, inflight, waiting, timeVars, stop, threadVars, done, cleaned,
                   cursor, moved, broken>>

\* The `finally` of drive: stragglers are told to give up.
Close ==
    /\ loop = "close"
    /\ stop' = TRUE
    /\ loop' = "drain"
    /\ UNCHANGED <<recordVars, inflight, waiting, timeVars, cancel, threadVars, done, cleaned,
                   cursor, moved, broken>>

Drain == loop = "drain" /\ inflight # {} /\ Record("drain")

\* Mutant: the steps that never started get no verdict.
EndDrainAtOnce ==
    /\ loop = "drain"
    /\ loop' = "cleanup"
    /\ UNCHANGED <<recordVars, inflight, waiting, timeVars, tokenVars, threadVars, done,
                   cleaned, cursor, moved, broken>>

\* Nothing is in flight any more, or the grace period is over.
EndDrain ==
    /\ loop = "drain"
    /\ loop' = IF broken THEN "cleanup" ELSE "remaining"
    /\ UNCHANGED <<recordVars, inflight, waiting, timeVars, tokenVars, threadVars, done,
                   cleaned, cursor, moved, broken>>

\* _resolve_remaining: what is still in flight gets a verdict in memory.
GiveUpInflight ==
    /\ loop = "remaining"
    /\ status' = [s \in Steps |-> IF s \notin inflight THEN status[s]
                                  ELSE IF s \in told THEN "timeout" ELSE "cancelled"]
    /\ inflight' = {}
    /\ loop' = "leftover"
    /\ UNCHANGED <<begun, waits, extended, revised, waiting, timeVars, tokenVars, threadVars,
                   done, cleaned, cursor, moved, broken>>

\* What still has no verdict: first the steps set aside, then those that never
\* started.
Remaining(s) == s \in waiting \/ (waiting = {} /\ status[s] = "pending")

\* _resolve_remaining: a step set aside (a wait its own deadline had cut short
\* is a timeout), then a step that never started.
GiveUp(s) ==
    /\ loop = "leftover"
    /\ Remaining(s)
    /\ \E verdict \in {"cancelled"} \cup (IF s \in waiting \cap Timed THEN {"timeout"} ELSE {}) :
        /\ status' = [status EXCEPT ![s] = verdict]
        /\ StopAfter(s, verdict)
    /\ waiting' = waiting \ {s}
    /\ Saved("leftover")
    /\ UNCHANGED <<begun, waits, extended, revised, inflight, timeVars, cancel, threadVars,
                   done, cleaned, cursor, moved>>

EndLeftover ==
    /\ loop = "leftover"
    /\ \A s \in Steps : ~Remaining(s)
    /\ loop' = "cleanup"
    /\ UNCHANGED <<recordVars, inflight, waiting, timeVars, tokenVars, threadVars, done,
                   cleaned, cursor, moved, broken>>

\* Mutant: every step that had a start.
CleanupBegun ==
    /\ loop = "cleanup"
    /\ cleaned' = [s \in Steps |-> IF s \in begun THEN cleaned[s] + 1 ELSE cleaned[s]]
    /\ loop' = "ended"
    /\ UNCHANGED <<recordVars, inflight, waiting, timeVars, tokenVars, threadVars, done,
                   cursor, moved, broken>>

\* _cleanup: once for every step that reached prepare so far.
Cleanup ==
    /\ loop = "cleanup"
    /\ cleaned' = [s \in Steps |-> IF s \in prepared THEN cleaned[s] + 1 ELSE cleaned[s]]
    /\ loop' = "ended"
    /\ UNCHANGED <<recordVars, inflight, waiting, timeVars, tokenVars, threadVars, done,
                   cursor, moved, broken>>

Ended == loop = "ended" /\ UNCHANGED vars

\* _verdict, or FAILED when the run's receipts could not be written.
RunVerdict ==
    IF broken \/ \E s \in Steps : status[s] \in Broken THEN "failed"
    ELSE IF \E s \in Steps : status[s] = "cancelled" THEN "cancelled" ELSE "success"

-----------------------------------------------------------------------------
(* A worker: _work.                                                        *)

Grouped(s) == s \in DOMAIN GroupOf

\* restrict.for_step refused: the worker raises before it takes its group.
EnterRefused(s) ==
    /\ worker[s] = "refused"
    /\ worker' = [worker EXCEPT ![s] = "leave"]
    /\ outcome' = [outcome EXCEPT ![s] = "raised"]
    /\ UNCHANGED <<recordVars, inflight, waiting, timeVars, tokenVars, tries, free, prepared,
                   done, cleaned, loopVars>>

\* Mutant: nobody waits for the group.
MayEnterAnyway(s) == worker[s] = "enter"

MayEnter(s) == Grouped(s) => free[GroupOf[s]]

\* semaphore.acquire, for a member of a group.
Enter(s) ==
    /\ worker[s] = "enter"
    /\ MayEnter(s)
    /\ worker' = [worker EXCEPT ![s] = "prepare"]
    /\ free' = [g \in Groups |-> free[g] /\ ~(Grouped(s) /\ GroupOf[s] = g)]
    /\ UNCHANGED <<recordVars, inflight, waiting, timeVars, tokenVars, tries, outcome, prepared,
                   done, cleaned, loopVars>>

\* prepare, once per step: a later turn of the step goes straight on.
Prepare(s) ==
    /\ worker[s] = "prepare"
    /\ prepared' = prepared \cup {s}
    /\ tries' = [tries EXCEPT ![s] = 1]
    /\ \/ worker' = [worker EXCEPT ![s] = "attempt"] /\ UNCHANGED outcome
       \/ /\ s \notin prepared
          /\ worker' = [worker EXCEPT ![s] = "leave"]
          /\ outcome' = [outcome EXCEPT ![s] = "raised"]
    /\ UNCHANGED <<recordVars, inflight, waiting, timeVars, tokenVars, free, done, cleaned,
                   loopVars>>

\* The head of the attempt loop.
BeginAttempt(s) ==
    /\ worker[s] = "attempt"
    /\ worker' = [worker EXCEPT ![s] = IF TokenSet(s) THEN "leave" ELSE "executing"]
    /\ UNCHANGED <<recordVars, inflight, waiting, timeVars, tokenVars, tries, outcome, free,
                   prepared, done, cleaned, loopVars>>

\* What a plugin's execute may come back with.
Replies(s) ==
    {"success", "failed", "skipped", "raised"}
    \cup (IF TokenSet(s) THEN {"halted"} ELSE {})
    \cup (IF StoreMayFail THEN {"unsaved"} ELSE {})
    \cup (IF s \in Parking /\ waits[s] < MaxWaits THEN {"unfinished"} ELSE {})
    \cup (IF s \in Gates THEN {"revise"} ELSE {})

\* plugin.execute returns or raises: another attempt, or the end of the turn.
Return(s) ==
    /\ worker[s] = "executing"
    /\ \E r \in Replies(s) :
        /\ outcome' = [outcome EXCEPT ![s] = r]
        /\ worker' = [worker EXCEPT ![s] =
               IF r \in {"failed", "skipped", "raised"} /\ tries[s] < Attempts[s] THEN "backoff" ELSE "leave"]
    /\ UNCHANGED <<recordVars, inflight, waiting, timeVars, tokenVars, tries, free, prepared,
                   done, cleaned, loopVars>>

\* token.wait(retry_wait): the token, or the next attempt.
Backoff(s) ==
    /\ worker[s] = "backoff"
    /\ \/ TokenSet(s) /\ worker' = [worker EXCEPT ![s] = "leave"] /\ UNCHANGED tries
       \/ /\ ~TokenSet(s)
          /\ worker' = [worker EXCEPT ![s] = "attempt"]
          /\ tries' = [tries EXCEPT ![s] = @ + 1]
    /\ UNCHANGED <<recordVars, inflight, waiting, timeVars, tokenVars, outcome, free, prepared,
                   done, cleaned, loopVars>>

\* Mutant: the result is put by the body and again by the `finally`.
PutTwice(s) ==
    LET result == [step |-> s, result |-> outcome[s]]
    IN  done' = Append(Append(done, result), result)

\* Mutant: an exception on the way leaves nothing on the queue.
PutUnlessRaised(s) ==
    done' = IF outcome[s] = "raised" THEN done ELSE Append(done, [step |-> s, result |-> outcome[s]])

\* done.put
Put(s) == done' = Append(done, [step |-> s, result |-> outcome[s]])

\* The `finally` of _work: release the group, then put the result. Releasing a
\* BoundedSemaphore that nobody holds raises, and the put never happens.
Leave(s) ==
    /\ worker[s] = "leave"
    /\ IF Grouped(s) /\ free[GroupOf[s]]
       THEN worker' = [worker EXCEPT ![s] = "dead"] /\ UNCHANGED <<free, done, outcome>>
       ELSE /\ worker' = [worker EXCEPT ![s] = "none"]
            /\ free' = [g \in Groups |-> free[g] \/ (Grouped(s) /\ GroupOf[s] = g)]
            /\ Put(s)
            /\ outcome' = [outcome EXCEPT ![s] = "nothing"]
    /\ UNCHANGED <<recordVars, inflight, waiting, timeVars, tokenVars, tries, prepared, cleaned,
                   loopVars>>

-----------------------------------------------------------------------------
(* Everybody else.                                                         *)

\* request_stop, from the control thread.
PressStop ==
    /\ Stoppable
    /\ ~cancel /\ loop # "ended"
    /\ cancel' = TRUE
    /\ UNCHANGED <<recordVars, inflight, waiting, timeVars, stop, threadVars, done, cleaned,
                   loopVars>>

\* The clock passes a step's deadline. It bounds the step's whole life, so it
\* runs while the step works, waits, and waits for a worker.
Expire(s) ==
    /\ loop # "ended"
    /\ s \in (Timed \cap begun) \ expired
    /\ status[s] \notin Terminal
    /\ expired' = expired \cup {s}
    /\ UNCHANGED <<recordVars, inflight, waiting, due, overdue, told, tokenVars, threadVars,
                   done, cleaned, loopVars>>

\* The clock passes the time a waiting step asked for.
WaitOver(s) ==
    /\ loop # "ended"
    /\ s \in waiting \ due
    /\ due' = due \cup {s}
    /\ UNCHANGED <<recordVars, inflight, waiting, expired, overdue, told, tokenVars, threadVars,
                   done, cleaned, loopVars>>

\* The asking thread of _ask_overdue: somebody says Continue, or anything else
\* happens (Cancel, a closed window, nobody there, the question withdrawn).
Answer(s) ==
    /\ overdue[s] = "asked"
    /\ \E answer \in {"stop"} \cup (IF extended[s] < MaxExtensions THEN {"continue"} ELSE {}) :
           overdue' = [overdue EXCEPT ![s] = answer]
    /\ UNCHANGED <<recordVars, inflight, waiting, due, expired, told, tokenVars, threadVars,
                   done, cleaned, loopVars>>

-----------------------------------------------------------------------------
Loop ==
    \/ BeginTurn \/ PassOver \/ ResolveUnrun \/ ReadyToLaunch \/ NoRoom \/ Launch \/ EndPass
    \/ Take \/ TakeNothing \/ EnforceDeadlines \/ Settled \/ EndTurn
    \/ (\E s \in Steps : SettleOverdue(s) \/ ExpireWaiting(s) \/ GiveUp(s))
    \/ Close \/ Drain \/ EndDrain \/ GiveUpInflight \/ EndLeftover \/ Cleanup

Work(s) ==
    \/ EnterRefused(s) \/ Enter(s) \/ Prepare(s) \/ BeginAttempt(s)
    \/ Return(s) \/ Backoff(s) \/ Leave(s)

Environment ==
    \/ PressStop \/ Interrupt
    \/ (\E s \in Steps : Expire(s) \/ WaitOver(s) \/ Answer(s))

Next == Loop \/ Environment \/ Ended \/ \E s \in Steps : Work(s)

Spec == Init /\ [][Next]_vars

\* The loop is one thread that never blocks for ever; a worker runs, and a
\* plugin comes back (executor.py: "a plugin that ignores it runs to
\* completion"); a thread waiting for its group is woken once the group is
\* free infinitely often; a wait ends when its time has come.
Fairness ==
    /\ WF_vars(Loop)
    /\ \A s \in Steps : SF_vars(Enter(s))
    /\ \A s \in Steps : WF_vars(Work(s))

FairSpec == Spec /\ Fairness

-----------------------------------------------------------------------------
(* Properties.                                                             *)

\* The type invariant.
TypeOK ==
    /\ status \in [Steps -> Statuses]
    /\ begun \subseteq Steps /\ inflight \subseteq Steps /\ waiting \subseteq Steps
    /\ waits \in [Steps -> Nat] /\ extended \in [Steps -> Nat]
    /\ due \subseteq Steps /\ expired \subseteq Steps /\ told \subseteq Steps
    /\ overdue \in [Steps -> {"none", "asked", "continue", "stop"}]
    /\ cancel \in BOOLEAN /\ stop \in BOOLEAN
    /\ revised \in [Gates -> Nat]
    /\ worker \in [Steps -> WorkerStates]
    /\ tries \in [Steps -> Nat]
    /\ outcome \in [Steps -> Results]
    /\ free \in [Groups -> BOOLEAN]
    /\ done \in Seq([step : Steps, result : Results])
    /\ prepared \subseteq Steps
    /\ cleaned \in [Steps -> Nat]
    /\ loop \in LoopStates
    /\ cursor \in 1..(N + 1) /\ (loop = "launch" => cursor \in Steps)
    /\ moved \in BOOLEAN /\ broken \in BOOLEAN

Queued == {done[i].step : i \in DOMAIN done}

\* Up to here the loop still accounts for every worker it started.
Accounting == loop \notin {"leftover", "cleanup", "ended"}

\* A step in flight is the step's only life: it reads "running", it has one
\* worker or one result on the queue and never both, and there is no worker
\* and no result of a step that is not in flight. (The one exception is the
\* step whose own start receipt could not be written.)
OneLife ==
    Accounting =>
        /\ \A s \in Steps : worker[s] # "none" => s \in inflight \ Queued
        /\ \A i, j \in DOMAIN done : done[i].step = done[j].step => i = j
        /\ Queued \subseteq inflight
        /\ \A s \in inflight : status[s] = "running" /\ (worker[s] # "none" \/ s \in Queued \/ broken)

\* What the loop has set aside is what the record calls waiting, never what
\* is in flight; nothing reads "running" that nobody works on.
RecordMatchesLoop ==
    /\ \A s \in Steps : status[s] = "waiting" <=> s \in waiting
    /\ Accounting /\ ~broken => \A s \in Steps : status[s] = "running" => s \in inflight

\* No step has worked whose needs are not over, nor, unless it has an `if:`,
\* one whose needs did not all succeed - also after a plan was sent back.
NeedsMet ==
    \A s \in Steps : status[s] \in {"running", "waiting", "success", "failed", "timeout"} =>
        \A n \in Needs[s] : Satisfied(s, n)

\* Between the decision that a step may start and its start the record has not
\* moved on: the step is still pending, idle, and everything it needs is over.
CursorReady ==
    loop = "launch" =>
        /\ status[cursor] = "pending" /\ cursor \notin inflight
        /\ \A n \in Needs[cursor] : Satisfied(cursor, n)

\* The pool never holds more than `jobs` steps.
PoolBound == Cardinality(inflight) <= Jobs

\* Two members of a concurrency group are never both inside their plugin.
Inside(s) == worker[s] \in {"prepare", "attempt", "executing", "backoff"}
GroupExclusion ==
    \A s, t \in DOMAIN GroupOf :
        s # t /\ GroupOf[s] = GroupOf[t] => ~(Inside(s) /\ Inside(t))

\* A worker always puts its result on the queue (the docstring of _work).
AlwaysReports == \A s \in Steps : worker[s] # "dead"

\* A step reads "cancelled" only on a run that is stopping, and "timeout" only
\* when its own deadline passed (or cut its last wait short).
OutcomeHasCause ==
    \A s \in Steps : /\ status[s] = "cancelled" => Stopping
                     /\ status[s] = "timeout" => s \in Timed \cap begun

\* A question whether to go on is about the turn that was overdue when it was
\* asked: it goes with that turn, whether the step reports, parks, is sent back
\* or is told to stop, so that a late answer neither prolongs nor ends another.
QuestionsCurrent ==
    Accounting => \A s \in Steps : overdue[s] # "none" => s \in (inflight \cap expired) \ told

\* A run that ends gave every step a verdict, unless a receipt of it was lost;
\* and one that says it succeeded left nothing undone, lost receipt or not.
SettledAtEnd ==
    loop = "ended" =>
        /\ ~broken => \A s \in Steps : status[s] \in Terminal
        /\ RunVerdict = "success" => \A s \in Steps : status[s] \in {"success", "skipped"}

\* Cleanup ran exactly once for every step that reached prepare, when the run
\* is over (registry.py: "Called exactly once for every step that reached
\* prepare, even when the run was cancelled or the step raised").
CleanedUp == loop = "ended" => \A s \in Steps : cleaned[s] = IF s \in prepared THEN 1 ELSE 0

\* A verdict stands; only sending a plan back reopens a step.
VerdictStands ==
    [][\A s \in Steps : status[s] \in Terminal /\ status'[s] # status[s] => revised' # revised]_vars

\* Once a step under `on_failure: stop` failed, nothing else starts.
FailureStops ==
    [][(\E f \in Steps \ Lenient : status[f] \in Broken) => inflight' \subseteq inflight]_vars

\* Once somebody stopped the run, no further step is told it timed out.
StopIsNoTimeout == [][cancel => told' \subseteq told]_vars

\* A timeout bounds a step's whole life: past it, the step has no other turn.
LifeBounded == [][\A s \in inflight' \ inflight : s \notin expired]_vars

\* A plan is not sent back after work that depends on it has begun.
RevisionBeforeWork ==
    [][\A g \in Gates : revised'[g] # revised[g] =>
            (Downstream({PlanOf[g]}) \ Revisited(g)) \cap begun = {}]_vars

\* Every wait comes to its time.
WaitsEnd == \A s \in Steps : WF_vars(WaitOver(s))

\* A run ends, if plugins come back and waits come to their time.
RunEnds == WaitsEnd => <>(loop = "ended")

\* A stopped run ends without anybody's wait coming to its time.
StopEnds == cancel ~> (loop = "ended")

Contract == INSTANCE CycleContract WITH over <- (loop = "ended" /\ ~broken)

\* The scheduler keeps the contract of a run; one that lost a receipt stops
\* without being over in the contract's sense.
KeepsContract == Contract!Spec

=============================================================================
