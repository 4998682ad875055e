---------------------------- MODULE PauseControl ----------------------------
(***************************************************************************)
(* Pausing a run and the phases of a cycle: the commands a person sends    *)
(* from the control thread (cycle/phases.py, Control), the policy of each  *)
(* phase (Phases), the steps held where they stand (cycle/freeze.py), and  *)
(* the scheduler's loop as far as it obeys them (cycle/executor.py).       *)
(*                                                                         *)
(* Every step belongs to a phase and is selected; there is a worker for    *)
(* each. Left out: steps that wait or revise a plan, deadlines (a pause    *)
(* shifts them), node approvals, execution modes, budgets and held claims, *)
(* for which a command may still be refused, and what is saved.            *)
(***************************************************************************)
EXTENDS StepGraph, Sequences, FiniteSetsExt

CONSTANTS
    PhaseOf,      \* step -> its phase; phases are numbered in file order
    Policy,       \* phase -> its policy
    ApprovalOf,   \* approval_required phase -> its approval gate
    Conditional,  \* steps with an `if:`
    Lenient,      \* steps with `on_failure: continue`
    Fragile,      \* steps whose work may fail, or that may not be startable at all
    Unreadable,   \* steps whose `if:` may refer to what is not there
    EmptyReads,   \* steps that read a tracker and find no work
    Freezable,    \* steps whose work is in processes that can be held
    Receipted,    \* steps whose work leaves operation receipts
    CanFreeze,    \* freeze.SUPPORTED
    Controlled,   \* whether somebody can say Continue
    Stoppable,    \* whether somebody may stop the run
    Says,         \* the commands a person may send
    MaxCommands   \* bound: how many of them

Phases == DOMAIN Policy
Policies == {"automatic", "stop_after", "manual", "approval_required"}
Members(p) == {s \in Steps : PhaseOf[s] = p}
Gates == {p \in Phases : Policy[p] = "approval_required"}

ASSUME PhasesAssumption ==
    /\ Policy \in Seq(Policies) /\ PhaseOf \in [Steps -> Phases]
    /\ \A s \in Steps : \A n \in Needs[s] : PhaseOf[n] <= PhaseOf[s]
    /\ ApprovalOf \in [Gates -> Steps]
    /\ \A p \in Gates : \A s \in Members(p) \ {ApprovalOf[p]} : ApprovalOf[p] \in Upstream({s})
    /\ \A p \in Gates : ApprovalOf[p] \in Members(p)

Command(what, phase) == [what |-> what, phase |-> phase]
Commands == {Command(w, 0) : w \in {"pause", "continue"}}
            \cup {Command(w, p) : w \in {"run_phase", "retry_phase"}, p \in Phases}

ASSUME PauseAssumption ==
    /\ Conditional \subseteq Steps /\ Lenient \subseteq Steps /\ Fragile \subseteq Steps
    /\ Unreadable \subseteq Conditional /\ EmptyReads \subseteq Steps
    /\ Freezable \subseteq Steps /\ Receipted \subseteq Steps
    /\ {CanFreeze, Controlled, Stoppable} \subseteq BOOLEAN
    /\ Says \subseteq Commands /\ MaxCommands \in Nat

Statuses == {"pending", "running", "success", "failed", "skipped", "unneeded", "cancelled"}
Terminal == Statuses \ {"pending", "running"}
Results == {"success", "failed", "cancelled"}

VARIABLES
    status,     \* step -> its status; "unneeded" is skipped by its own `if:`
    gen,        \* step -> its execution generation
    worker,     \* step -> "no" unless it is in flight: "working", or its result
    workerGen,  \* step -> the generation its worker was started for
    pc,         \* where the loop is
    next,       \* the step it is about to start
    pending,    \* Control.pending
    batch,      \* commands the loop drained and has still to apply
    closed,     \* Control.closed
    ctl,        \* Control.requested, run.pause_requested, run.paused, why, freezer.holding
    ph,         \* Phases: receipts, consumed, allowed_manual, run_one
    stopping,   \* the token every step's token is a child of
    sent,       \* how many commands a person sent
    unpassed,   \* boundaries reached that no accepted command has gone past
    byHand,     \* phases a person said to run
    stopped,    \* whether a person stopped the run
    barred      \* a pause was submitted, and no command accepted since

steps == <<status, gen, worker, workerGen>>
ghosts == <<unpassed, byHand, stopped, barred>>
vars == <<steps, pc, next, pending, batch, closed, ctl, ph, stopping, sent, ghosts>>

inflight == {s \in Steps : worker[s] # "no"}
Held(s) == ctl.holding /\ s \in Freezable /\ worker[s] = "working"

-----------------------------------------------------------------------------
(* Phases.                                                                 *)

Over(p) == \A s \in Members(p) : status[s] \in Terminal
Failed(p) == \E s \in Members(p) : status[s] = "failed"

\* Phases.frontier; past the last phase where there is none.
Frontier == Min({p \in Phases : ~Over(p) \/ Failed(p)} \cup {Len(Policy) + 1})

\* refresh: what the receipt of a phase says that ended with these statuses.
\* Reading and finding no work is no milestone.
Receipt(p, st) ==
    IF \E s \in Members(p) : st[s] = "failed" THEN "failed"
    ELSE IF /\ \A s \in Members(p) : st[s] \in {"success", "unneeded"}
            /\ \E s \in Members(p) \ EmptyReads : st[s] = "success"
         THEN "success" ELSE "skipped"

\* refresh: receipts in file order, as far as the phases have ended.
Refreshed ==
    [p \in Phases |->
        IF \E q \in 1..p - 1 : ~Over(q) THEN ph.receipt[p]
        ELSE IF Over(p) \/ Failed(p) THEN Receipt(p, status)
        ELSE IF ph.receipt[p] = "none" THEN "none" ELSE "invalidated"]

\* Mutant: only the phase somebody said to run ends with a pause.
BoundaryOfRunOne(p, receipt) == p = ph.runOne /\ receipt \in {"success", "skipped"}

\* What ends a phase with a pause.
IsBoundary(p, receipt) ==
    \/ p = ph.runOne /\ receipt \in {"success", "skipped"}
    \/ Policy[p] = "stop_after" /\ receipt = "success"

\* Boundaries before the frontier that the run was not stopped at.
Boundaries == {p \in 1..Frontier - 1 \ ph.consumed : IsBoundary(p, Refreshed[p])}

\* permits(execution=False): nothing of another phase than the next.
InPhase(s) == Frontier \in Phases => PhaseOf[s] = Frontier

\* permits: nothing before the approval of its phase.
Approved(s) ==
    PhaseOf[s] \in Gates =>
        s = ApprovalOf[PhaseOf[s]] \/ status[ApprovalOf[PhaseOf[s]]] = "success"

-----------------------------------------------------------------------------
(* The pause.                                                              *)

Going == [requested |-> FALSE, pauseRequested |-> FALSE, paused |-> FALSE, why |-> "none",
          holding |-> FALSE]

\* pause_at: a second reason is not noted.
PauseAt(c, why) ==
    IF c.pauseRequested THEN c
    ELSE [c EXCEPT !.requested = TRUE, !.pauseRequested = TRUE, !.why = why]

\* Mutant: a manual phase is started like any other.
StopsUnlessManual ==
    IF Frontier \notin Phases THEN "none"
    ELSE IF Over(Frontier) THEN "failed"
    ELSE IF Boundaries # {} THEN "boundary" ELSE "none"

\* Why before_submit has the run pause.
Stops ==
    IF Frontier \notin Phases THEN "none"
    ELSE IF \/ Frontier \in Gates /\ status[ApprovalOf[Frontier]] = "failed"
            \/ Over(Frontier)
    THEN "failed"
    ELSE IF Boundaries # {} THEN "boundary"
    ELSE IF Policy[Frontier] = "manual" /\ Frontier \notin ph.allowed THEN "manual"
    ELSE "none"

\* before_submit: a boundary is marked as stopped at even where pause_at finds
\* another reason noted.
Checked == IF Stops = "none" THEN ctl ELSE PauseAt(ctl, "phases")
Advanced ==
    [ph EXCEPT !.receipt = Refreshed,
               !.consumed = IF Stops = "boundary" THEN @ \cup {Min(Boundaries)} ELSE @,
               !.runOne = IF Frontier \in Phases THEN @ ELSE 0]

Init ==
    /\ status = [s \in Steps |-> "pending"] /\ gen = [s \in Steps |-> 0]
    /\ worker = [s \in Steps |-> "no"] /\ workerGen = [s \in Steps |-> 0]
    /\ pc = "controls" /\ next = 0
    /\ pending = <<>> /\ batch = <<>> /\ closed = FALSE /\ ctl = Going
    /\ ph = [receipt |-> [p \in Phases |-> "none"], consumed |-> {}, allowed |-> {}, runOne |-> 0]
    /\ stopping = FALSE /\ sent = 0
    /\ unpassed = {} /\ byHand = {} /\ stopped = FALSE /\ barred = FALSE

-----------------------------------------------------------------------------
(* Commands.                                                               *)

\* Control.submit, on the control thread.
Submit(command) ==
    /\ ~closed /\ sent < MaxCommands
    /\ sent' = sent + 1
    /\ pending' = Append(pending, command)
    /\ ctl' = IF command.what = "pause" THEN [ctl EXCEPT !.requested = TRUE] ELSE ctl
    /\ barred' = (barred \/ command.what = "pause")
    /\ UNCHANGED <<steps, pc, next, batch, closed, ph, stopping, unpassed, byHand, stopped>>

PressStop ==
    /\ Stoppable /\ ~stopping /\ pc # "over"
    /\ stopping' = TRUE /\ stopped' = TRUE
    /\ UNCHANGED <<steps, pc, next, pending, batch, closed, ctl, ph, sent, unpassed, byHand,
                   barred>>

\* Control.drain
DrainControl ==
    /\ pc = "controls"
    /\ batch' = pending /\ pending' = <<>>
    /\ pc' = "apply"
    /\ UNCHANGED <<steps, next, closed, ctl, ph, stopping, sent, ghosts>>

\* continue_phase: the next phase alone, and a manual one only by its name.
MayContinue(c) ==
    /\ Frontier \in Phases /\ ~Failed(Frontier)
    /\ c.phase \in {0, Frontier}
    /\ Policy[Frontier] = "manual" => c.what = "run_phase"

ContinuePhase(c) ==
    /\ ph' = [ph EXCEPT !.allowed = @ \cup {Frontier},
                        !.runOne = IF c.what = "run_phase" THEN Frontier ELSE 0]
    /\ byHand' = IF c.what = "run_phase" THEN byHand \cup {Frontier} ELSE byHand
    /\ UNCHANGED steps

RetryRoots(p) == {s \in Members(p) : status[s] \in {"failed", "cancelled"}}

\* All that did not succeed, of the phase and of what follows from its failure.
Retried(p) == {s \in Downstream(RetryRoots(p)) \cup Members(p) : status[s] # "success"}

\* _retry_phase: refused over successful work, and over an operation that began
\* and did not complete: what is held is in the middle of one.
MayRetry(p) ==
    /\ p = Frontier /\ RetryRoots(p) # {}
    /\ \A s \in Downstream(RetryRoots(p)) \ RetryRoots(p) : status[s] # "success"
    /\ \A s \in Retried(p) \cap Receipted : ~Held(s)

\* Of any other step with operations, it may be refused over them.
MayBeUncertain(p) == Retried(p) \cap Receipted # {}

RetryPhase(p) ==
    /\ status' = [s \in Steps |-> IF s \in Retried(p) THEN "pending" ELSE status[s]]
    /\ gen' = [s \in Steps |-> IF s \in Retried(p) THEN gen[s] + 1 ELSE gen[s]]
    /\ ph' = [ph EXCEPT !.consumed = @ \ (p..Len(Policy)), !.runOne = p]
    /\ UNCHANGED <<worker, workerGen, byHand>>

\* _continue: a pause asked for since the loop drained its commands is cleared
\* too, until it is applied.
Continue == ctl' = Going /\ unpassed' = {} /\ barred' = FALSE

Refuse == UNCHANGED <<steps, ctl, ph, ghosts>>

\* _apply_controls, one command at a time.
Apply ==
    /\ pc = "apply" /\ batch # <<>>
    /\ LET c == Head(batch)
       IN  CASE c.what = "pause" -> ctl' = PauseAt(ctl, "user_request")
                                    /\ UNCHANGED <<steps, ph, ghosts>>
             [] c.what = "retry_phase" ->
                    \/ /\ ctl.paused /\ MayRetry(c.phase)
                       /\ RetryPhase(c.phase) /\ Continue /\ UNCHANGED stopped
                    \/ /\ ctl.paused /\ MayRetry(c.phase) => MayBeUncertain(c.phase)
                       /\ Refuse
             [] OTHER ->
                    IF ctl.paused /\ MayContinue(c)
                    THEN ContinuePhase(c) /\ Continue /\ UNCHANGED stopped ELSE Refuse
    /\ batch' = Tail(batch)
    /\ UNCHANGED <<pc, next, pending, closed, stopping, sent>>

EndApply ==
    /\ pc = "apply" /\ batch = <<>>
    /\ pc' = "gate"
    /\ UNCHANGED <<steps, next, pending, batch, closed, ctl, ph, stopping, sent, ghosts>>

-----------------------------------------------------------------------------
(* One turn of the loop.                                                   *)

Unfinished == \E s \in Steps : status[s] \notin Terminal \/ status[s] = "failed"

\* Mutant: a stop leaves the held steps held.
StopHolding == [ctl EXCEPT !.requested = FALSE, !.pauseRequested = FALSE, !.paused = FALSE]

\* A held step could not hear that it is being stopped.
StopReleases ==
    [ctl EXCEPT !.requested = FALSE, !.pauseRequested = FALSE, !.paused = FALSE,
                !.holding = FALSE]

\* Mutant: a pause waits for what cannot be held.
OnlyWhereHeld(c) ==
    CanFreeze /\ Controlled /\ c.why = "user_request" /\ inflight \subseteq Freezable

\* _pauses_in_place
InPlace(c) == CanFreeze /\ Controlled /\ c.why = "user_request"

\* _enter_pause, once nothing is in flight or where all that is is held.
EnterPause(c) ==
    IF ~c.pauseRequested \/ c.paused THEN c
    ELSE IF inflight = {}
         THEN IF Unfinished THEN [c EXCEPT !.paused = TRUE]
              ELSE [c EXCEPT !.pauseRequested = FALSE, !.requested = FALSE]
         ELSE IF InPlace(c) THEN [c EXCEPT !.paused = TRUE, !.holding = TRUE] ELSE c

\* A run that pauses and that nobody can continue is exported, and ends.
Gate ==
    /\ pc = "gate"
    /\ IF stopping THEN ctl' = StopReleases /\ UNCHANGED ph
       ELSE /\ ctl' = EnterPause(IF Checked.requested THEN PauseAt(Checked, "user_request")
                                 ELSE Checked)
            /\ ph' = Advanced
    /\ pc' = IF ~ctl'.paused THEN "submit" ELSE IF Controlled THEN "end" ELSE "closing"
    /\ UNCHANGED <<steps, next, pending, batch, closed, stopping, sent, ghosts>>

\* What a step looks at: its needs, and all a retry refreshed before it.
Awaited(s) == Needs[s] \cup {a \in Steps : gen[a] > 0 /\ a \in Upstream({s})}

\* _readiness: what may come of a step that is pending. Where one of several it
\* looks at did not succeed and another is not over, their order decides.
Verdicts(s) ==
    LET seen == {status[n] : n \in Awaited(s)}
        hopeless == s \notin Conditional /\ seen \cap (Terminal \ {"success"}) # {}
    IN  IF stopping THEN {"cancelled"}
        ELSE IF ctl.requested \/ ~InPhase(s) THEN {"wait"}
        ELSE IF ~(seen \subseteq Terminal)
        THEN {"wait"} \cup (IF hopeless THEN {"skipped"} ELSE {})
        ELSE IF hopeless THEN {"skipped"}
        ELSE (IF s \in Conditional THEN {"unneeded"} ELSE {})
             \cup (IF s \in Unreadable \/ (s \in Fragile /\ Approved(s)) THEN {"failed"} ELSE {})
             \cup (IF Approved(s) THEN {"running"}
                   ELSE IF status[ApprovalOf[PhaseOf[s]]] \in {"skipped", "unneeded", "cancelled"}
                   THEN {"skipped"} ELSE {"wait"})

Pending == {s \in Steps : status[s] = "pending"}

\* before_submit for the next step, which may end the pass.
SubmitStops ==
    /\ pc = "submit" /\ ~stopping
    /\ ctl.requested \/ (Pending # {} /\ Checked.requested)
    /\ IF ctl.requested THEN UNCHANGED <<ctl, ph>> ELSE ctl' = Checked /\ ph' = Advanced
    /\ pc' = "end"
    /\ UNCHANGED <<steps, next, pending, batch, closed, stopping, sent, ghosts>>

\* What before_submit leaves for a step that is looked at.
LooksAt(s) ==
    /\ pc = "submit" /\ s \in Pending \ inflight
    /\ stopping \/ ~Checked.requested
    /\ ph' = IF stopping THEN ph ELSE Advanced

\* Phases that end with these statuses, not by a failure or a stop, and where
\* the run is to be stopped then.
Reached(st) ==
    {p \in Phases :
        /\ ~Over(p) /\ \A s \in Members(p) : st[s] \in {"success", "skipped", "unneeded"}
        /\ p = ph.runOne \/ (Policy[p] = "stop_after" /\ Receipt(p, st) = "success")}

\* A failure that is not passed over asks for a pause.
OnFailure(s) ==
    ctl' = IF status'[s] = "failed" /\ s \notin Lenient THEN PauseAt(ctl, "phases") ELSE ctl

\* _resolve
ResolveStep(s) ==
    /\ LooksAt(s)
    /\ \E verdict \in Verdicts(s) \ {"running", "wait"} : status' = [status EXCEPT ![s] = verdict]
    /\ OnFailure(s) /\ unpassed' = unpassed \cup Reached(status')
    /\ UNCHANGED <<gen, worker, workerGen, pc, next, pending, batch, closed, stopping, sent,
                   byHand, stopped, barred>>

\* Found ready, before the lock of the control is taken.
Choose(s) ==
    /\ LooksAt(s) /\ "running" \in Verdicts(s)
    /\ next' = s /\ pc' = "launch"
    /\ UNCHANGED <<steps, pending, batch, closed, ctl, stopping, sent, ghosts>>

\* Mutant: what was found ready is started whatever was asked for since.
StillMayAnyway == TRUE

\* Under the lock that a pause is submitted under.
StillMay == ~ctl.requested \/ stopping

\* _start
Launch ==
    /\ pc = "launch"
    /\ IF StillMay
       THEN /\ status' = [status EXCEPT ![next] = "running"]
            /\ worker' = [worker EXCEPT ![next] = "working"]
            /\ workerGen' = [workerGen EXCEPT ![next] = gen[next]]
            /\ pc' = "submit"
            /\ UNCHANGED gen
       ELSE pc' = "end" /\ UNCHANGED steps
    /\ next' = 0
    /\ UNCHANGED <<pending, batch, closed, ctl, ph, stopping, sent, ghosts>>

EndSubmit ==
    /\ pc = "submit" /\ (stopping \/ ~ctl.requested)
    /\ \A s \in Pending \ inflight : "wait" \in Verdicts(s)
    /\ stopping \/ Pending = {} \/ ~Checked.requested
    /\ ph' = IF stopping \/ Pending = {} THEN ph ELSE Advanced
    /\ pc' = "end"
    /\ UNCHANGED <<steps, next, pending, batch, closed, ctl, stopping, sent, ghosts>>

\* The loop ends with nothing in flight, unless a pause was noted.
EndTurn ==
    /\ pc = "end"
    /\ IF inflight # {} \/ ctl.paused THEN pc' = "take" /\ UNCHANGED ph
       ELSE IF ctl.pauseRequested THEN pc' = "controls" /\ UNCHANGED ph
       ELSE pc' = "closing" /\ ph' = [ph EXCEPT !.receipt = Refreshed]
    /\ UNCHANGED <<steps, next, pending, batch, closed, ctl, stopping, sent, ghosts>>

\* _record
Record(s) ==
    /\ pc \in {"take", "draining"} /\ worker[s] \in Results
    /\ status' = [status EXCEPT ![s] = IF stopping /\ worker[s] = "failed" THEN "cancelled"
                                       ELSE worker[s]]
    /\ worker' = [worker EXCEPT ![s] = "no"]
    /\ OnFailure(s) /\ unpassed' = unpassed \cup Reached(status')
    /\ pc' = IF pc = "take" THEN "controls" ELSE pc
    /\ UNCHANGED <<gen, workerGen, next, pending, batch, closed, ph, stopping, sent, byHand,
                   stopped, barred>>

\* _take: woken, or out of time.
TakeNothing ==
    /\ pc = "take"
    /\ pc' = "controls"
    /\ UNCHANGED <<steps, next, pending, batch, closed, ctl, ph, stopping, sent, ghosts>>

\* drive, finally: no more commands, and nothing stays held.
Close ==
    /\ pc = "closing"
    /\ closed' = TRUE /\ stopping' = TRUE /\ ctl' = [ctl EXCEPT !.holding = FALSE]
    /\ pc' = "draining"
    /\ UNCHANGED <<steps, next, pending, batch, ph, sent, ghosts>>

\* _drain and _resolve_remaining; an exported run keeps what is pending.
EndDrain ==
    /\ pc = "draining"
    /\ status' = IF ctl.paused THEN status
                 ELSE [s \in Steps |-> IF status[s] \in Terminal THEN status[s] ELSE "cancelled"]
    /\ pc' = "over"
    /\ UNCHANGED <<gen, worker, workerGen, next, pending, batch, closed, ctl, ph, stopping, sent,
                   ghosts>>

-----------------------------------------------------------------------------
(* Workers.                                                                *)

Outcomes(s) ==
    {"success"} \cup (IF s \in Fragile THEN {"failed"} ELSE {})
                \cup (IF stopping THEN {"cancelled"} ELSE {})

Return(s, result) ==
    /\ worker[s] = "working" /\ ~Held(s) /\ result \in Outcomes(s)
    /\ worker' = [worker EXCEPT ![s] = result]
    /\ UNCHANGED <<status, gen, workerGen, pc, next, pending, batch, closed, ctl, ph, stopping,
                   sent, ghosts>>

Loop ==
    \/ DrainControl \/ Apply \/ EndApply \/ Gate \/ SubmitStops \/ Launch \/ EndSubmit
    \/ EndTurn \/ TakeNothing \/ Close \/ EndDrain
    \/ \E s \in Steps : ResolveStep(s) \/ Choose(s) \/ Record(s)

Work(s) == \E result \in Results : Return(s, result)

Person == PressStop \/ \E command \in Says : Submit(command)

Next == Loop \/ Person \/ \E s \in Steps : Work(s)

Spec == Init /\ [][Next]_vars

\* The loop goes on, and takes a result where there is one before its time is
\* up; a worker comes to an end, unless it is held.
FairSpec ==
    /\ Spec
    /\ WF_vars(Loop) /\ \A s \in Steps : SF_vars(Record(s)) /\ WF_vars(Work(s))

-----------------------------------------------------------------------------
TypeOK ==
    /\ status \in [Steps -> Statuses] /\ gen \in [Steps -> 0..MaxCommands]
    /\ worker \in [Steps -> {"no", "working"} \cup Results]
    /\ workerGen \in [Steps -> 0..MaxCommands]
    /\ pc \in {"controls", "apply", "gate", "submit", "launch", "end", "take", "closing",
               "draining", "over"}
    /\ next \in Steps \cup {0} /\ (next # 0 <=> pc = "launch")
    /\ pending \in Seq(Commands) /\ batch \in Seq(Commands) /\ sent \in 0..MaxCommands
    /\ ctl \in [requested : BOOLEAN, pauseRequested : BOOLEAN, paused : BOOLEAN,
                why : {"none", "user_request", "phases"}, holding : BOOLEAN]
    /\ ph \in [receipt : [Phases -> {"none", "success", "failed", "skipped", "invalidated"}],
               consumed : SUBSET Phases, allowed : SUBSET Phases, runOne : Phases \cup {0}]
    /\ {closed, stopping, stopped, barred} \subseteq BOOLEAN
    /\ unpassed \subseteq Phases /\ byHand \subseteq Phases

\* Whatever is paused, retried and continued: a step runs only after every
\* phase before its own ended without a failure, in a manual phase only by a
\* person's word, and before the approval of its phase only as that approval.
PhasesKept ==
    \A s \in Steps : status[s] = "running" =>
        /\ \A p \in 1..PhaseOf[s] - 1 : Over(p) /\ ~Failed(p)
        /\ Policy[PhaseOf[s]] = "manual" => PhaseOf[s] \in byHand
        /\ Approved(s)

\* A phase that ends the run's way with a boundary is not gone past before a
\* command was accepted that came after its end, even where the run was being
\* paused for another reason just then.
BoundaryKept ==
    [][\A s \in Steps : status[s] = "pending" /\ status'[s] = "running" =>
            \A p \in unpassed : PhaseOf[s] <= p]_vars

\* "A retry is a new plugin execution, with a matched cleanup/prepare
\* lifecycle" (executor.py): a worker in flight, whose result will be recorded
\* as its step's, was started for the execution the step is in.
OwnResult == \A s \in inflight : workerGen[s] = gen[s]

\* A pause bars new submissions at once: nothing starts after it was accepted,
\* not even what was found ready before, until a command is accepted.
PauseBars ==
    [][\A s \in Steps : status[s] = "pending" /\ status'[s] = "running" =>
            ~barred \/ stopping]_vars

\* An accepted pause comes, without waiting for what can be held.
PauseComes ==
    (\E i \in DOMAIN pending : pending[i].what = "pause") ~> (ctl.paused \/ pc = "over")

\* A run that is stopped, paused or not, comes to its end.
StopEnds == stopping ~> pc = "over"

\* "Pending steps stay pending" (docs/cycles.md, of a pause): only a stop
\* cancels a step.
PendingStaysPending == stopped \/ \A s \in Steps : status[s] # "cancelled"

\* "Continue proceeds in the same live executor" (docs/cycles.md): it is
\* accepted in every pause that offers it, which `_state` does where no phase
\* has failed and the next one is not manual.
ContinueProceeds ==
    [][/\ pc = "apply" /\ batch # <<>> /\ batch' # batch
       /\ Head(batch) = Command("continue", 0) /\ ctl.paused
       /\ Frontier \in Phases => ~Failed(Frontier) /\ Policy[Frontier] # "manual"
       => ~ctl'.paused]_vars
=============================================================================
