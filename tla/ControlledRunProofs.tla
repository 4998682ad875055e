------------------------ MODULE ControlledRunProofs -------------------------
(***************************************************************************)
(* Theorems about PauseControl and ControlledRun: what a person's commands *)
(* may not do to the order of the phases, that what a pause and a boundary *)
(* bar stays barred whatever races with them, and that a phase is approved *)
(* by an answer to the question of the very execution of its gate.         *)
(*                                                                         *)
(* The proofs rest on one fact about a step of the loop, DoneStays: what   *)
(* lies behind the first phase that has not ended well is never touched    *)
(* again, a retry of that phase included.                                  *)
(***************************************************************************)
EXTENDS ControlledRun, StepGraphProofs, SequenceTheorems, WellFoundedInduction, TLAPS

-----------------------------------------------------------------------------
(* The phases before one, and the first that has not ended well.           *)

LastPhase == Len(Policy)

\* Every phase before p ended, and none of them with a failure.
Behind(p) == \A q \in 1..p - 1 : Over(q) /\ ~Failed(q)

\* A nonempty set of naturals has the minimum that frontier takes.
LEMMA MinIsLeast ==
    ASSUME NEW S \in SUBSET Nat, S # {}
    PROVE  Min(S) \in S /\ \A x \in S : Min(S) <= x
<1> DEFINE R == OpToRel(<, Nat)
<1>1. PICK m \in S : \A y \in S : ~(<<y, m>> \in R)
      BY NatLessThanWellFounded, WFMin
<1>2. \A y \in S : m <= y
  <2> TAKE y \in S
  <2>1. m \in Nat /\ y \in Nat
        OBVIOUS
  <2>2. ~(y < m)
        BY <1>1, <2>1 DEF OpToRel
  <2> QED BY <2>1, <2>2
<1> QED BY <1>2 DEF Min

\* Phases are numbered from 1 in file order, and each step is in one of them.
LEMMA PhasesNumbered ==
    /\ LastPhase \in Nat /\ Phases = 1..LastPhase
    /\ \A s \in Steps : PhaseOf[s] \in 1..LastPhase
    /\ \A p \in Phases : Policy[p] \in Policies
    /\ Gates \subseteq 1..LastPhase
    /\ \A p \in Gates : ApprovalOf[p] \in Steps /\ PhaseOf[ApprovalOf[p]] = p
    /\ Askers \subseteq Steps
<1>1. LastPhase \in Nat /\ Phases = 1..LastPhase
      BY PhasesAssumption DEF LastPhase, Phases
<1>2. \A p \in Phases : Policy[p] \in Policies
      BY PhasesAssumption DEF Phases
<1> QED BY <1>1, <1>2, PhasesAssumption DEF Gates, Members, Askers

\* frontier is the first phase that has not ended well, or past the last.
LEMMA FrontierIs ==
    /\ Frontier \in 1..LastPhase + 1
    /\ Behind(Frontier)
    /\ Frontier \in Phases => ~Over(Frontier) \/ Failed(Frontier)
<1> DEFINE open == {p \in Phases : ~Over(p) \/ Failed(p)} \cup {LastPhase + 1}
<1>1. open \in SUBSET (1..LastPhase + 1) /\ open # {}
      BY PhasesNumbered
<1>2. Frontier \in open /\ \A x \in open : Frontier <= x
  <2>1. Frontier = Min(open)
        BY DEF Frontier, LastPhase
  <2>2. open \in SUBSET Nat
        BY <1>1, PhasesNumbered
  <2> HIDE DEF open
  <2> QED BY <1>1, <2>1, <2>2, MinIsLeast
<1>3. Frontier \in Phases => ~Over(Frontier) \/ Failed(Frontier)
      BY <1>2, PhasesNumbered
<1>4. ASSUME NEW q \in 1..Frontier - 1 PROVE Over(q) /\ ~Failed(q)
      BY <1>1, <1>2, PhasesNumbered
<1> QED BY <1>1, <1>2, <1>3, <1>4 DEF Behind

\* Whatever lies behind lies before the frontier.
LEMMA BehindFrontier ==
    ASSUME NEW p \in 1..LastPhase + 1, Behind(p)
    PROVE  p <= Frontier
BY FrontierIs, PhasesNumbered DEF Behind

\* What follows from a step is in no earlier phase than the step.
LEMMA DownstreamLater ==
    ASSUME NEW S \in SUBSET Steps, NEW p \in Nat, \A r \in S : p <= PhaseOf[r],
           NEW s \in Downstream(S)
    PROVE  s \in Steps /\ p <= PhaseOf[s]
<1> DEFINE C == {t \in Steps : p <= PhaseOf[t]}
<1>1. C \in SUBSET Steps /\ S \subseteq C
      OBVIOUS
<1>2. ClosedForward(C)
  <2> SUFFICES ASSUME NEW t \in Steps, NEW n \in Needs[t], n \in C PROVE t \in C
        BY DEF ClosedForward
  <2>1. PhaseOf[n] <= PhaseOf[t]
        BY PhasesAssumption
  <2> QED BY <2>1, PhasesNumbered
<1> QED BY <1>1, <1>2 DEF Downstream

-----------------------------------------------------------------------------
(* Types.                                                                  *)

Ctl ==
    [requested : BOOLEAN, pauseRequested : BOOLEAN, paused : BOOLEAN,
     why : {"none", "user_request", "phases"}, holding : BOOLEAN]
ReceiptValues == {"none", "success", "failed", "skipped", "invalidated"}
PhaseRecords ==
    [receipt : [Phases -> ReceiptValues], consumed : SUBSET Phases, allowed : SUBSET Phases,
     runOne : Phases \cup {0}]

\* A generation is a command that was accepted, and each is accepted once: as
\* many as a person sent, without those still to be looked at.
CommandsBound == \A s \in Steps : gen[s] + Len(pending) + Len(batch) <= sent

\* What a pause that is noted asks for, and what a turn does before it submits.
Flags ==
    /\ ctl.pauseRequested => ctl.requested
    /\ ctl.paused => pc \notin {"submit", "launch"}
    /\ pc \in {"draining", "over"} => stopping

\* pause_at
LEMMA PauseAtIs ==
    ASSUME NEW c \in Ctl, NEW why \in {"user_request", "phases"}
    PROVE  /\ PauseAt(c, why) \in Ctl
           /\ PauseAt(c, why).pauseRequested
           /\ PauseAt(c, why).paused = c.paused /\ PauseAt(c, why).holding = c.holding
           /\ c.pauseRequested => PauseAt(c, why) = c
           /\ ~c.pauseRequested => PauseAt(c, why).requested
BY DEF PauseAt, Ctl

\* What before_submit says and notes.
LEMMA CheckedIs ==
    ASSUME ctl \in Ctl, ctl.pauseRequested => ctl.requested
    PROVE  /\ Checked \in Ctl
           /\ Checked.pauseRequested => Checked.requested
           /\ ctl.requested => Checked.requested
           /\ Checked.paused = ctl.paused
           /\ IF Stops = "none" THEN Checked = ctl ELSE Checked.requested
<1>1. CASE Stops = "none"
      BY <1>1 DEF Checked
<1>2. CASE Stops # "none"
  <2>1. Checked = PauseAt(ctl, "phases")
        BY <1>2 DEF Checked
  <2> QED BY <1>2, <2>1, PauseAtIs
<1> QED BY <1>1, <1>2

\* before_submit marks the first boundary that the run was not stopped at.
LEMMA BoundaryIs ==
    ASSUME Stops = "boundary"
    PROVE  Min(Boundaries) \in Boundaries /\ Min(Boundaries) \in 1..Frontier - 1
<1>1. Boundaries # {}
      BY DEF Stops
<1>2. Boundaries \in SUBSET Nat
      BY FrontierIs, PhasesNumbered DEF Boundaries
<1>3. Min(Boundaries) \in Boundaries
      BY <1>1, <1>2, MinIsLeast
<1> QED BY <1>3 DEF Boundaries

LEMMA RefreshedIs ==
    ASSUME ph \in PhaseRecords
    PROVE  Refreshed \in [Phases -> ReceiptValues]
BY DEF Refreshed, Receipt, ReceiptValues, PhaseRecords

LEMMA AdvancedIs ==
    ASSUME ph \in PhaseRecords
    PROVE  /\ Advanced \in PhaseRecords
           /\ Advanced.allowed = ph.allowed
           /\ Advanced.runOne = IF Frontier \in Phases THEN ph.runOne ELSE 0
           /\ Advanced.consumed =
                  IF Stops = "boundary" THEN ph.consumed \cup {Min(Boundaries)} ELSE ph.consumed
<1>1. Refreshed \in [Phases -> ReceiptValues]
      BY RefreshedIs
<1>2. Stops = "boundary" => Min(Boundaries) \in Phases
      BY BoundaryIs, FrontierIs, PhasesNumbered
<1> QED BY <1>1, <1>2 DEF Advanced, PhaseRecords

\* _enter_pause
LEMMA EnterPauseIs ==
    ASSUME NEW c \in Ctl, c.pauseRequested => c.requested
    PROVE  /\ EnterPause(c) \in Ctl
           /\ EnterPause(c).pauseRequested => EnterPause(c).requested
           /\ c.requested => EnterPause(c).requested \/ ~Unfinished
BY DEF EnterPause, Ctl

\* One turn's gate: the pause it enters, and what it leaves asked for.
LEMMA GateIs ==
    ASSUME Gate, ctl \in Ctl, ctl.pauseRequested => ctl.requested
    PROVE  /\ ctl' \in Ctl
           /\ ctl'.pauseRequested => ctl'.requested
           /\ stopping => ~ctl'.paused /\ ph' = ph
           /\ ~stopping => ph' = Advanced
           /\ ~stopping /\ (ctl.requested \/ Stops # "none") => ctl'.requested \/ ~Unfinished
           /\ pc' \in {"submit", "end", "closing"}
           /\ pc' = "submit" => ~ctl'.paused
<1> DEFINE c == IF Checked.requested THEN PauseAt(Checked, "user_request") ELSE Checked
<1>1. CASE stopping
      BY <1>1 DEF Gate, StopReleases, Ctl
<1>2. CASE ~stopping
  <2>1. c \in Ctl /\ (c.pauseRequested => c.requested)
        /\ (ctl.requested \/ Stops # "none" => c.requested)
        BY CheckedIs, PauseAtIs DEF Ctl
  <2>2. ctl' = EnterPause(c)
        BY <1>2 DEF Gate
  <2> HIDE DEF c
  <2>3. /\ ctl' \in Ctl
        /\ ctl'.pauseRequested => ctl'.requested
        /\ c.requested => ctl'.requested \/ ~Unfinished
        BY <2>1, <2>2, EnterPauseIs
  <2> QED BY <1>2, <2>1, <2>3 DEF Gate
<1> QED BY <1>1, <1>2

Base == TypeOK /\ CommandsBound /\ Flags

LEMMA BaseIs ==
    ASSUME Base
    PROVE  /\ ctl \in Ctl /\ ph \in PhaseRecords
           /\ ctl.pauseRequested => ctl.requested
           /\ \A s \in Steps : gen[s] \in Nat /\ gen[s] + Len(pending) + Len(batch) <= sent
           /\ Len(pending) \in Nat /\ Len(batch) \in Nat /\ sent \in Nat
           /\ gen \in [Steps -> Nat]
           /\ MaxCommands \in Nat /\ sent <= MaxCommands
BY PauseAssumption, LenProperties
DEF Base, TypeOK, CommandsBound, Flags, Ctl, PhaseRecords, ReceiptValues

\* The steps of the loop that leave every step as it is.
LEMMA ControlTypes ==
    ASSUME Base, DrainControl \/ EndApply \/ EndTurn \/ TakeNothing \/ Close
    PROVE  Base'
<1>1. CASE DrainControl
      BY <1>1, BaseIs, EmptySeq, LenProperties
      DEF DrainControl, Base, TypeOK, CommandsBound, Flags, steps, ghosts
<1>2. CASE EndApply
      BY <1>2, BaseIs DEF EndApply, Base, TypeOK, CommandsBound, Flags, steps, ghosts
<1>3. CASE EndTurn
  <2>1. ph' \in PhaseRecords
        BY <1>3, BaseIs, RefreshedIs DEF EndTurn, PhaseRecords
  <2> QED BY <1>3, <2>1, BaseIs
          DEF EndTurn, Base, TypeOK, CommandsBound, Flags, steps, ghosts, PhaseRecords, ReceiptValues
<1>4. CASE TakeNothing
      BY <1>4, BaseIs DEF TakeNothing, Base, TypeOK, CommandsBound, Flags, steps, ghosts
<1>5. CASE Close
      BY <1>5, BaseIs DEF Close, Base, TypeOK, CommandsBound, Flags, steps, ghosts
<1> QED BY <1>1, <1>2, <1>3, <1>4, <1>5

LEMMA PhaseTypes ==
    ASSUME Base, Gate \/ SubmitStops \/ EndSubmit \/ \E s \in Steps : Choose(s)
    PROVE  Base'
<1> USE DEF Ctl, PhaseRecords, ReceiptValues
<1>1. CASE Gate
      BY <1>1, BaseIs, GateIs, AdvancedIs
      DEF Gate, Base, TypeOK, CommandsBound, Flags, steps, ghosts
<1>2. CASE SubmitStops
      BY <1>2, BaseIs, CheckedIs, AdvancedIs
      DEF SubmitStops, Base, TypeOK, CommandsBound, Flags, steps, ghosts
<1>3. CASE EndSubmit
      BY <1>3, BaseIs, AdvancedIs DEF EndSubmit, Base, TypeOK, CommandsBound, Flags, steps, ghosts
<1>4. ASSUME NEW s \in Steps, Choose(s) PROVE Base'
  <2>1. ph' \in PhaseRecords
        BY <1>4, BaseIs, AdvancedIs DEF Choose, LooksAt
  <2>2. next' \in Steps /\ next' # 0 /\ pc' = "launch"
        BY <1>4, NAssumption DEF Choose, Steps
  <2>3. ~ctl.paused
        BY <1>4 DEF Choose, LooksAt, Base, Flags
  <2> QED BY <1>4, <2>1, <2>2, <2>3, BaseIs
          DEF Choose, Base, TypeOK, CommandsBound, Flags, steps, ghosts
<1> QED BY <1>1, <1>2, <1>3, <1>4

LEMMA PersonTypes ==
    ASSUME Base, Person
    PROVE  Base'
<1>1. CASE PressStop
      BY <1>1, BaseIs DEF PressStop, Base, TypeOK, CommandsBound, Flags, steps, ghosts
<1>2. ASSUME NEW c \in Says, Submit(c) PROVE Base'
  <2>1. c \in Commands
        BY PauseAssumption
  <2>2. pending' \in Seq(Commands) /\ Len(pending') = Len(pending) + 1
        BY <1>2, <2>1, AppendProperties DEF Submit, Base, TypeOK
  <2>3. ctl' \in Ctl /\ (ctl'.pauseRequested => ctl'.requested) /\ ctl'.paused = ctl.paused
        BY <1>2, BaseIs DEF Submit, Ctl
  <2>4. sent' \in 0..MaxCommands /\ sent' = sent + 1
        BY <1>2, BaseIs DEF Submit
  <2>5. UNCHANGED <<status, gen, worker, workerGen, pc, next, batch, closed, ph, stopping, unpassed,
                    byHand, stopped>>
        BY <1>2 DEF Submit, steps
  <2>6. barred' \in BOOLEAN
        BY <1>2 DEF Submit
  <2>7. CommandsBound'
        BY <2>2, <2>4, <2>5, BaseIs DEF CommandsBound
  <2>8. TypeOK'
        BY <2>2, <2>3, <2>4, <2>5, <2>6 DEF Base, TypeOK, Ctl
  <2> QED BY <2>3, <2>5, <2>7, <2>8 DEF Base, Flags
<1> QED BY <1>1, <1>2 DEF Person

\* What is said of a step that does not run.
LEMMA ResolveIs ==
    ASSUME Base, NEW s \in Steps, ResolveStep(s)
    PROVE  /\ LooksAt(s) /\ status[s] = "pending" /\ worker[s] = "no" /\ pc = "submit"
           /\ status' = [status EXCEPT ![s] = status'[s]]
           /\ status'[s] \in {"skipped", "unneeded", "failed", "cancelled"}
           /\ IF stopping THEN status'[s] = "cancelled"
              ELSE status'[s] # "cancelled" /\ ~ctl.requested /\ InPhase(s)
           /\ status'[s] = "failed" => s \in Unreadable \/ Approved(s)
           /\ ctl' \in Ctl /\ (ctl'.pauseRequested => ctl'.requested) /\ ctl'.paused = ctl.paused
           /\ ctl.requested => ctl'.requested
           /\ unpassed' = unpassed \cup Reached(status')
           /\ UNCHANGED <<gen, worker, workerGen, pc, next, stopping, byHand, stopped, barred>>
<1>1. PICK v \in Verdicts(s) \ {"running", "wait"} : status' = [status EXCEPT ![s] = v]
      BY DEF ResolveStep
<1>2. /\ v \in {"skipped", "unneeded", "failed", "cancelled"}
      /\ IF stopping THEN v = "cancelled" ELSE v # "cancelled" /\ ~ctl.requested /\ InPhase(s)
      /\ v = "failed" => s \in Unreadable \/ Approved(s)
      BY DEF Verdicts
<1>3. status'[s] = v
      BY <1>1 DEF Base, TypeOK
<1>4. /\ ctl' \in Ctl /\ (ctl'.pauseRequested => ctl'.requested) /\ ctl'.paused = ctl.paused
      /\ ctl.requested => ctl'.requested
      BY BaseIs, PauseAtIs DEF ResolveStep, OnFailure
<1>5. LooksAt(s) /\ status[s] = "pending" /\ worker[s] = "no" /\ pc = "submit"
      BY DEF ResolveStep, LooksAt, Pending, inflight
<1> QED BY <1>1, <1>2, <1>3, <1>4, <1>5 DEF ResolveStep

LEMMA StepTypes ==
    ASSUME Base,
           \/ Launch \/ EndDrain
           \/ \E s \in Steps : ResolveStep(s) \/ Record(s) \/ Work(s)
    PROVE  Base'
<1> USE DEF Ctl, PhaseRecords, ReceiptValues
<1>1. CASE Launch
  <2>1. next \in Steps /\ ~ctl.paused
        BY <1>1 DEF Launch, Base, TypeOK, Flags
  <2>2. /\ status' \in [Steps -> Statuses] /\ worker' \in [Steps -> {"no", "working"} \cup Results]
        /\ workerGen' \in [Steps -> 0..MaxCommands] /\ gen' = gen
    <3>1. CASE StillMay
      <4>1. /\ status' = [status EXCEPT ![next] = "running"]
            /\ worker' = [worker EXCEPT ![next] = "working"]
            /\ workerGen' = [workerGen EXCEPT ![next] = gen[next]]
            /\ gen' = gen
            BY <1>1, <3>1 DEF Launch
      <4>2. /\ status \in [Steps -> Statuses]
            /\ worker \in [Steps -> {"no", "working"} \cup Results]
            /\ workerGen \in [Steps -> 0..MaxCommands] /\ gen[next] \in 0..MaxCommands
            BY <2>1 DEF Base, TypeOK
      <4>3. "running" \in Statuses
            BY DEF Statuses
      <4> QED BY <2>1, <4>1, <4>2, <4>3
    <3>2. CASE ~StillMay
          BY <1>1, <3>2 DEF Launch, Base, TypeOK, steps
    <3> QED BY <3>1, <3>2
  <2>3. pc' \in {"submit", "end"} /\ next' = 0
        BY <1>1 DEF Launch
  <2> QED BY <1>1, <2>1, <2>2, <2>3 DEF Launch, Base, TypeOK, CommandsBound, Flags, ghosts
<1>2. CASE EndDrain
      BY <1>2, BaseIs DEF EndDrain, Base, TypeOK, CommandsBound, Flags, steps, ghosts, Statuses
<1>3. ASSUME NEW s \in Steps, ResolveStep(s) PROVE Base'
  <2>1. /\ status' \in [Steps -> Statuses]
        /\ ctl' \in Ctl /\ (ctl'.pauseRequested => ctl'.requested) /\ ctl'.paused = ctl.paused
        BY <1>3, ResolveIs DEF Base, TypeOK, Statuses
  <2>2. ph' \in PhaseRecords /\ unpassed' \subseteq Phases
        BY <1>3, BaseIs, AdvancedIs DEF ResolveStep, LooksAt, Reached, Base, TypeOK
  <2> QED BY <1>3, <2>1, <2>2, BaseIs
          DEF ResolveStep, Base, TypeOK, CommandsBound, Flags, steps, ghosts
<1>4. ASSUME NEW s \in Steps, Record(s) PROVE Base'
  <2>1. ctl' \in Ctl /\ (ctl'.pauseRequested => ctl'.requested) /\ ctl'.paused = ctl.paused
        BY <1>4, BaseIs, PauseAtIs DEF Record, OnFailure
  <2>2. status' \in [Steps -> Statuses] /\ worker' \in [Steps -> {"no", "working"} \cup Results]
        BY <1>4 DEF Record, Base, TypeOK, Results, Statuses
  <2> QED BY <1>4, <2>1, <2>2, BaseIs
          DEF Record, Base, TypeOK, CommandsBound, Flags, steps, ghosts, Reached
<1>5. ASSUME NEW s \in Steps, NEW r \in Results, Return(s, r) PROVE Base'
      BY <1>5, BaseIs DEF Return, Base, TypeOK, CommandsBound, Flags, steps, ghosts
<1> QED BY <1>1, <1>2, <1>3, <1>4, <1>5 DEF Work

-----------------------------------------------------------------------------
(* What a command changes.                                                 *)

\* What _apply_controls may do with the next command of the batch.
Continues(c) == ctl.paused /\ MayContinue(c) /\ ContinuePhase(c) /\ Continue /\ UNCHANGED stopped
Retries(c) ==
    ctl.paused /\ MayRetry(c.phase) /\ RetryPhase(c.phase) /\ Continue /\ UNCHANGED stopped
Pauses == ctl' = PauseAt(ctl, "user_request") /\ UNCHANGED <<steps, ph, ghosts>>

LEMMA ApplyIs ==
    ASSUME Base, Apply
    PROVE  /\ Head(batch) \in Commands
           /\ Continues(Head(batch)) \/ Retries(Head(batch)) \/ Pauses \/ Refuse
           /\ batch' = Tail(batch) /\ batch' \in Seq(Commands) /\ Len(batch') = Len(batch) - 1
           /\ pc = "apply" /\ UNCHANGED <<pc, next, pending, closed, stopping, sent>>
<1>1. batch \in Seq(Commands) /\ batch # <<>>
      BY DEF Apply, Base, TypeOK
<1>2. Continues(Head(batch)) \/ Retries(Head(batch)) \/ Pauses \/ Refuse
      BY DEF Apply, Continues, Retries, Pauses
<1> QED BY <1>1, <1>2, HeadTailProperties DEF Apply

\* A phase that is retried is the frontier, and what is retried is no earlier.
LEMMA RetriedIs ==
    ASSUME NEW p, MayRetry(p)
    PROVE  /\ p = Frontier /\ p \in Phases
           /\ \A s \in Retried(p) : s \in Steps /\ status[s] # "success" /\ p <= PhaseOf[s]
<1>1. p = Frontier /\ p \in Nat
      BY FrontierIs, PhasesNumbered DEF MayRetry
<1>2. PICK r \in Members(p) : TRUE
      BY DEF MayRetry, RetryRoots
<1>3. p \in Phases
      BY <1>2, PhasesNumbered DEF Members
<1>4. RetryRoots(p) \in SUBSET Steps /\ \A t \in RetryRoots(p) : p <= PhaseOf[t]
      BY <1>1 DEF RetryRoots, Members
<1>5. ASSUME NEW s \in Retried(p) PROVE s \in Steps /\ status[s] # "success" /\ p <= PhaseOf[s]
  <2>1. CASE s \in Downstream(RetryRoots(p))
        BY <1>1, <1>4, <1>5, <2>1, DownstreamLater DEF Retried
  <2>2. CASE s \in Members(p)
        BY <1>1, <1>5, <2>2 DEF Retried, Members
  <2> QED BY <1>5, <2>1, <2>2 DEF Retried
<1> QED BY <1>1, <1>3, <1>5

LEMMA ApplyTypes ==
    ASSUME Base, Apply
    PROVE  Base'
<1> DEFINE c == Head(batch)
<1>1. /\ c \in Commands
      /\ batch' \in Seq(Commands) /\ Len(batch') = Len(batch) - 1
      /\ pc = "apply" /\ UNCHANGED <<pc, next, pending, closed, stopping, sent>>
      BY ApplyIs
<1> HIDE DEF c
<1>2. CASE Continues(c)
  <2>1. Frontier \in Phases
        BY <1>2 DEF Continues, MayContinue
  <2>2. ph' \in PhaseRecords /\ ctl' = Going /\ ctl' \in Ctl
        BY <1>2, <2>1, BaseIs DEF Continues, ContinuePhase, Continue, Going, PhaseRecords, Ctl
  <2>3. byHand' \subseteq Phases /\ unpassed' = {} /\ barred' = FALSE /\ stopped' = stopped
        BY <1>2, <2>1 DEF Continues, ContinuePhase, Continue, Base, TypeOK
  <2>4. UNCHANGED steps
        BY <1>2 DEF Continues, ContinuePhase
  <2>5. CommandsBound'
        BY <1>1, <2>4, BaseIs DEF CommandsBound, steps
  <2>6. Flags'
        BY <1>1, <2>2 DEF Flags, Going
  <2>7. TypeOK'
        BY <1>1, <2>2, <2>3, <2>4 DEF Base, TypeOK, steps, Ctl, PhaseRecords, ReceiptValues
  <2> QED BY <2>5, <2>6, <2>7 DEF Base
<1>3. CASE Retries(c)
  <2>1. c.phase \in Phases
        BY <1>3, RetriedIs DEF Retries
  <2>2. ph' \in PhaseRecords /\ ctl' = Going /\ ctl' \in Ctl
        BY <1>3, <2>1, BaseIs DEF Retries, RetryPhase, Continue, Going, PhaseRecords, Ctl
  <2>3. unpassed' = {} /\ barred' = FALSE /\ UNCHANGED <<worker, workerGen, byHand, stopped>>
        BY <1>3 DEF Retries, RetryPhase, Continue
  <2>4. status' \in [Steps -> Statuses]
        BY <1>3 DEF Retries, RetryPhase, Base, TypeOK, Statuses
  <2>5. \A s \in Steps : gen'[s] \in Nat /\ gen'[s] <= gen[s] + 1
        BY <1>3, BaseIs DEF Retries, RetryPhase
  <2>6. \A s \in Steps : gen'[s] + Len(pending) + Len(batch') <= sent
        BY <1>1, <2>5, BaseIs
  <2>7. gen' \in [Steps -> 0..MaxCommands]
    <3>1. \A s \in Steps : gen'[s] \in 0..MaxCommands
          BY <1>1, <2>5, <2>6, BaseIs, LenProperties
    <3>2. gen' = [s \in Steps |-> gen'[s]]
          BY <1>3 DEF Retries, RetryPhase
    <3> QED BY <3>1, <3>2
  <2>8. CommandsBound'
        BY <1>1, <2>6 DEF CommandsBound
  <2>9. Flags'
        BY <1>1, <2>2 DEF Flags, Going
  <2>10. TypeOK'
        BY <1>1, <2>2, <2>3, <2>4, <2>7 DEF Base, TypeOK, Ctl, PhaseRecords, ReceiptValues
  <2> QED BY <2>8, <2>9, <2>10 DEF Base
<1>4. CASE Pauses \/ Refuse
  <2>1. ctl' \in Ctl /\ (ctl'.pauseRequested => ctl'.requested) /\ ctl'.paused = ctl.paused
        BY <1>4, BaseIs, PauseAtIs DEF Pauses, Refuse
  <2> QED BY <1>1, <1>4, <2>1, BaseIs
          DEF Pauses, Refuse, Base, TypeOK, CommandsBound, Flags, steps, ghosts, Ctl
<1> QED BY <1>2, <1>3, <1>4, ApplyIs DEF c

\* Whatever a step of the run is, it is one of these.
LEMMA BaseStep ==
    ASSUME Base, Next
    PROVE  Base'
BY ControlTypes, PhaseTypes, PersonTypes, StepTypes, ApplyTypes DEF Next, Loop

LEMMA BaseStutters ==
    ASSUME Base, UNCHANGED vars
    PROVE  Base'
BY DEF Base, TypeOK, CommandsBound, Flags, vars, steps, ghosts

LEMMA BaseInit ==
    ASSUME Init
    PROVE  Base
<1>1. TypeOK
  <2>1. /\ status \in [Steps -> Statuses] /\ gen \in [Steps -> 0..MaxCommands]
        /\ worker \in [Steps -> {"no", "working"} \cup Results]
        /\ workerGen \in [Steps -> 0..MaxCommands] /\ sent \in 0..MaxCommands
        BY PauseAssumption DEF Init, Statuses
  <2>2. pending \in Seq(Commands) /\ batch \in Seq(Commands)
        BY EmptySeq DEF Init
  <2>3. ctl \in Ctl /\ ph \in PhaseRecords
        BY DEF Init, Going, Ctl, PhaseRecords, ReceiptValues
  <2>4. next = 0 /\ pc = "controls" /\ unpassed = {} /\ byHand = {}
        /\ {closed, stopping, stopped, barred} \subseteq BOOLEAN
        BY DEF Init
  <2> QED BY <2>1, <2>2, <2>3, <2>4 DEF TypeOK, Ctl, PhaseRecords, ReceiptValues
<1>2. CommandsBound /\ Flags
      BY LenProperties, EmptySeq DEF Init, CommandsBound, Flags, Going
<1> QED BY <1>1, <1>2 DEF Base

-----------------------------------------------------------------------------
(* The strengthening.                                                      *)

\* A manual phase runs by a person's word alone.
ByHand(p) == Policy[p] = "manual" => p \in byHand

\* What a worker is in flight for is not settled until its result is recorded;
\* after a retry it may be pending, and its phase is still the frontier.
Workers ==
    \A s \in Steps :
        /\ status[s] = "running" => worker[s] # "no"
        /\ worker[s] # "no" /\ pc # "over" => status[s] \in {"pending", "running"}
        /\ worker[s] # "no" => Behind(PhaseOf[s])
        /\ workerGen[s] <= gen[s]

\* What was found ready may still be started, and past no boundary.
Chosen ==
    pc = "launch" =>
        /\ status[next] = "pending" /\ worker[next] = "no"
        /\ Behind(PhaseOf[next]) /\ ByHand(PhaseOf[next]) /\ Approved(next)
        /\ unpassed = {}

AllowedByHand == \A p \in ph.allowed : ByHand(p)

\* Only a phase that is over was stopped at.
ConsumedBehind == \A p \in ph.consumed : Behind(p + 1)

\* A boundary that was reached is stopped at, unless nothing can start anyway.
Waits(p) ==
    \/ ctl.requested \/ stopping \/ ~Unfinished
    \/ p \notin ph.consumed /\ IsBoundary(p, Receipt(p, status))

UnpassedBehind == \A p \in unpassed : Behind(p + 1) /\ Waits(p)

\* A pause that was accepted is noted, unless nothing can start anyway.
BarredKnown == barred => ctl.requested \/ stopping \/ ~Unfinished

Kept ==
    /\ Base /\ Workers /\ Chosen /\ AllowedByHand /\ ConsumedBehind
    /\ UnpassedBehind /\ BarredKnown /\ PhasesKept

-----------------------------------------------------------------------------
(* What a step of the run does to the steps of the cycle.                  *)

LEMMA StepMoves ==
    ASSUME Base, Next
    PROVE  \/ UNCHANGED steps
           \/ Apply /\ Retries(Head(batch))
           \/ Launch /\ StillMay
           \/ EndDrain
           \/ \E s \in Steps : ResolveStep(s) \/ Record(s) \/ Work(s)
<1>1. CASE Apply
  <2>1. CASE Continues(Head(batch))
        BY <2>1 DEF Continues, ContinuePhase
  <2>2. CASE Pauses \/ Refuse
        BY <2>2 DEF Pauses, Refuse
  <2> QED BY <1>1, <2>1, <2>2, ApplyIs
<1>2. CASE DrainControl \/ EndApply \/ Gate \/ SubmitStops \/ EndSubmit \/ EndTurn \/ TakeNothing
           \/ Close \/ \E s \in Steps : Choose(s)
      BY <1>2
      DEF DrainControl, EndApply, Gate, SubmitStops, EndSubmit, EndTurn, TakeNothing, Close,
                  Choose
<1>3. CASE Launch
      BY <1>3 DEF Launch
<1>4. CASE Person
      BY <1>4 DEF Person, PressStop, Submit
<1> QED BY <1>1, <1>2, <1>3, <1>4 DEF Next, Loop

\* The end of a run stays its end.
LEMMA OverStays ==
    ASSUME Next, pc = "over"
    PROVE  pc' = "over"
BY
DEF Next, Loop, Person, Work, DrainControl, Apply, EndApply, Gate, SubmitStops, EndSubmit, EndTurn,
       TakeNothing, Close, Choose, Launch, EndDrain, ResolveStep, Record, Return, PressStop, Submit,
       LooksAt

\* What is recorded was in flight, and what is started had nothing in flight.
LEMMA RecordIs ==
    ASSUME Base, Workers, NEW s \in Steps, Record(s)
    PROVE  /\ status[s] \in {"pending", "running"} /\ worker[s] \in Results
           /\ status' = [status EXCEPT ![s] = status'[s]] /\ status'[s] \in Results
           /\ status'[s] = "success" => worker[s] = "success"
           /\ worker' = [worker EXCEPT ![s] = "no"] /\ UNCHANGED <<gen, workerGen>>
           /\ pc \in {"take", "draining"} /\ pc' \in {"controls", "draining"}
           /\ unpassed' = unpassed \cup Reached(status')
           /\ UNCHANGED <<ph, stopping, byHand, stopped, barred>>
           /\ ctl.requested => ctl'.requested
<1>1. pc \in {"take", "draining"} /\ worker[s] \in Results /\ worker[s] # "no" /\ pc # "over"
      BY DEF Record, Results
<1>2. status[s] \in {"pending", "running"}
      BY <1>1 DEF Workers
<1>3. status' = [status EXCEPT ![s] = status'[s]] /\ status'[s] \in Results
      /\ (status'[s] = "success" => worker[s] = "success")
      BY <1>1 DEF Record, Base, TypeOK, Results
<1>4. ctl.requested => ctl'.requested
      BY BaseIs, PauseAtIs DEF Record, OnFailure
<1> QED BY <1>1, <1>2, <1>3, <1>4 DEF Record

LEMMA LaunchIs ==
    ASSUME Base, Launch, StillMay
    PROVE  /\ next \in Steps /\ pc = "launch" /\ pc' = "submit"
           /\ UNCHANGED <<gen, ghosts, ctl, ph, stopping>>
           /\ status' = [status EXCEPT ![next] = "running"]
           /\ worker' = [worker EXCEPT ![next] = "working"]
           /\ workerGen' = [workerGen EXCEPT ![next] = gen[next]]
BY DEF Launch, Base, TypeOK

\* What lies behind is never touched: neither recorded, for no worker of it is
\* left in flight, nor retried, for only the frontier is.
LEMMA DoneStays ==
    ASSUME Base, Workers, Chosen, Next, NEW p \in 1..LastPhase + 1, Behind(p),
           NEW s \in Steps, PhaseOf[s] < p
    PROVE  status'[s] = status[s]
<1>1. status[s] \in Terminal
  <2>1. PhaseOf[s] \in 1..p - 1
        BY PhasesNumbered
  <2> QED BY <2>1 DEF Behind, Over, Members
<1>2. CASE Apply /\ Retries(Head(batch))
  <2> DEFINE f == Head(batch).phase
  <2>1. MayRetry(f) /\ RetryPhase(f)
        BY <1>2 DEF Retries
  <2>2. f = Frontier /\ f \in Phases /\ \A t \in Retried(f) : f <= PhaseOf[t]
        BY <2>1, RetriedIs
  <2>3. p <= f
        BY <2>2, BehindFrontier
  <2>4. s \notin Retried(f)
        BY <2>2, <2>3, PhasesNumbered
  <2> QED BY <2>1, <2>4 DEF RetryPhase
<1>3. CASE Launch /\ StillMay
  <2>1. status[next] = "pending"
        BY <1>3 DEF Launch, Chosen
  <2> QED BY <1>1, <1>3, <2>1, LaunchIs DEF Terminal, Base, TypeOK
<1>4. CASE EndDrain
      BY <1>1, <1>4 DEF EndDrain
<1>5. ASSUME NEW t \in Steps, ResolveStep(t) PROVE status'[s] = status[s]
      BY <1>1, <1>5, ResolveIs DEF Terminal, Base, TypeOK
<1>6. ASSUME NEW t \in Steps, Record(t) PROVE status'[s] = status[s]
  <2>1. s # t
        BY <1>1, <1>6, RecordIs DEF Terminal
  <2> QED BY <1>6, <2>1, RecordIs DEF Base, TypeOK
<1>7. CASE UNCHANGED steps \/ Work(s) \/ \E t \in Steps : Work(t)
      BY <1>7 DEF steps, Work, Return
<1> QED BY <1>2, <1>3, <1>4, <1>5, <1>6, <1>7, StepMoves

LEMMA BehindStays ==
    ASSUME Base, Workers, Chosen, Next, NEW p \in 1..LastPhase + 1, Behind(p)
    PROVE  Behind(p)'
<1> SUFFICES ASSUME NEW q \in 1..p - 1 PROVE (Over(q) /\ ~Failed(q))'
    BY DEF Behind
<1>1. Over(q) /\ ~Failed(q)
      BY DEF Behind
<1>2. \A s \in Members(q) : status'[s] = status[s]
      BY DoneStays, PhasesNumbered DEF Members
<1> QED BY <1>1, <1>2 DEF Over, Failed, Members

\* A success is never taken back.
LEMMA SuccessStays ==
    ASSUME Base, Workers, Chosen, Next, NEW s \in Steps, status[s] = "success"
    PROVE  status'[s] = "success"
<1>1. CASE Apply /\ Retries(Head(batch))
  <2>1. s \notin Retried(Head(batch).phase)
        BY <1>1, RetriedIs DEF Retries
  <2> QED BY <1>1, <2>1 DEF Retries, RetryPhase
<1>2. CASE Launch /\ StillMay
  <2>1. status[next] = "pending"
        BY <1>2 DEF Launch, Chosen
  <2> QED BY <1>2, <2>1, LaunchIs DEF Base, TypeOK
<1>3. CASE EndDrain
      BY <1>3 DEF EndDrain, Terminal, Statuses
<1>4. ASSUME NEW t \in Steps, ResolveStep(t) PROVE status'[s] = "success"
      BY <1>4, ResolveIs DEF Base, TypeOK
<1>5. ASSUME NEW t \in Steps, Record(t) PROVE status'[s] = "success"
      BY <1>5, RecordIs DEF Base, TypeOK
<1>6. CASE UNCHANGED steps \/ \E t \in Steps : Work(t)
      BY <1>6 DEF steps, Work, Return
<1> QED BY <1>1, <1>2, <1>3, <1>4, <1>5, <1>6, StepMoves

\* Where every step ended without a failure, nothing changes any more.
LEMMA DoneIsBehind ==
    ~Unfinished <=> Behind(LastPhase + 1)
<1>1. ASSUME ~Unfinished, NEW q \in 1..LastPhase PROVE Over(q) /\ ~Failed(q)
      BY <1>1 DEF Unfinished, Over, Failed, Members
<1>2. ASSUME Behind(LastPhase + 1), NEW s \in Steps
      PROVE  status[s] \in Terminal /\ status[s] # "failed"
      BY <1>2, PhasesNumbered DEF Behind, Over, Failed, Members
<1> QED BY <1>1, <1>2, PhasesNumbered DEF Behind, Unfinished

LEMMA FinishedStays ==
    ASSUME Base, Workers, Chosen, Next, ~Unfinished
    PROVE  ~Unfinished'
<1>1. Behind(LastPhase + 1)
      BY DoneIsBehind
<1>2. \A s \in Steps : status'[s] = status[s]
      BY <1>1, DoneStays, PhasesNumbered
<1> QED BY <1>2 DEF Unfinished

-----------------------------------------------------------------------------
(* The invariant is preserved, conjunct by conjunct.                       *)

\* What was said is not unsaid.
LEMMA SaidStays ==
    ASSUME Base, Next
    PROVE  byHand \subseteq byHand' /\ (stopping => stopping')
<1>1. CASE Apply
      BY <1>1, ApplyIs DEF Continues, ContinuePhase, Retries, RetryPhase, Pauses, Refuse, ghosts
<1>2. CASE Person
      BY <1>2 DEF Person, PressStop, Submit
<1>3. CASE ~Apply /\ ~Person
      BY <1>3 DEF Next, Loop, Work, DrainControl, EndApply, Gate, SubmitStops, EndSubmit, EndTurn,
                  TakeNothing, Close, Choose, Launch, EndDrain, ResolveStep, Record, Return, ghosts
<1> QED BY <1>1, <1>2, <1>3

LEMMA WorkersStep ==
    ASSUME Kept, Next
    PROVE  Workers'
<1> USE DEF Kept
<1> SUFFICES ASSUME NEW s \in Steps
             PROVE  (/\ status[s] = "running" => worker[s] # "no"
                     /\ worker[s] # "no" /\ pc # "over" => status[s] \in {"pending", "running"}
                     /\ worker[s] # "no" => Behind(PhaseOf[s])
                     /\ workerGen[s] <= gen[s])'
    BY DEF Workers
<1>1. /\ status[s] = "running" => worker[s] # "no"
      /\ worker[s] # "no" /\ pc # "over" => status[s] \in {"pending", "running"}
      /\ worker[s] # "no" => Behind(PhaseOf[s])
      /\ workerGen[s] <= gen[s]
      BY DEF Workers
<1>2. Behind(PhaseOf[s]) => Behind(PhaseOf[s])'
      BY BehindStays, PhasesNumbered
<1>3. pc' # "over" => pc # "over"
      BY OverStays
<1>4. status \in [Steps -> Statuses] /\ worker \in [Steps -> {"no", "working"} \cup Results]
      BY DEF Base, TypeOK
<1>5. CASE UNCHANGED steps
      BY <1>1, <1>2, <1>3, <1>5 DEF steps
<1>6. CASE Apply /\ Retries(Head(batch))
  <2>1. status'[s] \in {status[s], "pending"} /\ gen'[s] \in {gen[s], gen[s] + 1}
        /\ worker' = worker /\ workerGen' = workerGen
        BY <1>6 DEF Retries, RetryPhase
  <2>2. workerGen[s] \in Nat /\ gen[s] \in Nat
        BY PauseAssumption DEF Base, TypeOK
  <2> QED BY <1>1, <1>2, <1>3, <2>1, <2>2
<1>7. CASE Launch /\ StillMay
  <2>1. Behind(PhaseOf[next])
        BY <1>7, LaunchIs DEF Chosen
  <2>2. workerGen \in [Steps -> 0..MaxCommands] /\ gen[s] \in Nat
        BY BaseIs DEF Base, TypeOK
  <2>3. /\ status'[s] = IF s = next THEN "running" ELSE status[s]
        /\ worker'[s] = IF s = next THEN "working" ELSE worker[s]
        /\ workerGen'[s] = IF s = next THEN gen[s] ELSE workerGen[s]
        /\ gen'[s] = gen[s]
        BY <1>4, <1>7, <2>2, LaunchIs
  <2> QED BY <1>1, <1>2, <1>3, <2>1, <2>2, <2>3
<1>8. CASE EndDrain
  <2>1. pc' = "over" /\ UNCHANGED <<gen, worker, workerGen>>
        BY <1>8 DEF EndDrain
  <2>2. status'[s] = "running" => status[s] = "running"
        BY <1>8 DEF EndDrain, Terminal
  <2> QED BY <1>1, <1>2, <2>1, <2>2
<1>9. ASSUME NEW t \in Steps, ResolveStep(t)
      PROVE  (/\ status[s] = "running" => worker[s] # "no"
              /\ worker[s] # "no" /\ pc # "over" => status[s] \in {"pending", "running"}
              /\ worker[s] # "no" => Behind(PhaseOf[s])
              /\ workerGen[s] <= gen[s])'
  <2>1. UNCHANGED <<worker, gen, workerGen>> /\ worker[t] = "no"
        BY <1>9, ResolveIs DEF Kept
  <2>2. status'[s] # status[s] => s = t /\ status'[s] # "running"
        BY <1>4, <1>9, ResolveIs DEF Kept
  <2> QED BY <1>1, <1>2, <1>3, <2>1, <2>2
<1>10. ASSUME NEW t \in Steps, Record(t)
       PROVE  (/\ status[s] = "running" => worker[s] # "no"
               /\ worker[s] # "no" /\ pc # "over" => status[s] \in {"pending", "running"}
               /\ worker[s] # "no" => Behind(PhaseOf[s])
               /\ workerGen[s] <= gen[s])'
  <2>1. /\ worker'[s] = IF s = t THEN "no" ELSE worker[s]
        /\ s # t => status'[s] = status[s]
        /\ s = t => status'[s] \in Results
        /\ UNCHANGED <<gen, workerGen>>
        BY <1>4, <1>10, RecordIs
  <2> QED BY <1>1, <1>2, <1>3, <2>1 DEF Results
<1>11. ASSUME NEW t \in Steps, Work(t)
       PROVE  (/\ status[s] = "running" => worker[s] # "no"
               /\ worker[s] # "no" /\ pc # "over" => status[s] \in {"pending", "running"}
               /\ worker[s] # "no" => Behind(PhaseOf[s])
               /\ workerGen[s] <= gen[s])'
  <2>1. UNCHANGED <<status, gen, workerGen>> /\ (worker'[s] # "no" <=> worker[s] # "no")
        BY <1>4, <1>11 DEF Work, Return, Results
  <2> QED BY <1>1, <1>2, <1>3, <2>1
<1> QED BY <1>5, <1>6, <1>7, <1>8, <1>9, <1>10, <1>11, StepMoves

LEMMA PhasesStep ==
    ASSUME Kept, Next
    PROVE  PhasesKept'
<1> USE DEF Kept
<1>1. Workers'
      BY WorkersStep
<1> SUFFICES ASSUME NEW s \in Steps, status'[s] = "running"
             PROVE  /\ Behind(PhaseOf[s])' /\ ByHand(PhaseOf[s])' /\ Approved(s)'
    BY DEF PhasesKept, Behind, ByHand
<1>2. Behind(PhaseOf[s])'
      BY <1>1 DEF Workers
<1>3. status[s] = "running" \/ (Launch /\ StillMay /\ s = next)
  <2>1. status \in [Steps -> Statuses]
        BY DEF Base, TypeOK
  <2>2. CASE Apply /\ Retries(Head(batch))
        BY <2>2 DEF Retries, RetryPhase
  <2>3. CASE Launch /\ StillMay
        BY <2>1, <2>3, LaunchIs
  <2>4. CASE EndDrain
        BY <2>4 DEF EndDrain, Terminal
  <2>5. ASSUME NEW t \in Steps, ResolveStep(t) PROVE status[s] = "running"
        BY <2>1, <2>5, ResolveIs
  <2>6. ASSUME NEW t \in Steps, Record(t) PROVE status[s] = "running"
        BY <2>1, <2>6, RecordIs DEF Results
  <2>7. CASE UNCHANGED steps \/ \E t \in Steps : Work(t)
        BY <2>7 DEF steps, Work, Return
  <2> QED BY <2>2, <2>3, <2>4, <2>5, <2>6, <2>7, StepMoves
<1>4. ByHand(PhaseOf[s]) /\ Approved(s)
  <2>1. CASE status[s] = "running"
        BY <2>1 DEF PhasesKept, ByHand
  <2>2. CASE Launch /\ StillMay /\ s = next
        BY <2>2, LaunchIs DEF Chosen
  <2> QED BY <1>3, <2>1, <2>2
<1>5. ByHand(PhaseOf[s])'
      BY <1>4, SaidStays DEF ByHand
<1>6. Approved(s)'
      BY <1>4, SuccessStays, PhasesNumbered DEF Approved
<1> QED BY <1>2, <1>5, <1>6

LEMMA AllowedStep ==
    ASSUME Kept, Next
    PROVE  AllowedByHand'
<1> USE DEF Kept
<1>1. byHand \subseteq byHand'
      BY SaidStays
<1>2. CASE ph'.allowed = ph.allowed
      BY <1>1, <1>2 DEF AllowedByHand, ByHand
<1>3. CASE Apply /\ Continues(Head(batch))
  <2>1. MayContinue(Head(batch)) /\ ContinuePhase(Head(batch))
        BY <1>3 DEF Continues
  <2>2. ph'.allowed = ph.allowed \cup {Frontier}
        BY <2>1, BaseIs DEF ContinuePhase, PhaseRecords
  <2>3. Policy[Frontier] = "manual" => Frontier \in byHand'
        BY <2>1 DEF MayContinue, ContinuePhase
  <2> QED BY <1>1, <2>2, <2>3 DEF AllowedByHand, ByHand
<1>4. ph'.allowed = ph.allowed \/ (Apply /\ Continues(Head(batch)))
  <2>1. Advanced.allowed = ph.allowed
        BY BaseIs, AdvancedIs
  <2>2. CASE Apply
        BY <2>2, ApplyIs, BaseIs DEF Retries, RetryPhase, Pauses, Refuse, PhaseRecords
  <2>3. CASE EndTurn
        BY <2>3, BaseIs DEF EndTurn, PhaseRecords
  <2>4. CASE Gate \/ SubmitStops \/ EndSubmit
        BY <2>1, <2>4 DEF Gate, SubmitStops, EndSubmit
  <2>5. CASE \E s \in Steps : ResolveStep(s) \/ Choose(s)
        BY <2>1, <2>5 DEF ResolveStep, Choose, LooksAt
  <2>6. CASE DrainControl \/ EndApply \/ Launch \/ TakeNothing \/ Close \/ EndDrain \/ Person
             \/ \E s \in Steps : Record(s) \/ Work(s)
        BY <2>6
        DEF DrainControl, EndApply, Launch, TakeNothing, Close, EndDrain, Person, PressStop,
                    Submit, Record, Work, Return
  <2> QED BY <2>2, <2>3, <2>4, <2>5, <2>6 DEF Next, Loop
<1> QED BY <1>2, <1>3, <1>4

\* Who goes past a boundary, or forgets what was to be stopped at.
Resumes == Apply /\ (Continues(Head(batch)) \/ Retries(Head(batch)))

\* Only before_submit marks a boundary, and then what it says is noted.
LEMMA PhaseMoves ==
    ASSUME Base, Next
    PROVE  \/ Resumes
           \/ ph'.consumed = ph.consumed /\ ph'.runOne = ph.runOne
           \/ /\ ph' = Advanced
              /\ Stops # "none" => ctl'.requested \/ ~Unfinished
<1>1. CASE Apply
  <2>1. CASE Pauses \/ Refuse
        BY <2>1 DEF Pauses, Refuse
  <2> QED BY <1>1, <2>1, ApplyIs DEF Resumes
<1>2. CASE EndTurn
      BY <1>2, BaseIs DEF EndTurn, PhaseRecords
<1>3. CASE Gate
      BY <1>3, BaseIs, GateIs
<1>4. CASE SubmitStops
  <2>1. CASE ctl.requested
        BY <1>4, <2>1 DEF SubmitStops
  <2>2. CASE ~ctl.requested
        BY <1>4, <2>2, BaseIs, CheckedIs DEF SubmitStops
  <2> QED BY <2>1, <2>2
<1>5. CASE EndSubmit
  <2>1. CASE stopping \/ Pending = {}
        BY <1>5, <2>1 DEF EndSubmit
  <2>2. CASE ~(stopping \/ Pending = {})
        BY <1>5, <2>2, BaseIs, CheckedIs DEF EndSubmit
  <2> QED BY <2>1, <2>2
<1>6. ASSUME NEW s \in Steps, ResolveStep(s) \/ Choose(s)
      PROVE  \/ ph'.consumed = ph.consumed /\ ph'.runOne = ph.runOne
             \/ /\ ph' = Advanced
                /\ Stops # "none" => ctl'.requested \/ ~Unfinished
  <2>1. LooksAt(s)
        BY <1>6 DEF ResolveStep, Choose
  <2>2. CASE stopping
        BY <2>1, <2>2 DEF LooksAt
  <2>3. CASE ~stopping
        BY <2>1, <2>3, BaseIs, CheckedIs DEF LooksAt
  <2> QED BY <2>2, <2>3
<1>7. CASE DrainControl \/ EndApply \/ Launch \/ TakeNothing \/ Close \/ EndDrain \/ Person
           \/ \E s \in Steps : Record(s) \/ Work(s)
      BY <1>7 DEF DrainControl, EndApply, Launch, TakeNothing, Close, EndDrain, Person, PressStop,
                  Submit, Record, Work, Return
<1> QED BY <1>1, <1>2, <1>3, <1>4, <1>5, <1>6, <1>7 DEF Next, Loop

\* What was asked for is forgotten only by a stop, or where nothing is left.
LEMMA RequestStays ==
    ASSUME Base, Next, ctl.requested
    PROVE  Resumes \/ ctl'.requested \/ stopping \/ ~Unfinished
<1>1. CASE Apply
  <2>1. CASE Pauses \/ Refuse
        BY <2>1, BaseIs, PauseAtIs DEF Pauses, Refuse, PauseAt
  <2> QED BY <1>1, <2>1, ApplyIs DEF Resumes
<1>2. CASE Gate
      BY <1>2, BaseIs, GateIs
<1>3. CASE SubmitStops
      BY <1>3, BaseIs, CheckedIs DEF SubmitStops
<1>4. CASE Close
      BY <1>4, BaseIs DEF Close, Ctl
<1>5. CASE Person
      BY <1>5, BaseIs DEF Person, PressStop, Submit, Ctl
<1>6. ASSUME NEW s \in Steps, ResolveStep(s) \/ Record(s) PROVE ctl'.requested
      BY <1>6, BaseIs, PauseAtIs, ResolveIs DEF Record, OnFailure
<1>7. CASE DrainControl \/ EndApply \/ EndSubmit \/ EndTurn \/ Launch \/ TakeNothing \/ EndDrain
           \/ \E s \in Steps : Choose(s) \/ Work(s)
      BY <1>7 DEF DrainControl, EndApply, EndSubmit, EndTurn, Launch, TakeNothing, EndDrain,
                  Choose, Work, Return
<1> QED BY <1>1, <1>2, <1>3, <1>4, <1>5, <1>6, <1>7 DEF Next, Loop

LEMMA ConsumedStep ==
    ASSUME Kept, Next
    PROVE  ConsumedBehind'
<1> USE DEF Kept
<1>1. ph.consumed \subseteq Phases
      BY DEF Base, TypeOK
<1>2. \A p \in ph.consumed : Behind(p + 1)'
      BY <1>1, BehindStays, PhasesNumbered DEF ConsumedBehind
<1>3. ASSUME ph' = Advanced, NEW p \in ph'.consumed, p \notin ph.consumed PROVE Behind(p + 1)'
  <2>1. p \in 1..Frontier - 1
        BY <1>3, BaseIs, AdvancedIs, BoundaryIs
  <2>2. p + 1 \in 1..LastPhase + 1 /\ Behind(p + 1)
        BY <2>1, FrontierIs, PhasesNumbered DEF Behind
  <2> QED BY <2>2, BehindStays
<1>4. CASE Resumes
  <2>1. ph'.consumed \subseteq ph.consumed
        BY <1>4, BaseIs DEF Resumes, Continues, ContinuePhase, Retries, RetryPhase, PhaseRecords
  <2> QED BY <1>2, <2>1 DEF ConsumedBehind
<1>5. CASE ph'.consumed = ph.consumed
      BY <1>2, <1>5 DEF ConsumedBehind
<1> QED BY <1>2, <1>3, <1>4, <1>5, PhaseMoves DEF ConsumedBehind

\* Past the last phase nothing is left to do.
LEMMA PastTheLast ==
    ASSUME Frontier \notin Phases
    PROVE  ~Unfinished
<1>1. Frontier = LastPhase + 1
      BY FrontierIs, PhasesNumbered
<1> QED BY <1>1, FrontierIs, DoneIsBehind

\* What the receipt of a phase says is said for good once it lies behind.
LEMMA ReceiptStays ==
    ASSUME Base, Workers, Chosen, Next, NEW p \in 1..LastPhase, Behind(p + 1)
    PROVE  Receipt(p, status') = Receipt(p, status)
<1>1. \A s \in Members(p) : status'[s] = status[s]
      BY DoneStays, PhasesNumbered DEF Members
<1> QED BY <1>1 DEF Receipt

LEMMA WaitsStep ==
    ASSUME Kept, Next, NEW p \in unpassed, Waits(p), ~Resumes
    PROVE  Waits(p)'
<1> USE DEF Kept
<1>0. Receipt(p, status') = Receipt(p, status)
      BY ReceiptStays, PhasesNumbered DEF UnpassedBehind, Base, TypeOK
<1>1. stopping => stopping'
      BY SaidStays
<1>2. ~Unfinished => ~Unfinished'
      BY FinishedStays
<1>3. CASE ctl.requested \/ stopping \/ ~Unfinished
      BY <1>1, <1>2, <1>3, RequestStays DEF Waits
<1>4. CASE p \notin ph.consumed /\ IsBoundary(p, Receipt(p, status))
  <2>1. ASSUME ph'.consumed = ph.consumed, ph'.runOne = ph.runOne PROVE Waits(p)'
        BY <1>0, <1>4, <2>1 DEF Waits, IsBoundary
  <2>2. CASE ph' = Advanced /\ (Stops # "none" => ctl'.requested \/ ~Unfinished)
    <3>1. CASE Stops # "none"
          BY <1>2, <2>2, <3>1 DEF Waits
    <3>2. CASE Frontier \notin Phases
          BY <1>2, <3>2, PastTheLast DEF Waits
    <3>3. CASE Stops = "none" /\ Frontier \in Phases
          BY <2>1, <2>2, <3>3, BaseIs, AdvancedIs
    <3> QED BY <3>1, <3>2, <3>3
  <2> QED BY <1>4, <2>1, <2>2, PhaseMoves
<1> QED BY <1>3, <1>4 DEF Waits

\* Where a boundary waits, nothing is found ready.
LEMMA NothingWaitsUnpassed ==
    ASSUME Kept, Unfinished, Stops = "none", ~ctl.requested, ~stopping
    PROVE  unpassed = {}
<1> USE DEF Kept
<1> SUFFICES ASSUME NEW p \in unpassed PROVE FALSE
    OBVIOUS
<1>1. p \in Phases
      BY DEF Base, TypeOK
<1>2. Behind(p + 1) /\ p \notin ph.consumed /\ IsBoundary(p, Receipt(p, status))
      BY DEF UnpassedBehind, Waits
<1>3. p \in 1..Frontier - 1
  <2>1. p + 1 <= Frontier
        BY <1>1, <1>2, BehindFrontier, PhasesNumbered
  <2> QED BY <1>1, <2>1, FrontierIs, PhasesNumbered
<1>4. Refreshed[p] = Receipt(p, status)
  <2>1. \A q \in 1..p - 1 : Over(q)
        BY <1>1, <1>2, PhasesNumbered DEF Behind
  <2>2. Over(p) /\ ~Failed(p)
        BY <1>1, <1>2, PhasesNumbered DEF Behind
  <2> QED BY <1>1, <2>1, <2>2 DEF Refreshed
<1>5. p \in Boundaries
      BY <1>2, <1>3, <1>4 DEF Boundaries
<1>6. Frontier \in Phases
      BY PastTheLast
<1> QED BY <1>5, <1>6 DEF Stops

\* What is pending and may be started, or said not to run, is at the frontier.
LEMMA PendingAtFrontier ==
    ASSUME NEW s \in Steps, status[s] = "pending", InPhase(s)
    PROVE  PhaseOf[s] = Frontier /\ Frontier \in Phases /\ Behind(PhaseOf[s])
<1>1. ~Over(PhaseOf[s])
      BY DEF Over, Members, Terminal
<1>2. Frontier <= PhaseOf[s]
      BY <1>1, FrontierIs, PhasesNumbered DEF Behind
<1> QED BY <1>2, FrontierIs, PhasesNumbered DEF InPhase

\* A phase that ends is behind, and if it is a boundary it is one that waits.
LEMMA ReachedIs ==
    ASSUME Kept, Next, NEW t \in Steps, status[t] \notin Terminal,
           status' = [status EXCEPT ![t] = status'[t]],
           status'[t] \in {"success", "skipped", "unneeded"} => Behind(PhaseOf[t]),
           NEW p \in Reached(status'),
           ph'.consumed = ph.consumed /\ ph'.runOne = ph.runOne
    PROVE  (Behind(p + 1) /\ Waits(p))'
<1> USE DEF Kept
<1>1. /\ p \in 1..LastPhase /\ ~Over(p)
      /\ \A s \in Members(p) : status'[s] \in {"success", "skipped", "unneeded"}
      /\ p = ph.runOne \/ (Policy[p] = "stop_after" /\ Receipt(p, status') = "success")
      BY PhasesNumbered DEF Reached
<1>2. t \in Members(p)
      BY <1>1 DEF Base, TypeOK, Members, Over, Terminal, Statuses
<1>3. Behind(p) /\ Behind(p)'
      BY <1>1, <1>2, BehindStays, PhasesNumbered DEF Members
<1>4. (Over(p) /\ ~Failed(p))'
      BY <1>1 DEF Over, Failed, Members, Terminal, Statuses
<1>5. Behind(p + 1)'
      BY <1>1, <1>3, <1>4, PhasesNumbered DEF Behind
<1>6. p \notin ph.consumed
  <2>1. ~Behind(p + 1)
        BY <1>1, PhasesNumbered DEF Behind
  <2> QED BY <2>1 DEF ConsumedBehind
<1>7. Receipt(p, status') \in {"success", "skipped"}
      BY <1>1 DEF Receipt
<1>8. Waits(p)'
      BY <1>1, <1>6, <1>7 DEF Waits, IsBoundary
<1> QED BY <1>5, <1>8

LEMMA UnpassedStep ==
    ASSUME Kept, Next
    PROVE  UnpassedBehind'
<1> USE DEF Kept
<1>1. CASE Resumes
  <2>1. unpassed' = {}
        BY <1>1 DEF Resumes, Continues, Retries, Continue
  <2> QED BY <2>1 DEF UnpassedBehind
<1>2. ASSUME ~Resumes, NEW p \in unpassed PROVE (Behind(p + 1) /\ Waits(p))'
  <2>1. p \in 1..LastPhase /\ Behind(p + 1) /\ Waits(p)
        BY PhasesNumbered DEF UnpassedBehind, Base, TypeOK
  <2> QED BY <1>2, <2>1, BehindStays, WaitsStep, PhasesNumbered
<1>3. ASSUME NEW t \in Steps, Record(t), NEW p \in Reached(status')
      PROVE  (Behind(p + 1) /\ Waits(p))'
  <2>1. status[t] \notin Terminal /\ worker[t] # "no"
        BY <1>3, RecordIs DEF Results, Terminal
  <2>2. Behind(PhaseOf[t])
        BY <2>1 DEF Workers
  <2> QED BY <1>3, <2>1, <2>2, RecordIs, ReachedIs
<1>4. ASSUME NEW t \in Steps, ResolveStep(t), NEW p \in Reached(status')
      PROVE  (Behind(p + 1) /\ Waits(p))'
  <2>1. CASE stopping
    <3>1. p \in Phases /\ ~Over(p) /\ status'[t] = "cancelled"
          /\ \A s \in Members(p) : status'[s] \in {"success", "skipped", "unneeded"}
          BY <1>4, <2>1, ResolveIs DEF Reached
    <3>2. \A s \in Members(p) : status'[s] = status[s]
          BY <1>4, <3>1, ResolveIs DEF Members, Base, TypeOK
    <3> QED BY <3>1, <3>2 DEF Over, Terminal, Statuses
  <2>2. CASE ~stopping
    <3>1. status[t] = "pending" /\ InPhase(t) /\ LooksAt(t)
          BY <1>4, <2>2, ResolveIs
    <3>2. Behind(PhaseOf[t]) /\ Frontier \in Phases
          BY <3>1, PendingAtFrontier
    <3>3. ph' = Advanced /\ Stops = "none"
          BY <2>2, <3>1, BaseIs, CheckedIs DEF LooksAt
    <3>4. ph'.consumed = ph.consumed /\ ph'.runOne = ph.runOne
          BY <3>2, <3>3, BaseIs, AdvancedIs
    <3> QED BY <1>4, <3>1, <3>2, <3>4, ResolveIs, ReachedIs DEF Terminal
  <2> QED BY <2>1, <2>2
<1>5. unpassed' = unpassed \/ Resumes \/ \E t \in Steps : ResolveStep(t) \/ Record(t)
  <2>1. CASE Apply
        BY <2>1, ApplyIs DEF Resumes, Pauses, Refuse, ghosts
  <2>2. CASE Person
        BY <2>2 DEF Person, PressStop, Submit
  <2>3. CASE ~Apply /\ ~Person /\ ~(\E t \in Steps : ResolveStep(t) \/ Record(t))
        BY <2>3
        DEF Next, Loop, Work, DrainControl, EndApply, Gate, SubmitStops, EndSubmit, EndTurn,
                    TakeNothing, Close, Choose, Launch, EndDrain, Return, ghosts
  <2> QED BY <2>1, <2>2, <2>3
<1>6. CASE unpassed' = unpassed /\ ~Resumes
      BY <1>2, <1>6 DEF UnpassedBehind
<1>7. ASSUME NEW t \in Steps, ResolveStep(t) \/ Record(t) PROVE UnpassedBehind'
  <2>1. unpassed' = unpassed \cup Reached(status')
        BY <1>7, ResolveIs, RecordIs
  <2>2. ~Resumes
        BY <1>7, ResolveIs, RecordIs DEF Resumes, Apply
  <2> QED BY <1>2, <1>3, <1>4, <1>7, <2>1, <2>2 DEF UnpassedBehind
<1> QED BY <1>1, <1>5, <1>6, <1>7

LEMMA ChosenStep ==
    ASSUME Kept, Next
    PROVE  Chosen'
<1> USE DEF Kept
<1> SUFFICES ASSUME pc' = "launch"
             PROVE  (/\ status[next] = "pending" /\ worker[next] = "no"
                     /\ Behind(PhaseOf[next]) /\ ByHand(PhaseOf[next]) /\ Approved(next)
                     /\ unpassed = {})'
    BY DEF Chosen
<1>1. (\E s \in Steps : Choose(s)) \/ (pc = "launch" /\ (Person \/ \E s \in Steps : Work(s)))
  <2>1. CASE Gate
        BY <2>1, BaseIs, GateIs
  <2>2. CASE Apply
        BY <2>2, ApplyIs
  <2>3. ASSUME NEW s \in Steps, Record(s) PROVE FALSE
        BY <2>3, RecordIs
  <2>4. CASE DrainControl \/ EndApply \/ SubmitStops \/ EndSubmit \/ EndTurn \/ TakeNothing \/ Close
             \/ Launch \/ EndDrain \/ \E s \in Steps : ResolveStep(s)
        BY <2>4 DEF DrainControl, EndApply, SubmitStops, EndSubmit, EndTurn, TakeNothing, Close,
                    Launch, EndDrain, ResolveStep, LooksAt
  <2>5. CASE Person \/ \E s \in Steps : Work(s)
        BY <2>5 DEF Person, PressStop, Submit, Work, Return
  <2> QED BY <2>1, <2>2, <2>3, <2>4, <2>5 DEF Next, Loop
<1>2. ASSUME NEW s \in Steps, Choose(s)
      PROVE  (/\ status[next] = "pending" /\ worker[next] = "no"
              /\ Behind(PhaseOf[next]) /\ ByHand(PhaseOf[next]) /\ Approved(next)
              /\ unpassed = {})'
  <2>1. next' = s /\ UNCHANGED <<status, worker, byHand, unpassed>>
        BY <1>2 DEF Choose, steps, ghosts
  <2>2. status[s] = "pending" /\ worker[s] = "no"
        BY <1>2 DEF Choose, LooksAt, Pending, inflight
  <2>3. ~stopping /\ ~ctl.requested /\ InPhase(s) /\ Approved(s)
    <3>1. "running" \in Verdicts(s)
          BY <1>2 DEF Choose
    <3> QED BY <3>1 DEF Verdicts
  <2>4. Stops = "none"
        BY <1>2, <2>3, BaseIs, CheckedIs DEF Choose, LooksAt
  <2>5. Unfinished
        BY <2>2 DEF Unfinished, Terminal
  <2>6. PhaseOf[s] = Frontier /\ Frontier \in Phases
        BY <2>2, <2>3, PendingAtFrontier
  <2>7. ByHand(PhaseOf[s])
    <3>1. Policy[Frontier] = "manual" => Frontier \in ph.allowed
          BY <2>4, <2>6 DEF Stops
    <3> QED BY <2>6, <3>1 DEF AllowedByHand, ByHand
  <2>8. unpassed = {}
        BY <2>3, <2>4, <2>5, NothingWaitsUnpassed
  <2> QED BY <2>1, <2>2, <2>3, <2>6, <2>7, <2>8, FrontierIs
          DEF Behind, Over, Failed, ByHand, Approved, Members
<1>3. CASE pc = "launch" /\ (Person \/ \E s \in Steps : Work(s))
  <2>1. UNCHANGED <<status, next, byHand, unpassed>>
        BY <1>3 DEF Person, PressStop, Submit, Work, Return, steps, ghosts
  <2>2. /\ status[next] = "pending" /\ worker[next] = "no"
        /\ Behind(PhaseOf[next]) /\ ByHand(PhaseOf[next]) /\ Approved(next)
        /\ unpassed = {}
        BY <1>3 DEF Chosen
  <2>3. worker'[next] = "no"
        BY <1>3, <2>2 DEF Person, PressStop, Submit, Work, Return, steps, Base, TypeOK
  <2> QED BY <2>1, <2>2, <2>3 DEF Behind, Over, Failed, ByHand, Approved, Members
<1> QED BY <1>1, <1>2, <1>3

LEMMA BarredStep ==
    ASSUME Kept, Next
    PROVE  BarredKnown'
<1> USE DEF Kept
<1> SUFFICES ASSUME barred' PROVE ctl'.requested \/ stopping' \/ ~Unfinished'
    BY DEF BarredKnown
<1>1. stopping => stopping'
      BY SaidStays
<1>2. ~Unfinished => ~Unfinished'
      BY FinishedStays
<1>3. ~Resumes
      BY DEF Resumes, Continues, Retries, Continue
<1>4. CASE barred
      BY <1>1, <1>2, <1>3, <1>4, RequestStays DEF BarredKnown
<1>5. CASE ~barred
  <2>1. PICK c \in Says : Submit(c)
    <3>1. CASE Apply
          BY <1>3, <1>5, <3>1, ApplyIs DEF Resumes, Pauses, Refuse, ghosts
    <3>2. CASE ~Apply
          BY <1>5, <3>2 DEF Next, Loop, Person, Work, DrainControl, EndApply, Gate, SubmitStops,
                            EndSubmit, EndTurn, TakeNothing, Close, Choose, Launch, EndDrain,
                            ResolveStep, Record, Return, PressStop, ghosts
    <3> QED BY <3>1, <3>2
  <2> QED BY <1>5, <2>1, BaseIs DEF Submit, Ctl
<1> QED BY <1>4, <1>5

LEMMA KeptStep ==
    ASSUME Kept, [Next]_vars
    PROVE  Kept'
<1>1. CASE Next
      BY <1>1, BaseStep, WorkersStep, PhasesStep, AllowedStep, ConsumedStep, UnpassedStep, ChosenStep,
         BarredStep DEF Kept
<1>2. CASE UNCHANGED vars
  <2>1. Base'
        BY <1>2, BaseStutters DEF Kept
  <2>2. Workers' /\ Chosen' /\ AllowedByHand' /\ ConsumedBehind' /\ PhasesKept'
        BY <1>2
        DEF Kept, Workers, Chosen, AllowedByHand, ConsumedBehind, PhasesKept, ByHand, Behind, Over,
            Failed, Members, Approved, vars, steps, ghosts
  <2>3. UnpassedBehind' /\ BarredKnown'
        BY <1>2
        DEF Kept, UnpassedBehind, BarredKnown, Waits, IsBoundary, Receipt, Behind, Over, Failed,
            Members, Unfinished, vars, steps, ghosts
  <2> QED BY <2>1, <2>2, <2>3 DEF Kept
<1> QED BY <1>1, <1>2

LEMMA KeptInit ==
    ASSUME Init
    PROVE  Kept
<1>1. Workers /\ Chosen /\ PhasesKept
      BY DEF Init, Workers, Chosen, PhasesKept
<1>2. AllowedByHand /\ ConsumedBehind /\ UnpassedBehind /\ BarredKnown
      BY DEF Init, AllowedByHand, ConsumedBehind, UnpassedBehind, BarredKnown
<1> QED BY <1>1, <1>2, BaseInit DEF Kept

\* A step that is started is the one that was found ready, under the lock.
LEMMA StartsByLaunch ==
    ASSUME Kept, Next, NEW s \in Steps, status[s] = "pending", status'[s] = "running"
    PROVE  Launch /\ StillMay /\ s = next
<1> USE DEF Kept
<1>1. status \in [Steps -> Statuses]
      BY DEF Base, TypeOK
<1>2. CASE Apply /\ Retries(Head(batch))
      BY <1>2 DEF Retries, RetryPhase
<1>3. CASE Launch /\ StillMay
      BY <1>1, <1>3, LaunchIs
<1>4. CASE EndDrain
      BY <1>4 DEF EndDrain, Terminal
<1>5. ASSUME NEW t \in Steps, ResolveStep(t) PROVE FALSE
      BY <1>1, <1>5, ResolveIs
<1>6. ASSUME NEW t \in Steps, Record(t) PROVE FALSE
      BY <1>1, <1>6, RecordIs DEF Results
<1>7. CASE UNCHANGED steps \/ \E t \in Steps : Work(t)
      BY <1>7 DEF steps, Work, Return
<1> QED BY <1>2, <1>3, <1>4, <1>5, <1>6, <1>7, StepMoves

-----------------------------------------------------------------------------
(* A run that obeys its commands, whoever runs its steps.                  *)

\* The strengthened invariant of the loop holds in every state of the run.
THEOREM KeptHolds == Spec => []Kept
<1>1. Init => Kept
      BY KeptInit
<1>2. Kept /\ [Next]_vars => Kept'
      BY KeptStep
<1> QED BY <1>1, <1>2, PTL DEF Spec

\* No step runs before every phase before its own ended without a failure,
\* before the approval of its phase, or in a manual phase nobody said to run:
\* of Phases.permits, whatever is paused, held, continued and retried.
THEOREM PhasesKeptHolds == Spec => []PhasesKept
<1>1. Kept => PhasesKept
      BY DEF Kept
<1> QED BY <1>1, KeptHolds, PTL

\* before_submit stops a run at every boundary it reached: no step of a later
\* phase starts before a command that was accepted after the boundary, even
\* where a pause for another reason was being entered just then.
THEOREM BoundaryKeptHolds == Spec => BoundaryKept
<1>1. ASSUME Kept, Next, NEW s \in Steps, status[s] = "pending", status'[s] = "running"
      PROVE  unpassed = {}
      BY <1>1, StartsByLaunch DEF Kept, Chosen, Launch
<1>2. Kept /\ [Next]_vars =>
          [\A s \in Steps : status[s] = "pending" /\ status'[s] = "running" =>
              \A p \in unpassed : PhaseOf[s] <= p]_vars
      BY <1>1
<1> QED BY <1>2, KeptHolds, PTL DEF Spec, BoundaryKept

\* Control.submit bars new steps at once: once a pause was accepted, nothing is
\* started but by a stop, not even what was found ready before.
THEOREM PauseBarsHolds == Spec => PauseBars
<1>1. ASSUME Kept, Next, NEW s \in Steps, status[s] = "pending", status'[s] = "running"
      PROVE  ~barred \/ stopping
  <2>1. Unfinished
        BY <1>1 DEF Unfinished, Terminal
  <2>2. ~ctl.requested \/ stopping
        BY <1>1, StartsByLaunch DEF StillMay
  <2> QED BY <1>1, <2>1, <2>2 DEF Kept, BarredKnown
<1>2. Kept /\ [Next]_vars =>
          [\A s \in Steps : status[s] = "pending" /\ status'[s] = "running" =>
              ~barred \/ stopping]_vars
      BY <1>1
<1> QED BY <1>2, KeptHolds, PTL DEF Spec, PauseBars

-----------------------------------------------------------------------------
(* Approval gates.                                                         *)

\* Nothing of a phase runs before its approval. What was cancelled before it
\* was cancelled by a stop, after which the run is not paused again.
GateFirst ==
    \A p \in Gates : \A s \in Members(p) \ {ApprovalOf[p]} :
        /\ worker[s] # "no" \/ status[s] \in {"running", "success", "failed"}
               => status[ApprovalOf[p]] = "success"
        /\ status[s] = "cancelled"
               => status[ApprovalOf[p]] = "success" \/ (stopping /\ ~ctl.paused)

\* No step an approval covers may fail before it, over an `if:` that cannot be
\* evaluated.
ApprovedReadable == \A p \in Gates : Members(p) \cap Unreadable \subseteq {ApprovalOf[p]}

\* So that a gate is not retried while it asks: it would be the only step of
\* its phase a retry could start from.
AskersRun ==
    \A g \in Askers :
        worker[g] # "no" /\ pc # "over" => status[g] = "running" /\ workerGen[g] = gen[g]

LEMMA StoppedUnpaused ==
    ASSUME Base, Next, stopping, ~ctl.paused
    PROVE  stopping' /\ ~ctl'.paused
<1>1. stopping'
      BY SaidStays
<1>2. CASE Apply
      BY <1>2, ApplyIs, BaseIs, PauseAtIs DEF Continues, Retries, Continue, Going, Pauses, Refuse
<1>3. CASE Gate
      BY <1>1, <1>3, BaseIs, GateIs
<1>4. CASE SubmitStops
      BY <1>4 DEF SubmitStops
<1>5. CASE Close \/ Person
      BY <1>5, BaseIs DEF Close, Person, PressStop, Submit, Ctl
<1>6. ASSUME NEW s \in Steps, ResolveStep(s) \/ Record(s) PROVE ~ctl'.paused
      BY <1>6, BaseIs, PauseAtIs, ResolveIs DEF Record, OnFailure
<1>7. CASE DrainControl \/ EndApply \/ EndSubmit \/ EndTurn \/ Launch \/ TakeNothing \/ EndDrain
           \/ \E s \in Steps : Choose(s) \/ Work(s)
      BY <1>7 DEF DrainControl, EndApply, EndSubmit, EndTurn, Launch, TakeNothing, EndDrain,
                  Choose, Work, Return
<1> QED BY <1>1, <1>2, <1>3, <1>4, <1>5, <1>6, <1>7 DEF Next, Loop

LEMMA GateFirstStep ==
    ASSUME ApprovedReadable, Kept, GateFirst, Next
    PROVE  GateFirst'
<1> USE DEF Kept
<1> SUFFICES ASSUME NEW p \in Gates, NEW s \in Members(p) \ {ApprovalOf[p]},
                    status'[ApprovalOf[p]] # "success"
             PROVE  /\ worker'[s] = "no" /\ status'[s] \notin {"running", "success", "failed"}
                    /\ status'[s] = "cancelled" => stopping' /\ ~ctl'.paused
    BY DEF GateFirst, Members
<1>1. s \in Steps /\ PhaseOf[s] = p /\ s # ApprovalOf[p] /\ ApprovalOf[p] \in Steps
      BY PhasesNumbered DEF Members
<1>2. status[ApprovalOf[p]] # "success"
      BY <1>1, SuccessStays
<1>3. /\ worker[s] = "no" /\ status[s] \notin {"running", "success", "failed"}
      /\ status[s] = "cancelled" => stopping /\ ~ctl.paused
      BY <1>2 DEF GateFirst
<1>4. status \in [Steps -> Statuses] /\ worker \in [Steps -> {"no", "working"} \cup Results]
      BY DEF Base, TypeOK
<1>5. stopping /\ ~ctl.paused => stopping' /\ ~ctl'.paused
      BY StoppedUnpaused
<1>6. CASE UNCHANGED steps
      BY <1>3, <1>5, <1>6 DEF steps
<1>7. CASE Apply /\ Retries(Head(batch))
  <2>1. status'[s] \in {status[s], "pending"} /\ worker' = worker
        BY <1>1, <1>7 DEF Retries, RetryPhase
  <2> QED BY <1>3, <1>5, <2>1
<1>8. CASE Launch /\ StillMay
  <2>1. s # next
        BY <1>1, <1>2, <1>8 DEF Launch, Chosen, Approved
  <2>2. status'[s] = status[s] /\ worker'[s] = worker[s]
        BY <1>1, <1>4, <1>8, <2>1, LaunchIs
  <2> QED BY <1>3, <1>5, <2>2
<1>9. CASE EndDrain
  <2>1. worker' = worker /\ ctl' = ctl /\ stopping /\ stopping' = stopping
        BY <1>9 DEF EndDrain, Base, Flags
  <2>2. status'[s] = status[s] \/ (status'[s] = "cancelled" /\ ~ctl.paused)
        BY <1>1, <1>9 DEF EndDrain
  <2> QED BY <1>3, <2>1, <2>2
<1>10. ASSUME NEW t \in Steps, ResolveStep(t)
       PROVE  /\ worker'[s] = "no" /\ status'[s] \notin {"running", "success", "failed"}
              /\ status'[s] = "cancelled" => stopping' /\ ~ctl'.paused
  <2>1. worker' = worker /\ ctl'.paused = ctl.paused /\ stopping' = stopping /\ ~ctl.paused
        BY <1>10, ResolveIs DEF Base, Flags
  <2>2. ~Approved(s) /\ s \notin Unreadable
        BY <1>1, <1>2 DEF Approved, ApprovedReadable, Members
  <2>3. \/ status'[s] = status[s] \/ status'[s] \in {"skipped", "unneeded"}
        \/ (status'[s] = "cancelled" /\ stopping)
    <3>1. CASE s = t
          BY <1>10, <2>2, <3>1, ResolveIs
    <3>2. CASE s # t
          BY <1>1, <1>4, <1>10, <3>2, ResolveIs
    <3> QED BY <3>1, <3>2
  <2> QED BY <1>3, <2>1, <2>3
<1>11. ASSUME NEW t \in Steps, Record(t)
       PROVE  /\ worker'[s] = "no" /\ status'[s] \notin {"running", "success", "failed"}
              /\ status'[s] = "cancelled" => stopping' /\ ~ctl'.paused
  <2>1. s # t
        BY <1>3, <1>11, RecordIs DEF Results
  <2>2. status'[s] = status[s] /\ worker'[s] = worker[s]
        BY <1>1, <1>4, <1>11, <2>1, RecordIs
  <2> QED BY <1>3, <1>5, <2>2
<1>12. ASSUME NEW t \in Steps, Work(t)
       PROVE  /\ worker'[s] = "no" /\ status'[s] \notin {"running", "success", "failed"}
              /\ status'[s] = "cancelled" => stopping' /\ ~ctl'.paused
  <2>1. status' = status /\ worker'[s] = worker[s]
        BY <1>1, <1>3, <1>4, <1>12 DEF Work, Return
  <2> QED BY <1>3, <1>5, <2>1
<1> QED BY <1>6, <1>7, <1>8, <1>9, <1>10, <1>11, <1>12, StepMoves

\* A retry finds no gate in flight.
LEMMA NoGateRetried ==
    ASSUME Kept, GateFirst, AskersRun, Apply, Retries(Head(batch)), NEW g \in Askers
    PROVE  worker[g] = "no"
<1> USE DEF Kept
<1> SUFFICES ASSUME worker[g] # "no" PROVE FALSE
    OBVIOUS
<1>1. PICK p \in Gates : g = ApprovalOf[p]
      BY DEF Askers
<1>2. g \in Steps /\ PhaseOf[g] = p /\ p \in 1..LastPhase
      BY <1>1, PhasesNumbered
<1>3. status[g] = "running" /\ Behind(p)
      BY <1>2 DEF AskersRun, Apply, Workers
<1>4. ~Over(p)
      BY <1>2, <1>3 DEF Over, Members, Terminal
<1>5. p = Frontier
  <2>1. p <= Frontier
        BY <1>2, <1>3, BehindFrontier, PhasesNumbered
  <2>2. ~(p < Frontier)
        BY <1>2, <1>4, FrontierIs DEF Behind
  <2> QED BY <1>2, <2>1, <2>2, FrontierIs
<1>6. MayRetry(p) /\ ctl.paused
      BY <1>5, RetriedIs DEF Retries
<1>7. PICK r \in Members(p) : status[r] \in {"failed", "cancelled"}
      BY <1>6 DEF MayRetry, RetryRoots
<1>8. r # g
      BY <1>3, <1>7
<1> QED BY <1>1, <1>3, <1>6, <1>7, <1>8 DEF GateFirst

LEMMA AskersRunStep ==
    ASSUME Kept, GateFirst, AskersRun, Next
    PROVE  AskersRun'
<1> USE DEF Kept
<1> SUFFICES ASSUME NEW g \in Askers, worker'[g] # "no", pc' # "over"
             PROVE  status'[g] = "running" /\ workerGen'[g] = gen'[g]
    BY DEF AskersRun
<1>1. g \in Steps
      BY PhasesNumbered
<1>2. pc # "over" /\ (worker[g] # "no" => status[g] = "running" /\ workerGen[g] = gen[g])
      BY OverStays DEF AskersRun
<1>3. /\ status \in [Steps -> Statuses] /\ worker \in [Steps -> {"no", "working"} \cup Results]
      /\ workerGen \in [Steps -> 0..MaxCommands]
      BY DEF Base, TypeOK
<1>4. CASE UNCHANGED steps
      BY <1>2, <1>4 DEF steps
<1>5. CASE Apply /\ Retries(Head(batch))
      BY <1>5, NoGateRetried DEF Retries, RetryPhase
<1>6. CASE Launch /\ StillMay
      BY <1>1, <1>2, <1>3, <1>6, LaunchIs
<1>7. CASE EndDrain
      BY <1>7 DEF EndDrain
<1>8. ASSUME NEW t \in Steps, ResolveStep(t) PROVE status'[g] = "running" /\ workerGen'[g] = gen'[g]
  <2>1. UNCHANGED <<worker, gen, workerGen>> /\ worker[t] = "no"
        BY <1>8, ResolveIs
  <2>2. g # t
        BY <2>1
  <2>3. status'[g] = status[g]
        BY <1>1, <1>3, <1>8, <2>2, ResolveIs
  <2> QED BY <1>2, <2>1, <2>3
<1>9. ASSUME NEW t \in Steps, Record(t) PROVE status'[g] = "running" /\ workerGen'[g] = gen'[g]
      BY <1>1, <1>2, <1>3, <1>9, RecordIs
<1>10. ASSUME NEW t \in Steps, Work(t) PROVE status'[g] = "running" /\ workerGen'[g] = gen'[g]
  <2>1. UNCHANGED <<status, gen, workerGen>> /\ worker[g] # "no"
        BY <1>1, <1>3, <1>10 DEF Work, Return
  <2> QED BY <1>2, <2>1
<1> QED BY <1>4, <1>5, <1>6, <1>7, <1>8, <1>9, <1>10, StepMoves

\* A step succeeds by the result of its worker, and is not executed again.
LEMMA NewSuccess ==
    ASSUME Kept, Next, NEW s \in Steps, status'[s] = "success"
    PROVE  \/ status[s] = "success" /\ gen'[s] = gen[s]
           \/ Record(s) /\ worker[s] = "success" /\ gen'[s] = gen[s]
<1> USE DEF Kept
<1>1. status \in [Steps -> Statuses] /\ gen \in [Steps -> 0..MaxCommands]
      BY DEF Base, TypeOK
<1>2. CASE UNCHANGED steps \/ \E t \in Steps : Work(t)
      BY <1>2 DEF steps, Work, Return
<1>3. CASE Apply /\ Retries(Head(batch))
  <2>1. s \notin Retried(Head(batch).phase)
        BY <1>3 DEF Retries, RetryPhase
  <2> QED BY <1>3, <2>1 DEF Retries, RetryPhase
<1>4. CASE Launch /\ StillMay
      BY <1>1, <1>4, LaunchIs
<1>5. CASE EndDrain
      BY <1>5 DEF EndDrain
<1>6. ASSUME NEW t \in Steps, ResolveStep(t) PROVE status[s] = "success" /\ gen'[s] = gen[s]
      BY <1>1, <1>6, ResolveIs
<1>7. ASSUME NEW t \in Steps, Record(t)
      PROVE  \/ status[s] = "success" /\ gen'[s] = gen[s]
             \/ Record(s) /\ worker[s] = "success" /\ gen'[s] = gen[s]
      BY <1>1, <1>7, RecordIs
<1> QED BY <1>2, <1>3, <1>4, <1>5, <1>6, <1>7, StepMoves

-----------------------------------------------------------------------------
(* A run and the questions of its gates.                                   *)

\* Somebody said yes to this question, or it says so by itself.
Real(q) == "yes" \in told[q] \/ q[1] \in AutoGates

\* A question is asked by an execution that has begun.
AskedByNow == \A q \in Questions : at[q] # "no" => q[2] <= gen[q[1]]

\* What is stored was told, and what ask returned as a yes is one.
Heard ==
    \A q \in Questions :
        /\ slot[q] # "none" => slot[q] \in told[q]
        /\ result[q].answered /\ result[q].answer = "yes" => Real(q)

\* A gate's worker comes to a success by the question it asked itself.
WonByAnswer == \A g \in Askers : worker[g] = "success" => Real(Question(g))

RunTyped == Kept /\ Person_!AskTypeOK /\ AskedByNow

RunKept ==
    RunTyped /\ GateFirst /\ AskersRun /\ Heard /\ WonByAnswer /\ ApprovalsReal

\* The steps of the run that are the loop's, a person's or a worker's.
LEMMA RunMoves ==
    ASSUME RunTyped, RunNext
    PROVE  \/ /\ Next /\ UNCHANGED askVars
              /\ \A g \in Askers : worker'[g] # "success" \/ worker[g] = "success"
                     \/ (at[Question(g)] = "done" /\ GateResult(Question(g)) = "success")
           \/ UNCHANGED vars /\ \E g \in Askers : worker[g] = "working" /\ Person_!Ask(Question(g))
           \/ UNCHANGED vars /\ \E q \in Questions, a \in {"yes", "dismissed"} : Person_!Deliver(q, a)
           \/ UNCHANGED vars /\ Person_!SetEvent
           \/ UNCHANGED vars /\ \E q \in Questions : Person_!Waiter(q)
<1>1. worker \in [Steps -> {"no", "working"} \cup Results] /\ Askers \subseteq Steps
      BY PhasesNumbered DEF RunTyped, Kept, Base, TypeOK
<1>2. CASE Loop /\ UNCHANGED askVars
  <2>1. Next
        BY <1>2 DEF Next
  <2>2. ASSUME NEW g \in Askers PROVE worker'[g] # "success" \/ worker[g] = "success"
    <3>1. CASE Apply
          BY <3>1, ApplyIs
          DEF RunTyped, Kept, Continues, ContinuePhase, Retries, RetryPhase, Pauses,
             Refuse, steps
    <3>2. CASE Launch
          BY <1>1, <3>2, LaunchIs DEF RunTyped, Kept, Launch, steps
    <3>3. ASSUME NEW t \in Steps, Record(t) PROVE worker'[g] # "success" \/ worker[g] = "success"
          BY <1>1, <3>3, RecordIs DEF RunTyped, Kept
    <3>4. CASE ~Apply /\ ~Launch /\ ~(\E t \in Steps : Record(t))
          BY <1>2, <3>4 DEF Loop, DrainControl, EndApply, Gate, SubmitStops, EndSubmit, EndTurn,
             TakeNothing, Close, Choose, EndDrain, ResolveStep, steps
    <3> QED BY <3>1, <3>2, <3>3, <3>4
  <2> QED BY <1>2, <2>1, <2>2
<1>3. CASE Command_
      BY <1>3 DEF Command_, Next, Person, PressStop, Submit, steps
<1>4. CASE AnswerApproval
      BY <1>4 DEF AnswerApproval
<1>5. ASSUME NEW s \in Steps \ Askers, Work(s), UNCHANGED askVars
      PROVE  Next /\ \A g \in Askers : worker'[g] # "success" \/ worker[g] = "success"
      BY <1>1, <1>5 DEF Next, Work, Return
<1>6. ASSUME NEW g \in Askers, ReturnApproval(g)
      PROVE  /\ Next /\ UNCHANGED askVars
             /\ \A h \in Askers : worker'[h] # "success" \/ worker[h] = "success"
                     \/ (at[Question(h)] = "done" /\ GateResult(Question(h)) = "success")
  <2>1. GateResult(Question(g)) \in Results
        BY DEF GateResult, Results
  <2> QED BY <1>1, <1>6, <2>1 DEF ReturnApproval, Return, Next, Work
<1>7. ASSUME NEW g \in Askers, ReturnUnasked(g)
      PROVE  /\ Next /\ UNCHANGED askVars
             /\ \A h \in Askers : worker'[h] # "success" \/ worker[h] = "success"
      BY <1>1, <1>7 DEF ReturnUnasked, Return, Next, Work, Results
<1>8. ASSUME NEW g \in Askers, AskApproval(g)
      PROVE  UNCHANGED vars /\ worker[g] = "working" /\ Person_!Ask(Question(g))
      BY <1>8 DEF AskApproval
<1> QED BY <1>2, <1>3, <1>4, <1>5, <1>6, <1>7, <1>8 DEF RunNext

\* A generation never goes back.
LEMMA GenGrows ==
    ASSUME Kept, Next, NEW s \in Steps
    PROVE  gen'[s] \in Nat /\ gen[s] \in Nat /\ gen[s] <= gen'[s]
<1> USE DEF Kept
<1>1. gen[s] \in Nat
      BY BaseIs
<1>2. CASE Apply /\ Retries(Head(batch))
      BY <1>1, <1>2 DEF Retries, RetryPhase
<1>3. CASE Launch /\ StillMay
      BY <1>1, <1>3, LaunchIs
<1>4. ASSUME NEW t \in Steps, Record(t) PROVE gen' = gen
      BY <1>4, RecordIs
<1>5. CASE UNCHANGED steps \/ EndDrain \/ \E t \in Steps : ResolveStep(t) \/ Work(t)
      BY <1>1, <1>5 DEF steps, EndDrain, ResolveStep, Work, Return
<1> QED BY <1>1, <1>2, <1>3, <1>4, <1>5, StepMoves

\* A worker that came to a success came to it for the generation it has.
LEMMA WorkerGenStays ==
    ASSUME Kept, Next, NEW s \in Steps, worker'[s] = "success"
    PROVE  workerGen'[s] = workerGen[s]
<1> USE DEF Kept
<1>1. CASE Launch /\ StillMay
      BY <1>1, LaunchIs DEF Base, TypeOK
<1>2. CASE Apply /\ Retries(Head(batch))
      BY <1>2 DEF Retries, RetryPhase
<1>3. ASSUME NEW t \in Steps, Record(t) PROVE workerGen' = workerGen
      BY <1>3, RecordIs
<1>4. CASE UNCHANGED steps \/ EndDrain \/ \E t \in Steps : ResolveStep(t) \/ Work(t)
      BY <1>4 DEF steps, EndDrain, ResolveStep, Work, Return
<1> QED BY <1>1, <1>2, <1>3, <1>4, StepMoves

\* The types of a run and of its questions hold whatever an `if:` may do.
LEMMA RunTypedStep ==
    ASSUME RunTyped, [RunNext]_allVars
    PROVE  RunTyped'
<1> USE DEF RunTyped
<1>1. Kept'
  <2>1. [Next]_vars
        BY RunMoves DEF allVars
  <2> QED BY <2>1, KeptStep
<1>2. stopping' \in BOOLEAN
      BY <1>1 DEF Kept, Base, TypeOK
<1>3. CASE Next /\ UNCHANGED askVars
  <2>1. Person_!AskTypeOK'
        BY <1>2, <1>3 DEF Person_!AskTypeOK, askVars
  <2>2. \A s \in Steps : gen'[s] \in Nat /\ gen[s] \in Nat /\ gen[s] <= gen'[s]
        BY <1>3, GenGrows
  <2>3. \A q \in Questions : q[1] \in Steps /\ q[2] \in Nat
        BY PhasesNumbered, PauseAssumption DEF Questions
  <2>4. AskedByNow'
        BY <1>3, <2>2, <2>3 DEF AskedByNow, askVars
  <2> QED BY <1>1, <2>1, <2>4
<1>4. ASSUME UNCHANGED vars, NEW g \in Askers, worker[g] = "working", Person_!Ask(Question(g))
      PROVE  RunTyped'
  <2>1. Question(g) \in Questions /\ workerGen[g] <= gen[g]
        BY PhasesNumbered DEF Question, Questions, Kept, Base, TypeOK, Workers
  <2>2. Person_!AskTypeOK'
        BY <1>4, <2>1 DEF Person_!AskTypeOK, Person_!Ask, vars
  <2>3. AskedByNow'
        BY <1>4, <2>1 DEF AskedByNow, Person_!AskTypeOK, Person_!Ask, Question, vars, steps
  <2> QED BY <1>1, <2>2, <2>3
<1>5. ASSUME UNCHANGED vars, NEW q \in Questions, NEW a \in {"yes", "dismissed"},
             Person_!Deliver(q, a)
      PROVE  RunTyped'
      BY <1>1, <1>5
      DEF Person_!AskTypeOK, Person_!Deliver, Person_!Answers, AskedByNow, vars, steps
<1>6. CASE UNCHANGED vars /\ Person_!SetEvent
      BY <1>1, <1>6
      DEF Person_!AskTypeOK, Person_!SetEvent, Person_!Given, AskedByNow, vars, steps
<1>7. ASSUME UNCHANGED vars, NEW q \in Questions, Person_!Waiter(q) PROVE RunTyped'
  <2>1. /\ at[q] # "no" /\ UNCHANGED <<slot, event, giving, told, stopping, gen>>
        /\ \E to \in {"waiting", "polled", "woken", "stopped", "late", "done"} :
               at' = [at EXCEPT ![q] = to]
        /\ opened' = opened \/ opened' = opened \ {q}
        /\ result' = result \/ result' = [result EXCEPT ![q] = Person_!Outcome(q)]
        BY <1>7
        DEF Person_!Waiter, Person_!Wake, Person_!Poll, Person_!NoticeStop, Person_!WaitOn,
            Person_!TimeUp, Person_!Goes, Person_!Finish, vars, steps
  <2>2. Person_!Outcome(q) \in Person_!Results
        BY DEF Person_!Outcome, Person_!NoAnswer, Person_!Results, Person_!AskTypeOK
  <2>3. Person_!AskTypeOK' /\ AskedByNow'
        BY <2>1, <2>2 DEF Person_!AskTypeOK, AskedByNow
  <2> QED BY <1>1, <2>3
<1>8. CASE UNCHANGED allVars
      BY <1>1, <1>8 DEF Person_!AskTypeOK, AskedByNow, allVars, askVars, vars, steps
<1> QED BY <1>3, <1>4, <1>5, <1>6, <1>7, <1>8, RunMoves

\* Steps of the loop, of a person and of the workers.
LEMMA RunStepNext ==
    ASSUME ApprovedReadable, RunKept, Next, UNCHANGED askVars, RunTyped', WonByAnswer',
           \A g \in Askers : worker'[g] # "success" \/ worker[g] = "success"
               \/ (at[Question(g)] = "done" /\ GateResult(Question(g)) = "success")
    PROVE  RunKept'
<1> USE DEF RunKept, RunTyped
<1>1. GateFirst' /\ AskersRun'
      BY GateFirstStep, AskersRunStep
<1>2. Heard'
      BY DEF Heard, Real, askVars
<1>3. ApprovalsReal'
  <2> SUFFICES ASSUME NEW g \in Askers, status'[g] = "success"
               PROVE  "yes" \in told[<<g, gen'[g]>>] \/ g \in AutoGates
      BY DEF ApprovalsReal, askVars
  <2>1. g \in Steps
        BY PhasesNumbered
  <2>2. CASE status[g] = "success" /\ gen'[g] = gen[g]
        BY <2>2 DEF ApprovalsReal
  <2>3. CASE Record(g) /\ worker[g] = "success" /\ gen'[g] = gen[g]
    <3>1. workerGen[g] = gen[g]
          BY <2>1, <2>3, RecordIs DEF AskersRun, Kept
    <3> QED BY <2>3, <3>1 DEF WonByAnswer, Question, Real
  <2> QED BY <2>1, <2>2, <2>3, NewSuccess
<1> QED BY <1>1, <1>2, <1>3

LEMMA WonStays ==
    ASSUME RunKept, Next, UNCHANGED askVars,
           \A g \in Askers : worker'[g] # "success" \/ worker[g] = "success"
               \/ (at[Question(g)] = "done" /\ GateResult(Question(g)) = "success")
    PROVE  WonByAnswer'
<1> USE DEF RunKept, RunTyped
<1> SUFFICES ASSUME NEW g \in Askers, worker'[g] = "success"
             PROVE  "yes" \in told[<<g, workerGen'[g]>>] \/ g \in AutoGates
    BY DEF WonByAnswer, Question, Real, askVars
<1>1. g \in Steps
      BY PhasesNumbered
<1>2. workerGen'[g] = workerGen[g]
      BY <1>1, WorkerGenStays DEF Kept
<1>3. Question(g) \in Questions
      BY <1>1 DEF Question, Questions, Kept, Base, TypeOK
<1>4. CASE worker[g] = "success"
      BY <1>2, <1>4 DEF WonByAnswer, Question, Real
<1>5. CASE GateResult(Question(g)) = "success"
  <2>1. result[Question(g)].answered /\ result[Question(g)].answer = "yes"
        BY <1>5 DEF GateResult
  <2>2. Real(Question(g))
        BY <1>3, <2>1 DEF Heard
  <2> QED BY <1>2, <2>2 DEF Question, Real
<1> QED BY <1>4, <1>5

\* Steps of the threads that ask and that answer.
LEMMA RunStepAsk ==
    ASSUME RunKept, UNCHANGED vars, RunTyped',
           \/ \E g \in Askers : worker[g] = "working" /\ Person_!Ask(Question(g))
           \/ \E q \in Questions, a \in {"yes", "dismissed"} : Person_!Deliver(q, a)
           \/ Person_!SetEvent
           \/ \E q \in Questions : Person_!Waiter(q)
    PROVE  RunKept'
<1> USE DEF RunKept, RunTyped
<1>1. GateFirst' /\ AskersRun'
      BY DEF GateFirst, AskersRun, Members, vars, steps
<1>2. \A q \in Questions : told[q] \subseteq told'[q]
      BY DEF Person_!AskTypeOK, Person_!Ask, Person_!Deliver, Person_!SetEvent, Person_!Waiter,
             Person_!Wake, Person_!Poll, Person_!NoticeStop, Person_!WaitOn, Person_!TimeUp,
             Person_!Goes, Person_!Finish
<1>3. \A g \in Askers : Question(g) \in Questions /\ <<g, gen[g]>> \in Questions
      BY PhasesNumbered DEF Question, Questions, Kept, Base, TypeOK
<1>4. WonByAnswer'
      BY <1>2, <1>3 DEF WonByAnswer, Real, Question, vars, steps
<1>5. ApprovalsReal'
      BY <1>2, <1>3 DEF ApprovalsReal, vars, steps
<1>6. Heard'
  <2>1. ASSUME NEW g \in Askers, Person_!Ask(Question(g)) PROVE Heard'
        BY <1>3, <2>1 DEF Person_!AskTypeOK, Person_!Ask, Heard, Real
  <2>2. ASSUME NEW q \in Questions, NEW a \in {"yes", "dismissed"}, Person_!Deliver(q, a)
        PROVE  Heard'
        BY <1>2, <2>2 DEF Heard, Real, Person_!AskTypeOK, Person_!Deliver
  <2>3. CASE Person_!SetEvent
        BY <2>3 DEF Person_!SetEvent, Person_!Given, Heard, Real
  <2>4. ASSUME NEW q \in Questions, Person_!Waiter(q), ~Person_!Finish(q) PROVE Heard'
    <3>1. UNCHANGED <<slot, result, told>>
          BY <2>4
          DEF Person_!Waiter, Person_!Wake, Person_!Poll, Person_!NoticeStop, Person_!WaitOn,
              Person_!TimeUp, Person_!Goes
    <3> QED BY <3>1 DEF Heard, Real
  <2>5. ASSUME NEW q \in Questions, Person_!Finish(q) PROVE Heard'
    <3>1. Person_!Outcome(q).answered /\ Person_!Outcome(q).answer = "yes" => Real(q)
          BY <2>5 DEF Person_!Outcome, Person_!NoAnswer, Heard, Real
    <3>2. result' = [result EXCEPT ![q] = Person_!Outcome(q)] /\ UNCHANGED <<slot, told>>
          BY <2>5 DEF Person_!Finish
    <3> QED BY <3>1, <3>2 DEF Person_!AskTypeOK, Heard, Real
  <2> QED BY <2>1, <2>2, <2>3, <2>4, <2>5
<1> QED BY <1>1, <1>4, <1>5, <1>6

LEMMA RunKeptStep ==
    ASSUME ApprovedReadable, RunKept, [RunNext]_allVars
    PROVE  RunKept'
<1>1. RunTyped /\ RunTyped'
      BY RunTypedStep DEF RunKept
<1>2. CASE RunNext
      BY <1>1, <1>2, RunMoves, RunStepNext, WonStays, RunStepAsk
<1>3. CASE UNCHANGED allVars
      BY <1>1, <1>3
      DEF RunKept, GateFirst, AskersRun, WonByAnswer, ApprovalsReal, Heard, Real, Question, Members,
          allVars, askVars, vars, steps
<1> QED BY <1>2, <1>3

LEMMA RunTypedInit ==
    ASSUME RunInit
    PROVE  RunTyped
<1>1. Kept
      BY KeptInit DEF RunInit
<1>2. Person_!AskTypeOK
      BY DEF RunInit, Init, Person_!AskInit, Person_!AskTypeOK, Person_!NoAnswer, Person_!Results
<1>3. AskedByNow
      BY DEF RunInit, Person_!AskInit, AskedByNow
<1> QED BY <1>1, <1>2, <1>3 DEF RunTyped

LEMMA RunKeptInit ==
    ASSUME RunInit
    PROVE  RunKept
<1>1. GateFirst /\ AskersRun /\ WonByAnswer /\ ApprovalsReal
      BY PhasesNumbered
      DEF RunInit, Init, GateFirst, AskersRun, WonByAnswer, ApprovalsReal, Members
<1>2. Heard
      BY DEF RunInit, Person_!AskInit, Person_!NoAnswer, Heard
<1> QED BY <1>1, <1>2, RunTypedInit DEF RunKept

\* The types of a run and its questions hold throughout.
THEOREM RunTypedHolds == RunSpec => []RunTyped
<1>1. RunInit => RunTyped
      BY RunTypedInit
<1>2. RunTyped /\ [RunNext]_allVars => RunTyped'
      BY RunTypedStep
<1> QED BY <1>1, <1>2, PTL DEF RunSpec

\* The strengthened invariant of a run and its questions holds throughout, where
\* the `if:` of every step an approval covers can be evaluated.
THEOREM RunKeptHolds ==
    ASSUME ApprovedReadable
    PROVE  RunSpec => []RunKept
<1>1. RunInit => RunKept
      BY RunKeptInit
<1>2. RunKept /\ [RunNext]_allVars => RunKept'
      BY RunKeptStep
<1> QED BY <1>1, <1>2, PTL DEF RunSpec

\* Every variable of the loop and of the questions keeps its type, and no
\* question is asked of an execution that has not begun.
THEOREM RunTypesHold == RunSpec => []RunTypeOK
<1>1. RunTyped => RunTypeOK
      BY DEF RunTyped, Kept, Base, AskedByNow, RunTypeOK
<1> QED BY <1>1, RunTypedHolds, PTL

\* approval.gate and ask: a phase is approved by an answer to the question of
\* the very execution of its gate. No answer to an earlier execution counts,
\* no stop and no dismissal, and a gate is not retried while it asks. What it
\* takes is that the `if:` of every step the approval covers can be evaluated:
\* one that cannot fails its step, after which a pause lets the phase be retried
\* beside its gate.
THEOREM ApprovalsRealHolds ==
    ASSUME ApprovedReadable
    PROVE  RunSpec => []ApprovalsReal
<1>1. RunKept => ApprovalsReal
      BY DEF RunKept
<1> QED BY <1>1, RunKeptHolds, PTL

\* The questions of its gates are asked beside the loop: a run with them is a run
\* of PauseControl, each step of it one of that or none.
THEOREM RunIsPauseControl == RunSpec => Spec
<1>1. RunInit => Init
      BY DEF RunInit
<1>2. RunTyped /\ [RunNext]_allVars => [Next]_vars
  <2> SUFFICES ASSUME RunTyped, [RunNext]_allVars PROVE [Next]_vars
      OBVIOUS
  <2>1. CASE RunNext
        BY <2>1, RunMoves
  <2>2. CASE UNCHANGED allVars
        BY <2>2 DEF allVars
  <2> QED BY <2>1, <2>2
<1> QED BY <1>1, <1>2, RunTypedHolds, PTL DEF RunSpec, Spec

\* So that it keeps the order of the phases, its boundaries and its pauses.
THEOREM RunObeys == RunSpec => []PhasesKept /\ BoundaryKept /\ PauseBars
BY RunIsPauseControl, PhasesKeptHolds, BoundaryKeptHolds, PauseBarsHolds

-----------------------------------------------------------------------------
(* Without steps held where they stand.                                    *)

\* A pause waits until nothing is in flight.
PausedIdle == ctl.paused => inflight = {}

LEMMA OwnResultStep ==
    ASSUME ~(CanFreeze /\ Controlled), Kept, PausedIdle, OwnResult, [Next]_vars
    PROVE  (PausedIdle /\ OwnResult)'
<1> USE DEF Kept
<1>1. /\ worker \in [Steps -> {"no", "working"} \cup Results]
      /\ workerGen \in [Steps -> 0..MaxCommands]
      BY DEF Base, TypeOK
<1>2. CASE UNCHANGED vars
      BY <1>2 DEF PausedIdle, OwnResult, inflight, vars, steps
<1>3. CASE Next
  <2>1. ASSUME NEW s \in Steps, worker'[s] # "no", ~(Launch /\ StillMay) PROVE worker[s] # "no"
    <3>1. CASE UNCHANGED steps \/ EndDrain \/ \E t \in Steps : ResolveStep(t)
          BY <2>1, <3>1 DEF steps, EndDrain, ResolveStep
    <3>2. CASE Apply /\ Retries(Head(batch))
          BY <2>1, <3>2 DEF Retries, RetryPhase
    <3>3. ASSUME NEW t \in Steps, Record(t) PROVE worker[s] # "no"
          BY <1>1, <2>1, <3>3, RecordIs
    <3>4. ASSUME NEW t \in Steps, Work(t) PROVE worker[s] # "no"
          BY <1>1, <2>1, <3>4 DEF Work, Return
    <3> QED BY <1>3, <2>1, <3>1, <3>2, <3>3, <3>4, StepMoves
  <2>2. ASSUME ctl'.paused PROVE ctl.paused \/ inflight = {}
    <3>1. CASE Gate
      <4>1. ~stopping
            BY <2>2, <3>1, BaseIs, GateIs
      <4>2. PICK c \in Ctl : ctl' = EnterPause(c) /\ c.paused = ctl.paused
            BY <3>1, <4>1, BaseIs, CheckedIs, PauseAtIs DEF Gate
      <4> QED BY <2>2, <4>2 DEF EnterPause, InPlace, Ctl
    <3>2. CASE Apply
          BY <2>2, <3>2, ApplyIs, BaseIs, PauseAtIs
          DEF Continues, Retries, Continue, Going, Pauses,
             Refuse
    <3>3. CASE SubmitStops
          BY <2>2, <3>3, BaseIs, CheckedIs DEF SubmitStops
    <3>4. CASE Close \/ Person
          BY <2>2, <3>4, BaseIs DEF Close, Person, PressStop, Submit, Ctl
    <3>5. ASSUME NEW s \in Steps, ResolveStep(s) \/ Record(s) PROVE ctl.paused
          BY <2>2, <3>5, BaseIs, PauseAtIs, ResolveIs DEF Record, OnFailure
    <3>6. CASE DrainControl \/ EndApply \/ EndSubmit \/ EndTurn \/ Launch \/ TakeNothing \/ EndDrain
               \/ \E s \in Steps : Choose(s) \/ Work(s)
          BY <2>2, <3>6
          DEF DrainControl, EndApply, EndSubmit, EndTurn, Launch, TakeNothing, EndDrain,
                            Choose, Work, Return
    <3> QED BY <1>3, <3>1, <3>2, <3>3, <3>4, <3>5, <3>6 DEF Next, Loop
  <2>3. PausedIdle'
    <3>1. CASE Launch /\ StillMay
          BY <3>1, LaunchIs DEF Base, Flags, PausedIdle
    <3>2. CASE ~(Launch /\ StillMay)
          BY <2>1, <2>2, <3>2 DEF PausedIdle, inflight
    <3> QED BY <3>1, <3>2
  <2>4. ASSUME NEW s \in Steps, worker'[s] # "no" PROVE workerGen'[s] = gen'[s]
    <3>1. CASE Launch /\ StillMay
          BY <1>1, <2>4, <3>1, LaunchIs DEF OwnResult, inflight
    <3>2. CASE Apply /\ Retries(Head(batch))
          BY <2>1, <2>4, <3>2 DEF Retries, PausedIdle, inflight, Apply, Launch
    <3>3. ASSUME NEW t \in Steps, Record(t) PROVE UNCHANGED <<gen, workerGen>>
          BY <3>3, RecordIs
    <3>4. ASSUME UNCHANGED steps \/ EndDrain \/ \E t \in Steps : ResolveStep(t) \/ Work(t)
          PROVE  UNCHANGED <<gen, workerGen>>
          BY <3>4 DEF steps, EndDrain, ResolveStep, Work, Return
    <3>5. ASSUME ~(Launch /\ StillMay), UNCHANGED <<gen, workerGen>> PROVE workerGen'[s] = gen'[s]
          BY <2>1, <2>4, <3>5 DEF OwnResult, inflight
    <3> QED BY <1>3, <3>1, <3>2, <3>3, <3>4, <3>5, StepMoves
  <2> QED BY <2>3, <2>4 DEF OwnResult, inflight
<1> QED BY <1>2, <1>3

\* "A retry is a new plugin execution, with a matched cleanup/prepare
\* lifecycle" (executor.py): where no pause leaves a step held where it stands,
\* the result that is recorded is that of the execution the step is in. With
\* held steps it need not be.
THEOREM OwnResultHolds ==
    ASSUME ~(CanFreeze /\ Controlled)
    PROVE  Spec => []OwnResult
<1>1. Init => Kept /\ PausedIdle /\ OwnResult
      BY KeptInit DEF Init, Going, PausedIdle, OwnResult, inflight
<1>2. Kept /\ PausedIdle /\ OwnResult /\ [Next]_vars => (PausedIdle /\ OwnResult)'
      BY OwnResultStep
<1> QED BY <1>1, <1>2, KeptHolds, PTL DEF Spec
=============================================================================
