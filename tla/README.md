# QAVector: a verification project

QAVector runs *cycles*: files that list steps (agents, commands, git, gates,
reports), what each step needs, and what to do when one fails. This directory
holds TLA+ models of the code that runs them, the TLC runs that check the
models on small cycles, and theorems proved for every cycle with TLAPS.
`PROJECT.json` lists the components, the runs, the source lines behind every
definition, the hazards and the theorems.

## The system

| component | state | operations | what makes it correct |
|---|---|---|---|
| scheduler (`cycle/executor.py`, `_Scheduler`) | the run record, `inflight`, `waiting`, `begun`, `deadlines`, `overdue`, the `stopping` token | submit, wake, record, park, resolve, enforce deadlines, ask about an overdue step, stop, drain, clean up | one life per step; nothing works before its needs; every verdict has its cause and stands; a stopped run ends |
| workers (`_work`) | a thread per step in flight, its token, its group's semaphore, the results queue | enter the group, prepare once, attempt, back off, report | a result for every worker; no two members of a group inside |
| step graph (`cycle/model.py`), revisions (`cycle/revisions.py`) | the cycle's `needs` | upstream, downstream, sending a plan back | only the path from the plan to its gate starts over |
| execution store (`cycle/checkpoints.py`, `operations.py`) | files: summary, receipts, a transition journal, operation receipts | begin, step, publish, replay, load, resume | a crash never hides work that may have happened; a transition is all or nothing |
| phases, pause, freezing (`cycle/phases.py`, `freeze.py`) | pause flags, pending commands, held processes, what was consumed, approved and run by hand | request and confirm a pause, continue, run or retry a phase | nothing starts once a pause was accepted; a phase waits for the one before, its approval and its boundary; a pause comes, and a stop ends it |
| messages (`cycle/interactions.py`) | messages, offers, snapshots, deliveries | accept, offer, take, bind, confirm, release, close, seal, load | a point is called with one input for ever; what a message is said to have become is true; none is left without a word |
| questions (`cycle/ask.py`) | the table of open questions, a slot and an event each | ask, deliver, abandon | an answer that was wanted is heard; silence approves nothing |
| memory (`cycle/memory.py`, `admission.py`) | a JSON file under a lock file | remember, bump, claim, release | exclusive claims, no lost update |
| plugin packages (`plugin_host/installer.py`, `registry.py`) | a catalogue in SQLite, package and environment directories beside it | install, activate, disable, retain, lock for a run, remove, recover | a registered version is whole; a pinned one stays; nothing stray is left |
| plugin attempts (`plugin_host/attempts.py`, `runner.py`) | a row per attempt, a worker process | claim, run, finish | one execution per attempt |
| execution runtime (`execution_runtime/`) | instances, cgroups, a channel | run, pause, recover | isolation; outside a model but for its recovery |
| scenario engine (`engine/`) | browser sessions, window slots | drive scenarios, govern the slots | never more windows than slots |
| desktop application (`gui/`) | stores, schedules | presentation | - |

One process runs a cycle. The scheduler's loop is the only writer of the run
record. Workers answer on a queue; the control thread (standard input or the
desktop application) sets flags and tokens and puts a wake-up on the same
queue; the asking threads deliver answers into slots the loop reads. Every
change of the record is written to the execution store before the loop goes
on, and a later process resumes from those files. Several processes share two
things: the memory file, under a lock file, and the store of plugins, under
SQLite's writer lock.

What is hard: results, deadlines, waits, answers and Stop meet in one loop in
any order; a token that is set late must not change a verdict that is true; a
plan sent back reopens steps while others work; a receipt that cannot be
written ends the loop from a dozen places; a crash between two file writes; a
pause that comes between two looks at its flag; a message that is on its way
to a call when the run ends; a lock file whose owner is dead; files that no
transaction covers.

## The modules

| module | models |
|---|---|
| `StepGraph` | the graph of a cycle, `upstream` and `downstream` |
| `StepScheduler` | one run: the loop, its workers, tokens, deadlines, groups, revisions, drain and cleanup |
| `CycleContract` | the abstract specification: what a run promises of its steps' statuses |
| `ExecutionStore` | the files of a run, the processes that write them one by one, crashes, failed writes, replay and resume |
| `DurableRecord` | the abstract specification of the store: what the record a later process reads may become |
| `PauseControl` | a person's commands to a run, the phases, held steps, and the loop as far as it obeys |
| `AskPerson` | a question to a person: the thread that asks, the answer, the poll |
| `ControlledRun` | `PauseControl` with `AskPerson` (INSTANCE) as the approval gates of its phases |
| `RunInteractions` | messages to a run, the snapshots and calls they go into, over waits, revisions, crashes and resumes |
| `MemoryStore` | the memory file, its lock file and the processes that share them |
| `SharedLedger` | the abstract specification of the memory: one whole change at a time |
| `PluginStore` | the installed versions of a plugin: catalogue, files, recovery |
| `MC...` | the small instances TLC checks, one module for each of the above |
| `StepGraphProofs`, `StepSchedulerProofs`, `ExecutionStoreProofs`, `DurableRecordProofs`, `PluginStoreProofs`, `MemoryStoreProofs`, `RunInteractionsProofs`, `ControlledRunProofs` | the theorems |

### StepScheduler

The loop is one thread, so it has a program counter, `loop`: `turn` (wake
waiting steps), `scan` and `launch` (`_submit`, one step of the file at a time
with `cursor`), `take` (the queue), `enforce`, `settle` and `overwait` (the
deadlines), then `close`, `drain`, `remaining`, `leftover`, `cleanup` and
`ended`. A worker has its own counter, `worker[s]`, from `pool.submit` to
`done.put`. `status` is the run record; `begun`, `inflight`, `waiting`,
`waits`, `extended` and `overdue` are the loop's own tables of those names;
`told` is the set of step tokens set with "timed out", `stop` and `cancel` are
the `stopping` token and the run's token, its parent.

- A step's token is a child of `stopping`, and so is set as soon as either is.
- Time is not measured. `Expire(s)` and `WaitOver(s)` are the clock passing a
  deadline and a resume time. `_park` never books a wait beyond the deadline,
  so a waiting step is due as soon as it is expired.
- `Saved(next)` is the execution receipt each change of the record ends with:
  with `StoreMayFail` it may instead raise CheckpointError, which leaves the
  loop (or the drain) at once.
- `plugin.execute` is any reply a plugin may give: success, failure, an
  exception, its `Cancelled` (only with its token set), a failed receipt, "not
  finished", or a revision (only a gate).
- Left out here: pausing and phases (`PauseControl`), messages
  (`RunInteractions`), node approvals and partial runs.

`CycleContract` says of the statuses alone: the lifecycle a step may follow,
that a start or a failure without a start needs its needs over, that the pool
is bounded, that a plan sent back reopens exactly the path to its gate, and
that a run that is over left no step open. `KeepsContract` is the refinement; a
run that lost a receipt keeps the rest of the contract and is never "over".

### ExecutionStore

On disk: `summary` (metadata.json), `receipt[s]` (`.execution/steps/*.json`),
`journal` (transition.json), `calls[s][r]` (the receipt of the paid call a
step makes after r revisions of its plan). `Loaded` is what `Store.load` makes
of them: the journal before anything, a receipt before the summary. `mem` is
the run record of the process that holds the lock, `pc` where that process is
(`down`, `replaying`, `starting`, `up`, `stopping`, `ending`, `resolving`,
`closing`). A handler changes `mem` and leaves the list of its writes in
`todo`; each write is a step, and between two of them the process may die
(`Crash`) or, with `DiskMayFail`, the write may raise (`WriteFails`). The loop
takes its next decision only when `todo` is empty, as `Store.step` returns
only then.

- `StartStep` owes the step's receipt, the summary, and only then the worker.
- `Resume` and a revision owe `Publish`: the journal, the receipts it names in
  any order, the summary; then `finish_transition`. `revisions.apply` takes
  the new record over (`Adopt`) between the two.
- A worker is `working`, `calling`, `answered`, then a reply. `alien[s]` is a
  worker whose process has given the lock up without it.
- `left` is the sentence "still running when the run ended" in the record's
  message, which resume reads back.
- `open` only the properties read: steps that worked and whose verdict never
  reached the disk.
- Left out: the manifest (it matters to results imported from other runs),
  phases, budgets, artifacts and partial selections. A file is replaced
  atomically (`run._atomic`), so one write is one step. A step has one paid
  call for each revision of its plan. What a step's own child processes do
  after a crash is not followed: their call stays without an answer.

`DurableRecord` says of a later process's record alone: a step's lifecycle,
that a step is at work only after what it needs, that a plan sent back reopens
its path at once, and that going on reopens everything unfinished and all that
waits on it, and of what has its result only what asks on every run.

### PauseControl, AskPerson and ControlledRun

The loop is again one thread with a program counter, `pc`: it drains the
control commands, applies them, asks the phases (`Gate`, which is
`Phases.check` and the switch to a pause in place), submits, takes a result
and ends its turn. `ctl` holds the flags of `Control` (`requested`,
`pauseRequested`, `paused` and why), `ph` what `Phases` remembers (boundaries
consumed, phases run by hand, the one phase to run). `control.requested` is
set by the control thread and read by the loop at two places of one turn, which
are two steps here: what happens between them is the point of the model. A
held worker (`freeze.py`) neither works nor answers. `barred`, `unpassed` and
`byHand` only the properties read: a pause that was accepted and not undone,
boundaries that have not been gone past by a command, phases a person ran.

A question is a thread that polls: `at[q]` says where it stands between
opening its slot, the event, the token, the time, and its result. `deliver`
stores an answer in one step and sets the event in another, as the code does
outside its lock. Each execution of an approval gate asks a question of its
own, so a retry does not see an older answer.

A step may fail without a worker, by an `if:` that refers to what is not there
(`Unreadable`) or because it cannot be started; a retry waits for every
ancestor it refreshed (`Awaited`), and may be refused over operations that
began and did not complete (`MayBeUncertain`); a phase whose steps all read a
tracker and found nothing is no milestone (`EmptyReads`).

Left out: execution modes, node approvals, budgets and held claims (each may
refuse a command), deadlines, a cleanup that fails in a retry, what is saved.

### RunInteractions

`msg[m]` is a message: whom it is for, which execution of them, what became of
it, and what is said of it at each point. A point is a place of one execution
of a step at which its plugin reads its messages; `snap` holds the snapshot
recorded there, `begun` and `complete` the operation receipts of the calls made
with it. A worker takes a snapshot, binds it (each message reads "handing"),
begins the call, is answered or not, and confirms or gives back. Stop, a crash
or a second process may come between any two. `MayRevise` is what
`revisions.apply` asks before a plan is sent back: nobody else at work on the
path, and nothing beside it started. `Crash` keeps what is in files,
`Resume` is `load`, which decides by the receipts what was in progress.

Left out: refusals for what a message is, files that cannot be written,
records of older versions, provider errors. A call that could not be started
leaves a receipt that says so; the model leaves none, since whoever asks for it
later finds the same (`NotStarted`).

### MemoryStore

A change takes the lock file (created with O_EXCL), reads the file, changes it
in memory, replaces it and drops the lock. Each of these is a step, and a
process may die after any (`Mortal`) or fail to read or write (`Faulty`). A lock
file gets old by itself only when its owner is dead or slow beyond
`LOCK_STALE`; the model ages a lock only when its owner is no longer at it. To
find a lock stale and to unlink what is there are two steps. `held` and
`granted` are what callers were told, which is what `ExclusiveClaim` and
`NothingLost` are about.

`SharedLedger` changes the record in one step. `ImplementsLedger` is the
refinement, with the file as the ledger.

### PluginStore

`catalog` is what is committed, `draft` what the process inside the
transaction (`writer`) sees, `disk` what is in each directory: nothing, a
part, all of it not yet synced, all of it. A transaction that touches files is
several steps; one that does not is one step. `Install` begins with a
recovery (`Sweep`), registers, stages, renames twice, seals, commits; `Raise`
is any exception on the way, after which the code rolls back and recovers in
a second transaction; `Remove` commits and then recovers. `Die` is a process
that ends anywhere, `LosePower` takes away what was not synced. `untidy` only
`NothingLeftBehind` reads.

Left out: archives and signatures (an installation may be refused at any
step), the approved decision, bundled packages, compatibility with the host,
owners of contributions, several plugins, a second runtime.

## The runs

Every bound is a constant of the run's .cfg (`MaxWaits`, `MaxExtensions`,
`MaxRevisions`: how often one step waits, is given more time, how often a gate
sends its plan back; `MaxResumes`, `MaxEdits`: resumes of the run, edits of
the cycle file; `MaxCommands`: what a person says; `MaxTime`, `MaxOps`: ticks
of the clock, changes a run makes). `PluginStore` needs none.

| run | instance | states | shows |
|---|---|---|---|
| `scheduler_flow` | 5 steps, 2 workers: a plan, notes and its gate in one group, a report, an audit | 1.9 million | needs are met also while a plan is sent back, groups exclude, cleanup runs once, a failure lets nothing else start; the refinement of `CycleContract` |
| `scheduler_life` | 3 steps, 2 workers, one deadline, question and wait, one disabled; Stop, Ctrl+C, failing receipts | 0.23 million | the record agrees with the loop's tables, a standing question is about the turn in flight, a timeout or cancellation has its cause, no false success; every run ends, a stopped one without waiting for anybody's wait |
| `store_gate` | a paid plan, its gate, a check; 2 resumes, 1 revision, any write may fail | 0.15 million | work is on disk before it is done, a call is paid once, doubt stays doubt; the refinement of `DurableRecord` |
| `store_asked` | an answer, paid work, a step that waits; 1 resume, 1 edit, workers that outlive the run | 40 thousand | an answer is asked again first, kept results are current, one execution at a time |
| `control` | 4 steps in 3 phases (stop_after, approval_required, manual), 3 commands | 1.1 million | phases, approvals and boundaries hold; nothing starts once a pause was accepted |
| `control_live` | a gate and a step that can be held, 2 commands, fair | 70 thousand | a pause comes, a stop ends the run, an answer that was wanted is heard |
| `messages` | a plan with two points, its gate, a step that judges; 1 message, 1 wait, 1 revision, 2 resumes | 0.64 million | one input per point, delivered and not arrived are said truly, judges that know, nothing left without a word |
| `memory` | 2 runs, one of which dies or fails, 2 ticks, 1 and 3 changes | 0.3 million | claims exclude, nothing reported is lost; the refinement of `SharedLedger` |
| `plugins` | 2 processes, 2 contents of one version and a second version, a run and a project that pin | 0.2 million | a registered version is whole, a pinned one stays, nothing stray is left |

Two or three of each thing is enough for what is asked: two workers overlap in
every way any pair can, one waiting and one working step meet every deadline
in either order, and each hazard involves at most a plan, its gate, one step
between, and one outside. The store's hazards are between two writes of one
handler, or of one handler and the resume after it: a chain of three steps has
a kept, a reset and an unstarted one at once. A pause and the command that
undoes it, with one more, meet every turn of the loop; a message is followed
alone because nothing a message does depends on another, but for the order of
a snapshot. A lock's hazards need one process that dies, one that takes over
and, for the takeover's own race, a third. Two installers, one of them between
two transactions, meet in every order. What needs every size is proved.

Fairness of the scheduler: the loop is a thread that always gets on; a worker's
next step happens and a plugin comes back (`executor.py` says a plugin that
ignores its token runs to completion: a plugin that never returns holds the
run, and no property here says otherwise); entering a group is strongly fair,
since the semaphore wakes its waiters; `RunEnds` says itself that waits come
to their time. Nobody has to answer a question or press Stop: a question that
stands has no deadline, but its step comes back. Fairness of a controlled run:
the same for the loop and for workers that are not held, strong for taking a
given worker's result, which the loop picks from a queue in order; the thread
that asks polls, and `deliver` goes on from the slot to the event. A person
says nothing they need not say, and no question's time need come up.

Runs over which the program may come to rest do not check for deadlock: the
store's, where a run is over or resume refuses; the controlled run's, where it
is over or paused with nobody to say Continue; messages, where a run is over;
memory, when every run has made its changes. A plain question (`Human`) may be
open twice, so `OneExecution` is about all other steps.

Every property that passes on a run also has a mutant there: a plausible slip
in the code (the operators marked "Mutant" beside the definitions they
replace) under which TLC finds the property violated. `TypeOK` of
`RunInteractions` and `RunTypeOK` of `ControlledRun` hold on the same
instances and are in no run's list; both are proved.

### What the code does not keep

Three runs are expected to be violated. Each is a sentence of the code's own
documentation that the code does not keep (`findings` in PROJECT.json):

| run | what the code does |
|---|---|
| `scheduler_refused_hang` | a refused restriction of a grouped step releases a semaphore that was never acquired: the result is lost, or the group is open to two |
| `pause_ends_run` | a pause that comes between the loop's look at the flag and its submission pass, with nothing in flight, ends the run and cancels what was pending |
| `memory_takeover` | two runs that both find the lock of a dead one stale both get through it, and both are told that the claim is theirs |

More of the kind was met on the way and has no run of its own:

- Stop turns a standing question about an overdue step into "timed out"
  (executor.py:1195): `StopIsNoTimeout` of `StepScheduler`, two steps, `Timed`
  and `Asks` {1}, `Stoppable`.
- A step whose wait and deadline come due together is submitted once more
  before the deadline is enforced (executor.py:30-32, "bounds its whole life",
  and the comment in `_park`): `LifeBounded` of `StepScheduler`, on the
  constants of `scheduler_life` with nobody stopping or interrupting, no lost
  receipt and `Spec`.
- A revision is accepted over a step outside its path that worked and waits to
  be woken (revisions.py:92): `RevisionBeforeWork` of `StepScheduler`, a gate
  and a parked outsider.
- After Ctrl+C a worker of a group that outlives the drain prepares after
  cleanup (executor.py:1207): `CleanedUp` with `Interruptible` and a group.
- After a receipt that could not be written, a resume runs a step beside the
  worker that is still at it (executor.py:773): `OneExecution` of
  `ExecutionStore` with `DiskMayFail`.
- A phase retried while a worker of it is alive, or its result queued, records
  that result as the new execution's (executor.py:933): `OwnResult` of
  `PauseControl`, two independent steps of one automatic phase, `Fragile` {1},
  `Freezable` {2}, `Receipted` {}, a pause and a retry of the phase.
- The same retry over a gate that is asking: a step that fails over its own
  `if:` fails its phase before the approval is in, a pause in place is entered
  with the gate in flight, and the retry starts the gate's execution anew, so
  that the answer to the old question approves the new one. `ApprovalsReal` of
  `ControlledRun`, four steps with `Needs` <<{}, {}, {1, 2}, {3}>>, `PhaseOf`
  <<1, 2, 2, 2>>, phase 2 approved by step 2, `Conditional` {1, 4}, `Unreadable`
  and `Lenient` {4}, `Fragile` {2}, a pause and a retry of phase 2. `control`
  has such a step too, but nothing there lets it be judged before its gate.
- Continue is offered and refused when the last step ends during a pause
  (phases.py:195): `ContinueProceeds` of `PauseControl`, on the constants of
  `control_live`. A pause
  submitted after the loop drained its commands and before Continue is applied
  is undone with it, and the end of a pause in place forgets the one phase that
  was to be run.
- An answer stored between the last look of a question with `auto` at its
  event and its removal is told to be wanted and dropped: the question answers
  "yes" by itself, even where the person said no (ask.py:165-168, against
  ask.py:113 "when its time runs out with nobody answering").
- A step that depends on a plan beside its gate, crashed after it took its
  snapshot and pending again, is not seen by `revisions.apply`, which looks at
  statuses only (revisions.py:92): the plan is sent back, and the step judges
  the second plan with what the first was told. `JudgesKnow` of
  `RunInteractions` with `Needs` <<{}, {1}, {1}>> and `PlanOf` 2 :> 1.
- A worker that outlived its run binds its messages after `seal` said
  "uncertain", and they read "pending" again until the record is loaded
  (`ClosedAtEnd` excepts it); `close` says "What has not arrived never will" of
  messages that a snapshot taken before holds; and "uncertain" is said of a
  call that never began.

## The proofs

For every number of steps, every graph, pool, group and bound:

- `StepGraphProofs`: `UpstreamIsDownstream` - u is upstream of s exactly when
  s is downstream of u; downstream is transitive, and what a path back to a
  gate takes in is downstream of the plan. The graph's closures are stated as
  intersections of closed sets, so no induction is needed.
- `StepSchedulerProofs`: `TypeCorrect`; `SafetyInvariant`, with `OneLifeHolds`, `NeedsMetHolds`
  and `RecordMatchesLoopHolds`. None of the three is inductive alone.
  `NeedsMet` needs `CursorReady` (what `_submit` read is still so at the
  start), which needs that only the loop changes a status; a revision keeps
  it because no step outside the path that has worked depends on the path:
  the closure lemma `DownstreamClosed` with the two checks of `MayRevise`.
  `OneLife` needs `RecordMatchesLoop` (a step set aside is not in flight).
  `GroupsExclude` - provided no grouped step has a
  restriction that can be refused, groups exclude and every worker reports. Its
  invariant ties a group's semaphore to the one worker between `Enter` and
  `Leave`; the assumption is exactly what `scheduler_refused_hang` breaks.
  `PoolBounded`, and `VerdictsStand`, an action property that no run checks.
  `QuestionsCurrentHolds`, that a question which stands is about the turn in
  flight, is a part of `DeadlineInv`, below.
  `SettledAtEndHolds` and `FailureStopsHolds` rest on what the place of the loop
  says of receipts, stop and record (`PlaceInv`) and on whoever records a
  failure also stopping the run (`FailureKnown`). `OutcomeHasCauseHolds` needs
  that deadlines are those of steps that have begun, also across a revision
  (`DeadlineInv`), and that a worker with nothing to report had its token set
  when it left, which stays so until the step starts anew (`SilenceInv`).
  `CleanedUpHolds` has the assumption that nobody interrupts the loop and no
  receipt is lost, which is when no straggler can outlive the grace period and
  prepare its plugin after the cleanup. `RefinesContract`: every step is one of
  `CycleContract` or a stutter, with no assumption, the pool counted by the
  record itself (`BusyBound`).

- `ExecutionStoreProofs`: `TypeCorrect`, `WorkIsOnDiskHolds` and
  `CallsOnceHolds`, for every number of resumes and with every write allowed to
  fail. The argument follows the lists of writes. What a list can hold depends
  on where its process is (`ListInv`), and a worker, the unlink of a journal
  and an error come last in theirs. `WorkInv` says that a worker's receipt reads
  "running", that no due write or journal names its step, and that a record
  about to be taken over has its entry as it is; a revision keeps it because
  `MayRevise` refuses while anything on the path is at work, and a resume
  because its process has no worker yet. `EpochInv` says that the number of
  resumes on disk never falls and is the process's own once its start is over:
  a bad answer from another epoch is then from an earlier one.
  `OneExecutionHolds` assumes that no write fails, without which it is false, as
  said above. Its invariant says what an earlier process's worker leaves behind
  for `resume` to refuse: the summary says that steps were still running, over
  a receipt that reads "running", or there is a call that nobody can answer any
  more (`Lost`), which is why a worker came back without a receipt and its run
  was left.

- `DurableRecordProofs`: `UnknownStaysRunningHolds`, `KeptCurrentHolds`,
  `AskedFirstHolds` and `RefinesRecord`, the refinement of `DurableRecord`, with
  no assumption beyond what the constants are. The argument compares three
  records: the one a later process would read (`Read`, from summary, receipts
  and journal), the one in memory, and the `draft` that the due writes come
  from. A list of writes has its journal first and every receipt before the
  summary (`Ordered`). The invariant has a part for each relation: while a
  journal is to be written, what it resets may be reset (`PublishInv`); while
  one is replayed, the record reads as it will when the replay is over
  (`ReplayInv`); a single receipt that is due is one step of a life (`StepInv`);
  with nothing due, memory and disk agree, except after a resume or a revision
  that failed halfway, and then nothing more is decided (`AgreeInv`,
  `AdriftInv`). `DefInv` and `AskInv` are the two loop properties with what
  keeps them; a plan sent back loses no answer because what is reset is closed
  downstream (`StepGraphProofs`). TLC checked the whole invariant on the
  store's runs before it was proved.

- `PluginStoreProofs`: `TypeCorrect`, `NeverPartialHolds`, `PinsHoldAlways` and
  `NothingLeft`, for every number of processes, packages, versions, runs and
  references. None of the last three is inductive alone. `Sound` says of a
  catalogue by itself, committed or a draft, that what is pinned is there and
  that the pointer names the one active version. `DraftInv` says that the draft
  is the catalogue until an installation registers, and then differs from it by
  a version that was not there; `DiskInv` that nothing else is on the disk than
  what the draft names and the stage, and that both directories are durable when
  only the commit is left. A recovery removes only what the catalogue does not
  name, and a power cut takes only what no committed row relies on.

- `MemoryStoreProofs`: `TypeCorrect`, for every run and key; `ExclusiveClaimHolds`,
  `NothingLostHolds` and the refinement `RefinesLedger` under `OneHeir`: no run
  dies or fails, however many there are; or there are two, either may die at
  any step, and one that fails to read the file makes one change only. It is
  the condition that a lock left behind has one run at most to take it over.
  With a third run the code does not keep them (`memory_takeover`), so nothing
  is claimed there. `TakeoverSound` proves what the condition is needed for:
  when `_drop_lock` unlinks a lock it found stale, that lock is stale still;
  its invariant says that who is about to break a lock has before it that of a
  run that is gone (`HeirInv`), or that no lock is ever left (`NeverLeft`). The
  invariant of the rest: one process between `TakeLock` and `Drop`, whose copy
  is the file until it saves; what a caller was told is in the file; the counter
  is the reservations and what was reported, and a bump in flight is the
  difference of tried and made.

- `RunInteractionsProofs`: `TypeCorrect`, `PaidOnceHolds`, `WordsHonestHolds`
  and `ClosedAtEndHolds`, for every graph, plan, number of points, messages,
  waits, revisions and resumes; `JudgesKnowHolds` under `GateFirst`, that what
  depends on a plan depends on its gate, which is what the failure above
  breaks. `FlowInv` ties statuses, executions and workers to each other;
  `CallsOf` says which snapshot, started and complete receipts exist at each
  stage of a worker, which is why a key has one input; `MessageInv` says of
  each message and point what the receipts say; `ClosedInv` what `close` and
  `seal` have left. `JudgeInv` needs that what stands before a judge is done,
  is at its last execution, and told its own messages; a revision keeps it
  because with `GateFirst` nothing after the path has ever started.

- `ControlledRunProofs`: `PhasesKeptHolds`, `BoundaryKeptHolds` and
  `PauseBarsHolds` of `PauseControl`, for every graph, division into phases,
  policy and sequence of commands, with commands and retries also in the middle
  of a turn. `RunIsPauseControl` shows that a step of `ControlledRun` is one of
  `PauseControl` with the asking beside it, so that they hold there as well
  (`RunObeys`, `RunTypesHold`), and `ApprovalsRealHolds` that an approved gate
  heard a person say yes, under `ApprovedReadable`: no step that an approval
  covers, but the gate itself, has an `if:` that may not be readable. Without
  it the property is false, as said above; that a gate which asks is not
  retried needs it. The frontier is a minimum of phase numbers
  (`MinIsLeast`). What is behind it stays untouched, because only the frontier
  is retried and what depends on it lies in no earlier phase
  (`DownstreamLater`); what is in flight is of the frontier (`Workers`); and
  what the loop found ready may still be started, since a boundary is closed
  only with nothing in flight (`Chosen`). That a boundary met by a skip, in a
  phase that was to be run alone, is kept is shown by `BoundaryKeptHolds`: in
  `control` the phase after such a one is manual, and waits anyhow. For the approvals, a gate that asks
  is in flight, hence not retried, and what a question resolved to is what was
  heard (`Heard`). `OwnResultHolds` assumes that no pause holds a step, as on
  systems without `freeze` (`freeze.SUPPORTED`, freeze.py:37) or with plugins
  that cannot be held: with held steps it is false, as said above.

The assumptions are `NAssumption`, `NeedsAssumption`, `SchedulerAssumption`,
the two `StoreAssumption`, `MemoryAssumption`, `InteractionsAssumption`,
`PhasesAssumption` and `PauseAssumption`, which say only what the constants are
and that a phase depends on no later one, and
`NothingAssumption`, that a missing file is no file.

Model-checked only: liveness (`RunEnds`, `StopEnds`, `PauseComes` and `AnswerHeard` of
`scheduler_life` and `control_live`), which the provers cannot do.

## Plan

Every safety property and refinement that a passing run checks is proved, some
under a condition the paragraphs above name. What is left: the safety half of
`control_live` (a stopped run does not go on) as an action property with a
proof; that the steps a scheduler's record names at work are those the store's
record does, a composition of `StepScheduler` with `ExecutionStore`; and the
slots of the scenario engine's windows, a component of its own.

## Not modelled

- `cycle/admission.py`, node approvals, execution modes and budgets: they may
  refuse what a model lets happen, and add no order of their own.
- The attempts of managed plugins (`plugin_host/attempts.py`, `runner.py`): an
  attempt is named after the directory and the epoch of an operation, and an
  operation refuses to begin twice in an epoch (`ExecutionStore`); the store of
  attempts repeats the guard. The worker's protocol is I/O.
- The slots and the governor of windows in `engine/runner.py`, and the recovery
  of instances in `execution_runtime/`: each has state worth a model, and each
  is tied to processes of the operating system whose behaviour would be made up.
- The desktop application, more than half of the repository: widgets and pages that
  show the events of a run and send the commands modelled above.
- Parsing, validation and rendering of documents, reports, the built-in
  plugins' own calls, the kernel mechanisms of the sandbox, the SDK, start-up
  and packaging: functions on text, or I/O. Together with the desktop
  application they are why the models stand for a small share of the lines.
