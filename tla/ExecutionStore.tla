--------------------------- MODULE ExecutionStore ---------------------------
(***************************************************************************)
(* The files of a run (cycle/checkpoints.py), the processes that write     *)
(* them, and what a later process makes of them.                           *)
(*                                                                         *)
(* Every file is replaced atomically, and the process may die between any  *)
(* two of them: what a handler still has to write is a list, `todo`, taken *)
(* off one file at a time. A summary, one receipt per step (which load     *)
(* prefers to the summary), a journal of a reset of several steps, and the *)
(* receipts of paid calls (cycle/operations.py) are on disk; all else is   *)
(* lost with its process.                                                  *)
(*                                                                         *)
(* A status stands for what resume tells apart: "refused" is a failure     *)
(* whose outputs say `passed: false`, "failed" is any other and a timeout. *)
(* The manifest is left out (it matters to imported results only), and so  *)
(* are phases, budgets, artifacts and partial selections.                  *)
(***************************************************************************)
EXTENDS StepGraph, Sequences

CONSTANTS
    Human,         \* gates and questions: an interrupted one is asked again
    Recoverable,   \* plugins whose paid calls leave receipts
    Transient,     \* plugins that are not reusable: they run on every resume
    Checks,        \* check.gate steps
    Decisive,      \* steps whose failure may be an answer
    Parking,       \* steps that may answer "not yet"
    PlanOf,        \* approval gate -> the plan it may send back
    MaxRevisions,  \* `max_revisions` of a gate
    MaxResumes,    \* bound: resumes of one run
    MaxEdits,      \* bound: edits of the cycle file
    DiskMayFail,   \* whether a write may fail
    MayOutlive,    \* whether a worker may outlive the drain's grace period
    Nothing        \* a file, or a memory, that is not there

Gates == DOMAIN PlanOf

ASSUME StoreAssumption ==
    /\ Human \subseteq Steps /\ Recoverable \subseteq Steps \ Human
    /\ Transient \subseteq Steps /\ Checks \subseteq Steps /\ Decisive \subseteq Steps
    /\ Parking \subseteq Steps /\ Gates \subseteq Human
    /\ \A g \in Gates : PlanOf[g] \in Upstream({g})
    /\ MaxRevisions \in Nat /\ MaxResumes \in Nat /\ MaxEdits \in Nat
    /\ {DiskMayFail, MayOutlive} \subseteq BOOLEAN

Statuses == {"pending", "running", "waiting", "success", "failed", "refused", "skipped",
             "cancelled"}
Entries == [status : Statuses, def : 0..MaxEdits]

\* metadata.json: the steps, the revisions, run.resume_count, and whether its
\* message says that steps were still running when the run ended.
Documents == [steps : [Steps -> Entries], revised : [Gates -> 0..MaxRevisions],
              epoch : 0..MaxResumes, left : BOOLEAN]
Journals == [doc : Documents, changed : SUBSET Steps]

ASSUME NothingAssumption ==
    Nothing \notin Documents \cup Entries \cup Journals

Calls == [state : {"none", "started", "ok", "bad"}, epoch : 0..MaxResumes]
WorkerStates == {"no", "working", "calling", "answered", "ok", "bad", "refused", "later",
                 "revise", "unsaved"}

VARIABLES
    def,        \* step -> the edit of the cycle file that defined it
    summary,    \* metadata.json
    receipt,    \* step -> steps/<step>.json
    journal,    \* transition.json
    calls,      \* step -> round -> the receipt of its paid call
    pc,         \* where the process that holds the lock is
    mem,        \* its run record
    draft,      \* the record the writes of `todo` come from
    todo,       \* the writes its handler still has to make
    broken,     \* one of them failed, here or in a worker
    refreshed,  \* store.refreshed: steps that are asked again in this process
    live,       \* step -> what its worker in this process is at
    alien,      \* step -> what a worker of a process without the lock is at
    open        \* steps that worked and whose verdict never reached the disk

disk == <<summary, receipt, journal>>
process == <<pc, mem, draft, todo, broken, refreshed>>
vars == <<def, disk, calls, process, live, alien, open>>

-----------------------------------------------------------------------------
(* What a process would load now.                                          *)

\* load: the journal is replayed first.
LoadedSummary == IF journal # Nothing THEN journal.doc ELSE summary

LoadedEntry(s) ==
    IF journal # Nothing /\ s \in journal.changed THEN journal.doc.steps[s]
    ELSE IF receipt[s] # Nothing THEN receipt[s] ELSE LoadedSummary.steps[s]

Loaded == [LoadedSummary EXCEPT !.steps = [s \in Steps |-> LoadedEntry(s)]]

StatusOf(doc, s) == doc.steps[s].status
WithStatus(doc, s, status) == [doc EXCEPT !.steps[s].status = status]

\* The request of a step's paid call differs after each revision of its plan.
Round(doc, s) ==
    IF \E g \in Gates : s \in PathBack(PlanOf[g], g)
    THEN doc.revised[CHOOSE g \in Gates : s \in PathBack(PlanOf[g], g)] ELSE 0

-----------------------------------------------------------------------------
(* The lists of writes.                                                    *)

Op(what, of) == [what |-> what, of |-> of]

\* Mutant: only the summary.
SummaryOnly(s) == <<Op("summary", {})>>

\* Store.step: the step's receipt, then the summary.
StepWrites(s) == <<Op("receipt", {s}), Op("summary", {})>>

\* _materialize: the receipts of the steps that changed, one by one.
Materialize(S) == <<Op("receipt", S), Op("summary", {})>>

\* Mutant: no journal.
PublishInPlace(S) == Materialize(S)

\* Store.publish: the journal first.
Publish(S) == <<Op("journal", S)>> \o Materialize(S)

\* Mutant: the worker is started before the receipt is written.
WorkFirst(s) == <<Op("work", {s})>> \o StepWrites(s)

\* _start: a worker only once the record says so.
StartWrites(s) == StepWrites(s) \o <<Op("work", {s})>>

-----------------------------------------------------------------------------
Nobody == [s \in Steps |-> "no"]

NewRun == [steps |-> [s \in Steps |-> [status |-> "pending", def |-> 0]],
           revised |-> [g \in Gates |-> 0], epoch |-> 0, left |-> FALSE]

Init ==
    /\ def = [s \in Steps |-> 0]
    /\ summary = Nothing /\ receipt = [s \in Steps |-> Nothing] /\ journal = Nothing
    /\ calls = [s \in Steps |-> [r \in 0..MaxRevisions |-> [state |-> "none", epoch |-> 0]]]
    /\ pc = "down" /\ mem = Nothing /\ draft = Nothing /\ todo = <<>>
    /\ broken = FALSE /\ refreshed = {}
    /\ live = Nobody /\ alien = Nobody /\ open = {}

\* A process that has nothing to write goes on with `writes` of `doc`.
Handle(doc, writes) == draft' = doc /\ todo' = writes

-----------------------------------------------------------------------------
(* One write at a time.                                                    *)

Due(what) == todo # <<>> /\ Head(todo).what = what

Writing == todo # <<>> /\ Head(todo).what \in {"receipt", "summary", "journal", "unlink"}

WriteReceipt(s) ==
    /\ Due("receipt") /\ s \in Head(todo).of
    /\ receipt' = [receipt EXCEPT ![s] = draft.steps[s]]
    /\ todo' = IF Head(todo).of = {s} THEN Tail(todo)
               ELSE <<Op("receipt", Head(todo).of \ {s})>> \o Tail(todo)
    /\ open' = IF StatusOf(draft, s) \in {"pending", "running"} THEN open ELSE open \ {s}
    /\ UNCHANGED <<def, summary, journal, calls, pc, mem, draft, broken, refreshed, live, alien>>

WriteSummary ==
    /\ Due("summary")
    /\ summary' = draft
    /\ todo' = Tail(todo)
    /\ UNCHANGED <<def, receipt, journal, calls, pc, mem, draft, broken, refreshed, live, alien,
                   open>>

WriteJournal ==
    /\ Due("journal")
    /\ journal' = [doc |-> draft, changed |-> Head(todo).of]
    /\ todo' = Tail(todo)
    /\ UNCHANGED <<def, summary, receipt, calls, pc, mem, draft, broken, refreshed, live, alien,
                   open>>

\* finish_transition
Unlink ==
    /\ Due("unlink")
    /\ journal' = Nothing
    /\ todo' = Tail(todo)
    /\ UNCHANGED <<def, summary, receipt, calls, pc, mem, draft, broken, refreshed, live, alien,
                   open>>

\* revisions.apply takes the published record over as the run.
Adopt ==
    /\ Due("adopt")
    /\ mem' = draft
    /\ todo' = Tail(todo)
    /\ UNCHANGED <<def, disk, calls, pc, draft, broken, refreshed, live, alien, open>>

BeginWork(s) ==
    /\ Due("work") /\ s \in Head(todo).of
    /\ live' = [live EXCEPT ![s] = "working"]
    /\ open' = open \cup {s}
    /\ todo' = Tail(todo)
    /\ UNCHANGED <<def, disk, calls, pc, mem, draft, broken, refreshed, alien>>

\* _record raises the CheckpointError a worker came back with.
Raise ==
    /\ Due("raise")
    /\ broken' = TRUE
    /\ pc' = IF pc = "ending" THEN "closing" ELSE "ending"
    /\ todo' = IF pc = "ending" THEN <<Op("summary", {})>> ELSE <<>>
    /\ draft' = [mem EXCEPT !.left = FALSE]
    /\ UNCHANGED <<def, disk, calls, mem, refreshed, live, alien, open>>

\* The process is gone, and its record of the run with it.
Forgotten ==
    mem' = Nothing /\ draft' = Nothing /\ todo' = <<>> /\ broken' = FALSE /\ refreshed' = {}

\* A CheckpointError: the loop goes to its drain, the drain to the final save
\* (its message replaces the one about steps still running), a process that is
\* starting gives up, and one that saves for the last time only reports it. In
\* between, the loop rewrites the receipts of steps at work (_timing): what
\* they say here stays, so only a failure of that shows. The file may have been
\* replaced all the same (_atomic syncs its directory last), which after the
\* others of a handler reads like a failure of the next one.
WriteFails ==
    /\ DiskMayFail
    /\ \/ /\ pc \in {"up", "stopping"} /\ (Writing \/ todo = <<>>)
          /\ pc' = "ending" /\ broken' = TRUE /\ todo' = <<>>
          /\ UNCHANGED <<mem, draft, refreshed>>
       \/ /\ pc \in {"ending", "resolving"} /\ Writing
          /\ pc' = "closing" /\ broken' = TRUE
          /\ Handle([mem EXCEPT !.left = FALSE], <<Op("summary", {})>>)
          /\ UNCHANGED <<mem, refreshed>>
       \/ /\ pc = "closing" /\ Writing
          /\ todo' = <<>> /\ UNCHANGED <<pc, broken, mem, draft, refreshed>>
       \/ /\ pc \in {"starting", "replaying"} /\ Writing
          /\ pc' = "down" /\ Forgotten
    /\ summary' \in {summary} \cup (IF Due("summary") THEN {draft} ELSE {})
    /\ journal' \in {journal} \cup (IF Due("unlink") THEN {Nothing} ELSE {})
    /\ UNCHANGED <<def, receipt, calls, live, alien, open>>

-----------------------------------------------------------------------------
(* A process takes the run up.                                             *)

\* run_cycle of a run that has no record yet.
Start ==
    /\ pc = "down" /\ summary = Nothing
    /\ pc' = "starting"
    /\ mem' = NewRun /\ Handle(NewRun, <<Op("summary", {})>>)
    /\ UNCHANGED <<def, disk, calls, broken, refreshed, live, alien, open>>

\* load: a journal that is there is carried out first.
Load ==
    /\ pc = "down" /\ summary # Nothing
    /\ LoadedSummary.epoch < MaxResumes
    /\ pc' = "replaying"
    /\ IF journal = Nothing THEN UNCHANGED <<draft, todo>>
       ELSE Handle(journal.doc, Materialize(journal.changed) \o <<Op("unlink", {})>>)
    /\ UNCHANGED <<def, disk, calls, mem, broken, refreshed, live, alien, open>>

\* Nobody knows what became of a call that was begun and has no answer.
Complete(s) == \A r \in 0..MaxRevisions : calls[s][r].state # "started"
Called(s) == \E r \in 0..MaxRevisions : calls[s][r].state # "none"

\* Mutant: a worker of an earlier process is not thought of.
CertainAlone(doc, s) ==
    Complete(s) /\ (StatusOf(doc, s) = "running" => s \in Human \/ (s \in Recoverable /\ Called(s)))

\* Mutant: a step with no receipt of a call did nothing.
CertainUncalled(doc, s) ==
    Complete(s) /\ (StatusOf(doc, s) = "running" /\ Called(s) => s \in Human \cup Recoverable)

\* What an interrupted step did is known, or asking again costs nothing.
Certain(doc, s) ==
    /\ Complete(s)
    /\ StatusOf(doc, s) = "running" =>
            s \in Human \/ (s \in Recoverable /\ Called(s) /\ ~doc.left)

Retried(doc) ==
    {s \in Steps : StatusOf(doc, s) \in {"failed", "cancelled", "pending", "waiting", "running"}}

\* What is asked again on every resume, and the gates that check its answers.
Refreshed ==
    {s \in Steps : \A C \in SUBSET Steps :
        (Transient \subseteq C /\ \A c \in Checks : Needs[c] \cap C # {} => c \in C) => s \in C}

\* resume: all that has no result or comes after such, and what is refreshed.
Again(doc) ==
    Downstream(Retried(doc)) \cup {s \in Steps : StatusOf(doc, s) = "skipped"} \cup Refreshed

\* Mutant: the definitions of kept results are not compared.
MayResumeEdited(doc) == Retried(doc) # {} /\ \A s \in Steps : Certain(doc, s)

MayResume(doc) ==
    /\ Retried(doc) # {}
    /\ \A s \in Steps : Certain(doc, s)
    /\ \A s \in Steps \ Again(doc) : doc.steps[s].def = def[s]

Resumed(doc) ==
    [doc EXCEPT !.steps = [s \in Steps |-> IF s \in Again(doc) THEN [status |-> "pending", def |-> 0]
                                           ELSE doc.steps[s]],
                !.epoch = @ + 1, !.left = FALSE]

\* Store.resume, then Store.begin: its save writes the same summary again.
Resume ==
    /\ pc = "replaying" /\ todo = <<>>
    /\ MayResume(Loaded)
    /\ pc' = "starting"
    /\ mem' = Resumed(Loaded)
    /\ refreshed' = Refreshed
    /\ Handle(mem', Publish(Again(Loaded)) \o <<Op("unlink", {})>>)
    /\ UNCHANGED <<def, disk, calls, broken, live, alien, open>>

Refuse ==
    /\ pc = "replaying" /\ todo = <<>>
    /\ ~MayResume(Loaded)
    /\ pc' = "down" /\ Forgotten
    /\ UNCHANGED <<def, disk, calls, live, alien, open>>

Go ==
    /\ pc = "starting" /\ todo = <<>>
    /\ pc' = "up"
    /\ UNCHANGED <<def, disk, calls, mem, draft, todo, broken, refreshed, live, alien, open>>

-----------------------------------------------------------------------------
(* The loop: one decision at a time, and the writes it owes.               *)

Over(s) == StatusOf(mem, s) \notin {"pending", "running", "waiting"}

\* What this process asks again, of all that a step comes after.
AskedBefore(s) == Upstream({s}) \cap refreshed

\* Mutant: a result that was kept hides the answer behind it.
ReadyByNeeds(s) == \A n \in Needs[s] : StatusOf(mem, n) = "success"

\* _readiness of a step with no `if:`.
Ready(s) == \A n \in Needs[s] \cup AskedBefore(s) : StatusOf(mem, n) = "success"

Hopeless(s) ==
    \/ \E n \in AskedBefore(s) : Over(n) /\ StatusOf(mem, n) # "success"
    \/ /\ \A n \in AskedBefore(s) : Over(n)
       /\ \E n \in Needs[s] : Over(n) /\ StatusOf(mem, n) # "success"

\* A step's record changes and is saved, with `writes`.
Note(doc, writes) == mem' = doc /\ Handle(doc, writes)

StartStep(s) ==
    /\ pc = "up" /\ todo = <<>>
    /\ StatusOf(mem, s) = "pending" /\ Ready(s)
    /\ Note([mem EXCEPT !.steps[s] = [status |-> "running", def |-> def[s]]], StartWrites(s))
    /\ UNCHANGED <<def, disk, calls, pc, broken, refreshed, live, alien, open>>

\* _resolve: a step that will not run, one that a stopped run never reached,
\* and, once the loop is left, one that waits.
ResolveStep(s) ==
    /\ todo = <<>>
    /\ \/ pc = "up" /\ StatusOf(mem, s) = "pending" /\ Hopeless(s)
          /\ Note(WithStatus(mem, s, "skipped"), StepWrites(s))
       \/ pc = "stopping" /\ StatusOf(mem, s) = "pending"
          /\ Note(WithStatus(mem, s, "cancelled"), StepWrites(s))
       \/ pc = "resolving" /\ StatusOf(mem, s) \in {"pending", "waiting"}
          /\ Note(WithStatus(mem, s, "cancelled"), StepWrites(s))
    /\ UNCHANGED <<def, disk, calls, pc, broken, refreshed, live, alien, open>>

\* _wake writes nothing. A run that stops wakes everything.
Wake(s) ==
    /\ pc \in {"up", "stopping"} /\ todo = <<>>
    /\ StatusOf(mem, s) = "waiting"
    /\ mem' = WithStatus(mem, s, "pending")
    /\ UNCHANGED <<def, disk, calls, pc, draft, todo, broken, refreshed, live, alien, open>>

\* Mutant: off by one.
MayReviseOnceMore(g) ==
    /\ mem.revised[g] <= MaxRevisions
    /\ \A s \in PathBack(PlanOf[g], g) \ {g} : live[s] = "no"
    /\ \A s \in Downstream({PlanOf[g]}) \ PathBack(PlanOf[g], g) :
            StatusOf(mem, s) \in {"pending", "skipped"}

\* What revisions.apply refuses; the gate itself has left `inflight`.
MayRevise(g) ==
    /\ mem.revised[g] < MaxRevisions
    /\ \A s \in PathBack(PlanOf[g], g) \ {g} : live[s] = "no"
    /\ \A s \in Downstream({PlanOf[g]}) \ PathBack(PlanOf[g], g) :
            StatusOf(mem, s) \in {"pending", "skipped"}

\* What a plugin's answer stands for; a step told to stop did not fail.
Verdict(s) ==
    IF live[s] = "ok" THEN "success"
    ELSE IF pc # "up" THEN "cancelled"
    ELSE IF live[s] = "later" THEN "waiting"
    ELSE IF live[s] = "refused" THEN "refused" ELSE "failed"

Revising(s) == pc = "up" /\ live[s] = "revise" /\ MayRevise(s)

\* _record, in the loop and in its drain.
Record(s) ==
    /\ pc \in {"up", "stopping", "ending"} /\ todo = <<>>
    /\ live[s] \in {"ok", "bad", "refused", "later", "revise", "unsaved"}
    /\ live' = [live EXCEPT ![s] = "no"]
    /\ IF Revising(s)
       THEN /\ Handle([mem EXCEPT !.revised[s] = @ + 1,
                                  !.steps = [n \in Steps |-> IF n \in PathBack(PlanOf[s], s)
                                             THEN [status |-> "pending", def |-> 0]
                                             ELSE mem.steps[n]]],
                      Publish(PathBack(PlanOf[s], s)) \o <<Op("adopt", {}), Op("unlink", {})>>)
            /\ UNCHANGED mem
       ELSE Note(WithStatus(mem, s, Verdict(s)),
                 StepWrites(s) \o IF live[s] = "unsaved" THEN <<Op("raise", {})>> ELSE <<>>)
    /\ UNCHANGED <<def, disk, calls, pc, broken, refreshed, alien, open>>

\* Stop, or a failure under `on_failure: stop`.
Stop ==
    /\ pc = "up" /\ todo = <<>>
    /\ pc' = "stopping"
    /\ UNCHANGED <<def, disk, calls, mem, draft, todo, broken, refreshed, live, alien, open>>

\* The loop is left when nothing is left to do, or by Ctrl+C.
LeaveLoop ==
    /\ pc \in {"up", "stopping"} /\ todo = <<>>
    /\ pc' = "ending"
    /\ UNCHANGED <<def, disk, calls, mem, draft, todo, broken, refreshed, live, alien, open>>

\* _drain is over: every worker reported, or the grace period is spent. A loop
\* left by a CheckpointError gives nobody a verdict any more. A worker that is
\* still at it gets one in memory, without a receipt of its own.
EndDrain ==
    /\ pc = "ending" /\ todo = <<>>
    /\ MayOutlive \/ live = Nobody
    /\ IF broken
       THEN /\ pc' = "closing"
            /\ Handle([mem EXCEPT !.left = FALSE], <<Op("summary", {})>>)
            /\ UNCHANGED mem
       ELSE /\ pc' = "resolving"
            /\ mem' = [mem EXCEPT !.left = (live # Nobody),
                                  !.steps = [s \in Steps |-> IF live[s] = "no" THEN mem.steps[s]
                                             ELSE [mem.steps[s] EXCEPT !.status = "cancelled"]]]
            /\ UNCHANGED <<draft, todo>>
    /\ UNCHANGED <<def, disk, calls, broken, refreshed, live, alien, open>>

\* The final save of _run_cycle.
FinalSave ==
    /\ pc = "resolving" /\ todo = <<>>
    /\ \A s \in Steps : Over(s)
    /\ pc' = "closing"
    /\ Handle(mem, <<Op("summary", {})>>)
    /\ UNCHANGED <<def, disk, calls, mem, broken, refreshed, live, alien, open>>

\* run_cycle returns, and the lock with it: workers that are left go on alone.
GiveUpLock ==
    /\ pc = "closing" /\ todo = <<>>
    /\ pc' = "down" /\ Forgotten
    /\ live' = Nobody
    /\ alien' = [s \in Steps |-> IF live[s] = "no" THEN alien[s] ELSE live[s]]
    /\ UNCHANGED <<def, disk, calls, open>>

Crash ==
    /\ pc # "down"
    /\ pc' = "down" /\ Forgotten
    /\ live' = Nobody
    /\ UNCHANGED <<def, disk, calls, alien, open>>

\* Somebody changes a step in the cycle file; a process reads it at its start.
Edit(s) ==
    /\ pc = "down"
    /\ \E e \in 1..MaxEdits :
        /\ \A n \in Steps : def[n] < e
        /\ def' = [def EXCEPT ![s] = e]
    /\ UNCHANGED <<disk, calls, process, live, alien, open>>

-----------------------------------------------------------------------------
(* The workers.                                                            *)

\* Mutant: only a good answer is remembered.
CachedIfGood(call) == call.state = "ok"

\* Operation.cached: a good answer always, a bad one in the same execution.
Cached(call) == call.state = "ok" \/ (call.state = "bad" /\ call.epoch = mem.epoch)

\* A paid call is answered from its receipt, refused because an earlier one is
\* unresolved, begun, or fails for want of a receipt.
Request(s) ==
    LET r == Round(mem, s)
        begun == [calls EXCEPT ![s][r] = [state |-> "started", epoch |-> mem.epoch]]
    IN  /\ live[s] = "working" /\ s \in Recoverable
        /\ \/ /\ Cached(calls[s][r])
              /\ live' = [live EXCEPT ![s] = "answered"] /\ UNCHANGED calls
           \/ /\ ~Cached(calls[s][r]) /\ calls[s][r].state = "started"
              /\ live' = [live EXCEPT ![s] = "unsaved"] /\ UNCHANGED calls
           \/ /\ ~Cached(calls[s][r]) /\ calls[s][r].state # "started"
              /\ \/ live' = [live EXCEPT ![s] = "calling"] /\ calls' = begun
                 \/ /\ DiskMayFail
                    /\ live' = [live EXCEPT ![s] = "unsaved"] /\ calls' \in {calls, begun}
        /\ UNCHANGED <<def, disk, process, alien, open>>

\* The receipt of the call that is out, if there is an answer to put in it.
Answered(s) ==
    \E r \in 0..MaxRevisions, answer \in {"ok", "bad"} :
        /\ calls[s][r].state = "started"
        /\ calls' = [calls EXCEPT ![s][r].state = answer]

\* Operation.complete. No answer, no receipt: a killed agent leaves its call
\* unresolved, and so does an answer that cannot be saved.
Answer(s) ==
    /\ live[s] = "calling"
    /\ \/ Answered(s) /\ live' = [live EXCEPT ![s] = "answered"]
       \/ live' = [live EXCEPT ![s] = "bad"] /\ UNCHANGED calls
       \/ /\ DiskMayFail
          /\ live' = [live EXCEPT ![s] = "unsaved"] /\ (Answered(s) \/ UNCHANGED calls)
    /\ UNCHANGED <<def, disk, process, alien, open>>

\* plugin.execute comes back. One that calls may fail before it does.
Return(s) ==
    /\ \/ /\ live[s] = IF s \in Recoverable THEN "answered" ELSE "working"
          /\ live' \in {[live EXCEPT ![s] = reply] : reply \in {"ok", "bad"}
                            \cup (IF s \in Decisive THEN {"refused"} ELSE {})
                            \cup (IF s \in Parking THEN {"later"} ELSE {})
                            \cup (IF s \in Gates THEN {"revise"} ELSE {})}
       \/ live[s] = "working" /\ s \in Recoverable /\ live' = [live EXCEPT ![s] = "bad"]
    /\ UNCHANGED <<def, disk, calls, process, alien, open>>

\* Another attempt, while nobody stops it: what failed is executed again.
Retry(s) ==
    /\ pc = "up" /\ live[s] \in {"bad", "refused"}
    /\ live' = [live EXCEPT ![s] = "working"]
    /\ UNCHANGED <<def, disk, calls, process, alien, open>>

\* A worker whose process gave the run up: its call is answered, and it ends.
\* It begins no call: its token is set.
Straggle(s) ==
    /\ alien[s] # "no"
    /\ \/ alien[s] = "calling" /\ Answered(s) /\ alien' = [alien EXCEPT ![s] = "answered"]
       \/ alien' = [alien EXCEPT ![s] = "no"] /\ UNCHANGED calls
    /\ UNCHANGED <<def, disk, process, live, open>>

-----------------------------------------------------------------------------
StepWork(s) ==
    \/ WriteReceipt(s) \/ BeginWork(s) \/ StartStep(s) \/ ResolveStep(s) \/ Wake(s) \/ Record(s)
    \/ Request(s) \/ Answer(s) \/ Return(s) \/ Retry(s) \/ Straggle(s) \/ Edit(s)

RunWork ==
    \/ WriteSummary \/ WriteJournal \/ Unlink \/ Adopt \/ Raise \/ WriteFails
    \/ Start \/ Load \/ Resume \/ Refuse \/ Go
    \/ Stop \/ LeaveLoop \/ EndDrain \/ FinalSave \/ GiveUpLock \/ Crash

Next == RunWork \/ \E s \in Steps : StepWork(s)

Spec == Init /\ [][Next]_vars

-----------------------------------------------------------------------------
(* Properties.                                                             *)

\* Every file and table is what the code keeps there.
TypeOK ==
    /\ def \in [Steps -> 0..MaxEdits]
    /\ summary \in Documents \cup {Nothing}
    /\ receipt \in [Steps -> Entries \cup {Nothing}]
    /\ journal \in Journals \cup {Nothing}
    /\ calls \in [Steps -> [0..MaxRevisions -> Calls]]
    /\ pc \in {"down", "replaying", "starting", "up", "stopping", "ending", "resolving", "closing"}
    /\ mem \in Documents \cup {Nothing} /\ draft \in Documents \cup {Nothing}
    /\ \A i \in DOMAIN todo : todo[i].of \subseteq Steps
    /\ broken \in BOOLEAN /\ refreshed \subseteq Steps
    /\ live \in [Steps -> WorkerStates] /\ alien \in [Steps -> WorkerStates]
    /\ open \subseteq Steps

\* While a worker is inside its plugin, whatever dies next, a later process
\* reads that its step is running ("the execution record is a prerequisite for
\* work", the store's module docstring).
WorkIsOnDisk == \A s \in Steps : live[s] # "no" => StatusOf(Loaded, s) = "running"

\* A step without receipts of its own that worked, and whose verdict was lost,
\* stays "running" on disk however often somebody tries to resume.
UnknownStaysRunning ==
    \A s \in open \ (Human \cup Recoverable) : StatusOf(Loaded, s) = "running"

\* A run that goes on builds only on results made by the steps as they are
\* defined now: resume compares definitions, and only a process at its start
\* reads the cycle file.
KeptCurrent ==
    pc \in {"up", "stopping"} =>
        \A s \in Steps : mem.steps[s].status \in {"success", "refused"} =>
            mem.steps[s].def = def[s]

\* A worker is at it only when every answer this process asks again, however
\* far up, is in: a result kept from before does not hide it.
AskedFirst ==
    \A s \in Steps : live[s] # "no" =>
        \A n \in AskedBefore(s) : StatusOf(mem, n) = "success"

\* A paid call is begun again only after a recorded bad answer, and only in a
\* later execution of the run: never beside a call whose outcome nobody knows.
BegunAgainKnowing ==
    \A s \in Steps, r \in 0..MaxRevisions :
        (calls'[s][r] # calls[s][r] /\ calls'[s][r].state = "started") =>
            \/ calls[s][r].state = "none"
            \/ calls[s][r].state = "bad" /\ calls[s][r].epoch < calls'[s][r].epoch
CallsOnce == [][BegunAgainKnowing]_vars

\* "One executor owns a run, including across processes" (lock): no work is
\* taken up again beside a worker an earlier process left behind. A question
\* is not work: it may be open twice.
OneExecution == \A s \in Steps \ Human : live[s] # "no" => alien[s] = "no"

\* The record a later process would read, before the first save a new one.
LaterRecord == [s \in Steps |-> IF summary = Nothing THEN "pending" ELSE StatusOf(Loaded, s)]

Durable == INSTANCE DurableRecord WITH record <- LaterRecord

\* Crashes, failed writes and half-finished transitions included, the record
\* moves as DurableRecord says.
ImplementsRecord == Durable!Spec
=============================================================================
