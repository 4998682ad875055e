--------------------------- MODULE RunInteractions ---------------------------
(***************************************************************************)
(* What a person says to a run while it is going (cycle/interactions.py):  *)
(* messages to one execution of a step, or to the rest of the run; the     *)
(* snapshots of them that a step's plugin takes at its points; the calls   *)
(* it makes with them (plugins/agent_run.py, operations.py); and the loop  *)
(* that accepts, closes and reopens them (cycle/executor.py), over crashes *)
(* and resumes.                                                            *)
(*                                                                         *)
(* Every step stops the run where it fails. Left out: refusals for what a  *)
(* message is or for how many there are, a file that cannot be written,    *)
(* calls recorded before messages were, answers that are errors, and what  *)
(* a message sent twice is answered (what it was the first time).          *)
(***************************************************************************)
EXTENDS StepGraph

CONSTANTS
    Messages,
    Points,        \* step -> how many points its plugin reads messages at
    PlanOf,        \* step that may send a plan back -> the step of that plan
    Parking,       \* steps whose plugin may ask to be come back to
    MaxWaits,      \* bound: how often one may
    MaxRevisions,  \* bound: how often a plan is sent back
    MaxResumes     \* bound: how often the run is taken up again

Earlier == [s \in Steps |-> Upstream({s})]
Takers == {s \in Steps : Points[s] > 0}
Executions == 1..MaxRevisions + 1

\* _key: a point of one execution; the point 0 is what `finish` files under "".
Keys == UNION {{s} \X Executions \X (0..Points[s]) : s \in Steps}

ASSUME InteractionsAssumption ==
    /\ Points \in [Steps -> Nat]
    /\ DOMAIN PlanOf \subseteq Steps /\ PlanOf \in [DOMAIN PlanOf -> Steps]
    /\ \A g \in DOMAIN PlanOf : PlanOf[g] \in Upstream({g})
    /\ Parking \subseteq Steps /\ {MaxWaits, MaxRevisions, MaxResumes} \subseteq Nat

Deliveries == {"no", "handing", "delivered", "uncertain", "undelivered"}
States == {"none", "sent", "refused", "rejected", "pending", "delivered", "uncertain", "undelivered"}

VARIABLES
    msg,        \* message -> its record: to whom (0 is the run), execution, state, deliveries
    snap,       \* recorded snapshots: <<key, the messages in it>>
    begun,      \* calls with a started receipt: <<key, the messages in their input>>
    complete,   \* calls with a complete receipt
    status,     \* step -> its status
    exec,       \* step -> its execution
    active,     \* step -> the execution in flight, 0 without one
    offered,    \* steps that offer to be told something
    withdrawn,  \* steps and executions that have no point left
    closed,     \* _closed
    work,       \* step -> its worker: where it is, its point, the snapshot it took
    pc,         \* where the loop is
    stopping,   \* the run's token
    waits, resumes

kept == <<msg, snap, begun, complete>>
offers == <<active, offered, withdrawn, closed>>
loop == <<status, exec, pc, stopping, waits, resumes>>
vars == <<kept, offers, loop, work>>

Idle == [at |-> "no", point |-> 0, items |-> {}, recorded |-> FALSE]

Init ==
    /\ msg = [m \in Messages |-> [to |-> 0, exec |-> 0, state |-> "none",
                                  given |-> [k \in Keys |-> "no"]]]
    /\ snap = {} /\ begun = {} /\ complete = {}
    /\ status = [s \in Steps |-> "pending"] /\ exec = [s \in Steps |-> 1]
    /\ active = [s \in Steps |-> 0] /\ offered = Takers /\ withdrawn = {} /\ closed = FALSE
    /\ work = [s \in Steps |-> Idle]
    /\ pc = "going" /\ stopping = FALSE /\ waits = 0 /\ resumes = 0

-----------------------------------------------------------------------------
(* What became of a message.                                               *)

Unheard == {"none", "sent", "refused", "rejected"}

Has(r, delivery) == \E k \in Keys : r.given[k] = delivery

\* _settle
Settled(r) ==
    [r EXCEPT !.state = IF @ \in Unheard THEN @
                        ELSE IF Has(r, "delivered") THEN "delivered"
                        ELSE IF Has(r, "uncertain") THEN "uncertain"
                        ELSE IF @ \in {"delivered", "uncertain"} THEN "pending" ELSE @]

\* The execution of a step that finish is about.
Current(s) == IF active[s] # 0 THEN active[s] ELSE exec[s]

Ends(k, ended) == k[1] \in ended /\ k[2] = Current(k[1])

\* To a message of the run, each step that ends is a delivery of its own.
Unread(r, k) ==
    /\ r.to = 0 /\ r.state # "undelivered" /\ k[1] \in Takers /\ k[3] = 0
    /\ \A p \in 0..Points[k[1]] : r.given[<<k[1], k[2], p>>] = "no"

\* finish, for the steps that end.
Finished(r, ended) ==
    IF r.state \in Unheard THEN r
    ELSE Settled(
        [r EXCEPT !.state = IF /\ @ = "pending" /\ r.to \in ended /\ r.exec = Current(r.to)
                               /\ ~\E k \in Keys : Ends(k, ended) /\ r.given[k] = "handing"
                            THEN "undelivered" ELSE @,
                  !.given = [k \in Keys |->
                      IF Ends(k, ended) /\ @[k] = "handing" THEN "uncertain"
                      ELSE IF Ends(k, ended) /\ Unread(r, k) THEN "undelivered" ELSE @[k]]])

\* seal
Sealed(r) ==
    Settled([r EXCEPT !.given = [k \in Keys |-> IF @[k] = "handing" THEN "uncertain" ELSE @[k]]])

\* close
ClosedFor(r) ==
    IF r.state = "pending" /\ ~Has(r, "handing") THEN [r EXCEPT !.state = "undelivered"]
    ELSE IF r.state = "sent" THEN [r EXCEPT !.state = "refused"] ELSE r

\* Mutant: a call without an answer is taken for one that never began.
LoadedIfComplete(r, m) ==
    Settled([r EXCEPT !.given = [k \in Keys |->
        IF @[k] # "handing" THEN @[k]
        ELSE IF \E c \in complete : c[1] = k /\ m \in c[2] THEN "delivered" ELSE "no"]])

\* load: what was in progress is what the receipt of its call says.
Loaded(r, m) ==
    Settled([r EXCEPT !.given = [k \in Keys |->
        IF @[k] # "handing" THEN @[k]
        ELSE IF \E c \in complete : c[1] = k /\ m \in c[2] THEN "delivered"
        ELSE IF \E c \in begun : c[1] = k /\ m \in c[2] THEN "uncertain" ELSE "no"]])

\* open: what can no longer arrive in the run as it is taken up.
Reopened(r) ==
    IF r.state = "pending" /\ r.to # 0 /\ (status[r.to] = "success" \/ r.exec # exec[r.to])
    THEN [r EXCEPT !.state = "undelivered"] ELSE r

-----------------------------------------------------------------------------
(* A person, and what the loop does with what they say.                    *)

\* A front-end shows who can be told something; it may be out of date.
Send(m) ==
    /\ pc = "going" /\ msg[m].state = "none"
    /\ \E to \in Takers \cup {0} : msg' = [msg EXCEPT ![m].to = to, ![m].state = "sent"]
    /\ UNCHANGED <<snap, begun, complete, offers, loop, work>>

\* _judge
Problem(to) ==
    IF to = 0 THEN offered = {} ELSE to \notin offered \/ status[to] \in {"success", "failed", "cancelled"}

\* accept
Accept(m) ==
    /\ pc = "going" /\ msg[m].state = "sent"
    /\ msg' = [msg EXCEPT ![m].exec = IF msg[m].to = 0 THEN 0 ELSE exec[msg[m].to],
                          ![m].state = IF Problem(msg[m].to) THEN "rejected" ELSE "pending"]
    /\ UNCHANGED <<snap, begun, complete, offers, loop, work>>

-----------------------------------------------------------------------------
(* The loop.                                                               *)

End(s, verdict) ==
    /\ msg' = [m \in Messages |-> Finished(msg[m], {s})]
    /\ active' = [active EXCEPT ![s] = 0]
    /\ offered' = offered \ {s}
    /\ status' = [status EXCEPT ![s] = verdict]

\* _start
Start(s) ==
    /\ pc = "going" /\ ~stopping /\ status[s] = "pending"
    /\ \A n \in Needs[s] : status[n] = "success"
    /\ status' = [status EXCEPT ![s] = "running"]
    /\ active' = [active EXCEPT ![s] = exec[s]]
    /\ offered' = IF s \in Takers /\ <<s, exec[s]>> \notin withdrawn THEN offered \cup {s} ELSE offered
    /\ work' = [work EXCEPT ![s] = [Idle EXCEPT !.at = "free", !.point = 1]]
    /\ UNCHANGED <<kept, exec, withdrawn, closed, pc, stopping, waits, resumes>>

Quit(s) ==
    /\ pc = "going" /\ stopping /\ status[s] \in {"pending", "waiting"}
    /\ End(s, "cancelled")
    /\ UNCHANGED <<snap, begun, complete, withdrawn, closed, exec, pc, stopping, waits, resumes, work>>

Wake(s) ==
    /\ pc = "going" /\ status[s] = "waiting"
    /\ status' = [status EXCEPT ![s] = "pending"]
    /\ UNCHANGED <<kept, offers, exec, pc, stopping, waits, resumes, work>>

Collect(s, at) ==
    /\ pc \in {"going", "draining"} /\ work[s].at = at
    /\ work' = [work EXCEPT ![s] = Idle]
    /\ UNCHANGED <<snap, begun, complete, withdrawn, closed, pc, resumes>>

Inflight == {s \in Steps : work[s].at # "no"}

\* revisions.targets: the plan, its gate, and what is between them.
Again(g) == PathBack(PlanOf[g], g)

\* revisions.apply: within its limit, with nobody at work on the path, and
\* before what else depends on the plan has started.
MayRevise(g) ==
    /\ \A t \in Again(g) : exec[t] <= MaxRevisions
    /\ Again(g) \cap Inflight \subseteq {g}
    /\ \A t \in Downstream({PlanOf[g]}) \ Again(g) : status[t] = "pending"

Verdict(result) ==
    IF stopping /\ result # "success" THEN "cancelled"
    ELSE IF result = "revises" THEN "failed" ELSE result

\* _record: a verdict, or a wait or a revision that is refused.
Record(s) ==
    \E result \in {"success", "failed", "waits", "revises"} :
        /\ Collect(s, result)
        /\ result = "waits" => stopping
        /\ result = "revises" => stopping \/ ~MayRevise(s)
        /\ End(s, Verdict(result))
        /\ stopping' = (stopping \/ Verdict(result) = "failed")
        /\ UNCHANGED <<exec, waits>>

Park(s) ==
    /\ ~stopping /\ Collect(s, "waits")
    /\ status' = [status EXCEPT ![s] = "waiting"] /\ waits' = waits + 1
    /\ UNCHANGED <<msg, active, offered, exec, stopping>>

\* reoffer: what is sent back is a new execution of each step.
Revise(s) ==
    LET again == Again(s)
    IN  /\ ~stopping /\ Collect(s, "revises") /\ MayRevise(s)
        /\ exec' = [t \in Steps |-> IF t \in again THEN exec[t] + 1 ELSE exec[t]]
        /\ status' = [t \in Steps |-> IF t \in again THEN "pending" ELSE status[t]]
        /\ active' = [t \in Steps |-> IF t \in again THEN 0 ELSE active[t]]
        /\ offered' = offered \cup (again \cap Takers)
        /\ UNCHANGED <<msg, stopping, waits>>

Stop ==
    /\ pc = "going" /\ ~stopping
    /\ stopping' = TRUE
    /\ UNCHANGED <<kept, offers, status, exec, pc, waits, resumes, work>>

\* drive ends: with every step, or at once where it is interrupted.
EndRun ==
    /\ pc = "going"
    /\ stopping \/ (Inflight = {} /\ \A s \in Steps : status[s] = "success")
    /\ pc' = "closing" /\ stopping' = TRUE
    /\ UNCHANGED <<kept, offers, status, exec, waits, resumes, work>>

\* close_messages, before the drain
Close ==
    /\ pc = "closing"
    /\ closed' = TRUE /\ offered' = {}
    /\ msg' = [m \in Messages |-> ClosedFor(msg[m])]
    /\ pc' = "draining"
    /\ UNCHANGED <<snap, begun, complete, active, withdrawn, status, exec, stopping, waits, resumes,
                   work>>

\* _resolve_remaining, and seal.
Seal ==
    /\ pc = "draining"
    /\ LET left == {s \in Steps : status[s] \in {"pending", "waiting", "running"}}
       IN  /\ msg' = [m \in Messages |-> Sealed(Finished(msg[m], left))]
           /\ active' = [s \in Steps |-> IF s \in left THEN 0 ELSE active[s]]
           /\ status' = [s \in Steps |-> IF s \in left THEN "cancelled" ELSE status[s]]
    /\ pc' = "over"
    /\ UNCHANGED <<snap, begun, complete, offered, withdrawn, closed, exec, stopping, waits, resumes,
                   work>>

-----------------------------------------------------------------------------
(* The worker of a step.                                                   *)

Key(s) == <<s, exec[s], work[s].point>>
Call(s) == <<Key(s), work[s].items>>

Goes(s, from, to) ==
    /\ work[s].at = from
    /\ work' = [work EXCEPT ![s].at = to]

Passes(s, from) ==
    /\ work[s].at = from
    /\ work' = [work EXCEPT ![s] = [Idle EXCEPT !.at = "free", !.point = work[s].point + 1]]

Read(s) == [m \in Messages |-> m \in work[s].items /\ work[s].recorded]

\* Mutant: what earlier steps were told is not read.
AppliesHere(m, s) ==
    /\ msg[m].state \in {"pending", "delivered", "uncertain"}
    /\ msg[m].to = 0 \/ (msg[m].to = s /\ msg[m].exec = active[s])

\* _applies
Applies(m, s) ==
    /\ msg[m].state \in {"pending", "delivered", "uncertain"}
    /\ \/ msg[m].to = 0
       \/ msg[m].to = s /\ msg[m].exec = active[s]
       \/ /\ msg[m].to \in Earlier[s] /\ msg[m].exec = exec[msg[m].to]
          /\ \E k \in Keys : k[1] = msg[m].to /\ msg[m].given[k] = "delivered"

\* Mutant: a snapshot of nothing is not worth saving.
RecordedUnlessEmpty(key, items) == IF items = {} THEN {} ELSE {<<key, items>>}

Recorded(key, items) == {<<key, items>>}

\* take: a point taken again is what it was; one taken by a run that is closed
\* is empty, and not recorded.
Take(s) ==
    /\ work[s].at = "free" /\ work[s].point <= Points[s]
    /\ LET before == {c \in snap : c[1] = Key(s)}
           lives == active[s] # 0 /\ (before # {} \/ ~closed)
           items == IF ~lives THEN {}
                    ELSE IF before # {} THEN (CHOOSE c \in before : TRUE)[2]
                    ELSE {m \in Messages : Applies(m, s)}
       IN  /\ work' = [work EXCEPT ![s].at = "took", ![s].items = items, ![s].recorded = lives]
           /\ snap' = IF lives /\ before = {} THEN snap \cup Recorded(Key(s), items) ELSE snap
           /\ IF lives /\ work[s].point = Points[s]
              THEN withdrawn' = withdrawn \cup {<<s, active[s]>>} /\ offered' = offered \ {s}
              ELSE UNCHANGED <<withdrawn, offered>>
    /\ UNCHANGED <<msg, begun, complete, active, closed, loop>>

\* _mark
Mark(s, state) ==
    msg' = [m \in Messages |->
               IF Read(s)[m] /\ msg[m].given[Key(s)] # "delivered"
               THEN Settled([msg[m] EXCEPT !.given[Key(s)] = state]) ELSE msg[m]]

\* The saved answer of a call that was made with these very messages.
Reuse(s) ==
    /\ Call(s) \in complete /\ Passes(s, "took")
    /\ Mark(s, "delivered")
    /\ UNCHANGED <<snap, begun, complete, offers, loop>>

\* A call whose outcome is not known is not made again.
Doubt(s) ==
    /\ Call(s) \in begun /\ Goes(s, "took", "failed")
    /\ UNCHANGED <<kept, offers, loop>>

\* bind
Bind(s) ==
    /\ Call(s) \notin begun \cup complete /\ Goes(s, "took", "bound")
    /\ Mark(s, "handing")
    /\ UNCHANGED <<snap, begun, complete, offers, loop>>

\* Mutant: the token is not looked at.
MayCallAnyway == TRUE

\* Operation.begin: raises where the step is told to stop.
MayCall == ~stopping

Begin(s) ==
    /\ MayCall /\ Goes(s, "bound", "calling")
    /\ begun' = begun \cup {Call(s)}
    /\ UNCHANGED <<msg, snap, complete, offers, loop>>

Halt(s) ==
    /\ ~MayCall /\ Goes(s, "bound", "failed")
    /\ UNCHANGED <<kept, offers, loop>>

\* Operation.complete, with what came back.
Answer(s) ==
    /\ Goes(s, "calling", "answered")
    /\ begun' = begun \ {Call(s)} /\ complete' = complete \cup {Call(s)}
    /\ UNCHANGED <<msg, snap, offers, loop>>

\* It could not be started: its receipt says that nothing was read. Who asks for
\* it later finds what no receipt would say: `_receipt_state` knows nothing of
\* it, and `cached` passes it over in a later epoch, where alone the step may
\* call again.
NotStarted(s) ==
    /\ Goes(s, "calling", "unstarted")
    /\ begun' = begun \ {Call(s)}
    /\ UNCHANGED <<msg, snap, complete, offers, loop>>

NoAnswer(s) ==
    /\ Goes(s, "calling", "failed")
    /\ UNCHANGED <<kept, offers, loop>>

\* delivered, after the receipt.
Confirm(s) ==
    /\ Passes(s, "answered")
    /\ Mark(s, "delivered")
    /\ UNCHANGED <<snap, begun, complete, offers, loop>>

\* Mutant: nobody looks whether there is anything left to wait for.
WaitingOn(r) == r

\* What a message goes back to, where nothing else holds it.
Waiting(r) ==
    IF r.state # "pending" \/ Has(r, "handing") THEN r
    ELSE IF closed \/ (r.to # 0 /\ active[r.to] # r.exec) THEN [r EXCEPT !.state = "undelivered"] ELSE r

\* release
Release(s) ==
    /\ Goes(s, "unstarted", "failed")
    /\ msg' = [m \in Messages |->
                  IF Read(s)[m] /\ msg[m].given[Key(s)] = "handing"
                  THEN Waiting(Settled([msg[m] EXCEPT !.given[Key(s)] = "no"])) ELSE msg[m]]
    /\ UNCHANGED <<snap, begun, complete, offers, loop>>

\* The plugin comes back, after its last point or to be called again.
Return(s) ==
    /\ \/ work[s].point > Points[s] /\ Goes(s, "free", "success")
       \/ s \in Parking /\ waits < MaxWaits /\ Goes(s, "free", "waits")
       \/ s \in DOMAIN PlanOf /\ work[s].point > Points[s] /\ Goes(s, "free", "revises")
    /\ UNCHANGED <<kept, offers, loop>>

-----------------------------------------------------------------------------
\* The process goes; so do the messages it has not saved.
Crash ==
    /\ pc \notin {"over", "down"} /\ resumes < MaxResumes
    /\ msg' = [m \in Messages |-> IF msg[m].state = "sent" THEN [msg[m] EXCEPT !.state = "none"]
                                  ELSE msg[m]]
    /\ work' = [s \in Steps |-> Idle]
    /\ pc' = "down"
    /\ UNCHANGED <<snap, begun, complete, offers, status, exec, stopping, waits, resumes>>

\* A run that is over, or whose process died, is taken up: load, then open.
Resume ==
    /\ pc \in {"over", "down"} /\ resumes < MaxResumes
    /\ \E s \in Steps : status[s] # "success"
    /\ msg' = [m \in Messages |-> Reopened(Loaded(msg[m], m))]
    /\ status' = [s \in Steps |-> IF status[s] = "success" THEN "success" ELSE "pending"]
    /\ active' = [s \in Steps |-> 0] /\ withdrawn' = {} /\ closed' = FALSE
    /\ offered' = {s \in Takers : status[s] # "success"}
    /\ work' = [s \in Steps |-> Idle]
    /\ pc' = "going" /\ stopping' = FALSE /\ resumes' = resumes + 1
    /\ UNCHANGED <<snap, begun, complete, exec, waits>>

Loop ==
    \/ EndRun \/ Close \/ Seal
    \/ \E m \in Messages : Accept(m)
    \/ \E s \in Steps : Start(s) \/ Quit(s) \/ Wake(s) \/ Record(s) \/ Park(s) \/ Revise(s)

Worker(s) ==
    \/ Take(s) \/ Reuse(s) \/ Doubt(s) \/ Bind(s) \/ Begin(s) \/ Halt(s) \/ Answer(s)
    \/ NotStarted(s) \/ NoAnswer(s) \/ Confirm(s) \/ Release(s) \/ Return(s)

Next ==
    \/ Loop \/ Stop \/ Crash \/ Resume
    \/ \E m \in Messages : Send(m)
    \/ \E s \in Steps : Worker(s)

Spec == Init /\ [][Next]_vars

-----------------------------------------------------------------------------
TypeOK ==
    /\ msg \in [Messages -> [to : Steps \cup {0}, exec : Executions \cup {0}, state : States,
                             given : [Keys -> Deliveries]]]
    /\ snap \cup begun \cup complete \subseteq Keys \X SUBSET Messages
    /\ status \in [Steps -> {"pending", "running", "waiting", "success", "failed", "cancelled"}]
    /\ exec \in [Steps -> Executions] /\ active \in [Steps -> Executions \cup {0}]
    /\ offered \subseteq Takers /\ withdrawn \subseteq Takers \X Executions
    /\ \A s \in Steps : work[s].at \in {"no", "free", "took", "bound", "calling", "answered",
                                        "unstarted", "success", "failed", "waits", "revises"}
    /\ pc \in {"going", "closing", "draining", "over", "down"}
    /\ {closed, stopping} \subseteq BOOLEAN /\ waits \in Nat /\ resumes \in 0..MaxResumes

\* "Which is what lets a resumed step rebuild the same input and so find the
\* answer it already paid for": no point of an execution is ever called with
\* two inputs, whatever was said, stopped, lost or resumed in between.
PaidOnce ==
    \A c, d \in begun \cup complete : c[1] = d[1] => c[2] = d[2]

\* "Delivered means handed over": what a message is said to be where it arrived
\* was in the input of the call that answered there. And what is said not to
\* have arrived, and is not on its way, was in no call, but for one that had not
\* begun or that answered that it could not start. Of "uncertain" nothing is
\* said here: the code says it also where no call began.
WordsHonest ==
    \A m \in Messages :
        /\ \A k \in Keys : msg[m].given[k] = "delivered" =>
               \E c \in complete : c[1] = k /\ m \in c[2]
        /\ msg[m].state \in {"rejected", "undelivered"} /\ ~Has(msg[m], "handing") =>
               \A c \in begun \cup complete : m \notin c[2]

\* "The steps after it that judge its work have to know what it was told": a
\* point reads all that arrived at the work it judges.
JudgesKnow ==
    \A s \in Steps : work[s].at \notin {"no", "free", "waits"} /\ work[s].recorded =>
        \A m \in Messages :
            /\ msg[m].to \in Earlier[s] /\ msg[m].exec = exec[msg[m].to]
            /\ msg[m].state = "delivered"
            => m \in work[s].items

\* Whatever is sent comes to a word about it: nothing is left waiting by a run
\* that is over, not even what a call that never began gives back. What a worker
\* that outlived the run binds again, after it was said to be uncertain, is the
\* exception, which only `load` settles.
ClosedAtEnd ==
    pc = "over" => \A m \in Messages :
        msg[m].state \notin {"sent", "pending"} \/ Has(msg[m], "handing")
=============================================================================
