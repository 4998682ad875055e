----------------------- MODULE RunInteractionsProofs ------------------------
(***************************************************************************)
(* What is proved of RunInteractions for every cycle, number of messages,  *)
(* points, waits, revisions and resumes: no point is called with two       *)
(* inputs, what a message is said to have become is true, no message is    *)
(* left without a word, and the steps that judge work know what it was     *)
(* told - the last where nothing that depends on a plan may start before   *)
(* the gate that can send the plan back.                                   *)
(***************************************************************************)
EXTENDS RunInteractions, StepGraphProofs, TLAPS

\* The code lets a step depend on a plan beside its gate, and does not look at
\* what such a step has taken when the plan is sent back.
GateFirst ==
    \A g \in DOMAIN PlanOf : Downstream({PlanOf[g]}) \ Again(g) \subseteq Downstream({g})

-----------------------------------------------------------------------------
(* The inductive invariant: types.                                         *)

Statuses == {"pending", "running", "waiting", "success", "failed", "cancelled"}
Places == {"no", "free", "took", "bound", "calling", "answered", "unstarted", "success",
           "failed", "waits", "revises"}
Workers == [at : Places, point : Nat, items : SUBSET Messages, recorded : BOOLEAN]
Records == [to : Steps \cup {0}, exec : Executions \cup {0}, state : States,
            given : [Keys -> Deliveries]]

\* Where a worker holds the snapshot of a point.
AtPoint == {"took", "bound", "calling", "answered", "unstarted"}

TypeInv ==
    /\ TypeOK
    /\ work \in [Steps -> Workers]
    /\ \A s \in Steps :
          /\ work[s].at = "free" => work[s].point >= 1
          /\ work[s].at \in AtPoint \/ work[s].recorded => work[s].point \in 1..Points[s]
          /\ work[s].at = "no" => ~work[s].recorded

-----------------------------------------------------------------------------
(* Where steps and the loop are.                                           *)

PhaseInv ==
    /\ pc \in {"closing", "draining", "over"} => stopping
    /\ pc \in {"draining", "over"} => closed
    /\ closed => stopping /\ pc \in {"draining", "over", "down"}

FlowInv ==
    /\ PhaseInv
    /\ pc = "down" => \A s \in Steps : work[s].at = "no"
    /\ \A s \in Steps : work[s].at = "revises" => s \in DOMAIN PlanOf
    /\ \A s \in Steps : active[s] \in {0, exec[s]}
    /\ \A s \in Steps : work[s].at # "no" =>
          IF pc = "over" THEN active[s] = 0 /\ status[s] = "cancelled"
          ELSE active[s] = exec[s] /\ status[s] = "running"
    /\ \A s \in Steps : status[s] \in {"running", "waiting", "success"} =>
          \A n \in Needs[s] : status[n] = "success"

-----------------------------------------------------------------------------
(* Snapshots and calls.                                                    *)

\* A worker holds the snapshot of its point - but for what it takes of a run
\* that is closed, with which it makes no call.
CallsOf(s) ==
    /\ work[s].recorded => Call(s) \in snap
    /\ work[s].at \in AtPoint /\ ~work[s].recorded =>
          stopping /\ work[s].items = {} /\ work[s].at \in {"took", "bound"}
    /\ work[s].at \in {"bound", "unstarted"} => Call(s) \notin begun \cup complete
    /\ work[s].at = "calling" => Call(s) \in begun \ complete
    /\ work[s].at = "answered" => Call(s) \in complete

\* A point has one snapshot, and every call was made with one.
CallInv ==
    /\ \A c, d \in snap : c[1] = d[1] => c = d
    /\ \A c \in snap : c[1][3] >= 1 /\ c[1][2] <= exec[c[1][1]]
    /\ begun \cup complete \subseteq snap
    /\ \A s \in Steps : CallsOf(s)

-----------------------------------------------------------------------------
(* Messages.                                                               *)

Taken == {"handing", "delivered", "uncertain"}

\* The state of a message that was accepted says what its deliveries say; one
\* that was not has none.
Told(r) ==
    IF r.state \in Unheard THEN \A k \in Keys : r.given[k] = "no"
    ELSE /\ r.state = "delivered" <=> Has(r, "delivered")
         /\ r.state = "uncertain" <=> Has(r, "uncertain") /\ ~Has(r, "delivered")

MessageInv ==
    /\ \A m \in Messages : Told(msg[m])
    /\ \A c \in snap : \A m \in c[2] : msg[m].state \notin Unheard
    /\ \A m \in Messages, k \in Keys : msg[m].given[k] = "delivered" =>
          \E c \in complete : c[1] = k /\ m \in c[2]
    /\ \A c \in begun \cup complete : \A m \in c[2] : msg[m].given[c[1]] \in Taken
    /\ \A s \in Steps : work[s].at = "bound" /\ work[s].recorded =>
          \A m \in work[s].items : msg[m].given[Key(s)] \in Taken

\* What is left waiting by a run that is closed is in a call.
LastWord(r) == r.state # "sent" /\ (r.state = "pending" => Has(r, "handing"))

ClosedInv == closed => \A m \in Messages : LastWord(msg[m])

-----------------------------------------------------------------------------
(* What later steps know.                                                  *)

OwnDelivered(m) == \E k \in Keys : k[1] = msg[m].to /\ msg[m].given[k] = "delivered"

\* A point of the execution at hand was taken when all before it was done.
DoneBefore ==
    \A c \in snap : c[1][2] = exec[c[1][1]] => \A u \in Upstream({c[1][1]}) : status[u] = "success"

\* Others are only told what a step itself was told, and a step only what was
\* said to this execution of it.
ToldOwn ==
    \A c \in snap : \A m \in c[2] : msg[m].to # 0 =>
        IF c[1][1] = msg[m].to THEN c[1][2] = msg[m].exec ELSE OwnDelivered(m)

\* What is handed over was read at that point.
HandedRead ==
    \A m \in Messages, k \in Keys : msg[m].given[k] = "handing" => \E c \in snap : c[1] = k /\ m \in c[2]

\* A step that succeeded is in the middle of nothing.
AtRest ==
    \A m \in Messages, k \in Keys :
        status[k[1]] = "success" /\ k[2] = exec[k[1]] => msg[m].given[k] # "handing"

\* A point of the execution at hand read all that arrived before it.
Arrived(m, s) == msg[m].to \in Upstream({s}) /\ msg[m].exec = exec[msg[m].to] /\ msg[m].state = "delivered"
JudgesRead ==
    \A c \in snap : c[1][2] = exec[c[1][1]] => \A m \in Messages : Arrived(m, c[1][1]) => m \in c[2]

JudgeInv == DoneBefore /\ ToldOwn /\ HandedRead /\ AtRest /\ JudgesRead

-----------------------------------------------------------------------------
(* What becomes of a record keeps its type.                                *)

LEMMA KeyIsKey ==
    ASSUME TypeInv, NEW s \in Steps, work[s].at \in AtPoint
    PROVE  /\ Key(s) \in Keys /\ Call(s) \in Keys \X SUBSET Messages
           /\ Key(s)[1] = s /\ Key(s)[2] = exec[s] /\ Key(s)[3] = work[s].point
           /\ Call(s)[1] = Key(s) /\ Call(s)[2] = work[s].items
PROOF
<1>1. work[s].point \in 0..Points[s] /\ work[s].items \in SUBSET Messages /\ exec[s] \in Executions
  BY InteractionsAssumption DEF TypeInv, TypeOK, Workers
<1>2. Key(s) \in {s} \X Executions \X (0..Points[s])
  BY <1>1 DEF Key
<1>3. Key(s) \in Keys
  BY <1>2 DEF Keys
<1> QED
  BY <1>1, <1>3 DEF Key, Call

LEMMA SettledType ==
    ASSUME NEW r \in Records
    PROVE  Settled(r) \in Records
BY DEF Settled, Records, States, Unheard

LEMMA GivenType ==
    ASSUME NEW r \in Records, NEW f \in [Keys -> Deliveries]
    PROVE  [r EXCEPT !.given = f] \in Records
BY DEF Records

LEMMA StateType ==
    ASSUME NEW r \in Records, NEW x \in States
    PROVE  [r EXCEPT !.state = x] \in Records
BY DEF Records

\* One delivery changes.
LEMMA OneGivenType ==
    ASSUME NEW r \in Records, NEW key \in Keys, NEW d \in Deliveries
    PROVE  /\ [r EXCEPT !.given[key] = d] \in Records
           /\ [r EXCEPT !.given[key] = d] = [r EXCEPT !.given = [r.given EXCEPT ![key] = d]]
BY DEF Records

\* What `finish` makes of the state and of the deliveries, before it settles.
Ended(r, ended) ==
    IF /\ r.state = "pending" /\ r.to \in ended /\ r.exec = Current(r.to)
       /\ ~\E k \in Keys : Ends(k, ended) /\ r.given[k] = "handing"
    THEN "undelivered" ELSE r.state
Deals(r, ended) ==
    [k \in Keys |->
        IF Ends(k, ended) /\ r.given[k] = "handing" THEN "uncertain"
        ELSE IF Ends(k, ended) /\ Unread(r, k) THEN "undelivered" ELSE r.given[k]]

LEMMA FinishedIs ==
    ASSUME NEW r \in Records, NEW ended, r.state \notin Unheard
    PROVE  /\ Deals(r, ended) \in [Keys -> Deliveries] /\ Ended(r, ended) \in States
           /\ [r EXCEPT !.state = Ended(r, ended), !.given = Deals(r, ended)] \in Records
           /\ Finished(r, ended) =
                 Settled([r EXCEPT !.state = Ended(r, ended), !.given = Deals(r, ended)])
PROOF
<1>1. Deals(r, ended) \in [Keys -> Deliveries]
  BY DEF Deals, Records, Deliveries
<1>2. Ended(r, ended) \in States
  BY DEF Ended, Records, States
<1>3. [r EXCEPT !.state = Ended(r, ended), !.given = Deals(r, ended)] \in Records
  BY <1>1, <1>2 DEF Records
<1>4. Finished(r, ended) =
          Settled([r EXCEPT !.state = Ended(r, ended), !.given = Deals(r, ended)])
  BY DEF Finished, Ended, Deals
<1> QED
  BY <1>1, <1>2, <1>3, <1>4

LEMMA FinishedType ==
    ASSUME NEW r \in Records, NEW ended
    PROVE  Finished(r, ended) \in Records
PROOF
<1>1. CASE r.state \in Unheard
  BY <1>1 DEF Finished
<1>2. CASE r.state \notin Unheard
  <2> DEFINE q == [r EXCEPT !.state = Ended(r, ended), !.given = Deals(r, ended)]
  <2>1. q \in Records /\ Finished(r, ended) = Settled(q)
    BY <1>2, FinishedIs
  <2> HIDE DEF q
  <2> QED
    BY <2>1, SettledType
<1> QED
  BY <1>1, <1>2

\* What is in progress when the run is sealed, or loaded.
SealedDeals(r) == [k \in Keys |-> IF r.given[k] = "handing" THEN "uncertain" ELSE r.given[k]]
LoadedDeals(r, m) ==
    [k \in Keys |->
        IF r.given[k] # "handing" THEN r.given[k]
        ELSE IF \E c \in complete : c[1] = k /\ m \in c[2] THEN "delivered"
        ELSE IF \E c \in begun : c[1] = k /\ m \in c[2] THEN "uncertain" ELSE "no"]

LEMMA SealedIs ==
    ASSUME NEW r \in Records, NEW m
    PROVE  /\ SealedDeals(r) \in [Keys -> Deliveries] /\ LoadedDeals(r, m) \in [Keys -> Deliveries]
           /\ Sealed(r) = Settled([r EXCEPT !.given = SealedDeals(r)])
           /\ Loaded(r, m) = Settled([r EXCEPT !.given = LoadedDeals(r, m)])
PROOF
<1>1. SealedDeals(r) \in [Keys -> Deliveries]
  BY DEF SealedDeals, Records, Deliveries
<1>2. LoadedDeals(r, m) \in [Keys -> Deliveries]
  BY DEF LoadedDeals, Records, Deliveries
<1> QED
  BY <1>1, <1>2 DEF Sealed, SealedDeals, Loaded, LoadedDeals

LEMMA SealedType ==
    ASSUME NEW r \in Records, NEW m
    PROVE  Sealed(r) \in Records /\ Loaded(r, m) \in Records
PROOF
<1> DEFINE q == [r EXCEPT !.given = SealedDeals(r)]
           l == [r EXCEPT !.given = LoadedDeals(r, m)]
<1>1. Sealed(r) = Settled(q) /\ Loaded(r, m) = Settled(l)
  BY SealedIs
<1>2. q \in Records /\ l \in Records
  BY SealedIs, GivenType
<1> HIDE DEF q, l
<1> QED
  BY <1>1, <1>2, SettledType

LEMMA ClosedType ==
    ASSUME NEW r \in Records
    PROVE  ClosedFor(r) \in Records /\ Reopened(r) \in Records /\ Waiting(r) \in Records
PROOF
<1>1. {"undelivered", "refused"} \subseteq States
  BY DEF States
<1> QED
  BY <1>1, StateType DEF ClosedFor, Reopened, Waiting

-----------------------------------------------------------------------------
(* Types, action by action.                                                *)

LEMMA TypeParts ==
    ASSUME TypeInv
    PROVE  /\ msg \in [Messages -> Records] /\ work \in [Steps -> Workers]
           /\ snap \cup begun \cup complete \subseteq Keys \X SUBSET Messages
           /\ status \in [Steps -> Statuses]
           /\ exec \in [Steps -> Executions] /\ active \in [Steps -> Executions \cup {0}]
BY DEF TypeInv, TypeOK, Records, Statuses

LEMMA MarkType ==
    ASSUME TypeInv, NEW s \in Steps, work[s].at \in AtPoint, NEW d \in {"handing", "delivered"},
           Mark(s, d)
    PROVE  msg' \in [Messages -> Records]
PROOF
<1> DEFINE q(m) == [msg[m] EXCEPT !.given[Key(s)] = d]
<1>1. Key(s) \in Keys /\ d \in Deliveries /\ \A m \in Messages : msg[m] \in Records
  BY KeyIsKey, TypeParts DEF Deliveries
<1>2. \A m \in Messages : q(m) \in Records
  BY <1>1, OneGivenType
<1>3. msg' = [m \in Messages |-> IF Read(s)[m] /\ msg[m].given[Key(s)] # "delivered"
                                 THEN Settled(q(m)) ELSE msg[m]]
  BY DEF Mark
<1> HIDE DEF q
<1> QED
  BY <1>1, <1>2, <1>3, SettledType

LEMMA ReleaseType ==
    ASSUME TypeInv, NEW s \in Steps, Release(s)
    PROVE  msg' \in [Messages -> Records]
PROOF
<1> DEFINE q(m) == [msg[m] EXCEPT !.given[Key(s)] = "no"]
<1>1. /\ Key(s) \in Keys /\ "no" \in Deliveries
      /\ \A m \in Messages : msg[m] \in Records
  BY KeyIsKey, TypeParts DEF Release, Goes, AtPoint, Deliveries
<1>2. \A m \in Messages : q(m) \in Records
  BY <1>1, OneGivenType
<1>3. \A m \in Messages : Settled(q(m)) \in Records
  BY <1>2, SettledType
<1>4. \A m \in Messages : Waiting(Settled(q(m))) \in Records
  BY <1>3, ClosedType
<1>5. msg' = [m \in Messages |-> IF Read(s)[m] /\ msg[m].given[Key(s)] = "handing"
                                 THEN Waiting(Settled(q(m))) ELSE msg[m]]
  BY DEF Release
<1> HIDE DEF q
<1> QED
  BY <1>1, <1>4, <1>5

\* A worker's action moves that worker, and the loop stays where it is.
Moves(s) ==
    /\ work[s].at # "no" /\ work' = [work EXCEPT ![s] = work'[s]]
    /\ work'[s] \in Workers /\ work'[s].at # "no"
    /\ UNCHANGED <<status, exec, active, closed, pc, stopping, waits, resumes>>

LEMMA GoesMoves ==
    ASSUME TypeInv, NEW s \in Steps, NEW to \in Places, work' = [work EXCEPT ![s].at = to]
    PROVE  /\ work'[s] = [work[s] EXCEPT !.at = to] /\ work' = [work EXCEPT ![s] = work'[s]]
           /\ work'[s] \in Workers /\ work'[s].at = to
           /\ work'[s].point = work[s].point /\ work'[s].items = work[s].items
           /\ work'[s].recorded = work[s].recorded
PROOF
<1>1. work[s] \in Workers /\ work \in [Steps -> Workers]
  BY TypeParts
<1>2. work'[s] = [work[s] EXCEPT !.at = to] /\ work' = [work EXCEPT ![s] = work'[s]]
  BY <1>1
<1> QED
  BY <1>1, <1>2 DEF Workers

LEMMA FreshWorker ==
    ASSUME NEW x \in Nat
    PROVE  LET w == [Idle EXCEPT !.at = "free", !.point = x]
           IN  w \in Workers /\ w.at = "free" /\ w.point = x /\ ~w.recorded
PROOF
<1>1. Idle \in Workers /\ ~Idle.recorded
  BY DEF Idle, Workers, Places
<1> QED
  BY <1>1 DEF Workers, Places

LEMMA PassesMoves ==
    ASSUME TypeInv, NEW s \in Steps, NEW from \in {"took", "answered"}, Passes(s, from)
    PROVE  /\ work[s].at = from /\ work' = [work EXCEPT ![s] = work'[s]] /\ work'[s] \in Workers
           /\ work'[s].at = "free" /\ work'[s].point = work[s].point + 1 /\ ~work'[s].recorded
PROOF
<1>1. work[s] \in Workers /\ work \in [Steps -> Workers]
  BY TypeParts
<1>2. work' = [work EXCEPT ![s] = [Idle EXCEPT !.at = "free", !.point = work[s].point + 1]]
      /\ work[s].at = from
  BY DEF Passes
<1>3. work[s].point + 1 \in Nat
  BY <1>1 DEF Workers
<1>4. work'[s] = [Idle EXCEPT !.at = "free", !.point = work[s].point + 1]
      /\ work' = [work EXCEPT ![s] = work'[s]]
  BY <1>1, <1>2
<1>5. LET w == [Idle EXCEPT !.at = "free", !.point = work[s].point + 1]
      IN  w \in Workers /\ w.at = "free" /\ w.point = work[s].point + 1 /\ ~w.recorded
  BY <1>3, FreshWorker
<1> QED
  BY <1>2, <1>4, <1>5

\* What a point reads.
Before(s) == {c \in snap : c[1] = Key(s)}
Lives(s) == active[s] # 0 /\ (Before(s) # {} \/ ~closed)
Items(s) ==
    IF ~Lives(s) THEN {} ELSE IF Before(s) # {} THEN (CHOOSE c \in Before(s) : TRUE)[2]
    ELSE {m \in Messages : Applies(m, s)}

LEMMA TakeMoves ==
    ASSUME TypeInv, NEW s \in Steps, Take(s)
    PROVE  /\ work[s].at = "free" /\ work[s].point \in 1..Points[s] /\ Key(s) \in Keys
           /\ Items(s) \subseteq Messages
           /\ Lives(s) /\ Before(s) # {} => <<Key(s), Items(s)>> \in snap
           /\ work' = [work EXCEPT ![s] = work'[s]] /\ work'[s] \in Workers
           /\ work'[s].at = "took" /\ work'[s].point = work[s].point
           /\ work'[s].items = Items(s) /\ work'[s].recorded = Lives(s)
           /\ snap' = IF Lives(s) /\ Before(s) = {} THEN snap \cup {<<Key(s), Items(s)>>} ELSE snap
PROOF
<1>1. /\ work[s] \in Workers /\ work \in [Steps -> Workers]
      /\ snap \subseteq Keys \X SUBSET Messages /\ exec[s] \in Executions /\ Points[s] \in Nat
  BY TypeParts, InteractionsAssumption
<1>2. work[s].at = "free" /\ work[s].point \in 1..Points[s]
  <2>1. work[s].at = "free" /\ work[s].point <= Points[s]
    BY DEF Take
  <2>2. work[s].point >= 1 /\ work[s].point \in Nat
    BY <1>1, <2>1 DEF TypeInv, Workers
  <2> QED
    BY <1>1, <2>1, <2>2
<1>3. Key(s) \in Keys
  <2>1. Key(s) \in {s} \X Executions \X (0..Points[s])
    BY <1>1, <1>2 DEF Key
  <2> QED
    BY <2>1 DEF Keys
<1>4. ASSUME Lives(s), Before(s) # {}
      PROVE  <<Key(s), Items(s)>> \in snap /\ Items(s) \subseteq Messages
  <2>1. PICK c : c \in Before(s) /\ c = CHOOSE d \in Before(s) : TRUE
    BY <1>4
  <2>2. c \in snap /\ c[1] = Key(s) /\ c = <<c[1], c[2]>> /\ c[2] \subseteq Messages
    BY <1>1, <2>1 DEF Before
  <2>3. Items(s) = c[2]
    BY <1>4, <2>1 DEF Items
  <2> QED
    BY <2>2, <2>3
<1>5. Items(s) \subseteq Messages
  BY <1>4 DEF Items
<1>6. Lives(s) \in BOOLEAN
  BY DEF Lives
<1>7. /\ work' = [work EXCEPT ![s].at = "took", ![s].items = Items(s), ![s].recorded = Lives(s)]
      /\ snap' = IF Lives(s) /\ Before(s) = {} THEN snap \cup {<<Key(s), Items(s)>>} ELSE snap
  BY DEF Take, Items, Lives, Before, Recorded
<1>8. work'[s] = [work[s] EXCEPT !.at = "took", !.items = Items(s), !.recorded = Lives(s)]
      /\ work' = [work EXCEPT ![s] = work'[s]]
  BY <1>1, <1>7
<1>9. /\ work'[s] \in Workers /\ work'[s].at = "took" /\ work'[s].point = work[s].point
      /\ work'[s].items = Items(s) /\ work'[s].recorded = Lives(s)
  BY <1>1, <1>5, <1>6, <1>8 DEF Workers, Places
<1> QED
  BY <1>2, <1>3, <1>4, <1>5, <1>7, <1>8, <1>9

LEMMA WorkerMoves ==
    ASSUME TypeInv, NEW s \in Steps, Worker(s)
    PROVE  Moves(s)
PROOF
<1> USE DEF Moves, Goes, Places, loop, offers, kept
<1>1. CASE Take(s)
  BY <1>1, TakeMoves DEF Take
<1>2. CASE Reuse(s)
  BY <1>2, PassesMoves DEF Reuse
<1>3. CASE Doubt(s)
  BY <1>3, GoesMoves DEF Doubt
<1>4. CASE Bind(s)
  BY <1>4, GoesMoves DEF Bind
<1>5. CASE Begin(s)
  BY <1>5, GoesMoves DEF Begin
<1>6. CASE Halt(s)
  BY <1>6, GoesMoves DEF Halt
<1>7. CASE Answer(s)
  BY <1>7, GoesMoves DEF Answer
<1>8. CASE NotStarted(s)
  BY <1>8, GoesMoves DEF NotStarted
<1>9. CASE NoAnswer(s)
  BY <1>9, GoesMoves DEF NoAnswer
<1>10. CASE Confirm(s)
  BY <1>10, PassesMoves DEF Confirm
<1>11. CASE Release(s)
  BY <1>11, GoesMoves DEF Release
<1>12. CASE Return(s)
  <2>1. PICK to \in {"success", "waits", "revises"} : Goes(s, "free", to)
    BY <1>12 DEF Return
  <2>2. to \in Places \ {"no"} /\ work[s].at = "free" /\ work' = [work EXCEPT ![s].at = to]
    BY <2>1
  <2> QED
    BY <1>12, <2>2, GoesMoves DEF Return
<1> QED
  BY <1>1, <1>2, <1>3, <1>4, <1>5, <1>6, <1>7, <1>8, <1>9, <1>10, <1>11, <1>12 DEF Worker

\* Where a worker may be after its action, and with what.
LEMMA WorkerAt ==
    ASSUME TypeInv, NEW s \in Steps, Worker(s)
    PROVE  /\ work'[s].at = "free" => work'[s].point >= 1
           /\ work'[s].at \in AtPoint \/ work'[s].recorded => work'[s].point \in 1..Points[s]
PROOF
<1>1. /\ work[s] \in Workers /\ Points[s] \in Nat
      /\ work[s].at = "free" => work[s].point >= 1
      /\ work[s].at \in AtPoint \/ work[s].recorded => work[s].point \in 1..Points[s]
  BY TypeParts, InteractionsAssumption DEF TypeInv
<1>2. CASE Take(s)
  BY <1>2, TakeMoves
<1>3. CASE Reuse(s) \/ Confirm(s)
  <2>1. /\ work[s].at \in AtPoint
        /\ work'[s].at = "free" /\ work'[s].point = work[s].point + 1 /\ ~work'[s].recorded
    BY <1>3, PassesMoves DEF Reuse, Confirm, AtPoint
  <2> QED
    BY <1>1, <2>1 DEF AtPoint
<1>4. ASSUME NEW to \in Places \ {"no", "free"}, work' = [work EXCEPT ![s].at = to],
             work[s].at \in AtPoint \/ to \notin AtPoint
      PROVE  /\ work'[s].at = "free" => work'[s].point >= 1
             /\ work'[s].at \in AtPoint \/ work'[s].recorded => work'[s].point \in 1..Points[s]
  <2>1. /\ work'[s].at = to /\ work'[s].point = work[s].point
        /\ work'[s].recorded = work[s].recorded
    BY <1>4, GoesMoves
  <2> QED
    BY <1>1, <1>4, <2>1
<1>5. CASE Doubt(s)
  BY <1>4, <1>5 DEF Doubt, Goes, Places, AtPoint
<1>6. CASE Bind(s)
  BY <1>4, <1>6 DEF Bind, Goes, Places, AtPoint
<1>7. CASE Begin(s)
  BY <1>4, <1>7 DEF Begin, Goes, Places, AtPoint
<1>8. CASE Halt(s)
  BY <1>4, <1>8 DEF Halt, Goes, Places, AtPoint
<1>9. CASE Answer(s)
  BY <1>4, <1>9 DEF Answer, Goes, Places, AtPoint
<1>10. CASE NotStarted(s)
  BY <1>4, <1>10 DEF NotStarted, Goes, Places, AtPoint
<1>11. CASE NoAnswer(s)
  BY <1>4, <1>11 DEF NoAnswer, Goes, Places, AtPoint
<1>12. CASE Release(s)
  BY <1>4, <1>12 DEF Release, Goes, Places, AtPoint
<1>13. CASE Return(s)
  <2>1. PICK to \in {"success", "waits", "revises"} : Goes(s, "free", to)
    BY <1>13 DEF Return
  <2>2. to \in Places \ {"no", "free"} /\ to \notin AtPoint /\ work' = [work EXCEPT ![s].at = to]
    BY <2>1 DEF Goes, Places, AtPoint
  <2> QED
    BY <1>4, <2>2
<1> QED
  BY <1>2, <1>3, <1>5, <1>6, <1>7, <1>8, <1>9, <1>10, <1>11, <1>12, <1>13 DEF Worker

LEMMA InitType == Init => TypeInv
PROOF
<1> SUFFICES ASSUME Init PROVE TypeInv
  OBVIOUS
<1>1. msg \in [Messages -> Records]
  <2>1. [k \in Keys |-> "no"] \in [Keys -> Deliveries]
    BY DEF Deliveries
  <2>2. [to |-> 0, exec |-> 0, state |-> "none", given |-> [k \in Keys |-> "no"]] \in Records
    BY <2>1 DEF Records, States
  <2> QED
    BY <2>2 DEF Init
<1>2. 1 \in Executions /\ 0 \in Nat /\ 0 \in 0..MaxResumes
  BY InteractionsAssumption DEF Executions
<1>3. Idle \in Workers /\ Idle.at = "no" /\ ~Idle.recorded
  BY DEF Idle, Workers, Places
<1>4. TypeOK
  BY <1>1, <1>2, <1>3 DEF Init, TypeOK, Records, Takers, Workers, Places
<1>5. work \in [Steps -> Workers] /\ \A s \in Steps : work[s].at = "no" /\ ~work[s].recorded
  BY <1>3 DEF Init
<1> QED
  BY <1>4, <1>5 DEF TypeInv, AtPoint

LEMMA WorkerMessages ==
    ASSUME TypeInv, NEW s \in Steps, Worker(s)
    PROVE  msg' \in [Messages -> Records]
PROOF
<1>1. CASE msg' = msg
  BY <1>1, TypeParts
<1>2. CASE Reuse(s) \/ Bind(s) \/ Confirm(s)
  <2>1. work[s].at \in AtPoint /\ (Mark(s, "handing") \/ Mark(s, "delivered"))
    BY <1>2 DEF Reuse, Bind, Confirm, Passes, Goes, AtPoint
  <2> QED
    BY <2>1, MarkType
<1>3. CASE Release(s)
  BY <1>3, ReleaseType
<1> QED
  BY <1>1, <1>2, <1>3
  DEF Worker, Take, Doubt, Begin, Halt, Answer, NotStarted, NoAnswer, Return, kept

LEMMA WorkerType ==
    ASSUME TypeInv, NEW s \in Steps, Worker(s)
    PROVE  TypeInv'
PROOF
<1>1. Moves(s) /\ msg' \in [Messages -> Records]
  BY WorkerMoves, WorkerMessages
<1>2. work' \in [Steps -> Workers] /\ \A t \in Steps : t # s => work'[t] = work[t]
  BY <1>1, TypeParts DEF Moves
<1>3. (snap \cup begun \cup complete)' \subseteq Keys \X SUBSET Messages
  <2>1. snap \cup begun \cup complete \subseteq Keys \X SUBSET Messages
    BY TypeParts
  <2>2. CASE Take(s)
    <3>1. /\ Key(s) \in Keys /\ Items(s) \subseteq Messages /\ UNCHANGED <<begun, complete>>
          /\ snap' = snap \/ snap' = snap \cup {<<Key(s), Items(s)>>}
      BY <2>2, TakeMoves DEF Take
    <3>2. snap' \subseteq Keys \X SUBSET Messages
      BY <2>1, <3>1
    <3> QED
      BY <2>1, <3>1, <3>2
  <2>3. CASE Begin(s) \/ Answer(s) \/ NotStarted(s)
    <3>1. Call(s) \in Keys \X SUBSET Messages
      BY <2>3, KeyIsKey DEF Begin, Answer, NotStarted, Goes, AtPoint
    <3> QED
      BY <2>1, <2>3, <3>1 DEF Begin, Answer, NotStarted
  <2>4. CASE UNCHANGED <<snap, begun, complete>>
    BY <2>1, <2>4
  <2> QED
    BY <2>2, <2>3, <2>4
    DEF Worker, Reuse, Doubt, Bind, Halt, NoAnswer, Confirm, Release, Return, kept
<1>4. (offered \subseteq Takers /\ withdrawn \subseteq Takers \X Executions)'
  <2>1. offered \subseteq Takers /\ withdrawn \subseteq Takers \X Executions
    BY DEF TypeInv, TypeOK
  <2>2. CASE Take(s)
    <3>1. s \in Takers
      <4>1. work[s].point \in 1..Points[s] /\ Points[s] \in Nat
        BY <2>2, TakeMoves, InteractionsAssumption
      <4> QED
        BY <4>1 DEF Takers
    <3>2. CASE Lives(s)
      <4>1. active[s] \in Executions
        BY <3>2, TypeParts DEF Lives
      <4>2. /\ offered' = offered \/ offered' = offered \ {s}
            /\ withdrawn' = withdrawn \/ withdrawn' = withdrawn \cup {<<s, active[s]>>}
        BY <2>2 DEF Take
      <4> QED
        BY <2>1, <3>1, <4>1, <4>2
    <3>3. CASE ~Lives(s)
      <4>1. UNCHANGED <<withdrawn, offered>>
        BY <2>2, <3>3 DEF Take, Lives, Before
      <4> QED
        BY <2>1, <4>1
    <3> QED
      BY <3>2, <3>3
  <2>3. CASE UNCHANGED offers
    BY <2>1, <2>3 DEF offers
  <2> QED
    BY <2>2, <2>3 DEF Worker, Reuse, Doubt, Bind, Begin, Halt, Answer, NotStarted, NoAnswer,
                      Confirm, Release, Return
<1>5. TypeOK'
  <2>1. TypeOK
    BY DEF TypeInv
  <2>2. \A t \in Steps : work'[t].at \in Places
    BY <1>2 DEF Workers
  <2> QED
    BY <1>1, <1>3, <1>4, <2>1, <2>2 DEF TypeOK, Moves, Records, Places
<1>6. /\ work'[s].at = "free" => work'[s].point >= 1
      /\ work'[s].at \in AtPoint \/ work'[s].recorded => work'[s].point \in 1..Points[s]
  BY WorkerAt
<1> QED
  BY <1>1, <1>2, <1>5, <1>6 DEF TypeInv, Moves

\* A step's worker is collected, or all of them are gone.
LEMMA IdleWorkers ==
    ASSUME TypeInv
    PROVE  /\ [s \in Steps |-> Idle] \in [Steps -> Workers] /\ Idle \in Workers
           /\ \A s \in Steps : \A at : Collect(s, at) =>
                 /\ work' \in [Steps -> Workers] /\ work'[s] = Idle
                 /\ \A t \in Steps : t # s => work'[t] = work[t]
           /\ Idle.at = "no" /\ ~Idle.recorded
PROOF
<1>1. Idle \in Workers /\ Idle.at = "no" /\ ~Idle.recorded
  BY DEF Idle, Workers, Places
<1> QED
  BY <1>1, TypeParts DEF Collect

LEMMA EndType ==
    ASSUME TypeInv, NEW s \in Steps, NEW v \in Statuses, End(s, v)
    PROVE  /\ msg' \in [Messages -> Records] /\ active' \in [Steps -> Executions \cup {0}]
           /\ offered' \subseteq Takers /\ status' \in [Steps -> Statuses]
PROOF
<1>1. \A m \in Messages : Finished(msg[m], {s}) \in Records
  BY FinishedType, TypeParts
<1>2. offered \subseteq Takers
  BY DEF TypeInv, TypeOK
<1> QED
  BY <1>1, <1>2, TypeParts DEF End

\* What TypeInv says of the state, one part a line.
LEMMA TypeFrom ==
    ASSUME msg' \in [Messages -> Records], work' \in [Steps -> Workers],
           (snap \cup begun \cup complete)' \subseteq Keys \X SUBSET Messages,
           status' \in [Steps -> Statuses], exec' \in [Steps -> Executions],
           active' \in [Steps -> Executions \cup {0}],
           (offered \subseteq Takers /\ withdrawn \subseteq Takers \X Executions)',
           (pc \in {"going", "closing", "draining", "over", "down"})',
           ({closed, stopping} \subseteq BOOLEAN)',
           (waits \in Nat /\ resumes \in 0..MaxResumes)',
           TypeInv, \A s \in Steps : (work'[s].at = "no" /\ ~work'[s].recorded) \/ work'[s] = work[s]
    PROVE  TypeInv'
PROOF
<1>1. \A s \in Steps : work'[s].at \in Places
  BY DEF Workers
<1>2. TypeOK'
  BY <1>1 DEF TypeOK, Records, Statuses, Places
<1> QED
  BY <1>2 DEF TypeInv, AtPoint

LEMMA LoopType ==
    ASSUME TypeInv, Loop \/ Stop \/ Crash \/ Resume \/ \E m \in Messages : Send(m)
    PROVE  TypeInv'
PROOF
<1> USE DEF kept, offers, loop
<1>1. /\ msg \in [Messages -> Records] /\ work \in [Steps -> Workers]
      /\ snap \cup begun \cup complete \subseteq Keys \X SUBSET Messages
      /\ status \in [Steps -> Statuses] /\ exec \in [Steps -> Executions]
      /\ active \in [Steps -> Executions \cup {0}]
      /\ offered \subseteq Takers /\ withdrawn \subseteq Takers \X Executions
      /\ pc \in {"going", "closing", "draining", "over", "down"}
      /\ {closed, stopping} \subseteq BOOLEAN /\ waits \in Nat /\ resumes \in 0..MaxResumes
  BY TypeParts DEF TypeInv, TypeOK
<1>2. \A s \in Steps : work[s].at = "no" => ~work[s].recorded
  BY DEF TypeInv
<1>3. CASE EndRun \/ Stop
  BY <1>1, <1>3, TypeFrom DEF EndRun, Stop
<1>4. CASE Close
  <2>1. \A m \in Messages : ClosedFor(msg[m]) \in Records
    BY <1>1, ClosedType
  <2>2. msg' \in [Messages -> Records]
    BY <1>4, <2>1 DEF Close
  <2> QED
    BY <1>1, <1>4, <2>2, TypeFrom DEF Close
<1>5. CASE Seal
  <2> DEFINE left == {s \in Steps : status[s] \in {"pending", "waiting", "running"}}
  <2>1. \A m \in Messages : Sealed(Finished(msg[m], left)) \in Records
    <3>1. \A m \in Messages : Finished(msg[m], left) \in Records
      BY <1>1, FinishedType
    <3> QED
      BY <3>1, SealedType
  <2>2. msg' \in [Messages -> Records]
    BY <1>5, <2>1 DEF Seal
  <2>3. active' \in [Steps -> Executions \cup {0}] /\ status' \in [Steps -> Statuses]
    BY <1>1, <1>5 DEF Seal, Statuses
  <2> QED
    BY <1>1, <1>5, <2>2, <2>3, TypeFrom DEF Seal
<1>6. ASSUME NEW m \in Messages, Accept(m)
      PROVE  TypeInv'
  <2>1. msg' \in [Messages -> Records]
    <3> DEFINE e == IF msg[m].to = 0 THEN 0 ELSE exec[msg[m].to]
               x == IF Problem(msg[m].to) THEN "rejected" ELSE "pending"
    <3>1. msg[m] \in Records /\ e \in Executions \cup {0} /\ x \in States
      BY <1>1 DEF Records, States
    <3>2. [msg[m] EXCEPT !.exec = e, !.state = x] \in Records
      BY <3>1 DEF Records
    <3>3. msg' = [msg EXCEPT ![m] = [msg[m] EXCEPT !.exec = e, !.state = x]]
      BY <1>1, <1>6 DEF Accept
    <3> QED
      BY <1>1, <3>2, <3>3
  <2> QED
    BY <1>1, <1>6, <2>1, TypeFrom DEF Accept
<1>7. ASSUME NEW m \in Messages, Send(m)
      PROVE  TypeInv'
  <2>1. msg' \in [Messages -> Records]
    <3>1. PICK to \in Takers \cup {0} : msg' = [msg EXCEPT ![m].to = to, ![m].state = "sent"]
      BY <1>7 DEF Send
    <3>2. msg[m] \in Records /\ to \in Steps \cup {0}
      BY <1>1 DEF Takers
    <3>3. [msg[m] EXCEPT !.to = to, !.state = "sent"] \in Records
      BY <3>2 DEF Records, States
    <3>4. msg' = [msg EXCEPT ![m] = [msg[m] EXCEPT !.to = to, !.state = "sent"]]
      BY <1>1, <3>1
    <3> QED
      BY <1>1, <3>3, <3>4
  <2> QED
    BY <1>1, <1>7, <2>1, TypeFrom DEF Send
<1>8. CASE Crash
  <2>1. \A m \in Messages : [msg[m] EXCEPT !.state = "none"] \in Records
    BY <1>1, StateType DEF States
  <2>2. msg' \in [Messages -> Records]
    BY <1>1, <1>8, <2>1 DEF Crash
  <2>3. work' \in [Steps -> Workers] /\ \A s \in Steps : work'[s].at = "no" /\ ~work'[s].recorded
    BY <1>8, IdleWorkers DEF Crash
  <2> QED
    BY <1>1, <1>8, <2>2, <2>3, TypeFrom DEF Crash
<1>9. CASE Resume
  <2>1. \A m \in Messages : Loaded(msg[m], m) \in Records
    BY <1>1, SealedType
  <2>2. \A m \in Messages : Reopened(Loaded(msg[m], m)) \in Records
    BY <2>1, ClosedType
  <2>3. msg' \in [Messages -> Records]
    BY <1>9, <2>2 DEF Resume
  <2>4. work' \in [Steps -> Workers] /\ \A s \in Steps : work'[s].at = "no" /\ ~work'[s].recorded
    BY <1>9, IdleWorkers DEF Resume
  <2>5. /\ status' \in [Steps -> Statuses] /\ active' \in [Steps -> Executions \cup {0}]
        /\ offered' \subseteq Takers /\ withdrawn' \subseteq Takers \X Executions
    BY <1>9 DEF Resume, Statuses
  <2>6. resumes' \in 0..MaxResumes
    BY <1>1, <1>9, InteractionsAssumption DEF Resume
  <2> QED
    BY <1>1, <1>9, <2>3, <2>4, <2>5, <2>6, TypeFrom DEF Resume
<1>10. ASSUME NEW s \in Steps, Start(s)
       PROVE  TypeInv'
  <2>1. LET w == [Idle EXCEPT !.at = "free", !.point = 1]
        IN  w \in Workers /\ w.at = "free" /\ w.point = 1 /\ ~w.recorded
    BY FreshWorker
  <2>2. /\ work' \in [Steps -> Workers] /\ work'[s].at = "free" /\ work'[s].point = 1
        /\ ~work'[s].recorded /\ \A t \in Steps : t # s => work'[t] = work[t]
    BY <1>1, <1>10, <2>1 DEF Start
  <2>3. /\ status' \in [Steps -> Statuses] /\ active' \in [Steps -> Executions \cup {0}]
        /\ offered' \subseteq Takers
    BY <1>1, <1>10 DEF Start, Statuses
  <2>4. \A t \in Steps : work'[t].at \in Places
    BY <2>2 DEF Workers
  <2>5. TypeOK'
    BY <1>1, <1>10, <2>3, <2>4 DEF Start, TypeOK, Records, Statuses, Places
  <2> QED
    BY <2>2, <2>5 DEF TypeInv, AtPoint
<1>11. ASSUME NEW s \in Steps, Quit(s) \/ Wake(s)
       PROVE  TypeInv'
  <2>1. CASE Quit(s)
    <3>1. /\ msg' \in [Messages -> Records] /\ active' \in [Steps -> Executions \cup {0}]
          /\ offered' \subseteq Takers /\ status' \in [Steps -> Statuses]
      BY <2>1, EndType DEF Quit, Statuses
    <3> QED
      BY <1>1, <2>1, <3>1, TypeFrom DEF Quit
  <2>2. CASE Wake(s)
    <3>1. status' \in [Steps -> Statuses]
      BY <1>1, <2>2 DEF Wake, Statuses
    <3> QED
      BY <1>1, <2>2, <3>1, TypeFrom DEF Wake
  <2> QED
    BY <1>11, <2>1, <2>2
<1>12. ASSUME NEW s \in Steps, Record(s)
       PROVE  TypeInv'
  <2>1. PICK result \in {"success", "failed", "waits", "revises"} :
            /\ Collect(s, result) /\ End(s, Verdict(result))
            /\ stopping' = (stopping \/ Verdict(result) = "failed") /\ UNCHANGED <<exec, waits>>
            /\ result = "waits" => stopping
    BY <1>12 DEF Record
  <2>2. Verdict(result) \in Statuses
    BY <2>1 DEF Verdict, Statuses
  <2>3. /\ msg' \in [Messages -> Records] /\ active' \in [Steps -> Executions \cup {0}]
        /\ offered' \subseteq Takers /\ status' \in [Steps -> Statuses]
    BY <2>1, <2>2, EndType
  <2>4. /\ work' \in [Steps -> Workers]
        /\ \A t \in Steps : (work'[t].at = "no" /\ ~work'[t].recorded) \/ work'[t] = work[t]
    BY <2>1, IdleWorkers
  <2>5. UNCHANGED <<snap, begun, complete, withdrawn, closed, pc, resumes>>
    BY <2>1 DEF Collect
  <2> QED
    BY <1>1, <2>1, <2>3, <2>4, <2>5, TypeFrom
<1>13. ASSUME NEW s \in Steps, Park(s)
       PROVE  TypeInv'
  <2>1. /\ work' \in [Steps -> Workers]
        /\ \A t \in Steps : (work'[t].at = "no" /\ ~work'[t].recorded) \/ work'[t] = work[t]
    BY <1>13, IdleWorkers DEF Park
  <2>2. status' \in [Steps -> Statuses] /\ waits' \in Nat
    BY <1>1, <1>13 DEF Park, Statuses
  <2>3. UNCHANGED <<snap, begun, complete, withdrawn, closed, pc, resumes>>
    BY <1>13 DEF Park, Collect
  <2> QED
    BY <1>1, <1>13, <2>1, <2>2, <2>3, TypeFrom DEF Park
<1>14. ASSUME NEW s \in Steps, Revise(s)
       PROVE  TypeInv'
  <2>1. /\ work' \in [Steps -> Workers]
        /\ \A t \in Steps : (work'[t].at = "no" /\ ~work'[t].recorded) \/ work'[t] = work[t]
    BY <1>14, IdleWorkers DEF Revise
  <2>2. UNCHANGED <<snap, begun, complete, withdrawn, closed, pc, resumes>>
    BY <1>14 DEF Revise, Collect
  <2>3. exec' \in [Steps -> Executions]
    <3>1. \A t \in Again(s) : exec[t] <= MaxRevisions
      BY <1>14 DEF Revise, MayRevise
    <3>2. \A t \in Again(s) \cap Steps : exec[t] + 1 \in Executions
      BY <1>1, <3>1, InteractionsAssumption DEF Executions
    <3> QED
      BY <1>1, <1>14, <3>2 DEF Revise
  <2>4. status' \in [Steps -> Statuses] /\ active' \in [Steps -> Executions \cup {0}]
        /\ offered' \subseteq Takers
    BY <1>1, <1>14 DEF Revise, Statuses
  <2> QED
    BY <1>1, <1>14, <2>1, <2>2, <2>3, <2>4, TypeFrom DEF Revise
<1> QED
  BY <1>3, <1>4, <1>5, <1>6, <1>7, <1>8, <1>9, <1>10, <1>11, <1>12, <1>13, <1>14 DEF Loop

-----------------------------------------------------------------------------
(* The flow of steps, action by action.                                    *)

LEMMA WorkerRevises ==
    ASSUME TypeInv, NEW s \in Steps, Worker(s), work'[s].at = "revises"
    PROVE  s \in DOMAIN PlanOf
PROOF
<1>1. CASE Take(s)
  BY <1>1, TakeMoves
<1>2. CASE Reuse(s) \/ Confirm(s)
  BY <1>2, PassesMoves DEF Reuse, Confirm
<1>3. CASE \E to \in Places \ {"revises"} : work' = [work EXCEPT ![s].at = to]
  BY <1>3, GoesMoves
<1>4. CASE Return(s)
  BY <1>3, <1>4 DEF Return, Goes, Places
<1>5. CASE Doubt(s) \/ Bind(s) \/ Begin(s) \/ Halt(s)
  BY <1>3, <1>5 DEF Doubt, Bind, Begin, Halt, Goes, Places
<1>6. CASE Answer(s) \/ NotStarted(s) \/ NoAnswer(s) \/ Release(s)
  BY <1>3, <1>6 DEF Answer, NotStarted, NoAnswer, Release, Goes, Places
<1> QED
  BY <1>1, <1>2, <1>4, <1>5, <1>6 DEF Worker

LEMMA WorkerFlow ==
    ASSUME TypeInv, FlowInv, NEW s \in Steps, Worker(s)
    PROVE  FlowInv'
PROOF
<1>1. Moves(s) /\ \A t \in Steps : t # s => work'[t] = work[t]
  BY WorkerMoves, TypeParts DEF Moves
<1>2. work'[s].at = "revises" => s \in DOMAIN PlanOf
  BY WorkerRevises
<1> QED
  BY <1>1, <1>2 DEF FlowInv, PhaseInv, Moves

\* What sending a plan back touches, and what it finds.
LEMMA RevisePath ==
    ASSUME TypeInv, FlowInv, NEW s \in Steps, Revise(s)
    PROVE  /\ s \in DOMAIN PlanOf /\ PlanOf[s] \in Steps
           /\ s \in Again(s) /\ Again(s) \subseteq Downstream({PlanOf[s]})
           /\ pc # "over" /\ ~closed /\ status[s] = "running"
           /\ \A t \in Downstream({PlanOf[s]}) \ Again(s) : status[t] = "pending"
           /\ \A t \in Again(s) : work'[t].at = "no" /\ exec'[t] = exec[t] + 1
           /\ \A t \in Steps \ Again(s) : status'[t] = status[t] /\ exec'[t] = exec[t]
                                          /\ active'[t] = active[t] /\ work'[t] = work[t]
           /\ \A t \in Again(s) : status'[t] = "pending" /\ active'[t] = 0
PROOF
<1>1. pc \in {"going", "draining"} /\ work[s].at = "revises" /\ ~stopping /\ MayRevise(s)
  BY DEF Revise, Collect
<1>2. s \in DOMAIN PlanOf /\ pc # "over" /\ ~closed /\ status[s] = "running"
  BY <1>1 DEF FlowInv, PhaseInv
<1>3. PlanOf[s] \in Steps /\ PlanOf[s] \in Upstream({s})
  BY <1>2, InteractionsAssumption
<1>4. s \in Again(s) /\ Again(s) \subseteq Downstream({PlanOf[s]}) /\ Again(s) \subseteq Steps
  BY <1>3, PathDownstream DEF Again, Downstream
<1>5. work'[s].at = "no" /\ \A t \in Steps : t # s => work'[t] = work[t]
  BY IdleWorkers DEF Revise
<1>6. \A t \in Again(s) : work'[t].at = "no"
  BY <1>1, <1>4, <1>5 DEF MayRevise, Inflight
<1>7. \A t \in Steps : /\ exec'[t] = IF t \in Again(s) THEN exec[t] + 1 ELSE exec[t]
                       /\ status'[t] = IF t \in Again(s) THEN "pending" ELSE status[t]
                       /\ active'[t] = IF t \in Again(s) THEN 0 ELSE active[t]
  BY TypeParts DEF Revise
<1>8. \A t \in Downstream({PlanOf[s]}) \ Again(s) : status[t] = "pending"
  BY <1>1 DEF MayRevise
<1> QED
  BY <1>2, <1>3, <1>4, <1>5, <1>6, <1>7, <1>8

LEMMA ReviseFlow ==
    ASSUME TypeInv, FlowInv, NEW s \in Steps, Revise(s)
    PROVE  FlowInv'
PROOF
<1>1. /\ s \in DOMAIN PlanOf /\ PlanOf[s] \in Steps
      /\ s \in Again(s) /\ Again(s) \subseteq Downstream({PlanOf[s]})
      /\ pc # "over" /\ ~closed
      /\ \A t \in Downstream({PlanOf[s]}) \ Again(s) : status[t] = "pending"
      /\ \A t \in Again(s) : work'[t].at = "no"
      /\ \A t \in Steps \ Again(s) : status'[t] = status[t] /\ exec'[t] = exec[t]
                                     /\ active'[t] = active[t] /\ work'[t] = work[t]
      /\ \A t \in Again(s) : status'[t] = "pending" /\ active'[t] = 0
  BY RevisePath
<1>2. UNCHANGED <<closed, pc, stopping>> /\ pc # "down"
  BY DEF Revise, Collect
<1>3. ASSUME NEW t \in Steps, status'[t] \in {"running", "waiting", "success"}, NEW n \in Needs[t]
      PROVE  status'[n] = "success"
  <2>1. t \notin Again(s) /\ status[t] # "pending"
    BY <1>1, <1>3
  <2>2. n \in Steps /\ status[n] = "success"
    BY <1>1, <1>3, <2>1, NeedsAssumption DEF FlowInv, PhaseInv
  <2>3. CASE n \in Again(s)
    <3>1. ClosedForward(Downstream({PlanOf[s]}))
      BY <1>1, DownstreamClosed
    <3>2. t \in Downstream({PlanOf[s]})
      BY <1>1, <1>3, <2>3, <3>1 DEF ClosedForward
    <3> QED
      BY <1>1, <2>1, <3>2
  <2>4. CASE n \notin Again(s)
    BY <1>1, <2>2, <2>4
  <2> QED
    BY <2>3, <2>4
<1>4. \A t \in Steps : active'[t] \in {0, exec'[t]} /\ (work'[t].at = "revises" => t \in DOMAIN PlanOf)
  BY <1>1 DEF FlowInv, PhaseInv
<1>5. \A t \in Steps : work'[t].at # "no" => active'[t] = exec'[t] /\ status'[t] = "running"
  BY <1>1 DEF FlowInv, PhaseInv
<1> QED
  BY <1>1, <1>2, <1>3, <1>4, <1>5 DEF FlowInv, PhaseInv

LEMMA CollectFlow ==
    ASSUME TypeInv, FlowInv, NEW s \in Steps, Record(s) \/ Park(s)
    PROVE  /\ pc # "over" /\ pc # "down" /\ status[s] = "running" /\ active[s] = exec[s]
           /\ work'[s].at = "no" /\ \A t \in Steps : t # s => work'[t] = work[t]
           /\ UNCHANGED <<exec, pc, closed, snap, begun, complete>>
           /\ status'[s] \in {"waiting", "success", "failed", "cancelled"}
           /\ \A t \in Steps : t # s => status'[t] = status[t] /\ active'[t] = active[t]
           /\ active'[s] \in {0, active[s]} /\ (stopping => stopping')
PROOF
<1>1. PICK at \in {"success", "failed", "waits", "revises"} : Collect(s, at)
  BY DEF Record, Park
<1>2. /\ pc # "over" /\ pc # "down" /\ work[s].at # "no" /\ work'[s].at = "no"
      /\ \A t \in Steps : t # s => work'[t] = work[t]
      /\ UNCHANGED <<pc, closed, snap, begun, complete>>
  BY <1>1, IdleWorkers DEF Collect
<1>3. status[s] = "running" /\ active[s] = exec[s]
  BY <1>2 DEF FlowInv, PhaseInv
<1>4. CASE Record(s)
  <2>1. PICK result \in {"success", "failed", "waits", "revises"} :
            /\ End(s, Verdict(result)) /\ stopping' = (stopping \/ Verdict(result) = "failed")
            /\ UNCHANGED exec /\ (result = "waits" => stopping)
    BY <1>4 DEF Record
  <2>2. Verdict(result) \in {"success", "failed", "cancelled"}
    BY <2>1 DEF Verdict
  <2>3. stopping \in BOOLEAN
    BY DEF TypeInv, TypeOK
  <2> QED
    BY <1>2, <1>3, <2>1, <2>2, <2>3, TypeParts DEF End
<1>5. CASE Park(s)
  BY <1>2, <1>3, <1>5, TypeParts DEF Park
<1> QED
  BY <1>4, <1>5

LEMMA LoopFlow ==
    ASSUME TypeInv, FlowInv, Loop \/ Stop \/ Crash \/ Resume \/ \E m \in Messages : Send(m)
    PROVE  FlowInv'
PROOF
<1> USE DEF kept, offers, loop
<1>1. status \in [Steps -> Statuses] /\ active \in [Steps -> Executions \cup {0}]
      /\ work \in [Steps -> Workers] /\ {closed, stopping} \subseteq BOOLEAN
      /\ \A s \in Steps : Needs[s] \subseteq Steps
  BY TypeParts, NeedsAssumption DEF TypeInv, TypeOK
<1>2. CASE EndRun \/ Stop \/ Close \/ \E m \in Messages : Accept(m) \/ Send(m)
  <2>1. UNCHANGED <<status, exec, active, work>>
    BY <1>2 DEF EndRun, Stop, Close, Accept, Send
  <2>2. pc # "over" /\ pc' # "over" /\ pc # "down" /\ pc' # "down"
    BY <1>2 DEF EndRun, Stop, Close, Accept, Send
  <2>3. PhaseInv'
    <3>1. PhaseInv
      BY DEF FlowInv
    <3>2. CASE EndRun
      BY <3>1, <3>2 DEF EndRun, PhaseInv
    <3>3. CASE Stop
      BY <3>1, <3>3 DEF Stop, PhaseInv
    <3>4. CASE Close
      BY <3>1, <3>4 DEF Close, PhaseInv
    <3>5. CASE \E m \in Messages : Accept(m) \/ Send(m)
      BY <3>1, <3>5 DEF Accept, Send, PhaseInv
    <3> QED
      BY <1>2, <3>2, <3>3, <3>4, <3>5
  <2> QED
    BY <2>1, <2>2, <2>3 DEF FlowInv
<1>3. CASE Seal
  <2>1. \A s \in Steps : /\ status[s] \in {"pending", "waiting", "running"} =>
                               status'[s] = "cancelled" /\ active'[s] = 0
                         /\ status[s] \notin {"pending", "waiting", "running"} =>
                               status'[s] = status[s] /\ active'[s] = active[s]
    BY <1>1, <1>3 DEF Seal
  <2>2. UNCHANGED <<exec, work, closed, stopping>> /\ pc' = "over" /\ closed /\ stopping
        /\ pc = "draining"
    BY <1>3 DEF Seal, FlowInv, PhaseInv
  <2> QED
    BY <1>1, <2>1, <2>2 DEF FlowInv, PhaseInv
<1>4. CASE Crash
  <2>1. \A s \in Steps : work'[s].at = "no"
    BY <1>4, IdleWorkers DEF Crash
  <2> QED
    BY <1>4, <2>1 DEF Crash, FlowInv, PhaseInv
<1>5. CASE Resume
  <2>1. \A s \in Steps : work'[s].at = "no"
    BY <1>5, IdleWorkers DEF Resume
  <2>2. \A s \in Steps : /\ status[s] = "success" => status'[s] = "success"
                         /\ status[s] # "success" => status'[s] = "pending"
                         /\ active'[s] = 0
    BY <1>5 DEF Resume
  <2>3. pc' = "going" /\ ~closed' /\ UNCHANGED exec
    BY <1>5 DEF Resume
  <2> QED
    BY <1>1, <2>1, <2>2, <2>3 DEF FlowInv, PhaseInv
<1>6. ASSUME NEW s \in Steps, Start(s)
      PROVE  FlowInv'
  <2>1. LET w == [Idle EXCEPT !.at = "free", !.point = 1] IN w.at = "free"
    BY FreshWorker
  <2>2. work'[s].at = "free" /\ \A t \in Steps : t # s => work'[t] = work[t]
    BY <1>1, <1>6, <2>1 DEF Start
  <2>3. /\ status'[s] = "running" /\ active'[s] = exec[s] /\ UNCHANGED <<exec, closed, pc, stopping>>
        /\ \A t \in Steps : t # s => status'[t] = status[t] /\ active'[t] = active[t]
        /\ status[s] = "pending" /\ pc = "going" /\ \A n \in Needs[s] : status[n] = "success"
    BY <1>1, <1>6 DEF Start
  <2> QED
    BY <1>1, <2>2, <2>3 DEF FlowInv, PhaseInv
<1>7. ASSUME NEW s \in Steps, Quit(s)
      PROVE  FlowInv'
  <2>1. /\ status'[s] = "cancelled" /\ active'[s] = 0 /\ UNCHANGED <<exec, closed, pc, stopping, work>>
        /\ \A t \in Steps : t # s => status'[t] = status[t] /\ active'[t] = active[t]
        /\ status[s] \in {"pending", "waiting"} /\ pc = "going"
    BY <1>1, <1>7 DEF Quit, End
  <2> QED
    BY <1>1, <2>1 DEF FlowInv, PhaseInv
<1>8. ASSUME NEW s \in Steps, Wake(s)
      PROVE  FlowInv'
  <2>1. /\ status'[s] = "pending" /\ UNCHANGED <<active, exec, closed, pc, stopping, work>>
        /\ \A t \in Steps : t # s => status'[t] = status[t]
        /\ status[s] = "waiting" /\ pc = "going"
    BY <1>1, <1>8 DEF Wake
  <2> QED
    BY <1>1, <2>1 DEF FlowInv, PhaseInv
<1>9. ASSUME NEW s \in Steps, Record(s) \/ Park(s)
      PROVE  FlowInv'
  <2>1. /\ pc # "over" /\ pc # "down" /\ status[s] = "running" /\ active[s] = exec[s]
        /\ work'[s].at = "no" /\ \A t \in Steps : t # s => work'[t] = work[t]
        /\ UNCHANGED <<exec, pc, closed>>
        /\ status'[s] \in {"waiting", "success", "failed", "cancelled"}
        /\ \A t \in Steps : t # s => status'[t] = status[t] /\ active'[t] = active[t]
        /\ active'[s] \in {0, active[s]} /\ (stopping => stopping')
    BY <1>9, CollectFlow
  <2>2. \A t \in Steps, n \in Steps : status'[t] \in {"running", "waiting", "success"} /\ n \in Needs[t]
            => status'[n] = "success"
    BY <1>1, <2>1 DEF FlowInv, PhaseInv
  <2>3. \A t \in Steps : active'[t] \in {0, exec'[t]} /\ (work'[t].at = "revises" => t \in DOMAIN PlanOf)
    BY <2>1 DEF FlowInv, PhaseInv
  <2>4. \A t \in Steps : work'[t].at # "no" => active'[t] = exec'[t] /\ status'[t] = "running"
    BY <2>1 DEF FlowInv, PhaseInv
  <2>5. PhaseInv'
    BY <2>1 DEF FlowInv, PhaseInv
  <2> QED
    BY <1>1, <2>1, <2>2, <2>3, <2>4, <2>5 DEF FlowInv
<1>10. ASSUME NEW s \in Steps, Revise(s)
       PROVE  FlowInv'
  BY <1>10, ReviseFlow
<1> QED
  BY <1>2, <1>3, <1>4, <1>5, <1>6, <1>7, <1>8, <1>9, <1>10 DEF Loop

-----------------------------------------------------------------------------
(* Snapshots and calls, action by action.                                  *)

\* A call says whose it is.
LEMMA CallsApart ==
    ASSUME TypeInv, NEW s \in Steps, NEW t \in Steps, s # t
    PROVE  Call(s) # Call(t) /\ Key(s) # Key(t)
BY DEF Call, Key

\* Another step's worker leaves the calls of a step as they are.
LEMMA OtherCalls ==
    ASSUME TypeInv, NEW s \in Steps, NEW t \in Steps, t # s, CallsOf(t),
           work'[t] = work[t], exec' = exec, stopping => stopping', snap \subseteq snap',
           begun \ {Call(s)} \subseteq begun', complete \subseteq complete',
           (begun \cup complete)' \subseteq begun \cup complete \cup {Call(s)},
           complete' \subseteq complete \cup {Call(s)}
    PROVE  CallsOf(t)'
PROOF
<1>1. Call(t) # Call(s)
  BY CallsApart
<1>2. Call(t)' = Call(t)
  BY DEF Call, Key
<1> QED
  BY <1>1, <1>2 DEF CallsOf

\* What a worker's action does to snapshots and calls.
LEMMA WorkerCalls ==
    ASSUME TypeInv, FlowInv, CallInv, NEW s \in Steps, Worker(s)
    PROVE  /\ CallsOf(s)'
           /\ snap \subseteq snap' /\ begun \ {Call(s)} \subseteq begun' /\ complete \subseteq complete'
           /\ (begun \cup complete)' \subseteq begun \cup complete \cup {Call(s)}
           /\ complete' \subseteq complete \cup {Call(s)}
           /\ (begun \cup complete)' \subseteq snap
           /\ snap' = snap \/ Take(s)
PROOF
<1> USE DEF kept, offers, loop
<1>1. /\ CallsOf(s) /\ begun \cup complete \subseteq snap
      /\ work[s] \in Workers /\ exec' = exec /\ stopping' = stopping
  BY WorkerMoves, TypeParts DEF CallInv, Moves
<1>2. Key(s)' = <<s, exec[s], work'[s].point>> /\ Call(s)' = <<Key(s)', work'[s].items>>
  BY <1>1 DEF Call, Key
<1>3. CASE Take(s)
  <2>1. /\ work'[s].at = "took" /\ work'[s].point = work[s].point
        /\ work'[s].items = Items(s) /\ work'[s].recorded = Lives(s)
        /\ snap' = IF Lives(s) /\ Before(s) = {} THEN snap \cup {<<Key(s), Items(s)>>} ELSE snap
        /\ Lives(s) /\ Before(s) # {} => <<Key(s), Items(s)>> \in snap
        /\ UNCHANGED <<begun, complete>> /\ work[s].at = "free"
    BY <1>3, TakeMoves DEF Take
  <2>2. Call(s)' = <<Key(s), Items(s)>>
    BY <1>2, <2>1 DEF Key
  <2>3. Lives(s) => Call(s)' \in snap'
    BY <2>1, <2>2
  <2>4. ~Lives(s) => Items(s) = {} /\ stopping
    <3>1. ASSUME ~Lives(s) PROVE active[s] = 0 \/ closed
      BY <3>1 DEF Lives
    <3>2. active[s] = 0 => pc = "over"
      <4>1. exec[s] # 0
        BY TypeParts DEF Executions
      <4> QED
        BY <2>1, <4>1 DEF FlowInv
    <3>3. pc = "over" \/ closed => stopping
      BY DEF FlowInv, PhaseInv
    <3> QED
      BY <3>1, <3>2, <3>3 DEF Items
  <2>5. CallsOf(s)'
    BY <1>1, <2>1, <2>3, <2>4 DEF CallsOf
  <2> QED
    BY <1>1, <1>3, <2>1, <2>5
<1>4. CASE Reuse(s) \/ Confirm(s)
  <2>1. work'[s].at = "free" /\ ~work'[s].recorded /\ UNCHANGED <<snap, begun, complete>>
    BY <1>4, PassesMoves DEF Reuse, Confirm
  <2>2. CallsOf(s)'
    BY <2>1 DEF CallsOf, AtPoint
  <2> QED
    BY <1>1, <2>1, <2>2
<1>5. ASSUME NEW to \in Places, work' = [work EXCEPT ![s].at = to]
      PROVE  /\ work'[s].at = to /\ work'[s].items = work[s].items
             /\ work'[s].recorded = work[s].recorded /\ Call(s)' = Call(s)
  <2>1. /\ work'[s].at = to /\ work'[s].items = work[s].items
        /\ work'[s].recorded = work[s].recorded /\ work'[s].point = work[s].point
    BY <1>5, GoesMoves
  <2> QED
    BY <1>2, <2>1 DEF Call, Key
<1>6. CASE Doubt(s) \/ Halt(s) \/ NoAnswer(s) \/ Release(s) \/ Return(s)
  <2>1. UNCHANGED <<snap, begun, complete>>
    BY <1>6 DEF Doubt, Halt, NoAnswer, Release, Return
  <2>2. PICK to \in Places \ AtPoint : work' = [work EXCEPT ![s].at = to]
    BY <1>6 DEF Doubt, Halt, NoAnswer, Release, Return, Goes, Places, AtPoint
  <2>3. CallsOf(s)'
    BY <1>1, <1>5, <2>1, <2>2 DEF CallsOf, AtPoint
  <2> QED
    BY <1>1, <2>1, <2>3
<1>7. CASE Bind(s)
  <2>1. /\ UNCHANGED <<snap, begun, complete>> /\ Call(s) \notin begun \cup complete
        /\ work[s].at = "took" /\ work' = [work EXCEPT ![s].at = "bound"]
    BY <1>7 DEF Bind, Goes
  <2>2. /\ work'[s].at = "bound" /\ work'[s].items = work[s].items
        /\ work'[s].recorded = work[s].recorded /\ Call(s)' = Call(s)
    BY <1>5, <2>1 DEF Places
  <2>3. CallsOf(s)'
    BY <1>1, <2>1, <2>2 DEF CallsOf, AtPoint
  <2> QED
    BY <1>1, <2>1, <2>3
<1>8. CASE Begin(s)
  <2>1. /\ UNCHANGED <<snap, complete>> /\ begun' = begun \cup {Call(s)} /\ ~stopping
        /\ work[s].at = "bound" /\ work' = [work EXCEPT ![s].at = "calling"]
    BY <1>8 DEF Begin, MayCall, Goes
  <2>2. /\ work'[s].at = "calling" /\ work'[s].items = work[s].items
        /\ work'[s].recorded = work[s].recorded /\ Call(s)' = Call(s)
    BY <1>5, <2>1 DEF Places
  <2>3. work[s].recorded /\ Call(s) \in snap /\ Call(s) \notin complete
    BY <1>1, <2>1 DEF CallsOf, AtPoint
  <2>4. CallsOf(s)'
    BY <1>1, <2>1, <2>2, <2>3 DEF CallsOf, AtPoint
  <2> QED
    BY <1>1, <2>1, <2>3, <2>4
<1>9. CASE Answer(s)
  <2>1. /\ UNCHANGED snap /\ begun' = begun \ {Call(s)} /\ complete' = complete \cup {Call(s)}
        /\ work[s].at = "calling" /\ work' = [work EXCEPT ![s].at = "answered"]
    BY <1>9 DEF Answer, Goes
  <2>2. /\ work'[s].at = "answered" /\ work'[s].items = work[s].items
        /\ work'[s].recorded = work[s].recorded /\ Call(s)' = Call(s)
    BY <1>5, <2>1 DEF Places
  <2>3. Call(s) \in begun /\ work[s].recorded
    BY <1>1, <2>1 DEF CallsOf, AtPoint
  <2>4. CallsOf(s)'
    BY <1>1, <2>1, <2>2, <2>3 DEF CallsOf, AtPoint
  <2> QED
    BY <1>1, <2>1, <2>3, <2>4
<1>10. CASE NotStarted(s)
  <2>1. /\ UNCHANGED <<snap, complete>> /\ begun' = begun \ {Call(s)}
        /\ work[s].at = "calling" /\ work' = [work EXCEPT ![s].at = "unstarted"]
    BY <1>10 DEF NotStarted, Goes
  <2>2. /\ work'[s].at = "unstarted" /\ work'[s].items = work[s].items
        /\ work'[s].recorded = work[s].recorded /\ Call(s)' = Call(s)
    BY <1>5, <2>1 DEF Places
  <2>3. Call(s) \in begun \ complete /\ work[s].recorded
    BY <1>1, <2>1 DEF CallsOf, AtPoint
  <2>4. CallsOf(s)'
    BY <1>1, <2>1, <2>2, <2>3 DEF CallsOf, AtPoint
  <2> QED
    BY <1>1, <2>1, <2>3, <2>4
<1> QED
  BY <1>3, <1>4, <1>6, <1>7, <1>8, <1>9, <1>10 DEF Worker

LEMMA WorkerCallInv ==
    ASSUME TypeInv, FlowInv, CallInv, NEW s \in Steps, Worker(s)
    PROVE  CallInv'
PROOF
<1>1. /\ CallsOf(s)'
      /\ snap \subseteq snap' /\ begun \ {Call(s)} \subseteq begun' /\ complete \subseteq complete'
      /\ (begun \cup complete)' \subseteq begun \cup complete \cup {Call(s)}
      /\ complete' \subseteq complete \cup {Call(s)}
      /\ (begun \cup complete)' \subseteq snap
      /\ snap' = snap \/ Take(s)
  BY WorkerCalls
<1>2. /\ exec' = exec /\ stopping' = stopping
      /\ \A t \in Steps : t # s => work'[t] = work[t]
  BY WorkerMoves, TypeParts DEF Moves
<1>3. \A t \in Steps : t # s => CallsOf(t)'
  <2>1. ASSUME NEW t \in Steps, t # s PROVE CallsOf(t)'
    <3>1. CallsOf(t)
      BY DEF CallInv
    <3> QED
      BY <1>1, <1>2, <2>1, <3>1, OtherCalls
  <2> QED
    BY <2>1
<1>4. /\ \A c, d \in snap' : c[1] = d[1] => c = d
      /\ \A c \in snap' : c[1][3] >= 1 /\ c[1][2] <= exec[c[1][1]]
  <2>1. CASE snap' = snap
    BY <2>1 DEF CallInv
  <2>2. CASE Take(s)
    <3>1. /\ snap' = snap \/ (Before(s) = {} /\ snap' = snap \cup {<<Key(s), Items(s)>>})
          /\ work[s].point \in 1..Points[s]
      BY <2>2, TakeMoves
    <3>2. Before(s) = {} => \A c \in snap : c[1] # Key(s)
      BY DEF Before
    <3>3. Key(s)[1] = s /\ Key(s)[2] = exec[s] /\ Key(s)[3] = work[s].point
      BY DEF Key
    <3>4. exec[s] \in Nat /\ Points[s] \in Nat
      BY TypeParts, InteractionsAssumption DEF Executions
    <3>5. Key(s)[3] >= 1 /\ Key(s)[2] <= exec[Key(s)[1]]
      BY <3>1, <3>3, <3>4
    <3> QED
      BY <3>1, <3>2, <3>5 DEF CallInv
  <2> QED
    BY <1>1, <2>1, <2>2
<1> QED
  BY <1>1, <1>2, <1>3, <1>4 DEF CallInv

\* What the loop, and what happens to a run, leaves of calls and workers.
LEMMA LoopKeeps ==
    ASSUME TypeInv, FlowInv, Loop \/ Stop \/ Crash \/ Resume \/ \E m \in Messages : Send(m)
    PROVE  /\ UNCHANGED <<snap, begun, complete>>
           /\ \A t \in Steps :
                 \/ work'[t].at = "no" /\ ~work'[t].recorded
                 \/ work'[t].at = "free" /\ ~work'[t].recorded
                 \/ work'[t] = work[t] /\ exec'[t] = exec[t] /\ (stopping => stopping')
           /\ \A t \in Steps : exec'[t] >= exec[t]
PROOF
<1> USE DEF kept, offers, loop
<1>1. /\ exec \in [Steps -> Executions] /\ \A t \in Steps : exec[t] >= exec[t] /\ exec[t] \in Nat
      /\ work \in [Steps -> Workers] /\ status \in [Steps -> Statuses]
  BY TypeParts DEF Executions
<1>2. CASE EndRun \/ Stop \/ Close \/ Seal \/ \E m \in Messages : Accept(m) \/ Send(m)
  <2>1. UNCHANGED <<snap, begun, complete, exec, work>>
    BY <1>2 DEF EndRun, Stop, Close, Seal, Accept, Send
  <2>2. stopping' = TRUE \/ stopping' = stopping
    BY <1>2 DEF EndRun, Stop, Close, Seal, Accept, Send
  <2> QED
    BY <1>1, <2>1, <2>2
<1>3. CASE Crash \/ Resume
  BY <1>1, <1>3, IdleWorkers DEF Crash, Resume
<1>4. ASSUME NEW s \in Steps, Start(s)
      PROVE  /\ UNCHANGED <<snap, begun, complete, exec, stopping>>
             /\ work'[s].at = "free" /\ ~work'[s].recorded
             /\ \A t \in Steps : t # s => work'[t] = work[t]
  <2>1. LET w == [Idle EXCEPT !.at = "free", !.point = 1] IN w.at = "free" /\ ~w.recorded
    BY FreshWorker
  <2> QED
    BY <1>1, <1>4, <2>1 DEF Start
<1>5. ASSUME NEW s \in Steps, Quit(s) \/ Wake(s)
      PROVE  UNCHANGED <<snap, begun, complete, exec, stopping, work>>
  BY <1>5 DEF Quit, Wake
<1>6. ASSUME NEW s \in Steps, Record(s) \/ Park(s)
      PROVE  /\ UNCHANGED <<snap, begun, complete, exec>> /\ (stopping => stopping')
             /\ work'[s].at = "no" /\ ~work'[s].recorded
             /\ \A t \in Steps : t # s => work'[t] = work[t]
  <2>1. work'[s] = Idle
    BY <1>6, IdleWorkers DEF Record, Park
  <2> QED
    BY <1>6, <2>1, CollectFlow, IdleWorkers
<1>7. ASSUME NEW s \in Steps, Revise(s)
      PROVE  /\ UNCHANGED <<snap, begun, complete, stopping>>
             /\ \A t \in Again(s) : work'[t].at = "no" /\ exec'[t] = exec[t] + 1
             /\ \A t \in Steps \ Again(s) : work'[t] = work[t] /\ exec'[t] = exec[t]
  <2>1. UNCHANGED <<snap, begun, complete, stopping>>
    BY <1>7 DEF Revise, Collect
  <2> QED
    BY <1>7, <2>1, RevisePath
<1>8. ASSUME NEW s \in Steps, Revise(s)
      PROVE  \A t \in Steps : work'[t].at = "no" => ~work'[t].recorded
  <2>1. TypeInv'
    BY <1>8, LoopType DEF Loop
  <2> QED
    BY <2>1 DEF TypeInv
<1>9. ASSUME NEW s \in Steps, Revise(s), NEW t \in Steps
      PROVE  /\ exec'[t] >= exec[t]
             /\ \/ work'[t].at = "no" /\ ~work'[t].recorded
                \/ work'[t] = work[t] /\ exec'[t] = exec[t] /\ (stopping => stopping')
  <2>1. CASE t \in Again(s)
    BY <1>1, <1>7, <1>8, <1>9, <2>1
  <2>2. CASE t \notin Again(s)
    BY <1>1, <1>7, <1>9, <2>2
  <2> QED
    BY <2>1, <2>2
<1> QED
  BY <1>1, <1>2, <1>3, <1>4, <1>5, <1>6, <1>7, <1>9 DEF Loop

LEMMA LoopCallInv ==
    ASSUME TypeInv, FlowInv, CallInv,
           Loop \/ Stop \/ Crash \/ Resume \/ \E m \in Messages : Send(m)
    PROVE  CallInv'
PROOF
<1>1. /\ UNCHANGED <<snap, begun, complete>>
      /\ \A t \in Steps :
            \/ work'[t].at = "no" /\ ~work'[t].recorded
            \/ work'[t].at = "free" /\ ~work'[t].recorded
            \/ work'[t] = work[t] /\ exec'[t] = exec[t] /\ (stopping => stopping')
      /\ \A t \in Steps : exec'[t] >= exec[t]
  BY LoopKeeps
<1>2. ASSUME NEW t \in Steps PROVE CallsOf(t)'
  <2>1. CallsOf(t)
    BY DEF CallInv
  <2>2. CASE work'[t].at \in {"no", "free"} /\ ~work'[t].recorded
    BY <2>2 DEF CallsOf, AtPoint
  <2>3. CASE work'[t] = work[t] /\ exec'[t] = exec[t] /\ (stopping => stopping')
    BY <1>1, <2>1, <2>3 DEF CallsOf, Call, Key
  <2> QED
    BY <1>1, <2>2, <2>3
<1>3. ASSUME NEW c \in snap PROVE c[1][3] >= 1 /\ c[1][2] <= exec'[c[1][1]]
  <2>1. c[1] \in Keys
    BY TypeParts
  <2>2. c[1][1] \in Steps /\ c[1][2] \in Nat
    BY <2>1 DEF Keys, Executions
  <2>3. exec[c[1][1]] \in Nat /\ exec'[c[1][1]] \in Nat
    <3>1. TypeInv'
      BY LoopType
    <3>2. exec' \in [Steps -> Executions]
      BY <3>1 DEF TypeInv, TypeOK
    <3> QED
      BY <2>2, <3>2, TypeParts DEF Executions
  <2> QED
    BY <1>1, <2>2, <2>3 DEF CallInv
<1> QED
  BY <1>1, <1>2, <1>3 DEF CallInv

-----------------------------------------------------------------------------
(* What becomes of a record, one operation at a time.                      *)

\* Nothing is newly said to be delivered or handed over, and nothing that was
\* is taken back.
Quiet(r, q) ==
    /\ q.to = r.to /\ q.exec = r.exec /\ Told(q)
    /\ q.state \in Unheard <=> r.state \in Unheard
    /\ \A k \in Keys : /\ q.given[k] = "delivered" <=> r.given[k] = "delivered"
                       /\ r.given[k] \in Taken => q.given[k] \in Taken
                       /\ q.given[k] = "handing" => r.given[k] = "handing"

LEMMA QuietSame == ASSUME NEW r, Told(r) PROVE Quiet(r, r)
BY DEF Quiet

LEMMA QuietTwice ==
    ASSUME NEW r, NEW q, NEW p, Quiet(r, q), Quiet(q, p)
    PROVE  Quiet(r, p)
BY DEF Quiet

LEMMA SettledSays ==
    ASSUME NEW r \in Records
    PROVE  LET q == Settled(r)
           IN  /\ q.to = r.to /\ q.exec = r.exec /\ q.given = r.given
               /\ r.state \in Unheard => q = r
               /\ r.state \notin Unheard =>
                     /\ q.state \notin Unheard /\ Told(q)
                     /\ q.state = "pending" => ~Has(r, "delivered") /\ ~Has(r, "uncertain")
                     /\ q.state = "pending" => r.state \in {"pending", "delivered", "uncertain"}
                     /\ q.state = "sent" => FALSE
PROOF
<1> DEFINE q == Settled(r)
<1>1. q.to = r.to /\ q.exec = r.exec /\ q.given = r.given
  BY DEF Settled, Records
<1>2. \A d : Has(q, d) <=> Has(r, d)
  BY <1>1 DEF Has
<1>3. CASE r.state \in Unheard
  <2>1. Settled(r) = [r EXCEPT !.state = r.state]
    BY <1>3 DEF Settled
  <2>2. Settled(r) = r
    BY <2>1 DEF Records
  <2> QED
    BY <1>1, <1>3, <2>2
<1>4. CASE r.state \notin Unheard
  <2>1. q.state = IF Has(r, "delivered") THEN "delivered"
                  ELSE IF Has(r, "uncertain") THEN "uncertain"
                  ELSE IF r.state \in {"delivered", "uncertain"} THEN "pending" ELSE r.state
    BY <1>4 DEF Settled, Records
  <2>2. r.state \in States
    BY DEF Records
  <2>3. q.state \notin Unheard /\ Told(q)
    <3> HIDE DEF q
    <3> QED
      BY <1>2, <1>4, <2>1, <2>2 DEF Told, Unheard, States
  <2>4. /\ q.state = "pending" => ~Has(r, "delivered") /\ ~Has(r, "uncertain")
        /\ q.state = "pending" => r.state \in {"pending", "delivered", "uncertain"}
    <3> HIDE DEF q
    <3> QED
      BY <1>4, <2>1, <2>2 DEF Unheard, States
  <2> QED
    BY <1>1, <1>4, <2>3, <2>4 DEF Unheard
<1> QED
  BY <1>3, <1>4

\* A record whose deliveries change, before it is settled.
LEMMA SettledQuiet ==
    ASSUME NEW r \in Records, NEW p \in Records, p.to = r.to, p.exec = r.exec,
           r.state \notin Unheard, p.state \notin Unheard,
           \A k \in Keys : /\ p.given[k] = "delivered" <=> r.given[k] = "delivered"
                           /\ r.given[k] \in Taken => p.given[k] \in Taken
                           /\ p.given[k] = "handing" => r.given[k] = "handing"
    PROVE  Quiet(r, Settled(p))
PROOF
<1> DEFINE q == Settled(p)
<1>1. /\ q.to = p.to /\ q.exec = p.exec /\ q.given = p.given
      /\ q.state \notin Unheard /\ Told(q)
  BY SettledSays
<1> HIDE DEF q
<1>2. Quiet(r, q)
  BY <1>1 DEF Quiet
<1> QED
  BY <1>2 DEF q

LEMMA FinishedQuiet ==
    ASSUME NEW r \in Records, Told(r), NEW ended
    PROVE  /\ Quiet(r, Finished(r, ended))
           /\ LastWord(r) => LastWord(Finished(r, ended))
           /\ \A k \in Keys : Ends(k, ended) => Finished(r, ended).given[k] # "handing"
PROOF
<1>1. CASE r.state \in Unheard
  <2>1. Finished(r, ended) = r
    BY <1>1 DEF Finished
  <2>2. \A k \in Keys : r.given[k] = "no"
    BY <1>1 DEF Told
  <2> QED
    BY <2>1, <2>2, QuietSame
<1>2. CASE r.state \notin Unheard
  <2> DEFINE p == [r EXCEPT !.state = Ended(r, ended), !.given = Deals(r, ended)]
  <2>1. p \in Records /\ Finished(r, ended) = Settled(p)
    BY <1>2, FinishedIs
  <2>2. p.to = r.to /\ p.exec = r.exec /\ p.state = Ended(r, ended) /\ p.given = Deals(r, ended)
    BY DEF Records
  <2>3. Ended(r, ended) \in {r.state, "undelivered"}
        /\ (Ended(r, ended) = "pending" => r.state = "pending")
    BY DEF Ended
  <2>4. \A k \in Keys : /\ r.given[k] = "handing" /\ Ends(k, ended) => p.given[k] = "uncertain"
                        /\ r.given[k] = "handing" /\ ~Ends(k, ended) => p.given[k] = "handing"
                        /\ r.given[k] # "handing" =>
                              p.given[k] = r.given[k] \/ (r.given[k] = "no" /\ p.given[k] = "undelivered")
    <3>1. ASSUME NEW k \in Keys, Unread(r, k) PROVE r.given[k] = "no"
      <4>1. Points[k[1]] \in Nat /\ k = <<k[1], k[2], k[3]>> /\ k[3] = 0
        BY <3>1, InteractionsAssumption DEF Keys, Unread
      <4>2. 0 \in 0..Points[k[1]]
        BY <4>1
      <4> QED
        BY <3>1, <4>1, <4>2 DEF Unread
    <3> QED
      BY <2>2, <3>1 DEF Deals
  <2>5. p.state \notin Unheard
    BY <1>2, <2>2, <2>3 DEF Unheard
  <2> HIDE DEF p
  <2>6. \A k \in Keys : /\ p.given[k] = "delivered" <=> r.given[k] = "delivered"
                        /\ r.given[k] \in Taken => p.given[k] \in Taken
                        /\ p.given[k] = "handing" => r.given[k] = "handing" /\ ~Ends(k, ended)
                        /\ r.given[k] = "uncertain" => p.given[k] = "uncertain"
    BY <2>4 DEF Taken
  <2>7. Quiet(r, Settled(p))
    BY <1>2, <2>1, <2>2, <2>5, <2>6, SettledQuiet
  <2>8. /\ Settled(p).given = p.given /\ Settled(p).state # "sent"
        /\ Settled(p).state = "pending" =>
              /\ ~Has(p, "delivered") /\ ~Has(p, "uncertain")
              /\ p.state \in {"pending", "delivered", "uncertain"}
    BY <2>1, <2>5, SettledSays
  <2>9. ASSUME LastWord(r), Settled(p).state = "pending"
        PROVE  Has(Settled(p), "handing")
    <3>1. ~Has(r, "delivered") /\ ~Has(r, "uncertain")
      BY <2>6, <2>8, <2>9 DEF Has
    <3>2. r.state \notin {"delivered", "uncertain"}
      BY <1>2, <3>1 DEF Told
    <3>3. r.state = "pending"
      BY <2>2, <2>3, <2>8, <2>9, <3>2
    <3>4. PICK k \in Keys : r.given[k] = "handing"
      BY <2>9, <3>3 DEF LastWord, Has
    <3>5. p.given[k] = "handing"
      BY <2>4, <2>8, <2>9, <3>4 DEF Has
    <3> QED
      BY <2>8, <3>5 DEF Has
  <2> QED
    BY <2>1, <2>6, <2>7, <2>8, <2>9 DEF LastWord
<1> QED
  BY <1>1, <1>2

LEMMA SealedQuiet ==
    ASSUME NEW r \in Records, Told(r)
    PROVE  /\ Quiet(r, Sealed(r))
           /\ LastWord(r) => LastWord(Sealed(r))
PROOF
<1> DEFINE p == [r EXCEPT !.given = SealedDeals(r)]
<1>1. p \in Records /\ Sealed(r) = Settled(p)
  BY SealedIs, GivenType
<1>2. p.to = r.to /\ p.exec = r.exec /\ p.state = r.state /\ p.given = SealedDeals(r)
  BY DEF Records
<1>3. \A k \in Keys : p.given[k] = IF r.given[k] = "handing" THEN "uncertain" ELSE r.given[k]
  BY <1>2 DEF SealedDeals
<1> HIDE DEF p
<1>4. CASE r.state \in Unheard
  <2>1. \A k \in Keys : r.given[k] = "no" /\ p.given[k] = "no"
    BY <1>3, <1>4 DEF Told
  <2>2. Settled(p) = p
    BY <1>1, <1>2, <1>4, SettledSays
  <2>3. Quiet(r, p)
    BY <1>2, <1>4, <2>1 DEF Quiet, Told, Taken
  <2>4. p.state # "pending"
    BY <1>2, <1>4 DEF Unheard
  <2> QED
    BY <1>1, <1>2, <2>2, <2>3, <2>4 DEF LastWord
<1>5. CASE r.state \notin Unheard
  <2>1. Quiet(r, Settled(p))
    BY <1>1, <1>2, <1>3, <1>5, SettledQuiet DEF Taken
  <2>2. /\ Settled(p).given = p.given /\ Settled(p).state # "sent"
        /\ Settled(p).state = "pending" =>
              /\ ~Has(p, "delivered") /\ ~Has(p, "uncertain")
              /\ p.state \in {"pending", "delivered", "uncertain"}
    BY <1>1, <1>2, <1>5, SettledSays
  <2>3. ASSUME LastWord(r), Settled(p).state = "pending" PROVE FALSE
    <3>1. ~Has(r, "delivered") /\ ~Has(r, "uncertain") /\ ~Has(r, "handing")
      BY <1>3, <2>2, <2>3 DEF Has
    <3>2. r.state \notin {"delivered", "uncertain"}
      BY <1>5, <3>1 DEF Told
    <3> QED
      BY <1>2, <2>2, <2>3, <3>1, <3>2 DEF LastWord
  <2> QED
    BY <1>1, <2>1, <2>2, <2>3 DEF LastWord
<1> QED
  BY <1>4, <1>5

\* A word about what waits, or about what was never taken.
LEMMA ToldQuiet ==
    ASSUME NEW r, Told(r), NEW q, q.to = r.to, q.exec = r.exec, q.given = r.given,
           \/ r.state = "pending" /\ q.state = "undelivered"
           \/ r.state = "sent" /\ q.state \in {"refused", "none"}
    PROVE  Quiet(r, q)
PROOF
<1>1. \A d : Has(q, d) <=> Has(r, d)
  BY DEF Has
<1>2. Told(q)
  BY <1>1 DEF Told, Unheard
<1> QED
  BY <1>2 DEF Quiet, Unheard

LEMMA ClosedQuiet ==
    ASSUME NEW r \in Records, Told(r)
    PROVE  /\ Quiet(r, ClosedFor(r)) /\ LastWord(ClosedFor(r))
           /\ Quiet(r, Reopened(r))
           /\ Quiet(r, Waiting(r)) /\ (closed => LastWord(Waiting(r)) \/ r.state = "sent")
PROOF
<1>1. r.state = "pending" => /\ Quiet(r, [r EXCEPT !.state = "undelivered"])
                             /\ [r EXCEPT !.state = "undelivered"].state = "undelivered"
  <2> DEFINE q == [r EXCEPT !.state = "undelivered"]
  <2>1. q.to = r.to /\ q.exec = r.exec /\ q.state = "undelivered" /\ q.given = r.given
    BY DEF Records
  <2> HIDE DEF q
  <2>2. r.state = "pending" => Quiet(r, q)
    BY <2>1, ToldQuiet
  <2> QED
    BY <2>1, <2>2 DEF q
<1>2. r.state = "sent" => /\ Quiet(r, [r EXCEPT !.state = "refused"])
                          /\ [r EXCEPT !.state = "refused"].state = "refused"
  <2> DEFINE q == [r EXCEPT !.state = "refused"]
  <2>1. q.to = r.to /\ q.exec = r.exec /\ q.state = "refused" /\ q.given = r.given
    BY DEF Records
  <2> HIDE DEF q
  <2>2. r.state = "sent" => Quiet(r, q)
    BY <2>1, ToldQuiet
  <2> QED
    BY <2>1, <2>2 DEF q
<1>3. Quiet(r, r)
  BY QuietSame
<1>4. Quiet(r, ClosedFor(r)) /\ LastWord(ClosedFor(r))
  <2>1. CASE r.state = "pending" /\ ~Has(r, "handing")
    BY <1>1, <2>1 DEF ClosedFor, LastWord
  <2>2. CASE r.state = "sent"
    BY <1>2, <2>2 DEF ClosedFor, LastWord
  <2>3. CASE r.state # "sent" /\ ~(r.state = "pending" /\ ~Has(r, "handing"))
    BY <1>3, <2>3 DEF ClosedFor, LastWord
  <2> QED
    BY <2>1, <2>2, <2>3
<1>5. Quiet(r, Reopened(r))
  BY <1>1, <1>3 DEF Reopened
<1>6. Quiet(r, Waiting(r)) /\ (closed => LastWord(Waiting(r)) \/ r.state = "sent")
  <2>1. CASE r.state # "pending" \/ Has(r, "handing")
    BY <1>3, <2>1 DEF Waiting, LastWord
  <2>2. CASE r.state = "pending" /\ ~Has(r, "handing")
    BY <1>1, <1>3, <2>2 DEF Waiting, LastWord
  <2> QED
    BY <2>1, <2>2
<1> QED
  BY <1>4, <1>5, <1>6

\* What marking the messages of a point does to one of them.
LEMMA MarkSays ==
    ASSUME TypeInv, CallInv, MessageInv, NEW s \in Steps, work[s].at \in AtPoint,
           NEW d \in {"handing", "delivered"}, Mark(s, d), NEW m \in Messages
    PROVE  IF m \in work[s].items /\ work[s].recorded /\ msg[m].given[Key(s)] # "delivered"
           THEN /\ msg'[m].to = msg[m].to /\ msg'[m].exec = msg[m].exec /\ Told(msg'[m])
                /\ msg[m].state \notin Unheard /\ msg'[m].state \notin Unheard
                /\ msg'[m].given[Key(s)] = d
                /\ \A k \in Keys : k # Key(s) => msg'[m].given[k] = msg[m].given[k]
                /\ LastWord(msg'[m])
           ELSE msg'[m] = msg[m]
PROOF
<1> DEFINE p == [msg[m] EXCEPT !.given[Key(s)] = d]
           q == Settled(p)
<1>1. msg'[m] = IF m \in work[s].items /\ work[s].recorded /\ msg[m].given[Key(s)] # "delivered"
                THEN q ELSE msg[m]
  BY DEF Mark, Read
<1>2. Key(s) \in Keys /\ d \in Deliveries /\ msg[m] \in Records
  BY KeyIsKey, TypeParts DEF Deliveries
<1>3. p \in Records /\ p = [msg[m] EXCEPT !.given = [msg[m].given EXCEPT ![Key(s)] = d]]
  BY <1>2, OneGivenType
<1>4. p.to = msg[m].to /\ p.exec = msg[m].exec /\ p.state = msg[m].state
      /\ p.given = [msg[m].given EXCEPT ![Key(s)] = d]
  BY <1>2, <1>3 DEF Records
<1>5. msg[m].given \in [Keys -> Deliveries]
  BY <1>2 DEF Records
<1>6. p.given[Key(s)] = d /\ \A k \in Keys : k # Key(s) => p.given[k] = msg[m].given[k]
  BY <1>2, <1>4, <1>5
<1>7. CASE m \in work[s].items /\ work[s].recorded /\ msg[m].given[Key(s)] # "delivered"
  <2>1. Call(s) \in snap /\ Call(s)[2] = work[s].items
    BY <1>7, KeyIsKey DEF CallInv, CallsOf
  <2>2. msg[m].state \notin Unheard
    BY <1>7, <2>1 DEF MessageInv
  <2> HIDE DEF p
  <2>3. /\ q.to = p.to /\ q.exec = p.exec /\ q.given = p.given
        /\ q.state \notin Unheard /\ Told(q) /\ q.state # "sent"
        /\ q.state = "pending" => ~Has(p, "delivered") /\ ~Has(p, "uncertain")
    BY <1>3, <1>4, <2>2, SettledSays
  <2> HIDE DEF q
  <2>4. LastWord(q)
    <3>1. Has(p, d) /\ Has(q, d)
      BY <1>2, <1>6, <2>3 DEF Has
    <3> QED
      BY <2>3, <3>1 DEF LastWord
  <2>5. msg'[m] = q
    BY <1>1, <1>7
  <2>6. /\ q.to = msg[m].to /\ q.exec = msg[m].exec /\ Told(q) /\ q.state \notin Unheard
        /\ q.given[Key(s)] = d
        /\ \A k \in Keys : k # Key(s) => q.given[k] = msg[m].given[k]
    BY <1>4, <1>6, <2>3
  <2> QED
    BY <1>7, <2>2, <2>4, <2>5, <2>6
<1> QED
  BY <1>1, <1>7

\* What a call that could not start gives back.
LEMMA ReleaseSays ==
    ASSUME TypeInv, CallInv, MessageInv, NEW s \in Steps, Release(s), NEW m \in Messages
    PROVE  IF m \in work[s].items /\ work[s].recorded /\ msg[m].given[Key(s)] = "handing"
           THEN /\ msg'[m].to = msg[m].to /\ msg'[m].exec = msg[m].exec /\ Told(msg'[m])
                /\ msg[m].state \notin Unheard /\ msg'[m].state \notin Unheard
                /\ msg'[m].given[Key(s)] = "no"
                /\ \A k \in Keys : k # Key(s) =>
                      /\ msg'[m].given[k] = "delivered" <=> msg[m].given[k] = "delivered"
                      /\ msg[m].given[k] \in Taken => msg'[m].given[k] \in Taken
                      /\ msg'[m].given[k] = "handing" => msg[m].given[k] = "handing"
                /\ closed => LastWord(msg'[m])
           ELSE msg'[m] = msg[m]
PROOF
<1> DEFINE p == [msg[m] EXCEPT !.given[Key(s)] = "no"]
           q == Settled(p)
<1>1. msg'[m] = IF m \in work[s].items /\ work[s].recorded /\ msg[m].given[Key(s)] = "handing"
                THEN Waiting(q) ELSE msg[m]
  BY DEF Release, Read
<1>2. Key(s) \in Keys /\ "no" \in Deliveries /\ msg[m] \in Records
  BY KeyIsKey, TypeParts DEF Deliveries, Release, Goes, AtPoint
<1>3. p \in Records /\ p = [msg[m] EXCEPT !.given = [msg[m].given EXCEPT ![Key(s)] = "no"]]
  BY <1>2, OneGivenType
<1>4. p.to = msg[m].to /\ p.exec = msg[m].exec /\ p.state = msg[m].state
      /\ p.given = [msg[m].given EXCEPT ![Key(s)] = "no"]
  BY <1>2, <1>3 DEF Records
<1>5. msg[m].given \in [Keys -> Deliveries]
  BY <1>2 DEF Records
<1>6. p.given[Key(s)] = "no" /\ \A k \in Keys : k # Key(s) => p.given[k] = msg[m].given[k]
  BY <1>2, <1>4, <1>5
<1>7. CASE m \in work[s].items /\ work[s].recorded /\ msg[m].given[Key(s)] = "handing"
  <2>1. msg[m].state \notin Unheard
    BY <1>2, <1>7 DEF MessageInv, Told
  <2> HIDE DEF p
  <2>2. /\ q.to = p.to /\ q.exec = p.exec /\ q.given = p.given
        /\ q.state \notin Unheard /\ Told(q) /\ q.state # "sent" /\ q \in Records
    BY <1>3, <1>4, <2>1, SettledSays, SettledType
  <2> HIDE DEF q
  <2>3. Quiet(q, Waiting(q)) /\ (closed => LastWord(Waiting(q)))
    BY <2>2, ClosedQuiet
  <2>4. Waiting(q).given = q.given
    BY <2>2 DEF Waiting, Records
  <2>5. msg'[m] = Waiting(q)
    BY <1>1, <1>7
  <2>6. /\ q.to = msg[m].to /\ q.exec = msg[m].exec
        /\ q.given[Key(s)] = "no"
        /\ \A k \in Keys : k # Key(s) => q.given[k] = msg[m].given[k]
    BY <1>4, <1>6, <2>2
  <2> DEFINE w == Waiting(q)
  <2> HIDE DEF w
  <2>7. /\ w.to = q.to /\ w.exec = q.exec /\ Told(w) /\ w.state \notin Unheard
        /\ w.given = q.given /\ (closed => LastWord(w))
    BY <2>2, <2>3, <2>4 DEF Quiet, w
  <2>8. msg'[m] = w
    BY <2>5 DEF w
  <2> QED
    BY <1>7, <2>1, <2>6, <2>7, <2>8
<1> QED
  BY <1>1, <1>7

\* What `load` makes of a message: what was in progress is what its call says.
LEMMA LoadedSays ==
    ASSUME NEW m, NEW r \in Records, Told(r)
    PROVE  LET q == Reopened(Loaded(r, m))
           IN  /\ q.to = r.to /\ q.exec = r.exec /\ Told(q) /\ q \in Records
               /\ q.state \in Unheard <=> r.state \in Unheard
               /\ \A k \in Keys :
                     q.given[k] = IF r.given[k] # "handing" THEN r.given[k]
                                  ELSE IF \E c \in complete : c[1] = k /\ m \in c[2] THEN "delivered"
                                  ELSE IF \E c \in begun : c[1] = k /\ m \in c[2] THEN "uncertain"
                                  ELSE "no"
PROOF
<1> DEFINE p == [r EXCEPT !.given = LoadedDeals(r, m)]
<1>1. p \in Records /\ Loaded(r, m) = Settled(p)
  BY SealedIs, GivenType
<1>2. p.to = r.to /\ p.exec = r.exec /\ p.state = r.state /\ p.given = LoadedDeals(r, m)
  BY DEF Records
<1> HIDE DEF p
<1>3. /\ Settled(p).to = r.to /\ Settled(p).exec = r.exec /\ Settled(p).given = p.given
      /\ Settled(p).state \in Unheard <=> r.state \in Unheard
      /\ Settled(p) \in Records
      /\ r.state \notin Unheard => Told(Settled(p))
      /\ r.state \in Unheard => Settled(p) = p
  BY <1>1, <1>2, SettledSays, SettledType
<1>4. Told(Settled(p))
  <2>1. CASE r.state \in Unheard
    <3>1. \A k \in Keys : p.given[k] = "no"
      BY <1>2, <2>1 DEF Told, LoadedDeals
    <3> QED
      BY <1>2, <1>3, <2>1, <3>1 DEF Told
  <2> QED
    BY <1>3, <2>1
<1> DEFINE l == Settled(p)
<1> HIDE DEF l
<1>5. Quiet(l, Reopened(l)) /\ Reopened(l) \in Records /\ Reopened(l).given = l.given
  <2>1. l \in Records /\ Told(l)
    BY <1>3, <1>4 DEF l
  <2>2. Reopened(l).given = l.given
    BY <2>1 DEF Reopened, Records
  <2> QED
    BY <2>1, <2>2, ClosedQuiet, ClosedType
<1>6. Reopened(Loaded(r, m)) = Reopened(l) /\ l = Settled(p)
  BY <1>1 DEF l
<1>7. \A k \in Keys : Reopened(l).given[k] = LoadedDeals(r, m)[k]
  BY <1>2, <1>3, <1>5, <1>6
<1> QED
  BY <1>3, <1>5, <1>6, <1>7 DEF Quiet, LoadedDeals

-----------------------------------------------------------------------------
(* Messages, action by action.                                             *)

LEMMA LoopSays ==
    ASSUME TypeInv, MessageInv, Loop \/ Stop \/ Crash, NEW m \in Messages
    PROVE  \/ \E n \in Messages : Accept(n)
           \/ /\ Quiet(msg[m], msg'[m])
              /\ LastWord(msg[m]) => LastWord(msg'[m])
              /\ closed' => closed \/ LastWord(msg'[m])
PROOF
<1> USE DEF kept, offers, loop
<1>1. msg[m] \in Records /\ Told(msg[m]) /\ Quiet(msg[m], msg[m])
  BY TypeParts, QuietSame DEF MessageInv
<1>2. CASE EndRun \/ Stop \/ \E s \in Steps : Start(s) \/ Wake(s) \/ Park(s) \/ Revise(s)
  <2>1. UNCHANGED <<msg, closed>>
    BY <1>2 DEF EndRun, Stop, Start, Wake, Park, Revise, Collect
  <2> QED
    BY <1>1, <2>1
<1>3. CASE Close
  <2>1. msg'[m] = ClosedFor(msg[m])
    BY <1>3 DEF Close
  <2> QED
    BY <1>1, <2>1, ClosedQuiet
<1>4. CASE Seal
  <2> DEFINE left == {s \in Steps : status[s] \in {"pending", "waiting", "running"}}
             f == Finished(msg[m], left)
  <2>1. msg'[m] = Sealed(f) /\ closed' = closed
    BY <1>4 DEF Seal
  <2>2. f \in Records /\ Quiet(msg[m], f) /\ (LastWord(msg[m]) => LastWord(f))
    BY <1>1, FinishedQuiet, FinishedType
  <2> HIDE DEF f
  <2>3. Quiet(f, Sealed(f)) /\ (LastWord(f) => LastWord(Sealed(f)))
    BY <2>2, SealedQuiet DEF Quiet
  <2>4. Quiet(msg[m], Sealed(f))
    BY <2>2, <2>3, QuietTwice
  <2> QED
    BY <2>1, <2>2, <2>3, <2>4
<1>5. ASSUME NEW s \in Steps, Quit(s) \/ Record(s)
      PROVE  /\ Quiet(msg[m], msg'[m]) /\ closed' = closed
             /\ LastWord(msg[m]) => LastWord(msg'[m])
  <2>1. msg'[m] = Finished(msg[m], {s}) /\ closed' = closed
    BY <1>5 DEF Quit, Record, End, Collect
  <2> QED
    BY <1>1, <2>1, FinishedQuiet
<1>6. CASE Crash
  <2> DEFINE q == [msg[m] EXCEPT !.state = "none"]
  <2>1. msg'[m] = (IF msg[m].state = "sent" THEN q ELSE msg[m]) /\ closed' = closed
    BY <1>6 DEF Crash
  <2>2. q.to = msg[m].to /\ q.exec = msg[m].exec /\ q.given = msg[m].given /\ q.state = "none"
    BY <1>1 DEF Records
  <2> HIDE DEF q
  <2>3. msg[m].state = "sent" => Quiet(msg[m], q)
    BY <1>1, <2>2, ToldQuiet
  <2> QED
    BY <1>1, <2>1, <2>2, <2>3 DEF LastWord
<1> QED
  BY <1>2, <1>3, <1>4, <1>5, <1>6 DEF Loop

\* What is sent, or accepted, was not heard before and has no delivery.
LEMMA NewsSays ==
    ASSUME TypeInv, MessageInv, NEW n \in Messages, Accept(n) \/ Send(n), NEW m \in Messages
    PROVE  /\ pc = "going" /\ UNCHANGED <<snap, begun, complete, offers, loop, work>>
           /\ m # n => msg'[m] = msg[m]
           /\ msg[n].state \in Unheard /\ msg'[n].given = msg[n].given /\ Told(msg'[n])
           /\ msg'[n].state \in {"sent", "rejected", "pending"}
           /\ \A k \in Keys : msg[n].given[k] = "no"
PROOF
<1>1. msg[n] \in Records /\ Told(msg[n]) /\ msg \in [Messages -> Records]
  BY TypeParts DEF MessageInv
<1>2. msg[n].state \in {"none", "sent"}
  BY DEF Accept, Send
<1>3. \A k \in Keys : msg[n].given[k] = "no"
  BY <1>1, <1>2 DEF Told, Unheard
<1>4. /\ msg'[n].given = msg[n].given /\ msg'[n].state \in {"sent", "rejected", "pending"}
      /\ m # n => msg'[m] = msg[m]
  <2>1. CASE Accept(n)
    <3> DEFINE e == IF msg[n].to = 0 THEN 0 ELSE exec[msg[n].to]
               x == IF Problem(msg[n].to) THEN "rejected" ELSE "pending"
    <3>1. msg' = [msg EXCEPT ![n] = [msg[n] EXCEPT !.exec = e, !.state = x]]
      BY <1>1, <2>1 DEF Accept
    <3>2. x \in {"rejected", "pending"}
      OBVIOUS
    <3> HIDE DEF e, x
    <3> QED
      BY <1>1, <3>1, <3>2 DEF Records
  <2>2. CASE Send(n)
    <3>1. PICK to \in Takers \cup {0} : msg' = [msg EXCEPT ![n].to = to, ![n].state = "sent"]
      BY <2>2 DEF Send
    <3>2. msg' = [msg EXCEPT ![n] = [msg[n] EXCEPT !.to = to, !.state = "sent"]]
      BY <1>1, <3>1
    <3> QED
      BY <1>1, <3>2 DEF Records
  <2> QED
    BY <2>1, <2>2
<1>5. Told(msg'[n])
  BY <1>3, <1>4 DEF Told, Unheard, Has
<1> QED
  BY <1>2, <1>3, <1>4, <1>5 DEF Accept, Send, Unheard

\* Where nothing is delivered and nothing taken back, and no call is made.
LEMMA QuietMessages ==
    ASSUME TypeInv, MessageInv, \A m \in Messages : Quiet(msg[m], msg'[m]),
           UNCHANGED <<snap, begun, complete>>,
           \A s \in Steps : work'[s].at # "bound" \/ (work'[s] = work[s] /\ exec'[s] = exec[s])
    PROVE  MessageInv'
PROOF
<1>1. \A c \in snap \cup begun \cup complete : c[1] \in Keys /\ c[2] \subseteq Messages
  BY TypeParts
<1>2. \A m \in Messages : Told(msg'[m])
  BY DEF Quiet
<1>3. \A c \in snap' : \A m \in c[2] : msg'[m].state \notin Unheard
  BY <1>1 DEF MessageInv, Quiet
<1>4. \A m \in Messages, k \in Keys : msg'[m].given[k] = "delivered" =>
          \E c \in complete' : c[1] = k /\ m \in c[2]
  BY DEF MessageInv, Quiet
<1>5. \A c \in (begun \cup complete)' : \A m \in c[2] : msg'[m].given[c[1]] \in Taken
  BY <1>1 DEF MessageInv, Quiet
<1>6. ASSUME NEW s \in Steps, work'[s].at = "bound" /\ work'[s].recorded, NEW m \in work'[s].items
      PROVE  msg'[m].given[Key(s)'] \in Taken
  <2>1. work'[s] = work[s] /\ Key(s)' = Key(s)
    BY <1>6 DEF Key
  <2>2. Key(s) \in Keys /\ m \in Messages
    BY <1>6, <2>1, KeyIsKey, TypeParts DEF AtPoint, Workers
  <2> QED
    BY <1>6, <2>1, <2>2 DEF MessageInv, Quiet
<1> QED
  BY <1>2, <1>3, <1>4, <1>5, <1>6 DEF MessageInv

LEMMA NewsMessageInv ==
    ASSUME TypeInv, CallInv, MessageInv, NEW n \in Messages, Accept(n) \/ Send(n)
    PROVE  MessageInv'
PROOF
<1>1. /\ UNCHANGED <<snap, begun, complete, exec, work>>
      /\ msg[n].state \in Unheard /\ msg'[n].given = msg[n].given /\ Told(msg'[n])
      /\ \A k \in Keys : msg[n].given[k] = "no"
      /\ \A m \in Messages : m # n => msg'[m] = msg[m]
  BY NewsSays DEF loop
<1>2. \A c \in snap \cup begun \cup complete : c[1] \in Keys /\ c[2] \subseteq Messages
  BY TypeParts
<1>3. \A c \in snap : n \notin c[2]
  BY <1>1 DEF MessageInv
<1>4. begun \cup complete \subseteq snap
  BY DEF CallInv
<1>5. \A m \in Messages : Told(msg'[m])
  BY <1>1 DEF MessageInv
<1>6. \A c \in snap' : \A m \in c[2] : msg'[m].state \notin Unheard
  BY <1>1, <1>2, <1>3 DEF MessageInv
<1>7. \A m \in Messages, k \in Keys : msg'[m].given[k] = "delivered" =>
          \E c \in complete' : c[1] = k /\ m \in c[2]
  BY <1>1 DEF MessageInv
<1>8. \A c \in (begun \cup complete)' : \A m \in c[2] : msg'[m].given[c[1]] \in Taken
  BY <1>1, <1>2, <1>3, <1>4 DEF MessageInv
<1>9. ASSUME NEW s \in Steps, work'[s].at = "bound" /\ work'[s].recorded, NEW m \in work'[s].items
      PROVE  msg'[m].given[Key(s)'] \in Taken
  <2>1. work'[s] = work[s] /\ Key(s)' = Key(s)
    BY <1>1 DEF Key
  <2>2. m \in Messages /\ msg[m].given[Key(s)] \in Taken
    BY <1>9, <2>1, TypeParts DEF Workers, MessageInv
  <2> QED
    BY <1>1, <2>1, <2>2
<1> QED
  BY <1>5, <1>6, <1>7, <1>8, <1>9 DEF MessageInv

LEMMA LoopMessageInv ==
    ASSUME TypeInv, FlowInv, CallInv, MessageInv, Loop \/ Stop \/ Crash
    PROVE  MessageInv'
PROOF
<1>1. /\ UNCHANGED <<snap, begun, complete>>
      /\ \A t \in Steps : work'[t].at # "bound" \/ (work'[t] = work[t] /\ exec'[t] = exec[t])
  BY LoopKeeps
<1>2. CASE \E n \in Messages : Accept(n)
  BY <1>2, NewsMessageInv
<1>3. CASE ~\E n \in Messages : Accept(n)
  <2>1. \A m \in Messages : Quiet(msg[m], msg'[m])
    BY <1>3, LoopSays
  <2> QED
    BY <1>1, <2>1, QuietMessages
<1> QED
  BY <1>2, <1>3

\* What a worker's action does to one message: it is told of at the worker's
\* own point only, and only what that point reads.
LEMMA WorkerSays ==
    ASSUME TypeInv, CallInv, MessageInv, NEW s \in Steps, Worker(s), NEW m \in Messages
    PROVE  /\ msg'[m].to = msg[m].to /\ msg'[m].exec = msg[m].exec /\ Told(msg'[m])
           /\ msg'[m].state \in Unheard <=> msg[m].state \in Unheard
           /\ closed /\ LastWord(msg[m]) => LastWord(msg'[m])
           /\ \A k \in Keys :
                 /\ k # Key(s) =>
                       /\ msg'[m].given[k] = "delivered" <=> msg[m].given[k] = "delivered"
                       /\ msg[m].given[k] \in Taken => msg'[m].given[k] \in Taken
                       /\ msg'[m].given[k] = "handing" => msg[m].given[k] = "handing"
                 /\ msg[m].given[k] = "delivered" => msg'[m].given[k] = "delivered"
                 /\ msg[m].given[k] \in Taken => msg'[m].given[k] \in Taken \/ Release(s)
                 /\ msg'[m].given[k] = "delivered" =>
                       \/ msg[m].given[k] = "delivered"
                       \/ /\ k = Key(s) /\ m \in work[s].items /\ work[s].recorded
                          /\ Call(s) \in complete /\ work[s].at \in AtPoint
                 /\ msg'[m].given[k] = "handing" =>
                       \/ msg[m].given[k] = "handing"
                       \/ k = Key(s) /\ m \in work[s].items /\ work[s].recorded /\ Bind(s)
           /\ Bind(s) /\ m \in work[s].items /\ work[s].recorded => msg'[m].given[Key(s)] \in Taken
PROOF
<1> USE DEF kept, offers, loop
<1>1. msg[m] \in Records /\ Told(msg[m]) /\ CallsOf(s)
  BY TypeParts DEF MessageInv, CallInv
<1>2. CASE Reuse(s) \/ Confirm(s)
  <2>1. /\ work[s].at \in AtPoint /\ Mark(s, "delivered") /\ Call(s) \in complete
        /\ ~Bind(s) /\ Key(s) \in Keys
    <3>1. work[s].at \in {"took", "answered"} /\ work'[s].at = "free"
      BY <1>2, PassesMoves DEF Reuse, Confirm
    <3>2. Mark(s, "delivered") /\ Call(s) \in complete
      BY <1>1, <1>2 DEF Reuse, Confirm, CallsOf, Passes
    <3>3. ~Bind(s)
      BY <3>1, GoesMoves DEF Bind, Goes, Places
    <3> QED
      BY <3>1, <3>2, <3>3, KeyIsKey DEF AtPoint
  <2>2. IF m \in work[s].items /\ work[s].recorded /\ msg[m].given[Key(s)] # "delivered"
        THEN /\ msg'[m].to = msg[m].to /\ msg'[m].exec = msg[m].exec /\ Told(msg'[m])
             /\ msg[m].state \notin Unheard /\ msg'[m].state \notin Unheard
             /\ msg'[m].given[Key(s)] = "delivered"
             /\ \A k \in Keys : k # Key(s) => msg'[m].given[k] = msg[m].given[k]
             /\ LastWord(msg'[m])
        ELSE msg'[m] = msg[m]
    BY <2>1, MarkSays
  <2> QED
    BY <1>1, <2>1, <2>2 DEF Taken
<1>3. CASE Bind(s)
  <2>1. work[s].at \in AtPoint /\ Mark(s, "handing") /\ Key(s) \in Keys
    BY <1>3, KeyIsKey DEF Bind, Goes, AtPoint
  <2>2. IF m \in work[s].items /\ work[s].recorded /\ msg[m].given[Key(s)] # "delivered"
        THEN /\ msg'[m].to = msg[m].to /\ msg'[m].exec = msg[m].exec /\ Told(msg'[m])
             /\ msg[m].state \notin Unheard /\ msg'[m].state \notin Unheard
             /\ msg'[m].given[Key(s)] = "handing"
             /\ \A k \in Keys : k # Key(s) => msg'[m].given[k] = msg[m].given[k]
             /\ LastWord(msg'[m])
        ELSE msg'[m] = msg[m]
    BY <2>1, MarkSays
  <2> QED
    BY <1>1, <1>3, <2>1, <2>2 DEF Taken
<1>4. CASE Release(s)
  <2>1. IF m \in work[s].items /\ work[s].recorded /\ msg[m].given[Key(s)] = "handing"
        THEN /\ msg'[m].to = msg[m].to /\ msg'[m].exec = msg[m].exec /\ Told(msg'[m])
             /\ msg[m].state \notin Unheard /\ msg'[m].state \notin Unheard
             /\ msg'[m].given[Key(s)] = "no"
             /\ \A k \in Keys : k # Key(s) =>
                   /\ msg'[m].given[k] = "delivered" <=> msg[m].given[k] = "delivered"
                   /\ msg[m].given[k] \in Taken => msg'[m].given[k] \in Taken
                   /\ msg'[m].given[k] = "handing" => msg[m].given[k] = "handing"
             /\ closed => LastWord(msg'[m])
        ELSE msg'[m] = msg[m]
    BY <1>4, ReleaseSays
  <2>2. ~Bind(s)
    BY <1>4 DEF Bind, Release, Goes
  <2> QED
    BY <1>1, <1>4, <2>1, <2>2
<1>5. CASE /\ msg' = msg
           /\ ~Bind(s)
  BY <1>1, <1>5
<1>6. CASE Take(s) \/ Doubt(s) \/ Begin(s) \/ Halt(s) \/ Answer(s) \/ NotStarted(s) \/ NoAnswer(s)
           \/ Return(s)
  <2>1. msg' = msg
    BY <1>6 DEF Take, Doubt, Begin, Halt, Answer, NotStarted, NoAnswer, Return
  <2> QED
    BY <1>1, <1>3, <1>5, <2>1
<1> QED
  BY <1>2, <1>3, <1>4, <1>6 DEF Worker

LEMMA WorkerMessageInv ==
    ASSUME TypeInv, FlowInv, CallInv, MessageInv, NEW s \in Steps, Worker(s)
    PROVE  MessageInv'
PROOF
<1> USE DEF kept, offers, loop
<1>1. \A c \in snap \cup begun \cup complete : c[1] \in Keys /\ c[2] \subseteq Messages /\ c = <<c[1], c[2]>>
  BY TypeParts
<1>2. /\ snap \subseteq snap' /\ complete \subseteq complete'
      /\ (begun \cup complete)' \subseteq begun \cup complete \cup {Call(s)}
      /\ (begun \cup complete)' \subseteq snap
      /\ snap' = snap \/ Take(s)
  BY WorkerCalls
<1>3. \A m \in Messages : Told(msg'[m])
  BY WorkerSays
<1>4. \A c \in snap' : \A m \in c[2] : msg'[m].state \notin Unheard
  <2>1. \A c \in snap : \A m \in c[2] : msg'[m].state \notin Unheard
    BY <1>1, WorkerSays DEF MessageInv
  <2>2. CASE Take(s)
    <3>1. /\ msg' = msg /\ Items(s) \subseteq Messages
          /\ snap' = snap \/ (/\ Lives(s) /\ Before(s) = {}
                              /\ snap' = snap \cup {<<Key(s), Items(s)>>})
      BY <2>2, TakeMoves DEF Take
    <3>2. Lives(s) /\ Before(s) = {} => \A m \in Items(s) : msg[m].state \notin Unheard
      BY DEF Items, Applies, Unheard
    <3> QED
      BY <2>1, <3>1, <3>2
  <2> QED
    BY <1>2, <2>1, <2>2
<1>5. ASSUME NEW m \in Messages, NEW k \in Keys, msg'[m].given[k] = "delivered"
      PROVE  \E c \in complete' : c[1] = k /\ m \in c[2]
  <2>1. CASE msg[m].given[k] = "delivered"
    BY <1>2, <2>1 DEF MessageInv
  <2>2. CASE /\ k = Key(s) /\ m \in work[s].items /\ Call(s) \in complete /\ work[s].at \in AtPoint
    BY <1>2, <2>2, KeyIsKey
  <2> QED
    BY <1>5, <2>1, <2>2, WorkerSays
<1>6. ASSUME NEW c \in (begun \cup complete)', NEW m \in c[2]
      PROVE  msg'[m].given[c[1]] \in Taken
  <2>1. c[1] \in Keys /\ m \in Messages
    BY <1>1, <1>2
  <2>2. CASE c \in begun \cup complete
    <3>1. msg[m].given[c[1]] \in Taken
      BY <2>2 DEF MessageInv
    <3>2. CASE ~Release(s)
      BY <2>1, <3>1, <3>2, WorkerSays
    <3>3. CASE Release(s)
      <4>1. work[s].at = "unstarted" /\ Call(s) \notin begun \cup complete /\ Call(s) \in snap
        BY <3>3 DEF Release, Goes, CallInv, CallsOf, AtPoint
      <4>2. c[1] # Key(s)
        BY <1>2, <2>2, <4>1 DEF CallInv, Call
      <4> QED
        BY <2>1, <3>1, <4>2, WorkerSays
    <3> QED
      BY <3>2, <3>3
  <2>3. CASE c \notin begun \cup complete
    <3>1. c = Call(s)
      BY <1>2, <2>3
    <3>2. CASE Begin(s)
      <4>1. work[s].at = "bound" /\ ~stopping /\ msg' = msg
        BY <3>2 DEF Begin, Goes, MayCall
      <4>2. work[s].recorded
        BY <4>1 DEF CallInv, CallsOf, AtPoint
      <4> QED
        BY <3>1, <4>1, <4>2 DEF MessageInv, Call
    <3>3. CASE ~Begin(s)
      <4>1. begun' \cup complete' \subseteq begun \cup complete
        <5>1. CASE Answer(s) \/ NotStarted(s)
          <6>1. Call(s) \in begun
            BY <5>1 DEF Answer, NotStarted, Goes, CallInv, CallsOf
          <6> QED
            BY <5>1, <6>1 DEF Answer, NotStarted
        <5>2. CASE UNCHANGED <<begun, complete>>
          BY <5>2
        <5> QED
          BY <3>3, <5>1, <5>2
          DEF Worker, Take, Reuse, Doubt, Bind, Halt, NoAnswer, Confirm, Release, Return
      <4> QED
        BY <2>3, <4>1
    <3> QED
      BY <3>2, <3>3
  <2> QED
    BY <2>2, <2>3
<1>7. ASSUME NEW t \in Steps, work'[t].at = "bound" /\ work'[t].recorded, NEW m \in work'[t].items
      PROVE  msg'[m].given[Key(t)'] \in Taken
  <2>1. exec' = exec /\ (t # s => work'[t] = work[t]) /\ work'[t] \in Workers
    BY WorkerMoves, TypeParts DEF Moves
  <2>2. m \in Messages
    BY <1>7, <2>1 DEF Workers
  <2>3. CASE t # s
    <3>1. Key(t)' = Key(t) /\ Key(t) # Key(s) /\ Key(t) \in Keys
      BY <1>7, <2>1, <2>3, CallsApart, KeyIsKey DEF Key, AtPoint
    <3>2. msg[m].given[Key(t)] \in Taken
      BY <1>7, <2>1, <2>3 DEF MessageInv
    <3> QED
      BY <2>2, <3>1, <3>2, WorkerSays
  <2>4. CASE t = s
    <3>1. Bind(s)
      <4>1. CASE Take(s)
        BY <1>7, <2>4, <4>1, TakeMoves
      <4>2. CASE Reuse(s) \/ Confirm(s)
        BY <1>7, <2>4, <4>2, PassesMoves DEF Reuse, Confirm
      <4>3. CASE \E to \in Places \ {"bound"} : work' = [work EXCEPT ![s].at = to]
        BY <1>7, <2>4, <4>3, GoesMoves
      <4>4. CASE Doubt(s) \/ Begin(s) \/ Halt(s) \/ Return(s)
        BY <4>3, <4>4 DEF Doubt, Begin, Halt, Return, Goes, Places
      <4>5. CASE Answer(s) \/ NotStarted(s) \/ NoAnswer(s) \/ Release(s)
        BY <4>3, <4>5 DEF Answer, NotStarted, NoAnswer, Release, Goes, Places
      <4> QED
        BY <4>1, <4>2, <4>4, <4>5 DEF Worker
    <3>2. work[s].recorded /\ work[s].items = work'[s].items /\ work'[s].point = work[s].point
      BY <1>7, <2>4, <3>1, GoesMoves DEF Bind, Goes, Places
    <3>3. Key(t)' = Key(s)
      BY <2>1, <2>4, <3>2 DEF Key
    <3> QED
      BY <1>7, <2>2, <2>4, <3>1, <3>2, <3>3, WorkerSays
  <2> QED
    BY <2>3, <2>4
<1> QED
  BY <1>3, <1>4, <1>5, <1>6, <1>7 DEF MessageInv

LEMMA ResumeSays ==
    ASSUME TypeInv, MessageInv, Resume, NEW m \in Messages
    PROVE  /\ msg'[m].to = msg[m].to /\ msg'[m].exec = msg[m].exec /\ Told(msg'[m])
           /\ msg'[m].state \in Unheard <=> msg[m].state \in Unheard
           /\ \A k \in Keys :
                 /\ msg[m].given[k] # "handing" => msg'[m].given[k] = msg[m].given[k]
                 /\ msg'[m].given[k] # "handing"
                 /\ msg[m].given[k] = "handing" =>
                       /\ msg'[m].given[k] = "delivered" =>
                             \E c \in complete : c[1] = k /\ m \in c[2]
                       /\ (\E c \in begun \cup complete : c[1] = k /\ m \in c[2])
                             => msg'[m].given[k] \in Taken
PROOF
<1>1. msg[m] \in Records /\ Told(msg[m]) /\ msg'[m] = Reopened(Loaded(msg[m], m))
  BY TypeParts DEF MessageInv, Resume
<1> DEFINE q == Reopened(Loaded(msg[m], m))
<1>2. /\ q.to = msg[m].to /\ q.exec = msg[m].exec /\ Told(q)
      /\ q.state \in Unheard <=> msg[m].state \in Unheard
      /\ \A k \in Keys :
            q.given[k] = IF msg[m].given[k] # "handing" THEN msg[m].given[k]
                         ELSE IF \E c \in complete : c[1] = k /\ m \in c[2] THEN "delivered"
                         ELSE IF \E c \in begun : c[1] = k /\ m \in c[2] THEN "uncertain"
                         ELSE "no"
  BY <1>1, LoadedSays
<1> HIDE DEF q
<1>3. msg'[m] = q
  BY <1>1 DEF q
<1> QED
  BY <1>2, <1>3 DEF Taken

LEMMA ResumeMessageInv ==
    ASSUME TypeInv, FlowInv, CallInv, MessageInv, Resume
    PROVE  MessageInv'
PROOF
<1>1. \A c \in snap \cup begun \cup complete : c[1] \in Keys /\ c[2] \subseteq Messages
  BY TypeParts
<1>2. UNCHANGED <<snap, begun, complete>> /\ \A s \in Steps : work'[s].at = "no"
  BY IdleWorkers DEF Resume
<1>3. \A m \in Messages : Told(msg'[m])
  BY ResumeSays
<1>4. \A c \in snap' : \A m \in c[2] : msg'[m].state \notin Unheard
  BY <1>1, <1>2, ResumeSays DEF MessageInv
<1>5. ASSUME NEW m \in Messages, NEW k \in Keys, msg'[m].given[k] = "delivered"
      PROVE  \E c \in complete' : c[1] = k /\ m \in c[2]
  <2>1. CASE msg[m].given[k] = "handing"
    BY <1>2, <1>5, <2>1, ResumeSays
  <2>2. CASE msg[m].given[k] # "handing"
    <3>1. msg[m].given[k] = "delivered"
      BY <1>5, <2>2, ResumeSays
    <3> QED
      BY <1>2, <3>1 DEF MessageInv
  <2> QED
    BY <2>1, <2>2
<1>6. ASSUME NEW c \in begun \cup complete, NEW m \in c[2]
      PROVE  msg'[m].given[c[1]] \in Taken
  <2>1. c[1] \in Keys /\ m \in Messages /\ msg[m].given[c[1]] \in Taken
    BY <1>1 DEF MessageInv
  <2>2. CASE msg[m].given[c[1]] = "handing"
    BY <1>6, <2>1, <2>2, ResumeSays
  <2>3. CASE msg[m].given[c[1]] # "handing"
    BY <2>1, <2>3, ResumeSays
  <2> QED
    BY <2>2, <2>3
<1> QED
  BY <1>2, <1>3, <1>4, <1>5, <1>6 DEF MessageInv

-----------------------------------------------------------------------------
(* What is left waiting by a run that is closed.                           *)

LEMMA ClosedStep ==
    ASSUME TypeInv, FlowInv, CallInv, MessageInv, ClosedInv, Next
    PROVE  ClosedInv'
PROOF
<1>1. ASSUME NEW s \in Steps, Worker(s) PROVE ClosedInv'
  <2>1. closed' = closed
    BY <1>1, WorkerMoves DEF Moves
  <2> QED
    BY <1>1, <2>1, WorkerSays DEF ClosedInv
<1>2. ASSUME NEW m \in Messages, Send(m) \/ Accept(m) PROVE ClosedInv'
  <2>1. ~closed /\ closed' = closed
    BY <1>2 DEF Send, Accept, offers, FlowInv, PhaseInv
  <2> QED
    BY <2>1 DEF ClosedInv
<1>3. CASE Resume
  BY <1>3 DEF Resume, ClosedInv
<1>4. CASE Loop \/ Stop \/ Crash
  <2>1. CASE \E n \in Messages : Accept(n)
    BY <1>2, <2>1
  <2>2. CASE ~\E n \in Messages : Accept(n)
    BY <1>4, <2>2, LoopSays DEF ClosedInv
  <2> QED
    BY <2>1, <2>2
<1> QED
  BY <1>1, <1>2, <1>3, <1>4 DEF Next

-----------------------------------------------------------------------------
(* What later steps know, action by action.                                *)

\* Whoever was told, the step that was written to was.
LEMMA DeliveredOwn ==
    ASSUME TypeInv, CallInv, MessageInv, ToldOwn, NEW m \in Messages, NEW k \in Keys,
           msg[m].given[k] = "delivered", msg[m].to # 0
    PROVE  OwnDelivered(m)
PROOF
<1>1. PICK c \in complete : c[1] = k /\ m \in c[2]
  BY DEF MessageInv
<1>2. c \in snap
  BY <1>1 DEF CallInv
<1> QED
  BY <1>1, <1>2 DEF ToldOwn, OwnDelivered

LEMMA DeliveredState ==
    ASSUME NEW r, Told(r)
    PROVE  r.state = "delivered" <=> Has(r, "delivered")
BY DEF Told, Has, Unheard

\* All before a step at work is done.
LEMMA DoneAbove ==
    ASSUME TypeInv, FlowInv, NEW s \in Steps, status[s] = "running"
    PROVE  \A u \in Upstream({s}) : status[u] = "success"
PROOF
<1> DEFINE C == {t \in Steps : status[t] = "success"}
<1>1. C \in SUBSET Steps /\ Needs[s] \subseteq C /\ ClosedBackward(C)
  BY NeedsAssumption DEF FlowInv, ClosedBackward
<1> HIDE DEF C
<1>2. Upstream({s}) \subseteq C
  BY <1>1, UpstreamWithin
<1> QED
  BY <1>2 DEF C

\* Where nothing is delivered: executions stay, what was done stays done, and
\* what is newly done is in the middle of nothing.
LEMMA QuietJudges ==
    ASSUME TypeInv, MessageInv, JudgeInv, \A m \in Messages : Quiet(msg[m], msg'[m]),
           snap' = snap, exec' = exec,
           \A t \in Steps : status[t] = "success" => status'[t] = "success",
           \A t \in Steps : status'[t] = "success" /\ status[t] # "success" =>
               \A m \in Messages, k \in Keys :
                   k[1] = t /\ k[2] = exec[t] => msg'[m].given[k] # "handing"
    PROVE  JudgeInv'
PROOF
<1>1. \A c \in snap : c[1] \in Keys /\ c[2] \subseteq Messages
  BY TypeParts
<1>2. \A k \in Keys : k[1] \in Steps
  BY DEF Keys
<1>3. \A s \in Steps : \A u \in Upstream({s}) : u \in Steps
  BY DEF Upstream
<1>4. \A m \in Messages : Told(msg[m]) /\ Told(msg'[m])
  BY DEF MessageInv, Quiet
<1>5. \A m \in Messages : OwnDelivered(m)' <=> OwnDelivered(m)
  BY DEF OwnDelivered, Quiet
<1>6. \A m \in Messages : msg'[m].state = "delivered" <=> msg[m].state = "delivered"
  <2>1. \A m \in Messages : Has(msg'[m], "delivered") <=> Has(msg[m], "delivered")
    BY DEF Has, Quiet
  <2> QED
    BY <1>4, <2>1, DeliveredState
<1>7. DoneBefore'
  BY <1>1, <1>2, <1>3 DEF JudgeInv, DoneBefore
<1>8. ToldOwn'
  BY <1>1, <1>5 DEF JudgeInv, ToldOwn, Quiet
<1>9. HandedRead'
  BY DEF JudgeInv, HandedRead, Quiet
<1>10. AtRest'
  <2>1. ASSUME NEW m \in Messages, NEW k \in Keys, status'[k[1]] = "success", k[2] = exec'[k[1]]
        PROVE  msg'[m].given[k] # "handing"
    <3>1. k[1] \in Steps
      BY <1>2
    <3>2. CASE status[k[1]] = "success"
      BY <2>1, <3>2 DEF JudgeInv, AtRest, Quiet
    <3>3. CASE status[k[1]] # "success"
      BY <2>1, <3>1, <3>3
    <3> QED
      BY <3>2, <3>3
  <2> QED
    BY <2>1 DEF AtRest
<1>11. JudgesRead'
  <2>1. \A m \in Messages, s \in Steps : Arrived(m, s)' => Arrived(m, s)
    BY <1>6 DEF Arrived, Quiet
  <2> QED
    BY <1>1, <1>2, <2>1 DEF JudgeInv, JudgesRead
<1> QED
  BY <1>7, <1>8, <1>9, <1>10, <1>11 DEF JudgeInv

LEMMA LoopJudges ==
    ASSUME TypeInv, FlowInv, CallInv, MessageInv, JudgeInv, Loop \/ Stop \/ Crash
    PROVE  \/ \E n \in Messages : Accept(n)
           \/ \E s \in Steps : Revise(s)
           \/ JudgeInv'
PROOF
<1> USE DEF kept, offers, loop
<1>1. snap' = snap
  BY LoopKeeps
<1> SUFFICES ASSUME ~\E n \in Messages : Accept(n), ~\E s \in Steps : Revise(s)
             PROVE  JudgeInv'
  OBVIOUS
<1>2. \A m \in Messages : Quiet(msg[m], msg'[m])
  BY LoopSays
<1>3. ASSUME exec' = exec,
             \A t \in Steps : status[t] = "success" <=> status'[t] = "success"
      PROVE  JudgeInv'
  BY <1>1, <1>2, <1>3, QuietJudges
<1>4. CASE EndRun \/ Close \/ Stop \/ Crash
  BY <1>3, <1>4 DEF EndRun, Close, Stop, Crash
<1>5. CASE Seal
  BY <1>3, <1>5, TypeParts DEF Seal
<1>6. CASE \E s \in Steps : Start(s) \/ Quit(s) \/ Wake(s) \/ Park(s)
  <2>1. PICK s \in Steps : Start(s) \/ Quit(s) \/ Wake(s) \/ Park(s)
    BY <1>6
  <2>2. exec' = exec /\ status[s] # "success" /\ status'[s] # "success"
        /\ \A t \in Steps : t # s => status'[t] = status[t]
    <3>1. CASE Park(s)
      <4>1. status[s] = "running"
        BY <3>1, CollectFlow
      <4> QED
        BY <3>1, <4>1, TypeParts DEF Park
    <3>2. CASE Start(s) \/ Wake(s)
      BY <3>2, TypeParts DEF Start, Wake
    <3>3. CASE Quit(s)
      BY <3>3, TypeParts DEF Quit, End
    <3> QED
      BY <2>1, <3>1, <3>2, <3>3
  <2> QED
    BY <1>3, <2>2
<1>7. CASE \E s \in Steps : Record(s)
  <2>1. PICK s \in Steps : Record(s)
    BY <1>7
  <2>2. /\ exec' = exec /\ status[s] = "running" /\ active[s] = exec[s]
        /\ \A t \in Steps : t # s => status'[t] = status[t]
    BY <2>1, CollectFlow
  <2>3. \A m \in Messages : msg'[m] = Finished(msg[m], {s})
    BY <2>1 DEF Record, End
  <2>4. ASSUME NEW m \in Messages, NEW k \in Keys, k[1] = s, k[2] = exec[s]
        PROVE  msg'[m].given[k] # "handing"
    <3>1. Ends(k, {s})
      BY <2>2, <2>4 DEF Ends, Current
    <3>2. msg[m] \in Records /\ Told(msg[m])
      BY TypeParts DEF MessageInv
    <3> QED
      BY <2>3, <3>1, <3>2, FinishedQuiet
  <2> QED
    BY <1>1, <1>2, <2>2, <2>4, QuietJudges
<1> QED
  BY <1>4, <1>5, <1>6, <1>7 DEF Loop

LEMMA NewsJudges ==
    ASSUME TypeInv, CallInv, MessageInv, JudgeInv, NEW n \in Messages, Accept(n) \/ Send(n)
    PROVE  JudgeInv'
PROOF
<1>1. /\ UNCHANGED <<snap, exec, status>>
      /\ msg[n].state \in Unheard /\ msg'[n].given = msg[n].given
      /\ msg'[n].state # "delivered"
      /\ \A k \in Keys : msg[n].given[k] = "no"
      /\ \A m \in Messages : m # n => msg'[m] = msg[m]
  BY NewsSays DEF loop
<1>2. \A c \in snap : c[1] \in Keys /\ c[2] \subseteq Messages /\ n \notin c[2]
  BY <1>1, TypeParts DEF MessageInv
<1>3. DoneBefore'
  BY <1>1 DEF JudgeInv, DoneBefore
<1>4. ToldOwn'
  <2>1. \A m \in Messages : m # n => (OwnDelivered(m)' <=> OwnDelivered(m))
    BY <1>1 DEF OwnDelivered
  <2> QED
    BY <1>1, <1>2, <2>1 DEF JudgeInv, ToldOwn
<1>5. HandedRead'
  BY <1>1 DEF JudgeInv, HandedRead
<1>6. AtRest'
  BY <1>1 DEF JudgeInv, AtRest
<1>7. JudgesRead'
  <2>1. \A m \in Messages, s \in Steps : Arrived(m, s)' => m # n /\ Arrived(m, s)
    BY <1>1 DEF Arrived
  <2>2. \A k \in Keys : k[1] \in Steps
    BY DEF Keys
  <2> QED
    BY <1>1, <1>2, <2>1, <2>2 DEF JudgeInv, JudgesRead
<1> QED
  BY <1>3, <1>4, <1>5, <1>6, <1>7 DEF JudgeInv

LEMMA ResumeJudges ==
    ASSUME TypeInv, CallInv, MessageInv, JudgeInv, Resume
    PROVE  JudgeInv'
PROOF
<1>1. /\ UNCHANGED <<snap, exec>>
      /\ \A t \in Steps : status'[t] = "success" <=> status[t] = "success"
  BY DEF Resume
<1>2. \A c \in snap : c[1] \in Keys /\ c[2] \subseteq Messages
  BY TypeParts
<1>3. \A k \in Keys : k[1] \in Steps
  BY DEF Keys
<1>4. \A s \in Steps : \A u \in Upstream({s}) : u \in Steps /\ u # 0
  BY DEF Upstream, Steps
<1>5. \A m \in Messages : OwnDelivered(m) => OwnDelivered(m)'
  <2>1. ASSUME NEW m \in Messages, NEW k \in Keys, k[1] = msg[m].to, msg[m].given[k] = "delivered"
        PROVE  OwnDelivered(m)'
    <3>1. msg'[m].given[k] = "delivered" /\ msg'[m].to = msg[m].to
      BY <2>1, ResumeSays
    <3> QED
      BY <2>1, <3>1 DEF OwnDelivered
  <2> QED
    BY <2>1 DEF OwnDelivered
<1>6. DoneBefore'
  BY <1>1, <1>2, <1>3, <1>4 DEF JudgeInv, DoneBefore
<1>7. ToldOwn'
  <2>1. ASSUME NEW c \in snap, NEW m \in c[2], msg'[m].to # 0
        PROVE  IF c[1][1] = msg'[m].to THEN c[1][2] = msg'[m].exec ELSE OwnDelivered(m)'
    <3>1. m \in Messages /\ msg'[m].to = msg[m].to /\ msg'[m].exec = msg[m].exec
      BY <1>2, ResumeSays
    <3> QED
      BY <1>5, <2>1, <3>1 DEF JudgeInv, ToldOwn
  <2> QED
    BY <1>1, <2>1 DEF ToldOwn
<1>8. HandedRead' /\ AtRest'
  BY ResumeSays DEF HandedRead, AtRest
<1>9. ASSUME NEW c \in snap, c[1][2] = exec[c[1][1]], NEW m \in Messages, Arrived(m, c[1][1])'
      PROVE  m \in c[2]
  <2>1. /\ msg'[m].to = msg[m].to /\ msg'[m].exec = msg[m].exec /\ Told(msg'[m])
        /\ Told(msg[m]) /\ c[1][1] \in Steps
    BY <1>2, <1>3, ResumeSays DEF MessageInv
  <2>2. /\ msg[m].to \in Upstream({c[1][1]}) /\ msg[m].exec = exec[msg[m].to]
        /\ msg'[m].state = "delivered"
    BY <1>1, <1>9, <2>1 DEF Arrived
  <2>3. SUFFICES Has(msg[m], "delivered")
    <3>1. ASSUME Has(msg[m], "delivered") PROVE Arrived(m, c[1][1])
      BY <2>1, <2>2, <3>1, DeliveredState DEF Arrived
    <3> QED
      BY <1>9, <3>1 DEF JudgeInv, JudgesRead
  <2>4. PICK k \in Keys : msg'[m].given[k] = "delivered"
    BY <2>1, <2>2, DeliveredState DEF Has
  <2>5. CASE msg[m].given[k] # "handing"
    BY <2>4, <2>5, ResumeSays DEF Has
  <2>6. CASE msg[m].given[k] = "handing"
    <3>1. PICK d \in snap : d[1] = k /\ m \in d[2]
      BY <2>6 DEF JudgeInv, HandedRead
    <3>2. msg[m].to \in Steps /\ msg[m].to # 0
      BY <1>4, <2>1, <2>2
    <3>3. CASE k[1] = msg[m].to
      <4>1. k[2] = exec[msg[m].to]
        BY <2>2, <3>1, <3>2, <3>3 DEF JudgeInv, ToldOwn
      <4>2. status[msg[m].to] = "success"
        BY <1>9, <2>2 DEF JudgeInv, DoneBefore
      <4> QED
        BY <2>6, <3>3, <4>1, <4>2 DEF JudgeInv, AtRest
    <3>4. CASE k[1] # msg[m].to
      BY <3>1, <3>2, <3>4 DEF JudgeInv, ToldOwn, OwnDelivered, Has
    <3> QED
      BY <3>3, <3>4
  <2> QED
    BY <2>5, <2>6
<1>10. JudgesRead'
  BY <1>1, <1>9 DEF JudgesRead
<1> QED
  BY <1>6, <1>7, <1>8, <1>10 DEF JudgeInv

\* No point of the execution at hand has before it what is sent back: where it
\* waits for the gate, the gate would have to be done.
LEMMA RevisedApart ==
    ASSUME GateFirst, TypeInv, FlowInv, CallInv, DoneBefore, NEW s \in Steps, Revise(s),
           NEW c \in snap, c[1][2] = exec'[c[1][1]]
    PROVE  /\ c[1][1] \in Steps \ Again(s) /\ c[1][2] = exec[c[1][1]]
           /\ \A u \in Upstream({c[1][1]}) : u \in Steps \ Again(s)
PROOF
<1> DEFINE t == c[1][1]
<1>1. /\ s \in DOMAIN PlanOf /\ PlanOf[s] \in Steps
      /\ s \in Again(s) /\ Again(s) \subseteq Downstream({PlanOf[s]})
      /\ status[s] = "running"
      /\ \A u \in Again(s) : exec'[u] = exec[u] + 1
      /\ \A u \in Steps \ Again(s) : exec'[u] = exec[u]
  BY RevisePath
<1>2. t \in Steps /\ c[1][2] <= exec[t] /\ exec[t] \in Nat
  <2>1. c[1] \in Keys
    BY TypeParts
  <2>2. t \in Steps
    BY <2>1 DEF Keys
  <2> QED
    BY <2>2, TypeParts DEF CallInv, Executions
<1> HIDE DEF t
<1>3. c[1][2] = exec'[t] /\ c[1][1] = t
  BY DEF t
<1>4. t \notin Again(s)
  BY <1>1, <1>2, <1>3
<1>5. c[1][2] = exec[t]
  BY <1>1, <1>2, <1>3, <1>4
<1>6. ASSUME NEW u \in Upstream({t}), u \in Again(s)
      PROVE  FALSE
  <2>1. t \in Downstream({u}) /\ u \in Downstream({PlanOf[s]})
    BY <1>1, <1>2, <1>6, UpstreamIsDownstream
  <2>2. t \in Downstream({PlanOf[s]})
    BY <1>1, <2>1, DownstreamTransitive
  <2>3. t \in Downstream({s})
    BY <1>1, <1>4, <2>2 DEF GateFirst
  <2>4. s \in Upstream({t})
    BY <1>1, <1>4, <2>3, DownstreamIsUpstream
  <2>5. status[s] = "success"
    BY <1>3, <1>5, <2>4 DEF DoneBefore
  <2> QED
    BY <1>1, <2>5
<1>7. Upstream({t}) \subseteq Steps
  BY DEF Upstream
<1> QED
  BY <1>2, <1>3, <1>4, <1>5, <1>6, <1>7

LEMMA ReviseJudges ==
    ASSUME GateFirst, TypeInv, FlowInv, CallInv, MessageInv, JudgeInv, NEW s \in Steps, Revise(s)
    PROVE  JudgeInv'
PROOF
<1>1. UNCHANGED <<snap, msg>>
  BY DEF Revise, Collect
<1>2. /\ \A t \in Steps \ Again(s) : status'[t] = status[t] /\ exec'[t] = exec[t]
      /\ \A t \in Again(s) : status'[t] = "pending"
  BY RevisePath
<1>3. \A c \in snap : c[1][2] = exec'[c[1][1]] =>
          /\ c[1][1] \in Steps \ Again(s) /\ c[1][2] = exec[c[1][1]]
          /\ \A u \in Upstream({c[1][1]}) : u \in Steps \ Again(s)
  BY RevisedApart DEF JudgeInv
<1>4. DoneBefore'
  BY <1>1, <1>2, <1>3 DEF JudgeInv, DoneBefore
<1>5. ToldOwn' /\ HandedRead'
  BY <1>1 DEF JudgeInv, ToldOwn, HandedRead, OwnDelivered
<1>6. AtRest'
  <2>1. \A k \in Keys : k[1] \in Steps
    BY DEF Keys
  <2> QED
    BY <1>1, <1>2, <2>1 DEF JudgeInv, AtRest
<1>7. ASSUME NEW c \in snap, c[1][2] = exec'[c[1][1]], NEW m \in Messages, Arrived(m, c[1][1])'
      PROVE  m \in c[2]
  <2>1. Arrived(m, c[1][1])
    BY <1>1, <1>2, <1>3, <1>7 DEF Arrived
  <2> QED
    BY <1>3, <1>7, <2>1 DEF JudgeInv, JudgesRead
<1>8. JudgesRead'
  BY <1>1, <1>7 DEF JudgesRead
<1> QED
  BY <1>4, <1>5, <1>6, <1>8 DEF JudgeInv

\* A worker that takes a point is the one of a step at work.
LEMMA TakerRuns ==
    ASSUME TypeInv, FlowInv, NEW s \in Steps, work[s].at # "no"
    PROVE  status[s] # "success" /\ (Lives(s) => status[s] = "running" /\ active[s] = exec[s])
BY DEF FlowInv, Lives

LEMMA TakeJudges ==
    ASSUME TypeInv, FlowInv, CallInv, MessageInv, JudgeInv, NEW s \in Steps, Take(s)
    PROVE  JudgeInv'
PROOF
<1>1. /\ UNCHANGED <<msg, status, exec>> /\ work[s].at = "free"
      /\ snap' = snap \/ (/\ Lives(s) /\ Before(s) = {}
                          /\ snap' = snap \cup {<<Key(s), Items(s)>>})
  BY TakeMoves DEF Take, loop
<1>2. HandedRead' /\ AtRest'
  BY <1>1 DEF JudgeInv, HandedRead, AtRest
<1>3. CASE snap' = snap
  BY <1>1, <1>2, <1>3 DEF JudgeInv, DoneBefore, ToldOwn, JudgesRead, OwnDelivered, Arrived
<1>4. CASE Lives(s) /\ Before(s) = {} /\ snap' = snap \cup {<<Key(s), Items(s)>>}
  <2>1. status[s] = "running" /\ active[s] = exec[s] /\ Key(s)[1] = s /\ Key(s)[2] = exec[s]
    BY <1>1, <1>4, TakerRuns DEF Key
  <2>2. Items(s) = {m \in Messages : Applies(m, s)}
    BY <1>4 DEF Items
  <2>3. DoneBefore'
    BY <1>1, <1>4, <2>1, DoneAbove DEF JudgeInv, DoneBefore
  <2>4. ASSUME NEW m \in Items(s), msg[m].to # 0
        PROVE  IF s = msg[m].to THEN exec[s] = msg[m].exec ELSE OwnDelivered(m)
    <3>1. CASE msg[m].to = s /\ msg[m].exec = active[s]
      BY <2>1, <3>1
    <3>2. CASE msg[m].to \in Earlier[s] /\ \E k \in Keys : k[1] = msg[m].to /\ msg[m].given[k] = "delivered"
      <4>1. msg[m].to # s
        BY <3>2 DEF Earlier, Upstream
      <4> QED
        BY <3>2, <4>1 DEF OwnDelivered
    <3> QED
      BY <2>2, <2>4, <3>1, <3>2 DEF Applies
  <2>5. ToldOwn'
    BY <1>1, <1>4, <2>1, <2>4 DEF JudgeInv, ToldOwn, OwnDelivered
  <2>6. ASSUME NEW m \in Messages, Arrived(m, s) PROVE m \in Items(s)
    <3>1. msg[m].to \in Earlier[s] /\ msg[m].to # 0
      BY <2>6 DEF Arrived, Earlier, Upstream, Steps
    <3>2. PICK k \in Keys : msg[m].given[k] = "delivered"
      BY <2>6, DeliveredState DEF Arrived, MessageInv, Has
    <3>3. OwnDelivered(m)
      BY <3>1, <3>2, DeliveredOwn DEF JudgeInv
    <3> QED
      BY <2>2, <2>6, <3>1, <3>3 DEF Applies, Arrived, OwnDelivered
  <2>7. JudgesRead'
    <3>1. \A m \in Messages : \A t : Arrived(m, t)' <=> Arrived(m, t)
      BY <1>1 DEF Arrived
    <3>2. ASSUME NEW c \in snap', c[1][2] = exec'[c[1][1]], NEW m \in Messages, Arrived(m, c[1][1])
          PROVE  m \in c[2]
      <4>1. CASE c \in snap
        BY <1>1, <3>2, <4>1 DEF JudgeInv, JudgesRead
      <4>2. CASE c = <<Key(s), Items(s)>>
        BY <2>1, <2>6, <3>2, <4>2
      <4> QED
        BY <1>4, <4>1, <4>2
    <3> QED
      BY <3>1, <3>2 DEF JudgesRead
  <2> QED
    BY <1>2, <2>3, <2>5, <2>7 DEF JudgeInv
<1> QED
  BY <1>1, <1>3, <1>4

LEMMA WorkerJudges ==
    ASSUME TypeInv, FlowInv, CallInv, MessageInv, JudgeInv, NEW s \in Steps, Worker(s)
    PROVE  JudgeInv'
PROOF
<1>1. CASE Take(s)
  BY <1>1, TakeJudges
<1>2. CASE snap' = snap
  <2>1. UNCHANGED <<status, exec>> /\ work[s].at # "no" /\ status[s] # "success"
    BY WorkerMoves, TakerRuns DEF Moves
  <2>2. \A c \in snap : c[1] \in Keys /\ c[2] \subseteq Messages /\ c[1][1] \in Steps
    BY TypeParts DEF Keys
  <2>3. \A m \in Messages : OwnDelivered(m) => OwnDelivered(m)'
    <3>1. ASSUME NEW m \in Messages, NEW k \in Keys, k[1] = msg[m].to, msg[m].given[k] = "delivered"
          PROVE  OwnDelivered(m)'
      <4>1. msg'[m].given[k] = "delivered" /\ msg'[m].to = msg[m].to
        BY <3>1, WorkerSays
      <4> QED
        BY <3>1, <4>1 DEF OwnDelivered
    <3> QED
      BY <3>1 DEF OwnDelivered
  <2>4. DoneBefore'
    BY <1>2, <2>1 DEF JudgeInv, DoneBefore
  <2>5. ToldOwn'
    <3>1. ASSUME NEW c \in snap, NEW m \in c[2], msg'[m].to # 0
          PROVE  IF c[1][1] = msg'[m].to THEN c[1][2] = msg'[m].exec ELSE OwnDelivered(m)'
      <4>1. m \in Messages /\ msg'[m].to = msg[m].to /\ msg'[m].exec = msg[m].exec
        BY <2>2, WorkerSays
      <4> QED
        BY <2>3, <3>1, <4>1 DEF JudgeInv, ToldOwn
    <3> QED
      BY <1>2, <3>1 DEF ToldOwn
  <2>6. ASSUME NEW m \in Messages, NEW k \in Keys, msg'[m].given[k] = "handing"
        PROVE  /\ \E c \in snap : c[1] = k /\ m \in c[2]
               /\ ~(status[k[1]] = "success" /\ k[2] = exec[k[1]])
    <3>1. CASE msg[m].given[k] = "handing"
      BY <3>1 DEF JudgeInv, HandedRead, AtRest
    <3>2. CASE k = Key(s) /\ m \in work[s].items /\ work[s].recorded
      <4>1. Call(s) \in snap
        BY <3>2 DEF CallInv, CallsOf
      <4> QED
        BY <2>1, <3>2, <4>1 DEF Call, Key
    <3> QED
      BY <2>6, <3>1, <3>2, WorkerSays
  <2>7. HandedRead' /\ AtRest'
    BY <1>2, <2>1, <2>6 DEF HandedRead, AtRest
  <2>8. ASSUME NEW c \in snap, c[1][2] = exec[c[1][1]], NEW m \in Messages, Arrived(m, c[1][1])'
        PROVE  m \in c[2]
    <3>1. /\ msg[m].to \in Upstream({c[1][1]}) /\ msg[m].exec = exec[msg[m].to]
          /\ msg'[m].state = "delivered" /\ Told(msg'[m]) /\ Told(msg[m])
      <4>1. msg'[m].to = msg[m].to /\ msg'[m].exec = msg[m].exec /\ Told(msg'[m])
        BY WorkerSays
      <4> QED
        BY <2>1, <2>8, <4>1 DEF Arrived, MessageInv
    <3>2. msg[m].to \in Steps /\ msg[m].to # 0 /\ status[msg[m].to] = "success"
      BY <2>8, <3>1 DEF JudgeInv, DoneBefore, Upstream, Steps
    <3>3. PICK k \in Keys : msg'[m].given[k] = "delivered"
      BY <3>1, DeliveredState DEF Has
    <3>4. Has(msg[m], "delivered")
      <4>1. CASE msg[m].given[k] = "delivered"
        BY <4>1 DEF Has
      <4>2. CASE k = Key(s) /\ m \in work[s].items /\ work[s].recorded
        <5>1. Call(s) \in snap /\ Call(s)[1][1] = s /\ m \in Call(s)[2]
          BY <4>2 DEF CallInv, CallsOf, Call, Key
        <5>2. s # msg[m].to
          BY <2>1, <3>2
        <5> QED
          BY <3>2, <5>1, <5>2 DEF JudgeInv, ToldOwn, OwnDelivered, Has
      <4> QED
        BY <3>3, <4>1, <4>2, WorkerSays
    <3>5. Arrived(m, c[1][1])
      BY <3>1, <3>4, DeliveredState DEF Arrived
    <3> QED
      BY <2>8, <3>5 DEF JudgeInv, JudgesRead
  <2>9. JudgesRead'
    BY <1>2, <2>1, <2>8 DEF JudgesRead
  <2> QED
    BY <2>4, <2>5, <2>7, <2>9 DEF JudgeInv
<1> QED
  BY <1>1, <1>2, WorkerCalls

-----------------------------------------------------------------------------
(* The theorems.                                                           *)

IInv == TypeInv /\ FlowInv /\ CallInv /\ MessageInv /\ ClosedInv

LEMMA InitInv == Init => IInv /\ JudgeInv
PROOF
<1> SUFFICES ASSUME Init PROVE IInv /\ JudgeInv
  OBVIOUS
<1>1. TypeInv
  BY InitType
<1>2. \A s \in Steps : work[s].at = "no" /\ ~work[s].recorded
  BY DEF Init, Idle
<1>3. /\ pc = "going" /\ ~closed /\ snap = {} /\ begun = {} /\ complete = {}
      /\ \A s \in Steps : status[s] = "pending" /\ active[s] = 0
      /\ \A m \in Messages : msg[m].state = "none" /\ \A k \in Keys : msg[m].given[k] = "no"
  BY DEF Init
<1>4. FlowInv
  BY <1>2, <1>3 DEF FlowInv, PhaseInv
<1>5. CallInv
  BY <1>2, <1>3 DEF CallInv, CallsOf, AtPoint
<1>6. MessageInv
  BY <1>2, <1>3 DEF MessageInv, Told, Unheard
<1>7. ClosedInv
  BY <1>3 DEF ClosedInv
<1>8. JudgeInv
  BY <1>3 DEF JudgeInv, DoneBefore, ToldOwn, HandedRead, AtRest, JudgesRead
<1> QED
  BY <1>1, <1>4, <1>5, <1>6, <1>7, <1>8 DEF IInv

LEMMA InvStep == IInv /\ [Next]_vars => IInv'
PROOF
<1> SUFFICES ASSUME IInv, [Next]_vars PROVE IInv'
  OBVIOUS
<1> USE DEF IInv
<1>1. CASE Next
  <2>1. ASSUME NEW s \in Steps, Worker(s) PROVE IInv'
    <3>1. ClosedInv'
      BY <1>1, ClosedStep
    <3> QED
      BY <2>1, <3>1, WorkerType, WorkerFlow, WorkerCallInv, WorkerMessageInv
  <2>2. CASE Loop \/ Stop \/ Crash \/ Resume \/ \E m \in Messages : Send(m)
    <3>1. TypeInv' /\ FlowInv' /\ CallInv'
      BY <2>2, LoopType, LoopFlow, LoopCallInv
    <3>2. MessageInv'
      BY <2>2, LoopMessageInv, ResumeMessageInv, NewsMessageInv
    <3>3. ClosedInv'
      BY <1>1, ClosedStep
    <3> QED
      BY <3>1, <3>2, <3>3
  <2> QED
    BY <1>1, <2>1, <2>2 DEF Next
<1>2. CASE UNCHANGED vars
  <2> USE <1>2 DEF vars, kept, offers, loop
  <2>1. TypeInv'
    BY DEF TypeInv, TypeOK
  <2>2. FlowInv'
    BY DEF FlowInv, PhaseInv
  <2>3. CallInv'
    <3>1. \A s \in Steps : CallsOf(s) => CallsOf(s)'
      BY DEF CallsOf, Call, Key
    <3> QED
      BY <3>1 DEF CallInv
  <2>4. MessageInv'
    BY DEF MessageInv, Key
  <2>5. ClosedInv'
    BY DEF ClosedInv
  <2> QED
    BY <2>1, <2>2, <2>3, <2>4, <2>5
<1> QED
  BY <1>1, <1>2

LEMMA JudgeStep == GateFirst /\ IInv /\ JudgeInv /\ [Next]_vars => JudgeInv'
PROOF
<1> SUFFICES ASSUME GateFirst, IInv, JudgeInv, [Next]_vars PROVE JudgeInv'
  OBVIOUS
<1> USE DEF IInv
<1>1. ASSUME NEW s \in Steps, Worker(s) PROVE JudgeInv'
  BY <1>1, WorkerJudges
<1>2. ASSUME NEW m \in Messages, Send(m) \/ Accept(m) PROVE JudgeInv'
  BY <1>2, NewsJudges
<1>3. CASE Resume
  BY <1>3, ResumeJudges
<1>4. ASSUME NEW s \in Steps, Revise(s) PROVE JudgeInv'
  BY <1>4, ReviseJudges
<1>5. CASE Loop \/ Stop \/ Crash
  BY <1>2, <1>4, <1>5, LoopJudges
<1>6. CASE UNCHANGED vars
  BY <1>6 DEF vars, kept, offers, loop, JudgeInv, DoneBefore, ToldOwn, HandedRead, AtRest, JudgesRead,
              OwnDelivered, Arrived
<1> QED
  BY <1>1, <1>2, <1>3, <1>5, <1>6 DEF Next

\* The inductive invariant holds in every state: types, the flow of steps, and
\* what snapshots, calls and messages have to do with each other.
THEOREM InvAlways == Spec => []IInv
PROOF
<1>1. Init => IInv
  BY InitInv
<1> QED
  BY <1>1, InvStep, PTL DEF Spec

\* What a run keeps has the types it is declared with.
THEOREM TypeCorrect == Spec => []TypeOK
PROOF
<1>1. IInv => TypeOK
  BY DEF IInv, TypeInv
<1> QED
  BY <1>1, InvAlways, PTL

\* No point of an execution is called with two inputs: the snapshot of a point
\* is taken once (`take`), saved before it is used, and every call is made with it.
THEOREM PaidOnceHolds == Spec => []PaidOnce
PROOF
<1>1. IInv => PaidOnce
  BY DEF IInv, CallInv, PaidOnce
<1> QED
  BY <1>1, InvAlways, PTL

\* Over every crash and resume, a message that reads delivered at a point was
\* in the input of a call answered there, and one that is said not to have
\* arrived was in none: a call that was made leaves its messages delivered or
\* uncertain (`finish`, `seal`, `load`). Which calls leave "uncertain" is not
\* said.
THEOREM WordsHonestHolds == Spec => []WordsHonest
PROOF
<1>1. IInv => WordsHonest
  <2> SUFFICES ASSUME IInv, NEW m \in Messages
               PROVE  /\ \A k \in Keys : msg[m].given[k] = "delivered" =>
                             \E c \in complete : c[1] = k /\ m \in c[2]
                      /\ msg[m].state \in {"rejected", "undelivered"} /\ ~Has(msg[m], "handing") =>
                             \A c \in begun \cup complete : m \notin c[2]
    BY DEF WordsHonest
  <2>1. Told(msg[m]) /\ MessageInv
    BY DEF IInv, MessageInv
  <2>2. ASSUME msg[m].state \in {"rejected", "undelivered"}, ~Has(msg[m], "handing"),
               NEW c \in begun \cup complete, m \in c[2]
        PROVE  FALSE
    <3>1. c[1] \in Keys
      BY TypeParts DEF IInv
    <3>2. msg[m].given[c[1]] \in {"delivered", "uncertain"}
      BY <2>1, <2>2, <3>1 DEF MessageInv, Taken, Has
    <3> QED
      BY <2>1, <2>2, <3>1, <3>2 DEF Told, Has, Unheard
  <2> QED
    BY <2>1, <2>2 DEF MessageInv
<1> QED
  BY <1>1, InvAlways, PTL

\* Nothing is left waiting by a run that is over, but in a call that a worker
\* which outlived the run has bound.
THEOREM ClosedAtEndHolds == Spec => []ClosedAtEnd
PROOF
<1>1. IInv => ClosedAtEnd
  BY DEF IInv, FlowInv, PhaseInv, ClosedInv, LastWord, ClosedAtEnd
<1> QED
  BY <1>1, InvAlways, PTL

\* Where whatever depends on a plan waits for the gate that may send it back, a
\* point reads all that arrived at the work it judges.
THEOREM JudgesKnowHolds ==
    ASSUME GateFirst
    PROVE  Spec => []JudgesKnow
PROOF
<1>1. Init => JudgeInv
  BY InitInv
<1>2. IInv /\ JudgeInv /\ [Next]_vars => JudgeInv'
  BY JudgeStep
<1>3. IInv /\ JudgeInv => JudgesKnow
  <2> SUFFICES ASSUME IInv, JudgeInv, NEW s \in Steps, work[s].recorded, NEW m \in Messages,
                      msg[m].to \in Earlier[s] /\ msg[m].exec = exec[msg[m].to],
                      msg[m].state = "delivered"
               PROVE  m \in work[s].items
    BY DEF JudgesKnow
  <2>1. Call(s) \in snap
    BY DEF IInv, CallInv, CallsOf
  <2>2. Call(s)[1][1] = s /\ Call(s)[1][2] = exec[s] /\ Call(s)[2] = work[s].items
    BY DEF Call, Key
  <2>3. Arrived(m, s)
    BY DEF Arrived, Earlier
  <2> QED
    BY <2>1, <2>2, <2>3 DEF JudgeInv, JudgesRead
<1> QED
  BY <1>1, <1>2, <1>3, InvAlways, PTL DEF Spec
=============================================================================
