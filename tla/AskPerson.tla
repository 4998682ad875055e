----------------------------- MODULE AskPerson ------------------------------
(***************************************************************************)
(* A question to a person (cycle/ask.py). The step's worker thread opens a *)
(* slot and waits on its event, polling the token of its step; the control *)
(* thread stores an answer in the slot and then sets the event. When the   *)
(* time of a question is up is nobody's choice here, so it may be at any   *)
(* poll.                                                                   *)
(*                                                                         *)
(* Each asking is a question of its own. Text and rows that come with an   *)
(* answer, requests to revise a plan, the release of the questions left    *)
(* when the program ends, and a run without a control channel (which is    *)
(* not answered at once) are left out.                                     *)
(***************************************************************************)
EXTENDS Naturals, FiniteSets

CONSTANTS
    Questions,
    Auto        \* questions that answer "yes" by themselves when time is up

Answers == {"yes", "no", "dismissed"}
Results == [answered : BOOLEAN, answer : {"yes", "no", "none"}, automatic : BOOLEAN]

VARIABLES
    token,    \* whether the step is told to stop
    at,       \* question -> where the thread that asked is
    slot,     \* question -> the answer stored for it
    opened,   \* _pending: questions an answer may still be stored for
    event,    \* questions whose event is set
    giving,   \* what deliver stored an answer for, and has not set the event of
    result,   \* question -> what ask returned
    told      \* question -> answers that deliver said were wanted

askVars == <<at, slot, opened, event, giving, result, told>>

NoAnswer == [answered |-> FALSE, answer |-> "none", automatic |-> FALSE]

AskInit ==
    /\ at = [q \in Questions |-> "no"] /\ slot = [q \in Questions |-> "none"]
    /\ opened = {} /\ event = {} /\ giving = {}
    /\ result = [q \in Questions |-> NoAnswer] /\ told = [q \in Questions |-> {}]

-----------------------------------------------------------------------------
(* The thread that asks.                                                   *)

Ask(q) ==
    /\ at[q] = "no"
    /\ at' = [at EXCEPT ![q] = "waiting"] /\ opened' = opened \cup {q}
    /\ UNCHANGED <<token, slot, event, giving, result, told>>

Goes(q, from, to) ==
    /\ at[q] = from
    /\ at' = [at EXCEPT ![q] = to]
    /\ UNCHANGED <<token, slot, opened, event, giving, result, told>>

\* _wait: the event, or a tenth of a second without it.
Wake(q) == q \in event /\ Goes(q, "waiting", "woken")
Poll(q) == q \notin event /\ Goes(q, "waiting", "polled")

\* Then the token; then another tenth, or a last look at the event.
NoticeStop(q) == token /\ Goes(q, "polled", "stopped")
WaitOn(q) == ~token /\ Goes(q, "polled", "waiting")
TimeUp(q) == ~token /\ Goes(q, "polled", IF q \in event THEN "woken" ELSE "late")

\* Mutant: whatever ends the wait in time is read as the answer.
OutcomeIfWoken(q) ==
    IF at[q] = "woken" THEN [answered |-> TRUE, answer |-> IF slot[q] = "no" THEN "no" ELSE "yes",
                             automatic |-> FALSE]
    ELSE NoAnswer

\* What came, if it came in time; else nothing in a stopped run; else `auto`.
Outcome(q) ==
    IF at[q] = "woken" THEN [answered |-> slot[q] \in {"yes", "no"},
                             answer |-> IF slot[q] \in {"yes", "no"} THEN slot[q] ELSE "none",
                             automatic |-> FALSE]
    ELSE IF token \/ q \notin Auto THEN NoAnswer
    ELSE [answered |-> TRUE, answer |-> "yes", automatic |-> TRUE]

Finish(q) ==
    /\ at[q] \in {"woken", "stopped", "late"}
    /\ opened' = opened \ {q}
    /\ result' = [result EXCEPT ![q] = Outcome(q)]
    /\ at' = [at EXCEPT ![q] = "done"]
    /\ UNCHANGED <<token, slot, event, giving, told>>

Waiter(q) == Wake(q) \/ Poll(q) \/ NoticeStop(q) \/ WaitOn(q) \/ TimeUp(q) \/ Finish(q)

-----------------------------------------------------------------------------
(* The control thread.                                                     *)

\* deliver, under the lock: True to whoever sent it.
Deliver(q, answer) ==
    /\ giving = {} /\ q \in opened
    /\ slot' = [slot EXCEPT ![q] = answer]
    /\ giving' = {q}
    /\ told' = [told EXCEPT ![q] = @ \cup {answer}]
    /\ UNCHANGED <<token, at, opened, event, result>>

\* Mutant: an answer is stored and its event is not set.
GivenSilently == event

Given == event \cup giving

\* deliver, after the lock.
SetEvent ==
    /\ giving # {}
    /\ event' = Given /\ giving' = {}
    /\ UNCHANGED <<token, at, slot, opened, result, told>>

-----------------------------------------------------------------------------
AskTypeOK ==
    /\ token \in BOOLEAN
    /\ at \in [Questions -> {"no", "waiting", "polled", "woken", "stopped", "late", "done"}]
    /\ slot \in [Questions -> Answers \cup {"none"}]
    /\ opened \subseteq Questions /\ event \subseteq Questions
    /\ giving \subseteq Questions
    /\ result \in [Questions -> Results] /\ told \in [Questions -> SUBSET Answers]
=============================================================================
