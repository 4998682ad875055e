------------------------ MODULE ExecutionStoreProofs ------------------------
(***************************************************************************)
(* What is proved of ExecutionStore for every cycle, every number of       *)
(* resumes, and every write that may fail: the types, that work is on disk *)
(* before it begins, and that a paid call is begun again only knowingly.   *)
(* Where no write fails, also that nobody works beside a worker that an    *)
(* earlier process left behind.                                            *)
(*                                                                         *)
(* The invariant follows the lists of writes. What a list still holds is   *)
(* said by position only where a list ends; the rest is said of the        *)
(* writes that are left, whatever their order.                             *)
(***************************************************************************)
EXTENDS ExecutionStore, SequenceTheorems, TLAPS

Whats == {"receipt", "summary", "journal", "unlink", "adopt", "work", "raise"}
Ops == [what : Whats, of : SUBSET Steps]

\* t still holds a write of this kind, or one of this kind about s.
Has(t, what) == \E i \in 1..Len(t) : t[i].what = what
Names(t, what, s) == \E i \in 1..Len(t) : t[i].what = what /\ s \in t[i].of

\* Only the last thing in t starts a worker, unlinks the journal, or raises.
Final == {"work", "unlink", "raise"}
Ends(t) == \A i \in 1..Len(t) : t[i].what \in Final => i = Len(t)

\* Where a process has the run in memory, and where its start is over.
Holding == {"starting", "up", "stopping", "ending", "resolving", "closing"}
Past == {"up", "stopping", "ending", "resolving", "closing"}

-----------------------------------------------------------------------------
(* The inductive invariant, in four parts.                                 *)

TypeInv ==
    /\ TypeOK
    /\ todo \in Seq(Ops)
    /\ pc \in Holding => mem # Nothing
    /\ todo # <<>> => draft # Nothing
    /\ pc \in Past \cup {"replaying"} => summary # Nothing
    /\ summary = Nothing => journal = Nothing

\* What a list of writes can look like, by where its process is.
ListInv ==
    /\ Ends(todo)
    /\ Has(todo, "journal") => Has(todo, "unlink")
    /\ Has(todo, "work") => pc = "up"
    /\ Has(todo, "adopt") => pc = "up"
    /\ Has(todo, "raise") => pc \in {"up", "stopping", "ending"}
    /\ Has(todo, "journal") => pc \in {"up", "starting"}
    /\ Has(todo, "unlink") => pc \in {"up", "starting", "replaying"}
    /\ Has(todo, "unlink") => summary # Nothing
    /\ Has(todo, "receipt") => pc # "closing"
    /\ pc = "down" => todo = <<>>

\* No save lets the number of resumes fall, and no call is ahead of it.
SavedEpoch == IF summary = Nothing THEN 0 ELSE summary.epoch

EpochInv ==
    /\ \A s \in Steps, r \in 0..MaxRevisions : calls[s][r].epoch <= SavedEpoch
    /\ journal # Nothing => SavedEpoch <= journal.doc.epoch
    /\ pc \in Holding => SavedEpoch <= mem.epoch
    /\ todo # <<>> => SavedEpoch <= draft.epoch
    /\ pc \in Past => /\ SavedEpoch = mem.epoch
                      /\ todo # <<>> => draft.epoch = mem.epoch
    /\ pc = "starting" => /\ todo # <<>> => draft = mem
                          /\ ~Has(todo, "summary") => summary # Nothing /\ SavedEpoch = mem.epoch
                          /\ journal # Nothing => journal.doc.epoch = mem.epoch
    /\ pc = "replaying" => /\ LoadedSummary.epoch < MaxResumes
                           /\ Has(todo, "unlink") <=> journal # Nothing
                           /\ todo # <<>> => Has(todo, "unlink") /\ draft = journal.doc
                           /\ todo # <<>> /\ ~Has(todo, "summary") => summary = draft

\* A worker's receipt says "running", and nothing that is still to be written
\* or replayed says otherwise.
OnDisk(s) == receipt[s] # Nothing /\ receipt[s].status = "running"

WorkInv ==
    /\ \A s \in Steps : live[s] # "no" =>
            /\ pc \in Past
            /\ OnDisk(s)
            /\ mem.steps[s].status \in {"running", "cancelled"}
            /\ journal # Nothing => s \notin journal.changed
            /\ ~Names(todo, "receipt", s) /\ ~Names(todo, "journal", s)
            /\ Has(todo, "adopt") => draft.steps[s] = mem.steps[s]
    /\ \A s \in Steps : Names(todo, "work", s) =>
            /\ draft.steps[s].status = "running" /\ mem = draft
            /\ Names(todo, "receipt", s) \/ OnDisk(s)
    /\ pc \in {"up", "stopping"} /\ ~Has(todo, "unlink") => journal = Nothing
    /\ pc = "starting" /\ ~Has(todo, "unlink") => journal = Nothing

Inv == TypeInv /\ ListInv /\ EpochInv /\ WorkInv

-----------------------------------------------------------------------------
(* Lists of writes.                                                        *)

LEMMA OpType ==
    ASSUME NEW what \in Whats, NEW S \in SUBSET Steps
    PROVE  Op(what, S) \in Ops /\ Op(what, S).what = what /\ Op(what, S).of = S
BY DEF Op, Ops

\* What is left after the first write.
LEMMA TailFacts ==
    ASSUME NEW t \in Seq(Ops), t # <<>>
    PROVE  /\ Head(t) \in Ops /\ Tail(t) \in Seq(Ops)
           /\ \A w : Has(t, w) <=> Head(t).what = w \/ Has(Tail(t), w)
           /\ \A w, s : Names(t, w, s) <=>
                (Head(t).what = w /\ s \in Head(t).of) \/ Names(Tail(t), w, s)
           /\ Ends(t) => Ends(Tail(t)) /\ (Head(t).what \in Final => Tail(t) = <<>>)
<1>1. /\ Head(t) = t[1] /\ Head(t) \in Ops /\ Tail(t) \in Seq(Ops)
      /\ Len(t) \in Nat \ {0} /\ Len(Tail(t)) = Len(t) - 1
      /\ \A i \in 1..Len(Tail(t)) : Tail(t)[i] = t[i + 1]
    BY HeadTailProperties
<1>2. \A i \in 1..Len(t) : i = 1 \/ (i - 1 \in 1..Len(Tail(t)) /\ t[i] = Tail(t)[i - 1])
    BY <1>1
<1>3. \A i \in 1..Len(Tail(t)) : i + 1 \in 1..Len(t) /\ t[i + 1] = Tail(t)[i]
    BY <1>1
<1>4. 1 \in 1..Len(t)
    BY <1>1
<1>5. \A w : Has(t, w) <=> Head(t).what = w \/ Has(Tail(t), w)
    BY <1>1, <1>2, <1>3, <1>4 DEF Has
<1>6. \A w, s : Names(t, w, s) <=>
        (Head(t).what = w /\ s \in Head(t).of) \/ Names(Tail(t), w, s)
    BY <1>1, <1>2, <1>3, <1>4 DEF Names
<1>7. ASSUME Ends(t) PROVE Ends(Tail(t))
    <2>1. ASSUME NEW i \in 1..Len(Tail(t)), Tail(t)[i].what \in Final PROVE i = Len(Tail(t))
        <3>1. i + 1 \in 1..Len(t) /\ t[i + 1].what \in Final
            BY <2>1, <1>3
        <3>2. i + 1 = Len(t)
            BY <3>1, <1>7 DEF Ends
        <3> QED BY <3>2, <1>1
    <2> QED BY <2>1 DEF Ends
<1>8. ASSUME Ends(t), Head(t).what \in Final PROVE Tail(t) = <<>>
    <2>1. Len(t) = 1
        BY <1>8, <1>1, <1>4 DEF Ends
    <2>2. Len(Tail(t)) = 0 /\ Tail(t) \in Seq(Ops)
        BY <2>1, <1>1
    <2> QED BY <2>2, EmptySeq
<1> QED BY <1>1, <1>5, <1>6, <1>7, <1>8

LEMMA NothingLeft == Ends(<<>>) /\ (\A w : ~Has(<<>>, w)) /\ (\A w, s : ~Names(<<>>, w, s))
BY DEF Ends, Has, Names

LEMMA OneWrite ==
    ASSUME NEW a \in Ops
    PROVE  /\ <<a>> \in Seq(Ops) /\ Ends(<<a>>) /\ <<a>> # <<>>
           /\ \A w : Has(<<a>>, w) <=> a.what = w
           /\ \A w, s : Names(<<a>>, w, s) <=> a.what = w /\ s \in a.of
BY DEF Ends, Has, Names

\* A list that ends in another one.
LEMMA ConcatFacts ==
    ASSUME NEW a \in Seq(Ops), NEW b \in Seq(Ops)
    PROVE  /\ a \o b \in Seq(Ops)
           /\ \A w : Has(a \o b, w) <=> Has(a, w) \/ Has(b, w)
           /\ \A w, s : Names(a \o b, w, s) <=> Names(a, w, s) \/ Names(b, w, s)
           /\ (\A w \in Final : ~Has(a, w)) /\ Ends(b) => Ends(a \o b)
           /\ a # <<>> \/ b # <<>> => a \o b # <<>>
<1>1. /\ a \o b \in Seq(Ops) /\ Len(a) \in Nat /\ Len(b) \in Nat
      /\ Len(a \o b) = Len(a) + Len(b)
      /\ \A i \in 1..Len(a) + Len(b) :
            (a \o b)[i] = IF i <= Len(a) THEN a[i] ELSE b[i - Len(a)]
    BY ConcatProperties
<1> DEFINE c == a \o b
<1>2. \A i \in 1..Len(a) : i \in 1..Len(c) /\ c[i] = a[i]
    BY <1>1
<1>3. \A i \in 1..Len(b) : Len(a) + i \in 1..Len(c) /\ c[Len(a) + i] = b[i]
    BY <1>1
<1>4. \A i \in 1..Len(c) : \/ i \in 1..Len(a) /\ c[i] = a[i]
                           \/ i - Len(a) \in 1..Len(b) /\ c[i] = b[i - Len(a)]
    BY <1>1
<1>5. Len(c) = Len(a) + Len(b)
    BY <1>1
<1> HIDE DEF c
<1>6. \A w : Has(c, w) <=> Has(a, w) \/ Has(b, w)
    BY <1>2, <1>3, <1>4 DEF Has
<1>7. \A w, s : Names(c, w, s) <=> Names(a, w, s) \/ Names(b, w, s)
    BY <1>2, <1>3, <1>4 DEF Names
<1>8. ASSUME \A w \in Final : ~Has(a, w), Ends(b), NEW i \in 1..Len(c), c[i].what \in Final
      PROVE  i = Len(c)
    <2>1. ~(i \in 1..Len(a) /\ c[i] = a[i])
        BY <1>8 DEF Has
    <2>2. i - Len(a) \in 1..Len(b) /\ c[i] = b[i - Len(a)]
        BY <2>1, <1>4
    <2>3. i - Len(a) = Len(b)
        BY <2>2, <1>8 DEF Ends
    <2> QED BY <2>3, <1>1, <1>5
<1>9. a # <<>> \/ b # <<>> => c # <<>>
    BY <1>1, <1>5, EmptySeq
<1>10. (\A w \in Final : ~Has(a, w)) /\ Ends(b) => Ends(c)
    BY <1>8 DEF Ends
<1> QED BY <1>1, <1>6, <1>7, <1>9, <1>10 DEF c

\* The lists the handlers leave behind.
LEMMA SummaryList ==
    LET t == <<Op("summary", {})>>
    IN  /\ t \in Seq(Ops) /\ Ends(t) /\ t # <<>>
        /\ \A w : Has(t, w) <=> w = "summary"
        /\ \A w, s : ~Names(t, w, s)
<1>1. Op("summary", {}) \in Ops /\ Op("summary", {}).what = "summary" /\ Op("summary", {}).of = {}
    BY OpType DEF Whats
<1> QED BY <1>1, OneWrite

LEMMA MaterializeList ==
    ASSUME NEW S \in SUBSET Steps
    PROVE  LET t == Materialize(S)
           IN  /\ t \in Seq(Ops) /\ Ends(t) /\ t # <<>>
               /\ \A w : Has(t, w) <=> w \in {"receipt", "summary"}
               /\ \A w, s : Names(t, w, s) <=> w = "receipt" /\ s \in S
<1> DEFINE r == Op("receipt", S)
           m == Op("summary", {})
<1>1. /\ r \in Ops /\ r.what = "receipt" /\ r.of = S
      /\ m \in Ops /\ m.what = "summary" /\ m.of = {}
    BY OpType DEF Whats
<1>2. Materialize(S) = <<r, m>>
    BY DEF Materialize
<1> HIDE DEF r, m
<1>3. <<r, m>> \in Seq(Ops) /\ <<r, m>> # <<>>
    BY <1>1
<1>4. \A w : Has(<<r, m>>, w) <=> r.what = w \/ m.what = w
    BY DEF Has
<1>5. \A w, s : Names(<<r, m>>, w, s) <=> (r.what = w /\ s \in r.of) \/ (m.what = w /\ s \in m.of)
    BY DEF Names
<1>6. Ends(<<r, m>>)
    BY <1>1 DEF Ends, Final
<1> QED BY <1>1, <1>2, <1>3, <1>4, <1>5, <1>6

LEMMA PublishList ==
    ASSUME NEW S \in SUBSET Steps
    PROVE  LET t == Publish(S)
           IN  /\ t \in Seq(Ops) /\ Ends(t) /\ t # <<>>
               /\ \A w : Has(t, w) <=> w \in {"journal", "receipt", "summary"}
               /\ \A w, s : Names(t, w, s) <=> w \in {"journal", "receipt"} /\ s \in S
<1> DEFINE j == Op("journal", S)
<1>1. j \in Ops /\ j.what = "journal" /\ j.of = S
    BY OpType DEF Whats
<1>2. Publish(S) = <<j>> \o Materialize(S)
    BY DEF Publish
<1> HIDE DEF j
<1>3. /\ <<j>> \in Seq(Ops) /\ <<j>> # <<>>
      /\ \A w : Has(<<j>>, w) <=> w = "journal"
      /\ \A w, s : Names(<<j>>, w, s) <=> w = "journal" /\ s \in S
    BY <1>1, OneWrite
<1>4. \A w \in Final : ~Has(<<j>>, w)
    BY <1>3 DEF Final
<1>5. Materialize(S) \in Seq(Ops) /\ Ends(Materialize(S))
    BY MaterializeList
<1> DEFINE u == <<j>> \o Materialize(S)
<1>6. /\ u \in Seq(Ops) /\ Ends(u) /\ u # <<>>
      /\ \A w : Has(u, w) <=> Has(<<j>>, w) \/ Has(Materialize(S), w)
      /\ \A w, s : Names(u, w, s) <=> Names(<<j>>, w, s) \/ Names(Materialize(S), w, s)
    BY <1>3, <1>4, <1>5, ConcatFacts
<1>7. Publish(S) = u
    BY <1>2
<1> HIDE DEF u
<1>8. \A w : Has(u, w) <=> w \in {"journal", "receipt", "summary"}
    BY <1>3, <1>6, MaterializeList
<1>9. \A w, s : Names(u, w, s) <=> w \in {"journal", "receipt"} /\ s \in S
    BY <1>3, <1>6, MaterializeList
<1> QED BY <1>6, <1>7, <1>8, <1>9

LEMMA UnlinkAfter ==
    ASSUME NEW t \in Seq(Ops), \A w \in Final : ~Has(t, w)
    PROVE  LET u == t \o <<Op("unlink", {})>>
           IN  /\ u \in Seq(Ops) /\ Ends(u) /\ u # <<>>
               /\ \A w : Has(u, w) <=> Has(t, w) \/ w = "unlink"
               /\ \A w, s : Names(u, w, s) <=> Names(t, w, s)
<1> DEFINE x == Op("unlink", {})
<1>1. x \in Ops /\ x.what = "unlink" /\ x.of = {}
    BY OpType DEF Whats
<1> HIDE DEF x
<1>2. <<x>> \in Seq(Ops) /\ Ends(<<x>>) /\ <<x>> # <<>>
    BY <1>1, OneWrite
<1>3. /\ \A w : Has(t \o <<x>>, w) <=> Has(t, w) \/ Has(<<x>>, w)
      /\ \A w, s : Names(t \o <<x>>, w, s) <=> Names(t, w, s) \/ Names(<<x>>, w, s)
      /\ t \o <<x>> \in Seq(Ops) /\ Ends(t \o <<x>>) /\ t \o <<x>> # <<>>
    BY <1>2, ConcatFacts
<1>4. (\A w : Has(<<x>>, w) <=> w = "unlink") /\ (\A w, s : ~Names(<<x>>, w, s))
    BY <1>1, OneWrite
<1> QED BY <1>3, <1>4 DEF x

LEMMA AdoptAfter ==
    ASSUME NEW S \in SUBSET Steps
    PROVE  LET u == Publish(S) \o <<Op("adopt", {}), Op("unlink", {})>>
           IN  /\ u \in Seq(Ops) /\ Ends(u) /\ u # <<>>
               /\ \A w : Has(u, w) <=> w \in {"journal", "receipt", "summary", "adopt", "unlink"}
               /\ \A w, s : Names(u, w, s) <=> w \in {"journal", "receipt"} /\ s \in S
<1> DEFINE a == Op("adopt", {})
           x == Op("unlink", {})
<1>1. /\ a \in Ops /\ a.what = "adopt" /\ a.of = {}
      /\ x \in Ops /\ x.what = "unlink" /\ x.of = {}
    BY OpType DEF Whats
<1> HIDE DEF a, x
<1>2. <<a, x>> \in Seq(Ops) /\ <<a, x>> # <<>>
    BY <1>1
<1>3. \A w : Has(<<a, x>>, w) <=> a.what = w \/ x.what = w
    BY DEF Has
<1>4. \A w, s : ~Names(<<a, x>>, w, s)
    BY <1>1 DEF Names
<1>5. Ends(<<a, x>>)
    BY <1>1 DEF Ends, Final
<1>6. \A w \in Final : ~Has(Publish(S), w)
    BY PublishList DEF Final
<1>7. Publish(S) \in Seq(Ops)
    BY PublishList
<1> DEFINE u == Publish(S) \o <<a, x>>
<1>8. /\ u \in Seq(Ops) /\ Ends(u) /\ u # <<>>
      /\ \A w : Has(u, w) <=> Has(Publish(S), w) \/ Has(<<a, x>>, w)
      /\ \A w, s : Names(u, w, s) <=> Names(Publish(S), w, s) \/ Names(<<a, x>>, w, s)
    BY <1>2, <1>5, <1>6, <1>7, ConcatFacts
<1> HIDE DEF u
<1>9. \A w : Has(u, w) <=> w \in {"journal", "receipt", "summary", "adopt", "unlink"}
    BY <1>1, <1>3, <1>8, PublishList
<1>10. \A w, s : Names(u, w, s) <=> w \in {"journal", "receipt"} /\ s \in S
    BY <1>4, <1>8, PublishList
<1> QED BY <1>8, <1>9, <1>10 DEF u, a, x

LEMMA StepList ==
    ASSUME NEW s \in Steps
    PROVE  LET t == StepWrites(s)
           IN  /\ t \in Seq(Ops) /\ Ends(t) /\ t # <<>>
               /\ \A w : Has(t, w) <=> w \in {"receipt", "summary"}
               /\ \A w, n : Names(t, w, n) <=> w = "receipt" /\ n = s
<1>1. StepWrites(s) = Materialize({s}) /\ {s} \in SUBSET Steps
    BY DEF StepWrites, Materialize
<1> QED BY <1>1, MaterializeList

\* StepWrites and one more write, which starts a worker or raises.
LEMMA StepListThen ==
    ASSUME NEW s \in Steps, NEW x \in Ops
    PROVE  LET t == StepWrites(s) \o <<x>>
           IN  /\ t \in Seq(Ops) /\ Ends(t) /\ t # <<>>
               /\ \A w : Has(t, w) <=> w \in {"receipt", "summary"} \/ x.what = w
               /\ \A w, n : Names(t, w, n) <=> (w = "receipt" /\ n = s) \/ (x.what = w /\ n \in x.of)
<1>1. StepWrites(s) \in Seq(Ops) /\ <<x>> \in Seq(Ops) /\ <<x>> # <<>>
    BY StepList, OneWrite
<1>2. \A w \in Final : ~Has(StepWrites(s), w)
    BY StepList DEF Final
<1> DEFINE u == StepWrites(s) \o <<x>>
<1>3. Ends(<<x>>)
    BY OneWrite
<1>4. /\ u \in Seq(Ops) /\ Ends(u) /\ u # <<>>
      /\ \A w : Has(u, w) <=> Has(StepWrites(s), w) \/ Has(<<x>>, w)
      /\ \A w, n : Names(u, w, n) <=> Names(StepWrites(s), w, n) \/ Names(<<x>>, w, n)
    BY <1>1, <1>2, <1>3, ConcatFacts
<1> HIDE DEF u
<1>5. \A w : Has(u, w) <=> w \in {"receipt", "summary"} \/ x.what = w
    BY <1>4, StepList, OneWrite
<1>6. \A w, n : Names(u, w, n) <=> (w = "receipt" /\ n = s) \/ (x.what = w /\ n \in x.of)
    BY <1>4, StepList, OneWrite
<1> QED BY <1>4, <1>5, <1>6 DEF u

LEMMA WritesAreSteps ==
    ASSUME NEW t \in Seq(Ops)
    PROVE  \A i \in DOMAIN t : t[i].of \subseteq Steps
<1>1. ASSUME NEW i \in DOMAIN t PROVE t[i] \in Ops
    BY LenProperties, ElementOfSeq
<1> QED BY <1>1 DEF Ops

-----------------------------------------------------------------------------
(* The invariant holds at first, and the workers keep it.                  *)

LEMMA InvInit == Init => Inv
<1> SUFFICES ASSUME Init PROVE Inv
    OBVIOUS
<1> USE StoreAssumption
<1>1. TypeInv
    <2>1. calls \in [Steps -> [0..MaxRevisions -> Calls]]
        BY DEF Init, Calls
    <2>2. live \in [Steps -> WorkerStates] /\ alien \in [Steps -> WorkerStates]
        BY DEF Init, Nobody, WorkerStates
    <2>3. todo = <<>> /\ todo \in Seq(Ops)
        BY DEF Init
    <2>4. \A i \in DOMAIN todo : todo[i].of \subseteq Steps
        BY <2>3, WritesAreSteps
    <2>5. /\ def \in [Steps -> 0..MaxEdits] /\ receipt \in [Steps -> Entries \cup {Nothing}]
          /\ broken \in BOOLEAN /\ refreshed \subseteq Steps /\ open \subseteq Steps
        <3> HIDE DEF Entries
        <3>1. def = [s \in Steps |-> 0] /\ 0 \in 0..MaxEdits
            BY DEF Init
        <3>2. receipt = [s \in Steps |-> Nothing] /\ broken = FALSE /\ refreshed = {} /\ open = {}
            BY DEF Init
        <3> QED BY <3>1, <3>2
    <2>6. pc = "down" /\ summary = Nothing /\ journal = Nothing /\ mem = Nothing /\ draft = Nothing
        BY DEF Init
    <2>7. TypeOK
        BY <2>1, <2>2, <2>4, <2>5, <2>6 DEF TypeOK
    <2> QED BY <2>3, <2>6, <2>7 DEF TypeInv, Holding, Past
<1>2. ListInv
    BY NothingLeft DEF Init, ListInv
<1>3. EpochInv
    BY NothingLeft DEF Init, EpochInv, SavedEpoch, Holding, Past
<1>4. WorkInv
    BY NothingLeft DEF Init, WorkInv, Nobody
<1> QED BY <1>1, <1>2, <1>3, <1>4 DEF Inv

LEMMA Stutters == ASSUME Inv, UNCHANGED vars PROVE Inv'
<1> USE DEF Inv, vars, disk, process
<1>1. TypeInv'
    BY DEF TypeInv, TypeOK
<1>2. ListInv'
    BY DEF ListInv
<1>3. EpochInv'
    BY DEF EpochInv, SavedEpoch, LoadedSummary
<1>4. WorkInv'
    BY DEF WorkInv, OnDisk
<1> QED BY <1>1, <1>2, <1>3, <1>4

\* What a worker does by itself: its own place changes, and calls whose epoch
\* is no later than the saved one.
LEMMA WorkersOnly ==
    ASSUME Inv,
           UNCHANGED <<def, disk, process, open>>,
           live' \in [Steps -> WorkerStates], alien' \in [Steps -> WorkerStates],
           \A n \in Steps : live'[n] # "no" => live[n] # "no",
           calls' \in [Steps -> [0..MaxRevisions -> Calls]],
           \A n \in Steps, r \in 0..MaxRevisions : calls'[n][r].epoch <= SavedEpoch
    PROVE  Inv'
<1> USE DEF Inv, disk, process
<1>1. TypeInv'
    BY DEF TypeInv, TypeOK
<1>2. ListInv'
    BY DEF ListInv
<1>3. EpochInv'
    BY DEF EpochInv, SavedEpoch, LoadedSummary
<1>4. WorkInv'
    BY DEF WorkInv, OnDisk
<1> QED BY <1>1, <1>2, <1>3, <1>4

LEMMA RoundType ==
    ASSUME NEW doc \in Documents, NEW s \in Steps
    PROVE  Round(doc, s) \in 0..MaxRevisions
<1>1. CASE \E g \in Gates : s \in PathBack(PlanOf[g], g)
    <2> DEFINE g == CHOOSE g \in Gates : s \in PathBack(PlanOf[g], g)
    <2>1. g \in Gates
        BY <1>1
    <2>2. doc.revised \in [Gates -> 0..MaxRevisions]
        BY DEF Documents
    <2>3. doc.revised[g] \in 0..MaxRevisions
        BY <2>1, <2>2
    <2> QED BY <2>3, <1>1 DEF Round
<1>2. CASE ~ \E g \in Gates : s \in PathBack(PlanOf[g], g)
    BY <1>2, StoreAssumption DEF Round
<1> QED BY <1>1, <1>2

\* A worker's process is past its start, and has the run.
LEMMA WorkerHasRun ==
    ASSUME Inv, NEW s \in Steps, live[s] # "no"
    PROVE  mem \in Documents /\ mem.epoch \in Nat /\ mem.epoch <= MaxResumes
           /\ mem.epoch = SavedEpoch /\ pc \in Past
<1>1. pc \in Past
    BY DEF Inv, WorkInv
<1>2. mem \in Documents
    BY <1>1 DEF Inv, TypeInv, TypeOK, Past, Holding
<1>3. mem.epoch \in 0..MaxResumes
    BY <1>2 DEF Documents
<1> QED BY <1>1, <1>2, <1>3, StoreAssumption DEF Inv, EpochInv

\* A receipt of a call that is out is replaced by its answer.
LEMMA AnsweredType ==
    ASSUME Inv, NEW s \in Steps, Answered(s)
    PROVE  /\ calls' \in [Steps -> [0..MaxRevisions -> Calls]]
           /\ \A n \in Steps, r \in 0..MaxRevisions : calls'[n][r].epoch <= SavedEpoch
<1>1. PICK r \in 0..MaxRevisions, answer \in {"ok", "bad"} :
        calls' = [calls EXCEPT ![s][r].state = answer]
    BY DEF Answered
<1>2. calls \in [Steps -> [0..MaxRevisions -> Calls]]
    BY DEF Inv, TypeInv, TypeOK
<1> DEFINE call == [calls[s][r] EXCEPT !.state = answer]
<1>3. calls[s][r] \in Calls
    BY <1>2
<1>4. call \in Calls /\ call.epoch = calls[s][r].epoch
    BY <1>3 DEF Calls
<1>5. calls' = [calls EXCEPT ![s] = [calls[s] EXCEPT ![r] = call]]
    BY <1>1
<1> HIDE DEF call
<1>6. calls' \in [Steps -> [0..MaxRevisions -> Calls]]
    BY <1>2, <1>4, <1>5
<1>7. \A n \in Steps, q \in 0..MaxRevisions : calls'[n][q].epoch = calls[n][q].epoch
    BY <1>2, <1>4, <1>5
<1> QED BY <1>6, <1>7 DEF Inv, EpochInv

LEMMA WorkersKeep ==
    ASSUME Inv, NEW s \in Steps,
           Request(s) \/ Answer(s) \/ Return(s) \/ Straggle(s)
    PROVE  Inv'
<1>1. /\ live \in [Steps -> WorkerStates] /\ alien \in [Steps -> WorkerStates]
      /\ calls \in [Steps -> [0..MaxRevisions -> Calls]]
      /\ \A n \in Steps, r \in 0..MaxRevisions : calls[n][r].epoch <= SavedEpoch
    BY DEF Inv, TypeInv, TypeOK, EpochInv
<1>2. CASE Request(s)
    <2> DEFINE r == Round(mem, s)
    <2>1. live[s] # "no"
        BY <1>2 DEF Request
    <2>2. /\ mem \in Documents /\ mem.epoch \in Nat /\ mem.epoch <= MaxResumes
          /\ mem.epoch = SavedEpoch
        BY <2>1, WorkerHasRun
    <2>3. r \in 0..MaxRevisions
        BY <2>2, RoundType
    <2> DEFINE begun == [calls EXCEPT ![s][r] = [state |-> "started", epoch |-> mem.epoch]]
    <2>4. calls' \in {calls, begun} /\ live' \in {[live EXCEPT ![s] = w] : w \in WorkerStates}
        BY <1>2 DEF Request, WorkerStates
    <2> HIDE DEF r
    <2>5. /\ begun \in [Steps -> [0..MaxRevisions -> Calls]]
          /\ \A n \in Steps, q \in 0..MaxRevisions : begun[n][q].epoch <= SavedEpoch
        BY <1>1, <2>2, <2>3, StoreAssumption DEF Calls
    <2>6. live' \in [Steps -> WorkerStates] /\ \A n \in Steps : live'[n] # "no" => live[n] # "no"
        BY <1>1, <2>1, <2>4
    <2>7. alien' \in [Steps -> WorkerStates] /\ UNCHANGED <<def, disk, process, open>>
        BY <1>1, <1>2 DEF Request
    <2> HIDE DEF begun
    <2> QED BY <1>1, <2>4, <2>5, <2>6, <2>7, WorkersOnly
<1>3. CASE Answer(s)
    <2>1. /\ UNCHANGED calls \/ Answered(s)
          /\ live[s] # "no" /\ live' \in {[live EXCEPT ![s] = w] : w \in WorkerStates}
          /\ UNCHANGED <<def, disk, process, alien, open>>
        BY <1>3 DEF Answer, WorkerStates
    <2>2. /\ calls' \in [Steps -> [0..MaxRevisions -> Calls]]
          /\ \A n \in Steps, q \in 0..MaxRevisions : calls'[n][q].epoch <= SavedEpoch
        BY <1>1, <2>1, AnsweredType
    <2>3. live' \in [Steps -> WorkerStates] /\ \A n \in Steps : live'[n] # "no" => live[n] # "no"
        BY <1>1, <2>1
    <2> QED BY <1>1, <2>1, <2>2, <2>3, WorkersOnly
<1>4. CASE Return(s)
    <2>1. /\ live[s] # "no" /\ live' \in {[live EXCEPT ![s] = w] : w \in WorkerStates}
          /\ UNCHANGED <<def, disk, calls, process, alien, open>>
        BY <1>4 DEF Return, WorkerStates
    <2>2. live' \in [Steps -> WorkerStates] /\ \A n \in Steps : live'[n] # "no" => live[n] # "no"
        BY <1>1, <2>1
    <2> QED BY <1>1, <2>1, <2>2, WorkersOnly
<1>5. CASE Straggle(s)
    <2>1. /\ UNCHANGED calls \/ Answered(s)
          /\ alien' \in {[alien EXCEPT ![s] = w] : w \in WorkerStates}
          /\ UNCHANGED <<def, disk, process, live, open>>
        BY <1>5 DEF Straggle, WorkerStates
    <2>2. /\ calls' \in [Steps -> [0..MaxRevisions -> Calls]]
          /\ \A n \in Steps, q \in 0..MaxRevisions : calls'[n][q].epoch <= SavedEpoch
        BY <1>1, <2>1, AnsweredType
    <2>3. alien' \in [Steps -> WorkerStates]
        BY <1>1, <2>1
    <2> QED BY <1>1, <2>1, <2>2, <2>3, WorkersOnly
<1> QED BY <1>2, <1>3, <1>4, <1>5

LEMMA RetryKeeps == ASSUME Inv, NEW s \in Steps, Retry(s) PROVE Inv'
<1>1. /\ live[s] # "no" /\ live' = [live EXCEPT ![s] = "working"]
      /\ UNCHANGED <<def, disk, calls, process, alien, open>>
    BY DEF Retry
<1>2. /\ live \in [Steps -> WorkerStates] /\ alien \in [Steps -> WorkerStates]
      /\ calls \in [Steps -> [0..MaxRevisions -> Calls]]
      /\ \A n \in Steps, r \in 0..MaxRevisions : calls[n][r].epoch <= SavedEpoch
    BY DEF Inv, TypeInv, TypeOK, EpochInv
<1>3. live' \in [Steps -> WorkerStates] /\ \A n \in Steps : live'[n] # "no" => live[n] # "no"
    BY <1>1, <1>2 DEF WorkerStates
<1> QED BY <1>1, <1>2, <1>3, WorkersOnly

-----------------------------------------------------------------------------
(* The writes keep it.                                                     *)

\* The receipts of several steps are written one at a time.
LEMMA OneReceiptLess ==
    ASSUME Inv, NEW s \in Steps, WriteReceipt(s)
    PROVE  /\ todo' \in Seq(Ops) /\ Ends(todo')
           /\ \A w : w # "receipt" => (Has(todo', w) <=> Has(todo, w))
           /\ \A w, n : Names(todo', w, n) => Names(todo, w, n)
           /\ \A w, n : w # "receipt" \/ n # s => (Names(todo, w, n) => Names(todo', w, n))
           /\ Has(todo, "receipt") /\ Names(todo, "receipt", s)
<1>1. todo \in Seq(Ops) /\ todo # <<>> /\ Head(todo).what = "receipt" /\ s \in Head(todo).of
      /\ Ends(todo)
    BY DEF Inv, TypeInv, ListInv, WriteReceipt, Due
<1> DEFINE rest == Tail(todo)
           less == Op("receipt", Head(todo).of \ {s})
<1>2. /\ Head(todo) \in Ops /\ rest \in Seq(Ops) /\ Ends(rest)
      /\ \A w : Has(todo, w) <=> w = "receipt" \/ Has(rest, w)
      /\ \A w, n : Names(todo, w, n) <=> (w = "receipt" /\ n \in Head(todo).of) \/ Names(rest, w, n)
    BY <1>1, TailFacts
<1>3. todo' = IF Head(todo).of = {s} THEN rest ELSE <<less>> \o rest
    BY DEF WriteReceipt
<1>4. less \in Ops /\ less.what = "receipt" /\ less.of = Head(todo).of \ {s}
    BY <1>2, OpType DEF Whats, Ops
<1> HIDE DEF rest, less
<1>5. CASE Head(todo).of = {s}
    BY <1>1, <1>2, <1>3, <1>5
<1>6. CASE Head(todo).of # {s}
    <2>1. /\ <<less>> \in Seq(Ops)
          /\ \A w : Has(<<less>>, w) <=> w = "receipt"
          /\ \A w, n : Names(<<less>>, w, n) <=> w = "receipt" /\ n \in Head(todo).of \ {s}
        BY <1>4, OneWrite
    <2>2. \A w \in Final : ~Has(<<less>>, w)
        BY <2>1 DEF Final
    <2>3. /\ todo' \in Seq(Ops) /\ Ends(todo')
          /\ \A w : Has(todo', w) <=> Has(<<less>>, w) \/ Has(rest, w)
          /\ \A w, n : Names(todo', w, n) <=> Names(<<less>>, w, n) \/ Names(rest, w, n)
        BY <1>2, <1>3, <1>6, <2>1, <2>2, ConcatFacts
    <2> QED BY <1>1, <1>2, <2>1, <2>3
<1> QED BY <1>5, <1>6

LEMMA WriteReceiptKeeps == ASSUME Inv, NEW s \in Steps, WriteReceipt(s) PROVE Inv'
<1>1. /\ todo' \in Seq(Ops) /\ Ends(todo')
      /\ \A w : w # "receipt" => (Has(todo', w) <=> Has(todo, w))
      /\ \A w, n : Names(todo', w, n) => Names(todo, w, n)
      /\ \A w, n : w # "receipt" \/ n # s => (Names(todo, w, n) => Names(todo', w, n))
      /\ Has(todo, "receipt") /\ Names(todo, "receipt", s)
    BY OneReceiptLess
<1>2. /\ todo # <<>> /\ receipt' = [receipt EXCEPT ![s] = draft.steps[s]] /\ open' \subseteq open \cup {s}
      /\ UNCHANGED <<def, summary, journal, calls, pc, mem, draft, broken, refreshed, live, alien>>
    BY DEF WriteReceipt, Due
<1>3. draft \in Documents /\ receipt \in [Steps -> Entries \cup {Nothing}]
    BY <1>2 DEF Inv, TypeInv, TypeOK
<1>4. draft.steps[s] \in Entries /\ draft.steps[s] # Nothing
    BY <1>3, NothingAssumption DEF Documents
<1>5. TypeInv'
    <2>1. receipt' \in [Steps -> Entries \cup {Nothing}]
        BY <1>2, <1>3, <1>4
    <2>2. \A i \in DOMAIN todo' : todo'[i].of \subseteq Steps
        BY <1>1, WritesAreSteps
    <2> QED BY <1>1, <1>2, <2>1, <2>2 DEF Inv, TypeInv, TypeOK
<1>6. ListInv'
    BY <1>1, <1>2 DEF Inv, ListInv
<1>7. EpochInv'
    BY <1>1, <1>2 DEF Inv, EpochInv, SavedEpoch, LoadedSummary
<1>8. WorkInv'
    <2>1. \A n \in Steps : n # s => receipt'[n] = receipt[n]
        BY <1>2, <1>3
    <2>2. \A n \in Steps : live[n] # "no" => n # s
        BY <1>1 DEF Inv, WorkInv
    <2>3. receipt'[s] = draft.steps[s]
        BY <1>2, <1>3
    <2>4. ASSUME NEW n \in Steps, live'[n] # "no"
          PROVE  /\ pc' \in Past /\ OnDisk(n)' /\ mem'.steps[n].status \in {"running", "cancelled"}
                 /\ journal' # Nothing => n \notin journal'.changed
                 /\ ~Names(todo', "receipt", n) /\ ~Names(todo', "journal", n)
                 /\ Has(todo', "adopt") => draft'.steps[n] = mem'.steps[n]
        BY <1>1, <1>2, <2>1, <2>2, <2>4 DEF Inv, WorkInv, OnDisk
    <2>5. ASSUME NEW n \in Steps, Names(todo', "work", n)
          PROVE  /\ draft'.steps[n].status = "running" /\ mem' = draft'
                 /\ Names(todo', "receipt", n) \/ OnDisk(n)'
        BY <1>1, <1>2, <1>4, <2>1, <2>3, <2>5 DEF Inv, WorkInv, OnDisk
    <2>6. /\ pc' \in {"up", "stopping"} /\ ~Has(todo', "unlink") => journal' = Nothing
          /\ pc' = "starting" /\ ~Has(todo', "unlink") => journal' = Nothing
        BY <1>1, <1>2 DEF Inv, WorkInv
    <2> QED BY <2>4, <2>5, <2>6 DEF WorkInv
<1> QED BY <1>5, <1>6, <1>7, <1>8 DEF Inv

\* What every other write has in common: it takes the first off the list.
LEMMA OneWriteLess ==
    ASSUME Inv, todo # <<>>, todo' = Tail(todo)
    PROVE  /\ todo' \in Seq(Ops) /\ Ends(todo') /\ \A i \in DOMAIN todo' : todo'[i].of \subseteq Steps
           /\ Head(todo) \in Ops
           /\ \A w : Has(todo, w) <=> Head(todo).what = w \/ Has(todo', w)
           /\ \A w, n : Names(todo, w, n) <=>
                (Head(todo).what = w /\ n \in Head(todo).of) \/ Names(todo', w, n)
           /\ Head(todo).what \in Final => todo' = <<>>
<1>1. todo \in Seq(Ops) /\ Ends(todo)
    BY DEF Inv, TypeInv, ListInv
<1> QED BY <1>1, TailFacts, WritesAreSteps

\* What a summary that is due would say, whatever happens to it.
LEMMA DueSummary ==
    ASSUME Inv, Due("summary")
    PROVE  /\ draft \in Documents /\ draft # Nothing /\ draft.epoch \in Nat
           /\ SavedEpoch <= draft.epoch
           /\ \A n \in Steps, r \in 0..MaxRevisions : calls[n][r].epoch <= draft.epoch
           /\ journal # Nothing => draft.epoch <= journal.doc.epoch
<1>1. todo # <<>> /\ Head(todo).what = "summary"
    BY DEF Due
<1>2. draft \in Documents /\ draft # Nothing
    BY <1>1 DEF Inv, TypeInv, TypeOK
<1>3. SavedEpoch <= draft.epoch /\ SavedEpoch \in Nat /\ draft.epoch \in Nat
    BY <1>1, <1>2, StoreAssumption DEF Inv, EpochInv, SavedEpoch, TypeInv, TypeOK, Documents
<1>4. ASSUME NEW n \in Steps, NEW r \in 0..MaxRevisions
      PROVE  calls[n][r].epoch <= draft.epoch
    <2>1. calls[n][r] \in Calls
        BY DEF Inv, TypeInv, TypeOK
    <2>2. calls[n][r].epoch \in Nat
        BY <2>1 DEF Calls
    <2> QED BY <2>2, <1>3 DEF Inv, EpochInv
<1>5. ASSUME journal # Nothing PROVE draft.epoch <= journal.doc.epoch
    <2>1. CASE pc \in Past
        BY <1>1, <1>5, <2>1 DEF Inv, EpochInv
    <2>2. CASE pc \in {"starting", "replaying"}
        BY <1>1, <1>3, <1>5, <2>2 DEF Inv, EpochInv
    <2> QED BY <1>1, <2>1, <2>2 DEF Inv, TypeInv, TypeOK, ListInv, Past
<1> QED BY <1>2, <1>3, <1>4, <1>5

LEMMA WriteSummaryKeeps == ASSUME Inv, WriteSummary PROVE Inv'
<1>1. /\ todo # <<>> /\ Head(todo).what = "summary" /\ summary' = draft /\ todo' = Tail(todo)
      /\ UNCHANGED <<def, receipt, journal, calls, pc, mem, draft, broken, refreshed, live, alien, open>>
    BY DEF WriteSummary, Due
<1>2. /\ todo' \in Seq(Ops) /\ Ends(todo') /\ \A i \in DOMAIN todo' : todo'[i].of \subseteq Steps
      /\ \A w : w # "summary" => (Has(todo, w) <=> Has(todo', w))
      /\ \A w, n : w # "summary" => (Names(todo, w, n) <=> Names(todo', w, n))
      /\ Has(todo, "summary")
    BY <1>1, OneWriteLess
<1>3. /\ draft \in Documents /\ draft # Nothing /\ draft.epoch \in Nat
      /\ \A n \in Steps, r \in 0..MaxRevisions : calls[n][r].epoch <= draft.epoch
      /\ journal # Nothing => draft.epoch <= journal.doc.epoch
    BY DueSummary DEF WriteSummary
<1>4. SavedEpoch' = draft.epoch
    BY <1>1, <1>3 DEF SavedEpoch
<1>5. TypeInv'
    BY <1>1, <1>2, <1>3 DEF Inv, TypeInv, TypeOK
<1>6. ListInv'
    BY <1>1, <1>2, <1>3 DEF Inv, ListInv
<1>7. EpochInv'
    <2>1. pc' \in Holding => SavedEpoch' <= mem'.epoch
        BY <1>1, <1>3, <1>4 DEF Inv, EpochInv, Holding, Past
    <2> QED BY <1>1, <1>2, <1>3, <1>4, <2>1 DEF Inv, EpochInv, LoadedSummary
<1>8. WorkInv'
    BY <1>1, <1>2 DEF Inv, WorkInv, OnDisk
<1> QED BY <1>5, <1>6, <1>7, <1>8 DEF Inv

LEMMA WriteJournalKeeps == ASSUME Inv, WriteJournal PROVE Inv'
<1>1. /\ todo # <<>> /\ Head(todo).what = "journal" /\ todo' = Tail(todo)
      /\ journal' = [doc |-> draft, changed |-> Head(todo).of]
      /\ UNCHANGED <<def, summary, receipt, calls, pc, mem, draft, broken, refreshed, live, alien, open>>
    BY DEF WriteJournal, Due
<1>2. /\ todo' \in Seq(Ops) /\ Ends(todo') /\ \A i \in DOMAIN todo' : todo'[i].of \subseteq Steps
      /\ Head(todo).of \subseteq Steps
      /\ \A w : w # "journal" => (Has(todo, w) <=> Has(todo', w))
      /\ \A w, n : w # "journal" => (Names(todo, w, n) <=> Names(todo', w, n))
      /\ \A n : n \in Head(todo).of => Names(todo, "journal", n)
      /\ \A n : Names(todo', "journal", n) => Names(todo, "journal", n)
      /\ Has(todo, "journal")
    BY <1>1, OneWriteLess DEF Ops
<1>3. Has(todo', "unlink") /\ summary # Nothing /\ pc \in {"up", "starting"}
    BY <1>2 DEF Inv, ListInv
<1>4. draft \in Documents /\ draft # Nothing
    BY <1>1 DEF Inv, TypeInv, TypeOK
<1>5. journal' \in Journals /\ journal' # Nothing /\ journal'.doc = draft
      /\ journal'.changed = Head(todo).of
    BY <1>1, <1>2, <1>4, NothingAssumption DEF Journals
<1>6. TypeInv'
    BY <1>1, <1>2, <1>3, <1>4, <1>5 DEF Inv, TypeInv, TypeOK
<1>7. ListInv'
    BY <1>1, <1>2, <1>3 DEF Inv, ListInv
<1>8. EpochInv'
    BY <1>1, <1>2, <1>3, <1>5 DEF Inv, EpochInv, SavedEpoch
<1>9. WorkInv'
    BY <1>1, <1>2, <1>3, <1>5 DEF Inv, WorkInv, OnDisk
<1> QED BY <1>6, <1>7, <1>8, <1>9 DEF Inv

LEMMA UnlinkKeeps == ASSUME Inv, Unlink PROVE Inv'
<1>1. /\ todo # <<>> /\ Head(todo).what = "unlink" /\ todo' = Tail(todo) /\ journal' = Nothing
      /\ UNCHANGED <<def, summary, receipt, calls, pc, mem, draft, broken, refreshed, live, alien, open>>
    BY DEF Unlink, Due
<1>2. /\ todo' = <<>> /\ \A w : Has(todo, w) <=> w = "unlink"
      /\ \A i \in DOMAIN todo' : todo'[i].of \subseteq Steps
    BY <1>1, OneWriteLess, NothingLeft DEF Final
<1>3. pc \in {"up", "starting", "replaying"} /\ summary # Nothing
    BY <1>2 DEF Inv, ListInv
<1>4. TypeInv'
    BY <1>1, <1>2 DEF Inv, TypeInv, TypeOK
<1>5. ListInv'
    BY <1>1, <1>2, NothingLeft DEF Inv, ListInv
<1>6. EpochInv'
    <2>1. pc = "replaying" => LoadedSummary'.epoch < MaxResumes
        BY <1>1, <1>2 DEF Inv, EpochInv, LoadedSummary
    <2> QED BY <1>1, <1>2, <1>3, <2>1, NothingLeft DEF Inv, EpochInv, SavedEpoch
<1>7. WorkInv'
    BY <1>1, <1>2, NothingLeft DEF Inv, WorkInv, OnDisk
<1> QED BY <1>4, <1>5, <1>6, <1>7 DEF Inv

LEMMA AdoptKeeps == ASSUME Inv, Adopt PROVE Inv'
<1>1. /\ todo # <<>> /\ Head(todo).what = "adopt" /\ todo' = Tail(todo) /\ mem' = draft
      /\ UNCHANGED <<def, disk, calls, pc, draft, broken, refreshed, live, alien, open>>
    BY DEF Adopt, Due
<1>2. /\ todo' \in Seq(Ops) /\ Ends(todo') /\ \A i \in DOMAIN todo' : todo'[i].of \subseteq Steps
      /\ \A w : w # "adopt" => (Has(todo, w) <=> Has(todo', w))
      /\ \A w : Has(todo', w) => Has(todo, w)
      /\ \A w, n : w # "adopt" => (Names(todo, w, n) <=> Names(todo', w, n))
      /\ Has(todo, "adopt")
    BY <1>1, OneWriteLess
<1>3. pc = "up" /\ draft \in Documents /\ draft # Nothing
    BY <1>1, <1>2 DEF Inv, TypeInv, TypeOK, ListInv
<1>4. TypeInv'
    BY <1>1, <1>2, <1>3 DEF Inv, TypeInv, TypeOK, disk
<1>5. ListInv'
    BY <1>1, <1>2, <1>3 DEF Inv, ListInv, disk
<1>6. EpochInv'
    BY <1>1, <1>2, <1>3 DEF Inv, EpochInv, SavedEpoch, disk, Past, Holding
<1>7. WorkInv'
    BY <1>1, <1>2, <1>3 DEF Inv, WorkInv, OnDisk, disk
<1> QED BY <1>4, <1>5, <1>6, <1>7 DEF Inv

LEMMA BeginWorkKeeps == ASSUME Inv, NEW s \in Steps, BeginWork(s) PROVE Inv'
<1>1. /\ todo # <<>> /\ Head(todo).what = "work" /\ s \in Head(todo).of /\ todo' = Tail(todo)
      /\ live' = [live EXCEPT ![s] = "working"] /\ open' = open \cup {s}
      /\ UNCHANGED <<def, disk, calls, pc, mem, draft, broken, refreshed, alien>>
    BY DEF BeginWork, Due
<1>2. /\ todo' = <<>> /\ \A i \in DOMAIN todo' : todo'[i].of \subseteq Steps
      /\ \A w : Has(todo, w) <=> w = "work"
      /\ Names(todo, "work", s) /\ ~Names(todo, "receipt", s)
    <2>1. todo' = <<>>
        BY <1>1, OneWriteLess DEF Final
    <2>2. \A w : Has(todo, w) <=> w = "work" \/ Has(todo', w)
        BY <1>1, OneWriteLess
    <2>3. \A w : Names(todo, w, s) <=> w = "work" \/ Names(todo', w, s)
        BY <1>1, OneWriteLess
    <2> QED BY <1>1, <2>1, <2>2, <2>3, NothingLeft, OneWriteLess
<1>3. live \in [Steps -> WorkerStates] /\ live' \in [Steps -> WorkerStates]
    BY <1>1 DEF Inv, TypeInv, TypeOK, WorkerStates
<1>4. pc = "up" /\ journal = Nothing /\ OnDisk(s) /\ mem.steps[s].status = "running"
    BY <1>2 DEF Inv, ListInv, WorkInv
<1>5. TypeInv'
    BY <1>1, <1>2, <1>3 DEF Inv, TypeInv, TypeOK, disk
<1>6. ListInv'
    BY <1>1, <1>2, NothingLeft DEF Inv, ListInv, disk
<1>7. EpochInv'
    BY <1>1, <1>2, <1>4, NothingLeft DEF Inv, EpochInv, SavedEpoch, disk, LoadedSummary
<1>8. WorkInv'
    <2>1. ASSUME NEW n \in Steps, live'[n] # "no"
          PROVE  /\ pc' \in Past /\ OnDisk(n)'
                 /\ mem'.steps[n].status \in {"running", "cancelled"}
        BY <1>1, <1>3, <1>4, <2>1 DEF Inv, WorkInv, OnDisk, disk, Past
    <2> QED BY <1>1, <1>2, <1>4, <2>1, NothingLeft DEF WorkInv, disk
<1> QED BY <1>5, <1>6, <1>7, <1>8 DEF Inv

LEMMA WithoutLeft ==
    ASSUME NEW doc \in Documents, NEW left \in BOOLEAN
    PROVE  /\ [doc EXCEPT !.left = left] \in Documents
           /\ [doc EXCEPT !.left = left].epoch = doc.epoch
           /\ [doc EXCEPT !.left = left].steps = doc.steps
           /\ [doc EXCEPT !.left = left] # Nothing
BY NothingAssumption DEF Documents

LEMMA RaiseKeeps == ASSUME Inv, Raise PROVE Inv'
<1>1. /\ todo # <<>> /\ Head(todo).what = "raise"
      /\ broken' = TRUE /\ draft' = [mem EXCEPT !.left = FALSE]
      /\ pc' = IF pc = "ending" THEN "closing" ELSE "ending"
      /\ todo' = IF pc = "ending" THEN <<Op("summary", {})>> ELSE <<>>
      /\ UNCHANGED <<def, disk, calls, mem, refreshed, live, alien, open>>
    BY DEF Raise, Due
<1>2. pc \in {"up", "stopping", "ending"}
    <2>1. todo \in Seq(Ops)
        BY DEF Inv, TypeInv
    <2>2. Has(todo, "raise")
        BY <1>1, <2>1, TailFacts
    <2> QED BY <2>2 DEF Inv, ListInv
<1>3. mem \in Documents /\ mem # Nothing /\ summary # Nothing
    BY <1>2 DEF Inv, TypeInv, TypeOK, Holding, Past
<1>4. draft' \in Documents /\ draft' # Nothing /\ draft'.epoch = mem.epoch
    BY <1>1, <1>3, WithoutLeft
<1>5. /\ todo' \in Seq(Ops) /\ Ends(todo') /\ \A i \in DOMAIN todo' : todo'[i].of \subseteq Steps
      /\ \A w : Has(todo', w) => w = "summary"
      /\ \A w, n : ~Names(todo', w, n)
    <2>1. CASE pc = "ending"
        BY <1>1, <2>1, SummaryList, WritesAreSteps
    <2>2. CASE pc # "ending"
        <3>1. todo' = <<>> /\ todo' \in Seq(Ops)
            BY <1>1, <2>2
        <3> QED BY <3>1, NothingLeft, WritesAreSteps
    <2> QED BY <2>1, <2>2
<1>6. TypeInv'
    BY <1>1, <1>3, <1>4, <1>5 DEF Inv, TypeInv, TypeOK, disk
<1>7. ListInv'
    BY <1>1, <1>5 DEF ListInv
<1>8. EpochInv'
    BY <1>1, <1>2, <1>3, <1>4, <1>5 DEF Inv, EpochInv, SavedEpoch, disk, Past, Holding
<1>9. WorkInv'
    BY <1>1, <1>2, <1>5 DEF Inv, WorkInv, OnDisk, disk, Past
<1> QED BY <1>6, <1>7, <1>8, <1>9 DEF Inv

\* A summary, or an unlink, that may have come through.
MayHaveLanded ==
    /\ summary' \in {summary} \cup (IF Due("summary") THEN {draft} ELSE {})
    /\ journal' \in {journal} \cup (IF Due("unlink") THEN {Nothing} ELSE {})

LEMMA Landed ==
    ASSUME Inv, UNCHANGED calls, MayHaveLanded
    PROVE  /\ summary' \in Documents \cup {Nothing} /\ journal' \in Journals \cup {Nothing}
           /\ journal' \in {journal, Nothing}
           /\ summary # Nothing => summary' # Nothing
           /\ summary' = Nothing => journal' = Nothing
           /\ \A n \in Steps, r \in 0..MaxRevisions : calls'[n][r].epoch <= SavedEpoch'
           /\ journal' # Nothing => SavedEpoch' <= journal'.doc.epoch
           /\ pc \in Past => SavedEpoch' = mem.epoch
<1>1. /\ summary \in Documents \cup {Nothing} /\ journal \in Journals \cup {Nothing}
      /\ summary = Nothing => journal = Nothing
    BY DEF Inv, TypeInv, TypeOK
<1>2. journal' \in {journal, Nothing}
    BY DEF MayHaveLanded
<1>3. CASE summary' = summary
    <2>1. SavedEpoch' = SavedEpoch
        BY <1>3 DEF SavedEpoch
    <2> QED BY <1>1, <1>2, <1>3, <2>1 DEF Inv, EpochInv
<1>4. CASE Due("summary") /\ summary' = draft
    <2>1. /\ draft \in Documents /\ draft # Nothing
          /\ \A n \in Steps, r \in 0..MaxRevisions : calls[n][r].epoch <= draft.epoch
          /\ journal # Nothing => draft.epoch <= journal.doc.epoch
        BY <1>4, DueSummary
    <2>2. SavedEpoch' = draft.epoch
        BY <1>4, <2>1 DEF SavedEpoch
    <2>3. pc \in Past => draft.epoch = mem.epoch
        BY <1>4 DEF Inv, EpochInv, Due
    <2> QED BY <1>1, <1>2, <1>4, <2>1, <2>2, <2>3
<1> QED BY <1>3, <1>4 DEF MayHaveLanded

\* The end of a process, whatever it had begun to write.
LEMMA ForgottenKeeps ==
    ASSUME Inv, UNCHANGED <<def, receipt, calls, open>>, MayHaveLanded,
           pc' = "down", Forgotten,
           live' \in [Steps -> WorkerStates], alien' \in [Steps -> WorkerStates],
           \A n \in Steps : live'[n] = "no"
    PROVE  Inv'
<1>1. /\ summary' \in Documents \cup {Nothing} /\ journal' \in Journals \cup {Nothing}
      /\ summary' = Nothing => journal' = Nothing
      /\ \A n \in Steps, r \in 0..MaxRevisions : calls'[n][r].epoch <= SavedEpoch'
      /\ journal' # Nothing => SavedEpoch' <= journal'.doc.epoch
    BY Landed
<1>2. /\ mem' = Nothing /\ draft' = Nothing /\ todo' = <<>> /\ broken' = FALSE /\ refreshed' = {}
      /\ todo' \in Seq(Ops)
    BY DEF Forgotten
<1>3. \A i \in DOMAIN todo' : todo'[i].of \subseteq Steps
    BY <1>2, WritesAreSteps
<1>4. TypeInv'
    BY <1>1, <1>2, <1>3 DEF Inv, TypeInv, TypeOK, Holding, Past
<1>5. ListInv'
    BY <1>2, NothingLeft DEF ListInv
<1>6. EpochInv'
    BY <1>1, <1>2, NothingLeft DEF EpochInv, Holding, Past
<1>7. WorkInv'
    BY <1>2, NothingLeft DEF WorkInv
<1> QED BY <1>4, <1>5, <1>6, <1>7 DEF Inv

\* Only a process that is past its start has workers.
LEMMA NobodyBefore ==
    ASSUME Inv, pc \notin Past
    PROVE  /\ live \in [Steps -> WorkerStates] /\ alien \in [Steps -> WorkerStates]
           /\ \A n \in Steps : live[n] = "no"
BY DEF Inv, TypeInv, TypeOK, WorkInv

\* The lists that say nothing of any step, and promise nothing.
Plain(t) == /\ t \in Seq(Ops) /\ Ends(t) /\ (\A w : Has(t, w) => w = "summary")
            /\ \A w, s : ~Names(t, w, s)

LEMMA PlainLists ==
    /\ Plain(<<>>) /\ Plain(<<Op("summary", {})>>)
    /\ \A t : Plain(t) => \A i \in DOMAIN t : t[i].of \subseteq Steps
<1>1. <<>> \in Seq(Ops)
    OBVIOUS
<1> QED BY <1>1, NothingLeft, SummaryList, WritesAreSteps DEF Plain

\* A process that goes on to its drain or to its last save.
LEMMA LaterKeeps ==
    ASSUME Inv, UNCHANGED <<def, receipt, calls, refreshed, live, alien, open>>, MayHaveLanded,
           broken' \in BOOLEAN,
           pc \in Past, pc' \in {"stopping", "ending", "resolving", "closing"},
           pc' = "stopping" => journal' = Nothing,
           Plain(todo'), draft' \in Documents \cup {Nothing},
           todo' # <<>> => draft' # Nothing /\ draft'.epoch = mem.epoch,
           mem' \in Documents, mem' # Nothing, mem'.epoch = mem.epoch,
           \A n \in Steps : live[n] # "no" =>
                mem'.steps[n].status \in {mem.steps[n].status, "cancelled"}
    PROVE  Inv'
<1>1. /\ summary' \in Documents \cup {Nothing} /\ journal' \in Journals \cup {Nothing}
      /\ journal' \in {journal, Nothing}
      /\ summary # Nothing => summary' # Nothing
      /\ summary' = Nothing => journal' = Nothing
      /\ \A n \in Steps, r \in 0..MaxRevisions : calls'[n][r].epoch <= SavedEpoch'
      /\ journal' # Nothing => SavedEpoch' <= journal'.doc.epoch
      /\ SavedEpoch' = mem.epoch
    BY Landed
<1>2. mem \in Documents /\ mem # Nothing /\ summary # Nothing
    BY DEF Inv, TypeInv, TypeOK, Holding, Past
<1>3. mem.epoch \in Nat
    BY <1>2, StoreAssumption DEF Documents
<1>4. \A i \in DOMAIN todo' : todo'[i].of \subseteq Steps
    BY PlainLists
<1>5. TypeInv'
    BY <1>1, <1>2, <1>4 DEF Inv, TypeInv, TypeOK, Plain
<1>6. ListInv'
    BY DEF ListInv, Plain
<1>7. EpochInv'
    BY <1>1, <1>3 DEF EpochInv, Plain, Past, Holding
<1>8. WorkInv'
    <2>1. ASSUME NEW n \in Steps, live'[n] # "no"
          PROVE  /\ pc' \in Past /\ OnDisk(n)'
                 /\ mem'.steps[n].status \in {"running", "cancelled"}
                 /\ journal' # Nothing => n \notin journal'.changed
        BY <1>1, <2>1 DEF Inv, WorkInv, OnDisk, Past
    <2> QED BY <2>1 DEF WorkInv, Plain
<1> QED BY <1>5, <1>6, <1>7, <1>8 DEF Inv

LEMMA WriteFailsKeeps == ASSUME Inv, WriteFails PROVE Inv'
<1>1. MayHaveLanded /\ UNCHANGED <<def, receipt, calls, live, alien, open>>
    BY DEF WriteFails, MayHaveLanded
<1>2. pc \in Past => mem \in Documents /\ mem # Nothing
    BY DEF Inv, TypeInv, TypeOK, Past, Holding
<1>3. CASE /\ pc \in {"up", "stopping"} /\ pc' = "ending" /\ broken' = TRUE /\ todo' = <<>>
           /\ UNCHANGED <<mem, draft, refreshed>>
    <2>1. draft' \in Documents \cup {Nothing}
        BY <1>3 DEF Inv, TypeInv, TypeOK
    <2>2. pc \in Past /\ Plain(todo') /\ mem' \in Documents /\ mem' # Nothing
        BY <1>2, <1>3, PlainLists DEF Past
    <2> QED BY <1>1, <1>3, <2>1, <2>2, LaterKeeps
<1>4. CASE /\ pc \in {"ending", "resolving"} /\ pc' = "closing" /\ broken' = TRUE
           /\ Handle([mem EXCEPT !.left = FALSE], <<Op("summary", {})>>)
           /\ UNCHANGED <<mem, refreshed>>
    <2>1. pc \in Past /\ mem \in Documents /\ mem # Nothing
        BY <1>2, <1>4 DEF Past
    <2>2. draft' \in Documents /\ draft' # Nothing /\ draft'.epoch = mem.epoch
        BY <1>4, <2>1, WithoutLeft DEF Handle
    <2>3. Plain(todo')
        BY <1>4, PlainLists DEF Handle
    <2> QED BY <1>1, <1>4, <2>1, <2>2, <2>3, LaterKeeps
<1>5. CASE pc = "closing" /\ todo' = <<>> /\ UNCHANGED <<pc, broken, mem, draft, refreshed>>
    <2>1. draft' \in Documents \cup {Nothing} /\ broken' \in BOOLEAN
        BY <1>5 DEF Inv, TypeInv, TypeOK
    <2>2. pc \in Past /\ Plain(todo') /\ mem' \in Documents /\ mem' # Nothing
        BY <1>2, <1>5, PlainLists DEF Past
    <2> QED BY <1>1, <1>5, <2>1, <2>2, LaterKeeps
<1>6. CASE pc \in {"starting", "replaying"} /\ pc' = "down" /\ Forgotten
    BY <1>1, <1>6, NobodyBefore, ForgottenKeeps DEF Past
<1> QED BY <1>3, <1>4, <1>5, <1>6 DEF WriteFails

LEMMA UntouchedDisk == UNCHANGED disk => MayHaveLanded
BY DEF disk, MayHaveLanded

LEMMA DownKeeps == ASSUME Inv, Refuse \/ GiveUpLock \/ Crash PROVE Inv'
<1>1. /\ MayHaveLanded /\ pc' = "down" /\ Forgotten
      /\ UNCHANGED <<def, receipt, calls, open>>
    BY UntouchedDisk DEF Refuse, GiveUpLock, Crash, disk
<1>2. live \in [Steps -> WorkerStates] /\ alien \in [Steps -> WorkerStates]
    BY DEF Inv, TypeInv, TypeOK
<1>3. Nobody \in [Steps -> WorkerStates] /\ \A n \in Steps : Nobody[n] = "no"
    BY DEF Nobody, WorkerStates
<1>4. CASE Refuse
    BY <1>1, <1>4, NobodyBefore, ForgottenKeeps DEF Refuse, Past
<1>5. CASE GiveUpLock
    <2>1. alien' \in [Steps -> WorkerStates] /\ live' = Nobody
        BY <1>2, <1>5 DEF GiveUpLock
    <2> QED BY <1>1, <1>3, <2>1, ForgottenKeeps
<1>6. CASE Crash
    <2>1. alien' \in [Steps -> WorkerStates] /\ live' = Nobody
        BY <1>2, <1>6 DEF Crash
    <2> QED BY <1>1, <1>3, <2>1, ForgottenKeeps
<1> QED BY <1>4, <1>5, <1>6

LEMMA LeavingKeeps == ASSUME Inv, Stop \/ LeaveLoop \/ EndDrain \/ FinalSave PROVE Inv'
<1>1. /\ MayHaveLanded /\ UNCHANGED <<def, receipt, journal, calls, broken, refreshed, live, alien, open>>
      /\ pc \in Past /\ todo = <<>> /\ broken \in BOOLEAN /\ draft \in Documents \cup {Nothing}
    BY UntouchedDisk DEF Stop, LeaveLoop, EndDrain, FinalSave, disk, Past, Inv, TypeInv, TypeOK
<1>2. mem \in Documents /\ mem # Nothing
    BY <1>1 DEF Inv, TypeInv, TypeOK, Past, Holding
<1>3. CASE Stop
    <2>1. journal = Nothing
        BY <1>3, NothingLeft DEF Stop, Inv, WorkInv
    <2>2. /\ UNCHANGED <<mem, draft>> /\ Plain(todo') /\ todo' = <<>>
          /\ pc' = "stopping"
        BY <1>3, PlainLists DEF Stop
    <2> QED BY <1>1, <1>2, <2>1, <2>2, LaterKeeps
<1>4. CASE LeaveLoop
    <2>1. UNCHANGED <<mem, draft>> /\ Plain(todo') /\ todo' = <<>> /\ pc' = "ending"
        BY <1>4, PlainLists DEF LeaveLoop
    <2> QED BY <1>1, <1>2, <2>1, LaterKeeps
<1>5. CASE EndDrain /\ broken
    <2>1. /\ pc' = "closing" /\ UNCHANGED mem
          /\ draft' = [mem EXCEPT !.left = FALSE] /\ todo' = <<Op("summary", {})>>
        BY <1>5 DEF EndDrain, Handle
    <2>2. draft' \in Documents /\ draft' # Nothing /\ draft'.epoch = mem.epoch
        BY <1>2, <2>1, WithoutLeft
    <2>3. Plain(todo')
        BY <2>1, PlainLists
    <2> QED BY <1>1, <1>2, <2>1, <2>2, <2>3, LaterKeeps
<1>6. CASE EndDrain /\ ~broken
    <2> DEFINE ended == [s \in Steps |-> IF live[s] = "no" THEN mem.steps[s]
                                         ELSE [mem.steps[s] EXCEPT !.status = "cancelled"]]
    <2>1. /\ pc' = "resolving" /\ UNCHANGED <<draft, todo>>
          /\ mem' = [mem EXCEPT !.left = (live # Nobody), !.steps = ended]
        BY <1>6 DEF EndDrain
    <2>2. mem.steps \in [Steps -> Entries]
        BY <1>2 DEF Documents
    <2>3. ended \in [Steps -> Entries]
        BY <2>2 DEF Entries, Statuses
    <2>4. \A n \in Steps : live[n] # "no" => ended[n].status = "cancelled"
        BY <2>2 DEF Entries, Statuses
    <2> HIDE DEF ended
    <2>5. mem' \in Documents /\ mem'.epoch = mem.epoch /\ mem'.steps = ended
        BY <1>2, <2>1, <2>3 DEF Documents
    <2>6. mem' # Nothing /\ Plain(todo') /\ todo' = <<>>
        BY <1>1, <2>1, <2>5, NothingAssumption, PlainLists
    <2> QED BY <1>1, <2>1, <2>4, <2>5, <2>6, LaterKeeps
<1>7. CASE FinalSave
    <2>1. /\ pc' = "closing" /\ UNCHANGED mem /\ draft' = mem /\ Plain(todo')
        BY <1>7, PlainLists DEF FinalSave, Handle
    <2> QED BY <1>1, <1>2, <2>1, LaterKeeps
<1> QED BY <1>3, <1>4, <1>5, <1>6, <1>7

-----------------------------------------------------------------------------
(* A process takes the run up.                                             *)

LEMMA EditKeeps == ASSUME Inv, NEW s \in Steps, Edit(s) PROVE Inv'
<1>1. def' \in [Steps -> 0..MaxEdits]
    BY StoreAssumption DEF Edit, Inv, TypeInv, TypeOK
<1>2. UNCHANGED <<disk, calls, process, live, alien, open>>
    BY DEF Edit
<1> USE <1>2 DEF disk, process
<1>3. TypeInv'
    BY <1>1 DEF Inv, TypeInv, TypeOK
<1>4. ListInv'
    BY DEF Inv, ListInv
<1>5. EpochInv'
    BY DEF Inv, EpochInv, SavedEpoch, LoadedSummary
<1>6. WorkInv'
    BY DEF Inv, WorkInv, OnDisk
<1> QED BY <1>3, <1>4, <1>5, <1>6 DEF Inv

LEMMA NewRunType == NewRun \in Documents /\ NewRun # Nothing /\ NewRun.epoch = 0
<1>1. [s \in Steps |-> [status |-> "pending", def |-> 0]] \in [Steps -> Entries]
    BY StoreAssumption DEF Entries, Statuses
<1>2. [g \in Gates |-> 0] \in [Gates -> 0..MaxRevisions]
    BY StoreAssumption
<1>3. NewRun \in Documents
    BY <1>1, <1>2, StoreAssumption DEF NewRun, Documents
<1> QED BY <1>3, NothingAssumption DEF NewRun

LEMMA StartKeeps == ASSUME Inv, Start PROVE Inv'
<1>1. /\ pc = "down" /\ summary = Nothing /\ pc' = "starting"
      /\ mem' = NewRun /\ draft' = NewRun /\ todo' = <<Op("summary", {})>>
      /\ UNCHANGED <<def, summary, receipt, journal, calls, broken, refreshed, live, alien, open>>
    BY DEF Start, Handle, disk
<1>2. NewRun \in Documents /\ NewRun # Nothing /\ NewRun.epoch = 0
    BY NewRunType
<1>3. /\ todo' \in Seq(Ops) /\ Ends(todo') /\ \A i \in DOMAIN todo' : todo'[i].of \subseteq Steps
      /\ \A w : Has(todo', w) <=> w = "summary"
      /\ \A w, s : ~Names(todo', w, s)
    BY <1>1, SummaryList, WritesAreSteps
<1>4. journal = Nothing /\ \A n \in Steps : live[n] = "no"
    BY <1>1, NobodyBefore DEF Inv, TypeInv, Past
<1>5. TypeInv'
    BY <1>1, <1>2, <1>3, <1>4 DEF Inv, TypeInv, TypeOK, Past
<1>6. ListInv'
    BY <1>1, <1>3 DEF ListInv
<1>7. EpochInv'
    BY <1>1, <1>2, <1>3, <1>4 DEF Inv, EpochInv, SavedEpoch, Past
<1>8. WorkInv'
    BY <1>1, <1>3, <1>4 DEF WorkInv
<1> QED BY <1>5, <1>6, <1>7, <1>8 DEF Inv

LEMMA LoadKeeps == ASSUME Inv, Load PROVE Inv'
<1>1. /\ pc = "down" /\ summary # Nothing /\ LoadedSummary.epoch < MaxResumes /\ pc' = "replaying"
      /\ UNCHANGED <<def, summary, receipt, journal, calls, mem, broken, refreshed, live, alien, open>>
    BY DEF Load, disk
<1>2. todo = <<>> /\ \A n \in Steps : live[n] = "no"
    BY <1>1, NobodyBefore DEF Inv, ListInv, Past
<1>3. /\ todo' \in Seq(Ops) /\ Ends(todo') /\ draft' \in Documents \cup {Nothing}
      /\ Has(todo', "unlink") <=> journal # Nothing
      /\ todo' # <<>> => /\ journal # Nothing /\ draft' = journal.doc /\ draft' # Nothing
                         /\ Has(todo', "summary")
      /\ \A w : Has(todo', w) => w \in {"receipt", "summary", "unlink"}
      /\ \A s : ~Names(todo', "work", s)
    <2>1. CASE journal = Nothing
        <3>1. todo' = <<>> /\ draft' = draft /\ todo' \in Seq(Ops)
            BY <1>2, <2>1 DEF Load
        <3> QED BY <2>1, <3>1, NothingLeft DEF Inv, TypeInv, TypeOK
    <2>2. CASE journal # Nothing
        <3>1. journal.doc \in Documents /\ journal.changed \in SUBSET Steps
            BY <2>2 DEF Inv, TypeInv, TypeOK, Journals
        <3> DEFINE m == Materialize(journal.changed)
        <3>2. /\ m \in Seq(Ops) /\ (\A w : Has(m, w) <=> w \in {"receipt", "summary"})
              /\ \A w, s : Names(m, w, s) => w = "receipt"
            BY <3>1, MaterializeList
        <3>3. draft' = journal.doc /\ todo' = m \o <<Op("unlink", {})>>
            BY <2>2 DEF Load, Handle
        <3> HIDE DEF m
        <3>4. \A w \in Final : ~Has(m, w)
            BY <3>2 DEF Final
        <3>5. /\ todo' \in Seq(Ops) /\ Ends(todo') /\ todo' # <<>>
              /\ \A w : Has(todo', w) <=> Has(m, w) \/ w = "unlink"
              /\ \A w, s : Names(todo', w, s) <=> Names(m, w, s)
            BY <3>2, <3>3, <3>4, UnlinkAfter
        <3>6. journal.doc # Nothing
            BY <3>1, NothingAssumption
        <3> QED BY <2>2, <3>1, <3>2, <3>3, <3>5, <3>6
    <2> QED BY <2>1, <2>2
<1>4. \A i \in DOMAIN todo' : todo'[i].of \subseteq Steps
    BY <1>3, WritesAreSteps
<1>5. TypeInv'
    BY <1>1, <1>3, <1>4 DEF Inv, TypeInv, TypeOK, Holding, Past
<1>6. ListInv'
    BY <1>1, <1>3 DEF ListInv
<1>7. EpochInv'
    <2>1. \A n \in Steps, r \in 0..MaxRevisions : calls'[n][r].epoch <= SavedEpoch'
        BY <1>1 DEF Inv, EpochInv, SavedEpoch
    <2>2. journal' # Nothing => SavedEpoch' <= journal'.doc.epoch
        BY <1>1 DEF Inv, EpochInv, SavedEpoch
    <2>3. LoadedSummary' = LoadedSummary
        BY <1>1 DEF LoadedSummary
    <2> QED BY <1>1, <1>3, <2>1, <2>2, <2>3 DEF EpochInv, Holding, Past
<1>8. WorkInv'
    BY <1>1, <1>2, <1>3 DEF WorkInv
<1> QED BY <1>5, <1>6, <1>7, <1>8 DEF Inv

\* What a process reads is a record.
LEMMA LoadedType ==
    ASSUME Inv, summary # Nothing
    PROVE  Loaded \in Documents /\ Loaded.epoch = LoadedSummary.epoch
<1>1. LoadedSummary \in Documents
    BY DEF Inv, TypeInv, TypeOK, LoadedSummary, Journals
<1>2. LoadedSummary.steps \in [Steps -> Entries]
    BY <1>1 DEF Documents
<1>3. ASSUME NEW s \in Steps PROVE LoadedEntry(s) \in Entries
    <2>1. CASE journal # Nothing /\ s \in journal.changed
        <3>1. journal.doc = LoadedSummary
            BY <2>1 DEF LoadedSummary
        <3> QED BY <1>2, <2>1, <3>1 DEF LoadedEntry
    <2>2. CASE ~(journal # Nothing /\ s \in journal.changed)
        <3>1. receipt[s] \in Entries \cup {Nothing}
            BY DEF Inv, TypeInv, TypeOK
        <3> QED BY <1>2, <2>2, <3>1 DEF LoadedEntry
    <2> QED BY <2>1, <2>2
<1> DEFINE entries == [s \in Steps |-> LoadedEntry(s)]
<1>4. entries \in [Steps -> Entries]
    BY <1>3
<1>5. Loaded = [LoadedSummary EXCEPT !.steps = entries]
    BY DEF Loaded
<1> HIDE DEF entries
<1> QED BY <1>1, <1>4, <1>5 DEF Documents

LEMMA ResumedType ==
    ASSUME NEW doc \in Documents, doc.epoch < MaxResumes
    PROVE  Resumed(doc) \in Documents /\ Resumed(doc).epoch = doc.epoch + 1
<1> DEFINE entries == [s \in Steps |-> IF s \in Again(doc) THEN [status |-> "pending", def |-> 0]
                                       ELSE doc.steps[s]]
<1>1. doc.steps \in [Steps -> Entries] /\ doc.epoch \in 0..MaxResumes
    BY DEF Documents
<1>2. [status |-> "pending", def |-> 0] \in Entries
    BY StoreAssumption DEF Entries, Statuses
<1>3. entries \in [Steps -> Entries]
    BY <1>1, <1>2
<1>4. Resumed(doc) = [doc EXCEPT !.steps = entries, !.epoch = @ + 1, !.left = FALSE]
    BY DEF Resumed
<1>5. doc.epoch + 1 \in 0..MaxResumes
    BY <1>1, StoreAssumption
<1> HIDE DEF entries
<1> QED BY <1>3, <1>4, <1>5 DEF Documents

LEMMA ResumeKeeps == ASSUME Inv, Resume PROVE Inv'
<1>1. /\ pc = "replaying" /\ todo = <<>> /\ pc' = "starting"
      /\ mem' = Resumed(Loaded) /\ refreshed' = Refreshed /\ draft' = mem'
      /\ todo' = Publish(Again(Loaded)) \o <<Op("unlink", {})>>
      /\ UNCHANGED <<def, summary, receipt, journal, calls, broken, live, alien, open>>
    BY DEF Resume, Handle, disk
<1>2. summary # Nothing /\ journal = Nothing /\ LoadedSummary.epoch < MaxResumes
    BY <1>1, NothingLeft DEF Inv, TypeInv, EpochInv
<1>3. Loaded \in Documents /\ Loaded.epoch = SavedEpoch
    BY <1>2, LoadedType DEF LoadedSummary, SavedEpoch
<1>4. mem' \in Documents /\ mem'.epoch = SavedEpoch + 1 /\ mem' # Nothing
    BY <1>1, <1>2, <1>3, LoadedType, ResumedType, NothingAssumption
<1>5. SavedEpoch \in Nat
    BY <1>3, StoreAssumption DEF Documents
<1>6. Again(Loaded) \in SUBSET Steps /\ Refreshed \subseteq Steps
    BY DEF Again, Downstream, Refreshed
<1> DEFINE p == Publish(Again(Loaded))
<1>7. /\ p \in Seq(Ops) /\ (\A w : Has(p, w) <=> w \in {"journal", "receipt", "summary"})
      /\ \A w, s : Names(p, w, s) => w # "work"
    BY <1>6, PublishList
<1>8. \A w \in Final : ~Has(p, w)
    BY <1>7 DEF Final
<1>9. todo' = p \o <<Op("unlink", {})>>
    BY <1>1
<1> HIDE DEF p
<1>10. /\ todo' \in Seq(Ops) /\ Ends(todo')
       /\ \A w : Has(todo', w) <=> Has(p, w) \/ w = "unlink"
       /\ \A w, s : Names(todo', w, s) <=> Names(p, w, s)
    BY <1>7, <1>8, <1>9, UnlinkAfter
<1>11. \A i \in DOMAIN todo' : todo'[i].of \subseteq Steps
    BY <1>10, WritesAreSteps
<1>12. \A n \in Steps : live[n] = "no"
    BY <1>1, NobodyBefore DEF Past
<1>13. TypeInv'
    BY <1>1, <1>2, <1>4, <1>6, <1>10, <1>11 DEF Inv, TypeInv, TypeOK, Past
<1>14. ListInv'
    <2>1. \A w : Has(todo', w) <=> w \in {"journal", "receipt", "summary", "unlink"}
        BY <1>7, <1>10
    <2>2. pc' = "starting" /\ summary' # Nothing
        BY <1>1, <1>2
    <2> HIDE <1>1
    <2> QED BY <1>10, <2>1, <2>2 DEF ListInv
<1>15. EpochInv'
    <2>1. SavedEpoch' = SavedEpoch
        BY <1>1 DEF SavedEpoch
    <2>2. \A n \in Steps, r \in 0..MaxRevisions : calls'[n][r].epoch <= SavedEpoch'
        BY <1>1, <2>1 DEF Inv, EpochInv
    <2> QED BY <1>1, <1>2, <1>4, <1>5, <1>7, <1>10, <2>1, <2>2 DEF EpochInv, Past
<1>16. WorkInv'
    BY <1>1, <1>7, <1>10, <1>12 DEF WorkInv
<1> QED BY <1>13, <1>14, <1>15, <1>16 DEF Inv

LEMMA GoKeeps == ASSUME Inv, Go PROVE Inv'
<1>1. /\ pc = "starting" /\ todo = <<>> /\ pc' = "up"
      /\ UNCHANGED <<def, summary, receipt, journal, calls, mem, draft, todo, broken, refreshed,
                     live, alien, open>>
    BY DEF Go, disk
<1>2. summary # Nothing /\ SavedEpoch = mem.epoch /\ journal = Nothing
    BY <1>1, NothingLeft DEF Inv, EpochInv, WorkInv
<1>3. TypeInv'
    BY <1>1, <1>2 DEF Inv, TypeInv, TypeOK, Holding
<1>4. ListInv'
    BY <1>1, NothingLeft DEF Inv, ListInv
<1>5. EpochInv'
    BY <1>1, <1>2, NothingLeft DEF Inv, EpochInv, SavedEpoch, Holding
<1>6. WorkInv'
    BY <1>1, <1>2, NothingLeft DEF Inv, WorkInv, Past
<1> QED BY <1>3, <1>4, <1>5, <1>6 DEF Inv

-----------------------------------------------------------------------------
(* The loop.                                                               *)

\* A step's own entry changes.
LEMMA EntryChanged ==
    ASSUME NEW doc \in Documents, NEW s \in Steps, NEW e \in Entries
    PROVE  LET new == [doc EXCEPT !.steps[s] = e]
           IN  /\ new \in Documents /\ new.epoch = doc.epoch /\ new # Nothing
               /\ new.steps[s] = e
               /\ \A n \in Steps : n # s => new.steps[n] = doc.steps[n]
<1> DEFINE entries == [doc.steps EXCEPT ![s] = e]
<1>1. doc.steps \in [Steps -> Entries]
    BY DEF Documents
<1>2. /\ entries \in [Steps -> Entries] /\ entries[s] = e
      /\ \A n \in Steps : n # s => entries[n] = doc.steps[n]
    BY <1>1
<1> HIDE DEF entries
<1> DEFINE new == [doc EXCEPT !.steps = entries]
<1>3. new \in Documents /\ new.epoch = doc.epoch /\ new.steps = entries
    BY <1>2 DEF Documents
<1>4. [doc EXCEPT !.steps[s] = e] = new
    BY DEF entries
<1> HIDE DEF new
<1> QED BY <1>2, <1>3, <1>4, NothingAssumption

LEMMA StatusChanged ==
    ASSUME NEW doc \in Documents, NEW s \in Steps, NEW status \in Statuses
    PROVE  LET new == WithStatus(doc, s, status)
           IN  /\ new \in Documents /\ new.epoch = doc.epoch /\ new # Nothing
               /\ \A n \in Steps : n # s => new.steps[n] = doc.steps[n]
<1> DEFINE e == [doc.steps[s] EXCEPT !.status = status]
<1>1. doc.steps \in [Steps -> Entries]
    BY DEF Documents
<1>2. doc.steps[s] \in Entries
    BY <1>1
<1>3. e \in Entries
    BY <1>2 DEF Entries
<1>4. WithStatus(doc, s, status) = [doc EXCEPT !.steps[s] = e]
    BY DEF WithStatus
<1> HIDE DEF e
<1> QED BY <1>3, <1>4, EntryChanged

\* A step that is not at work is given an entry, and its writes are due.
LEMMA NoteKeeps ==
    ASSUME Inv, NEW s \in Steps,
           UNCHANGED <<def, summary, receipt, journal, calls, pc, broken, refreshed, alien, open>>,
           live' \in [Steps -> WorkerStates], live'[s] = "no",
           \A n \in Steps : live'[n] # "no" => live[n] # "no",
           pc \in Past, pc # "closing", todo = <<>>,
           mem' \in Documents, mem' # Nothing, mem'.epoch = mem.epoch,
           \A n \in Steps : n # s => mem'.steps[n] = mem.steps[n],
           draft' = mem',
           todo' \in Seq(Ops), Ends(todo'), todo' # <<>>,
           \A w : Has(todo', w) => w \in {"receipt", "summary", "work", "raise"},
           Has(todo', "work") => pc = "up",
           Has(todo', "raise") => pc \in {"up", "stopping", "ending"},
           \A w, n : Names(todo', w, n) => w \in {"receipt", "work"} /\ n = s,
           Names(todo', "work", s) => mem'.steps[s].status = "running" /\ Names(todo', "receipt", s)
    PROVE  Inv'
<1>1. summary # Nothing /\ SavedEpoch' = mem.epoch
    BY DEF Inv, TypeInv, EpochInv, SavedEpoch
<1>2. mem.epoch \in Nat
    <2>1. mem' \in Documents
        OBVIOUS
    <2>2. mem'.epoch \in 0..MaxResumes
        BY <2>1 DEF Documents
    <2> QED BY <2>2, StoreAssumption
<1>3. \A i \in DOMAIN todo' : todo'[i].of \subseteq Steps
    BY WritesAreSteps
<1>4. TypeInv'
    BY <1>1, <1>3 DEF Inv, TypeInv, TypeOK
<1>5. ListInv'
    BY DEF ListInv, Past
<1>6. EpochInv'
    <2>1. \A n \in Steps, r \in 0..MaxRevisions : calls'[n][r].epoch <= SavedEpoch'
        BY DEF Inv, EpochInv, SavedEpoch
    <2>2. journal' # Nothing => SavedEpoch' <= journal'.doc.epoch
        BY DEF Inv, EpochInv, SavedEpoch
    <2> QED BY <1>1, <1>2, <2>1, <2>2 DEF EpochInv, Past
<1>7. WorkInv'
    <2>1. ASSUME NEW n \in Steps, live'[n] # "no"
          PROVE  /\ pc' \in Past /\ OnDisk(n)'
                 /\ mem'.steps[n].status \in {"running", "cancelled"}
                 /\ journal' # Nothing => n \notin journal'.changed
                 /\ n # s
        BY <2>1 DEF Inv, WorkInv, OnDisk
    <2>2. pc' \in {"up", "stopping"} => journal' = Nothing
        BY NothingLeft DEF Inv, WorkInv
    <2> QED BY <2>1, <2>2 DEF WorkInv, Past
<1> QED BY <1>4, <1>5, <1>6, <1>7 DEF Inv

\* Where a process that is past its start has the run.
LEMMA PastHasRun ==
    ASSUME Inv, pc \in Past
    PROVE  /\ mem \in Documents /\ mem # Nothing
           /\ mem.steps \in [Steps -> Entries]
           /\ def \in [Steps -> 0..MaxEdits] /\ live \in [Steps -> WorkerStates]
<1>1. mem \in Documents /\ mem # Nothing
    BY DEF Inv, TypeInv, TypeOK, Past, Holding
<1> QED BY <1>1 DEF Inv, TypeInv, TypeOK, Documents

LEMMA StartStepKeeps == ASSUME Inv, NEW s \in Steps, StartStep(s) PROVE Inv'
<1> DEFINE e == [status |-> "running", def |-> def[s]]
<1>1. /\ pc = "up" /\ todo = <<>> /\ mem.steps[s].status = "pending"
      /\ mem' = [mem EXCEPT !.steps[s] = e] /\ draft' = mem' /\ todo' = StartWrites(s)
      /\ UNCHANGED <<def, summary, receipt, journal, calls, pc, broken, refreshed, live, alien, open>>
    BY DEF StartStep, Note, Handle, StatusOf, disk
<1>2. /\ mem \in Documents /\ def \in [Steps -> 0..MaxEdits] /\ live \in [Steps -> WorkerStates]
    BY <1>1, PastHasRun DEF Past
<1>3. e \in Entries /\ e.status = "running"
    BY <1>2 DEF Entries, Statuses
<1> HIDE DEF e
<1>4. /\ mem' \in Documents /\ mem'.epoch = mem.epoch /\ mem' # Nothing
      /\ mem'.steps[s].status = "running"
      /\ \A n \in Steps : n # s => mem'.steps[n] = mem.steps[n]
    <2> DEFINE new == [mem EXCEPT !.steps[s] = e]
    <2>1. /\ new \in Documents /\ new.epoch = mem.epoch /\ new # Nothing
          /\ new.steps[s] = e
          /\ \A n \in Steps : n # s => new.steps[n] = mem.steps[n]
        BY <1>2, <1>3, EntryChanged
    <2>2. mem' = new
        BY <1>1
    <2> HIDE DEF new
    <2> QED BY <1>3, <2>1, <2>2
<1> DEFINE x == Op("work", {s})
<1>5. x \in Ops /\ x.what = "work" /\ x.of = {s} /\ todo' = StepWrites(s) \o <<x>>
    BY <1>1, OpType DEF Whats, StartWrites
<1> HIDE DEF x
<1>6. /\ todo' \in Seq(Ops) /\ Ends(todo') /\ todo' # <<>>
      /\ \A w : Has(todo', w) <=> w \in {"receipt", "summary"} \/ "work" = w
      /\ \A w, n : Names(todo', w, n) <=> (w = "receipt" /\ n = s) \/ ("work" = w /\ n \in {s})
    BY <1>5, StepListThen
<1>7. live[s] = "no"
    BY <1>1 DEF Inv, WorkInv
<1>8. pc \in Past /\ pc = "up"
    BY <1>1 DEF Past
<1>9. /\ \A w : Has(todo', w) => w \in {"receipt", "summary", "work", "raise"}
      /\ ~Has(todo', "raise")
      /\ \A w, n : Names(todo', w, n) => w \in {"receipt", "work"} /\ n = s
      /\ Names(todo', "receipt", s)
    BY <1>6
<1> QED BY <1>1, <1>2, <1>4, <1>6, <1>7, <1>8, <1>9, NoteKeeps

LEMMA ResolveStepKeeps == ASSUME Inv, NEW s \in Steps, ResolveStep(s) PROVE Inv'
<1>1. PICK status \in {"skipped", "cancelled"} :
            mem' = WithStatus(mem, s, status) /\ draft' = mem' /\ todo' = StepWrites(s)
    BY DEF ResolveStep, Note, Handle
<1>2. /\ pc \in {"up", "stopping", "resolving"} /\ todo = <<>>
      /\ mem.steps[s].status \in {"pending", "waiting"}
      /\ UNCHANGED <<def, summary, receipt, journal, calls, pc, broken, refreshed, live, alien, open>>
    BY DEF ResolveStep, StatusOf, disk
<1>3. mem \in Documents /\ live \in [Steps -> WorkerStates]
    BY <1>2, PastHasRun DEF Past
<1>4. /\ mem' \in Documents /\ mem'.epoch = mem.epoch /\ mem' # Nothing
      /\ \A n \in Steps : n # s => mem'.steps[n] = mem.steps[n]
    <2>1. status \in Statuses
        BY DEF Statuses
    <2>2. /\ WithStatus(mem, s, status) \in Documents /\ WithStatus(mem, s, status) # Nothing
          /\ WithStatus(mem, s, status).epoch = mem.epoch
          /\ \A n \in Steps : n # s => WithStatus(mem, s, status).steps[n] = mem.steps[n]
        BY <1>3, <2>1, StatusChanged
    <2> QED BY <1>1, <2>2
<1>5. /\ todo' \in Seq(Ops) /\ Ends(todo') /\ todo' # <<>>
      /\ \A w : Has(todo', w) <=> w \in {"receipt", "summary"}
      /\ \A w, n : Names(todo', w, n) <=> w = "receipt" /\ n = s
    BY <1>1, StepList
<1>6. live[s] = "no"
    BY <1>2 DEF Inv, WorkInv
<1> QED BY <1>1, <1>2, <1>3, <1>4, <1>5, <1>6, NoteKeeps DEF Past

LEMMA WakeKeeps == ASSUME Inv, NEW s \in Steps, Wake(s) PROVE Inv'
<1>1. /\ pc \in {"up", "stopping"} /\ todo = <<>> /\ mem.steps[s].status = "waiting"
      /\ mem' = WithStatus(mem, s, "pending")
      /\ UNCHANGED <<def, summary, receipt, journal, calls, pc, draft, todo, broken, refreshed, live,
                     alien, open>>
    BY DEF Wake, StatusOf, disk
<1>2. mem \in Documents
    BY <1>1, PastHasRun DEF Past
<1>3. /\ mem' \in Documents /\ mem'.epoch = mem.epoch /\ mem' # Nothing
      /\ \A n \in Steps : n # s => mem'.steps[n] = mem.steps[n]
    BY <1>1, <1>2, StatusChanged DEF Statuses
<1>4. TypeInv'
    BY <1>1, <1>3 DEF Inv, TypeInv, TypeOK
<1>5. ListInv'
    BY <1>1 DEF Inv, ListInv
<1>6. EpochInv'
    BY <1>1, <1>3 DEF Inv, EpochInv, SavedEpoch
<1>7. WorkInv'
    <2>1. live[s] = "no"
        BY <1>1 DEF Inv, WorkInv
    <2> QED BY <1>1, <1>3, <2>1, NothingLeft DEF Inv, WorkInv, OnDisk
<1> QED BY <1>4, <1>5, <1>6, <1>7 DEF Inv

\* A verdict.
LEMMA VerdictKeeps == ASSUME Inv, NEW s \in Steps, Record(s), ~Revising(s) PROVE Inv'
<1>1. /\ pc \in {"up", "stopping", "ending"} /\ todo = <<>> /\ live' = [live EXCEPT ![s] = "no"]
      /\ mem' = WithStatus(mem, s, Verdict(s)) /\ draft' = mem'
      /\ todo' = StepWrites(s) \o IF live[s] = "unsaved" THEN <<Op("raise", {})>> ELSE <<>>
      /\ UNCHANGED <<def, summary, receipt, journal, calls, pc, broken, refreshed, alien, open>>
    BY DEF Record, Note, Handle, disk
<1>2. mem \in Documents /\ live \in [Steps -> WorkerStates]
    BY <1>1, PastHasRun DEF Past
<1>3. live' \in [Steps -> WorkerStates] /\ live'[s] = "no" /\ \A n \in Steps : live'[n] # "no" => live[n] # "no"
    BY <1>1, <1>2 DEF WorkerStates
<1>4. /\ mem' \in Documents /\ mem'.epoch = mem.epoch /\ mem' # Nothing
      /\ \A n \in Steps : n # s => mem'.steps[n] = mem.steps[n]
    <2>1. Verdict(s) \in Statuses
        BY DEF Verdict, Statuses
    <2> DEFINE status == Verdict(s)
    <2> HIDE DEF status
    <2>2. /\ WithStatus(mem, s, status) \in Documents /\ WithStatus(mem, s, status) # Nothing
          /\ WithStatus(mem, s, status).epoch = mem.epoch
          /\ \A n \in Steps : n # s => WithStatus(mem, s, status).steps[n] = mem.steps[n]
        BY <1>2, <2>1, StatusChanged DEF status
    <2> QED BY <1>1, <2>2 DEF status
<1>5. /\ todo' \in Seq(Ops) /\ Ends(todo') /\ todo' # <<>>
      /\ \A w : Has(todo', w) => w \in {"receipt", "summary", "raise"}
      /\ \A w, n : Names(todo', w, n) => w = "receipt" /\ n = s
    <2>1. CASE live[s] = "unsaved"
        <3> DEFINE x == Op("raise", {})
        <3>1. x \in Ops /\ x.what = "raise" /\ x.of = {} /\ todo' = StepWrites(s) \o <<x>>
            BY <1>1, <2>1, OpType DEF Whats
        <3> HIDE DEF x
        <3> QED BY <3>1, StepListThen
    <2>2. CASE live[s] # "unsaved"
        <3>1. StepWrites(s) \in Seq(Ops)
            BY StepList
        <3>2. todo' = StepWrites(s)
            BY <1>1, <2>2, <3>1, ConcatEmptySeq
        <3> QED BY <3>2, StepList
    <2> QED BY <2>1, <2>2
<1>6. pc \in Past /\ pc # "closing" /\ ~Has(todo', "work") /\ ~Names(todo', "work", s)
    <2>1. pc \in Past /\ pc # "closing"
        BY <1>1 DEF Past
    <2>2. ~Has(todo', "work") /\ ~Names(todo', "work", s)
        BY <1>5
    <2> QED BY <2>1, <2>2
<1> QED BY <1>1, <1>2, <1>3, <1>4, <1>5, <1>6, NoteKeeps

\* A plan that is sent back: nothing between it and its gate is at work.
LEMMA ReviseKeeps == ASSUME Inv, NEW s \in Steps, Record(s), Revising(s) PROVE Inv'
<1> DEFINE P == PathBack(PlanOf[s], s)
           entries == [n \in Steps |-> IF n \in P THEN [status |-> "pending", def |-> 0]
                                       ELSE mem.steps[n]]
<1>1. /\ pc = "up" /\ todo = <<>> /\ live' = [live EXCEPT ![s] = "no"]
      /\ draft' = [mem EXCEPT !.revised[s] = @ + 1, !.steps = entries]
      /\ todo' = Publish(P) \o <<Op("adopt", {}), Op("unlink", {})>>
      /\ UNCHANGED <<def, summary, receipt, journal, calls, pc, mem, broken, refreshed, alien, open>>
    BY DEF Record, Revising, Handle, disk
<1>2. mem.revised[s] < MaxRevisions /\ \A n \in P \ {s} : live[n] = "no"
    BY DEF Revising, MayRevise
<1>3. /\ mem \in Documents /\ mem.steps \in [Steps -> Entries]
      /\ mem.revised \in [Gates -> 0..MaxRevisions] /\ live \in [Steps -> WorkerStates]
    BY <1>1, PastHasRun DEF Past, Documents
<1>4. P \in SUBSET Steps
    BY DEF PathBack, Downstream
<1>5. [status |-> "pending", def |-> 0] \in Entries
    BY StoreAssumption DEF Entries, Statuses
<1> HIDE DEF P
<1>6. entries \in [Steps -> Entries] /\ \A n \in Steps : n \notin P => entries[n] = mem.steps[n]
    BY <1>3, <1>5
<1> HIDE DEF entries
<1>7. /\ draft' \in Documents /\ draft'.epoch = mem.epoch /\ draft'.steps = entries
      /\ draft' # Nothing
    <2> DEFINE revised == [mem.revised EXCEPT ![s] = @ + 1]
    <2>1. revised \in [Gates -> 0..MaxRevisions]
        <3>1. CASE s \in Gates
            <4>1. mem.revised[s] \in 0..MaxRevisions
                BY <1>3, <3>1
            <4>2. mem.revised[s] + 1 \in 0..MaxRevisions
                BY <1>2, <4>1, StoreAssumption
            <4> QED BY <1>3, <4>2
        <3>2. CASE s \notin Gates
            BY <1>3, <3>2
        <3> QED BY <3>1, <3>2
    <2>2. draft' = [mem EXCEPT !.revised = revised, !.steps = entries]
        BY <1>1
    <2> HIDE DEF revised
    <2>3. draft' \in Documents /\ draft'.epoch = mem.epoch /\ draft'.steps = entries
        BY <1>3, <1>6, <2>1, <2>2 DEF Documents
    <2> QED BY <2>3, NothingAssumption
<1>8. /\ todo' \in Seq(Ops) /\ Ends(todo') /\ todo' # <<>>
      /\ \A w : Has(todo', w) <=> w \in {"journal", "receipt", "summary", "adopt", "unlink"}
      /\ \A w, n : Names(todo', w, n) <=> w \in {"journal", "receipt"} /\ n \in P
    BY <1>1, <1>4, AdoptAfter
<1>9. \A i \in DOMAIN todo' : todo'[i].of \subseteq Steps
    BY <1>8, WritesAreSteps
<1>10. live' \in [Steps -> WorkerStates] /\ \A n \in Steps : live'[n] # "no" => n \notin P /\ live[n] # "no"
    BY <1>1, <1>2, <1>3 DEF WorkerStates
<1>11. summary # Nothing /\ SavedEpoch = mem.epoch /\ mem # Nothing
    BY <1>1 DEF Inv, TypeInv, EpochInv, Past, Holding
<1>12. mem.epoch \in Nat
    BY <1>3, StoreAssumption DEF Documents
<1>13. pc' = "up" /\ pc' \in Past
    BY <1>1 DEF Past
<1>14. TypeInv'
    BY <1>1, <1>7, <1>8, <1>9, <1>10, <1>11 DEF Inv, TypeInv, TypeOK
<1>15. ListInv'
    BY <1>1, <1>8, <1>11 DEF ListInv
<1>16. EpochInv'
    <2>1. SavedEpoch' = mem.epoch
        BY <1>1, <1>11 DEF SavedEpoch
    <2>2. \A n \in Steps, r \in 0..MaxRevisions : calls'[n][r].epoch <= SavedEpoch'
        BY <1>1, <1>11, <2>1 DEF Inv, EpochInv
    <2>3. journal' # Nothing => SavedEpoch' <= journal'.doc.epoch
        BY <1>1, <1>11, <2>1 DEF Inv, EpochInv
    <2> QED BY <1>1, <1>7, <1>12, <1>13, <2>1, <2>2, <2>3 DEF EpochInv
<1>17. WorkInv'
    <2>1. ASSUME NEW n \in Steps, live'[n] # "no"
          PROVE  /\ OnDisk(n)' /\ mem'.steps[n].status \in {"running", "cancelled"}
                 /\ journal' # Nothing => n \notin journal'.changed
                 /\ draft'.steps[n] = mem'.steps[n] /\ n \notin P
        BY <1>1, <1>6, <1>7, <1>10, <2>1 DEF Inv, WorkInv, OnDisk
    <2> QED BY <1>8, <1>13, <2>1 DEF WorkInv
<1> QED BY <1>14, <1>15, <1>16, <1>17 DEF Inv

-----------------------------------------------------------------------------
LEMMA InvStep == ASSUME Inv, [Next]_vars PROVE Inv'
<1>1. CASE UNCHANGED vars
    BY <1>1, Stutters
<1>2. CASE RunWork
    <2>1. CASE WriteSummary \/ WriteJournal \/ Unlink
        BY <2>1, WriteSummaryKeeps, WriteJournalKeeps, UnlinkKeeps
    <2>2. CASE Adopt \/ Raise \/ WriteFails
        BY <2>2, AdoptKeeps, RaiseKeeps, WriteFailsKeeps
    <2>3. CASE Start \/ Load \/ Resume \/ Go
        BY <2>3, StartKeeps, LoadKeeps, ResumeKeeps, GoKeeps
    <2>4. CASE Stop \/ LeaveLoop \/ EndDrain \/ FinalSave
        BY <2>4, LeavingKeeps
    <2>5. CASE Refuse \/ GiveUpLock \/ Crash
        BY <2>5, DownKeeps
    <2> QED BY <1>2, <2>1, <2>2, <2>3, <2>4, <2>5 DEF RunWork
<1>3. ASSUME NEW s \in Steps, StepWork(s) PROVE Inv'
    <2>1. CASE WriteReceipt(s) \/ BeginWork(s)
        BY <2>1, WriteReceiptKeeps, BeginWorkKeeps
    <2>2. CASE StartStep(s) \/ ResolveStep(s) \/ Wake(s)
        BY <2>2, StartStepKeeps, ResolveStepKeeps, WakeKeeps
    <2>3. CASE Record(s)
        BY <2>3, VerdictKeeps, ReviseKeeps
    <2>4. CASE Request(s) \/ Answer(s) \/ Return(s) \/ Straggle(s)
        BY <2>4, WorkersKeep
    <2>5. CASE Retry(s) \/ Edit(s)
        BY <2>5, RetryKeeps, EditKeeps
    <2> QED BY <1>3, <2>1, <2>2, <2>3, <2>4, <2>5 DEF StepWork
<1> QED BY <1>1, <1>2, <1>3 DEF Next

THEOREM InvAlways == Spec => []Inv
BY InvInit, InvStep, PTL DEF Spec

-----------------------------------------------------------------------------
\* Every file, the record in memory and the writes that are due are what the
\* code keeps there (checkpoints.py, operations.py).
THEOREM TypeCorrect == Spec => []TypeOK
<1>1. Inv => TypeOK
    BY DEF Inv, TypeInv
<1> QED BY <1>1, InvAlways, PTL

\* "The execution record is a prerequisite for work": while a worker is inside
\* its plugin, a process that loaded the run now, with or without a journal to
\* replay, would read that its step is running.
THEOREM WorkIsOnDiskHolds == Spec => []WorkIsOnDisk
<1>1. ASSUME Inv PROVE WorkIsOnDisk
    <2> SUFFICES ASSUME NEW s \in Steps, live[s] # "no"
                 PROVE  StatusOf(Loaded, s) = "running"
        BY DEF WorkIsOnDisk
    <2>1. OnDisk(s) /\ (journal # Nothing => s \notin journal.changed)
        BY <1>1 DEF Inv, WorkInv
    <2>2. LoadedEntry(s) = receipt[s]
        BY <2>1 DEF LoadedEntry, OnDisk
    <2>3. LoadedSummary \in Documents
        <3>1. summary # Nothing
            BY <1>1 DEF Inv, TypeInv, WorkInv, Past
        <3> QED BY <1>1, <3>1 DEF Inv, TypeInv, TypeOK, LoadedSummary, Journals
    <2>4. Loaded.steps = [n \in Steps |-> LoadedEntry(n)]
        BY <2>3 DEF Loaded, Documents
    <2> QED BY <2>1, <2>2, <2>4 DEF StatusOf, OnDisk
<1> QED BY <1>1, InvAlways, PTL

\* Who touches the receipts of calls.
LEMMA CallsMove ==
    ASSUME Next, calls' # calls
    PROVE  \E n \in Steps : Request(n) \/ Answered(n)
<1>1. ~RunWork
    BY DEF RunWork, WriteSummary, WriteJournal, Unlink, Adopt, Raise, WriteFails, Start, Load, Resume,
           Refuse, Go, Stop, LeaveLoop, EndDrain, FinalSave, GiveUpLock, Crash
<1>2. PICK n \in Steps : StepWork(n)
    BY <1>1 DEF Next
<1>3. ~(WriteReceipt(n) \/ BeginWork(n) \/ StartStep(n) \/ ResolveStep(n) \/ Wake(n) \/ Record(n)
        \/ Return(n) \/ Retry(n) \/ Edit(n))
    BY DEF WriteReceipt, BeginWork, StartStep, ResolveStep, Wake, Record, Return, Retry, Edit
<1>4. Request(n) \/ Answer(n) \/ Straggle(n)
    BY <1>2, <1>3 DEF StepWork
<1>5. Answer(n) \/ Straggle(n) => Answered(n)
    BY DEF Answer, Straggle
<1> QED BY <1>4, <1>5

\* A paid call is begun again only after an answer that is known to be bad,
\* and only in a later execution of the run (Operation.cached, begin).
THEOREM CallsOnceHolds == Spec => CallsOnce
<1>1. ASSUME Inv, Next PROVE BegunAgainKnowing
    <2> SUFFICES ASSUME NEW s \in Steps, NEW r \in 0..MaxRevisions,
                        calls'[s][r] # calls[s][r], calls'[s][r].state = "started"
                 PROVE  \/ calls[s][r].state = "none"
                        \/ calls[s][r].state = "bad" /\ calls[s][r].epoch < calls'[s][r].epoch
        BY DEF BegunAgainKnowing
    <2>1. calls \in [Steps -> [0..MaxRevisions -> Calls]]
        BY <1>1 DEF Inv, TypeInv, TypeOK
    <2>2. calls[s][r] \in Calls
        BY <2>1
    <2>3. PICK n \in Steps : Request(n) \/ Answered(n)
        BY <1>1, CallsMove
    <2>4. ~Answered(n)
        <3> SUFFICES ASSUME NEW q \in 0..MaxRevisions, NEW answer \in {"ok", "bad"},
                            calls' = [calls EXCEPT ![n][q].state = answer]
                     PROVE  FALSE
            BY DEF Answered
        <3>1. CASE s = n /\ r = q
            <4>1. calls'[s][r] = [calls[s][r] EXCEPT !.state = answer]
                BY <2>1, <3>1
            <4>2. calls'[s][r].state = answer
                BY <2>2, <4>1 DEF Calls
            <4> QED BY <4>2
        <3>2. CASE ~(s = n /\ r = q)
            BY <2>1, <3>2
        <3> QED BY <3>1, <3>2
    <2>5. Request(n)
        BY <2>3, <2>4
    <2> DEFINE q == Round(mem, n)
    <2>6. /\ live[n] # "no" /\ ~Cached(calls[n][q]) /\ calls[n][q].state # "started"
          /\ calls' = [calls EXCEPT ![n][q] = [state |-> "started", epoch |-> mem.epoch]]
        BY <2>5 DEF Request
    <2>7. mem.epoch = SavedEpoch /\ mem.epoch \in Nat
        BY <1>1, <2>6, WorkerHasRun
    <2> HIDE DEF q
    <2>8. s = n /\ r = q /\ calls'[s][r].epoch = mem.epoch
        BY <2>1, <2>6
    <2>9. calls[s][r].epoch <= mem.epoch /\ calls[s][r].epoch \in Nat
        BY <1>1, <2>2, <2>7 DEF Inv, EpochInv, Calls
    <2> QED BY <2>2, <2>6, <2>7, <2>8, <2>9 DEF Cached, Calls
<1>2. ASSUME Inv, [Next]_vars PROVE [BegunAgainKnowing]_vars
    BY <1>1, <1>2
<1> QED BY <1>2, InvAlways, PTL DEF Spec, CallsOnce

-----------------------------------------------------------------------------
(* One execution at a time, where no write fails. What keeps a resume off  *)
(* the work of an earlier process is a sentence in the summary, or a call  *)
(* that nobody will answer any more.                                       *)

\* A call was begun, and who could answer it is gone.
Lost == \E s \in Steps, r \in 0..MaxRevisions :
            calls[s][r].state = "started" /\ live[s] = "no" /\ alien[s] = "no"

\* No process takes the run up beside the worker of an earlier one.
AlienInv ==
    \A s \in Steps \ Human : alien[s] # "no" =>
        /\ pc \in {"down", "replaying"} /\ todo = <<>> /\ journal = Nothing /\ summary # Nothing
        /\ Lost \/ (summary.left /\ OnDisk(s))

\* A worker that comes back without a receipt has a call without an answer,
\* and so has a run that is broken by it.
LostInv ==
    /\ \A s \in Steps : live[s] = "unsaved" =>
            s \notin Human /\ \E r \in 0..MaxRevisions : calls[s][r].state = "started"
    /\ broken \/ Has(todo, "raise") => Lost
    /\ broken => pc \in {"ending", "closing"}

\* A run that ends with somebody at work says so.
LeftInv ==
    /\ pc \in {"ending", "resolving", "closing"} => journal = Nothing
    /\ \A s \in Steps : live[s] # "no" =>
        /\ pc = "resolving" => mem.left
        /\ pc = "closing" /\ ~broken => IF todo = <<>> THEN summary.left ELSE draft.left

OneInv == AlienInv /\ LostInv /\ LeftInv

-----------------------------------------------------------------------------
\* The calls of a step whose worker is gone stay as they are.
LEMMA LostStays ==
    ASSUME Lost, \A n \in Steps : live[n] = "no" /\ alien[n] = "no" =>
                    live'[n] = "no" /\ alien'[n] = "no" /\ calls'[n] = calls[n]
    PROVE  Lost'
BY DEF Lost

\* Whatever a process does beside its workers, once it has the run.
LEMMA AsideKeeps ==
    ASSUME Inv, OneInv, UNCHANGED <<calls, live, alien, broken>>,
           pc \notin {"down", "replaying"} \/ todo # <<>> \/ summary = Nothing,
           Has(todo', "raise") => Has(todo, "raise"),
           broken' => pc' \in {"ending", "closing"},
           LeftInv'
    PROVE  OneInv'
<1>1. Lost => Lost'
    BY LostStays
<1>2. AlienInv'
    BY DEF OneInv, AlienInv
<1>3. LostInv'
    BY <1>1 DEF OneInv, LostInv
<1> QED BY <1>2, <1>3 DEF OneInv

\* One write.
LEMMA WritesStayAlone ==
    ASSUME Inv, OneInv, NEW s \in Steps,
           WriteReceipt(s) \/ WriteSummary \/ WriteJournal \/ Unlink \/ Adopt
    PROVE  OneInv'
<1>1. todo # <<>> /\ UNCHANGED <<calls, live, alien, broken, pc>>
    BY DEF WriteReceipt, WriteSummary, WriteJournal, Unlink, Adopt, Due
<1>2. \A w : w \in {"raise", "journal"} /\ Has(todo', w) => Has(todo, w)
    <2>1. CASE WriteReceipt(s)
        BY <2>1, OneReceiptLess
    <2>2. CASE ~WriteReceipt(s)
        <3>1. todo' = Tail(todo)
            BY <2>2 DEF WriteSummary, WriteJournal, Unlink, Adopt
        <3> QED BY <1>1, <3>1, OneWriteLess
    <2> QED BY <2>1, <2>2
<1>3. pc = "closing" => WriteSummary
    <2>1. WriteReceipt(s) => Has(todo, "receipt")
        BY OneReceiptLess
    <2>2. /\ WriteJournal => Has(todo, "journal")
          /\ Unlink => Has(todo, "unlink")
          /\ Adopt => Has(todo, "adopt")
        BY TailFacts DEF WriteJournal, Unlink, Adopt, Due, Inv, TypeInv
    <2> QED BY <2>1, <2>2 DEF Inv, ListInv
<1>4. pc \in {"ending", "resolving", "closing"} => UNCHANGED <<journal, mem, draft>>
    <2>1. WriteJournal => Has(todo, "journal")
        BY TailFacts DEF WriteJournal, Due, Inv, TypeInv
    <2>2. Unlink => Has(todo, "unlink")
        BY TailFacts DEF Unlink, Due, Inv, TypeInv
    <2>3. Adopt => Has(todo, "adopt")
        BY TailFacts DEF Adopt, Due, Inv, TypeInv
    <2>4. WriteReceipt(s) \/ WriteSummary => UNCHANGED <<journal, mem, draft>>
        BY DEF WriteReceipt, WriteSummary
    <2> QED BY <2>1, <2>2, <2>3, <2>4 DEF Inv, ListInv
<1>5. LeftInv'
    <2>1. pc = "closing" => summary' = draft
        BY <1>3 DEF WriteSummary
    <2> QED BY <1>1, <1>4, <2>1 DEF OneInv, LeftInv
<1>6. broken' => pc' \in {"ending", "closing"}
    BY <1>1 DEF OneInv, LostInv
<1> QED BY <1>1, <1>2, <1>5, <1>6, AsideKeeps

\* A decision of the loop, or a process at its start.
LEMMA DecisionsStayAlone ==
    ASSUME Inv, OneInv, NEW s \in Steps, StartStep(s) \/ ResolveStep(s) \/ Wake(s) \/ Start \/ Go
    PROVE  OneInv'
<1>1. UNCHANGED <<calls, live, alien, broken, journal, summary>>
    BY DEF StartStep, ResolveStep, Wake, Start, Go, disk
<1>2. pc \notin {"down", "replaying"} \/ summary = Nothing
    BY DEF StartStep, ResolveStep, Wake, Start, Go
<1>3. ~Has(todo', "raise")
    <2>1. CASE StartStep(s)
        <3> DEFINE x == Op("work", {s})
        <3>1. x \in Ops /\ x.what = "work"
            BY OpType DEF Whats
        <3>2. todo' = StepWrites(s) \o <<x>>
            BY <2>1 DEF StartStep, Note, Handle, StartWrites
        <3> HIDE DEF x
        <3> QED BY <3>1, <3>2, StepListThen
    <2>2. CASE ResolveStep(s)
        <3>1. todo' = StepWrites(s)
            BY <2>2 DEF ResolveStep, Note, Handle
        <3> QED BY <3>1, StepList
    <2>3. CASE Wake(s) \/ Go
        <3>1. todo' = <<>>
            BY <2>3 DEF Wake, Go
        <3> QED BY <3>1, NothingLeft
    <2>4. CASE Start
        <3>1. todo' = <<Op("summary", {})>>
            BY <2>4 DEF Start, Handle
        <3> QED BY <3>1, SummaryList
    <2> QED BY <2>1, <2>2, <2>3, <2>4
<1>4. broken' => pc' \in {"ending", "closing"}
    <2>1. pc \in {"down", "starting"} \/ pc' = pc
        BY DEF StartStep, ResolveStep, Wake, Start, Go
    <2> QED BY <1>1, <2>1 DEF OneInv, LostInv
<1>5. LeftInv'
    <2>1. CASE pc' \notin {"ending", "resolving", "closing"}
        BY <2>1 DEF LeftInv
    <2>2. CASE pc' \in {"ending", "resolving", "closing"}
        <3>1. pc = "resolving" /\ pc' = pc /\ mem' = WithStatus(mem, s, "cancelled")
            BY <2>2 DEF StartStep, ResolveStep, Wake, Start, Go, Note
        <3>2. mem \in Documents
            BY <3>1 DEF Inv, TypeInv, TypeOK, Holding
        <3>3. mem'.left = mem.left
            BY <3>1, <3>2 DEF WithStatus, Documents
        <3> QED BY <1>1, <3>1, <3>3 DEF OneInv, LeftInv
    <2> QED BY <2>1, <2>2
<1> QED BY <1>1, <1>2, <1>3, <1>4, <1>5, AsideKeeps

\* The loop is told to stop, is left, is drained, and saves for the last time.
LEMMA LeavingStaysAlone ==
    ASSUME Inv, OneInv, Stop \/ LeaveLoop \/ EndDrain \/ FinalSave
    PROVE  OneInv'
<1>1. /\ UNCHANGED <<calls, live, alien, broken, journal, summary>> /\ todo = <<>>
      /\ pc \in {"up", "stopping", "ending", "resolving"}
    BY DEF Stop, LeaveLoop, EndDrain, FinalSave, disk
<1>2. ~Has(todo', "raise")
    <2>1. todo' \in {<<>>, <<Op("summary", {})>>}
        BY DEF Stop, LeaveLoop, EndDrain, FinalSave, Handle
    <2> QED BY <2>1, NothingLeft, SummaryList
<1>3. broken' => pc' \in {"ending", "closing"}
    <2>1. broken => pc = "ending"
        BY <1>1 DEF OneInv, LostInv
    <2> QED BY <1>1, <2>1 DEF Stop, LeaveLoop, EndDrain, FinalSave
<1>4. pc' \in {"ending", "resolving", "closing"} => journal' = Nothing
    <2>1. pc \in {"up", "stopping"} => journal = Nothing
        BY <1>1, NothingLeft DEF Inv, WorkInv
    <2> QED BY <1>1, <2>1 DEF OneInv, LeftInv
<1>5. mem \in Documents
    BY <1>1 DEF Inv, TypeInv, TypeOK, Holding
<1>6. ASSUME NEW n \in Steps, live'[n] # "no"
      PROVE  /\ pc' = "resolving" => mem'.left
             /\ pc' = "closing" /\ ~broken' => IF todo' = <<>> THEN summary'.left ELSE draft'.left
    <2>1. CASE Stop \/ LeaveLoop
        BY <2>1 DEF Stop, LeaveLoop
    <2>2. CASE EndDrain /\ broken
        BY <1>1, <2>2 DEF EndDrain
    <2>3. CASE EndDrain /\ ~broken
        <3>1. live # Nobody
            BY <1>1, <1>6 DEF Nobody
        <3>2. pc' = "resolving" /\ mem'.left = (live # Nobody)
            BY <1>5, <2>3 DEF EndDrain, Documents
        <3> QED BY <3>1, <3>2
    <2>4. CASE FinalSave
        <3>1. pc = "resolving" /\ pc' = "closing" /\ draft' = mem /\ todo' = <<Op("summary", {})>>
            BY <2>4 DEF FinalSave, Handle
        <3>2. mem.left
            BY <1>1, <1>6, <3>1 DEF OneInv, LeftInv
        <3>3. todo' # <<>>
            BY <3>1, SummaryList
        <3> QED BY <3>1, <3>2, <3>3
    <2> QED BY <2>1, <2>2, <2>3, <2>4
<1>7. LeftInv'
    BY <1>4, <1>6 DEF LeftInv
<1> QED BY <1>1, <1>2, <1>3, <1>7, AsideKeeps

\* Where a worker is at it, nothing of an earlier process is, but questions.
LEMMA NoAlienBeside ==
    ASSUME Inv, OneInv, NEW s \in Steps \ Human, pc \notin {"down", "replaying"}
    PROVE  alien[s] = "no"
BY DEF OneInv, AlienInv

LEMMA BeginWorkStaysAlone == ASSUME Inv, OneInv, NEW s \in Steps, BeginWork(s) PROVE OneInv'
<1>1. /\ Due("work") /\ live' = [live EXCEPT ![s] = "working"] /\ todo' = Tail(todo)
      /\ UNCHANGED <<alien, calls, broken, pc, mem, journal>>
    BY DEF BeginWork, disk
<1>2. todo \in Seq(Ops) /\ todo # <<>> /\ Head(todo).what = "work" /\ Ends(todo)
    BY <1>1 DEF Due, Inv, TypeInv, ListInv
<1>3. Has(todo, "work") /\ todo' = <<>>
    BY <1>1, <1>2, TailFacts DEF Final
<1>4. pc = "up"
    BY <1>3 DEF Inv, ListInv
<1>5. ~broken /\ live \in [Steps -> WorkerStates]
    BY <1>4 DEF OneInv, LostInv, Inv, TypeInv, TypeOK
<1>6. AlienInv'
    BY <1>1, <1>4 DEF OneInv, AlienInv
<1>7. LostInv'
    BY <1>1, <1>3, <1>5, NothingLeft DEF OneInv, LostInv
<1>8. LeftInv'
    BY <1>1, <1>4 DEF LeftInv
<1> QED BY <1>6, <1>7, <1>8 DEF OneInv

LEMMA RaiseStaysAlone == ASSUME Inv, OneInv, Raise PROVE OneInv'
<1>1. /\ Due("raise") /\ broken' = TRUE
      /\ pc' = IF pc = "ending" THEN "closing" ELSE "ending"
      /\ todo' = IF pc = "ending" THEN <<Op("summary", {})>> ELSE <<>>
      /\ UNCHANGED <<alien, live, calls, journal>>
    BY DEF Raise, disk
<1>2. Has(todo, "raise") /\ ~Has(todo, "unlink")
    <2>1. todo \in Seq(Ops) /\ todo # <<>> /\ Head(todo).what = "raise" /\ Ends(todo)
        BY <1>1 DEF Due, Inv, TypeInv, ListInv
    <2>2. Tail(todo) = <<>>
        BY <2>1, TailFacts DEF Final
    <2> QED BY <2>1, <2>2, TailFacts, NothingLeft
<1>3. pc \in {"up", "stopping", "ending"} /\ Lost
    BY <1>2 DEF Inv, ListInv, OneInv, LostInv
<1>4. journal = Nothing
    BY <1>2, <1>3 DEF Inv, WorkInv, OneInv, LeftInv
<1>5. Lost'
    BY <1>1, <1>3, LostStays
<1>6. AlienInv'
    BY <1>1, <1>3 DEF OneInv, AlienInv
<1>7. LostInv'
    BY <1>1, <1>5 DEF OneInv, LostInv
<1>8. LeftInv'
    BY <1>1, <1>4 DEF LeftInv
<1> QED BY <1>6, <1>7, <1>8 DEF OneInv

LEMMA RecordStaysAlone == ASSUME Inv, OneInv, NEW s \in Steps, Record(s) PROVE OneInv'
<1>1. /\ pc \in {"up", "stopping", "ending"} /\ live' = [live EXCEPT ![s] = "no"]
      /\ live[s] \in {"ok", "bad", "refused", "later", "revise", "unsaved"}
      /\ UNCHANGED <<calls, alien, broken, pc, journal>>
    BY DEF Record, disk
<1>2. live \in [Steps -> WorkerStates]
    BY DEF Inv, TypeInv, TypeOK
<1>3. \A n \in Steps : live[n] = "no" => live'[n] = "no"
    BY <1>1, <1>2
<1>4. Lost => Lost'
    BY <1>1, <1>3, LostStays
<1>5. ASSUME Has(todo', "raise") PROVE Lost'
    <2>1. live[s] = "unsaved"
        <3> SUFFICES ASSUME live[s] # "unsaved" PROVE FALSE
            OBVIOUS
        <3>1. CASE Revising(s)
            <4> DEFINE P == PathBack(PlanOf[s], s)
            <4>1. P \in SUBSET Steps
                BY DEF PathBack, Downstream, Upstream
            <4>2. todo' = Publish(P) \o <<Op("adopt", {}), Op("unlink", {})>>
                BY <3>1 DEF Record, Handle
            <4> HIDE DEF P
            <4>3. \A w : Has(todo', w) => w \in {"journal", "receipt", "summary", "adopt", "unlink"}
                BY <4>1, <4>2, AdoptAfter
            <4> QED BY <1>5, <4>3
        <3>2. CASE ~Revising(s)
            <4>1. todo' = StepWrites(s) \o <<>>
                BY <3>2 DEF Record, Note, Handle
            <4>2. StepWrites(s) \in Seq(Ops)
                BY StepList
            <4>3. todo' = StepWrites(s)
                BY <4>1, <4>2, ConcatEmptySeq
            <4> QED BY <1>5, <4>3, StepList
        <3> QED BY <3>1, <3>2
    <2>2. PICK r \in 0..MaxRevisions : calls[s][r].state = "started"
        BY <2>1 DEF OneInv, LostInv
    <2>3. s \notin Human
        BY <2>1 DEF OneInv, LostInv
    <2>4. alien'[s] = "no" /\ live'[s] = "no" /\ calls'[s][r].state = "started"
        BY <1>1, <1>2, <2>2, <2>3, NoAlienBeside
    <2> QED BY <2>4 DEF Lost
<1>6. AlienInv'
    BY <1>1 DEF OneInv, AlienInv
<1>7. LostInv'
    BY <1>1, <1>2, <1>4, <1>5 DEF OneInv, LostInv
<1>8. LeftInv'
    BY <1>1, <1>3 DEF OneInv, LeftInv
<1> QED BY <1>6, <1>7, <1>8 DEF OneInv

\* What a worker does by itself, and a plugin's answer.
LEMMA WorkersStayAlone ==
    ASSUME Inv, OneInv, ~DiskMayFail, NEW s \in Steps,
           Request(s) \/ Answer(s) \/ Return(s) \/ Retry(s)
    PROVE  OneInv'
<1>1. /\ live \in [Steps -> WorkerStates] /\ mem \in Documents \cup {Nothing}
      /\ calls \in [Steps -> [0..MaxRevisions -> Calls]]
    BY DEF Inv, TypeInv, TypeOK
<1>2. /\ live[s] # "no" /\ UNCHANGED <<disk, process, alien>>
      /\ live' \in {[live EXCEPT ![s] = w] : w \in WorkerStates \ {"no"}}
    BY DEF Request, Answer, Return, Retry, WorkerStates
<1>3. \A n \in Steps \ {s} : live'[n] = live[n] /\ calls'[n] = calls[n]
    <2>1. \A n \in Steps \ {s} : live'[n] = live[n]
        BY <1>1, <1>2
    <2>2. CASE Answer(s)
        BY <1>1, <2>1, <2>2 DEF Answer, Answered
    <2>3. CASE Request(s)
        BY <1>1, <2>1, <2>3 DEF Request
    <2>4. CASE Return(s) \/ Retry(s)
        BY <2>1, <2>4 DEF Return, Retry
    <2> QED BY <2>2, <2>3, <2>4
<1>4. \A n \in Steps : live[n] = "no" => n # s
    BY <1>2
<1>5. Lost => Lost'
    BY <1>2, <1>3, <1>4, LostStays
<1>6. live'[s] = "unsaved" =>
        s \notin Human /\ \E r \in 0..MaxRevisions : calls'[s][r].state = "started"
    <2>1. CASE Request(s)
        <3> SUFFICES ASSUME live'[s] = "unsaved"
                     PROVE  /\ s \notin Human
                            /\ \E r \in 0..MaxRevisions : calls'[s][r].state = "started"
            OBVIOUS
        <3> DEFINE r == Round(mem, s)
        <3>1. r \in 0..MaxRevisions
            BY <1>2, WorkerHasRun, RoundType
        <3>2. s \in Recoverable /\ calls[s][r].state = "started" /\ UNCHANGED calls
            BY <1>1, <2>1 DEF Request
        <3> HIDE DEF r
        <3> QED BY <3>1, <3>2, StoreAssumption
    <2>2. CASE Answer(s) \/ Return(s) \/ Retry(s)
        BY <1>1, <2>2 DEF Answer, Return, Retry
    <2> QED BY <2>1, <2>2
<1>7. pc \in Past
    BY <1>2 DEF Inv, WorkInv
<1>8. AlienInv'
    BY <1>2, <1>7 DEF OneInv, AlienInv, process, Past
<1>9. LostInv'
    BY <1>2, <1>3, <1>5, <1>6 DEF OneInv, LostInv, process
<1>10. LeftInv'
    BY <1>2, <1>3 DEF OneInv, LeftInv, process, disk
<1> QED BY <1>8, <1>9, <1>10 DEF OneInv

\* A straggler's call is answered, or it ends.
LEMMA StraggleStaysAlone == ASSUME Inv, OneInv, NEW s \in Steps, Straggle(s) PROVE OneInv'
<1>1. /\ alien \in [Steps -> WorkerStates] /\ calls \in [Steps -> [0..MaxRevisions -> Calls]]
    BY DEF Inv, TypeInv, TypeOK
<1>2. /\ alien[s] # "no" /\ UNCHANGED <<disk, process, live>>
      /\ alien' \in {[alien EXCEPT ![s] = w] : w \in WorkerStates}
    BY DEF Straggle, WorkerStates
<1>3. \A n \in Steps \ {s} : alien'[n] = alien[n] /\ calls'[n] = calls[n]
    <2>1. \A n \in Steps \ {s} : alien'[n] = alien[n]
        BY <1>1, <1>2
    <2> QED BY <1>1, <2>1 DEF Straggle, Answered
<1>4. Lost => Lost'
    BY <1>2, <1>3, LostStays
<1>5. live[s] = "unsaved" => FALSE
    <2> SUFFICES ASSUME live[s] = "unsaved" PROVE FALSE
        OBVIOUS
    <2>1. s \notin Human /\ pc \in Past
        BY DEF OneInv, LostInv, Inv, WorkInv
    <2> QED BY <1>2, <2>1, NoAlienBeside DEF Past
<1>6. AlienInv'
    BY <1>2, <1>3, <1>4 DEF OneInv, AlienInv, process, disk, OnDisk
<1>7. LostInv'
    BY <1>2, <1>3, <1>4, <1>5 DEF OneInv, LostInv, process
<1>8. LeftInv'
    BY <1>2 DEF OneInv, LeftInv, process, disk
<1> QED BY <1>6, <1>7, <1>8 DEF OneInv

\* A process gives the lock up: whoever is still at it is seen by the next one.
LEMMA GiveUpStaysAlone == ASSUME Inv, OneInv, GiveUpLock PROVE OneInv'
<1>1. /\ pc = "closing" /\ todo = <<>> /\ pc' = "down" /\ todo' = <<>> /\ broken' = FALSE
      /\ live' = Nobody /\ alien' = [s \in Steps |-> IF live[s] = "no" THEN alien[s] ELSE live[s]]
      /\ UNCHANGED <<summary, receipt, journal, calls>>
    BY DEF GiveUpLock, Forgotten, disk
<1>2. \A n \in Steps : live[n] = "no" /\ alien[n] = "no" => live'[n] = "no" /\ alien'[n] = "no"
    BY <1>1 DEF Nobody
<1>3. Lost => Lost'
    BY <1>1, <1>2, LostStays
<1>4. journal = Nothing /\ summary # Nothing
    BY <1>1 DEF OneInv, LeftInv, Inv, TypeInv, Past
<1>5. ASSUME NEW n \in Steps \ Human, alien'[n] # "no"
      PROVE  Lost \/ (summary.left /\ OnDisk(n))
    <2>1. live[n] # "no"
        BY <1>1, <1>5, NoAlienBeside
    <2>2. OnDisk(n)
        BY <2>1 DEF Inv, WorkInv
    <2>3. broken \/ summary.left
        BY <1>1, <2>1 DEF OneInv, LeftInv
    <2> QED BY <2>2, <2>3 DEF OneInv, LostInv
<1>6. AlienInv'
    BY <1>1, <1>3, <1>4, <1>5 DEF AlienInv, OnDisk
<1>7. LostInv'
    BY <1>1, NothingLeft DEF LostInv, Nobody
<1>8. LeftInv'
    BY <1>1 DEF LeftInv
<1> QED BY <1>6, <1>7, <1>8 DEF OneInv

\* A process that is gone, or one that only looks.
LEMMA LookingStaysAlone ==
    ASSUME Inv, OneInv, NEW s \in Steps, Crash \/ Refuse \/ Load \/ Edit(s)
    PROVE  OneInv'
<1>1. /\ UNCHANGED <<summary, receipt, journal, calls, alien>>
      /\ pc' \in {"down", "replaying"} /\ broken' \in {FALSE, broken}
    BY DEF Crash, Refuse, Load, Edit, Forgotten, disk, process
<1>2. live' = Nobody \/ UNCHANGED live
    BY DEF Crash, Refuse, Load, Edit
<1>3. \A n \in Steps : live[n] = "no" => live'[n] = "no"
    BY <1>2 DEF Nobody
<1>4. Lost => Lost'
    BY <1>1, <1>3, LostStays
<1>5. ~broken'
    <2>1. CASE Crash \/ Refuse
        BY <2>1 DEF Crash, Refuse, Forgotten
    <2>2. CASE Load \/ Edit(s)
        BY <2>2 DEF Load, Edit, process, OneInv, LostInv
    <2> QED BY <2>1, <2>2
<1>6. \A n \in Steps : live'[n] = "no"
    <2>1. CASE Crash
        BY <2>1 DEF Crash, Nobody
    <2>2. CASE Refuse \/ Load \/ Edit(s)
        BY <1>3, <2>2, NobodyBefore DEF Refuse, Load, Edit, Past
    <2> QED BY <2>1, <2>2
<1>7. ~Has(todo', "raise") /\ (journal = Nothing => todo' = <<>>)
    <2>1. CASE Crash \/ Refuse
        BY <2>1, NothingLeft DEF Crash, Refuse, Forgotten
    <2>2. CASE Edit(s)
        <3>1. todo' = <<>>
            BY <2>2 DEF Edit, process, Inv, ListInv
        <3> QED BY <3>1, NothingLeft
    <2>3. CASE Load
        <3>1. ~Has(todo', "raise")
            BY <2>3, InvStep DEF RunWork, Next, Inv, ListInv, Load
        <3>2. journal = Nothing => todo' = <<>>
            BY <2>3 DEF Load, Inv, ListInv
        <3> QED BY <3>1, <3>2
    <2> QED BY <2>1, <2>2, <2>3
<1>8. AlienInv'
    BY <1>1, <1>4, <1>7 DEF OneInv, AlienInv, OnDisk
<1>9. LostInv'
    BY <1>5, <1>6, <1>7 DEF LostInv
<1>10. LeftInv'
    BY <1>1 DEF LeftInv
<1> QED BY <1>8, <1>9, <1>10 DEF OneInv

\* A resume goes on only where nobody of before can be at work.
LEMMA ResumeStaysAlone == ASSUME Inv, OneInv, Resume PROVE OneInv'
<1>1. /\ pc = "replaying" /\ todo = <<>> /\ MayResume(Loaded) /\ pc' = "starting"
      /\ todo' = Publish(Again(Loaded)) \o <<Op("unlink", {})>>
      /\ UNCHANGED <<summary, receipt, journal, calls, broken, live, alien>>
    BY DEF Resume, Handle, disk
<1>2. \A n \in Steps \ Human : alien[n] = "no"
    <2> SUFFICES ASSUME NEW n \in Steps \ Human, alien[n] # "no" PROVE FALSE
        OBVIOUS
    <2>1. journal = Nothing /\ summary # Nothing /\ (Lost \/ (summary.left /\ OnDisk(n)))
        BY DEF OneInv, AlienInv
    <2>2. \A m \in Steps : Certain(Loaded, m)
        BY <1>1 DEF MayResume
    <2>3. ~Lost
        BY <2>2 DEF Lost, Certain, Complete
    <2>4. summary \in Documents
        BY <2>1 DEF Inv, TypeInv, TypeOK
    <2>5. Loaded.left = summary.left /\ Loaded.steps[n] = receipt[n]
        BY <2>1, <2>3, <2>4 DEF Loaded, LoadedSummary, LoadedEntry, OnDisk, Documents
    <2>6. StatusOf(Loaded, n) = "running" /\ Loaded.left
        BY <2>1, <2>3, <2>5 DEF StatusOf, OnDisk
    <2> QED BY <2>2, <2>6 DEF Certain
<1>3. ~broken /\ ~Has(todo', "raise")
    BY <1>1, InvStep DEF OneInv, LostInv, RunWork, Next, Inv, ListInv
<1>4. AlienInv'
    BY <1>1, <1>2 DEF AlienInv
<1>5. LostInv'
    BY <1>1, <1>3 DEF OneInv, LostInv
<1>6. LeftInv'
    BY <1>1, NobodyBefore DEF LeftInv
<1> QED BY <1>4, <1>5, <1>6 DEF OneInv

-----------------------------------------------------------------------------
LEMMA OneStep == ASSUME ~DiskMayFail, Inv, OneInv, [Next]_vars PROVE OneInv'
<1>1. CASE UNCHANGED vars
    BY <1>1 DEF vars, disk, process, OneInv, AlienInv, LostInv, LeftInv, Lost, OnDisk
<1> DEFINE first == 1
<1>2. first \in Steps
    BY NAssumption DEF Steps
<1>3. CASE RunWork
    <2>1. CASE WriteSummary \/ WriteJournal \/ Unlink \/ Adopt
        BY <1>2, <2>1, WritesStayAlone
    <2>2. CASE Raise
        BY <2>2, RaiseStaysAlone
    <2>3. CASE Start \/ Go
        BY <1>2, <2>3, DecisionsStayAlone
    <2>4. CASE Stop \/ LeaveLoop \/ EndDrain \/ FinalSave
        BY <2>4, LeavingStaysAlone
    <2>5. CASE Refuse \/ Crash \/ Load
        BY <1>2, <2>5, LookingStaysAlone
    <2>6. CASE GiveUpLock \/ Resume
        BY <2>6, GiveUpStaysAlone, ResumeStaysAlone
    <2>7. ~WriteFails
        BY DEF WriteFails
    <2> QED BY <1>3, <2>1, <2>2, <2>3, <2>4, <2>5, <2>6, <2>7 DEF RunWork
<1>4. ASSUME NEW s \in Steps, StepWork(s) PROVE OneInv'
    <2>1. CASE WriteReceipt(s)
        BY <2>1, WritesStayAlone
    <2>2. CASE BeginWork(s) \/ Record(s)
        BY <2>2, BeginWorkStaysAlone, RecordStaysAlone
    <2>3. CASE StartStep(s) \/ ResolveStep(s) \/ Wake(s)
        BY <2>3, DecisionsStayAlone
    <2>4. CASE Request(s) \/ Answer(s) \/ Return(s) \/ Retry(s)
        BY <2>4, WorkersStayAlone
    <2>5. CASE Straggle(s) \/ Edit(s)
        BY <2>5, StraggleStaysAlone, LookingStaysAlone
    <2> QED BY <1>4, <2>1, <2>2, <2>3, <2>4, <2>5 DEF StepWork
<1> QED BY <1>1, <1>3, <1>4 DEF Next

\* "One executor owns a run, including across processes" (checkpoints.py, lock):
\* as long as what is written is written, no process takes work up beside a
\* worker that an earlier one left at it. A worker that is left shows in the
\* summary, and one whose process was broken by a receipt it could not make in
\* a call that has no answer; resume refuses both.
THEOREM OneExecutionHolds ==
    ASSUME ~DiskMayFail
    PROVE  Spec => []OneExecution
<1>1. Init => OneInv
    BY NothingLeft DEF Init, Nobody, OneInv, AlienInv, LostInv, LeftInv
<1>2. Inv /\ OneInv /\ [Next]_vars => OneInv'
    BY OneStep
<1>3. Inv /\ OneInv => OneExecution
    BY DEF OneInv, AlienInv, OneExecution, Inv, WorkInv, Past
<1> QED BY <1>1, <1>2, <1>3, InvAlways, PTL DEF Spec
=============================================================================
