-------------------------- MODULE DurableRecordProofs --------------------------
(***************************************************************************)
(* What is proved of ExecutionStore about the record a later process would *)
(* read, for every cycle, every number of resumes, and every write that    *)
(* may fail: that it moves as DurableRecord says, that work whose outcome  *)
(* is unknown stays "running" there, and that a run that goes on builds on *)
(* current results and on answers it has asked again.                      *)
(*                                                                         *)
(* The argument compares three records: the one on disk (`Read`), the one  *)
(* in memory, and the one the writes that are due come from.               *)
(***************************************************************************)
EXTENDS ExecutionStoreProofs, StepGraphProofs

Fresh == [status |-> "pending", def |-> 0]

\* The entries a later process would read.
Read == [s \in Steps |-> IF summary = Nothing THEN Fresh ELSE LoadedEntry(s)]

\* Steps without a receipt, and the steps that the writes still due name.
Missing == {s \in Steps : receipt[s] = Nothing}
Listed(what) == {s \in Steps : Names(todo, what, s)}
ToWrite == Listed("receipt")
ToReset == Listed("journal")
ToStart == Listed("work")

\* A transition whose journal is not written, one that is not over, and one
\* that is not yet the run's own record; a summary that is due.
Unpublished == Has(todo, "journal")
Changing == Has(todo, "unlink")
Unadopted == Has(todo, "adopt")
Unsaved == Has(todo, "summary")

\* The entries the run goes on with once its writes are made.
Coming == IF Unadopted THEN draft.steps ELSE mem.steps

-----------------------------------------------------------------------------
(* The inductive invariant.                                                *)

\* A list of writes has its journal first, and every receipt before the summary.
Rank == [w \in Whats |-> IF w = "journal" THEN 1 ELSE IF w = "receipt" THEN 2
                         ELSE IF w = "summary" THEN 3 ELSE IF w = "adopt" THEN 4 ELSE 5]
Ordered(t) == \A i, j \in 1..Len(t) : i < j => Rank[t[i].what] < Rank[t[j].what]

\* Lifecycle of DurableRecord, of the entries on disk.
MayMove(s, to) ==
    \/ /\ Read[s].status \in {"pending", "waiting"} /\ to = "running"
       /\ \A n \in Needs[s] : Read[n].status = "success"
    \/ Read[s].status \in {"pending", "waiting"} /\ to \in {"skipped", "cancelled"}
    \/ Read[s].status = "running" /\ to \in {"success", "failed", "refused", "waiting", "cancelled"}

\* A transition of the loop sends a plan back, one of a start goes on.
SendsBack ==
    \E g \in Gates : /\ ToReset = PathBack(PlanOf[g], g)
                     /\ {s \in ToReset : Read[s].status = "running"} = {g}

Undone == {s \in Steps : Read[s].status \notin {"success", "refused", "skipped"}}
GoesOn ==
    /\ Downstream(Undone) \subseteq ToReset
    /\ {s \in ToReset : Read[s].status \in {"success", "refused"}}
          \subseteq Downstream(Undone) \cup Transient \cup Checks
    /\ {s \in ToReset : Read[s].status = "running"} \subseteq Human \cup Recoverable
    /\ {s \in Steps : Read[s].status = "skipped"} \subseteq ToReset

\* Before its journal is written, and after.
PublishInv ==
    Unpublished =>
        /\ journal = Nothing /\ summary # Nothing /\ Unsaved /\ Changing
        /\ ToWrite = ToReset
        /\ \A s \in ToReset : draft.steps[s] = Fresh
        /\ \A s \in Missing \ ToReset : draft.steps[s] = Read[s]
        /\ pc = "up" => SendsBack /\ \A s \in Missing : mem.steps[s] = Read[s]
        /\ pc = "starting" => GoesOn
ReplayInv ==
    Changing /\ ~Unpublished =>
        /\ journal # Nothing /\ draft = journal.doc
        /\ ToWrite \subseteq journal.changed
        /\ \A s \in journal.changed \ ToWrite : receipt[s] = draft.steps[s]
        /\ Unsaved \/ summary = draft

\* A receipt that is due moves its step, alone.
StepInv ==
    ~Changing => \A s \in ToWrite :
        /\ pc \in Past /\ Unsaved /\ ToWrite = {s}
        /\ journal # Nothing => s \notin journal.changed
        /\ MayMove(s, draft.steps[s].status)
        /\ s \in Missing => draft.steps[s].status \in {"running", "skipped", "cancelled"}

\* As long as no write failed, memory and disk differ by what is due, by what
\* was woken, and by workers that were given up.
Firm == pc \in {"starting", "up", "stopping"} \/ (pc \in {"ending", "resolving", "closing"} /\ ~broken)
Agree(s) ==
    \/ s \in ToWrite
    \/ live[s] # "no" /\ pc \in {"resolving", "closing"}
    \/ Coming[s] = Read[s]
    \/ Coming[s].status = "pending" /\ Read[s].status = "waiting" /\ s \notin Missing
AgreeInv ==
    Firm => /\ \A s \in Steps : Agree(s)
            /\ \A s \in Missing : Read[s].status = "pending" \/ (pc = "starting" /\ Unpublished)
            /\ pc \in {"ending", "resolving", "closing"} => journal = Nothing

\* After a write failed, one step's entry may still reach the disk.
Adrift(s) ==
    /\ MayMove(s, mem.steps[s].status) /\ Read[s].status = "pending"
    /\ mem.steps[s].status \in {"running", "skipped", "cancelled"}
AdriftInv ==
    broken => /\ pc \in {"ending", "closing"}
              /\ journal = Nothing =>
                    \E d \in Steps : \A s \in Missing :
                        mem.steps[s] = Read[s] \/ (s = d /\ Adrift(s))

DraftInv ==
    /\ todo # <<>> /\ ~Unadopted /\ pc \in Holding => draft.steps = mem.steps
    /\ Unadopted => Changing /\ \A s \in Steps : draft.steps[s] \in {Fresh, mem.steps[s]}
    /\ \A s, t \in ToStart : s = t

\* A step without a receipt never came to a verdict of its own.
RestInv ==
    /\ \A s \in Missing : Read[s].status \in {"pending", "running", "skipped", "cancelled"}
    /\ summary = Nothing => Missing = Steps

\* A step that runs has its worker, or will have.
RunInv ==
    pc \in {"starting", "up"} => \A s \in Steps :
        Coming[s].status = "running" => live[s] # "no" \/ s \in ToStart

OpenInv == \A s \in open \ (Human \cup Recoverable) : Read[s].status = "running"

DefInv ==
    pc \in {"starting", "up", "stopping"} => \A s \in Steps :
        mem.steps[s].status \in {"success", "refused", "running"} \/ live[s] # "no" =>
            mem.steps[s].def = def[s]

AskInv ==
    \A s \in Steps : live[s] # "no" \/ s \in ToStart =>
        \A n \in AskedBefore(s) : Coming[n].status = "success"

\* Only a gate asks for a revision.
RoleInv == \A s \in Steps : live[s] = "revise" => s \in Gates

DiskInv == PublishInv /\ ReplayInv /\ StepInv /\ AgreeInv /\ AdriftInv /\ RestInv /\ OpenInv
LoopInv == Ordered(todo) /\ DraftInv /\ RunInv /\ DefInv /\ AskInv /\ RoleInv

IInv == Inv /\ LoopInv /\ DiskInv

-----------------------------------------------------------------------------
(* The order of writes.                                                    *)

LEMMA OrderedTail ==
    ASSUME NEW t \in Seq(Ops), t # <<>>, Ordered(t)
    PROVE  /\ Ordered(Tail(t))
           /\ \A w : Has(Tail(t), w) => Rank[Head(t).what] < Rank[w]
<1>1. /\ Head(t) = t[1] /\ Len(t) \in Nat \ {0} /\ Len(Tail(t)) = Len(t) - 1
      /\ \A i \in 1..Len(Tail(t)) : Tail(t)[i] = t[i + 1]
    BY HeadTailProperties
<1>2. \A i \in 1..Len(Tail(t)) : i + 1 \in 1..Len(t) /\ 1 < i + 1 /\ Tail(t)[i] = t[i + 1]
    BY <1>1
<1>3. Ordered(Tail(t))
    <2> SUFFICES ASSUME NEW i \in 1..Len(Tail(t)), NEW j \in 1..Len(Tail(t)), i < j
                 PROVE  Rank[Tail(t)[i].what] < Rank[Tail(t)[j].what]
        BY DEF Ordered
    <2>1. i + 1 < j + 1
        BY <1>1
    <2> QED BY <1>2, <2>1 DEF Ordered
<1>4. ASSUME NEW w, Has(Tail(t), w) PROVE Rank[Head(t).what] < Rank[w]
    <2>1. PICK i \in 1..Len(Tail(t)) : Tail(t)[i].what = w
        BY <1>4 DEF Has
    <2>2. 1 \in 1..Len(t)
        BY <1>1
    <2> QED BY <1>1, <1>2, <2>1, <2>2 DEF Ordered
<1> QED BY <1>3, <1>4

LEMMA OrderedOne ==
    ASSUME NEW a \in Ops
    PROVE  Ordered(<<a>>)
BY DEF Ordered

LEMMA OrderedConcat ==
    ASSUME NEW a \in Seq(Ops), NEW b \in Seq(Ops), Ordered(a), Ordered(b),
           \A v, w \in Whats : Has(a, v) /\ Has(b, w) => Rank[v] < Rank[w]
    PROVE  Ordered(a \o b)
<1>1. /\ Len(a) \in Nat /\ Len(b) \in Nat /\ Len(a \o b) = Len(a) + Len(b)
      /\ \A i \in 1..Len(a) + Len(b) :
            (a \o b)[i] = IF i <= Len(a) THEN a[i] ELSE b[i - Len(a)]
    BY ConcatProperties
<1> DEFINE c == a \o b
<1>2. \A i \in 1..Len(c) : \/ i \in 1..Len(a) /\ c[i] = a[i]
                           \/ i - Len(a) \in 1..Len(b) /\ c[i] = b[i - Len(a)] /\ i > Len(a)
    BY <1>1
<1> HIDE DEF c
<1>3. ASSUME NEW i \in 1..Len(a), NEW j \in 1..Len(b)
      PROVE  Rank[a[i].what] < Rank[b[j].what]
    <2>1. a[i] \in Ops /\ b[j] \in Ops
        BY ElementOfSeq
    <2>2. Has(a, a[i].what) /\ Has(b, b[j].what)
        BY DEF Has
    <2> QED BY <2>1, <2>2 DEF Ops
<1>4. ASSUME NEW i \in 1..Len(c), NEW j \in 1..Len(c), i < j
      PROVE  Rank[c[i].what] < Rank[c[j].what]
    <2>1. CASE i \in 1..Len(a) /\ c[i] = a[i] /\ j \in 1..Len(a) /\ c[j] = a[j]
        BY <1>4, <2>1 DEF Ordered
    <2>2. CASE /\ i \in 1..Len(a) /\ c[i] = a[i]
               /\ j - Len(a) \in 1..Len(b) /\ c[j] = b[j - Len(a)]
        BY <1>3, <2>2
    <2>3. CASE /\ i - Len(a) \in 1..Len(b) /\ c[i] = b[i - Len(a)] /\ i > Len(a)
               /\ j - Len(a) \in 1..Len(b) /\ c[j] = b[j - Len(a)]
        <3>1. i - Len(a) < j - Len(a)
            BY <1>1, <1>4
        <3> QED BY <2>3, <3>1 DEF Ordered
    <2>4. CASE /\ i - Len(a) \in 1..Len(b) /\ i > Len(a)
               /\ j \in 1..Len(a)
        BY <1>1, <1>4, <2>4
    <2> QED BY <1>2, <2>1, <2>2, <2>3, <2>4
<1> QED BY <1>4 DEF Ordered, c

LEMMA RankOf ==
    /\ Rank["journal"] = 1 /\ Rank["receipt"] = 2 /\ Rank["summary"] = 3 /\ Rank["adopt"] = 4
    /\ Rank["unlink"] = 5 /\ Rank["work"] = 5 /\ Rank["raise"] = 5
BY DEF Rank, Whats

\* The lists the handlers leave behind are in order.
LEMMA SummaryOrdered == Ordered(<<Op("summary", {})>>)
BY OpType, OrderedOne DEF Whats

LEMMA MaterializeOrdered ==
    ASSUME NEW S \in SUBSET Steps
    PROVE  Ordered(Materialize(S))
<1> DEFINE r == Op("receipt", S)
           m == Op("summary", {})
<1>1. r \in Ops /\ r.what = "receipt" /\ m \in Ops /\ m.what = "summary"
    BY OpType DEF Whats
<1>2. Materialize(S) = <<r, m>>
    BY DEF Materialize
<1> HIDE DEF r, m
<1> QED BY <1>1, <1>2, RankOf DEF Ordered

LEMMA PublishOrdered ==
    ASSUME NEW S \in SUBSET Steps
    PROVE  Ordered(Publish(S))
<1> DEFINE j == Op("journal", S)
<1>1. j \in Ops /\ j.what = "journal" /\ Publish(S) = <<j>> \o Materialize(S)
    BY OpType DEF Whats, Publish
<1> HIDE DEF j
<1>2. /\ <<j>> \in Seq(Ops) /\ Ordered(<<j>>)
      /\ \A w : Has(<<j>>, w) <=> w = "journal"
    BY <1>1, OneWrite, OrderedOne
<1>3. /\ Materialize(S) \in Seq(Ops) /\ Ordered(Materialize(S))
      /\ \A w : Has(Materialize(S), w) <=> w \in {"receipt", "summary"}
    BY MaterializeList, MaterializeOrdered
<1>4. \A v, w \in Whats : Has(<<j>>, v) /\ Has(Materialize(S), w) => Rank[v] < Rank[w]
    BY <1>2, <1>3, RankOf
<1>5. Ordered(<<j>> \o Materialize(S))
    BY <1>2, <1>3, <1>4, OrderedConcat
<1> QED BY <1>1, <1>5

\* A write of the last rank after a list without one.
LEMMA LastOrdered ==
    ASSUME NEW t \in Seq(Ops), Ordered(t), NEW x \in Ops, x.what \in Final,
           \A w : Has(t, w) => w \in {"journal", "receipt", "summary"}
    PROVE  Ordered(t \o <<x>>)
<1>1. /\ <<x>> \in Seq(Ops) /\ Ordered(<<x>>)
      /\ \A w : Has(<<x>>, w) <=> x.what = w
    BY OneWrite, OrderedOne
<1>2. \A v, w \in Whats : Has(t, v) /\ Has(<<x>>, w) => Rank[v] < Rank[w]
    BY <1>1, RankOf DEF Final
<1> QED BY <1>1, <1>2, OrderedConcat

LEMMA AdoptOrdered ==
    ASSUME NEW S \in SUBSET Steps
    PROVE  Ordered(Publish(S) \o <<Op("adopt", {}), Op("unlink", {})>>)
<1> DEFINE a == Op("adopt", {})
           x == Op("unlink", {})
<1>1. a \in Ops /\ a.what = "adopt" /\ x \in Ops /\ x.what = "unlink"
    BY OpType DEF Whats
<1> HIDE DEF a, x
<1>2. <<a, x>> \in Seq(Ops) /\ Ordered(<<a, x>>)
    BY <1>1, RankOf DEF Ordered
<1>3. \A w : Has(<<a, x>>, w) => w \in {"adopt", "unlink"}
    BY <1>1 DEF Has
<1>4. /\ Publish(S) \in Seq(Ops) /\ Ordered(Publish(S))
      /\ \A w : Has(Publish(S), w) <=> w \in {"journal", "receipt", "summary"}
    BY PublishList, PublishOrdered
<1>5. \A v, w \in Whats : Has(Publish(S), v) /\ Has(<<a, x>>, w) => Rank[v] < Rank[w]
    BY <1>3, <1>4, RankOf
<1>6. Ordered(Publish(S) \o <<a, x>>)
    BY <1>2, <1>4, <1>5, OrderedConcat
<1> QED BY <1>6 DEF a, x

-----------------------------------------------------------------------------
(* What the list says, as it gets shorter.                                 *)

LEMMA NoList ==
    todo = <<>> => /\ ToWrite = {} /\ ToReset = {} /\ ToStart = {}
                   /\ ~Unpublished /\ ~Changing /\ ~Unadopted /\ ~Unsaved
BY NothingLeft DEF ToWrite, ToReset, ToStart, Listed, Unpublished, Changing, Unadopted, Unsaved

LEMMA NoListNext ==
    todo' = <<>> => /\ Ordered(todo')
                    /\ ToWrite' = {} /\ ToReset' = {} /\ ToStart' = {}
                    /\ ~Unpublished' /\ ~Changing' /\ ~Unadopted' /\ ~Unsaved'
<1>1. Ordered(<<>>)
    BY DEF Ordered
<1> QED BY <1>1, NothingLeft
        DEF ToWrite, ToReset, ToStart, Listed, Unpublished, Changing, Unadopted, Unsaved

\* A step is named only by a list that holds such a write.
LEMMA NamedIsHeld ==
    /\ ToWrite # {} => Has(todo, "receipt")
    /\ ToReset # {} => Unpublished
    /\ ToStart # {} => Has(todo, "work")
BY DEF ToWrite, ToReset, ToStart, Listed, Unpublished, Names, Has

LEMMA OneLess ==
    ASSUME Inv, Ordered(todo), NEW what, Due(what), todo' = Tail(todo)
    PROVE  /\ todo # <<>> /\ Ordered(todo')
           /\ \A w : w # what => (Has(todo', w) <=> Has(todo, w)) /\ Listed(w)' = Listed(w)
           /\ ~Has(todo', what) /\ Has(todo, what)
           /\ \A w : Has(todo', w) => Rank[what] < Rank[w]
           /\ Listed(what)' = {} /\ Listed(what) = Head(todo).of
<1>1. todo \in Seq(Ops) /\ todo # <<>> /\ Head(todo).what = what
    BY DEF Inv, TypeInv, Due
<1>2. /\ Ordered(todo')
      /\ \A w : Has(todo', w) => Rank[what] < Rank[w]
    BY <1>1, OrderedTail
<1>3. /\ Head(todo) \in Ops
      /\ \A w : Has(todo, w) <=> what = w \/ Has(todo', w)
      /\ \A w, n : Names(todo, w, n) <=> (what = w /\ n \in Head(todo).of) \/ Names(todo', w, n)
    BY <1>1, OneWriteLess
<1>4. Rank \in [Whats -> Nat] /\ what \in Whats /\ Head(todo).of \subseteq Steps
    BY <1>1, <1>3 DEF Rank, Ops
<1>5. ~Has(todo', what)
    BY <1>2, <1>4
<1>6. \A n : ~Names(todo', what, n)
    BY <1>5 DEF Names, Has
<1>7. Listed(what) = Head(todo).of /\ Listed(what)' = {}
    BY <1>3, <1>4, <1>6 DEF Listed
<1>8. \A w : w # what => Listed(w)' = Listed(w)
    BY <1>3 DEF Listed
<1> QED BY <1>1, <1>2, <1>3, <1>5, <1>7, <1>8

\* The summary is written after the receipts.
LEMMA SummaryLess ==
    ASSUME Inv, Ordered(todo), Due("summary"), todo' = Tail(todo)
    PROVE  /\ Ordered(todo') /\ Unsaved /\ ~Unsaved'
           /\ ToWrite = {} /\ ToReset = {} /\ ~Unpublished
           /\ ToWrite' = {} /\ ToReset' = {} /\ ~Unpublished' /\ ToStart' = ToStart
           /\ (Unadopted' <=> Unadopted) /\ (Changing' <=> Changing)
           /\ todo # <<>>
<1>1. todo # <<>>
    BY DEF Due
<1>2. /\ Ordered(todo')
      /\ \A w : w # "summary" => (Has(todo', w) <=> Has(todo, w)) /\ Listed(w)' = Listed(w)
      /\ ~Has(todo', "summary") /\ Has(todo, "summary")
      /\ \A w : Has(todo', w) => Rank["summary"] < Rank[w]
    BY <1>1, OneLess
<1>3. ~Has(todo', "receipt") /\ ~Has(todo', "journal")
    BY <1>2, RankOf
<1>4. ~Has(todo, "receipt") /\ ~Has(todo, "journal")
    BY <1>2, <1>3
<1> QED BY <1>1, <1>2, <1>4, NamedIsHeld
        DEF ToWrite, ToReset, ToStart, Unpublished, Changing, Unadopted, Unsaved

\* The journal comes first of all.
LEMMA JournalLess ==
    ASSUME Inv, Ordered(todo), Due("journal"), todo' = Tail(todo)
    PROVE  /\ Ordered(todo') /\ Unpublished /\ ~Unpublished'
           /\ ToReset = Head(todo).of /\ ToReset' = {} /\ ToWrite' = ToWrite /\ ToStart' = ToStart
           /\ (Unadopted' <=> Unadopted) /\ (Changing' <=> Changing) /\ (Unsaved' <=> Unsaved)
           /\ todo # <<>>
<1> QED BY OneLess
        DEF ToWrite, ToReset, ToStart, Unpublished, Changing, Unadopted, Unsaved

LEMMA UnlinkLess ==
    ASSUME Inv, Ordered(todo), Due("unlink"), todo' = Tail(todo)
    PROVE  /\ todo' = <<>> /\ Changing
           /\ ToWrite = {} /\ ToReset = {} /\ ToStart = {}
           /\ ~Unpublished /\ ~Unadopted /\ ~Unsaved
           /\ todo # <<>>
<1>1. todo # <<>> /\ Head(todo).what = "unlink"
    BY DEF Due
<1>2. todo' = <<>>
    BY <1>1, OneWriteLess DEF Final
<1>3. /\ \A w : w # "unlink" => (Has(todo', w) <=> Has(todo, w)) /\ Listed(w)' = Listed(w)
      /\ Has(todo, "unlink")
    BY OneLess
<1> QED BY <1>1, <1>2, <1>3, NoListNext
        DEF ToWrite, ToReset, ToStart, Unpublished, Changing, Unadopted, Unsaved

LEMMA AdoptLess ==
    ASSUME Inv, Ordered(todo), Due("adopt"), todo' = Tail(todo)
    PROVE  /\ Ordered(todo') /\ Unadopted /\ ~Unadopted'
           /\ ToWrite = {} /\ ToReset = {} /\ ~Unpublished /\ ~Unsaved
           /\ ToWrite' = {} /\ ToReset' = {} /\ ~Unpublished' /\ ~Unsaved' /\ ToStart' = ToStart
           /\ (Changing' <=> Changing) /\ todo # <<>>
<1>1. todo # <<>>
    BY DEF Due
<1>2. /\ Ordered(todo')
      /\ \A w : w # "adopt" => (Has(todo', w) <=> Has(todo, w)) /\ Listed(w)' = Listed(w)
      /\ ~Has(todo', "adopt") /\ Has(todo, "adopt")
      /\ \A w : Has(todo', w) => Rank["adopt"] < Rank[w]
    BY <1>1, OneLess
<1>3. ~Has(todo, "receipt") /\ ~Has(todo, "journal") /\ ~Has(todo, "summary")
    BY <1>2, RankOf
<1> QED BY <1>1, <1>2, <1>3, NamedIsHeld
        DEF ToWrite, ToReset, ToStart, Unpublished, Changing, Unadopted, Unsaved

\* A worker is started, or an error raised, when all else is written.
LEMMA LastLess ==
    ASSUME Inv, Ordered(todo), Due("work") \/ Due("raise"), todo' = Tail(todo)
    PROVE  /\ todo' = <<>> /\ todo # <<>>
           /\ ToWrite = {} /\ ToReset = {}
           /\ ~Unpublished /\ ~Unadopted /\ ~Unsaved /\ ~Changing
           /\ Due("work") => ToStart = Head(todo).of
           /\ Due("raise") => ToStart = {}
<1>1. todo # <<>> /\ Head(todo).what \in {"work", "raise"}
    BY DEF Due
<1>2. todo' = <<>>
    BY <1>1, OneWriteLess DEF Final
<1>3. PICK what \in {"work", "raise"} : Due(what)
    OBVIOUS
<1>4. /\ \A w : w # what => (Has(todo', w) <=> Has(todo, w)) /\ Listed(w)' = Listed(w)
      /\ Listed(what) = Head(todo).of
    BY <1>3, OneLess
<1> QED BY <1>1, <1>2, <1>3, <1>4, NoListNext
        DEF ToWrite, ToReset, ToStart, Unpublished, Changing, Unadopted, Unsaved, Due

LEMMA ReceiptLess ==
    ASSUME Inv, Ordered(todo), NEW s \in Steps, WriteReceipt(s)
    PROVE  /\ Ordered(todo') /\ s \in ToWrite /\ ToWrite' = ToWrite \ {s}
           /\ ToReset = {} /\ ToReset' = {} /\ ~Unpublished /\ ~Unpublished' /\ ToStart' = ToStart
           /\ (Unadopted' <=> Unadopted) /\ (Changing' <=> Changing) /\ (Unsaved' <=> Unsaved)
           /\ todo # <<>>
<1>1. todo # <<>> /\ Head(todo).what = "receipt" /\ s \in Head(todo).of
    BY DEF WriteReceipt, Due
<1> DEFINE rest == Tail(todo)
           less == Op("receipt", Head(todo).of \ {s})
<1>2. todo' = IF Head(todo).of = {s} THEN rest ELSE <<less>> \o rest
    BY DEF WriteReceipt
<1>3. todo \in Seq(Ops)
    BY DEF Inv, TypeInv
<1>4. /\ Head(todo) \in Ops /\ rest \in Seq(Ops)
      /\ \A w : Has(todo, w) <=> "receipt" = w \/ Has(rest, w)
      /\ \A w, n : Names(todo, w, n) <=> ("receipt" = w /\ n \in Head(todo).of) \/ Names(rest, w, n)
    BY <1>1, <1>3, TailFacts
<1>5. Ordered(rest) /\ \A w : Has(rest, w) => Rank["receipt"] < Rank[w]
    BY <1>1, <1>3, OrderedTail
<1>6. less \in Ops /\ less.what = "receipt" /\ less.of = Head(todo).of \ {s} /\ Head(todo).of \subseteq Steps
    BY <1>4, OpType DEF Whats, Ops
<1>7. ~Has(rest, "receipt") /\ ~Has(rest, "journal")
    BY <1>5, RankOf
<1>8. \A n : ~Names(rest, "receipt", n) /\ ~Names(rest, "journal", n)
    BY <1>7 DEF Names, Has
<1> HIDE DEF rest, less
<1>9. /\ Ordered(todo')
      /\ \A w : w # "receipt" => (Has(todo', w) <=> Has(rest, w))
      /\ \A w, n : w # "receipt" => (Names(todo', w, n) <=> Names(rest, w, n))
      /\ \A n : Names(todo', "receipt", n) <=> n \in Head(todo).of \ {s}
    <2>1. CASE Head(todo).of = {s}
        BY <1>2, <1>5, <1>8, <2>1
    <2>2. CASE Head(todo).of # {s}
        <3>1. /\ <<less>> \in Seq(Ops) /\ Ordered(<<less>>)
              /\ \A w : Has(<<less>>, w) <=> w = "receipt"
              /\ \A w, n : Names(<<less>>, w, n) <=> w = "receipt" /\ n \in Head(todo).of \ {s}
            BY <1>6, OneWrite, OrderedOne
        <3>2. \A v, w \in Whats : Has(<<less>>, v) /\ Has(rest, w) => Rank[v] < Rank[w]
            BY <1>5, <3>1
        <3>3. /\ Ordered(<<less>> \o rest)
              /\ \A w : Has(<<less>> \o rest, w) <=> Has(<<less>>, w) \/ Has(rest, w)
              /\ \A w, n : Names(<<less>> \o rest, w, n) <=> Names(<<less>>, w, n) \/ Names(rest, w, n)
            BY <1>4, <1>5, <3>1, <3>2, OrderedConcat, ConcatFacts
        <3>4. todo' = <<less>> \o rest
            BY <1>2, <2>2
        <3> QED BY <1>8, <3>1, <3>3, <3>4
    <2> QED BY <2>1, <2>2
<1>10. s \in ToWrite /\ ToWrite' = ToWrite \ {s}
    BY <1>1, <1>4, <1>6, <1>8, <1>9 DEF ToWrite, Listed
<1>11. ToReset = {} /\ ToReset' = {} /\ ~Unpublished /\ ~Unpublished' /\ ToStart' = ToStart
    BY <1>4, <1>7, <1>8, <1>9 DEF ToReset, ToStart, Listed, Unpublished
<1>12. (Unadopted' <=> Unadopted) /\ (Changing' <=> Changing) /\ (Unsaved' <=> Unsaved)
    BY <1>4, <1>9 DEF Unadopted, Changing, Unsaved
<1> QED BY <1>1, <1>9, <1>10, <1>11, <1>12

-----------------------------------------------------------------------------
(* What a later process reads, and how each write changes it.              *)

LEMMA FreshType == Fresh \in Entries /\ Fresh.status = "pending"
BY StoreAssumption DEF Fresh, Entries, Statuses

LEMMA ReadValue ==
    ASSUME NEW s \in Steps
    PROVE  /\ summary = Nothing => Read[s] = Fresh
           /\ summary # Nothing /\ journal # Nothing /\ s \in journal.changed =>
                Read[s] = journal.doc.steps[s]
           /\ summary # Nothing /\ ~(journal # Nothing /\ s \in journal.changed) =>
                /\ receipt[s] # Nothing => Read[s] = receipt[s]
                /\ receipt[s] = Nothing /\ journal = Nothing => Read[s] = summary.steps[s]
                /\ receipt[s] = Nothing /\ journal # Nothing => Read[s] = journal.doc.steps[s]
BY DEF Read, LoadedEntry, LoadedSummary

LEMMA ReadNext ==
    ASSUME NEW s \in Steps
    PROVE  /\ summary' = Nothing => Read'[s] = Fresh
           /\ summary' # Nothing /\ journal' # Nothing /\ s \in journal'.changed =>
                Read'[s] = journal'.doc.steps[s]
           /\ summary' # Nothing /\ ~(journal' # Nothing /\ s \in journal'.changed) =>
                /\ receipt'[s] # Nothing => Read'[s] = receipt'[s]
                /\ receipt'[s] = Nothing /\ journal' = Nothing => Read'[s] = summary'.steps[s]
                /\ receipt'[s] = Nothing /\ journal' # Nothing => Read'[s] = journal'.doc.steps[s]
BY DEF Read, LoadedEntry, LoadedSummary

LEMMA DiskTypes ==
    ASSUME Inv
    PROVE  /\ summary # Nothing => summary \in Documents /\ summary.steps \in [Steps -> Entries]
           /\ journal # Nothing => /\ journal \in Journals /\ journal.changed \subseteq Steps
                                   /\ journal.doc \in Documents
                                   /\ journal.doc.steps \in [Steps -> Entries]
           /\ draft # Nothing => draft \in Documents /\ draft.steps \in [Steps -> Entries]
           /\ mem # Nothing => mem \in Documents /\ mem.steps \in [Steps -> Entries]
           /\ receipt \in [Steps -> Entries \cup {Nothing}]
           /\ summary = Nothing => journal = Nothing
           /\ todo # <<>> => draft # Nothing
           /\ pc \in Holding => mem # Nothing
           /\ pc \in Past => summary # Nothing
BY DEF Inv, TypeInv, TypeOK, Documents, Journals

LEMMA ReadType ==
    ASSUME Inv
    PROVE  Read \in [Steps -> Entries]
<1>1. ASSUME NEW s \in Steps PROVE Read[s] \in Entries
    <2>1. receipt[s] # Nothing => receipt[s] \in Entries
        BY DiskTypes
    <2>2. summary # Nothing => summary.steps[s] \in Entries
        BY DiskTypes
    <2>3. journal # Nothing => journal.doc.steps[s] \in Entries
        BY DiskTypes
    <2> QED BY <2>1, <2>2, <2>3, ReadValue, FreshType
<1>2. Read = [s \in Steps |-> Read[s]]
    BY DEF Read
<1> QED BY <1>1, <1>2

LEMMA EntryStatus ==
    ASSUME NEW e \in Entries
    PROVE  e.status \in Statuses
BY DEF Entries

LEMMA SameRead == UNCHANGED disk => Read' = Read /\ Missing' = Missing
BY DEF disk, Read, LoadedEntry, LoadedSummary, Missing

\* A receipt that the journal covers is not read.
LEMMA ReadAfterReceipt ==
    ASSUME Inv, NEW s \in Steps, todo # <<>>, summary # Nothing, UNCHANGED <<summary, journal>>,
           receipt' = [receipt EXCEPT ![s] = draft.steps[s]]
    PROVE  /\ Missing' = Missing \ {s}
           /\ journal # Nothing /\ s \in journal.changed => Read' = Read
           /\ journal = Nothing \/ s \notin journal.changed =>
                 Read' = [Read EXCEPT ![s] = draft.steps[s]]
<1>1. draft.steps[s] \in Entries /\ draft.steps[s] # Nothing
    <2>1. draft.steps[s] \in Entries
        BY DiskTypes
    <2> QED BY <2>1, NothingAssumption
<1>2. receipt \in [Steps -> Entries \cup {Nothing}]
    BY DiskTypes
<1>3. receipt'[s] = draft.steps[s] /\ \A n \in Steps : n # s => receipt'[n] = receipt[n]
    BY <1>2
<1>4. Missing' = Missing \ {s}
    BY <1>1, <1>3 DEF Missing
<1>5. \A n \in Steps : n # s => Read'[n] = Read[n]
    BY <1>3, ReadValue, ReadNext
<1>6. journal # Nothing /\ s \in journal.changed => Read'[s] = Read[s]
    BY <1>3, ReadValue, ReadNext
<1>7. journal = Nothing \/ s \notin journal.changed => Read'[s] = draft.steps[s]
    BY <1>1, <1>3, ReadNext
<1>8. Read = [n \in Steps |-> Read[n]] /\ Read' = [n \in Steps |-> Read'[n]]
    BY DEF Read
<1> HIDE DEF Missing
<1> QED BY <1>4, <1>5, <1>6, <1>7, <1>8

LEMMA ReadAfterSummary ==
    ASSUME Inv, todo # <<>>, UNCHANGED <<receipt, journal>>, summary' = draft,
           summary = Nothing => Missing = Steps
    PROVE  /\ Missing' = Missing
           /\ journal # Nothing => Read' = Read
           /\ journal = Nothing =>
                 Read' = [s \in Steps |-> IF s \in Missing THEN draft.steps[s] ELSE Read[s]]
<1>1. draft # Nothing /\ (summary = Nothing => journal = Nothing)
    BY DiskTypes
<1>2. Missing' = Missing /\ \A s \in Steps : s \in Missing <=> receipt[s] = Nothing
    BY DEF Missing
<1>3. ASSUME journal # Nothing, NEW s \in Steps PROVE Read'[s] = Read[s]
    BY <1>1, <1>3, ReadValue, ReadNext
<1>4. ASSUME journal = Nothing, NEW s \in Steps
      PROVE  Read'[s] = IF s \in Missing THEN draft.steps[s] ELSE Read[s]
    <2>1. CASE summary = Nothing
        BY <1>1, <1>2, <1>4, <2>1, ReadNext
    <2>2. CASE summary # Nothing
        BY <1>1, <1>2, <1>4, <2>2, ReadValue, ReadNext
    <2> QED BY <2>1, <2>2
<1>5. Read = [n \in Steps |-> Read[n]] /\ Read' = [n \in Steps |-> Read'[n]]
    BY DEF Read
<1> QED BY <1>2, <1>3, <1>4, <1>5

LEMMA ReadAfterJournal ==
    ASSUME Inv, todo # <<>>, summary # Nothing, journal = Nothing, NEW S \in SUBSET Steps,
           UNCHANGED <<summary, receipt>>, journal' = [doc |-> draft, changed |-> S]
    PROVE  /\ Missing' = Missing /\ journal' # Nothing
           /\ journal'.doc = draft /\ journal'.changed = S
           /\ Read' = [s \in Steps |-> IF s \in S \cup Missing THEN draft.steps[s] ELSE Read[s]]
<1>1. draft \in Documents
    BY DiskTypes
<1>2. journal' # Nothing /\ journal'.doc = draft /\ journal'.changed = S
    BY <1>1, NothingAssumption DEF Journals
<1>3. Missing' = Missing /\ \A s \in Steps : s \in Missing <=> receipt[s] = Nothing
    BY DEF Missing
<1>4. ASSUME NEW s \in Steps
      PROVE  Read'[s] = IF s \in S \cup Missing THEN draft.steps[s] ELSE Read[s]
    BY <1>2, <1>3, ReadValue, ReadNext
<1>5. Read' = [n \in Steps |-> Read'[n]]
    BY DEF Read
<1> QED BY <1>2, <1>3, <1>4, <1>5

LEMMA ReadAfterUnlink ==
    ASSUME Inv, summary # Nothing, journal # Nothing, summary = journal.doc,
           \A s \in journal.changed : receipt[s] = journal.doc.steps[s],
           UNCHANGED <<summary, receipt>>, journal' = Nothing
    PROVE  Missing' = Missing /\ Read' = Read
<1>1. Missing' = Missing
    BY DEF Missing
<1>2. ASSUME NEW s \in Steps PROVE Read'[s] = Read[s]
    <2>1. CASE s \in journal.changed
        <3>1. journal.doc.steps[s] \in Entries
            BY DiskTypes
        <3>2. receipt[s] # Nothing
            BY <2>1, <3>1, NothingAssumption
        <3> QED BY <2>1, <3>2, ReadValue, ReadNext
    <2>2. CASE s \notin journal.changed
        BY <2>2, ReadValue, ReadNext
    <2> QED BY <2>1, <2>2
<1>3. Read = [n \in Steps |-> Read[n]] /\ Read' = [n \in Steps |-> Read'[n]]
    BY DEF Read
<1> QED BY <1>1, <1>2, <1>3

\* The statuses of Read are the record that DurableRecord is about.
LEMMA LaterIsRead ==
    ASSUME Inv
    PROVE  LaterRecord = [s \in Steps |-> Read[s].status]
<1>1. CASE summary = Nothing
    BY <1>1, FreshType DEF LaterRecord, Read
<1>2. CASE summary # Nothing
    <2>1. LoadedSummary \in Documents
        BY <1>2, DiskTypes DEF LoadedSummary
    <2>2. Loaded.steps = [s \in Steps |-> LoadedEntry(s)]
        BY <2>1 DEF Loaded, Documents
    <2> QED BY <1>2, <2>2 DEF LaterRecord, Read, StatusOf
<1> QED BY <1>1, <1>2

-----------------------------------------------------------------------------
(* The invariant holds at first, and workers, edits and ends keep it.      *)

RecordInv == LoopInv /\ DiskInv

LEMMA SameList ==
    todo' = todo =>
        /\ (Ordered(todo') <=> Ordered(todo))
        /\ ToWrite' = ToWrite /\ ToReset' = ToReset /\ ToStart' = ToStart
        /\ (Unpublished' <=> Unpublished) /\ (Changing' <=> Changing)
        /\ (Unadopted' <=> Unadopted) /\ (Unsaved' <=> Unsaved)
BY DEF ToWrite, ToReset, ToStart, Listed, Unpublished, Changing, Unadopted, Unsaved

\* A process that is gone left nothing but files.
LEMMA GoneKeeps ==
    ASSUME pc' = "down", todo' = <<>>, broken' = FALSE,
           \A s \in Steps : live'[s] = "no",
           RestInv', OpenInv'
    PROVE  RecordInv'
<1>1. /\ Ordered(todo') /\ ToWrite' = {} /\ ToReset' = {} /\ ToStart' = {}
      /\ ~Unpublished' /\ ~Changing' /\ ~Unadopted' /\ ~Unsaved'
    BY NoListNext
<1>2. LoopInv'
    BY <1>1 DEF LoopInv, DraftInv, RunInv, DefInv, AskInv, RoleInv
<1>3. DiskInv'
    BY <1>1 DEF DiskInv, PublishInv, ReplayInv, StepInv, AgreeInv, Firm, AdriftInv
<1> QED BY <1>2, <1>3 DEF RecordInv

LEMMA InitRecord == Init => RecordInv
<1> SUFFICES ASSUME Init PROVE RecordInv
    OBVIOUS
<1>1. /\ pc = "down" /\ todo = <<>> /\ broken = FALSE /\ live = Nobody /\ open = {}
      /\ summary = Nothing /\ receipt = [s \in Steps |-> Nothing]
    BY DEF Init
<1>2. /\ ToWrite = {} /\ ToReset = {} /\ ToStart = {}
      /\ ~Unpublished /\ ~Changing /\ ~Unadopted /\ ~Unsaved
    BY <1>1, NoList
<1>3. Missing = Steps /\ \A s \in Steps : Read[s] = Fresh
    BY <1>1, ReadValue DEF Missing
<1>4. Ordered(todo)
    BY <1>1 DEF Ordered
<1>5. LoopInv
    BY <1>1, <1>2, <1>4 DEF LoopInv, DraftInv, RunInv, DefInv, AskInv, RoleInv, Nobody
<1>6. DiskInv
    BY <1>1, <1>2, <1>3, FreshType
       DEF DiskInv, PublishInv, ReplayInv, StepInv, AgreeInv, Firm, AdriftInv, RestInv, OpenInv
<1> QED BY <1>5, <1>6 DEF RecordInv

\* Steps of the workers, and of somebody at the cycle file.
LEMMA QuietKeeps ==
    ASSUME Inv, RecordInv, UNCHANGED <<disk, process, open>>,
           pc = "down" \/ def' = def,
           \A s \in Steps : live'[s] = "no" <=> live[s] = "no",
           \A s \in Steps : live'[s] = "revise" => s \in Gates
    PROVE  RecordInv'
<1>1. UNCHANGED <<pc, mem, draft, todo, broken, refreshed, summary, receipt, journal, open>>
    BY DEF process, disk
<1>2. Read' = Read /\ Missing' = Missing
    BY SameRead
<1>3. /\ (Ordered(todo') <=> Ordered(todo))
      /\ ToWrite' = ToWrite /\ ToReset' = ToReset /\ ToStart' = ToStart
      /\ (Unpublished' <=> Unpublished) /\ (Changing' <=> Changing)
      /\ (Unadopted' <=> Unadopted) /\ (Unsaved' <=> Unsaved)
    BY <1>1, SameList
<1>4. Coming' = Coming
    BY <1>1, <1>3 DEF Coming
<1>5. LoopInv'
    <2>1. Ordered(todo)' /\ DraftInv'
        BY <1>1, <1>3 DEF RecordInv, LoopInv, DraftInv
    <2>2. RunInv'
        BY <1>1, <1>3, <1>4 DEF RecordInv, LoopInv, RunInv
    <2>3. DefInv'
        BY <1>1 DEF RecordInv, LoopInv, DefInv
    <2>4. AskInv'
        BY <1>1, <1>3, <1>4 DEF RecordInv, LoopInv, AskInv, AskedBefore
    <2> QED BY <2>1, <2>2, <2>3, <2>4 DEF LoopInv, RoleInv
<1>6. DiskInv'
    <2>1. PublishInv' /\ ReplayInv'
        BY <1>1, <1>2, <1>3 DEF RecordInv, DiskInv, PublishInv, ReplayInv, SendsBack, GoesOn, Undone
    <2>2. StepInv'
        BY <1>1, <1>2, <1>3 DEF RecordInv, DiskInv, StepInv, MayMove
    <2>3. AgreeInv'
        BY <1>1, <1>2, <1>3, <1>4 DEF RecordInv, DiskInv, AgreeInv, Agree, Firm
    <2>4. AdriftInv'
        BY <1>1, <1>2 DEF RecordInv, DiskInv, AdriftInv, Adrift, MayMove
    <2>5. RestInv' /\ OpenInv'
        BY <1>1, <1>2 DEF RecordInv, DiskInv, RestInv, OpenInv
    <2> QED BY <2>1, <2>2, <2>3, <2>4, <2>5 DEF DiskInv
<1> QED BY <1>5, <1>6 DEF RecordInv

LEMMA StepsAside ==
    ASSUME Inv, RecordInv, NEW s \in Steps,
           Request(s) \/ Answer(s) \/ Return(s) \/ Retry(s) \/ Straggle(s) \/ Edit(s)
    PROVE  RecordInv'
<1>1. live \in [Steps -> WorkerStates]
    BY DEF Inv, TypeInv, TypeOK
<1>2. UNCHANGED <<disk, process, open>> /\ (pc = "down" \/ def' = def)
    BY DEF Request, Answer, Return, Retry, Straggle, Edit
<1>3. live' = live \/ (live[s] # "no" /\ \E w \in WorkerStates \ {"no"} : live' = [live EXCEPT ![s] = w])
    <2>1. CASE Request(s) \/ Retry(s)
        BY <2>1 DEF Request, Retry, WorkerStates
    <2>2. CASE Answer(s)
        BY <2>2 DEF Answer, WorkerStates
    <2>3. CASE Return(s)
        BY <2>3 DEF Return, WorkerStates
    <2>4. CASE Straggle(s) \/ Edit(s)
        BY <2>4 DEF Straggle, Edit
    <2> QED BY <2>1, <2>2, <2>3, <2>4
<1>4. \A n \in Steps : live'[n] = "no" <=> live[n] = "no"
    BY <1>1, <1>3
<1>5. live' = live \/ (\E w \in WorkerStates : live' = [live EXCEPT ![s] = w] /\ (w = "revise" => s \in Gates))
    <2>1. CASE Request(s) \/ Retry(s)
        BY <2>1 DEF Request, Retry, WorkerStates
    <2>2. CASE Answer(s)
        BY <2>2 DEF Answer, WorkerStates
    <2>3. CASE Return(s)
        BY <2>3 DEF Return, WorkerStates
    <2>4. CASE Straggle(s) \/ Edit(s)
        BY <2>4 DEF Straggle, Edit
    <2> QED BY <2>1, <2>2, <2>3, <2>4
<1>6. \A n \in Steps : live'[n] = "revise" => n \in Gates
    BY <1>1, <1>5 DEF RecordInv, LoopInv, RoleInv
<1> QED BY <1>2, <1>4, <1>6, QuietKeeps

LEMMA StutterAside == ASSUME Inv, RecordInv, UNCHANGED vars PROVE RecordInv'
BY QuietKeeps DEF vars, RecordInv, LoopInv, RoleInv

\* A process gives up, or dies.
LEMMA EndAside ==
    ASSUME Inv, RecordInv, Refuse \/ GiveUpLock \/ Crash
    PROVE  RecordInv'
<1>1. /\ pc' = "down" /\ todo' = <<>> /\ broken' = FALSE
      /\ UNCHANGED <<summary, receipt, journal, open>>
      /\ live' = Nobody \/ (live' = live /\ pc = "replaying")
    BY DEF Refuse, GiveUpLock, Crash, Forgotten, disk
<1>2. \A s \in Steps : live'[s] = "no"
    BY <1>1 DEF Nobody, Inv, WorkInv, Past
<1>3. Read' = Read /\ Missing' = Missing
    BY <1>1, SameRead DEF disk
<1>4. RestInv' /\ OpenInv'
    BY <1>1, <1>3 DEF RecordInv, DiskInv, RestInv, OpenInv
<1> QED BY <1>1, <1>2, <1>4, GoneKeeps

-----------------------------------------------------------------------------
(* The writes.                                                             *)

\* A write that starts nobody leaves what the loop relies on.
LEMMA LoopKept ==
    ASSUME LoopInv, UNCHANGED <<def, pc, mem, draft, refreshed, live>>,
           Ordered(todo'), todo' # <<>> => todo # <<>>, ToStart' = ToStart,
           Unadopted' <=> Unadopted, Unadopted' => Changing'
    PROVE  LoopInv' /\ Coming' = Coming
<1>1. Coming' = Coming
    BY DEF Coming
<1>2. Ordered(todo)' /\ DraftInv'
    BY DEF LoopInv, DraftInv
<1>3. RunInv'
    BY <1>1 DEF LoopInv, RunInv
<1>4. DefInv'
    BY DEF LoopInv, DefInv
<1>5. AskInv'
    BY <1>1 DEF LoopInv, AskInv, AskedBefore
<1> QED BY <1>1, <1>2, <1>3, <1>4, <1>5 DEF LoopInv, RoleInv

\* While a transition is on, the run goes on with what it writes.
LEMMA ComingIsDraft ==
    ASSUME Inv, LoopInv, Changing
    PROVE  /\ todo # <<>> /\ summary # Nothing /\ pc \in {"up", "starting", "replaying"}
           /\ pc # "replaying" => Coming = draft.steps
<1>1. todo # <<>>
    BY NoList
<1>2. summary # Nothing /\ pc \in {"up", "starting", "replaying"}
    BY DEF Changing, Inv, ListInv
<1>3. pc # "replaying" /\ ~Unadopted => draft.steps = mem.steps
    BY <1>1, <1>2 DEF LoopInv, DraftInv, Holding
<1> QED BY <1>1, <1>2, <1>3 DEF Coming

LEMMA WriteReceiptAside ==
    ASSUME Inv, RecordInv, NEW s \in Steps, WriteReceipt(s)
    PROVE  RecordInv'
<1>1. /\ UNCHANGED <<def, summary, journal, calls, pc, mem, draft, broken, refreshed, live, alien>>
      /\ receipt' = [receipt EXCEPT ![s] = draft.steps[s]]
      /\ open' = IF StatusOf(draft, s) \in {"pending", "running"} THEN open ELSE open \ {s}
    BY DEF WriteReceipt
<1>2. /\ Ordered(todo') /\ s \in ToWrite /\ ToWrite' = ToWrite \ {s}
      /\ ToReset = {} /\ ToReset' = {} /\ ~Unpublished /\ ~Unpublished' /\ ToStart' = ToStart
      /\ (Unadopted' <=> Unadopted) /\ (Changing' <=> Changing) /\ (Unsaved' <=> Unsaved)
      /\ todo # <<>>
    BY ReceiptLess DEF RecordInv, LoopInv
<1>3. LoopInv' /\ Coming' = Coming
    BY <1>1, <1>2, LoopKept DEF RecordInv, LoopInv, DraftInv
<1>4. summary # Nothing
    BY <1>2, DiskTypes, ComingIsDraft DEF RecordInv, DiskInv, StepInv
<1>5. PublishInv'
    BY <1>2 DEF PublishInv
<1>6. RestInv' /\ Missing' \subseteq Missing
    <2>1. Missing' = Missing \ {s} /\ \A n \in Steps : n # s => Read'[n] = Read[n]
        BY <1>1, <1>2, <1>4, ReadAfterReceipt, ReadType
    <2> QED BY <1>1, <1>4, <2>1 DEF RecordInv, DiskInv, RestInv, Missing
<1>7. CASE Changing
    <2>1. /\ journal # Nothing /\ draft = journal.doc /\ ToWrite \subseteq journal.changed
          /\ \A n \in journal.changed \ ToWrite : receipt[n] = draft.steps[n]
          /\ Unsaved \/ summary = draft
        BY <1>2, <1>7 DEF RecordInv, DiskInv, ReplayInv
    <2>2. Read' = Read /\ Missing' = Missing \ {s} /\ Read[s] = draft.steps[s]
        BY <1>1, <1>2, <1>4, <2>1, ReadAfterReceipt, ReadValue
    <2>3. receipt'[s] = draft.steps[s] /\ \A n \in Steps : n # s => receipt'[n] = receipt[n]
        BY <1>1, DiskTypes
    <2>4. ReplayInv'
        <3>1. \A n \in journal.changed \ ToWrite' : receipt'[n] = draft.steps[n]
            BY <1>2, <2>1, <2>3, DiskTypes
        <3> QED BY <1>1, <1>2, <2>1, <3>1 DEF ReplayInv
    <2>5. StepInv'
        BY <1>2, <1>7 DEF StepInv
    <2>6. AgreeInv'
        <3>1. Firm' => Firm
            BY <1>1 DEF Firm
        <3>2. ASSUME Firm', NEW n \in Steps PROVE Agree(n)'
            <4>1. Agree(n)
                BY <3>1, <3>2 DEF RecordInv, DiskInv, AgreeInv
            <4>2. n = s => Coming[n] = Read[n]
                BY <1>7, <2>2, <3>1, <3>2, ComingIsDraft DEF RecordInv, Firm
            <4> QED BY <1>1, <1>2, <1>3, <2>2, <4>1, <4>2 DEF Agree
        <3>3. pc \in {"up", "starting", "replaying"}
            BY <1>7, ComingIsDraft DEF RecordInv
        <3> QED BY <1>1, <1>2, <1>6, <2>2, <3>1, <3>2, <3>3 DEF RecordInv, DiskInv, AgreeInv
    <2>7. AdriftInv'
        BY <1>1, <1>7, ComingIsDraft DEF RecordInv, DiskInv, AdriftInv
    <2>8. OpenInv'
        BY <1>1, <2>2 DEF RecordInv, DiskInv, OpenInv
    <2> QED BY <1>3, <1>5, <1>6, <2>4, <2>5, <2>6, <2>7, <2>8 DEF RecordInv, DiskInv
<1>8. CASE ~Changing
    <2>1. /\ pc \in Past /\ Unsaved /\ ToWrite = {s} /\ MayMove(s, draft.steps[s].status)
          /\ journal # Nothing => s \notin journal.changed
        BY <1>2, <1>8 DEF RecordInv, DiskInv, StepInv
    <2>2. ~Unadopted /\ draft.steps = mem.steps /\ Coming = mem.steps
        BY <1>2, <1>8, <2>1 DEF RecordInv, LoopInv, DraftInv, Past, Holding, Coming
    <2>3. /\ Missing' = Missing \ {s} /\ Read'[s] = draft.steps[s]
          /\ \A n \in Steps : n # s => Read'[n] = Read[n]
        BY <1>1, <1>2, <1>4, <2>1, ReadAfterReceipt, ReadType
    <2>4. ReplayInv' /\ StepInv'
        BY <1>2, <1>8, <2>1 DEF ReplayInv, StepInv
    <2>5. AgreeInv'
        <3>1. Firm' => Firm
            BY <1>1 DEF Firm
        <3>2. ASSUME Firm', NEW n \in Steps PROVE Agree(n)'
            <4>1. Agree(n)
                BY <3>1, <3>2 DEF RecordInv, DiskInv, AgreeInv
            <4>2. CASE n = s
                BY <1>3, <2>2, <2>3, <4>2 DEF Agree
            <4>3. CASE n # s
                BY <1>1, <1>2, <1>3, <2>3, <4>1, <4>3 DEF Agree
            <4> QED BY <4>2, <4>3
        <3>3. \A n \in Missing' : n \in Missing /\ Read'[n] = Read[n]
            BY <2>3 DEF Missing
        <3>4. \A n \in Missing' : Firm' => Read'[n].status = "pending"
            BY <1>2, <3>1, <3>3 DEF RecordInv, DiskInv, AgreeInv
        <3> QED BY <1>1, <3>1, <3>2, <3>4 DEF RecordInv, DiskInv, AgreeInv
    <2>6. AdriftInv'
        <3>1. ASSUME NEW d \in Missing, d # s, Adrift(d) PROVE Adrift(d)'
            <4>1. s \in Needs[d] => Read[s].status # "success"
                BY <2>1 DEF MayMove
            <4>2. Needs[d] \subseteq Steps /\ d \in Steps
                BY NeedsAssumption DEF Missing
            <4> QED BY <1>1, <2>3, <3>1, <4>1, <4>2 DEF Adrift, MayMove
        <3>2. \A d \in Missing' : d \in Missing /\ d # s /\ d \in Steps
            BY <2>3 DEF Missing
        <3> HIDE DEF Adrift
        <3> QED BY <1>1, <2>3, <3>1, <3>2 DEF RecordInv, DiskInv, AdriftInv
    <2>7. OpenInv'
        <3>1. s \in open' => draft.steps[s].status = "running"
            BY <1>1, <2>1 DEF StatusOf, MayMove
        <3>2. open' \subseteq open /\ open \subseteq Steps
            BY <1>1 DEF Inv, TypeInv, TypeOK
        <3> QED BY <2>3, <3>1, <3>2 DEF RecordInv, DiskInv, OpenInv
    <2> QED BY <1>3, <1>5, <1>6, <2>4, <2>5, <2>6, <2>7 DEF RecordInv, DiskInv
<1> QED BY <1>7, <1>8

\* A summary that lands changes nothing that is read, or, after another write
\* failed, the one step whose own receipt was lost.
LEMMA SummaryLands ==
    ASSUME Inv, RecordInv, Due("summary"), summary' = draft, UNCHANGED <<receipt, journal, open>>
    PROVE  /\ summary' # Nothing /\ Missing' = Missing
           /\ journal # Nothing \/ ~broken => Read' = Read
           /\ journal = Nothing => /\ pc \in Holding /\ ~Changing
                                   /\ \A n \in Missing : Read'[n] = mem.steps[n]
           /\ \E d \in Steps :
                 /\ \A n \in Steps : n # d => Read'[n] = Read[n]
                 /\ \/ Read'[d] = Read[d]
                    \/ /\ MayMove(d, Read'[d].status) /\ Read[d].status = "pending"
                       /\ Read'[d].status \in {"running", "skipped", "cancelled"}
           /\ RestInv' /\ OpenInv'
<1>1. todo # <<>> /\ draft # Nothing /\ Has(todo, "summary")
    <2>1. todo # <<>> /\ Head(todo).what = "summary" /\ todo \in Seq(Ops)
        BY DEF Due, Inv, TypeInv
    <2> QED BY <2>1, TailFacts, DiskTypes
<1>2. ToWrite = {} /\ ~Unpublished
    <2> DEFINE t == Tail(todo)
    <2>1. ~Has(todo, "receipt") /\ ~Has(todo, "journal")
        <3>1. /\ \A w : Has(t, w) => Rank["summary"] < Rank[w]
              /\ \A w : Has(todo, w) <=> "summary" = w \/ Has(t, w)
            BY <1>1, OrderedTail, TailFacts DEF Due, Inv, TypeInv, RecordInv, LoopInv
        <3> QED BY <3>1, RankOf
    <2> QED BY <2>1, NamedIsHeld DEF Unpublished
<1>3. summary = Nothing => Missing = Steps
    BY DEF RecordInv, DiskInv, RestInv
<1>4. /\ summary' # Nothing /\ Missing' = Missing
      /\ journal # Nothing => Read' = Read
      /\ journal = Nothing =>
            Read' = [s \in Steps |-> IF s \in Missing THEN draft.steps[s] ELSE Read[s]]
    BY <1>1, <1>3, ReadAfterSummary
<1>5. Missing \subseteq Steps /\ Read \in [Steps -> Entries]
    BY ReadType DEF Missing
<1>6. ASSUME journal = Nothing
      PROVE  pc \in Holding /\ ~Changing /\ draft.steps = mem.steps /\ Coming = mem.steps
    <2>1. ~Changing
        BY <1>2, <1>6 DEF RecordInv, DiskInv, ReplayInv
    <2>2. pc \in Holding
        BY <1>1, <2>1 DEF Inv, TypeInv, TypeOK, ListInv, EpochInv, Changing, Holding
    <2>3. ~Unadopted
        BY <2>1 DEF RecordInv, LoopInv, DraftInv
    <2> QED BY <1>1, <2>1, <2>2, <2>3 DEF RecordInv, LoopInv, DraftInv, Coming
<1>7. ASSUME journal = Nothing, ~broken PROVE Read' = Read
    <2>1. Firm
        BY <1>6, <1>7 DEF Firm, Holding
    <2>2. ASSUME NEW n \in Missing PROVE draft.steps[n] = Read[n]
        <3>1. Agree(n) /\ n \in Steps
            BY <1>5, <2>1 DEF RecordInv, DiskInv, AgreeInv
        <3>2. live[n] = "no"
            BY <3>1 DEF Inv, WorkInv, OnDisk, Missing
        <3> QED BY <1>2, <1>6, <1>7, <3>1, <3>2 DEF Agree
    <2>3. \A n \in Steps : Read'[n] = Read[n]
        BY <1>4, <1>7, <2>2
    <2>4. Read = [n \in Steps |-> Read[n]] /\ Read' = [n \in Steps |-> Read'[n]]
        BY DEF Read
    <2> QED BY <2>3, <2>4
<1>8. ASSUME journal = Nothing, broken
      PROVE  \E d \in Steps :
                /\ \A n \in Steps : n # d => Read'[n] = Read[n]
                /\ Read'[d] = Read[d] \/ (d \in Missing /\ Adrift(d) /\ Read'[d] = mem.steps[d])
    <2>1. PICK d \in Steps : \A n \in Missing : mem.steps[n] = Read[n] \/ (n = d /\ Adrift(n))
        BY <1>8 DEF RecordInv, DiskInv, AdriftInv
    <2>2. \A n \in Steps : Read'[n] = IF n \in Missing THEN mem.steps[n] ELSE Read[n]
        BY <1>4, <1>6, <1>8
    <2> HIDE DEF Adrift
    <2> QED BY <2>1, <2>2
<1>9. \E d \in Steps :
         /\ \A n \in Steps : n # d => Read'[n] = Read[n]
         /\ \/ Read'[d] = Read[d]
            \/ /\ MayMove(d, Read'[d].status) /\ Read[d].status = "pending"
               /\ Read'[d].status \in {"running", "skipped", "cancelled"}
    <2>1. CASE Read' = Read
        <3>1. 1 \in Steps
            BY NAssumption DEF Steps
        <3> QED BY <2>1, <3>1
    <2>2. CASE journal = Nothing /\ broken
        BY <1>8, <2>2 DEF Adrift
    <2> QED BY <1>4, <1>7, <2>1, <2>2
<1>10. RestInv' /\ OpenInv'
    <2>1. open \subseteq Steps
        BY DEF Inv, TypeInv, TypeOK
    <2>2. \A n \in Missing' : Read'[n].status \in {"pending", "running", "skipped", "cancelled"}
        BY <1>4, <1>5, <1>9 DEF RecordInv, DiskInv, RestInv
    <2>3. \A n \in Steps : Read[n].status = "running" => Read'[n].status = "running"
        BY <1>9
    <2> QED BY <1>4, <2>1, <2>2, <2>3 DEF RecordInv, DiskInv, RestInv, OpenInv
<1>11. journal = Nothing => \A n \in Missing : Read'[n] = mem.steps[n]
    BY <1>4, <1>5, <1>6
<1> QED BY <1>4, <1>6, <1>7, <1>9, <1>10, <1>11

LEMMA WriteSummaryAside ==
    ASSUME Inv, RecordInv, WriteSummary
    PROVE  RecordInv'
<1>1. /\ Due("summary") /\ summary' = draft /\ todo' = Tail(todo)
      /\ UNCHANGED <<def, receipt, journal, calls, pc, mem, draft, broken, refreshed, live, alien,
                     open>>
    BY DEF WriteSummary
<1>2. /\ Ordered(todo') /\ Unsaved /\ ~Unsaved'
      /\ ToWrite = {} /\ ToReset = {} /\ ~Unpublished
      /\ ToWrite' = {} /\ ToReset' = {} /\ ~Unpublished' /\ ToStart' = ToStart
      /\ (Unadopted' <=> Unadopted) /\ (Changing' <=> Changing)
      /\ todo # <<>>
    BY <1>1, SummaryLess DEF RecordInv, LoopInv
<1>3. LoopInv' /\ Coming' = Coming
    BY <1>1, <1>2, LoopKept DEF RecordInv, LoopInv, DraftInv
<1>4. /\ summary' # Nothing /\ Missing' = Missing
      /\ journal # Nothing \/ ~broken => Read' = Read
      /\ journal = Nothing => \A n \in Missing : Read'[n] = mem.steps[n]
      /\ RestInv' /\ OpenInv'
    BY <1>1, SummaryLands
<1>5. PublishInv' /\ StepInv'
    BY <1>2 DEF PublishInv, StepInv
<1>6. ReplayInv'
    BY <1>1, <1>2 DEF RecordInv, DiskInv, ReplayInv
<1>7. AgreeInv'
    <2>1. Firm' => Firm
        BY <1>1 DEF Firm
    <2>2. Firm => ~broken
        BY DEF RecordInv, DiskInv, AdriftInv, Firm
    <2>3. \A n \in Steps : Firm' => Agree(n)'
        BY <1>1, <1>2, <1>3, <1>4, <2>1, <2>2 DEF RecordInv, DiskInv, AgreeInv, Agree
    <2> QED BY <1>1, <1>2, <1>4, <2>1, <2>2, <2>3 DEF RecordInv, DiskInv, AgreeInv
<1>8. AdriftInv'
    <2>1. CASE journal # Nothing
        BY <1>1, <2>1 DEF RecordInv, DiskInv, AdriftInv
    <2>2. CASE journal = Nothing
        BY <1>1, <1>4, <2>2 DEF RecordInv, DiskInv, AdriftInv
    <2> QED BY <2>1, <2>2
<1> QED BY <1>3, <1>4, <1>5, <1>6, <1>7, <1>8 DEF RecordInv, DiskInv

\* The journal that lands resets its steps, all of them at once.
LEMMA JournalLands ==
    ASSUME Inv, RecordInv, WriteJournal
    PROVE  /\ Unpublished /\ journal = Nothing /\ summary # Nothing /\ pc \in {"up", "starting"}
           /\ Missing' = Missing
           /\ journal' # Nothing /\ journal'.doc = draft /\ journal'.changed = ToReset
           /\ \A s \in Steps : Read'[s] = IF s \in ToReset THEN Fresh ELSE Read[s]
<1>1. /\ Due("journal") /\ todo' = Tail(todo) /\ journal' = [doc |-> draft, changed |-> Head(todo).of]
      /\ UNCHANGED <<summary, receipt>>
    BY DEF WriteJournal
<1>2. Unpublished /\ ToReset = Head(todo).of /\ todo # <<>>
    BY <1>1, JournalLess DEF RecordInv, LoopInv
<1>3. /\ journal = Nothing /\ summary # Nothing
      /\ \A s \in ToReset : draft.steps[s] = Fresh
      /\ \A s \in Missing \ ToReset : draft.steps[s] = Read[s]
    BY <1>2 DEF RecordInv, DiskInv, PublishInv
<1>4. pc \in {"up", "starting"}
    BY <1>2 DEF Unpublished, Inv, ListInv
<1>5. ToReset \in SUBSET Steps
    BY DEF ToReset, Listed
<1>6. /\ Missing' = Missing /\ journal' # Nothing
      /\ journal'.doc = draft /\ journal'.changed = ToReset
      /\ Read' = [s \in Steps |-> IF s \in ToReset \cup Missing THEN draft.steps[s] ELSE Read[s]]
    BY <1>1, <1>2, <1>3, <1>5, ReadAfterJournal
<1> QED BY <1>2, <1>3, <1>4, <1>6

LEMMA WriteJournalAside ==
    ASSUME Inv, RecordInv, WriteJournal
    PROVE  RecordInv'
<1>1. /\ Due("journal") /\ todo' = Tail(todo)
      /\ UNCHANGED <<def, summary, receipt, calls, pc, mem, draft, broken, refreshed, live, alien,
                     open>>
    BY DEF WriteJournal
<1>2. /\ Ordered(todo') /\ Unpublished /\ ~Unpublished'
      /\ ToReset' = {} /\ ToWrite' = ToWrite /\ ToStart' = ToStart
      /\ (Unadopted' <=> Unadopted) /\ (Changing' <=> Changing) /\ (Unsaved' <=> Unsaved)
      /\ todo # <<>>
    BY <1>1, JournalLess DEF RecordInv, LoopInv
<1>3. LoopInv' /\ Coming' = Coming
    BY <1>1, <1>2, LoopKept DEF RecordInv, LoopInv, DraftInv
<1>4. /\ journal = Nothing /\ summary # Nothing /\ pc \in {"up", "starting"}
      /\ Missing' = Missing
      /\ journal' # Nothing /\ journal'.doc = draft /\ journal'.changed = ToReset
      /\ \A s \in Steps : Read'[s] = IF s \in ToReset THEN Fresh ELSE Read[s]
    BY JournalLands
<1>5. /\ Unsaved /\ Changing /\ ToWrite = ToReset
      /\ pc = "up" => SendsBack
      /\ pc = "starting" => GoesOn
    BY <1>2 DEF RecordInv, DiskInv, PublishInv
<1>6. PublishInv' /\ StepInv'
    BY <1>2, <1>5 DEF PublishInv, StepInv
<1>7. ReplayInv'
    BY <1>1, <1>2, <1>4, <1>5 DEF ReplayInv
<1>8. AgreeInv'
    <2>1. Firm
        BY <1>4 DEF Firm
    <2>2. ASSUME NEW n \in Steps PROVE Agree(n)'
        <3>1. Agree(n)
            BY <2>1 DEF RecordInv, DiskInv, AgreeInv
        <3> QED BY <1>1, <1>2, <1>3, <1>4, <1>5, <3>1 DEF Agree
    <2>3. ASSUME NEW n \in Missing PROVE Read'[n].status = "pending"
        <3>1. n \in Steps /\ Read[n].status \in {"pending", "running", "skipped", "cancelled"}
            BY DEF Missing, RecordInv, DiskInv, RestInv
        <3>2. CASE pc = "up"
            BY <1>4, <2>1, <3>1, <3>2, FreshType DEF RecordInv, DiskInv, AgreeInv
        <3>3. CASE pc = "starting"
            <4>1. Undone \subseteq ToReset
                BY <1>5, <3>3, DownstreamClosed DEF GoesOn, Undone
            <4>2. n \in ToReset
                BY <1>5, <3>1, <3>3, <4>1 DEF GoesOn, Undone
            <4> QED BY <1>4, <3>1, <4>2, FreshType
        <3> QED BY <1>4, <3>2, <3>3
    <2> QED BY <1>1, <1>4, <2>2, <2>3 DEF AgreeInv
<1>9. AdriftInv'
    BY <1>1, <1>4 DEF RecordInv, DiskInv, AdriftInv
<1>10. RestInv'
    <2>1. Missing \subseteq Steps
        BY DEF Missing
    <2> QED BY <1>1, <1>4, <2>1, FreshType DEF RecordInv, DiskInv, RestInv
<1>11. OpenInv'
    <2> SUFFICES ASSUME NEW s \in open \ (Human \cup Recoverable) PROVE Read'[s].status = "running"
        BY <1>1 DEF OpenInv
    <2>1. s \in Steps /\ Read[s].status = "running"
        BY DEF RecordInv, DiskInv, OpenInv, Inv, TypeInv, TypeOK
    <2>2. s \notin ToReset
        <3>1. CASE pc = "up"
            BY <1>5, <2>1, <3>1, StoreAssumption DEF SendsBack
        <3>2. CASE pc = "starting"
            BY <1>5, <2>1, <3>2 DEF GoesOn
        <3> QED BY <1>4, <3>1, <3>2
    <2> QED BY <1>4, <2>1, <2>2
<1> QED BY <1>3, <1>6, <1>7, <1>8, <1>9, <1>10, <1>11 DEF RecordInv, DiskInv

\* Once all that a journal names is written, it says nothing new.
LEMMA UnlinkLands ==
    ASSUME Inv, RecordInv, Due("unlink"), UNCHANGED <<summary, receipt>>, journal' = Nothing
    PROVE  summary # Nothing /\ Read' = Read /\ Missing' = Missing
<1> DEFINE t == Tail(todo)
<1>1. todo # <<>> /\ Head(todo).what = "unlink" /\ todo \in Seq(Ops)
    BY DEF Due, Inv, TypeInv
<1>2. /\ t = <<>>
      /\ \A w : Has(todo, w) <=> "unlink" = w \/ Has(t, w)
    BY <1>1, TailFacts DEF Inv, ListInv, Final
<1>3. Changing /\ ~Unpublished /\ ~Unsaved /\ ToWrite = {}
    BY <1>2, NothingLeft, NamedIsHeld DEF Changing, Unpublished, Unsaved
<1>4. /\ journal # Nothing /\ draft = journal.doc /\ summary = draft
      /\ \A s \in journal.changed : receipt[s] = draft.steps[s]
    BY <1>3 DEF RecordInv, DiskInv, ReplayInv
<1>5. summary # Nothing
    BY <1>4, DiskTypes
<1> QED BY <1>4, <1>5, ReadAfterUnlink

LEMMA UnlinkAside ==
    ASSUME Inv, RecordInv, Unlink
    PROVE  RecordInv'
<1>1. /\ Due("unlink") /\ todo' = Tail(todo) /\ journal' = Nothing
      /\ UNCHANGED <<def, summary, receipt, calls, pc, mem, draft, broken, refreshed, live, alien,
                     open>>
    BY DEF Unlink
<1>2. /\ todo' = <<>> /\ Changing /\ todo # <<>>
      /\ ToWrite = {} /\ ToReset = {} /\ ToStart = {}
      /\ ~Unpublished /\ ~Unadopted /\ ~Unsaved
    BY <1>1, UnlinkLess DEF RecordInv, LoopInv
<1>3. /\ Ordered(todo') /\ ToWrite' = {} /\ ToReset' = {} /\ ToStart' = {}
      /\ ~Unpublished' /\ ~Changing' /\ ~Unadopted' /\ ~Unsaved'
    BY <1>2, NoListNext
<1>4. LoopInv' /\ Coming' = Coming
    BY <1>1, <1>2, <1>3, LoopKept DEF RecordInv
<1>5. Read' = Read /\ Missing' = Missing
    BY <1>1, UnlinkLands
<1>6. PublishInv' /\ ReplayInv' /\ StepInv'
    BY <1>3 DEF PublishInv, ReplayInv, StepInv
<1>7. pc \in {"up", "starting", "replaying"}
    BY <1>2, ComingIsDraft DEF RecordInv
<1>8. AgreeInv'
    BY <1>1, <1>2, <1>3, <1>4, <1>5, <1>7 DEF RecordInv, DiskInv, AgreeInv, Agree, Firm
<1>9. AdriftInv' /\ RestInv' /\ OpenInv'
    BY <1>1, <1>5, <1>7 DEF RecordInv, DiskInv, AdriftInv, RestInv, OpenInv
<1> QED BY <1>4, <1>6, <1>8, <1>9 DEF RecordInv, DiskInv

LEMMA AdoptAside ==
    ASSUME Inv, RecordInv, Adopt
    PROVE  RecordInv'
<1>1. /\ Due("adopt") /\ todo' = Tail(todo) /\ mem' = draft
      /\ UNCHANGED <<def, summary, receipt, journal, calls, pc, draft, broken, refreshed, live, alien,
                     open>>
    BY DEF Adopt, disk
<1>2. /\ Ordered(todo') /\ Unadopted /\ ~Unadopted'
      /\ ToWrite = {} /\ ToReset = {} /\ ~Unpublished /\ ~Unsaved
      /\ ToWrite' = {} /\ ToReset' = {} /\ ~Unpublished' /\ ~Unsaved' /\ ToStart' = ToStart
      /\ (Changing' <=> Changing) /\ todo # <<>>
    BY <1>1, AdoptLess DEF RecordInv, LoopInv
<1>3. Changing /\ pc = "up" /\ Has(todo, "adopt")
      /\ \A s \in Steps : draft.steps[s] \in {Fresh, mem.steps[s]}
    BY <1>2 DEF RecordInv, LoopInv, DraftInv, Inv, ListInv, Unadopted
<1>4. Coming' = Coming
    BY <1>1, <1>2 DEF Coming
<1>5. Read' = Read /\ Missing' = Missing
    BY <1>1, SameRead DEF disk
<1>6. LoopInv'
    <2>1. Ordered(todo)' /\ DraftInv'
        BY <1>1, <1>2 DEF RecordInv, LoopInv, DraftInv
    <2>2. RunInv'
        BY <1>1, <1>2, <1>4 DEF RecordInv, LoopInv, RunInv
    <2>3. DefInv'
        <3> SUFFICES ASSUME NEW s \in Steps,
                            draft.steps[s].status \in {"success", "refused", "running"} \/ live[s] # "no"
                     PROVE  draft.steps[s].def = def[s]
            BY <1>1 DEF DefInv
        <3>1. draft.steps[s] = mem.steps[s]
            BY <1>3, FreshType DEF Inv, WorkInv
        <3> QED BY <1>3, <3>1 DEF RecordInv, LoopInv, DefInv
    <2>4. AskInv'
        BY <1>1, <1>2, <1>4 DEF RecordInv, LoopInv, AskInv, AskedBefore
    <2> QED BY <1>1, <2>1, <2>2, <2>3, <2>4 DEF RecordInv, LoopInv, RoleInv
<1>7. PublishInv' /\ StepInv'
    BY <1>2 DEF PublishInv, StepInv
<1>8. ReplayInv'
    BY <1>1, <1>2, <1>3 DEF RecordInv, DiskInv, ReplayInv
<1>9. AgreeInv'
    BY <1>1, <1>2, <1>3, <1>4, <1>5 DEF RecordInv, DiskInv, AgreeInv, Agree, Firm
<1>10. AdriftInv' /\ RestInv' /\ OpenInv'
    BY <1>1, <1>3, <1>5 DEF RecordInv, DiskInv, AdriftInv, RestInv, OpenInv
<1> QED BY <1>6, <1>7, <1>8, <1>9, <1>10 DEF RecordInv, DiskInv

LEMMA BeginWorkAside ==
    ASSUME Inv, RecordInv, NEW s \in Steps, BeginWork(s)
    PROVE  RecordInv'
<1>1. /\ Due("work") /\ s \in Head(todo).of /\ todo' = Tail(todo)
      /\ live' = [live EXCEPT ![s] = "working"] /\ open' = open \cup {s}
      /\ UNCHANGED <<def, summary, receipt, journal, calls, pc, mem, draft, broken, refreshed, alien>>
    BY DEF BeginWork, disk
<1>2. /\ todo' = <<>> /\ todo # <<>> /\ ToWrite = {} /\ ToReset = {}
      /\ ~Unpublished /\ ~Unadopted /\ ~Unsaved /\ ~Changing /\ ToStart = Head(todo).of
    BY <1>1, LastLess DEF RecordInv, LoopInv
<1>3. /\ Ordered(todo') /\ ToWrite' = {} /\ ToReset' = {} /\ ToStart' = {}
      /\ ~Unpublished' /\ ~Changing' /\ ~Unadopted' /\ ~Unsaved'
    BY <1>2, NoListNext
<1>4. ToStart = {s}
    BY <1>1, <1>2 DEF RecordInv, LoopInv, DraftInv
<1>5. Names(todo, "work", s) /\ pc = "up" /\ journal = Nothing
    BY <1>2, <1>4, NamedIsHeld DEF ToStart, Listed, Inv, ListInv, WorkInv, Changing
<1>6. mem.steps[s].status = "running" /\ OnDisk(s)
    BY <1>2, <1>5 DEF ToWrite, Listed, Inv, WorkInv
<1>7. Read' = Read /\ Missing' = Missing /\ Read[s].status = "running"
    <2>1. Read' = Read /\ Missing' = Missing
        BY <1>1, SameRead DEF disk
    <2> QED BY <1>5, <1>6, <2>1, ReadValue, DiskTypes DEF OnDisk, Past
<1>8. live \in [Steps -> WorkerStates]
    BY DEF Inv, TypeInv, TypeOK
<1>9. live'[s] = "working" /\ \A n \in Steps : n # s => live'[n] = live[n]
    BY <1>1, <1>8
<1>10. Coming' = Coming /\ Coming = mem.steps
    BY <1>1, <1>2, <1>3 DEF Coming
<1>11. LoopInv'
    <2>1. Ordered(todo)' /\ DraftInv'
        BY <1>2, <1>3 DEF DraftInv
    <2>2. RunInv'
        BY <1>1, <1>3, <1>4, <1>9, <1>10 DEF RecordInv, LoopInv, RunInv
    <2>3. DefInv'
        BY <1>1, <1>6, <1>9 DEF RecordInv, LoopInv, DefInv
    <2>4. AskInv'
        BY <1>1, <1>3, <1>4, <1>9, <1>10 DEF RecordInv, LoopInv, AskInv, AskedBefore
    <2>5. RoleInv'
        BY <1>9 DEF RecordInv, LoopInv, RoleInv
    <2> QED BY <2>1, <2>2, <2>3, <2>4, <2>5 DEF LoopInv
<1>12. PublishInv' /\ ReplayInv' /\ StepInv'
    BY <1>3 DEF PublishInv, ReplayInv, StepInv
<1>13. AgreeInv'
    BY <1>1, <1>2, <1>3, <1>5, <1>7, <1>10 DEF RecordInv, DiskInv, AgreeInv, Agree, Firm
<1>14. AdriftInv' /\ RestInv' /\ OpenInv'
    BY <1>1, <1>5, <1>7 DEF RecordInv, DiskInv, AdriftInv, RestInv, OpenInv
<1> QED BY <1>11, <1>12, <1>13, <1>14 DEF RecordInv, DiskInv

-----------------------------------------------------------------------------
(* A write that fails.                                                     *)

LEMMA SummaryNext ==
    todo' = <<Op("summary", {})>> =>
        /\ Ordered(todo')
        /\ ToWrite' = {} /\ ToReset' = {} /\ ToStart' = {}
        /\ ~Unpublished' /\ ~Changing' /\ ~Unadopted'
<1> SUFFICES ASSUME todo' = <<Op("summary", {})>>
             PROVE  /\ Ordered(todo')
                    /\ ToWrite' = {} /\ ToReset' = {} /\ ToStart' = {}
                    /\ ~Unpublished' /\ ~Changing' /\ ~Unadopted'
    OBVIOUS
<1>1. /\ Ordered(todo')
      /\ \A w : Has(todo', w) <=> w = "summary"
      /\ \A w, s : ~Names(todo', w, s)
    BY SummaryOrdered, SummaryList
<1> QED BY <1>1 DEF ToWrite, ToReset, ToStart, Listed, Unpublished, Changing, Unadopted

\* On a disk without a journal, memory differs from what is read in one step
\* without a receipt, at most.
LEMMA DriftAtMost ==
    ASSUME Inv, RecordInv, pc \in Past, journal = Nothing
    PROVE  \E d \in Steps : \A s \in Missing : mem.steps[s] = Read[s] \/ (s = d /\ Adrift(s))
<1>1. 1 \in Steps
    BY NAssumption DEF Steps
<1>2. CASE broken
    BY <1>2 DEF RecordInv, DiskInv, AdriftInv
<1>3. CASE ~broken /\ Changing
    <2>1. Unpublished
        BY <1>3 DEF RecordInv, DiskInv, ReplayInv
    <2>2. pc = "up"
        BY <1>3, ComingIsDraft DEF RecordInv, Past
    <2> QED BY <1>1, <2>1, <2>2 DEF RecordInv, DiskInv, PublishInv
<1>4. CASE ~broken /\ ~Changing
    <2>1. Firm /\ ~Unpublished /\ ~Unadopted /\ pc \in Holding
        BY <1>4 DEF Firm, Past, Holding, RecordInv, DiskInv, LoopInv, PublishInv, DraftInv
    <2>2. Coming = mem.steps
        BY <2>1 DEF Coming
    <2>3. ASSUME NEW n \in Missing, n \notin ToWrite PROVE mem.steps[n] = Read[n]
        <3>1. n \in Steps /\ Agree(n)
            BY <2>1 DEF RecordInv, DiskInv, AgreeInv, Missing
        <3>2. live[n] = "no"
            BY <3>1 DEF Inv, WorkInv, OnDisk, Missing
        <3> QED BY <2>2, <2>3, <3>1, <3>2 DEF Agree
    <2>4. ASSUME NEW n \in Missing, n \in ToWrite PROVE ToWrite = {n} /\ Adrift(n)
        <3>1. /\ ToWrite = {n} /\ MayMove(n, draft.steps[n].status)
              /\ draft.steps[n].status \in {"running", "skipped", "cancelled"}
            BY <1>4, <2>4 DEF RecordInv, DiskInv, StepInv
        <3>2. draft.steps = mem.steps
            BY <2>1, <2>4, NoList DEF RecordInv, LoopInv, DraftInv
        <3>3. Read[n].status = "pending"
            BY <2>1 DEF RecordInv, DiskInv, AgreeInv
        <3> QED BY <3>1, <3>2, <3>3 DEF Adrift
    <2> HIDE DEF Adrift
    <2>5. CASE \E n \in Missing : n \in ToWrite
        <3>1. PICK n \in Missing : n \in ToWrite
            BY <2>5
        <3>2. n \in Steps /\ ToWrite = {n} /\ Adrift(n)
            BY <2>4, <3>1 DEF Missing
        <3> QED BY <2>3, <3>2
    <2>6. CASE \A n \in Missing : n \notin ToWrite
        BY <1>1, <2>3, <2>6
    <2> QED BY <2>5, <2>6
<1> QED BY <1>2, <1>3, <1>4

\* What the disk may look like after the write that failed.
LEMMA FailLands ==
    ASSUME Inv, RecordInv, WriteFails
    PROVE  /\ RestInv' /\ OpenInv' /\ Missing' = Missing
           /\ pc \in Past /\ journal' = Nothing =>
                \/ \A s \in Missing : mem.steps[s] = Read'[s]
                \/ /\ Read' = Read
                   /\ \E d \in Steps : \A s \in Missing :
                        mem.steps[s] = Read[s] \/ (s = d /\ Adrift(s))
<1>1. /\ summary' \in {summary} \cup (IF Due("summary") THEN {draft} ELSE {})
      /\ journal' \in {journal} \cup (IF Due("unlink") THEN {Nothing} ELSE {})
      /\ UNCHANGED <<receipt, open>>
    BY DEF WriteFails
<1>2. ~(Due("summary") /\ Due("unlink"))
    BY DEF Due
<1>3. CASE UNCHANGED disk
    <2>1. Read' = Read /\ Missing' = Missing
        BY <1>3, SameRead
    <2>2. RestInv' /\ OpenInv'
        BY <1>1, <1>3, <2>1 DEF RecordInv, DiskInv, RestInv, OpenInv, disk
    <2>3. journal' = journal
        BY <1>3 DEF disk
    <2> QED BY <2>1, <2>2, <2>3, DriftAtMost
<1>4. CASE Due("summary") /\ summary' = draft /\ journal' = journal
    BY <1>1, <1>4, SummaryLands
<1>5. CASE Due("unlink") /\ journal' = Nothing /\ summary' = summary
    <2>1. summary # Nothing /\ Read' = Read /\ Missing' = Missing
        BY <1>1, <1>5, UnlinkLands
    <2>2. RestInv' /\ OpenInv'
        BY <1>1, <1>5, <2>1 DEF RecordInv, DiskInv, RestInv, OpenInv
    <2>3. ASSUME pc \in Past, NEW n \in Missing PROVE mem.steps[n] = Read[n]
        <3>1. ToWrite = {} /\ ~Unadopted /\ ~Unpublished /\ Changing
            <4> DEFINE t == Tail(todo)
            <4>1. todo # <<>> /\ Head(todo).what = "unlink" /\ todo \in Seq(Ops)
                BY <1>5 DEF Due, Inv, TypeInv
            <4>2. /\ t = <<>>
                  /\ \A w : Has(todo, w) <=> "unlink" = w \/ Has(t, w)
                BY <4>1, TailFacts DEF Inv, ListInv, Final
            <4> QED BY <4>2, NothingLeft, NamedIsHeld DEF Changing, Unpublished, Unadopted
        <3>2. pc = "up" /\ Firm /\ Coming = mem.steps
            BY <2>3, <3>1, ComingIsDraft DEF RecordInv, Past, Firm, Coming
        <3>3. n \in Steps /\ Agree(n)
            BY <3>2 DEF RecordInv, DiskInv, AgreeInv, Missing
        <3> QED BY <3>1, <3>2, <3>3 DEF Agree
    <2> QED BY <2>1, <2>2, <2>3
<1> QED BY <1>1, <1>2, <1>3, <1>4, <1>5 DEF disk

\* A loop that broke off: the drain and the last save are all that is left.
LEMMA BrokenKeeps ==
    ASSUME Inv, RecordInv, pc' \in {"ending", "closing"}, broken' = TRUE,
           UNCHANGED <<mem, refreshed, live>>,
           todo' = <<>> \/ (todo' = <<Op("summary", {})>> /\ draft'.steps = mem.steps),
           RestInv', OpenInv',
           journal' = Nothing =>
                \E d \in Steps : \A s \in Missing' : mem.steps[s] = Read'[s] \/ (s = d /\ Adrift(s)')
    PROVE  RecordInv'
<1>1. /\ Ordered(todo') /\ ToWrite' = {} /\ ToReset' = {} /\ ToStart' = {}
      /\ ~Unpublished' /\ ~Changing' /\ ~Unadopted'
    BY NoListNext, SummaryNext
<1>2. AskInv'
    <2> SUFFICES ASSUME NEW s \in Steps, live[s] # "no", NEW n \in AskedBefore(s)
                 PROVE  mem.steps[n].status = "success"
        BY <1>1 DEF AskInv, Coming, AskedBefore
    <2>1. Coming[n].status = "success"
        BY DEF RecordInv, LoopInv, AskInv
    <2>2. n \in Steps
        BY DEF AskedBefore, Upstream
    <2> QED BY <2>1, <2>2, FreshType DEF RecordInv, LoopInv, DraftInv, Coming
<1>3. LoopInv'
    BY <1>1, <1>2 DEF RecordInv, LoopInv, DraftInv, RunInv, DefInv, RoleInv
<1>4. PublishInv' /\ ReplayInv' /\ StepInv' /\ AgreeInv'
    BY <1>1 DEF PublishInv, ReplayInv, StepInv, AgreeInv, Firm
<1>5. AdriftInv'
    BY DEF AdriftInv
<1> QED BY <1>3, <1>4, <1>5 DEF RecordInv, DiskInv

\* An entry that may still land may do so as long as nothing that is read
\* changes.
LEMMA AdriftStays ==
    ASSUME NEW s, Adrift(s), Read' = Read, mem' = mem
    PROVE  Adrift(s)'
BY DEF Adrift, MayMove

LEMMA WriteFailsAside ==
    ASSUME Inv, RecordInv, WriteFails
    PROVE  RecordInv'
<1>1. UNCHANGED <<def, receipt, calls, live, alien, open>>
    BY DEF WriteFails
<1>2. RestInv' /\ OpenInv' /\ Missing' = Missing
    BY FailLands
<1>3. mem' = mem /\ pc \in Past /\ journal' = Nothing =>
        \E d \in Steps : \A s \in Missing' : mem.steps[s] = Read'[s] \/ (s = d /\ Adrift(s)')
    <2> SUFFICES ASSUME mem' = mem, pc \in Past, journal' = Nothing
                 PROVE  \E d \in Steps : \A s \in Missing' :
                            mem.steps[s] = Read'[s] \/ (s = d /\ Adrift(s)')
        OBVIOUS
    <2>1. CASE \A s \in Missing : mem.steps[s] = Read'[s]
        <3>1. 1 \in Steps
            BY NAssumption DEF Steps
        <3> QED BY <1>2, <2>1, <3>1
    <2>2. CASE Read' = Read /\ \E d \in Steps : \A s \in Missing :
                    mem.steps[s] = Read[s] \/ (s = d /\ Adrift(s))
        <3>1. PICK d \in Steps : \A s \in Missing : mem.steps[s] = Read[s] \/ (s = d /\ Adrift(s))
            BY <2>2
        <3>2. Adrift(d) => Adrift(d)'
            BY <2>2, AdriftStays
        <3> HIDE DEF Adrift
        <3> QED BY <1>2, <2>2, <3>1, <3>2
    <2> QED BY <2>1, <2>2, FailLands
<1>4. CASE /\ pc \in {"up", "stopping"}
           /\ pc' = "ending" /\ broken' = TRUE /\ todo' = <<>>
           /\ UNCHANGED <<mem, draft, refreshed>>
    BY <1>1, <1>2, <1>3, <1>4, BrokenKeeps DEF Past
<1>5. CASE /\ pc \in {"ending", "resolving"}
           /\ pc' = "closing" /\ broken' = TRUE
           /\ Handle([mem EXCEPT !.left = FALSE], <<Op("summary", {})>>)
           /\ UNCHANGED <<mem, refreshed>>
    <2>1. pc \in Past
        BY <1>5 DEF Past
    <2>2. draft'.steps = mem.steps
        BY <1>5, <2>1, PastHasRun, WithoutLeft DEF Handle
    <2>3. todo' = <<Op("summary", {})>>
        BY <1>5 DEF Handle
    <2> QED BY <1>1, <1>2, <1>3, <1>5, <2>1, <2>2, <2>3, BrokenKeeps
<1>6. CASE /\ pc = "closing" /\ Writing
           /\ todo' = <<>> /\ UNCHANGED <<pc, broken, mem, draft, refreshed>>
    <2>1. CASE broken
        BY <1>1, <1>2, <1>3, <1>6, <2>1, BrokenKeeps DEF Past
    <2>2. CASE ~broken
        <3>1. todo # <<>> /\ Head(todo).what \in {"receipt", "summary", "journal", "unlink"}
            BY <1>6 DEF Writing
        <3>2. \A w : Has(todo, w) => w \in {"summary"}
            <4>1. ASSUME NEW w, Has(todo, w) PROVE w \in Whats
                <5>1. PICK i \in 1..Len(todo) : todo[i].what = w
                    BY <4>1 DEF Has
                <5>2. todo[i] \in Ops
                    BY ElementOfSeq DEF Inv, TypeInv
                <5> QED BY <5>1, <5>2 DEF Ops
            <4> QED BY <1>6, <4>1 DEF Inv, ListInv, Whats
        <3>3. /\ ToWrite = {} /\ ToReset = {} /\ ToStart = {}
              /\ ~Unpublished /\ ~Changing /\ ~Unadopted
            BY <3>2, NamedIsHeld DEF Unpublished, Changing, Unadopted
        <3>4. /\ Ordered(todo') /\ ToWrite' = {} /\ ToReset' = {} /\ ToStart' = {}
              /\ ~Unpublished' /\ ~Changing' /\ ~Unadopted'
            BY <1>6, NoListNext
        <3>5. LoopInv' /\ Coming' = Coming
            BY <1>1, <1>6, <3>1, <3>3, <3>4, LoopKept DEF RecordInv
        <3>6. Read' = Read /\ journal' = journal
            <4>1. ~Due("unlink")
                BY <1>6, TailFacts DEF Due, Inv, TypeInv, ListInv
            <4>2. journal' = journal /\ (summary' = summary \/ (Due("summary") /\ summary' = draft))
                BY <4>1 DEF WriteFails
            <4> QED BY <1>1, <2>2, <4>2, SummaryLands, SameRead DEF disk
        <3>7. PublishInv' /\ ReplayInv' /\ StepInv'
            BY <3>4 DEF PublishInv, ReplayInv, StepInv
        <3>8. AgreeInv'
            BY <1>1, <1>2, <1>6, <3>3, <3>4, <3>5, <3>6
               DEF RecordInv, DiskInv, AgreeInv, Agree, Firm
        <3>9. AdriftInv'
            BY <1>6, <2>2 DEF AdriftInv
        <3> QED BY <1>2, <3>5, <3>7, <3>8, <3>9 DEF RecordInv, DiskInv
    <2> QED BY <2>1, <2>2
<1>7. CASE pc \in {"starting", "replaying"} /\ pc' = "down" /\ Forgotten
    <2>1. \A s \in Steps : live'[s] = "no"
        BY <1>1, <1>7 DEF Inv, WorkInv, Past
    <2> QED BY <1>2, <1>7, <2>1, GoneKeeps DEF Forgotten
<1> QED BY <1>4, <1>5, <1>6, <1>7 DEF WriteFails

LEMMA RaiseAside ==
    ASSUME Inv, RecordInv, Raise
    PROVE  RecordInv'
<1>1. /\ Due("raise") /\ broken' = TRUE /\ draft' = [mem EXCEPT !.left = FALSE]
      /\ pc' = IF pc = "ending" THEN "closing" ELSE "ending"
      /\ todo' = IF pc = "ending" THEN <<Op("summary", {})>> ELSE <<>>
      /\ UNCHANGED <<summary, receipt, journal, mem, refreshed, live, open>>
    BY DEF Raise, disk
<1>2. pc \in Past
    <2>1. todo # <<>> /\ Head(todo).what = "raise" /\ todo \in Seq(Ops)
        BY <1>1 DEF Due, Inv, TypeInv
    <2>2. Has(todo, "raise")
        BY <2>1, TailFacts
    <2> QED BY <2>2 DEF Inv, ListInv, Past
<1>3. draft'.steps = mem.steps
    BY <1>1, <1>2, PastHasRun, WithoutLeft
<1>4. Read' = Read /\ Missing' = Missing
    BY <1>1, SameRead DEF disk
<1>5. RestInv' /\ OpenInv'
    BY <1>1, <1>4 DEF RecordInv, DiskInv, RestInv, OpenInv
<1>6. journal' = Nothing =>
        \E d \in Steps : \A s \in Missing' : mem.steps[s] = Read'[s] \/ (s = d /\ Adrift(s)')
    <2> SUFFICES ASSUME journal = Nothing
                 PROVE  \E d \in Steps : \A s \in Missing :
                            mem.steps[s] = Read[s] \/ (s = d /\ Adrift(s)')
        BY <1>1, <1>4
    <2>1. PICK d \in Steps : \A s \in Missing : mem.steps[s] = Read[s] \/ (s = d /\ Adrift(s))
        BY <1>2, DriftAtMost
    <2>2. Adrift(d) => Adrift(d)'
        BY <1>1, <1>4, AdriftStays
    <2> HIDE DEF Adrift
    <2> QED BY <2>1, <2>2
<1> QED BY <1>1, <1>3, <1>5, <1>6, BrokenKeeps

-----------------------------------------------------------------------------
(* A process takes the run up, and lets it go.                             *)

\* No process works before the loop has begun.
LEMMA NoneAtWork ==
    ASSUME Inv, pc \notin Past
    PROVE  \A s \in Steps : live[s] = "no"
BY DEF Inv, WorkInv

LEMMA StartAside ==
    ASSUME Inv, RecordInv, Start
    PROVE  RecordInv'
<1>1. /\ pc = "down" /\ summary = Nothing /\ pc' = "starting"
      /\ mem' = NewRun /\ draft' = NewRun /\ todo' = <<Op("summary", {})>>
      /\ UNCHANGED <<summary, receipt, journal, broken, refreshed, live, open>>
    BY DEF Start, Handle, disk
<1>2. /\ Ordered(todo') /\ ToWrite' = {} /\ ToReset' = {} /\ ToStart' = {}
      /\ ~Unpublished' /\ ~Changing' /\ ~Unadopted'
    BY <1>1, SummaryNext
<1>3. \A s \in Steps : live'[s] = "no"
    BY <1>1, NoneAtWork DEF Past
<1>4. Coming' = NewRun.steps /\ \A s \in Steps : NewRun.steps[s] = Fresh
    BY <1>1, <1>2 DEF Coming, NewRun, Fresh
<1>5. Read' = Read /\ Missing' = Missing /\ \A s \in Steps : Read[s] = Fresh
    BY <1>1, SameRead, ReadValue DEF disk
<1>6. ~broken'
    BY <1>1 DEF RecordInv, DiskInv, AdriftInv
<1>7. LoopInv'
    BY <1>1, <1>2, <1>3, <1>4, FreshType
       DEF LoopInv, DraftInv, RunInv, DefInv, AskInv, RoleInv
<1>8. PublishInv' /\ ReplayInv' /\ StepInv' /\ AdriftInv'
    BY <1>2, <1>6 DEF PublishInv, ReplayInv, StepInv, AdriftInv
<1>9. AgreeInv'
    <2>1. Missing \subseteq Steps
        BY DEF Missing
    <2> QED BY <1>1, <1>4, <1>5, <2>1, FreshType DEF AgreeInv, Agree
<1>10. RestInv' /\ OpenInv'
    BY <1>1, <1>5 DEF RecordInv, DiskInv, RestInv, OpenInv
<1> QED BY <1>7, <1>8, <1>9, <1>10 DEF RecordInv, DiskInv

LEMMA LoadAside ==
    ASSUME Inv, RecordInv, Load
    PROVE  RecordInv'
<1>1. /\ pc = "down" /\ pc' = "replaying"
      /\ IF journal = Nothing THEN UNCHANGED <<draft, todo>>
         ELSE /\ draft' = journal.doc
              /\ todo' = Materialize(journal.changed) \o <<Op("unlink", {})>>
      /\ UNCHANGED <<summary, receipt, journal, broken, refreshed, live, open>>
    BY DEF Load, Handle, disk
<1>2. todo = <<>> /\ \A s \in Steps : live'[s] = "no"
    BY <1>1, NoneAtWork DEF Inv, ListInv, Past
<1>3. Read' = Read /\ Missing' = Missing
    BY <1>1, SameRead DEF disk
<1>4. /\ Ordered(todo') /\ ~Unpublished' /\ ~Unadopted' /\ ToStart' = {}
      /\ Changing' => journal # Nothing /\ draft' = journal.doc /\ Unsaved'
                      /\ ToWrite' = journal.changed
      /\ ~Changing' => ToWrite' = {}
    <2>1. CASE journal = Nothing
        <3>1. todo' = <<>>
            BY <1>1, <1>2, <2>1
        <3> QED BY <3>1, NoListNext
    <2>2. CASE journal # Nothing
        <3>1. journal.changed \in SUBSET Steps
            BY <2>2, DiskTypes
        <3> DEFINE m == Materialize(journal.changed)
                   x == Op("unlink", {})
        <3>2. x \in Ops /\ x.what = "unlink" /\ x.of = {}
            BY OpType DEF Whats
        <3>3. /\ m \in Seq(Ops) /\ Ordered(m)
              /\ \A w : Has(m, w) <=> w \in {"receipt", "summary"}
              /\ \A w, s : Names(m, w, s) <=> w = "receipt" /\ s \in journal.changed
            BY <3>1, MaterializeList, MaterializeOrdered
        <3>4. todo' = m \o <<x>> /\ draft' = journal.doc
            BY <1>1, <2>2
        <3>5. todo' = m \o <<Op("unlink", {})>>
            BY <3>4
        <3> HIDE DEF m, x
        <3>6. Ordered(todo')
            <4>1. x.what \in Final /\ \A w : Has(m, w) => w \in {"journal", "receipt", "summary"}
                BY <3>2, <3>3 DEF Final
            <4> QED BY <3>2, <3>3, <3>4, <4>1, LastOrdered
        <3>7. /\ \A w : Has(todo', w) <=> Has(m, w) \/ w = "unlink"
              /\ \A w, s : Names(todo', w, s) <=> Names(m, w, s)
            <4>1. \A w \in Final : ~Has(m, w)
                BY <3>3 DEF Final
            <4> QED BY <3>3, <3>5, <4>1, UnlinkAfter
        <3>8. ~Unpublished' /\ ~Unadopted' /\ Changing' /\ Unsaved'
            BY <3>3, <3>7 DEF Unpublished, Unadopted, Changing, Unsaved
        <3>9. ToStart' = {} /\ ToWrite' = journal.changed
            BY <3>1, <3>3, <3>7 DEF ToStart, ToWrite, Listed
        <3> QED BY <2>2, <3>4, <3>6, <3>8, <3>9
    <2> QED BY <2>1, <2>2
<1>5. ~broken'
    BY <1>1 DEF RecordInv, DiskInv, AdriftInv
<1>6. LoopInv'
    BY <1>1, <1>2, <1>4 DEF LoopInv, DraftInv, RunInv, DefInv, AskInv, RoleInv, Holding
<1>7. PublishInv' /\ StepInv' /\ AgreeInv' /\ AdriftInv'
    BY <1>1, <1>4, <1>5 DEF PublishInv, StepInv, AgreeInv, Firm, AdriftInv
<1>8. ReplayInv'
    BY <1>1, <1>4 DEF ReplayInv
<1>9. RestInv' /\ OpenInv'
    BY <1>1, <1>3 DEF RecordInv, DiskInv, RestInv, OpenInv
<1> QED BY <1>6, <1>7, <1>8, <1>9 DEF RecordInv, DiskInv

\* Without a journal, what a process loads is what is read.
LEMMA LoadedIsRead ==
    ASSUME Inv, summary # Nothing
    PROVE  \A s \in Steps : Loaded.steps[s] = Read[s]
<1>1. LoadedSummary \in Documents
    BY DiskTypes DEF LoadedSummary
<1>2. Loaded.steps = [s \in Steps |-> LoadedEntry(s)]
    BY <1>1 DEF Loaded, Documents
<1> QED BY <1>2 DEF Read

\* A resume resets what is not finished, all that waits on it, and what asks
\* again; of the rest, every result is one of the step as it is now.
LEMMA ResumeGoesOn ==
    ASSUME Inv, summary # Nothing, MayResume(Loaded)
    PROVE  LET A == Again(Loaded)
           IN  /\ A \in SUBSET Steps
               /\ Undone \subseteq A /\ Downstream(Undone) \subseteq A
               /\ {s \in A : Read[s].status \in {"success", "refused"}}
                     \subseteq Downstream(Undone) \cup Transient \cup Checks
               /\ {s \in A : Read[s].status = "running"} \subseteq Human \cup Recoverable
               /\ {s \in Steps : Read[s].status = "skipped"} \subseteq A
               /\ \A s \in Steps \ A : Read[s].def = def[s]
<1> DEFINE A == Again(Loaded)
<1>1. \A s \in Steps : Loaded.steps[s] = Read[s] /\ StatusOf(Loaded, s) = Read[s].status
    BY LoadedIsRead DEF StatusOf
<1>2. Retried(Loaded) = Undone
    <2>1. \A s \in Steps : Read[s].status \in Statuses
        BY ReadType, EntryStatus
    <2> QED BY <1>1, <2>1 DEF Retried, Undone, Statuses
<1>3. Undone \subseteq Downstream(Undone) /\ Undone \in SUBSET Steps /\ Downstream(Undone) \subseteq Steps
    BY DownstreamClosed DEF Undone, Downstream
<1>4. A = Downstream(Undone) \cup {s \in Steps : Read[s].status = "skipped"} \cup Refreshed
    BY <1>1, <1>2 DEF Again
<1>5. Refreshed \subseteq Transient \cup Checks /\ Refreshed \subseteq Steps
    <2>1. Transient \cup Checks \in SUBSET Steps
        BY StoreAssumption
    <2> QED BY <2>1 DEF Refreshed
<1>6. {s \in A : Read[s].status = "running"} \subseteq Human \cup Recoverable
    BY <1>1, <1>3, <1>4, <1>5 DEF MayResume, Certain
<1>7. \A s \in Steps \ A : Read[s].def = def[s]
    BY <1>1 DEF MayResume
<1> HIDE DEF A
<1>8. A \in SUBSET Steps
    BY <1>3, <1>4, <1>5
<1> QED BY <1>3, <1>4, <1>5, <1>6, <1>7, <1>8 DEF A

LEMMA ResumeAside ==
    ASSUME Inv, RecordInv, Resume
    PROVE  RecordInv'
<1> DEFINE A == Again(Loaded)
<1>1. /\ pc = "replaying" /\ todo = <<>> /\ MayResume(Loaded) /\ pc' = "starting"
      /\ mem' = Resumed(Loaded) /\ draft' = mem'
      /\ todo' = Publish(A) \o <<Op("unlink", {})>>
      /\ UNCHANGED <<def, summary, receipt, journal, broken, live, open>>
    BY DEF Resume, Handle, disk
<1>2. summary # Nothing /\ journal = Nothing
    BY <1>1, NothingLeft DEF Inv, TypeInv, EpochInv
<1>3. /\ A \in SUBSET Steps
      /\ Undone \subseteq A /\ Downstream(Undone) \subseteq A
      /\ {s \in A : Read[s].status \in {"success", "refused"}}
            \subseteq Downstream(Undone) \cup Transient \cup Checks
      /\ {s \in A : Read[s].status = "running"} \subseteq Human \cup Recoverable
      /\ {s \in Steps : Read[s].status = "skipped"} \subseteq A
      /\ \A s \in Steps \ A : Read[s].def = def[s]
    BY <1>1, <1>2, ResumeGoesOn
<1>4. Loaded \in Documents /\ \A s \in Steps : Loaded.steps[s] = Read[s]
    BY <1>2, LoadedType, LoadedIsRead
<1>5. \A s \in Steps : mem'.steps[s] = IF s \in A THEN Fresh ELSE Read[s]
    <2>1. mem' = [Loaded EXCEPT !.steps = [s \in Steps |-> IF s \in A THEN Fresh ELSE Loaded.steps[s]],
                                !.epoch = @ + 1, !.left = FALSE]
        BY <1>1 DEF Resumed, Fresh
    <2>2. mem'.steps = [s \in Steps |-> IF s \in A THEN Fresh ELSE Loaded.steps[s]]
        BY <1>4, <2>1 DEF Documents
    <2> QED BY <1>4, <2>2
<1> HIDE DEF A
<1>6. /\ Ordered(todo') /\ Unpublished' /\ Changing' /\ Unsaved' /\ ~Unadopted'
      /\ ToWrite' = A /\ ToReset' = A /\ ToStart' = {}
    <2> DEFINE p == Publish(A)
               x == Op("unlink", {})
    <2>1. x \in Ops /\ x.what = "unlink" /\ x.of = {}
        BY OpType DEF Whats
    <2>2. /\ p \in Seq(Ops) /\ Ordered(p)
          /\ \A w : Has(p, w) <=> w \in {"journal", "receipt", "summary"}
          /\ \A w, s : Names(p, w, s) <=> w \in {"journal", "receipt"} /\ s \in A
        BY <1>3, PublishList, PublishOrdered
    <2>3. todo' = p \o <<x>>
        BY <1>1
    <2>4. todo' = p \o <<Op("unlink", {})>>
        BY <2>3
    <2> HIDE DEF p, x
    <2>5. Ordered(todo')
        <3>1. x.what \in Final
            BY <2>1 DEF Final
        <3> QED BY <2>1, <2>2, <2>3, <3>1, LastOrdered
    <2>6. /\ \A w : Has(todo', w) <=> Has(p, w) \/ w = "unlink"
          /\ \A w, s : Names(todo', w, s) <=> Names(p, w, s)
        <3>1. \A w \in Final : ~Has(p, w)
            BY <2>2 DEF Final
        <3> QED BY <2>2, <2>4, <3>1, UnlinkAfter
    <2>7. Unpublished' /\ Changing' /\ Unsaved' /\ ~Unadopted'
        BY <2>2, <2>6 DEF Unpublished, Unadopted, Changing, Unsaved
    <2>8. ToWrite' = A /\ ToReset' = A /\ ToStart' = {}
        BY <1>3, <2>2, <2>6 DEF ToStart, ToWrite, ToReset, Listed
    <2> QED BY <2>5, <2>7, <2>8
<1>7. Read' = Read /\ Missing' = Missing /\ Missing \subseteq Steps
    BY <1>1, SameRead DEF disk, Missing
<1>8. \A s \in Steps : live'[s] = "no"
    BY <1>1, NoneAtWork DEF Past
<1>9. Coming' = mem'.steps
    BY <1>6 DEF Coming
<1>10. \A s \in Steps \ A : Read[s].status # "running"
    BY <1>3 DEF Undone
<1>11. LoopInv'
    <2>1. DraftInv'
        BY <1>1, <1>6 DEF DraftInv
    <2>2. RunInv'
        BY <1>5, <1>9, <1>10, FreshType DEF RunInv
    <2>3. DefInv'
        BY <1>1, <1>3, <1>5, <1>8, FreshType DEF DefInv
    <2> QED BY <1>6, <1>8, <2>1, <2>2, <2>3 DEF LoopInv, AskInv, RoleInv
<1>12. PublishInv'
    <2>1. Undone' = Undone
        BY <1>7 DEF Undone
    <2>2. GoesOn'
        BY <1>3, <1>6, <1>7, <2>1 DEF GoesOn
    <2> QED BY <1>1, <1>2, <1>3, <1>5, <1>6, <1>7, <2>2 DEF PublishInv
<1>13. ReplayInv' /\ StepInv'
    BY <1>6 DEF ReplayInv, StepInv
<1>14. AgreeInv'
    BY <1>1, <1>5, <1>6, <1>7, <1>9 DEF AgreeInv, Agree
<1>15. AdriftInv' /\ RestInv' /\ OpenInv'
    BY <1>1, <1>7 DEF RecordInv, DiskInv, AdriftInv, RestInv, OpenInv
<1> QED BY <1>11, <1>12, <1>13, <1>14, <1>15 DEF RecordInv, DiskInv

\* Between two handlers nothing is due.
LEMMA Idle ==
    ASSUME Inv, RecordInv, todo = <<>>
    PROVE  /\ ToWrite = {} /\ ToReset = {} /\ ToStart = {}
           /\ ~Unpublished /\ ~Changing /\ ~Unadopted /\ Coming = mem.steps
           /\ pc \in {"up", "stopping", "resolving"} => ~broken /\ Firm /\ journal = Nothing
           /\ pc \in {"starting", "up"} => Firm /\ journal = Nothing
           /\ Firm => ~broken
<1>1. /\ ToWrite = {} /\ ToReset = {} /\ ToStart = {}
      /\ ~Unpublished /\ ~Changing /\ ~Unadopted
    BY NoList
<1>2. pc \notin {"ending", "closing"} => ~broken
    BY DEF RecordInv, DiskInv, AdriftInv
<1>3. pc \in {"up", "stopping", "starting"} => journal = Nothing
    BY <1>1 DEF Inv, WorkInv, Changing
<1>4. pc = "resolving" => Firm /\ journal = Nothing
    BY <1>2 DEF RecordInv, DiskInv, AgreeInv, Firm
<1> QED BY <1>1, <1>2, <1>3, <1>4 DEF Coming, Firm

LEMMA LeavingAside ==
    ASSUME Inv, RecordInv, Go \/ Stop \/ LeaveLoop \/ FinalSave
    PROVE  RecordInv'
<1>1. /\ todo = <<>> /\ UNCHANGED <<def, summary, receipt, journal, mem, broken, refreshed, live, open>>
      /\ \/ pc = "starting" /\ pc' = "up" /\ todo' = <<>>
         \/ pc = "up" /\ pc' = "stopping" /\ todo' = <<>>
         \/ pc \in {"up", "stopping"} /\ pc' = "ending" /\ todo' = <<>>
         \/ pc = "resolving" /\ pc' = "closing" /\ todo' = <<Op("summary", {})>> /\ draft' = mem
    BY DEF Go, Stop, LeaveLoop, FinalSave, Handle, disk
<1>2. /\ ToWrite = {} /\ ToStart = {} /\ ~Unpublished /\ ~Changing /\ ~Unadopted /\ Coming = mem.steps
      /\ ~broken /\ Firm /\ journal = Nothing
    BY <1>1, Idle
<1>3. /\ Ordered(todo') /\ ToWrite' = {} /\ ToReset' = {} /\ ToStart' = {}
      /\ ~Unpublished' /\ ~Changing' /\ ~Unadopted'
    BY <1>1, NoListNext, SummaryNext
<1>4. Coming' = Coming
    BY <1>1, <1>2, <1>3 DEF Coming
<1>5. Read' = Read /\ Missing' = Missing
    BY <1>1, SameRead DEF disk
<1>6. LoopInv'
    <2>1. DraftInv'
        BY <1>1, <1>3 DEF DraftInv
    <2>2. RunInv'
        BY <1>1, <1>2, <1>3, <1>4 DEF RecordInv, LoopInv, RunInv
    <2>3. DefInv'
        BY <1>1 DEF RecordInv, LoopInv, DefInv
    <2>4. AskInv' /\ RoleInv'
        BY <1>1, <1>2, <1>3, <1>4 DEF RecordInv, LoopInv, AskInv, AskedBefore, RoleInv
    <2> QED BY <1>3, <2>1, <2>2, <2>3, <2>4 DEF LoopInv
<1>7. PublishInv' /\ ReplayInv' /\ StepInv'
    BY <1>3 DEF PublishInv, ReplayInv, StepInv
<1>8. AgreeInv'
    <2>1. \A s \in Steps : Agree(s)'
        BY <1>1, <1>2, <1>4, <1>5 DEF RecordInv, DiskInv, AgreeInv, Agree
    <2> QED BY <1>1, <1>2, <1>5, <2>1 DEF RecordInv, DiskInv, AgreeInv
<1>9. AdriftInv' /\ RestInv' /\ OpenInv'
    BY <1>1, <1>2, <1>5 DEF RecordInv, DiskInv, AdriftInv, RestInv, OpenInv
<1> QED BY <1>6, <1>7, <1>8, <1>9 DEF RecordInv, DiskInv

LEMMA EndDrainAside ==
    ASSUME Inv, RecordInv, EndDrain
    PROVE  RecordInv'
<1>1. /\ pc = "ending" /\ todo = <<>> /\ pc \in Past
      /\ UNCHANGED <<def, summary, receipt, journal, broken, refreshed, live, open>>
    BY DEF EndDrain, Past, disk
<1>2. /\ ToWrite = {} /\ ToStart = {} /\ ~Unpublished /\ ~Changing /\ ~Unadopted /\ Coming = mem.steps
    BY <1>1, Idle
<1>3. Read' = Read /\ Missing' = Missing
    BY <1>1, SameRead DEF disk
<1>4. RestInv' /\ OpenInv'
    BY <1>1, <1>3 DEF RecordInv, DiskInv, RestInv, OpenInv
<1>5. mem \in Documents /\ mem.steps \in [Steps -> Entries]
    BY <1>1, PastHasRun
<1>6. CASE broken
    <2>1. /\ pc' = "closing" /\ mem' = mem /\ todo' = <<Op("summary", {})>>
          /\ draft' = [mem EXCEPT !.left = FALSE]
        BY <1>6 DEF EndDrain, Handle
    <2>2. draft'.steps = mem.steps
        BY <1>5, <2>1, WithoutLeft
    <2>3. journal' = Nothing =>
            \E d \in Steps : \A s \in Missing' : mem.steps[s] = Read'[s] \/ (s = d /\ Adrift(s)')
        <3> SUFFICES ASSUME journal = Nothing
                     PROVE  \E d \in Steps : \A s \in Missing :
                                mem.steps[s] = Read[s] \/ (s = d /\ Adrift(s)')
            BY <1>1, <1>3
        <3>1. PICK d \in Steps : \A s \in Missing : mem.steps[s] = Read[s] \/ (s = d /\ Adrift(s))
            BY <1>1, DriftAtMost
        <3>2. Adrift(d) => Adrift(d)'
            BY <1>3, <2>1, AdriftStays
        <3> HIDE DEF Adrift
        <3> QED BY <3>1, <3>2
    <2> QED BY <1>1, <1>4, <1>6, <2>1, <2>2, <2>3, BrokenKeeps
<1>7. CASE ~broken
    <2>1. /\ pc' = "resolving" /\ todo' = <<>> /\ draft' = draft
          /\ mem' = [mem EXCEPT !.left = (live # Nobody),
                                !.steps = [s \in Steps |-> IF live[s] = "no" THEN mem.steps[s]
                                           ELSE [mem.steps[s] EXCEPT !.status = "cancelled"]]]
        BY <1>1, <1>7 DEF EndDrain
    <2>2. \A s \in Steps : live[s] = "no" => mem'.steps[s] = mem.steps[s]
        BY <1>5, <2>1 DEF Documents
    <2>3. /\ Ordered(todo') /\ ToWrite' = {} /\ ToReset' = {} /\ ToStart' = {}
          /\ ~Unpublished' /\ ~Changing' /\ ~Unadopted'
        BY <2>1, NoListNext
    <2>4. Coming' = mem'.steps
        BY <2>3 DEF Coming
    <2>5. Firm /\ journal = Nothing
        BY <1>1, <1>7 DEF RecordInv, DiskInv, AgreeInv, Firm
    <2>6. AskInv'
        <3> SUFFICES ASSUME NEW s \in Steps, live[s] # "no", NEW n \in AskedBefore(s)
                     PROVE  mem'.steps[n].status = "success"
            BY <1>1, <2>3, <2>4 DEF AskInv, AskedBefore
        <3>1. n \in Steps /\ mem.steps[n].status = "success"
            BY <1>2 DEF RecordInv, LoopInv, AskInv, AskedBefore, Upstream
        <3>2. live[n] = "no"
            BY <3>1 DEF Inv, WorkInv
        <3> QED BY <2>2, <3>1, <3>2
    <2>7. LoopInv'
        BY <1>1, <2>1, <2>3, <2>6 DEF RecordInv, LoopInv, DraftInv, RunInv, DefInv, RoleInv
    <2>8. PublishInv' /\ ReplayInv' /\ StepInv' /\ AdriftInv'
        BY <1>1, <1>7, <2>3 DEF PublishInv, ReplayInv, StepInv, AdriftInv
    <2>9. AgreeInv'
        <3>1. ASSUME NEW s \in Steps PROVE Agree(s)'
            <4>1. Agree(s)
                BY <2>5 DEF RecordInv, DiskInv, AgreeInv
            <4>2. CASE live[s] = "no"
                BY <1>1, <1>2, <1>3, <2>2, <2>4, <4>1, <4>2 DEF Agree
            <4>3. CASE live[s] # "no"
                BY <1>1, <2>1, <4>3 DEF Agree
            <4> QED BY <4>2, <4>3
        <3> QED BY <1>1, <1>3, <2>5, <3>1 DEF RecordInv, DiskInv, AgreeInv
    <2> QED BY <1>4, <2>7, <2>8, <2>9 DEF RecordInv, DiskInv
<1> QED BY <1>6, <1>7

-----------------------------------------------------------------------------
(* The loop.                                                               *)

\* What an entry becomes.
LEMMA StatusOnly ==
    ASSUME NEW doc \in Documents, NEW s \in Steps, NEW status \in Statuses
    PROVE  LET new == WithStatus(doc, s, status)
           IN  /\ new.steps[s].status = status /\ new.steps[s].def = doc.steps[s].def
               /\ \A n \in Steps : n # s => new.steps[n] = doc.steps[n]
<1> DEFINE e == [doc.steps[s] EXCEPT !.status = status]
<1>1. doc.steps[s] \in Entries
    BY DEF Documents
<1>2. e \in Entries /\ e.status = status /\ e.def = doc.steps[s].def
    BY <1>1 DEF Entries
<1>3. WithStatus(doc, s, status) = [doc EXCEPT !.steps[s] = e]
    BY DEF WithStatus
<1> HIDE DEF e
<1> QED BY <1>2, <1>3, EntryChanged

\* A step's entry changes and its writes are due.
LEMMA NoteAside ==
    ASSUME Inv, RecordInv, NEW s \in Steps,
           UNCHANGED <<def, summary, receipt, journal, pc, broken, refreshed, open>>,
           pc \in Past, pc # "closing", todo = <<>>,
           live'[s] = "no", \A n \in Steps : n # s => live'[n] = live[n],
           \A n \in Steps : n # s => mem'.steps[n] = mem.steps[n], draft' = mem',
           Ordered(todo'), ToWrite' = {s}, ToStart' \subseteq {s},
           ~Unpublished', ~Changing', ~Unadopted', Unsaved',
           mem.steps[s].status # "success",
           mem'.steps[s].status = "running" => ToStart' = {s},
           pc \in {"up", "stopping"} /\ mem'.steps[s].status \in {"success", "refused", "running"} =>
                mem'.steps[s].def = def[s],
           ToStart' # {} => \A n \in AskedBefore(s) : mem.steps[n].status = "success",
           MayMove(s, mem'.steps[s].status),
           s \in Missing => mem'.steps[s].status \in {"running", "skipped", "cancelled"},
           journal # Nothing => s \notin journal.changed,
           broken => s \notin Missing
    PROVE  RecordInv'
<1>1. /\ ToWrite = {} /\ ToStart = {} /\ ~Unpublished /\ ~Changing /\ ~Unadopted /\ Coming = mem.steps
      /\ Firm => ~broken
    BY Idle
<1>2. Coming' = mem'.steps
    BY DEF Coming
<1>3. Read' = Read /\ Missing' = Missing /\ Missing \subseteq Steps
    BY SameRead DEF disk, Missing
<1>4. pc # "starting"
    BY DEF Past
<1>5. LoopInv'
    <2>1. DraftInv'
        BY DEF DraftInv
    <2>2. RunInv'
        BY <1>1, <1>2, <1>4 DEF RecordInv, LoopInv, RunInv
    <2>3. DefInv'
        BY <1>4 DEF RecordInv, LoopInv, DefInv
    <2>4. AskInv'
        <3> SUFFICES ASSUME NEW t \in Steps, live'[t] # "no" \/ t \in ToStart', NEW n \in AskedBefore(t)
                     PROVE  mem'.steps[n].status = "success"
            BY <1>2 DEF AskInv, AskedBefore
        <3>1. n \in Steps
            BY DEF AskedBefore, Upstream
        <3>2. mem.steps[n].status = "success"
            <4>1. CASE t = s
                BY <4>1
            <4>2. CASE t # s
                BY <1>1, <4>2 DEF RecordInv, LoopInv, AskInv
            <4> QED BY <4>1, <4>2
        <3> QED BY <3>1, <3>2
    <2>5. RoleInv'
        BY DEF RecordInv, LoopInv, RoleInv
    <2> QED BY <2>1, <2>2, <2>3, <2>4, <2>5 DEF LoopInv
<1>6. PublishInv' /\ ReplayInv'
    BY DEF PublishInv, ReplayInv
<1>7. StepInv'
    BY <1>3 DEF StepInv, MayMove
<1>8. AgreeInv'
    <2>1. Firm' => Firm
        BY DEF Firm
    <2>2. ASSUME Firm', NEW n \in Steps PROVE Agree(n)'
        <3>1. Agree(n)
            BY <2>1, <2>2 DEF RecordInv, DiskInv, AgreeInv
        <3> QED BY <1>1, <1>2, <1>3, <3>1 DEF Agree
    <2>3. Firm' => \A n \in Missing' : Read'[n].status = "pending"
        BY <1>1, <1>3, <2>1 DEF RecordInv, DiskInv, AgreeInv
    <2> QED BY <2>1, <2>2, <2>3 DEF RecordInv, DiskInv, AgreeInv
<1>9. AdriftInv'
    <2> SUFFICES ASSUME broken
                 PROVE  /\ pc \in {"ending", "closing"}
                        /\ journal = Nothing =>
                             \E d \in Steps : \A n \in Missing :
                                mem'.steps[n] = Read'[n] \/ (n = d /\ Adrift(n)')
        BY <1>3 DEF AdriftInv
    <2>1. pc \in {"ending", "closing"}
        BY DEF RecordInv, DiskInv, AdriftInv
    <2>2. ASSUME journal = Nothing
          PROVE  \E d \in Steps : \A n \in Missing :
                    mem'.steps[n] = Read'[n] \/ (n = d /\ Adrift(n)')
        <3>1. PICK d \in Steps : \A n \in Missing : mem.steps[n] = Read[n] \/ (n = d /\ Adrift(n))
            BY <2>2 DEF RecordInv, DiskInv, AdriftInv
        <3>2. ASSUME NEW n \in Missing, Adrift(n) PROVE Adrift(n)'
            BY <1>3, <3>2 DEF Adrift, MayMove
        <3>3. \A n \in Missing : mem'.steps[n] = mem.steps[n]
            BY <1>3
        <3> HIDE DEF Adrift
        <3> QED BY <1>3, <3>1, <3>2, <3>3
    <2> QED BY <2>1, <2>2
<1>10. RestInv' /\ OpenInv'
    BY <1>3 DEF RecordInv, DiskInv, RestInv, OpenInv
<1> QED BY <1>5, <1>6, <1>7, <1>8, <1>9, <1>10 DEF RecordInv, DiskInv

LEMMA StepNext ==
    ASSUME NEW s \in Steps, todo' = StepWrites(s)
    PROVE  /\ Ordered(todo') /\ ToWrite' = {s} /\ ToStart' = {}
           /\ ~Unpublished' /\ ~Changing' /\ ~Unadopted' /\ Unsaved'
<1>1. Ordered(todo')
    <2>1. StepWrites(s) = Materialize({s}) /\ {s} \in SUBSET Steps
        BY DEF StepWrites, Materialize
    <2> QED BY <2>1, MaterializeOrdered
<1>2. /\ \A w : Has(todo', w) <=> w \in {"receipt", "summary"}
      /\ \A w, n : Names(todo', w, n) <=> w = "receipt" /\ n = s
    BY StepList
<1> QED BY <1>1, <1>2 DEF ToWrite, ToStart, Listed, Unpublished, Changing, Unadopted, Unsaved

LEMMA StepThenNext ==
    ASSUME NEW s \in Steps, NEW x \in Ops, x.what \in {"work", "raise"}, x.of \subseteq {s},
           todo' = StepWrites(s) \o <<x>>
    PROVE  /\ Ordered(todo') /\ ToWrite' = {s}
           /\ ToStart' = IF x.what = "work" THEN x.of ELSE {}
           /\ ~Unpublished' /\ ~Changing' /\ ~Unadopted' /\ Unsaved'
<1>1. StepWrites(s) = Materialize({s}) /\ {s} \in SUBSET Steps
    BY DEF StepWrites, Materialize
<1>2. /\ StepWrites(s) \in Seq(Ops) /\ Ordered(StepWrites(s))
      /\ \A w : Has(StepWrites(s), w) => w \in {"journal", "receipt", "summary"}
    BY <1>1, MaterializeOrdered, StepList
<1>3. Ordered(todo')
    <2>1. x.what \in Final
        BY DEF Final
    <2> QED BY <1>2, <2>1, LastOrdered
<1>4. /\ \A w : Has(todo', w) <=> w \in {"receipt", "summary"} \/ x.what = w
      /\ \A w, n : Names(todo', w, n) <=> (w = "receipt" /\ n = s) \/ (x.what = w /\ n \in x.of)
    BY StepListThen
<1> QED BY <1>3, <1>4 DEF ToWrite, ToStart, Listed, Unpublished, Changing, Unadopted, Unsaved

\* Where the loop decides, a step that is neither written nor at work reads as
\* it is in memory, or it was woken.
LEMMA AsRead ==
    ASSUME Inv, RecordInv, todo = <<>>, Firm, NEW n \in Steps,
           live[n] = "no" \/ pc \in {"starting", "up", "stopping"}
    PROVE  \/ mem.steps[n] = Read[n]
           \/ mem.steps[n].status = "pending" /\ Read[n].status = "waiting" /\ n \notin Missing
<1>1. Agree(n) /\ ToWrite = {} /\ Coming = mem.steps
    BY Idle DEF RecordInv, DiskInv, AgreeInv
<1> QED BY <1>1 DEF Agree

LEMMA StartStepAside ==
    ASSUME Inv, RecordInv, NEW s \in Steps, StartStep(s)
    PROVE  RecordInv'
<1> DEFINE e == [status |-> "running", def |-> def[s]]
<1>1. /\ pc = "up" /\ todo = <<>> /\ mem.steps[s].status = "pending" /\ Ready(s)
      /\ mem' = [mem EXCEPT !.steps[s] = e] /\ draft' = mem' /\ todo' = StartWrites(s)
      /\ UNCHANGED <<def, summary, receipt, journal, pc, broken, refreshed, live, open>>
    BY DEF StartStep, Note, Handle, StatusOf, disk
<1>2. mem \in Documents /\ def \in [Steps -> 0..MaxEdits]
    BY <1>1, PastHasRun DEF Past
<1>3. e \in Entries /\ e.status = "running" /\ e.def = def[s]
    BY <1>2 DEF Entries, Statuses
<1> HIDE DEF e
<1>4. mem'.steps[s] = e /\ \A n \in Steps : n # s => mem'.steps[n] = mem.steps[n]
    BY <1>1, <1>2, <1>3, EntryChanged
<1>5. /\ Ordered(todo') /\ ToWrite' = {s} /\ ToStart' = {s}
      /\ ~Unpublished' /\ ~Changing' /\ ~Unadopted' /\ Unsaved'
    <2> DEFINE x == Op("work", {s})
    <2>1. x \in Ops /\ x.what = "work" /\ x.of = {s} /\ todo' = StepWrites(s) \o <<x>>
        BY <1>1, OpType DEF Whats, StartWrites
    <2> HIDE DEF x
    <2> QED BY <2>1, StepThenNext
<1>6. live[s] = "no"
    BY <1>1 DEF Inv, WorkInv
<1>7. Firm /\ ~broken /\ journal = Nothing
    BY <1>1, Idle
<1>8. MayMove(s, "running")
    <2>1. Read[s].status \in {"pending", "waiting"}
        BY <1>1, <1>7, AsRead
    <2>2. ASSUME NEW n \in Needs[s] PROVE Read[n].status = "success"
        <3>1. n \in Steps /\ mem.steps[n].status = "success"
            BY <1>1, NeedsAssumption DEF Ready, StatusOf
        <3> QED BY <1>1, <1>7, <3>1, AsRead
    <2> QED BY <2>1, <2>2 DEF MayMove
<1>9. \A n \in AskedBefore(s) : mem.steps[n].status = "success"
    BY <1>1 DEF Ready, StatusOf
<1>10. pc \in Past /\ pc # "closing"
    BY <1>1 DEF Past
<1> HIDE DEF MayMove
<1> QED BY <1>1, <1>3, <1>4, <1>5, <1>6, <1>7, <1>8, <1>9, <1>10, NoteAside

LEMMA ResolveStepAside ==
    ASSUME Inv, RecordInv, NEW s \in Steps, ResolveStep(s)
    PROVE  RecordInv'
<1>1. PICK status \in {"skipped", "cancelled"} :
            mem' = WithStatus(mem, s, status) /\ draft' = mem' /\ todo' = StepWrites(s)
    BY DEF ResolveStep, Note, Handle
<1>2. /\ pc \in {"up", "stopping", "resolving"} /\ todo = <<>>
      /\ mem.steps[s].status \in {"pending", "waiting"}
      /\ UNCHANGED <<def, summary, receipt, journal, pc, broken, refreshed, live, open>>
    BY DEF ResolveStep, StatusOf, disk
<1>3. mem \in Documents /\ status \in Statuses
    BY <1>2, PastHasRun DEF Past, Statuses
<1>4. mem'.steps[s].status = status /\ \A n \in Steps : n # s => mem'.steps[n] = mem.steps[n]
    BY <1>1, <1>3, StatusOnly
<1>5. /\ Ordered(todo') /\ ToWrite' = {s} /\ ToStart' = {}
      /\ ~Unpublished' /\ ~Changing' /\ ~Unadopted' /\ Unsaved'
    BY <1>1, StepNext
<1>6. live[s] = "no"
    BY <1>2 DEF Inv, WorkInv
<1>7. Firm /\ ~broken /\ journal = Nothing
    BY <1>2, Idle
<1>8. MayMove(s, status)
    <2>1. Read[s].status \in {"pending", "waiting"}
        BY <1>2, <1>6, <1>7, AsRead
    <2> QED BY <2>1 DEF MayMove
<1>9. pc \in Past /\ pc # "closing"
    BY <1>2 DEF Past
<1> HIDE DEF MayMove
<1> QED BY <1>1, <1>2, <1>4, <1>5, <1>6, <1>7, <1>8, <1>9, NoteAside

LEMMA WakeAside ==
    ASSUME Inv, RecordInv, NEW s \in Steps, Wake(s)
    PROVE  RecordInv'
<1>1. /\ pc \in {"up", "stopping"} /\ todo = <<>> /\ mem.steps[s].status = "waiting"
      /\ mem' = WithStatus(mem, s, "pending") /\ todo' = <<>>
      /\ UNCHANGED <<def, summary, receipt, journal, pc, draft, broken, refreshed, live, open>>
    BY DEF Wake, StatusOf, disk
<1>2. mem \in Documents
    BY <1>1, PastHasRun DEF Past
<1>3. mem'.steps[s].status = "pending" /\ \A n \in Steps : n # s => mem'.steps[n] = mem.steps[n]
    BY <1>1, <1>2, StatusOnly DEF Statuses
<1>4. /\ ToWrite = {} /\ ToStart = {} /\ ~Unadopted /\ Coming = mem.steps
      /\ Firm /\ ~broken /\ journal = Nothing
    BY <1>1, Idle
<1>5. /\ Ordered(todo') /\ ToWrite' = {} /\ ToReset' = {} /\ ToStart' = {}
      /\ ~Unpublished' /\ ~Changing' /\ ~Unadopted' /\ ~Unsaved'
    BY <1>1, NoListNext
<1>6. Coming' = mem'.steps
    BY <1>5 DEF Coming
<1>7. Read' = Read /\ Missing' = Missing
    BY <1>1, SameRead DEF disk
<1>8. live[s] = "no"
    BY <1>1 DEF Inv, WorkInv
<1>9. LoopInv'
    <2>1. DraftInv'
        BY <1>1, <1>5 DEF DraftInv
    <2>2. RunInv'
        BY <1>1, <1>3, <1>4, <1>5, <1>6 DEF RecordInv, LoopInv, RunInv
    <2>3. DefInv'
        BY <1>1, <1>3, <1>8 DEF RecordInv, LoopInv, DefInv
    <2>4. AskInv'
        <3> SUFFICES ASSUME NEW t \in Steps, live[t] # "no", NEW n \in AskedBefore(t)
                     PROVE  mem'.steps[n].status = "success"
            BY <1>1, <1>5, <1>6 DEF AskInv, AskedBefore
        <3>1. n \in Steps /\ mem.steps[n].status = "success"
            BY <1>4 DEF RecordInv, LoopInv, AskInv, AskedBefore, Upstream
        <3> QED BY <1>1, <1>3, <3>1
    <2> QED BY <1>1, <1>5, <2>1, <2>2, <2>3, <2>4 DEF RecordInv, LoopInv, RoleInv
<1>10. PublishInv' /\ ReplayInv' /\ StepInv' /\ AdriftInv'
    BY <1>1, <1>4, <1>5 DEF PublishInv, ReplayInv, StepInv, AdriftInv
<1>11. AgreeInv'
    <2>1. ASSUME NEW n \in Steps PROVE Agree(n)'
        <3>1. CASE n = s
            <4>1. mem.steps[s] = Read[s]
                BY <1>1, <1>4, <1>8, AsRead
            <4>2. s \notin Missing
                BY <1>1, <4>1 DEF RecordInv, DiskInv, RestInv
            <4> QED BY <1>1, <1>3, <1>6, <1>7, <3>1, <4>1, <4>2 DEF Agree
        <3>2. CASE n # s
            <4>1. Agree(n)
                BY <1>4 DEF RecordInv, DiskInv, AgreeInv
            <4> QED BY <1>1, <1>3, <1>4, <1>6, <1>7, <3>2, <4>1 DEF Agree
        <3> QED BY <3>1, <3>2
    <2>2. \A n \in Missing : Read[n].status = "pending"
        <3>1. ~Unpublished
            BY <1>1, NoList
        <3> QED BY <1>4, <3>1 DEF RecordInv, DiskInv, AgreeInv
    <2> QED BY <1>1, <1>4, <1>7, <2>1, <2>2 DEF AgreeInv
<1>12. RestInv' /\ OpenInv'
    BY <1>1, <1>7 DEF RecordInv, DiskInv, RestInv, OpenInv
<1> QED BY <1>9, <1>10, <1>11, <1>12 DEF RecordInv, DiskInv

LEMMA VerdictAside ==
    ASSUME Inv, RecordInv, NEW s \in Steps, Record(s), ~Revising(s)
    PROVE  RecordInv'
<1>1. /\ pc \in {"up", "stopping", "ending"} /\ todo = <<>> /\ live[s] # "no"
      /\ live' = [live EXCEPT ![s] = "no"]
      /\ mem' = WithStatus(mem, s, Verdict(s)) /\ draft' = mem'
      /\ todo' = StepWrites(s) \o IF live[s] = "unsaved" THEN <<Op("raise", {})>> ELSE <<>>
      /\ UNCHANGED <<def, summary, receipt, journal, pc, broken, refreshed, open>>
    BY DEF Record, Note, Handle, disk
<1>2. mem \in Documents /\ live \in [Steps -> WorkerStates]
    BY <1>1, PastHasRun DEF Past
<1>3. live'[s] = "no" /\ \A n \in Steps : n # s => live'[n] = live[n]
    BY <1>1, <1>2
<1> DEFINE status == Verdict(s)
<1>4. status \in {"success", "cancelled", "waiting", "refused", "failed"}
    BY DEF Verdict
<1>5. mem' = WithStatus(mem, s, status)
    BY <1>1
<1> HIDE DEF status
<1>6. /\ mem'.steps[s].status = status /\ mem'.steps[s].def = mem.steps[s].def
      /\ \A n \in Steps : n # s => mem'.steps[n] = mem.steps[n]
    BY <1>2, <1>4, <1>5, StatusOnly DEF Statuses
<1>7. /\ Ordered(todo') /\ ToWrite' = {s} /\ ToStart' = {}
      /\ ~Unpublished' /\ ~Changing' /\ ~Unadopted' /\ Unsaved'
    <2>1. CASE live[s] = "unsaved"
        <3> DEFINE x == Op("raise", {})
        <3>1. x \in Ops /\ x.what = "raise" /\ x.of = {} /\ todo' = StepWrites(s) \o <<x>>
            BY <1>1, <2>1, OpType DEF Whats
        <3> HIDE DEF x
        <3> QED BY <3>1, StepThenNext
    <2>2. CASE live[s] # "unsaved"
        <3>1. StepWrites(s) \in Seq(Ops)
            BY StepList
        <3>2. todo' = StepWrites(s)
            BY <1>1, <2>2, <3>1, ConcatEmptySeq
        <3> QED BY <3>2, StepNext
    <2> QED BY <2>1, <2>2
<1>8. /\ OnDisk(s) /\ mem.steps[s].status # "success"
      /\ journal # Nothing => s \notin journal.changed
    BY <1>1 DEF Inv, WorkInv
<1>9. s \notin Missing /\ Read[s].status = "running"
    <2>1. summary # Nothing
        BY <1>1, DiskTypes DEF Past
    <2> QED BY <1>8, <2>1, ReadValue DEF OnDisk, Missing
<1>10. MayMove(s, status)
    BY <1>4, <1>9 DEF MayMove
<1>11. pc \in {"up", "stopping"} => mem'.steps[s].def = def[s]
    BY <1>1, <1>6 DEF RecordInv, LoopInv, DefInv
<1>12. pc \in Past /\ pc # "closing"
    BY <1>1 DEF Past
<1> HIDE DEF MayMove
<1> QED BY <1>1, <1>3, <1>4, <1>6, <1>7, <1>8, <1>9, <1>10, <1>11, <1>12, NoteAside

\* Nothing between a plan that is sent back and its gate is at work, nor is
\* anything after the plan that is not sent back with it.
LEMMA ReviseApart ==
    ASSUME Inv, RecordInv, NEW g \in Gates, MayRevise(g), NEW t \in Steps, t # g, live[t] # "no"
    PROVE  t \notin Downstream({PlanOf[g]})
<1>1. t \notin PathBack(PlanOf[g], g) \ {g}
    BY DEF MayRevise
<1>2. mem.steps[t].status \notin {"pending", "skipped"}
    BY DEF Inv, WorkInv
<1> QED BY <1>1, <1>2 DEF MayRevise, StatusOf

LEMMA ReviseAside ==
    ASSUME Inv, RecordInv, NEW s \in Steps, Record(s), Revising(s)
    PROVE  RecordInv'
<1> DEFINE P == PathBack(PlanOf[s], s)
<1>1. /\ pc = "up" /\ todo = <<>> /\ live[s] = "revise" /\ MayRevise(s)
      /\ live' = [live EXCEPT ![s] = "no"]
      /\ draft' = [mem EXCEPT !.revised[s] = @ + 1,
                              !.steps = [n \in Steps |-> IF n \in P THEN Fresh ELSE mem.steps[n]]]
      /\ todo' = Publish(P) \o <<Op("adopt", {}), Op("unlink", {})>>
      /\ UNCHANGED <<def, summary, receipt, journal, pc, mem, broken, refreshed, open>>
    BY DEF Record, Revising, Handle, disk, Fresh
<1>2. mem \in Documents /\ live \in [Steps -> WorkerStates] /\ summary # Nothing
    BY <1>1, PastHasRun, DiskTypes DEF Past
<1>3. s \in Gates
    BY <1>1 DEF RecordInv, LoopInv, RoleInv
<1>4. PlanOf[s] \in Steps /\ PlanOf[s] \in Upstream({s})
    BY <1>3, StoreAssumption DEF Upstream
<1>5. P \in SUBSET Steps /\ P \subseteq Downstream({PlanOf[s]}) /\ s \in P
    BY <1>4, PathDownstream DEF Downstream
<1>6. \A n \in Steps : draft'.steps[n] = IF n \in P THEN Fresh ELSE mem.steps[n]
    BY <1>1, <1>2 DEF Documents
<1> HIDE DEF P
<1>7. live'[s] = "no" /\ \A n \in Steps : n # s => live'[n] = live[n]
    BY <1>1, <1>2
<1>8. /\ Ordered(todo') /\ Unpublished' /\ Changing' /\ Unadopted' /\ Unsaved'
      /\ ToWrite' = P /\ ToReset' = P /\ ToStart' = {}
    <2>1. Ordered(todo')
        BY <1>1, <1>5, AdoptOrdered
    <2>2. /\ \A w : Has(todo', w) <=> w \in {"journal", "receipt", "summary", "adopt", "unlink"}
          /\ \A w, n : Names(todo', w, n) <=> w \in {"journal", "receipt"} /\ n \in P
        BY <1>1, <1>5, AdoptAfter
    <2>3. Unpublished' /\ Changing' /\ Unadopted' /\ Unsaved'
        BY <2>2 DEF Unpublished, Changing, Unadopted, Unsaved
    <2>4. ToWrite' = P /\ ToReset' = P /\ ToStart' = {}
        BY <1>5, <2>2 DEF ToWrite, ToReset, ToStart, Listed
    <2> QED BY <2>1, <2>3, <2>4
<1>9. /\ ToWrite = {} /\ ToStart = {} /\ ~Unpublished /\ Coming = mem.steps
      /\ Firm /\ ~broken /\ journal = Nothing
    BY <1>1, Idle
<1>10. Coming' = draft'.steps
    BY <1>8 DEF Coming
<1>11. Read' = Read /\ Missing' = Missing /\ Missing \subseteq Steps
    BY <1>1, SameRead DEF disk, Missing
<1>12. Read[s].status = "running"
    <2>1. OnDisk(s)
        BY <1>1 DEF Inv, WorkInv
    <2> QED BY <1>2, <1>9, <2>1, ReadValue DEF OnDisk
<1>13. LoopInv'
    <2>1. DraftInv'
        BY <1>1, <1>6, <1>8 DEF DraftInv
    <2>2. RunInv'
        BY <1>1, <1>5, <1>6, <1>7, <1>9, <1>10, FreshType DEF RecordInv, LoopInv, RunInv
    <2>3. DefInv'
        BY <1>1, <1>7 DEF RecordInv, LoopInv, DefInv
    <2>4. AskInv'
        <3> SUFFICES ASSUME NEW t \in Steps, live'[t] # "no", NEW n \in AskedBefore(t)
                     PROVE  draft'.steps[n].status = "success"
            BY <1>1, <1>8, <1>10 DEF AskInv, AskedBefore
        <3>1. t # s /\ live[t] # "no"
            BY <1>7
        <3>2. n \in Steps /\ n \in Upstream({t}) /\ mem.steps[n].status = "success"
            BY <1>9, <3>1 DEF RecordInv, LoopInv, AskInv, AskedBefore, Upstream
        <3>3. n \notin P
            <4>1. t \in Downstream({n})
                BY <3>2, UpstreamIsDownstream
            <4>2. n \in Downstream({PlanOf[s]}) => t \in Downstream({PlanOf[s]})
                BY <1>4, <4>1, DownstreamTransitive
            <4> QED BY <1>1, <1>3, <1>5, <3>1, <4>2, ReviseApart
        <3> QED BY <1>6, <3>2, <3>3
    <2>5. RoleInv'
        BY <1>7 DEF RecordInv, LoopInv, RoleInv
    <2> QED BY <1>8, <2>1, <2>2, <2>3, <2>4, <2>5 DEF LoopInv
<1>14. \A n \in Missing : mem.steps[n] = Read[n]
    BY <1>1, <1>9, <1>11, AsRead
<1>15. PublishInv'
    <2>1. {n \in P : Read[n].status = "running"} = {s}
        <3>1. ASSUME NEW n \in P, Read[n].status = "running", n # s PROVE FALSE
            <4>1. n \in Steps /\ mem.steps[n].status = "running"
                BY <1>1, <1>5, <1>9, <3>1, AsRead
            <4>2. live[n] # "no"
                BY <1>1, <1>9, <4>1 DEF RecordInv, LoopInv, RunInv
            <4> QED BY <1>1, <1>3, <1>5, <3>1, <4>1, <4>2, ReviseApart
        <3> QED BY <1>5, <1>12, <3>1
    <2>2. SendsBack'
        BY <1>3, <1>8, <1>11, <2>1 DEF SendsBack, P
    <2>3. \A n \in Missing' \ ToReset' : draft'.steps[n] = Read'[n]
        BY <1>6, <1>8, <1>11, <1>14
    <2>4. \A n \in Missing' : mem'.steps[n] = Read'[n]
        BY <1>1, <1>11, <1>14
    <2>5. \A n \in ToReset' : draft'.steps[n] = Fresh
        BY <1>5, <1>6, <1>8
    <2>6. journal' = Nothing /\ summary' # Nothing /\ pc' = "up"
        BY <1>1, <1>2, <1>9
    <2> QED BY <1>8, <2>2, <2>3, <2>4, <2>5, <2>6 DEF PublishInv
<1>16. ReplayInv' /\ StepInv'
    BY <1>8 DEF ReplayInv, StepInv
<1>17. AgreeInv'
    <2>1. ASSUME NEW n \in Steps PROVE Agree(n)'
        <3>1. CASE n \in P
            BY <1>8, <3>1 DEF Agree
        <3>2. CASE n \notin P
            <4>1. Agree(n)
                BY <1>9 DEF RecordInv, DiskInv, AgreeInv
            <4> QED BY <1>1, <1>6, <1>9, <1>10, <1>11, <3>2, <4>1 DEF Agree
        <3> QED BY <3>1, <3>2
    <2>2. \A n \in Missing : Read[n].status = "pending"
        BY <1>1, <1>9 DEF RecordInv, DiskInv, AgreeInv
    <2> QED BY <1>1, <1>11, <2>1, <2>2 DEF AgreeInv
<1>18. AdriftInv' /\ RestInv' /\ OpenInv'
    BY <1>1, <1>9, <1>11 DEF RecordInv, DiskInv, AdriftInv, RestInv, OpenInv
<1> QED BY <1>13, <1>15, <1>16, <1>17, <1>18 DEF RecordInv, DiskInv

-----------------------------------------------------------------------------
LEMMA RecordStep == ASSUME Inv, RecordInv, [Next]_vars PROVE RecordInv'
<1>1. CASE UNCHANGED vars
    BY <1>1, StutterAside
<1>2. CASE RunWork
    <2>1. CASE WriteSummary \/ WriteJournal \/ Unlink
        BY <2>1, WriteSummaryAside, WriteJournalAside, UnlinkAside
    <2>2. CASE Adopt \/ Raise \/ WriteFails
        BY <2>2, AdoptAside, RaiseAside, WriteFailsAside
    <2>3. CASE Start \/ Load \/ Resume
        BY <2>3, StartAside, LoadAside, ResumeAside
    <2>4. CASE Go \/ Stop \/ LeaveLoop \/ EndDrain \/ FinalSave
        BY <2>4, LeavingAside, EndDrainAside
    <2>5. CASE Refuse \/ GiveUpLock \/ Crash
        BY <2>5, EndAside
    <2> QED BY <1>2, <2>1, <2>2, <2>3, <2>4, <2>5 DEF RunWork
<1>3. ASSUME NEW s \in Steps, StepWork(s) PROVE RecordInv'
    <2>1. CASE WriteReceipt(s) \/ BeginWork(s)
        BY <2>1, WriteReceiptAside, BeginWorkAside
    <2>2. CASE StartStep(s) \/ ResolveStep(s) \/ Wake(s)
        BY <2>2, StartStepAside, ResolveStepAside, WakeAside
    <2>3. CASE Record(s)
        BY <2>3, VerdictAside, ReviseAside
    <2>4. CASE Request(s) \/ Answer(s) \/ Return(s) \/ Retry(s) \/ Straggle(s) \/ Edit(s)
        BY <2>4, StepsAside
    <2> QED BY <1>3, <2>1, <2>2, <2>3, <2>4 DEF StepWork
<1> QED BY <1>1, <1>2, <1>3 DEF Next

LEMMA IInvAlways == Spec => []IInv
<1>1. Init => IInv
    BY InvInit, InitRecord DEF IInv, RecordInv
<1>2. IInv /\ [Next]_vars => IInv'
    BY InvStep, RecordStep DEF IInv, RecordInv
<1> QED BY <1>1, <1>2, PTL DEF Spec

-----------------------------------------------------------------------------
\* A step that has no receipts of its own, worked, and lost its verdict with
\* its process, reads "running" however often a write fails or somebody tries
\* to resume (Store.resume refuses it, checkpoints.py).
THEOREM UnknownStaysRunningHolds == Spec => []UnknownStaysRunning
<1>1. ASSUME IInv PROVE UnknownStaysRunning
    <2> SUFFICES ASSUME NEW s \in open \ (Human \cup Recoverable)
                 PROVE  StatusOf(Loaded, s) = "running"
        BY DEF UnknownStaysRunning
    <2>1. s \in Steps /\ Read[s].status = "running"
        BY <1>1 DEF IInv, DiskInv, OpenInv, Inv, TypeInv, TypeOK
    <2>2. summary # Nothing
        BY <2>1, ReadValue, FreshType
    <2> QED BY <1>1, <2>1, <2>2, LoadedIsRead DEF IInv, StatusOf
<1> QED BY <1>1, IInvAlways, PTL

\* The results that a run goes on with were made by the steps as they are
\* defined now: a resume compares definitions, and nobody reads the cycle file
\* in between (checkpoints.py, executor.py).
THEOREM KeptCurrentHolds == Spec => []KeptCurrent
<1>1. ASSUME IInv PROVE KeptCurrent
    BY <1>1 DEF IInv, LoopInv, DefInv, KeptCurrent
<1> QED BY <1>1, IInvAlways, PTL

\* While a worker is at it, every answer above it that this process asks again
\* is in; a plan that is sent back meanwhile takes none of them with it
\* (_readiness of executor.py, apply of revisions.py).
THEOREM AskedFirstHolds == Spec => []AskedFirst
<1>1. ASSUME IInv PROVE AskedFirst
    <2> SUFFICES ASSUME NEW s \in Steps, live[s] # "no", NEW n \in AskedBefore(s)
                 PROVE  mem.steps[n].status = "success"
        BY DEF AskedFirst, StatusOf
    <2>1. Coming[n].status = "success" /\ n \in Steps
        BY <1>1 DEF IInv, LoopInv, AskInv, AskedBefore, Upstream
    <2> QED BY <1>1, <2>1, FreshType DEF IInv, LoopInv, DraftInv, Coming
<1> QED BY <1>1, IInvAlways, PTL

-----------------------------------------------------------------------------
(* The record on disk moves as DurableRecord says.                         *)

LEMMA ReadStep ==
    ASSUME IInv, [Next]_vars
    PROVE  \/ Read' = Read
           \/ \E d \in Steps : /\ \A n \in Steps : n # d => Read'[n] = Read[n]
                               /\ MayMove(d, Read'[d].status)
           \/ /\ SendsBack \/ GoesOn
              /\ \A s \in Steps : Read'[s] = IF s \in ToReset THEN Fresh ELSE Read[s]
<1>1. Inv /\ RecordInv
    BY DEF IInv, RecordInv
<1>2. CASE WriteJournal
    <2>1. /\ Unpublished /\ pc \in {"up", "starting"}
          /\ \A s \in Steps : Read'[s] = IF s \in ToReset THEN Fresh ELSE Read[s]
        BY <1>1, <1>2, JournalLands
    <2>2. SendsBack \/ GoesOn
        BY <1>1, <2>1 DEF RecordInv, DiskInv, PublishInv
    <2> QED BY <2>1, <2>2
<1>3. ASSUME Due("summary"), summary' = draft, UNCHANGED <<receipt, journal, open>>
      PROVE  \/ Read' = Read
             \/ \E d \in Steps : /\ \A n \in Steps : n # d => Read'[n] = Read[n]
                                 /\ MayMove(d, Read'[d].status)
    <2>1. PICK d \in Steps : /\ \A n \in Steps : n # d => Read'[n] = Read[n]
                             /\ Read'[d] = Read[d] \/ MayMove(d, Read'[d].status)
        BY <1>1, <1>3, SummaryLands
    <2>2. Read = [n \in Steps |-> Read[n]] /\ Read' = [n \in Steps |-> Read'[n]]
        BY DEF Read
    <2>3. Read'[d] = Read[d] => Read' = Read
        BY <2>1, <2>2
    <2> QED BY <2>1, <2>3
<1>4. ASSUME NEW s \in Steps, WriteReceipt(s)
      PROVE  \/ Read' = Read
             \/ \E d \in Steps : /\ \A n \in Steps : n # d => Read'[n] = Read[n]
                                 /\ MayMove(d, Read'[d].status)
    <2>1. /\ UNCHANGED <<summary, journal>> /\ receipt' = [receipt EXCEPT ![s] = draft.steps[s]]
        BY <1>4 DEF WriteReceipt
    <2>2. s \in ToWrite /\ todo # <<>> /\ ~Unpublished
        BY <1>1, <1>4, ReceiptLess DEF RecordInv, LoopInv
    <2>3. summary # Nothing
        BY <1>1, <2>2, DiskTypes, ComingIsDraft DEF RecordInv, DiskInv, StepInv
    <2>4. /\ journal # Nothing /\ s \in journal.changed => Read' = Read
          /\ journal = Nothing \/ s \notin journal.changed =>
                Read' = [Read EXCEPT ![s] = draft.steps[s]]
        BY <1>1, <2>1, <2>2, <2>3, ReadAfterReceipt
    <2>5. CASE Changing
        <3>1. journal # Nothing /\ s \in journal.changed
            BY <1>1, <2>2, <2>5 DEF RecordInv, DiskInv, ReplayInv
        <3> QED BY <2>4, <3>1
    <2>6. CASE ~Changing
        <3>1. /\ MayMove(s, draft.steps[s].status)
              /\ journal # Nothing => s \notin journal.changed
            BY <1>1, <2>2, <2>6 DEF RecordInv, DiskInv, StepInv
        <3>2. Read'[s] = draft.steps[s] /\ \A n \in Steps : n # s => Read'[n] = Read[n]
            BY <1>1, <2>4, <3>1, ReadType
        <3> HIDE DEF MayMove
        <3> QED BY <3>1, <3>2
    <2> QED BY <2>5, <2>6
<1>5. CASE WriteFails
    <2>1. /\ summary' \in {summary} \cup (IF Due("summary") THEN {draft} ELSE {})
          /\ journal' \in {journal} \cup (IF Due("unlink") THEN {Nothing} ELSE {})
          /\ UNCHANGED <<receipt, open>>
        BY <1>5 DEF WriteFails
    <2>2. ~(Due("summary") /\ Due("unlink"))
        BY DEF Due
    <2>3. CASE UNCHANGED disk
        BY <2>3, SameRead
    <2>4. CASE Due("summary") /\ summary' = draft /\ journal' = journal
        BY <1>3, <2>1, <2>4
    <2>5. CASE Due("unlink") /\ journal' = Nothing /\ summary' = summary
        BY <1>1, <2>1, <2>5, UnlinkLands
    <2> QED BY <2>1, <2>2, <2>3, <2>4, <2>5 DEF disk
<1>6. CASE WriteSummary
    BY <1>3, <1>6 DEF WriteSummary
<1>7. CASE Unlink
    BY <1>1, <1>7, UnlinkLands DEF Unlink
<1>8. CASE RunWork /\ ~(WriteSummary \/ WriteJournal \/ Unlink \/ WriteFails)
    <2>1. UNCHANGED disk
        BY <1>8 DEF RunWork, Adopt, Raise, Start, Load, Resume, Refuse, Go, Stop, LeaveLoop, EndDrain,
                    FinalSave, GiveUpLock, Crash
    <2> QED BY <2>1, SameRead
<1>9. ASSUME NEW s \in Steps, StepWork(s), ~WriteReceipt(s) PROVE Read' = Read
    <2>1. UNCHANGED disk
        BY <1>9 DEF StepWork, BeginWork, StartStep, ResolveStep, Wake, Record, Request, Answer, Return,
                    Retry, Straggle, Edit
    <2> QED BY <2>1, SameRead
<1>10. CASE UNCHANGED vars
    BY <1>10, SameRead DEF vars
<1> QED BY <1>2, <1>4, <1>5, <1>6, <1>7, <1>8, <1>9, <1>10 DEF Next

ReadIsLater ==
    LaterRecord = [s \in Steps |-> Read[s].status] /\ Read \in [Steps -> Entries]

LEMMA ReadIsLaterTwice == (IInv => ReadIsLater) /\ (IInv' => ReadIsLater')
<1>1. IInv => ReadIsLater
    BY LaterIsRead, ReadType DEF IInv, ReadIsLater
<1> QED BY <1>1, PTL

LEMMA RecordMoves ==
    ASSUME IInv, IInv', [Next]_vars
    PROVE  [Durable!Next]_LaterRecord
<1> DEFINE R == LaterRecord
<1>1. /\ R = [s \in Steps |-> Read[s].status]
      /\ LaterRecord' = [s \in Steps |-> Read'[s].status]
    BY ReadIsLaterTwice DEF ReadIsLater
<1>2. Read' \in [Steps -> Entries]
    BY ReadIsLaterTwice DEF ReadIsLater
<1> HIDE DEF R
<1>3. CASE Read' = Read
    BY <1>1, <1>3 DEF R
<1>4. ASSUME NEW d \in Steps, \A n \in Steps : n # d => Read'[n] = Read[n],
             MayMove(d, Read'[d].status)
      PROVE  Durable!Move(d)
    <2> DEFINE to == Read'[d].status
    <2>1. to \in Durable!Statuses
        BY <1>2, EntryStatus DEF Durable!Statuses, Statuses
    <2>2. LaterRecord' = [R EXCEPT ![d] = to]
        BY <1>1, <1>4
    <2>3. MayMove(d, to)
        BY <1>4
    <2> HIDE DEF to
    <2>4. Durable!Lifecycle(d, to)
        BY <1>1, <2>3, NeedsAssumption DEF Durable!Lifecycle, MayMove, R
    <2> QED BY <2>1, <2>2, <2>4 DEF Durable!Move, R
<1>5. ASSUME \A s \in Steps : Read'[s] = IF s \in ToReset THEN Fresh ELSE Read[s]
      PROVE  Durable!Reset(ToReset)
    BY <1>1, <1>5, FreshType DEF Durable!Reset, R, Durable!Steps, Steps
<1>6. ToReset \in SUBSET Steps
    BY DEF ToReset, Listed
<1>7. ASSUME SendsBack, Durable!Reset(ToReset) PROVE \E g \in Gates : Durable!SendBack(g)
    <2>1. PICK g \in Gates : /\ ToReset = PathBack(PlanOf[g], g)
                             /\ {s \in ToReset : Read[s].status = "running"} = {g}
        BY <1>7 DEF SendsBack
    <2>2. {s \in ToReset : R[s] = "running"} = {g}
        BY <1>1, <1>6, <2>1
    <2>3. Durable!PathBack(PlanOf[g], g) = PathBack(PlanOf[g], g)
        BY DEF Durable!PathBack, PathBack, Durable!Downstream, Downstream, Durable!Upstream, Upstream,
               Durable!ClosedForward, ClosedForward, Durable!ClosedBackward, ClosedBackward,
               Durable!Steps, Steps
    <2> QED BY <1>7, <2>1, <2>2, <2>3 DEF Durable!SendBack, R
<1>8. ASSUME GoesOn, Durable!Reset(ToReset) PROVE Durable!GoOn(ToReset)
    <2>1. Durable!Unfinished = Undone /\ Durable!Settled = {s \in Steps : Read[s].status \in {"success", "refused"}}
        BY <1>1 DEF Durable!Unfinished, Durable!Settled, Undone, R, Durable!Steps, Steps
    <2>2. Durable!Downstream(Undone) = Downstream(Undone)
        BY DEF Durable!Downstream, Downstream, Durable!ClosedForward, ClosedForward, Durable!Steps, Steps
    <2>3. {s \in ToReset : R[s] = "running"} = {s \in ToReset : Read[s].status = "running"}
        BY <1>1, <1>6
    <2>4. ToReset \cap Durable!Settled = {s \in ToReset : Read[s].status \in {"success", "refused"}}
        BY <1>6, <2>1
    <2> QED BY <1>8, <2>1, <2>2, <2>3, <2>4 DEF Durable!GoOn, GoesOn, R
<1> QED BY <1>3, <1>4, <1>5, <1>6, <1>7, <1>8, ReadStep DEF Durable!Next, Gates, Durable!Steps, Steps

LEMMA RecordBegins == Init => Durable!Init
<1> SUFFICES ASSUME Init PROVE Durable!Init
    OBVIOUS
<1>1. LaterRecord = [s \in Steps |-> "pending"]
    BY DEF Init, LaterRecord
<1> QED BY <1>1 DEF Durable!Init, Durable!Steps, Steps

\* What checkpoints.py promises of a run's record: whatever is lost in a crash
\* or in a write that fails, the record a later process would load moves along
\* each step's life one step at a time, and a reset of several steps happens at
\* once or not at all.
THEOREM RefinesRecord == Spec => ImplementsRecord
<1>1. Init => Durable!Init
    BY RecordBegins
<1>2. IInv /\ IInv' /\ [Next]_vars => [Durable!Next]_LaterRecord
    BY RecordMoves
<1> QED BY <1>1, <1>2, IInvAlways, PTL DEF Spec, ImplementsRecord, Durable!Spec
=============================================================================
