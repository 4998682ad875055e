------------------------- MODULE PluginStoreProofs --------------------------
(***************************************************************************)
(* What is proved of PluginStore for every number of processes, packages,  *)
(* versions, runs and references: what is registered is whole, what is     *)
(* pinned stays, and nothing stray is left.                                *)
(*                                                                         *)
(* A catalogue is sound by itself, committed or not; what an installation  *)
(* has put on the disk is described by the draft it will commit.           *)
(***************************************************************************)
EXTENDS PluginStore, TLAPS

\* Where an installation has registered its version and not committed it.
Writing == {"stage", "write", "package", "environment", "seal", "commit"}

-----------------------------------------------------------------------------
(* The inductive invariant.                                                *)

\* A catalogue of the right type that says "none" of what is not there, keeps
\* what is pinned, and points at the one active version.
Sound(c) ==
    /\ c \in Catalogs
    /\ \A v \in Versions : c.content[v] = Nothing <=> c.state[v] = "none"
    /\ \A r \in Runs : c.lock[r] # Nothing => Installed(c, c.lock[r])
    /\ \A r \in References : \A d \in c.pins[r] : Installed(c, d)
    /\ \A v \in Versions : c.state[v] = "active" <=> c.active = v

\* What the step of a process says of its draft and of its job.
DraftInv(p) ==
    /\ pc[p] \in {"prepare", "recover"} => draft = catalog
    /\ pc[p] \in {"prepare"} \cup Writing => job[p] \in [digest : Digests, activate : BOOLEAN]
    /\ pc[p] \in Writing =>
           /\ catalog.content[Target(p)] = Nothing
           /\ draft.content = [catalog.content EXCEPT ![Target(p)] = Wanted(p)]

\* Nothing is on the disk beside what the draft names and the stage, and both
\* directories are durable where only the commit is left.
DiskInv(p) ==
    /\ pc[p] \in Writing =>
           \A i \in Directories : disk[i] # "none" => Named(draft, i) \/ i = <<"staging", p>>
    /\ pc[p] = "commit" => /\ disk[<<"packages", Wanted(p)>>] = "whole"
                           /\ disk[<<"environments", Wanted(p)>>] = "whole"

IInv ==
    /\ TypeOK
    /\ Sound(catalog) /\ Sound(draft)
    /\ \A p \in Procs : DraftInv(p)
    /\ \A p \in Procs : DiskInv(p)
    /\ NeverPartial
    /\ NothingLeftBehind

-----------------------------------------------------------------------------
(* Catalogues.                                                             *)

LEMMA ActivatedSound ==
    ASSUME NEW c, Sound(c), NEW v \in Versions, c.content[v] # Nothing
    PROVE  Sound(Activated(c, v)) /\ Activated(c, v).content = c.content
  <1> DEFINE a == Activated(c, v)
             State(u) == IF u = v THEN "active"
                         ELSE IF c.state[u] = "active" THEN "installed_inactive" ELSE c.state[u]
  <1>1. c \in Catalogs
    BY DEF Sound
  <1>2. /\ a.content = c.content /\ a.lock = c.lock /\ a.pins = c.pins /\ a.owner = c.owner
        /\ a.active = v /\ a.state = [u \in Versions |-> State(u)]
    BY <1>1 DEF Activated, Catalogs
  <1>3. a \in Catalogs
    <2>1. \A u \in Versions : State(u) \in States \cup {"none"}
      BY <1>1 DEF Catalogs, States
    <2>2. a.state \in [Versions -> States \cup {"none"}]
      BY <1>2, <2>1
    <2> QED
      BY <1>1, <2>2 DEF Activated, Catalogs
  <1>4. \A u \in Versions : a.content[u] = Nothing <=> a.state[u] = "none"
    BY <1>2 DEF Sound
  <1>5. \A u \in Versions : a.state[u] = "active" <=> a.active = u
    BY <1>2
  <1>6. \A d : Installed(a, d) <=> Installed(c, d)
    BY <1>2 DEF Installed
  <1> HIDE DEF a
  <1> QED
    BY <1>2, <1>3, <1>4, <1>5, <1>6 DEF Sound, a

\* The row that register adds.
Registered(c, d) ==
    [c EXCEPT !.content[VersionOf[d]] = d, !.state[VersionOf[d]] = "installed_inactive",
              !.owner = PublisherOf[d]]

LEMMA RegisteredSound ==
    ASSUME NEW c, Sound(c), NEW d \in Digests, c.content[VersionOf[d]] = Nothing
    PROVE  /\ Sound(Registered(c, d))
           /\ Registered(c, d).content = [c.content EXCEPT ![VersionOf[d]] = d]
  <1> DEFINE a == Registered(c, d)
             v == VersionOf[d]
  <1>1. c \in Catalogs /\ v \in Versions /\ PublisherOf[d] \in Publishers /\ d # Nothing
    BY StoreAssumption DEF Sound
  <1>2. /\ a.content = [c.content EXCEPT ![v] = d] /\ a.lock = c.lock /\ a.pins = c.pins
        /\ a.active = c.active /\ a.state = [c.state EXCEPT ![v] = "installed_inactive"]
    BY <1>1 DEF Registered, Catalogs
  <1>3. a \in Catalogs
    BY <1>1 DEF Registered, Catalogs, States
  <1>4. \A u \in Versions : a.content[u] = Nothing <=> a.state[u] = "none"
    BY <1>1, <1>2 DEF Sound, Catalogs
  <1>5. \A u \in Versions : a.state[u] = "active" <=> a.active = u
    BY <1>1, <1>2 DEF Sound, Catalogs
  <1>6. \A e \in Digests : Installed(c, e) => Installed(a, e)
    BY <1>1, <1>2, StoreAssumption DEF Installed, Catalogs
  <1>7. (\A r \in Runs : c.lock[r] \in Digests \cup {Nothing})
        /\ \A r \in References : c.pins[r] \subseteq Digests
    BY <1>1 DEF Catalogs
  <1> HIDE DEF a
  <1> QED
    BY <1>2, <1>3, <1>4, <1>5, <1>6, <1>7 DEF Sound, a

LEMMA StartSound == Init => Sound(catalog) /\ draft = catalog
  <1> SUFFICES ASSUME Init PROVE Sound(catalog) /\ draft = catalog
    OBVIOUS
  <1>1. catalog \in Catalogs
    BY DEF Init, Catalogs, States
  <1>2. /\ catalog.content = [v \in Versions |-> Nothing]
        /\ catalog.state = [v \in Versions |-> "none"] /\ catalog.active = Nothing
        /\ catalog.lock = [r \in Runs |-> Nothing] /\ catalog.pins = [r \in References |-> {}]
    BY DEF Init
  <1> QED
    BY <1>1, <1>2, StoreAssumption DEF Sound, Init

-----------------------------------------------------------------------------
(* What several actions share.                                             *)

LEMMA Apart == \A p \in Procs : <<"staging", p>> \in Directories /\ p # Nothing
  BY StoreAssumption DEF Directories

LEMMA InTransaction ==
    ASSUME IInv, NEW p \in Procs
    PROVE  /\ pc[p] \notin {"idle", "untidied"} <=> writer = p
           /\ pc[p] \in {"prepare", "recover"} \cup Writing => writer = p
  BY DEF IInv, TypeOK, Writing

\* What the catalogue names decides which directories are stray.
LEMMA OrphansFollow ==
    ASSUME NEW c, NEW e, c.content = e.content, NEW i \in Directories
    PROVE  Named(c, i) <=> Named(e, i)
  BY DEF Named, Installed

\* A transaction of one step that leaves the contents alone.
LEMMA AloneStep ==
    ASSUME IInv, Alone, Sound(catalog'), catalog'.content = catalog.content
    PROVE  IInv'
  <1>1. TypeOK'
    BY DEF IInv, TypeOK, Alone, Sound
  <1>2. \A p \in Procs : pc'[p] \in {"idle", "untidied"}
    BY InTransaction, Apart DEF Alone
  <1>3. \A p \in Procs : DraftInv(p)' /\ DiskInv(p)'
    BY <1>2 DEF DraftInv, DiskInv, Writing
  <1>4. NeverPartial'
    BY DEF IInv, NeverPartial, Alone, Installed
  <1>5. NothingLeftBehind'
    <2>1. Orphans' = Orphans
      BY DEF Alone, Orphans, Named, Installed
    <2> QED
      BY <2>1 DEF IInv, NothingLeftBehind, Alone
  <1> QED
    BY <1>1, <1>3, <1>4, <1>5 DEF IInv, Alone

\* A process gives its transaction up, or never had one: what is committed
\* and what is whole stay.
LEMMA DropStep ==
    ASSUME IInv, catalog' = catalog, writer' = Nothing, draft' = catalog,
           pc' \in [Procs -> {"idle", "untidied"}], job' \in [Procs -> Jobs],
           disk' \in [Directories -> Contents], untidy' \in BOOLEAN,
           \A i \in Directories : disk[i] = "whole" => disk'[i] = "whole",
           NothingLeftBehind'
    PROVE  IInv'
  <1>1. TypeOK'
    BY Apart DEF IInv, TypeOK, Steps
  <1>2. \A p \in Procs : DraftInv(p)' /\ DiskInv(p)'
    BY DEF DraftInv, DiskInv, Writing
  <1>3. NeverPartial'
    <2> SUFFICES ASSUME NEW d \in Digests, Installed(catalog, d)
                 PROVE  /\ disk'[<<"packages", d>>] = "whole"
                        /\ disk'[<<"environments", d>>] = "whole"
      BY DEF NeverPartial
    <2>1. disk[<<"packages", d>>] = "whole" /\ disk[<<"environments", d>>] = "whole"
      BY DEF IInv, NeverPartial
    <2>2. <<"packages", d>> \in Directories /\ <<"environments", d>> \in Directories
      BY DEF Directories
    <2> QED
      BY <2>1, <2>2
  <1> QED
    BY <1>1, <1>2, <1>3 DEF IInv

\* The transaction of p ends well: it commits c, and whatever else is on the
\* disk, nothing is left that c does not name.
LEMMA LeaveStep ==
    ASSUME IInv, NEW p \in Procs, writer = p, NEW c, Leave(p, c), Sound(c),
           disk' \in [Directories -> Contents], untidy' \in BOOLEAN,
           \A d \in Digests : Installed(c, d) =>
               disk'[<<"packages", d>>] = "whole" /\ disk'[<<"environments", d>>] = "whole",
           \A i \in Directories : disk'[i] = "none" \/ Named(c, i)
    PROVE  IInv'
  <1>1. \A q \in Procs : pc'[q] \in {"idle", "untidied"}
    BY InTransaction DEF Leave, IInv, TypeOK
  <1>2. TypeOK'
    <2>1. pc' \in [Procs -> Steps] /\ job' \in [Procs -> Jobs]
      BY DEF IInv, TypeOK, Leave, Steps, Jobs
    <2> QED
      BY <1>1, <2>1, Apart DEF TypeOK, Leave, Sound
  <1>3. \A q \in Procs : DraftInv(q)' /\ DiskInv(q)'
    BY <1>1 DEF DraftInv, DiskInv, Writing
  <1>4. NeverPartial'
    BY DEF NeverPartial, Leave
  <1>5. NothingLeftBehind'
    BY DEF NothingLeftBehind, Orphans, Leave
  <1> QED
    BY <1>2, <1>3, <1>4, <1>5 DEF IInv, Leave

-----------------------------------------------------------------------------
(* Transactions of a single step.                                          *)

LEMMA ActivateStep == ASSUME IInv, NEW d \in Digests, Activate(d) PROVE IInv'
  <1>1. VersionOf[d] \in Versions /\ catalog.content[VersionOf[d]] # Nothing
    BY StoreAssumption DEF Activate, Installed
  <1> QED
    BY <1>1, ActivatedSound, AloneStep DEF Activate, IInv

LEMMA DisableStep == ASSUME IInv, NEW v \in Versions, Disable(v) PROVE IInv'
  <1>1. Sound(catalog) /\ catalog \in Catalogs /\ v # Nothing
    BY StoreAssumption DEF IInv, Sound
  <1>2. /\ catalog'.content = catalog.content /\ catalog'.lock = catalog.lock
        /\ catalog'.pins = catalog.pins
        /\ catalog'.state = [catalog.state EXCEPT ![v] = "disabled"]
        /\ catalog'.active = IF catalog.active = v THEN Nothing ELSE catalog.active
    BY <1>1 DEF Disable, Catalogs
  <1>3. catalog' \in Catalogs
    BY <1>1 DEF Disable, Catalogs, States
  <1>4. \A u \in Versions : catalog'.content[u] = Nothing <=> catalog'.state[u] = "none"
    BY <1>1, <1>2 DEF Sound, Catalogs, Disable
  <1>5. \A u \in Versions : catalog'.state[u] = "active" <=> catalog'.active = u
    BY <1>1, <1>2, StoreAssumption DEF Sound, Catalogs
  <1>6. Sound(catalog')
    BY <1>1, <1>2, <1>3, <1>4, <1>5 DEF Sound, Installed
  <1> QED
    BY <1>2, <1>6, AloneStep DEF Disable

LEMMA RetainStep ==
    ASSUME IInv, NEW r \in References, NEW ds \in SUBSET Digests, Retain(r, ds)
    PROVE  IInv'
  <1>1. Sound(catalog) /\ catalog \in Catalogs
    BY DEF IInv, Sound
  <1>2. /\ catalog'.content = catalog.content /\ catalog'.lock = catalog.lock
        /\ catalog'.active = catalog.active /\ catalog'.state = catalog.state
        /\ catalog'.pins = [catalog.pins EXCEPT ![r] = ds] /\ catalog' \in Catalogs
    BY <1>1 DEF Retain, Catalogs
  <1>3. \A q \in References : \A d \in catalog'.pins[q] : Installed(catalog', d)
    BY <1>1, <1>2 DEF Sound, Installed, Retain, Catalogs
  <1>4. Sound(catalog')
    BY <1>1, <1>2, <1>3 DEF Sound, Installed
  <1> QED
    BY <1>2, <1>4, AloneStep DEF Retain

LEMMA ReleaseStep ==
    ASSUME IInv, NEW r \in References, ReleaseReference(r) PROVE IInv'
  <1>1. Retain(r, {})
    BY DEF ReleaseReference, Retain
  <1> QED
    BY <1>1, RetainStep

LEMMA LockRunStep ==
    ASSUME IInv, NEW r \in Runs, NEW d \in Digests, LockRun(r, d) PROVE IInv'
  <1>1. Sound(catalog) /\ catalog \in Catalogs
    BY DEF IInv, Sound
  <1>2. /\ catalog'.content = catalog.content /\ catalog'.pins = catalog.pins
        /\ catalog'.active = catalog.active /\ catalog'.state = catalog.state
        /\ catalog'.lock = [catalog.lock EXCEPT ![r] = d] /\ catalog' \in Catalogs
    BY <1>1 DEF LockRun, Catalogs
  <1>3. \A q \in Runs : catalog'.lock[q] # Nothing => Installed(catalog', catalog'.lock[q])
    BY <1>1, <1>2 DEF Sound, Installed, LockRun, Catalogs
  <1>4. Sound(catalog')
    BY <1>1, <1>2, <1>3 DEF Sound, Installed
  <1> QED
    BY <1>2, <1>4, AloneStep DEF LockRun

\* What nothing keeps is no longer in the catalogue; who removed it recovers.
LEMMA RemoveStep ==
    ASSUME IInv, NEW p \in Procs, NEW v \in Versions, Remove(p, v) PROVE IInv'
  <1>1. Sound(catalog) /\ catalog \in Catalogs /\ v # Nothing
    BY StoreAssumption DEF IInv, Sound
  <1>2. /\ catalog'.content = [catalog.content EXCEPT ![v] = Nothing]
        /\ catalog'.lock = catalog.lock /\ catalog'.pins = catalog.pins
        /\ catalog'.state = [catalog.state EXCEPT ![v] = "none"]
        /\ catalog'.active = catalog.active /\ catalog' \in Catalogs
    BY <1>1 DEF Remove, Catalogs
  <1>3. \A d \in Digests : VersionOf[d] # v =>
            (Installed(catalog', d) <=> Installed(catalog, d))
    BY <1>1, <1>2, StoreAssumption DEF Installed, Catalogs
  <1>4. Sound(catalog')
    <2>1. \A r \in Runs : catalog.lock[r] \in Digests \cup {Nothing}
      BY <1>1 DEF Catalogs
    <2>2. \A r \in References : catalog.pins[r] \subseteq Digests
      BY <1>1 DEF Catalogs
    <2>3. \A r \in Runs : catalog'.lock[r] # Nothing => Installed(catalog', catalog'.lock[r])
      BY <1>1, <1>2, <1>3, <2>1 DEF Remove, Blocked, Sound
    <2>4. \A r \in References : \A d \in catalog'.pins[r] : Installed(catalog', d)
      BY <1>1, <1>2, <1>3, <2>2 DEF Remove, Blocked, Sound
    <2>5. \A u \in Versions : catalog'.content[u] = Nothing <=> catalog'.state[u] = "none"
      BY <1>1, <1>2 DEF Sound, Catalogs
    <2>6. \A u \in Versions : catalog'.state[u] = "active" <=> catalog'.active = u
      BY <1>1, <1>2 DEF Sound, Catalogs, Remove, Blocked
    <2> QED
      BY <1>2, <2>3, <2>4, <2>5, <2>6 DEF Sound
  <1>5. \A q \in Procs : pc'[q] \in {"idle", "untidied"}
    BY InTransaction, Apart DEF Remove, IInv, TypeOK
  <1>6. TypeOK'
    BY <1>4, <1>5, Apart DEF IInv, TypeOK, Remove, Steps, Sound
  <1>7. \A q \in Procs : DraftInv(q)' /\ DiskInv(q)'
    BY <1>5 DEF DraftInv, DiskInv, Writing
  <1>8. NeverPartial'
    <2>1. \A d \in Digests : Installed(catalog', d) => Installed(catalog, d)
      BY <1>1, <1>2, <1>3, StoreAssumption DEF Installed, Catalogs
    <2> QED
      BY <2>1 DEF IInv, NeverPartial, Remove
  <1>9. NothingLeftBehind'
    BY DEF NothingLeftBehind, Remove, IInv, TypeOK
  <1> QED
    BY <1>4, <1>6, <1>7, <1>8, <1>9 DEF IInv, Remove

-----------------------------------------------------------------------------
(* Recovery, and an installation to its commit.                            *)

\* Every other process is outside a transaction, whatever p does in its own.
LEMMA OthersOutside ==
    ASSUME IInv, NEW p \in Procs, writer \in {p, Nothing},
           NEW to \in Steps, pc' = [pc EXCEPT ![p] = to], NEW q \in Procs, q # p
    PROVE  pc'[q] \in {"idle", "untidied"} /\ DraftInv(q)' /\ DiskInv(q)'
  <1>1. pc'[q] = pc[q] /\ pc[q] \in {"idle", "untidied"}
    BY InTransaction, Apart DEF IInv, TypeOK
  <1> QED
    BY <1>1 DEF DraftInv, DiskInv, Writing

LEMMA BeginStep ==
    ASSUME IInv, NEW p \in Procs, NEW to \in {"recover", "prepare"}, Begin(p, to),
           job' \in [Procs -> Jobs],
           to = "prepare" => job'[p] \in [digest : Digests, activate : BOOLEAN],
           pc[p] \in {"idle", "untidied"}
    PROVE  IInv'
  <1>1. to \in Steps /\ pc' = [pc EXCEPT ![p] = to] /\ pc'[p] = to
    BY DEF Begin, Steps, IInv, TypeOK
  <1>2. \A q \in Procs \ {p} :
            pc'[q] \in {"idle", "untidied"} /\ DraftInv(q)' /\ DiskInv(q)'
    BY <1>1, OthersOutside DEF Begin
  <1>3. TypeOK'
    BY <1>1, <1>2 DEF IInv, TypeOK, Begin, Steps
  <1>4. DraftInv(p)' /\ DiskInv(p)'
    BY <1>1 DEF DraftInv, DiskInv, Writing, Begin
  <1>5. NeverPartial' /\ NothingLeftBehind'
    BY <1>1 DEF IInv, NeverPartial, NothingLeftBehind, Begin
  <1> QED
    BY <1>2, <1>3, <1>4, <1>5 DEF IInv, Begin

LEMMA RecoverStep == ASSUME IInv, NEW p \in Procs, Recover(p) PROVE IInv'
  <1>1. job' \in [Procs -> Jobs]
    BY DEF Recover, IInv, TypeOK
  <1> QED
    BY <1>1, BeginStep DEF Recover

LEMMA InstallStep ==
    ASSUME IInv, NEW p \in Procs, NEW d \in Digests, NEW activate \in BOOLEAN,
           Install(p, d, activate)
    PROVE  IInv'
  <1>1. job' \in [Procs -> Jobs] /\ job'[p] \in [digest : Digests, activate : BOOLEAN]
    BY DEF Install, IInv, TypeOK, Jobs
  <1> QED
    BY <1>1, BeginStep DEF Install

\* What is removed is nothing that the catalogue names.
LEMMA SweepStep ==
    ASSUME IInv, NEW p \in Procs, NEW i \in Directories, Sweep(p, i) PROVE IInv'
  <1>1. writer = p /\ draft = catalog
    BY InTransaction DEF Sweep, IInv, DraftInv
  <1>2. disk' \in [Directories -> Contents]
    BY DEF Sweep, IInv, TypeOK, Contents
  <1>3. TypeOK'
    BY <1>2 DEF Sweep, IInv, TypeOK
  <1>4. \A q \in Procs : pc[q] \notin Writing
    BY <1>1, InTransaction DEF Sweep, IInv, TypeOK, Writing
  <1>5. \A q \in Procs : DraftInv(q)' /\ DiskInv(q)'
    BY <1>4 DEF DraftInv, DiskInv, Sweep, IInv, Writing, Target, Wanted
  <1>6. NeverPartial'
    <2> SUFFICES ASSUME NEW d \in Digests, Installed(catalog, d)
                 PROVE  /\ disk'[<<"packages", d>>] = "whole"
                        /\ disk'[<<"environments", d>>] = "whole"
      BY DEF NeverPartial, Sweep
    <2>1. i # <<"packages", d>> /\ i # <<"environments", d>>
      BY <1>1 DEF Sweep, Named
    <2>2. <<"packages", d>> \in Directories /\ <<"environments", d>> \in Directories
      BY DEF Directories
    <2> QED
      BY <2>1, <2>2 DEF Sweep, IInv, NeverPartial, TypeOK
  <1>7. NothingLeftBehind'
    BY DEF NothingLeftBehind, Sweep
  <1> QED
    BY <1>3, <1>5, <1>6, <1>7 DEF IInv, Sweep

LEMMA RecoveredStep == ASSUME IInv, NEW p \in Procs, Recovered(p) PROVE IInv'
  <1>1. writer = p /\ draft = catalog
    BY InTransaction DEF Recovered, IInv, DraftInv
  <1> QED
    BY <1>1, LeaveStep DEF Recovered, Swept, IInv, TypeOK, NeverPartial

LEMMA AgainStep == ASSUME IInv, NEW p \in Procs, Again(p) PROVE IInv'
  <1> DEFINE c == Chosen(p, draft)
  <1>1. writer = p /\ draft = catalog /\ Wanted(p) \in Digests /\ Target(p) \in Versions
    BY InTransaction, StoreAssumption DEF Again, IInv, DraftInv, Wanted, Target
  <1>2. draft.content[Target(p)] # Nothing
    BY <1>1, StoreAssumption DEF Again, Installed, Target
  <1>3. Sound(c) /\ c.content = draft.content
    BY <1>1, <1>2, ActivatedSound DEF Chosen, IInv
  <1>4. \A d \in Digests : Installed(c, d) => Installed(catalog, d)
    BY <1>1, <1>3 DEF Installed
  <1>5. \A i \in Directories : disk[i] = "none" \/ Named(c, i)
    BY <1>3, OrphansFollow DEF Again, Swept
  <1>6. Leave(p, c) /\ disk' = disk /\ untidy' \in BOOLEAN
    BY DEF Again
  <1> HIDE DEF c
  <1> QED
    BY <1>1, <1>3, <1>4, <1>5, <1>6, LeaveStep DEF IInv, TypeOK, NeverPartial

LEMMA RegisterStep == ASSUME IInv, NEW p \in Procs, Register(p) PROVE IInv'
  <1> DEFINE d == Wanted(p)
  <1>1. /\ writer = p /\ draft = catalog /\ d \in Digests /\ Target(p) = VersionOf[d]
        /\ Sound(draft)
    BY InTransaction DEF Register, IInv, DraftInv, Wanted, Target
  <1>2. draft' = Registered(draft, d) /\ catalog' = catalog
    BY <1>1 DEF Register, Registered
  <1>3. Sound(draft') /\ draft'.content = [draft.content EXCEPT ![VersionOf[d]] = d]
    <2>1. draft.content[VersionOf[d]] = Nothing
      BY <1>1 DEF Register
    <2> HIDE DEF d
    <2> QED
      BY <1>1, <1>2, <2>1, RegisteredSound
  <1>4. pc' = [pc EXCEPT ![p] = "stage"] /\ pc'[p] = "stage" /\ "stage" \in Steps
    BY DEF Register, IInv, TypeOK, Steps
  <1>5. \A q \in Procs \ {p} :
            pc'[q] \in {"idle", "untidied"} /\ DraftInv(q)' /\ DiskInv(q)'
    BY <1>1, <1>4, OthersOutside
  <1>6. TypeOK'
    BY <1>1, <1>3, <1>4, <1>5 DEF IInv, TypeOK, Register, Sound, Steps
  <1>7. DraftInv(p)'
    BY <1>1, <1>2, <1>3, <1>4 DEF DraftInv, Register, IInv, Target, Wanted
  <1>8. DiskInv(p)'
    <2>1. draft.content[VersionOf[d]] = Nothing /\ \A e \in Digests : e # Nothing
      BY <1>1, StoreAssumption DEF Register
    <2>2. draft \in Catalogs /\ \A e \in Digests : VersionOf[e] \in Versions
      BY <1>1, StoreAssumption DEF Sound
    <2>3. \A e \in Digests : Installed(draft, e) => Installed(draft', e)
      BY <1>3, <2>1, <2>2 DEF Installed, Catalogs
    <2>4. \A i \in Directories : disk[i] = "none" \/ Named(draft', i)
      BY <2>3 DEF Register, Swept, Named, Directories
    <2> QED
      BY <1>4, <2>4 DEF DiskInv, Register
  <1>9. NeverPartial' /\ NothingLeftBehind'
    BY <1>2, <1>4 DEF IInv, NeverPartial, NothingLeftBehind, Register
  <1> QED
    BY <1>1, <1>2, <1>3, <1>5, <1>6, <1>7, <1>8, <1>9 DEF IInv, Register

\* An installation writes a directory of its own: the stage, or one that its
\* draft names and the catalogue does not.
LEMMA OwnDirectories ==
    ASSUME IInv, NEW p \in Procs, pc[p] \in Writing
    PROVE  /\ Wanted(p) \in Digests /\ Target(p) \in Versions /\ ~Installed(catalog, Wanted(p))
           /\ \A i \in ToSeal(Wanted(p)) : i \in Directories /\ Named(draft, i)
           /\ \A d \in Digests : Installed(draft, d) <=> d = Wanted(p) \/ Installed(catalog, d)
  <1>1. Wanted(p) \in Digests /\ Target(p) = VersionOf[Wanted(p)] /\ Target(p) \in Versions
    BY StoreAssumption DEF IInv, DraftInv, Wanted, Target
  <1>2. /\ catalog.content[Target(p)] = Nothing
        /\ draft.content = [catalog.content EXCEPT ![Target(p)] = Wanted(p)]
        /\ catalog.content \in [Versions -> Digests \cup {Nothing}]
    BY DEF IInv, DraftInv, Sound, Catalogs
  <1>3. \A d \in Digests : VersionOf[d] \in Versions /\ d # Nothing
    BY StoreAssumption
  <1>4. \A d \in Digests : Installed(draft, d) <=> d = Wanted(p) \/ Installed(catalog, d)
    BY <1>1, <1>2, <1>3 DEF Installed
  <1>5. \A i \in ToSeal(Wanted(p)) : i \in Directories /\ Named(draft, i)
    BY <1>1, <1>4 DEF ToSeal, Directories, Named
  <1> QED
    BY <1>1, <1>2, <1>3, <1>4, <1>5 DEF Installed

\* A step of an installation after it has registered.
LEMMA GoesStep ==
    ASSUME IInv, NEW p \in Procs, pc[p] \in Writing, NEW to \in Writing, Goes(p, to),
           disk' \in [Directories -> Contents],
           \A i \in Directories :
               disk'[i] = disk[i] \/ i = <<"staging", p>> \/ i \in ToSeal(Wanted(p)),
           to = "commit" => \A i \in ToSeal(Wanted(p)) : disk'[i] = "whole"
    PROVE  IInv'
  <1>1. writer = p /\ to \in Steps /\ to \notin {"idle", "untidied"}
    BY InTransaction DEF Writing, Steps
  <1>2. pc' = [pc EXCEPT ![p] = to] /\ pc'[p] = to
    BY DEF Goes, IInv, TypeOK
  <1>3. \A q \in Procs \ {p} :
            pc'[q] \in {"idle", "untidied"} /\ DraftInv(q)' /\ DiskInv(q)'
    BY <1>1, <1>2, OthersOutside
  <1>4. TypeOK'
    BY <1>1, <1>2, <1>3 DEF IInv, TypeOK, Goes
  <1>5. DraftInv(p)'
    BY <1>2 DEF DraftInv, Goes, IInv, Writing, Target, Wanted
  <1>6. DiskInv(p)'
    <2>1. \A i \in Directories : disk'[i] # "none" => Named(draft, i) \/ i = <<"staging", p>>
      BY OwnDirectories DEF IInv, DiskInv
    <2>2. to = "commit" => /\ disk'[<<"packages", Wanted(p)>>] = "whole"
                           /\ disk'[<<"environments", Wanted(p)>>] = "whole"
      BY DEF ToSeal
    <2> QED
      BY <1>2, <2>1, <2>2 DEF DiskInv, Goes, Wanted, Named, Installed
  <1>7. NeverPartial'
    <2> SUFFICES ASSUME NEW d \in Digests, Installed(catalog, d)
                 PROVE  /\ disk'[<<"packages", d>>] = "whole"
                        /\ disk'[<<"environments", d>>] = "whole"
      BY DEF NeverPartial, Goes
    <2>1. d # Wanted(p)
      BY OwnDirectories
    <2>2. /\ <<"packages", d>> \in Directories \ ToSeal(Wanted(p))
          /\ <<"environments", d>> \in Directories \ ToSeal(Wanted(p))
      BY <2>1 DEF Directories, ToSeal
    <2>3. <<"packages", d>> # <<"staging", p>> /\ <<"environments", d>> # <<"staging", p>>
      OBVIOUS
    <2> QED
      BY <2>2, <2>3 DEF IInv, NeverPartial
  <1>8. NothingLeftBehind'
    BY <1>1, <1>2 DEF NothingLeftBehind
  <1> QED
    BY <1>3, <1>4, <1>5, <1>6, <1>7, <1>8 DEF IInv, Goes

LEMMA WritesStep ==
    ASSUME IInv, NEW p \in Procs, NEW from \in Writing, NEW to \in Writing \ {"commit"},
           NEW i \in ToSeal(Wanted(p)) \cup {<<"staging", p>>}, NEW is \in Contents,
           Writes(p, from, to, i, is)
    PROVE  IInv'
  <1>1. disk \in [Directories -> Contents] /\ disk' = [disk EXCEPT ![i] = is]
    BY DEF Writes, IInv, TypeOK
  <1>2. disk' \in [Directories -> Contents]
    BY <1>1
  <1>3. \A j \in Directories :
            disk'[j] = disk[j] \/ j = <<"staging", p>> \/ j \in ToSeal(Wanted(p))
    BY <1>1
  <1> QED
    BY <1>2, <1>3, GoesStep DEF Writes

LEMMA SealStep == ASSUME IInv, NEW p \in Procs, Seal(p) PROVE IInv'
  <1>1. "seal" \in Writing /\ "commit" \in Writing
    BY DEF Writing
  <1>2. disk' \in [Directories -> Contents]
    BY DEF Seal, IInv, TypeOK, Contents
  <1>3. \A i \in Directories :
            disk'[i] = IF i \in ToSeal(Wanted(p)) THEN "whole" ELSE disk[i]
    BY DEF Seal
  <1>4. \A i \in ToSeal(Wanted(p)) : i \in Directories
    BY <1>1, OwnDirectories DEF Seal
  <1> QED
    BY <1>1, <1>2, <1>3, <1>4, GoesStep DEF Seal

LEMMA CommitStep == ASSUME IInv, NEW p \in Procs, Commit(p) PROVE IInv'
  <1> DEFINE c == Chosen(p, draft)
  <1>1. pc[p] = "commit" /\ pc[p] \in Writing /\ writer = p
    BY InTransaction DEF Commit, Writing
  <1>2. draft.content[Target(p)] # Nothing
    BY <1>1, OwnDirectories, StoreAssumption DEF Installed, Target
  <1>3. Sound(c) /\ c.content = draft.content
    BY <1>1, <1>2, OwnDirectories, ActivatedSound DEF Chosen, IInv
  <1>4. disk' = [disk EXCEPT ![<<"staging", p>>] = "none"] /\ disk' \in [Directories -> Contents]
    BY DEF Commit, IInv, TypeOK, Contents
  <1>5. ASSUME NEW d \in Digests, Installed(c, d)
        PROVE  disk'[<<"packages", d>>] = "whole" /\ disk'[<<"environments", d>>] = "whole"
    <2>1. d = Wanted(p) \/ Installed(catalog, d)
      BY <1>1, <1>3, <1>5, OwnDirectories DEF Installed
    <2>2. disk[<<"packages", d>>] = "whole" /\ disk[<<"environments", d>>] = "whole"
      BY <1>1, <2>1 DEF IInv, NeverPartial, DiskInv
    <2>3. /\ <<"packages", d>> \in Directories /\ <<"packages", d>> # <<"staging", p>>
          /\ <<"environments", d>> \in Directories /\ <<"environments", d>> # <<"staging", p>>
      BY DEF Directories
    <2> QED
      BY <1>4, <2>2, <2>3 DEF IInv, TypeOK
  <1>6. \A i \in Directories : disk'[i] = "none" \/ Named(c, i)
    <2>1. \A i \in Directories : Named(c, i) <=> Named(draft, i)
      BY <1>3, OrphansFollow
    <2>2. \A i \in Directories : disk[i] # "none" => Named(draft, i) \/ i = <<"staging", p>>
      BY <1>1 DEF IInv, DiskInv
    <2> QED
      BY <1>4, <2>1, <2>2 DEF IInv, TypeOK
  <1>7. Leave(p, c) /\ untidy' \in BOOLEAN
    BY DEF Commit, IInv, TypeOK
  <1> HIDE DEF c
  <1> QED
    BY <1>1, <1>3, <1>4, <1>5, <1>6, <1>7, LeaveStep

-----------------------------------------------------------------------------
(* Failures.                                                               *)

LEMMA RaiseStep == ASSUME IInv, NEW p \in Procs, Raise(p) PROVE IInv'
  <1>1. writer = p /\ pc'[p] = "untidied"
    BY InTransaction DEF Raise, Writing, IInv, TypeOK, AfterFailure
  <1>2. pc' \in [Procs -> {"idle", "untidied"}]
    BY <1>1, InTransaction DEF Raise, IInv, TypeOK, AfterFailure
  <1>3. job' \in [Procs -> Jobs]
    BY DEF Raise, IInv, TypeOK, Jobs
  <1>4. NothingLeftBehind'
    BY <1>1 DEF NothingLeftBehind
  <1> QED
    BY <1>2, <1>3, <1>4, DropStep DEF Raise, RolledBack, IInv, TypeOK

LEMMA DieStep == ASSUME IInv, NEW p \in Procs, Die(p) PROVE IInv'
  <1>1. /\ job' \in [Procs -> Jobs] /\ untidy' = TRUE /\ NothingLeftBehind'
        /\ pc' = [pc EXCEPT ![p] = "idle"] /\ "idle" \in Steps
    BY DEF Die, IInv, TypeOK, Jobs, NothingLeftBehind, Steps
  <1>2. CASE writer \in {p, Nothing}
    <2>1. pc' \in [Procs -> {"idle", "untidied"}]
      BY <1>1, <1>2, InTransaction, Apart DEF IInv, TypeOK
    <2>2. writer' = Nothing
      BY <1>2 DEF Die
    <2>3. CASE writer = p
      BY <1>1, <2>1, <2>2, <2>3, DropStep DEF Die, IInv, TypeOK
    <2>4. CASE writer = Nothing
      <3>1. TypeOK'
        BY <1>1, <2>1, <2>2, <2>4, Apart DEF IInv, TypeOK, Die, Steps
      <3>2. \A q \in Procs : DraftInv(q)' /\ DiskInv(q)'
        BY <2>1 DEF DraftInv, DiskInv, Writing
      <3> QED
        BY <1>1, <2>4, <3>1, <3>2, Apart DEF IInv, Die, NeverPartial
    <2> QED
      BY <1>2, <2>3, <2>4
  \* The dead process had begun no transaction: another one writes on.
  <1>3. CASE writer \notin {p, Nothing}
    <2>1. pc[p] = "untidied" /\ writer' = writer /\ draft' = draft
      BY <1>3, InTransaction DEF Die, IInv, TypeOK
    <2>2. \A q \in Procs \ {p} : pc'[q] = pc[q] /\ job'[q] = job[q]
      BY DEF Die, IInv, TypeOK
    <2>3. pc'[p] = "idle"
      BY <1>1 DEF IInv, TypeOK
    <2>4. TypeOK'
      BY <1>1, <2>1, <2>2, <2>3 DEF IInv, TypeOK, Die, Steps
    <2>5. \A q \in Procs \ {p} : DraftInv(q)' /\ DiskInv(q)'
      BY <2>1, <2>2 DEF IInv, DraftInv, DiskInv, Die, Target, Wanted, Named, Installed
    <2>6. DraftInv(p)' /\ DiskInv(p)'
      BY <2>3 DEF DraftInv, DiskInv, Writing
    <2> QED
      BY <1>1, <2>1, <2>4, <2>5, <2>6 DEF IInv, Die, NeverPartial
  <1> QED
    BY <1>2, <1>3

LEMMA LosePowerStep == ASSUME IInv, LosePower PROVE IInv'
  <1>1. /\ pc' \in [Procs -> {"idle", "untidied"}] /\ job' \in [Procs -> Jobs]
        /\ untidy' = TRUE /\ NothingLeftBehind'
    BY DEF LosePower, Jobs, NothingLeftBehind
  <1>2. disk' \in [Directories -> Contents]
    BY DEF LosePower, IInv, TypeOK, Contents
  <1>3. \A i \in Directories : disk[i] = "whole" => disk'[i] = "whole"
    BY DEF LosePower
  <1> QED
    BY <1>1, <1>2, <1>3, DropStep DEF LosePower

-----------------------------------------------------------------------------
(* The theorems.                                                           *)

LEMMA InitInv == Init => IInv
  <1> SUFFICES ASSUME Init PROVE IInv
    OBVIOUS
  <1>1. Sound(catalog) /\ Sound(draft) /\ draft = catalog
    BY StartSound
  <1>2. TypeOK
    BY <1>1, Apart DEF Init, TypeOK, Sound, Steps, Jobs, Contents
  <1>3. \A p \in Procs : DraftInv(p) /\ DiskInv(p)
    BY DEF Init, DraftInv, DiskInv, Writing
  <1>4. NeverPartial
    BY StoreAssumption DEF Init, NeverPartial, Installed
  <1>5. NothingLeftBehind
    BY DEF Init, NothingLeftBehind, Orphans
  <1> QED
    BY <1>1, <1>2, <1>3, <1>4, <1>5 DEF IInv

LEMMA StepInv == IInv /\ [Next]_vars => IInv'
  <1> SUFFICES ASSUME IInv, [Next]_vars PROVE IInv'
    OBVIOUS
  <1>1. ASSUME NEW d \in Digests, Activate(d) PROVE IInv'
    BY <1>1, ActivateStep
  <1>2. ASSUME NEW v \in Versions, Disable(v) PROVE IInv'
    BY <1>2, DisableStep
  <1>3. ASSUME NEW r \in References, ReleaseReference(r) PROVE IInv'
    BY <1>3, ReleaseStep
  <1>4. ASSUME NEW r \in References, NEW ds \in SUBSET Digests, Retain(r, ds) PROVE IInv'
    BY <1>4, RetainStep
  <1>5. ASSUME NEW r \in Runs, NEW d \in Digests, LockRun(r, d) PROVE IInv'
    BY <1>5, LockRunStep
  <1>6. ASSUME NEW p \in Procs, Recover(p) PROVE IInv'
    BY <1>6, RecoverStep
  <1>7. ASSUME NEW p \in Procs, Recovered(p) PROVE IInv'
    BY <1>7, RecoveredStep
  <1>8. ASSUME NEW p \in Procs, NEW i \in Directories, Sweep(p, i) PROVE IInv'
    BY <1>8, SweepStep
  <1>9. ASSUME NEW p \in Procs, NEW d \in Digests, NEW a \in BOOLEAN, Install(p, d, a) PROVE IInv'
    BY <1>9, InstallStep
  <1>10. ASSUME NEW p \in Procs, Again(p) PROVE IInv'
    BY <1>10, AgainStep
  <1>11. ASSUME NEW p \in Procs, Register(p) PROVE IInv'
    BY <1>11, RegisterStep
  \* The writes of an installation, each to a directory of its own.
  <1>12. ASSUME NEW p \in Procs,
                Stage(p) \/ WriteFiles(p) \/ PublishPackage(p) \/ PublishEnvironment(p)
         PROVE  IInv'
    <2>1. /\ {"stage", "write", "package", "environment"} \subseteq Writing
          /\ {"write", "package", "environment", "seal"} \subseteq Writing \ {"commit"}
          /\ {"part", "loose"} \subseteq Contents
      BY DEF Writing, Contents
    <2>2. CASE Stage(p)
      BY <2>1, <2>2, WritesStep DEF Stage
    <2>3. CASE WriteFiles(p)
      BY <2>1, <2>3, WritesStep DEF WriteFiles
    <2>4. CASE PublishPackage(p)
      BY <2>1, <2>4, WritesStep DEF PublishPackage, ToSeal
    <2>5. CASE PublishEnvironment(p)
      BY <2>1, <2>5, WritesStep DEF PublishEnvironment, ToSeal
    <2> QED
      BY <1>12, <2>2, <2>3, <2>4, <2>5
  <1>13. ASSUME NEW p \in Procs, Seal(p) PROVE IInv'
    BY <1>13, SealStep
  <1>14. ASSUME NEW p \in Procs, Commit(p) PROVE IInv'
    BY <1>14, CommitStep
  <1>15. ASSUME NEW p \in Procs, Raise(p) PROVE IInv'
    BY <1>15, RaiseStep
  <1>16. ASSUME NEW p \in Procs, Die(p) PROVE IInv'
    BY <1>16, DieStep
  <1>17. ASSUME NEW p \in Procs, NEW v \in Versions, Remove(p, v) PROVE IInv'
    BY <1>17, RemoveStep
  <1>18. CASE LosePower
    BY <1>18, LosePowerStep
  <1>19. CASE UNCHANGED vars
    <2>1. \A p \in Procs : DraftInv(p)' /\ DiskInv(p)'
      BY <1>19 DEF IInv, vars, DraftInv, DiskInv, Named, Installed, Target, Wanted
    <2>2. TypeOK' /\ Sound(catalog') /\ Sound(draft')
      BY <1>19 DEF IInv, vars, TypeOK, Sound
    <2>3. NeverPartial' /\ NothingLeftBehind'
      BY <1>19 DEF IInv, vars, NeverPartial, NothingLeftBehind, Orphans, Named, Installed
    <2> QED
      BY <2>1, <2>2, <2>3 DEF IInv
  <1> QED
    BY <1>1, <1>2, <1>3, <1>4, <1>5, <1>6, <1>7, <1>8, <1>9, <1>10, <1>11, <1>12, <1>13,
       <1>14, <1>15, <1>16, <1>17, <1>18, <1>19 DEF Next

\* In every state of the store, whatever is installed, fails, dies or loses
\* power: the inductive invariant the results below follow from.
THEOREM InvAlways == Spec => []IInv
  <1> QED
    BY InitInv, StepInv, PTL DEF Spec

\* The catalogue, the draft and the files keep their types, and a process is
\* inside a transaction exactly while it holds SQLite's write lock.
THEOREM TypeCorrect == Spec => []TypeOK
  <1>1. IInv => TypeOK
    BY DEF IInv
  <1> QED
    BY <1>1, InvAlways, PTL

\* A registered version has all of its package and of its environment on the
\* disk, durably, for any number of processes that install at once.
THEOREM NeverPartialHolds == Spec => []NeverPartial
  <1>1. IInv => NeverPartial
    BY DEF IInv
  <1> QED
    BY <1>1, InvAlways, PTL

\* What a run locked or a project retains stays registered with the content it
\* was pinned to, and the pointer names the one active version.
THEOREM PinsHoldAlways == Spec => []PinsHold
  <1>1. IInv => PinsHold
    BY DEF IInv, Sound, PinsHold
  <1> QED
    BY <1>1, InvAlways, PTL

\* Files no version owns are there only while somebody is about to remove
\* them, or since a process died.
THEOREM NothingLeft == Spec => []NothingLeftBehind
  <1>1. IInv => NothingLeftBehind
    BY DEF IInv
  <1> QED
    BY <1>1, InvAlways, PTL
=============================================================================
