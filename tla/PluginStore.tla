---------------------------- MODULE PluginStore -----------------------------
(***************************************************************************)
(* The installed versions of one plugin (plugin_host/installer.py,         *)
(* plugin_host/registry.py): a catalogue in SQLite, whose BEGIN IMMEDIATE  *)
(* lets one process write at a time, and files beside it, which no         *)
(* transaction covers. An installation publishes its files before it       *)
(* commits; what a recovery finds that no committed row names, it removes. *)
(*                                                                         *)
(* A package is its digest, and fixes its version, its publisher and, with *)
(* the one runtime there is, its environment. Left out: bundled packages,  *)
(* compatibility, quarantine (which nothing sets), keys, the log.          *)
(***************************************************************************)
EXTENDS Naturals, FiniteSets

CONSTANTS
    Procs,        \* processes of the application that open the store
    Digests,      \* packages that may be installed
    Versions, VersionOf,
    Publishers, PublisherOf,
    Runs,         \* runs that lock the version they use
    References,   \* projects and histories that retain versions
    MayLosePower,
    Nothing

ASSUME StoreAssumption ==
    /\ VersionOf \in [Digests -> Versions] /\ PublisherOf \in [Digests -> Publishers]
    /\ Nothing \notin Digests \cup Versions \cup Publishers \cup Procs

VARIABLES
    catalog,   \* what is committed
    draft,     \* what the process that writes sees
    writer,    \* the process inside a transaction
    pc, job,   \* process -> where its installation is, and what it installs
    disk,      \* directory of the store -> how much of it is there
    untidy     \* a process died, or could not remove files, since the last recovery

vars == <<catalog, draft, writer, pc, job, disk, untidy>>

Directories == {"packages", "environments"} \X Digests \cup {"staging"} \X Procs

\* Nothing, a part, all of it but not synced, all of it and synced.
Contents == {"none", "part", "loose", "whole"}

States == {"installed_inactive", "active", "disabled"}

Catalogs == [content : [Versions -> Digests \cup {Nothing}],
             state : [Versions -> States \cup {"none"}],
             active : Versions \cup {Nothing},
             owner : Publishers \cup {Nothing},
             lock : [Runs -> Digests \cup {Nothing}],
             pins : [References -> SUBSET Digests]]

Jobs == [digest : Digests, activate : BOOLEAN] \cup {Nothing}

Init ==
    /\ catalog = [content |-> [v \in Versions |-> Nothing],
                  state |-> [v \in Versions |-> "none"],
                  active |-> Nothing, owner |-> Nothing,
                  lock |-> [r \in Runs |-> Nothing],
                  pins |-> [r \in References |-> {}]]
    /\ draft = catalog
    /\ writer = Nothing
    /\ pc = [p \in Procs |-> "idle"] /\ job = [p \in Procs |-> Nothing]
    /\ disk = [i \in Directories |-> "none"]
    /\ untidy = FALSE

-----------------------------------------------------------------------------
(* What is installed.                                                      *)

Installed(c, d) == c.content[VersionOf[d]] = d

\* _recover keeps the directories that a managed row names.
Named(c, i) == i[1] # "staging" /\ Installed(c, i[2])

Orphans == {i \in Directories : disk[i] # "none" /\ ~Named(catalog, i)}

\* _verify: the package and its environment, to the last file.
Verified(d) == disk[<<"packages", d>>] \in {"loose", "whole"} /\
               disk[<<"environments", d>>] \in {"loose", "whole"}

\* set_state: one version is active, and the pointer names it.
Activated(c, v) ==
    [c EXCEPT !.active = v,
              !.state = [u \in Versions |-> IF u = v THEN "active"
                                            ELSE IF @[u] = "active" THEN "installed_inactive"
                                            ELSE @[u]]]

\* Mutant: the references of projects and histories do not count.
BlockedByRuns(v) ==
    \/ \E r \in Runs : catalog.lock[r] # Nothing /\ VersionOf[catalog.lock[r]] = v
    \/ catalog.state[v] = "active"

\* blockers
Blocked(v) ==
    \/ \E r \in Runs : catalog.lock[r] # Nothing /\ VersionOf[catalog.lock[r]] = v
    \/ \E r \in References : \E d \in catalog.pins[r] : VersionOf[d] = v
    \/ catalog.state[v] = "active"

-----------------------------------------------------------------------------
(* Transactions of a single step. A crash in one of them undoes it.        *)

Alone == writer = Nothing /\ UNCHANGED <<draft, writer, pc, job, disk, untidy>>

Activate(d) ==
    /\ Alone /\ Installed(catalog, d) /\ Verified(d)
    /\ catalog' = Activated(catalog, VersionOf[d])

Disable(v) ==
    /\ Alone /\ catalog.content[v] # Nothing
    /\ catalog' = [catalog EXCEPT !.state[v] = "disabled",
                                  !.active = IF @ = v THEN Nothing ELSE @]

Retain(r, ds) ==
    /\ Alone /\ \A d \in ds : Installed(catalog, d)
    /\ catalog' = [catalog EXCEPT !.pins[r] = ds]

ReleaseReference(r) == Alone /\ catalog' = [catalog EXCEPT !.pins[r] = {}]

\* lock_run, the first time: the active version, or the pinned one if usable.
\* Later the same run only reads its lock.
LockRun(r, d) ==
    /\ Alone /\ catalog.lock[r] = Nothing
    /\ Installed(catalog, d) /\ catalog.state[VersionOf[d]] \in {"active", "installed_inactive"}
    /\ catalog' = [catalog EXCEPT !.lock[r] = d]

\* remove, to its COMMIT; its recovery is a transaction of its own.
Remove(p, v) ==
    /\ writer = Nothing /\ pc[p] = "idle"
    /\ catalog.content[v] # Nothing /\ ~Blocked(v)
    /\ catalog' = [catalog EXCEPT !.content[v] = Nothing, !.state[v] = "none"]
    /\ pc' = [pc EXCEPT ![p] = "untidied"]
    /\ UNCHANGED <<draft, writer, job, disk, untidy>>

-----------------------------------------------------------------------------
(* Recovery, and the installation that begins with one.                    *)

Begin(p, to) ==
    /\ writer = Nothing
    /\ writer' = p /\ draft' = catalog
    /\ pc' = [pc EXCEPT ![p] = to]
    /\ UNCHANGED <<catalog, disk, untidy>>

Recover(p) == pc[p] \in {"idle", "untidied"} /\ Begin(p, "recover") /\ UNCHANGED job

Install(p, d, activate) ==
    /\ pc[p] = "idle" /\ Begin(p, "prepare")
    /\ job' = [job EXCEPT ![p] = [digest |-> d, activate |-> activate]]

Goes(p, to) ==
    /\ pc' = [pc EXCEPT ![p] = to]
    /\ UNCHANGED <<catalog, draft, writer, job, untidy>>

\* rmtree, a file at a time.
Sweep(p, i) ==
    /\ pc[p] \in {"prepare", "recover"}
    /\ disk[i] # "none" /\ ~Named(draft, i)
    /\ disk' = [disk EXCEPT ![i] = IF @ = "part" THEN "none" ELSE "part"]
    /\ UNCHANGED <<catalog, draft, writer, pc, job, untidy>>

Swept == \A i \in Directories : disk[i] = "none" \/ Named(draft, i)

Leave(p, c) ==
    /\ writer' = Nothing /\ catalog' = c /\ draft' = c
    /\ pc' = [pc EXCEPT ![p] = "idle"] /\ job' = [job EXCEPT ![p] = Nothing]

Recovered(p) ==
    /\ pc[p] = "recover" /\ Swept
    /\ Leave(p, draft) /\ untidy' = FALSE
    /\ UNCHANGED disk

Wanted(p) == job[p].digest
Target(p) == VersionOf[Wanted(p)]
Chosen(p, c) == IF job[p].activate THEN Activated(c, Target(p)) ELSE c

\* The version is there already, with the same content.
Again(p) ==
    /\ pc[p] = "prepare" /\ Swept
    /\ Installed(draft, Wanted(p)) /\ Verified(Wanted(p))
    /\ Leave(p, Chosen(p, draft)) /\ untidy' = FALSE
    /\ UNCHANGED disk

\* register, for nobody else to see before the commit.
Register(p) ==
    /\ pc[p] = "prepare" /\ Swept
    /\ draft.content[Target(p)] = Nothing
    /\ draft.owner \in {Nothing, PublisherOf[Wanted(p)]}
    /\ draft' = [draft EXCEPT !.content[Target(p)] = Wanted(p),
                              !.state[Target(p)] = "installed_inactive",
                              !.owner = PublisherOf[Wanted(p)]]
    /\ pc' = [pc EXCEPT ![p] = "stage"] /\ untidy' = FALSE
    /\ UNCHANGED <<catalog, writer, job, disk>>

Writes(p, from, to, i, is) ==
    /\ pc[p] = from /\ disk' = [disk EXCEPT ![i] = is] /\ Goes(p, to)

Stage(p) == Writes(p, "stage", "write", <<"staging", p>>, "part")
WriteFiles(p) == Writes(p, "write", "package", <<"staging", p>>, "loose")

\* The two renames.
PublishPackage(p) ==
    /\ pc[p] = "package" /\ disk[<<"packages", Wanted(p)>>] = "none"
    /\ Writes(p, "package", "environment", <<"packages", Wanted(p)>>, "loose")
PublishEnvironment(p) ==
    /\ pc[p] = "environment" /\ disk[<<"environments", Wanted(p)>>] = "none"
    /\ Writes(p, "environment", "seal", <<"environments", Wanted(p)>>, "loose")

\* Mutant: only the package is made durable.
PackageToSeal(d) == {<<"packages", d>>}

ToSeal(d) == {<<"packages", d>>, <<"environments", d>>}

\* _seal and _sync.
Seal(p) ==
    /\ pc[p] = "seal"
    /\ disk' = [i \in Directories |-> IF i \in ToSeal(Wanted(p)) THEN "whole" ELSE disk[i]]
    /\ Goes(p, "commit")

\* Activation if asked for, the stage removed, COMMIT.
Commit(p) ==
    /\ pc[p] = "commit"
    /\ Leave(p, Chosen(p, draft))
    /\ disk' = [disk EXCEPT ![<<"staging", p>>] = "none"]
    /\ UNCHANGED untidy

\* Mutant: who failed to install does not recover.
AfterFailureNothing == "idle"

AfterFailure == "untidied"

\* Mutant: the transaction of a failed installation is left open.
RolledBackLater == writer

RolledBack == Nothing

\* What an installation raises at any step: ROLLBACK, then a transaction to
\* recover in.
Raise(p) ==
    /\ pc[p] \in {"prepare", "stage", "write", "package", "environment", "seal", "commit"}
    /\ writer' = RolledBack /\ draft' = catalog
    /\ pc' = [pc EXCEPT ![p] = AfterFailure] /\ job' = [job EXCEPT ![p] = Nothing]
    /\ UNCHANGED <<catalog, disk, untidy>>

\* A recovery that cannot remove a file, and a process that dies.
Die(p) ==
    /\ pc[p] # "idle"
    /\ writer' = (IF writer = p THEN Nothing ELSE writer)
    /\ draft' = (IF writer = p THEN catalog ELSE draft)
    /\ pc' = [pc EXCEPT ![p] = "idle"] /\ job' = [job EXCEPT ![p] = Nothing]
    /\ untidy' = TRUE
    /\ UNCHANGED <<catalog, disk>>

\* What is not synced may be there, in part, or not at all.
LosePower ==
    /\ MayLosePower
    /\ \E lost, torn \in SUBSET {i \in Directories : disk[i] = "loose"} :
          disk' = [i \in Directories |-> IF i \in lost THEN "none"
                                         ELSE IF i \in torn THEN "part" ELSE disk[i]]
    /\ writer' = Nothing /\ draft' = catalog
    /\ pc' = [p \in Procs |-> "idle"] /\ job' = [p \in Procs |-> Nothing]
    /\ untidy' = TRUE
    /\ UNCHANGED catalog

Next ==
    \/ \E d \in Digests : Activate(d)
    \/ \E v \in Versions : Disable(v)
    \/ \E r \in References : ReleaseReference(r) \/ \E ds \in SUBSET Digests : Retain(r, ds)
    \/ \E r \in Runs, d \in Digests : LockRun(r, d)
    \/ \E p \in Procs :
          \/ Recover(p) \/ Recovered(p) \/ \E i \in Directories : Sweep(p, i)
          \/ \E d \in Digests, activate \in BOOLEAN : Install(p, d, activate)
          \/ Again(p) \/ Register(p) \/ Stage(p) \/ WriteFiles(p) \/ PublishPackage(p)
          \/ PublishEnvironment(p) \/ Seal(p) \/ Commit(p) \/ Raise(p) \/ Die(p)
          \/ \E v \in Versions : Remove(p, v)
    \/ LosePower

Spec == Init /\ [][Next]_vars

-----------------------------------------------------------------------------
(* Properties.                                                             *)

Steps == {"idle", "untidied", "recover", "prepare", "stage", "write", "package",
          "environment", "seal", "commit"}

\* The catalogue, the draft and the files have their types, and a process is
\* inside a transaction exactly while it writes.
TypeOK ==
    /\ catalog \in Catalogs /\ draft \in Catalogs
    /\ writer \in Procs \cup {Nothing}
    /\ pc \in [Procs -> Steps] /\ job \in [Procs -> Jobs]
    /\ disk \in [Directories -> Contents]
    /\ untidy \in BOOLEAN
    /\ \A p \in Procs : pc[p] \in {"idle", "untidied"} <=> writer # p

\* "never an active partial version" (installer.py): whatever crashed, failed
\* or was cancelled, and however many installed at once, a version that is
\* registered has all of its package and of its environment, durably.
NeverPartial ==
    \A d \in Digests : Installed(catalog, d) =>
        disk[<<"packages", d>>] = "whole" /\ disk[<<"environments", d>>] = "whole"

\* What a run has locked or a project retains stays registered, with the very
\* content it was pinned to, through updates, removals and installations by
\* others; and the pointer to the active version names the one that is active.
PinsHold ==
    /\ \A r \in Runs : catalog.lock[r] # Nothing => Installed(catalog, catalog.lock[r])
    /\ \A r \in References : \A d \in catalog.pins[r] : Installed(catalog, d)
    /\ \A v \in Versions : catalog.state[v] = "active" <=> catalog.active = v

\* Files that belong to no version are there only while somebody is about to
\* remove them, or since a process died: no failure, cancellation, update or
\* removal that came to its end leaves any behind.
NothingLeftBehind == Orphans = {} \/ untidy \/ \E p \in Procs : pc[p] # "idle"
=============================================================================
