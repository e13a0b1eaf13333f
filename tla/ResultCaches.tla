---------------------------- MODULE ResultCaches ----------------------------
(***************************************************************************)
(* The two result caches of internal/app: the change list of a project,    *)
(* kept for Ttl (30 s) for the architecture summary, and the layout of the *)
(* call graph of a project or of all, kept until a rebuild.  Requests       *)
(* compute without a lock, beside each other and beside the job that has   *)
(* rebuildMu; what they have read may be old when they store it.           *)
(*                                                                         *)
(* The files and the index of a project are versions that count up.  A     *)
(* project and its directory have one name; psnap and dsnap are the copies *)
(* of the two lists that findProject loads one after the other.            *)
(***************************************************************************)
EXTENDS Integers, Sequences, FiniteSets

CONSTANTS
    Projects,   \* the names of projects
    All,        \* the view of all projects
    Clients,    \* the requests that may run at once
    Absent,     \* no entry, no project
    Ttl,        \* changesCacheTTL
    Slow,       \* the longest time that a request takes, an assumption on the files
    MaxVersion, \* bound on the versions of an index, not in the code
    MaxEvents   \* bound on edits, failed walks, jobs and changes of the projects, not in the code

ASSUME ProjectsAssumption == IsFiniteSet(Projects)
ASSUME ViewsAssumption == All \notin Projects /\ Absent \notin Projects \cup {All}
ASSUME TimesAssumption == Ttl \in Nat \ {0} /\ Slow \in Nat

VARIABLES
    disk,       \* the version of every project's files
    index,      \* the version of its chunks, hashes and part of the call graph
    psnap,      \* a.projectsSnapshot
    dsnap,      \* a.dirsSnapshot
    job,        \* what holds rebuildMu
    changes,    \* a.changesCache
    layouts,    \* a.layoutCache
    call,       \* where every request stands, and what it has read
    quiet,      \* ghost: for how long a project has not changed: files, index, lists, failed walks
    rebuilt,    \* ghost: the index that the last successful rebuild of a view left
    wrong,      \* ghost: was detect_changes wrong when it had to be right?
    asked,      \* which of the two caches the requests ask: they share nothing
    events      \* ghost: how many edits, failed walks, jobs and changes of the projects there were

world == <<disk, index, psnap, dsnap>>
caches == <<changes, layouts>>
ghosts == <<quiet, rebuilt, wrong, asked>>
cachesVars == <<disk, index, psnap, dsnap, job, changes, layouts, call, quiet, rebuilt, wrong, asked, events>>

Views == Projects \cup {All}
Scope(v) == IF v = All THEN Projects ELSE {v}
Places(list, p) == {i \in DOMAIN list : list[i] = p}

NoJob == [kind |-> Absent, scope |-> {}, pc |-> "idle", list |-> <<>>]
Idle == [op |-> Absent, key |-> Absent, pc |-> "idle", age |-> 0, raced |-> FALSE,
         dir |-> Absent, disk |-> 0, index |-> [p \in Projects |-> 0]]

CachesInit ==
    /\ disk = [p \in Projects |-> 0] /\ index = [p \in Projects |-> 0]
    /\ psnap \in [1..Cardinality(Projects) -> Projects] /\ dsnap = psnap
    /\ \A p \in Projects : Places(psnap, p) # {}
    /\ job = NoJob
    /\ changes = [p \in Projects |-> Absent] /\ layouts = [v \in Views |-> Absent]
    /\ call = [c \in Clients |-> Idle]
    /\ quiet = [p \in Projects |-> 0]
    /\ rebuilt = [v \in Views |-> [p \in Projects |-> 0]]
    /\ wrong = FALSE /\ asked \in {"changes", "layout"} /\ events = 0

\* mutant: an entry lives until a rebuild.
Aged_Never(e) == e

\* An entry that is older than the lifetime is computed anew, as if there were none.
Aged(e) == IF e = Absent \/ e.age + 1 >= Ttl THEN Absent ELSE [e EXCEPT !.age = @ + 1]

\* Time passes, but not beyond the longest request, nor between the two stores of
\* updateSnapshots.
Tick ==
    /\ job.pc # "dsnap"
    /\ \A c \in Clients : call[c].pc # "idle" => call[c].age < Slow
    /\ call' = [c \in Clients |-> IF call[c] = Idle THEN Idle ELSE [call[c] EXCEPT !.age = @ + 1]]
    /\ changes' = [p \in Projects |-> Aged(changes[p])]
    /\ quiet' = [p \in Projects |-> IF quiet[p] > Ttl + Slow THEN quiet[p] ELSE quiet[p] + 1]
    /\ UNCHANGED <<world, job, layouts, rebuilt, wrong, events, asked>>

EditFiles(p) ==
    /\ events < MaxEvents /\ events' = events + 1
    /\ disk' = [disk EXCEPT ![p] = @ + 1]
    /\ quiet' = [quiet EXCEPT ![p] = 0]
    /\ UNCHANGED <<index, psnap, dsnap, job, caches, call, rebuilt, wrong, asked>>

\* Jobs and the operations on projects exclude each other by rebuildMu.  The
\* initial index and the watcher's jobs ("quiet") invalidate nothing; a rebuild
\* of one project, or its resumption ("project"), what is kept of that project;
\* a full one, its resumption and ReindexFiles ("full") everything.
StartJob(kind, S) ==
    /\ job = NoJob /\ events < MaxEvents /\ events' = events + 1
    /\ (kind = "full" => S = Projects) /\ (kind # "full" => Cardinality(S) = 1)
    /\ job' = [NoJob EXCEPT !.kind = kind, !.scope = S, !.pc = "work"]
    /\ UNCHANGED <<world, caches, call, ghosts>>

\* The job changes the index of a project, as often as it takes.
JobWorks(p) ==
    /\ job.pc = "work" /\ p \in job.scope /\ index[p] < MaxVersion
    /\ index' = [index EXCEPT ![p] = @ + 1]
    /\ quiet' = [quiet EXCEPT ![p] = 0]
    /\ UNCHANGED <<disk, psnap, dsnap, job, caches, call, rebuilt, wrong, events, asked>>

\* A quiet job ends, or another one returns with an error before its invalidations.
JobEndsQuietly ==
    /\ job.pc = "work" /\ job' = NoJob
    /\ UNCHANGED <<world, caches, call, ghosts, events>>

\* The views whose entries the job drops: never that of all for one project.
Dropped == IF job.kind = "project" THEN job.scope ELSE Views

\* Ghost: the requests that compute while their entries are dropped.
Race(op) ==
    [c \in Clients |-> [call[c] EXCEPT !.raced = @ \/ (call[c].op = op /\ call[c].key \in Dropped)]]

InvalidateChanges ==
    /\ job.pc = "work" /\ job.kind \in {"project", "full"}
    /\ changes' = [p \in Projects |-> IF p \in Dropped THEN Absent ELSE changes[p]]
    /\ job' = [job EXCEPT !.pc = "layouts"] /\ call' = Race("changes")
    /\ UNCHANGED <<world, layouts, ghosts, events>>

\* What a view shows of the index.
Read(v) == [p \in Projects |-> IF p \in Scope(v) THEN index[p] ELSE 0]

\* mutant: the layouts stay.
InvalidateLayouts_Not ==
    /\ job.pc = "layouts" /\ job' = NoJob /\ layouts' = layouts
    /\ rebuilt' = [v \in Views |-> IF v \in Dropped THEN Read(v) ELSE rebuilt[v]]
    /\ call' = Race("layout")
    /\ UNCHANGED <<world, changes, quiet, wrong, events, asked>>

InvalidateLayouts ==
    /\ job.pc = "layouts" /\ job' = NoJob
    /\ layouts' = [v \in Views |-> IF v \in Dropped THEN Absent ELSE layouts[v]]
    /\ rebuilt' = [v \in Views |-> IF v \in Dropped THEN Read(v) ELSE rebuilt[v]]
    /\ call' = Race("layout")
    /\ UNCHANGED <<world, changes, quiet, wrong, events, asked>>

Without(list, k) == [i \in 1..(Len(list) - 1) |-> IF i < k THEN list[i] ELSE list[i + 1]]

\* AddProject, EditProject and RemoveProject end in updateSnapshots, which
\* stores the two lists one after the other.
StorePsnap(p) ==
    /\ job = NoJob /\ events < MaxEvents
    /\ psnap' \in IF Places(psnap, p) = {} THEN {Append(psnap, p)}
                  ELSE {psnap} \cup {Without(psnap, i) : i \in Places(psnap, p)}
    /\ job' = [NoJob EXCEPT !.kind = "lists", !.pc = "dsnap", !.list = psnap']
    /\ quiet' = [q \in Projects |-> 0] /\ events' = events + 1
    /\ UNCHANGED <<disk, index, dsnap, caches, call, rebuilt, wrong, asked>>

StoreDsnap ==
    /\ job.pc = "dsnap"
    /\ dsnap' = job.list /\ job' = NoJob
    /\ quiet' = [p \in Projects |-> 0]
    /\ UNCHANGED <<disk, index, psnap, caches, call, rebuilt, wrong, events, asked>>

Update(c, r) == call' = [call EXCEPT ![c] = r]

\* What a change list says, and whether that was to be expected: it must be right
\* if nothing has changed for the time that an entry lives and takes to compute.
Tell(key, e) ==
    wrong' = /\ quiet[key] > Ttl + Slow
             /\ IF Places(psnap, key) = {} THEN e.dir # Absent
                ELSE ~(e.dir = key /\ e.disk = disk[key] /\ e.index[key] = index[key])

\* DetectChangesCached answers from the cache or goes on to findProject.
AskChanges(c, p) ==
    /\ asked = "changes" /\ call[c] = Idle
    /\ IF changes[p] # Absent THEN Tell(p, changes[p]) /\ UNCHANGED call
       ELSE /\ Update(c, [Idle EXCEPT !.op = "changes", !.key = p, !.pc = "find"])
            /\ UNCHANGED wrong
    /\ UNCHANGED <<world, job, caches, quiet, rebuilt, events, asked>>

\* findProject loads the projects; an unknown name is an error, kept like a result.
FindProject(c) ==
    /\ call[c].pc = "find"
    /\ IF Places(psnap, call[c].key) = {}
       THEN Update(c, [call[c] EXCEPT !.pc = "store"])
       ELSE \E i \in Places(psnap, call[c].key) : Update(c, [call[c] EXCEPT !.pc = "dirs", !.disk = i])
    /\ UNCHANGED <<world, job, caches, ghosts, events>>

\* findProject loads the directories and takes the one at the same place.  If
\* there is none the request panics: it ends without an answer.
FindDirectory(c) ==
    /\ call[c].pc = "dirs"
    /\ IF call[c].disk \in DOMAIN dsnap
       THEN Update(c, [call[c] EXCEPT !.pc = "walk", !.dir = dsnap[call[c].disk]])
       ELSE Update(c, Idle)
    /\ UNCHANGED <<world, job, caches, ghosts, events>>

WalkFiles(c) ==
    /\ call[c].pc = "walk"
    /\ Update(c, [call[c] EXCEPT !.pc = "hashes", !.disk = disk[call[c].dir]])
    /\ UNCHANGED <<world, job, caches, ghosts, events>>

\* The walk fails, because the client is gone or a file is: the error is kept too.
FailWalk(c) ==
    /\ call[c].pc = "walk" /\ events < MaxEvents /\ events' = events + 1
    /\ Update(c, [call[c] EXCEPT !.pc = "store", !.dir = Absent])
    /\ quiet' = [quiet EXCEPT ![call[c].key] = 0]
    /\ UNCHANGED <<world, job, caches, rebuilt, wrong, asked>>

ReadHashes(c) ==
    /\ call[c].pc = "hashes"
    /\ Update(c, [call[c] EXCEPT !.pc = "store", !.index[call[c].dir] = index[call[c].dir]])
    /\ UNCHANGED <<world, job, caches, ghosts, events>>

StoreChanges(c) ==
    /\ call[c].pc = "store" /\ call[c].op = "changes"
    /\ changes' = [changes EXCEPT ![call[c].key] = [call[c] EXCEPT !.age = 0]]
    /\ Tell(call[c].key, call[c])
    /\ Update(c, Idle)
    /\ UNCHANGED <<world, job, layouts, quiet, rebuilt, events, asked>>

\* GraphLayout answers from the cache, whatever became of the project, or reads
\* the graph.
AskLayout(c, v) ==
    /\ asked = "layout" /\ call[c] = Idle /\ layouts[v] = Absent
    /\ Update(c, [Idle EXCEPT !.op = "layout", !.key = v, !.pc = "store", !.index = Read(v)])
    /\ UNCHANGED <<world, job, caches, ghosts, events>>

\* It fails if there is no such project.
StoreLayout(c) ==
    /\ call[c].pc = "store" /\ call[c].op = "layout"
    /\ layouts' = IF call[c].key # All /\ Places(psnap, call[c].key) = {} THEN layouts
                  ELSE [layouts EXCEPT ![call[c].key] = [call[c] EXCEPT !.age = 0]]
    /\ Update(c, Idle)
    /\ UNCHANGED <<world, job, changes, ghosts, events>>

Request(c) ==
    \/ \E p \in Projects : AskChanges(c, p)
    \/ FindProject(c) \/ FindDirectory(c) \/ WalkFiles(c) \/ FailWalk(c) \/ ReadHashes(c) \/ StoreChanges(c)
    \/ \E v \in Views : AskLayout(c, v)
    \/ StoreLayout(c)

CachesNext ==
    \/ Tick
    \/ \E p \in Projects : EditFiles(p) \/ JobWorks(p)
    \/ \E kind \in {"quiet", "project", "full"}, S \in (SUBSET Projects) \ {{}} : StartJob(kind, S)
    \/ JobEndsQuietly \/ InvalidateChanges \/ InvalidateLayouts
    \/ \E p \in Projects : StorePsnap(p)
    \/ StoreDsnap
    \/ \E c \in Clients : Request(c)

CachesSpec == CachesInit /\ [][CachesNext]_cachesVars

-----------------------------------------------------------------------------

\* The values that the caches, the requests and the lists take.
CachesTypeOK ==
    /\ disk \in [Projects -> Nat] /\ index \in [Projects -> Nat]
    /\ psnap \in Seq(Projects) /\ dsnap \in Seq(Projects)
    /\ job.scope \subseteq Projects /\ job.pc \in {"idle", "work", "layouts", "dsnap"}
    /\ \A p \in Projects : changes[p] # Absent => changes[p].op = "changes" /\ changes[p].age < Ttl
    /\ \A v \in Views : layouts[v] # Absent => layouts[v].op = "layout" /\ layouts[v].key = v
    /\ \A c \in Clients : call[c] # Idle => call[c].key \in Views /\ call[c].age <= Slow

\* A rebuild that has succeeded is seen: no result that is kept was computed from
\* an older index of what was rebuilt, unless its computation had begun before the
\* rebuild was over (InvalidateChangesCache, InvalidateLayoutCache and their callers).
RebuildIsSeen ==
    /\ \A p \in Projects :
          changes[p] # Absent /\ ~changes[p].raced /\ changes[p].dir = p
             => changes[p].index[p] >= rebuilt[p][p]
    /\ \A v \in Views :
          layouts[v] # Absent /\ ~layouts[v].raced
             => \A p \in Scope(v) : layouts[v].index[p] >= rebuilt[v][p]

\* What a request read while a job, an edit or a change of the projects was under
\* way, or the error it met, is told for no longer than an entry lives: once nothing
\* has happened for that time the change list is right (DetectChangesCached).
ChangesCatchUp == ~wrong

=============================================================================
