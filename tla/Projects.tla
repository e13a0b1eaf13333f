------------------------------ MODULE Projects ------------------------------
(***************************************************************************)
(* The projects of the application: the lists that internal/app keeps      *)
(* under rebuildMu, their rows in the database, the copies that readers    *)
(* use without the lock, the list of the MCP server, and the restarter     *)
(* that makes the watcher follow them.                                     *)
(*                                                                         *)
(* A name is what the caller asked for and the suffix -1, -2, ... that     *)
(* uniqueProjectName gave it, 0 for none.                                  *)
(***************************************************************************)
EXTENDS Integers, Sequences, FiniteSets

CONSTANTS
    None,       \* no project
    Paths,      \* the directories that may become projects
    Bases,      \* the names that a caller may ask for
    Filters,    \* the configurations a project may have
    Faults,     \* what may go wrong: see Fault
    MaxFaults,  \* bound on the faults, not in the code
    MaxWrites   \* bound on AddProject, EditProject and RemoveProject, not in the code

ASSUME FaultsAssumption == Faults \subseteq {"save", "purge", "delete", "watch", "crash"}
ASSUME PathsAssumption == Paths # {} /\ IsFiniteSet(Paths)

VARIABLES
    dirs,       \* a.dirs
    projects,   \* a.projects
    db,         \* table projects
    psnap,      \* a.projectsSnapshot
    dsnap,      \* a.dirsSnapshot
    served,     \* mcp.Server.projects, a slice of the array of a.projects
    writer,     \* where the operation that holds rebuildMu stands
    entry,      \* the project it is about
    started,    \* a.watcherStarted
    prepared,   \* the directories a.watcher was made with
    watched,    \* the directories it watches
    token,      \* does watcherRestartCh (capacity 1) hold a signal?
    restarter,  \* where runWatcherRestarter stands
    broken,     \* ghost: the kinds of faults there were since the last start
    faults, writes  \* ghosts: how many faults and operations there were

lists == <<dirs, projects, db>>
copies == <<psnap, dsnap, served>>
writing == <<writer, entry>>
watcher == <<started, prepared, watched>>
restart == <<token, restarter>>
bounds == <<broken, faults, writes>>
vars == <<dirs, projects, db, psnap, dsnap, served, writer, entry, started,
          prepared, watched, token, restarter, broken, faults, writes>>

Names == [base : Bases, suffix : 0..(Cardinality(Paths) + MaxWrites)]
Directory == [name : Names, path : Paths, filter : Filters]
Project == [name : Names, path : Paths]

ASSUME NoneAssumption == None \notin Directory

ProjectOf(d) == [name |-> d.name, path |-> d.path]
ProjectsOf(s) == [i \in DOMAIN s |-> ProjectOf(s[i])]
PathsOf(s) == {s[i].path : i \in DOMAIN s}
NamesOf(s) == {s[i].name : i \in DOMAIN s}
Without(s, k) == [i \in 1..(Len(s) - 1) |-> IF i < k THEN s[i] ELSE s[i + 1]]

\* resolveProjects, in whatever order the rows come.
Loaded(rows) ==
    {s \in [1..Cardinality(rows) -> rows] : \A r \in rows : \E i \in DOMAIN s : s[i] = r}

\* New, from the rows that are there.
Fresh(rows) ==
    /\ dirs' \in Loaded(rows)
    /\ projects' = ProjectsOf(dirs')
    /\ psnap' = projects' /\ dsnap' = dirs' /\ served' = projects'
    /\ writer' = "idle" /\ entry' = None
    /\ started' = FALSE /\ prepared' = dirs' /\ watched' = {}
    /\ token' = FALSE /\ restarter' = "wait"

Init ==
    /\ dirs = <<>> /\ projects = <<>> /\ db = {}
    /\ psnap = <<>> /\ dsnap = <<>> /\ served = <<>>
    /\ writer = "idle" /\ entry = None
    /\ started = FALSE /\ prepared = <<>> /\ watched = {}
    /\ token = FALSE /\ restarter = "wait"
    /\ broken = {} /\ faults = 0 /\ writes = 0

Fault(kind) ==
    /\ kind \in Faults
    /\ faults < MaxFaults
    /\ faults' = faults + 1
    /\ broken' = broken \cup {kind}

\* The process dies and starts again.
Crash ==
    /\ "crash" \in Faults
    /\ faults < MaxFaults
    /\ faults' = faults + 1
    /\ broken' = broken \cap {"delete"}
    /\ Fresh(db)
    /\ UNCHANGED <<db, writes>>

-----------------------------------------------------------------------------
(* AddProject, EditProject and RemoveProject, each under rebuildMu.  The     *)
(* writer stops between two steps wherever a reader could tell.              *)

Idle == writer = "idle"

BeginWrite ==
    /\ Idle
    /\ writes < MaxWrites
    /\ writes' = writes + 1

\* uniqueProjectName: the first suffix that is free.
UniqueName_AsGiven(base) == {[base |-> base, suffix |-> 0]}  \* mutant
UniqueName(base) ==
    {n \in Names \ NamesOf(projects) :
        /\ n.base = base
        /\ \A k \in 0..(n.suffix - 1) : [n EXCEPT !.suffix = k] \in NamesOf(projects)}

SaveProjectFile_Ignore(d) ==  \* mutant: INSERT OR IGNORE
    db' = IF \E r \in db : r.name = d.name THEN db ELSE db \cup {d}

\* SaveProjectFile replaces the row of that name.
SaveProjectFile(d) == db' = {r \in db : r.name # d.name} \cup {d}

\* AddProject up to SaveProjectFile.
AddProject(p, base, filter) ==
    /\ BeginWrite
    /\ p \notin PathsOf(projects)
    /\ \E name \in UniqueName(base) :
        LET d == [name |-> name, path |-> p, filter |-> filter]
        IN  \/ /\ SaveProjectFile(d)
               /\ writer' = "add"
               /\ entry' = d
               /\ UNCHANGED <<broken, faults>>
            \/ /\ Fault("save")
               /\ UNCHANGED <<db, writing>>
    /\ UNCHANGED <<dirs, projects, copies, watcher, restart>>

\* EditProject up to SaveProjectFile.
EditProject(i, filter) ==
    /\ BeginWrite
    /\ i \in DOMAIN projects
    /\ LET d == [name |-> projects[i].name, path |-> projects[i].path, filter |-> filter]
       IN  \/ /\ SaveProjectFile(d)
              /\ writer' = "edit"
              /\ entry' = d
              /\ UNCHANGED <<broken, faults>>
           \/ /\ Fault("save")
              /\ UNCHANGED <<db, writing>>
    /\ UNCHANGED <<dirs, projects, copies, watcher, restart>>

\* RemoveProject up to symbolIndex.Save; a failed deletion of the chunks ends it.
RemoveProject(i) ==
    /\ BeginWrite
    /\ i \in DOMAIN projects
    /\ \/ /\ writer' = "remove"
          /\ entry' = dirs[i]
          /\ UNCHANGED <<broken, faults>>
       \/ /\ Fault("purge")
          /\ UNCHANGED writing
    /\ UNCHANGED <<lists, copies, watcher, restart>>

\* A slice s of the array that is now written in place.
SeenThrough(s, written) ==
    [i \in DOMAIN s |-> IF i \in DOMAIN written THEN written[i] ELSE s[i]]

\* The lists are updated, and updateSnapshots stores the first copy.  Removal
\* shifts the array that the server's list is a slice of; the list the watcher
\* was made with is a slice of the same array unless that was reallocated.
StoreProjects ==
    /\ writer \in {"add", "edit", "remove"}
    /\ \/ /\ writer = "add"
          /\ dirs' = Append(dirs, entry)
       \/ \E i \in DOMAIN projects :
          /\ writer \in {"edit", "remove"}
          /\ projects[i].name = entry.name
          /\ dirs' = IF writer = "edit" THEN [dirs EXCEPT ![i] = entry] ELSE Without(dirs, i)
    /\ projects' = ProjectsOf(dirs')
    /\ psnap' = projects'
    /\ served' = SeenThrough(served, projects')
    /\ prepared' \in {prepared, SeenThrough(prepared, dirs')}
    /\ writer' = IF writer = "remove" THEN "removed" ELSE "stored"
    /\ UNCHANGED <<db, dsnap, entry, started, watched, restart, bounds>>

\* updateSnapshots stores the second copy.
StoreDirs ==
    /\ writer \in {"stored", "removed"}
    /\ dsnap' = dirs
    /\ writer' = IF writer = "removed" THEN "delete" ELSE "serve"
    /\ UNCHANGED <<lists, psnap, served, entry, watcher, restart, bounds>>

\* RemoveProject: DeleteProjectFile.  When that fails, the rest is not done.
DeleteProjectFile ==
    /\ writer = "delete"
    /\ \/ /\ db' = {r \in db : r.name # entry.name}
          /\ writer' = "serve"
          /\ UNCHANGED <<entry, broken, faults>>
       \/ /\ Fault("delete")
          /\ writer' = "idle"
          /\ entry' = None
          /\ UNCHANGED db
    /\ UNCHANGED <<dirs, projects, copies, watcher, restart, writes>>

\* ReloadProjects and scheduleWatcherRestart.
Serve_NoSignal ==  \* mutant: nobody is told
    /\ writer = "serve"
    /\ served' = projects
    /\ writer' = "idle"
    /\ entry' = None
    /\ UNCHANGED <<lists, psnap, dsnap, watcher, restart, bounds>>

Serve ==
    /\ writer = "serve"
    /\ served' = projects
    /\ token' = TRUE
    /\ writer' = "idle"
    /\ entry' = None
    /\ UNCHANGED <<lists, psnap, dsnap, watcher, restarter, bounds>>

-----------------------------------------------------------------------------
(* The watcher and its restarter *)

\* Run starts the watcher, under rebuildMu, after the initial index.
StartWatcher ==
    /\ Idle
    /\ ~started
    /\ started' = TRUE
    /\ watched' = PathsOf(prepared)
    /\ UNCHANGED <<lists, copies, writing, prepared, restart, bounds>>

\* runWatcherRestarter takes a signal: the first one, or one more, which starts
\* the quiet period again.
TakeSignal ==
    /\ token
    /\ restarter \in {"wait", "debounce"}
    /\ token' = FALSE
    /\ restarter' = "debounce"
    /\ UNCHANGED <<lists, copies, writing, watcher, bounds>>

\* The quiet period is over.
TimerFires ==
    /\ restarter = "debounce"
    /\ restarter' = "lock"
    /\ UNCHANGED <<lists, copies, writing, watcher, token, bounds>>

RestartWatcher_OldList ==  \* mutant: the old watcher is started again
    /\ restarter = "lock"
    /\ Idle
    /\ restarter' = "wait"
    /\ watched' = IF started THEN PathsOf(prepared) ELSE {}
    /\ UNCHANGED <<lists, copies, writing, started, prepared, token, bounds>>

\* restartWatcher under rebuildMu: a new watcher, started if the old one was.
RestartWatcher ==
    /\ restarter = "lock"
    /\ Idle
    /\ restarter' = "wait"
    /\ prepared' = dirs
    /\ \/ /\ watched' = IF started THEN PathsOf(dirs) ELSE {}
          /\ UNCHANGED <<broken, faults>>
       \/ /\ started
          /\ Fault("watch")
          /\ watched' = {}
    /\ UNCHANGED <<lists, copies, writing, started, token, writes>>

WriterStep == StoreProjects \/ StoreDirs \/ DeleteProjectFile \/ Serve
RestarterStep == TakeSignal \/ TimerFires \/ RestartWatcher

Next ==
    \/ \E p \in Paths, base \in Bases, filter \in Filters : AddProject(p, base, filter)
    \/ \E i \in 1..Cardinality(Paths), filter \in Filters : EditProject(i, filter)
    \/ \E i \in 1..Cardinality(Paths) : RemoveProject(i)
    \/ WriterStep
    \/ StartWatcher \/ RestarterStep
    \/ Crash

\* An operation that has begun returns, timers fire, and a goroutine that waits
\* for rebuildMu gets it: Go's mutexes are handed over when one waits for long.
Fairness == WF_vars(WriterStep) /\ WF_vars(RestarterStep)

Spec == Init /\ [][Next]_vars /\ Fairness

-----------------------------------------------------------------------------
(* Properties *)

TypeOK ==
    /\ dirs \in Seq(Directory) /\ dsnap \in Seq(Directory) /\ prepared \in Seq(Directory)
    /\ projects \in Seq(Project) /\ psnap \in Seq(Project) /\ served \in Seq(Project)
    /\ db \subseteq Directory
    /\ writer \in {"idle", "add", "edit", "remove", "stored", "removed", "delete", "serve"}
    /\ Idle <=> entry = None
    /\ ~Idle => entry \in Directory
    /\ started \in BOOLEAN /\ token \in BOOLEAN
    /\ watched \subseteq Paths
    /\ restarter \in {"wait", "debounce", "lock"}
    /\ broken \subseteq Faults /\ faults \in Nat /\ writes \in Nat

\* No two projects have one name, whatever names are asked for, and none is
\* registered twice, unless a row that could not be deleted comes back
\* (AddProject looks at the paths in memory only, the table is keyed by name).
ProjectsAreDistinct ==
    \A i, j \in DOMAIN projects : i # j =>
        /\ projects[i].name # projects[j].name
        /\ "delete" \notin broken => projects[i].path # projects[j].path

\* When no operation is under way, the database, the copies for readers and the
\* server's list are the current ones, also after operations that failed or were
\* cut short by a crash; only a failed DeleteProjectFile leaves them apart.
ListsAgree ==
    Idle /\ "delete" \notin broken =>
        /\ {dirs[i] : i \in DOMAIN dirs} = db
        /\ psnap = projects /\ dsnap = dirs /\ served = projects

\* Signals coalesce in a channel of capacity one and in the quiet period; even so
\* a watcher that does not watch the current directories has a restart to come,
\* also when it was started with a list that was replaced meanwhile.
RestartPending ==
    started /\ Idle /\ watched # PathsOf(dirs) /\ broken \cap {"delete", "watch"} = {}
        => token \/ restarter # "wait"

\* And it does come: the watcher ends up with the current directories.
WatcherFollows ==
    started /\ watched # PathsOf(dirs)
        ~> \/ watched = PathsOf(dirs)
           \/ ~started
           \/ broken \cap {"delete", "watch"} # {}

=============================================================================
