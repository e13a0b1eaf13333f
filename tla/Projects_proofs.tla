--------------------------- MODULE Projects_proofs ---------------------------
(***************************************************************************)
(* What Projects promises for any paths, names and configurations and any  *)
(* number of operations and faults: types, distinct projects, lists that   *)
(* agree between operations, and a restart of the watcher that is due.     *)
(***************************************************************************)
EXTENDS Projects, FiniteSetTheorems, TLAPS

-----------------------------------------------------------------------------
(* Projects and their lists *)

LEMMA ProjectOfType ==
    ASSUME NEW d \in Directory
    PROVE  ProjectOf(d) \in Project /\ ProjectOf(d).name = d.name /\ ProjectOf(d).path = d.path
  BY DEF Directory, Project, ProjectOf

LEMMA DirectoryFields ==
    ASSUME NEW d \in Directory
    PROVE  d.name \in Names /\ d.path \in Paths /\ d.filter \in Filters
  BY DEF Directory

LEMMA ProjectsOfType ==
    ASSUME NEW s \in Seq(Directory)
    PROVE  /\ ProjectsOf(s) \in Seq(Project) /\ DOMAIN ProjectsOf(s) = DOMAIN s
           /\ \A i \in DOMAIN s : ProjectsOf(s)[i].name = s[i].name /\ ProjectsOf(s)[i].path = s[i].path
<1>1. \A i \in DOMAIN s : s[i] \in Directory
  OBVIOUS
<1>2. \A i \in DOMAIN s : /\ ProjectOf(s[i]) \in Project
                          /\ ProjectOf(s[i]).name = s[i].name /\ ProjectOf(s[i]).path = s[i].path
  BY <1>1, ProjectOfType
<1>3. DOMAIN s = 1..Len(s) /\ Len(s) \in Nat
  OBVIOUS
<1>4. ProjectsOf(s) \in [1..Len(s) -> Project]
  BY <1>2, <1>3 DEF ProjectsOf
<1>5. ProjectsOf(s) \in Seq(Project)
  BY <1>3, <1>4
<1> QED
  BY <1>2, <1>5 DEF ProjectsOf

LEMMA WithoutType ==
    ASSUME NEW S, NEW s \in Seq(S), NEW k \in DOMAIN s
    PROVE  /\ Without(s, k) \in Seq(S)
           /\ Len(Without(s, k)) = Len(s) - 1
           /\ \A i \in DOMAIN Without(s, k) :
                 Without(s, k)[i] = IF i < k THEN s[i] ELSE s[i + 1]
<1>1. Len(s) \in Nat /\ k \in 1..Len(s)
  OBVIOUS
<1>2. \A i \in 1..(Len(s) - 1) : i \in 1..Len(s) /\ i + 1 \in 1..Len(s)
  BY <1>1
<1>3. Without(s, k) \in [1..(Len(s) - 1) -> S]
  BY <1>2 DEF Without
<1> QED
  BY <1>1, <1>3 DEF Without

LEMMA SeenThroughType ==
    ASSUME NEW S, NEW s \in Seq(S), NEW w \in Seq(S)
    PROVE  SeenThrough(s, w) \in Seq(S)
<1>1. Len(s) \in Nat /\ DOMAIN s = 1..Len(s)
  OBVIOUS
<1>2. SeenThrough(s, w) \in [1..Len(s) -> S]
  BY <1>1 DEF SeenThrough
<1> QED
  BY <1>1, <1>2

\* New reads every row once.
LEMMA LoadedRows ==
    ASSUME NEW rows, IsFiniteSet(rows), rows \subseteq Directory, NEW s \in Loaded(rows)
    PROVE  /\ s \in Seq(Directory)
           /\ {s[i] : i \in DOMAIN s} = rows
           /\ \A i, j \in DOMAIN s : i # j => s[i] # s[j]
<1> DEFINE n == Cardinality(rows)
<1>1. n \in Nat
  BY FS_CardinalityType
<1>2. s \in [1..n -> rows] /\ \A r \in rows : \E i \in 1..n : s[i] = r
  BY DEF Loaded
<1>3. s \in Surjection(1..n, rows)
  BY <1>2 DEF Surjection
<1>4. IsFiniteSet(1..n) /\ Cardinality(1..n) = n
  BY <1>1, FS_Interval
<1>5. s \in Injection(1..n, rows)
  BY <1>3, <1>4, FS_Surjection
<1>6. \A i, j \in 1..n : i # j => s[i] # s[j]
  BY <1>5 DEF Injection, IsInjective
<1> HIDE DEF n
<1>7. s \in Seq(Directory) /\ DOMAIN s = 1..n
  BY <1>1, <1>2
<1> QED
  BY <1>2, <1>6, <1>7

-----------------------------------------------------------------------------
(* Types *)

\* The lists are well typed, a.projects tells of a.dirs, and the table is finite.
Lists ==
    /\ dirs \in Seq(Directory) /\ dsnap \in Seq(Directory) /\ prepared \in Seq(Directory)
    /\ projects \in Seq(Project) /\ psnap \in Seq(Project) /\ served \in Seq(Project)
    /\ projects = ProjectsOf(dirs)
    /\ db \subseteq Directory /\ IsFiniteSet(db)
    /\ watched \subseteq Paths

Flags ==
    /\ writer \in {"idle", "add", "edit", "remove", "stored", "removed", "delete", "serve"}
    /\ (writer = "idle" => entry = None) /\ (writer # "idle" => entry \in Directory)
    /\ started \in BOOLEAN /\ token \in BOOLEAN
    /\ restarter \in {"wait", "debounce", "lock"}
    /\ broken \subseteq Faults /\ faults \in Nat /\ writes \in Nat

Typed == Lists /\ Flags

LEMMA TypedIsTypeOK == Typed => TypeOK
  BY NoneAssumption DEF Typed, Lists, Flags, TypeOK, Idle

LEMMA PathsOfType == ASSUME NEW s \in Seq(Directory) PROVE PathsOf(s) \subseteq Paths
<1>1. \A i \in DOMAIN s : s[i] \in Directory
  OBVIOUS
<1> QED
  BY <1>1, DirectoryFields DEF PathsOf

LEMMA InitTyped == Init => Typed
<1> SUFFICES ASSUME Init PROVE Typed
  OBVIOUS
<1>1. projects = ProjectsOf(dirs)
  BY DEF Init, ProjectsOf
<1>2. IsFiniteSet(db)
  BY FS_EmptySet DEF Init
<1>3. Lists
  BY <1>1, <1>2 DEF Init, Lists
<1>4. started \in BOOLEAN /\ token \in BOOLEAN
  BY DEF Init
<1>5. Flags
  BY <1>4 DEF Init, Flags
<1> QED
  BY <1>3, <1>5 DEF Typed

\* The row that SaveProjectFile writes.
LEMMA SaveType ==
    ASSUME Lists, NEW d \in Directory, SaveProjectFile(d)
    PROVE  db' \subseteq Directory /\ IsFiniteSet(db')
<1> DEFINE kept == {r \in db : r.name # d.name}
<1>1. IsFiniteSet(kept)
  BY FS_Subset DEF Lists
<1>2. IsFiniteSet(kept \cup {d})
  BY <1>1, FS_AddElement
<1> QED
  BY <1>2 DEF SaveProjectFile, Lists

\* The project that AddProject makes.
LEMMA AddedType ==
    ASSUME NEW p \in Paths, NEW base \in Bases, NEW filter \in Filters, NEW name \in UniqueName(base)
    PROVE  /\ [name |-> name, path |-> p, filter |-> filter] \in Directory
           /\ name \notin NamesOf(projects)
  BY DEF UniqueName, Directory

\* The project that EditProject leaves in the place of another.
LEMMA EditedType ==
    ASSUME Lists, NEW i \in DOMAIN projects, NEW filter \in Filters
    PROVE  [name |-> projects[i].name, path |-> projects[i].path, filter |-> filter] \in Directory
<1>1. projects[i] \in Project
  BY DEF Lists
<1> QED
  BY <1>1 DEF Project, Directory

LEMMA FaultType == ASSUME NEW kind, Fault(kind), Flags PROVE broken' \subseteq Faults /\ faults' \in Nat
  BY DEF Fault, Flags

LEMMA NextTyped == Typed /\ [Next]_vars => Typed'
<1> SUFFICES ASSUME Typed, [Next]_vars PROVE Typed'
  OBVIOUS
<1> USE DEF lists, copies, writing, watcher, restart, bounds
<1>1. ASSUME NEW p \in Paths, NEW base \in Bases, NEW filter \in Filters, AddProject(p, base, filter)
      PROVE  Typed'
  <2>1. PICK name \in UniqueName(base) :
          LET d == [name |-> name, path |-> p, filter |-> filter]
          IN  \/ /\ SaveProjectFile(d)
                 /\ writer' = "add"
                 /\ entry' = d
                 /\ UNCHANGED <<broken, faults>>
              \/ /\ Fault("save")
                 /\ UNCHANGED <<db, writing>>
    BY <1>1 DEF AddProject
  <2> DEFINE d == [name |-> name, path |-> p, filter |-> filter]
  <2>2. d \in Directory
    BY AddedType
  <2> HIDE DEF d
  <2>3. /\ writes' = writes + 1
        /\ UNCHANGED <<dirs, projects, copies, watcher, restart>>
    BY <1>1 DEF AddProject, BeginWrite
  <2>4. CASE SaveProjectFile(d) /\ writer' = "add" /\ entry' = d /\ UNCHANGED <<broken, faults>>
    <3>1. Lists'
      BY <2>2, <2>3, <2>4, SaveType DEF Typed, Lists
    <3>2. Flags'
      BY <2>2, <2>3, <2>4 DEF Typed, Flags
    <3> QED
      BY <3>1, <3>2 DEF Typed
  <2>5. CASE Fault("save") /\ UNCHANGED <<db, writing>>
    <3>1. Lists'
      BY <2>3, <2>5 DEF Typed, Lists
    <3>2. Flags'
      BY <2>3, <2>5, FaultType DEF Typed, Flags
    <3> QED
      BY <3>1, <3>2 DEF Typed
  <2> QED
    BY <2>1, <2>4, <2>5 DEF d
<1>2. ASSUME NEW i \in 1..Cardinality(Paths), NEW filter \in Filters, EditProject(i, filter)
      PROVE  Typed'
  <2> DEFINE d == [name |-> projects[i].name, path |-> projects[i].path, filter |-> filter]
  <2>1. /\ writes' = writes + 1 /\ i \in DOMAIN projects
        /\ UNCHANGED <<dirs, projects, copies, watcher, restart>>
    BY <1>2 DEF EditProject, BeginWrite
  <2>2. d \in Directory
    BY <2>1, EditedType DEF Typed
  <2>3. \/ SaveProjectFile(d) /\ writer' = "edit" /\ entry' = d /\ UNCHANGED <<broken, faults>>
        \/ Fault("save") /\ UNCHANGED <<db, writing>>
    BY <1>2 DEF EditProject
  <2> HIDE DEF d
  <2>4. CASE SaveProjectFile(d) /\ writer' = "edit" /\ entry' = d /\ UNCHANGED <<broken, faults>>
    <3>1. Lists'
      BY <2>1, <2>2, <2>4, SaveType DEF Typed, Lists
    <3>2. Flags'
      BY <2>1, <2>2, <2>4 DEF Typed, Flags
    <3> QED
      BY <3>1, <3>2 DEF Typed
  <2>5. CASE Fault("save") /\ UNCHANGED <<db, writing>>
    <3>1. Lists'
      BY <2>1, <2>5 DEF Typed, Lists
    <3>2. Flags'
      BY <2>1, <2>5, FaultType DEF Typed, Flags
    <3> QED
      BY <3>1, <3>2 DEF Typed
  <2> QED
    BY <2>3, <2>4, <2>5
<1>3. ASSUME NEW i \in 1..Cardinality(Paths), RemoveProject(i) PROVE Typed'
  <2>1. i \in DOMAIN dirs
    BY <1>3, ProjectsOfType DEF RemoveProject, Typed, Lists
  <2>2. dirs[i] \in Directory
    BY <2>1 DEF Typed, Lists
  <2>3. Lists'
    BY <1>3 DEF RemoveProject, Typed, Lists
  <2>4. Flags'
    BY <1>3, <2>2, FaultType DEF RemoveProject, BeginWrite, Typed, Flags
  <2> QED
    BY <2>3, <2>4 DEF Typed
<1>4. ASSUME StoreProjects PROVE Typed'
  <2>1. entry \in Directory
    BY <1>4 DEF StoreProjects, Typed, Flags
  <2>2. dirs' \in Seq(Directory)
    <3>1. CASE dirs' = Append(dirs, entry)
      BY <2>1, <3>1 DEF Typed, Lists
    <3>2. CASE \E i \in DOMAIN projects : dirs' = [dirs EXCEPT ![i] = entry] \/ dirs' = Without(dirs, i)
      <4>1. PICK i \in DOMAIN projects : dirs' = [dirs EXCEPT ![i] = entry] \/ dirs' = Without(dirs, i)
        BY <3>2
      <4>2. i \in DOMAIN dirs
        BY ProjectsOfType DEF Typed, Lists
      <4>3. CASE dirs' = [dirs EXCEPT ![i] = entry]
        BY <2>1, <4>2, <4>3 DEF Typed, Lists
      <4>4. CASE dirs' = Without(dirs, i)
        BY <4>2, <4>4, WithoutType DEF Typed, Lists
      <4> QED
        BY <4>1, <4>3, <4>4
    <3> QED
      BY <1>4, <3>1, <3>2 DEF StoreProjects
  <2>3. projects' = ProjectsOf(dirs') /\ projects' \in Seq(Project)
    BY <1>4, <2>2, ProjectsOfType DEF StoreProjects
  <2>4. served' \in Seq(Project) /\ prepared' \in Seq(Directory)
    BY <1>4, <2>2, <2>3, SeenThroughType DEF StoreProjects, Typed, Lists
  <2>5. Lists'
    BY <1>4, <2>2, <2>3, <2>4 DEF StoreProjects, Typed, Lists
  <2>6. Flags'
    BY <1>4, <2>1 DEF StoreProjects, Typed, Flags
  <2> QED
    BY <2>5, <2>6 DEF Typed
<1>5. ASSUME StoreDirs PROVE Typed'
  <2>1. Lists'
    BY <1>5 DEF StoreDirs, Typed, Lists
  <2>2. Flags'
    BY <1>5 DEF StoreDirs, Typed, Flags
  <2> QED
    BY <2>1, <2>2 DEF Typed
<1>6. ASSUME DeleteProjectFile PROVE Typed'
  <2>1. IsFiniteSet({r \in db : r.name # entry.name})
    BY FS_Subset DEF Typed, Lists
  <2>2. Lists'
    BY <1>6, <2>1 DEF DeleteProjectFile, Typed, Lists
  <2>3. Flags'
    BY <1>6, FaultType DEF DeleteProjectFile, Typed, Flags
  <2> QED
    BY <2>2, <2>3 DEF Typed
<1>7. ASSUME Serve PROVE Typed'
  <2>1. Lists'
    BY <1>7 DEF Serve, Typed, Lists
  <2>2. token' \in BOOLEAN
    BY <1>7 DEF Serve
  <2>3. Flags'
    BY <1>7, <2>2 DEF Serve, Typed, Flags
  <2> QED
    BY <2>1, <2>3 DEF Typed
<1>8. ASSUME StartWatcher PROVE Typed'
  <2>1. Lists'
    BY <1>8, PathsOfType DEF StartWatcher, Typed, Lists
  <2>2. started' \in BOOLEAN
    BY <1>8 DEF StartWatcher
  <2>3. Flags'
    BY <1>8, <2>2 DEF StartWatcher, Typed, Flags
  <2> QED
    BY <2>1, <2>3 DEF Typed
<1>9. ASSUME TakeSignal \/ TimerFires PROVE Typed'
  <2>1. Lists'
    BY <1>9 DEF TakeSignal, TimerFires, Typed, Lists
  <2>2. token' \in BOOLEAN
    BY <1>9 DEF TakeSignal, TimerFires, Typed, Flags
  <2>3. Flags'
    BY <1>9, <2>2 DEF TakeSignal, TimerFires, Typed, Flags
  <2> QED
    BY <2>1, <2>3 DEF Typed
<1>10. ASSUME RestartWatcher PROVE Typed'
  <2>1. Lists'
    BY <1>10, PathsOfType DEF RestartWatcher, Typed, Lists
  <2>2. Flags'
    BY <1>10, FaultType DEF RestartWatcher, Typed, Flags
  <2> QED
    BY <2>1, <2>2 DEF Typed
<1>11. ASSUME Crash PROVE Typed'
  <2>1. dirs' \in Seq(Directory)
    BY <1>11, LoadedRows DEF Crash, Fresh, Typed, Lists
  <2>2. projects' = ProjectsOf(dirs') /\ projects' \in Seq(Project)
    BY <1>11, <2>1, ProjectsOfType DEF Crash, Fresh
  <2>3. Lists'
    BY <1>11, <2>1, <2>2 DEF Crash, Fresh, Typed, Lists
  <2>4. started' \in BOOLEAN /\ token' \in BOOLEAN
    BY <1>11 DEF Crash, Fresh
  <2>5. Flags'
    BY <1>11, <2>4 DEF Crash, Fresh, Typed, Flags
  <2> QED
    BY <2>3, <2>5 DEF Typed
<1>12. ASSUME UNCHANGED vars PROVE Typed'
  <2>1. Lists'
    BY <1>12 DEF vars, Typed, Lists
  <2>2. Flags'
    BY <1>12 DEF vars, Typed, Flags
  <2> QED
    BY <2>1, <2>2 DEF Typed
<1> QED
  BY <1>1, <1>2, <1>3, <1>4, <1>5, <1>6, <1>7, <1>8, <1>9, <1>10, <1>11, <1>12
     DEF Next, WriterStep, RestarterStep

LEMMA AlwaysTyped == Spec => []Typed
  BY InitTyped, NextTyped, PTL DEF Spec

\* Every reachable state has the types of the Go declarations and of the table.
THEOREM TypeCorrect == Spec => []TypeOK
  BY AlwaysTyped, TypedIsTypeOK, PTL

-----------------------------------------------------------------------------
(* Lists of projects that are told apart *)

RowsOf(s) == {s[i] : i \in DOMAIN s}
OnceByName(s) == \A i, j \in DOMAIN s : s[i].name = s[j].name => i = j
OnceByPath(s) == \A i, j \in DOMAIN s : s[i].path = s[j].path => i = j
NamedApart(S) == \A r, t \in S : r.name = t.name => r = t
PlacedApart(S) == \A r, t \in S : r.path = t.path => r = t

LEMMA Appended ==
    ASSUME NEW s \in Seq(Directory), NEW d \in Directory
    PROVE  /\ RowsOf(Append(s, d)) = RowsOf(s) \cup {d}
           /\ OnceByName(s) /\ (\A i \in DOMAIN s : s[i].name # d.name) => OnceByName(Append(s, d))
           /\ OnceByPath(s) /\ (\A i \in DOMAIN s : s[i].path # d.path) => OnceByPath(Append(s, d))
<1> DEFINE t == Append(s, d)
<1>1. /\ DOMAIN s = 1..Len(s) /\ Len(s) \in Nat
      /\ DOMAIN t = 1..(Len(s) + 1)
      /\ \A i \in DOMAIN s : t[i] = s[i]
      /\ t[Len(s) + 1] = d
  OBVIOUS
<1> HIDE DEF t
<1>2. \A i \in DOMAIN t : i \in DOMAIN s \/ i = Len(s) + 1
  BY <1>1
<1>3. \A i \in DOMAIN s : i \in DOMAIN t
  BY <1>1
<1>4. Len(s) + 1 \in DOMAIN t
  BY <1>1
<1>5. RowsOf(t) = RowsOf(s) \cup {d}
  BY <1>1, <1>2, <1>3, <1>4, Zenon DEF RowsOf
<1>6. OnceByName(s) /\ (\A i \in DOMAIN s : s[i].name # d.name) => OnceByName(t)
  BY <1>1, <1>2, Zenon DEF OnceByName
<1>7. OnceByPath(s) /\ (\A i \in DOMAIN s : s[i].path # d.path) => OnceByPath(t)
  BY <1>1, <1>2, Zenon DEF OnceByPath
<1> QED
  BY <1>5, <1>6, <1>7 DEF t

LEMMA Replaced ==
    ASSUME NEW s \in Seq(Directory), NEW d \in Directory, NEW k \in DOMAIN s,
           s[k].name = d.name, OnceByName(s)
    PROVE  /\ RowsOf([s EXCEPT ![k] = d]) = {r \in RowsOf(s) : r.name # d.name} \cup {d}
           /\ OnceByName([s EXCEPT ![k] = d])
           /\ s[k].path = d.path /\ OnceByPath(s) => OnceByPath([s EXCEPT ![k] = d])
<1> DEFINE t == [s EXCEPT ![k] = d]
<1>1. DOMAIN t = DOMAIN s /\ t[k] = d /\ \A i \in DOMAIN s : i # k => t[i] = s[i]
  OBVIOUS
<1> HIDE DEF t
<1>2. \A i \in DOMAIN s : i # k => s[i].name # d.name
  BY DEF OnceByName
<1>3. RowsOf(t) = {r \in RowsOf(s) : r.name # d.name} \cup {d}
  BY <1>1, <1>2 DEF RowsOf
<1>4. OnceByName(t)
  BY <1>1 DEF OnceByName
<1>5. s[k].path = d.path /\ OnceByPath(s) => OnceByPath(t)
  BY <1>1 DEF OnceByPath
<1> QED
  BY <1>3, <1>4, <1>5 DEF t

LEMMA Shortened ==
    ASSUME NEW s \in Seq(Directory), NEW k \in DOMAIN s, OnceByName(s)
    PROVE  /\ RowsOf(Without(s, k)) = RowsOf(s) \ {s[k]}
           /\ OnceByName(Without(s, k))
           /\ \A i \in DOMAIN Without(s, k) : Without(s, k)[i].name # s[k].name
           /\ OnceByPath(s) => OnceByPath(Without(s, k))
<1> DEFINE t == Without(s, k)
           at(i) == IF i < k THEN i ELSE i + 1
<1>1. /\ DOMAIN s = 1..Len(s) /\ Len(s) \in Nat /\ k \in 1..Len(s)
      /\ t \in Seq(Directory) /\ Len(t) = Len(s) - 1 /\ DOMAIN t = 1..(Len(s) - 1)
      /\ \A i \in DOMAIN t : t[i] = IF i < k THEN s[i] ELSE s[i + 1]
  BY WithoutType
<1> HIDE DEF t
<1>2. \A i \in DOMAIN t : t[i] = s[at(i)] /\ at(i) \in DOMAIN s /\ at(i) # k
  BY <1>1
<1>3. \A i, j \in DOMAIN t : at(i) = at(j) => i = j
  BY <1>1
<1>4. \A i \in DOMAIN s : i # k => \E j \in DOMAIN t : at(j) = i
  <2> SUFFICES ASSUME NEW i \in DOMAIN s, i # k PROVE \E j \in DOMAIN t : at(j) = i
    OBVIOUS
  <2>1. CASE i < k
    BY <1>1, <2>1
  <2>2. CASE i > k
    <3>1. i - 1 \in DOMAIN t /\ at(i - 1) = i
      BY <1>1, <2>2
    <3> QED
      BY <3>1
  <2> QED
    BY <1>1, <2>1, <2>2
<1> HIDE DEF at
<1>5. \A i \in DOMAIN s : i # k => s[i].name # s[k].name
  BY DEF OnceByName
<1>6. \A i \in DOMAIN s : i # k => s[i] # s[k]
  BY <1>5
<1>7. RowsOf(t) = RowsOf(s) \ {s[k]}
  <2>1. RowsOf(t) \subseteq RowsOf(s) \ {s[k]}
    BY <1>2, <1>6, Zenon DEF RowsOf
  <2>2. ASSUME NEW r \in RowsOf(s), r # s[k] PROVE r \in RowsOf(t)
    <3>1. PICK i \in DOMAIN s : r = s[i]
      BY DEF RowsOf
    <3>2. PICK j \in DOMAIN t : at(j) = i
      BY <1>4, <2>2, <3>1
    <3>3. r = t[j]
      BY <1>2, <3>1, <3>2
    <3> QED
      BY <3>3 DEF RowsOf
  <2> QED
    BY <2>1, <2>2
<1>8. OnceByName(t)
  BY <1>2, <1>3, Zenon DEF OnceByName
<1>9. \A i \in DOMAIN t : t[i].name # s[k].name
  BY <1>2, <1>5
<1>10. OnceByPath(s) => OnceByPath(t)
  BY <1>2, <1>3, Zenon DEF OnceByPath
<1> QED
  BY <1>7, <1>8, <1>9, <1>10 DEF t

-----------------------------------------------------------------------------
(* Distinct projects, and lists that agree *)

\* The table is keyed by name, and so are the lists.
ByName == NamedApart(db) /\ OnceByName(dirs)

\* What an operation under way knows of the project it is about.
EntryIs ==
    /\ writer = "add" => \A i \in DOMAIN dirs : dirs[i].name # entry.name /\ dirs[i].path # entry.path
    /\ writer = "edit" => \E i \in DOMAIN dirs : dirs[i].name = entry.name /\ dirs[i].path = entry.path
    /\ writer = "remove" => entry \in RowsOf(dirs)
    /\ writer \in {"removed", "delete"} => \A i \in DOMAIN dirs : dirs[i].name # entry.name

\* How the table relates to the list at every point of an operation.
DbFollows ==
    /\ OnceByPath(dirs) /\ PlacedApart(db)
    /\ writer \in {"idle", "remove", "stored", "serve"} => db = RowsOf(dirs)
    /\ writer \in {"add", "removed", "delete"} => db = RowsOf(dirs) \cup {entry}
    /\ writer = "edit" => db = {r \in RowsOf(dirs) : r.name # entry.name} \cup {entry}

\* How the copies relate to the lists at every point of an operation.
CopiesFollow ==
    /\ psnap = projects
    /\ writer \notin {"stored", "removed"} => dsnap = dirs
    /\ "delete" \notin broken /\ writer \in {"idle", "add", "edit", "remove"} => served = projects

Told == ByName /\ EntryIs /\ ("delete" \notin broken => DbFollows) /\ CopiesFollow

LEMMA ToldInit == Init => Told
  BY DEF Init, Told, ByName, EntryIs, DbFollows, CopiesFollow, NamedApart, PlacedApart,
         OnceByName, OnceByPath, RowsOf

\* a.projects tells the name and the path of every entry of a.dirs.
LEMMA ProjectsTellDirs ==
    ASSUME Typed
    PROVE  /\ DOMAIN projects = DOMAIN dirs
           /\ \A i \in DOMAIN dirs : projects[i].name = dirs[i].name /\ projects[i].path = dirs[i].path
  BY ProjectsOfType DEF Typed, Lists

\* SaveProjectFile keeps the names of the rows apart.
LEMMA SavedByName ==
    ASSUME NEW d, NamedApart(db), SaveProjectFile(d)
    PROVE  NamedApart(db')
  BY DEF NamedApart, SaveProjectFile

LEMMA NextTold == Typed /\ Typed' /\ Told /\ [Next]_vars => Told'
<1> SUFFICES ASSUME Typed, Typed', Told, [Next]_vars PROVE Told'
  OBVIOUS
<1> USE DEF lists, copies, writing, watcher, restart, bounds
<1> DEFINE Same == UNCHANGED <<dirs, projects, db, psnap, dsnap, served, writer, entry>>
<1>0. ASSUME Same, "delete" \in broken => "delete" \in broken' PROVE Told'
  BY <1>0 DEF Told, ByName, EntryIs, DbFollows, CopiesFollow, NamedApart, PlacedApart,
          OnceByName, OnceByPath, RowsOf
<1>1. ASSUME NEW p \in Paths, NEW base \in Bases, NEW filter \in Filters, AddProject(p, base, filter)
      PROVE  Told'
  <2>1. PICK name \in UniqueName(base) :
          LET d == [name |-> name, path |-> p, filter |-> filter]
          IN  \/ /\ SaveProjectFile(d)
                 /\ writer' = "add"
                 /\ entry' = d
                 /\ UNCHANGED <<broken, faults>>
              \/ /\ Fault("save")
                 /\ UNCHANGED <<db, writing>>
    BY <1>1 DEF AddProject
  <2> DEFINE d == [name |-> name, path |-> p, filter |-> filter]
  <2>2. d.name = name /\ d.path = p
    OBVIOUS
  <2>3. \A i \in DOMAIN dirs : dirs[i].name # d.name /\ dirs[i].path # d.path
    <3>1. d.name \notin NamesOf(projects) /\ d.path \notin PathsOf(projects)
      BY <1>1, <2>2 DEF AddProject, UniqueName
    <3> QED
      BY <3>1, ProjectsTellDirs DEF NamesOf, PathsOf
  <2> HIDE DEF d
  <2>4. writer = "idle" /\ UNCHANGED <<dirs, projects, psnap, dsnap, served>>
    BY <1>1 DEF AddProject, BeginWrite, Idle
  <2>5. CASE SaveProjectFile(d) /\ writer' = "add" /\ entry' = d /\ UNCHANGED <<broken, faults>>
    <3>1. ByName'
      BY <2>4, <2>5, SavedByName DEF Told, ByName, OnceByName
    <3>2. EntryIs'
      BY <2>3, <2>4, <2>5 DEF EntryIs
    <3>3. ASSUME "delete" \notin broken' PROVE DbFollows'
      <4>1. DbFollows /\ db = RowsOf(dirs)
        BY <2>4, <2>5, <3>3 DEF Told, DbFollows
      <4>2. db' = RowsOf(dirs) \cup {d}
        BY <2>3, <2>5, <4>1 DEF SaveProjectFile, RowsOf
      <4>3. \A r \in RowsOf(dirs) : r.path # d.path
        BY <2>3 DEF RowsOf
      <4>4. PlacedApart(db')
        BY <4>1, <4>2, <4>3 DEF DbFollows, PlacedApart
      <4> QED
        BY <2>4, <2>5, <4>1, <4>2, <4>4 DEF DbFollows, OnceByPath, RowsOf
    <3>4. CopiesFollow'
      BY <2>4, <2>5 DEF Told, CopiesFollow
    <3> QED
      BY <3>1, <3>2, <3>3, <3>4 DEF Told
  <2>6. CASE Fault("save") /\ UNCHANGED <<db, writing>>
    BY <1>0, <2>4, <2>6 DEF Fault
  <2> QED
    BY <2>1, <2>5, <2>6 DEF d
<1>2. ASSUME NEW k \in 1..Cardinality(Paths), NEW filter \in Filters, EditProject(k, filter)
      PROVE  Told'
  <2> DEFINE d == [name |-> projects[k].name, path |-> projects[k].path, filter |-> filter]
  <2>1. /\ writer = "idle" /\ k \in DOMAIN dirs
        /\ UNCHANGED <<dirs, projects, psnap, dsnap, served>>
    BY <1>2, ProjectsTellDirs DEF EditProject, BeginWrite, Idle
  <2>2. d.name = dirs[k].name /\ d.path = dirs[k].path
    BY <2>1, ProjectsTellDirs
  <2>3. \/ SaveProjectFile(d) /\ writer' = "edit" /\ entry' = d /\ UNCHANGED <<broken, faults>>
        \/ Fault("save") /\ UNCHANGED <<db, writing>>
    BY <1>2 DEF EditProject
  <2> HIDE DEF d
  <2>4. CASE SaveProjectFile(d) /\ writer' = "edit" /\ entry' = d /\ UNCHANGED <<broken, faults>>
    <3>1. ByName'
      BY <2>1, <2>4, SavedByName DEF Told, ByName, OnceByName
    <3>2. EntryIs'
      BY <2>1, <2>2, <2>4 DEF EntryIs
    <3>3. ASSUME "delete" \notin broken' PROVE DbFollows'
      <4>1. DbFollows /\ db = RowsOf(dirs)
        BY <2>1, <2>4, <3>3 DEF Told, DbFollows
      <4>2. db' = {r \in RowsOf(dirs) : r.name # d.name} \cup {d}
        BY <2>4, <4>1 DEF SaveProjectFile
      <4>3. \A r \in RowsOf(dirs) : r.name # d.name => r.path # d.path
        BY <2>1, <2>2, <4>1 DEF DbFollows, OnceByPath, RowsOf
      <4>4. PlacedApart(db')
        BY <4>1, <4>2, <4>3 DEF DbFollows, PlacedApart
      <4> QED
        BY <2>1, <2>4, <4>1, <4>2, <4>4 DEF DbFollows, OnceByPath, RowsOf
    <3>4. CopiesFollow'
      BY <2>1, <2>4 DEF Told, CopiesFollow
    <3> QED
      BY <3>1, <3>2, <3>3, <3>4 DEF Told
  <2>5. CASE Fault("save") /\ UNCHANGED <<db, writing>>
    BY <1>0, <2>1, <2>5 DEF Fault
  <2> QED
    BY <2>3, <2>4, <2>5
<1>3. ASSUME NEW k \in 1..Cardinality(Paths), RemoveProject(k) PROVE Told'
  <2>1. /\ writer = "idle" /\ k \in DOMAIN dirs
        /\ UNCHANGED <<dirs, projects, db, psnap, dsnap, served>>
    BY <1>3, ProjectsTellDirs DEF RemoveProject, BeginWrite, Idle
  <2>2. CASE writer' = "remove" /\ entry' = dirs[k] /\ UNCHANGED <<broken, faults>>
    <3>1. EntryIs'
      BY <2>1, <2>2 DEF EntryIs, RowsOf
    <3> QED
      BY <2>1, <2>2, <3>1 DEF Told, ByName, DbFollows, CopiesFollow, NamedApart, PlacedApart,
            OnceByName, OnceByPath, RowsOf
  <2>3. CASE Fault("purge") /\ UNCHANGED writing
    BY <1>0, <2>1, <2>3 DEF Fault
  <2> QED
    BY <1>3, <2>2, <2>3 DEF RemoveProject
<1>4. ASSUME StoreProjects PROVE Told'
  <2>1. /\ entry \in Directory /\ dirs \in Seq(Directory) /\ OnceByName(dirs)
        /\ UNCHANGED <<db, dsnap, entry, broken>>
        /\ writer' \in {"stored", "removed"} /\ (writer' = "removed" <=> writer = "remove")
        /\ psnap' = projects'
    BY <1>4 DEF StoreProjects, Typed, Lists, Flags, Told, ByName
  <2>2. CASE writer = "add" /\ dirs' = Append(dirs, entry)
    <3>1. /\ RowsOf(dirs') = RowsOf(dirs) \cup {entry}
          /\ OnceByName(dirs')
          /\ OnceByPath(dirs) => OnceByPath(dirs')
      BY <2>1, <2>2, Appended DEF Told, EntryIs
    <3>2. EntryIs'
      BY <2>1, <2>2 DEF EntryIs
    <3>3. "delete" \notin broken' => DbFollows'
      BY <2>1, <2>2, <3>1 DEF Told, DbFollows, PlacedApart, OnceByPath, RowsOf
    <3> QED
      BY <2>1, <3>1, <3>2, <3>3 DEF Told, ByName, NamedApart, OnceByName, CopiesFollow
  <2>3. CASE \E i \in DOMAIN projects :
               /\ writer \in {"edit", "remove"}
               /\ projects[i].name = entry.name
               /\ dirs' = IF writer = "edit" THEN [dirs EXCEPT ![i] = entry] ELSE Without(dirs, i)
    <3>1. PICK k \in DOMAIN dirs :
               /\ writer \in {"edit", "remove"}
               /\ dirs[k].name = entry.name
               /\ dirs' = IF writer = "edit" THEN [dirs EXCEPT ![k] = entry] ELSE Without(dirs, k)
      BY <2>3, ProjectsTellDirs
    <3>2. CASE writer = "edit"
      <4>1. dirs[k].path = entry.path
        BY <2>1, <3>1, <3>2 DEF Told, EntryIs, OnceByName
      <4>2. /\ RowsOf(dirs') = {r \in RowsOf(dirs) : r.name # entry.name} \cup {entry}
            /\ OnceByName(dirs')
            /\ OnceByPath(dirs) => OnceByPath(dirs')
        BY <2>1, <3>1, <3>2, <4>1, Replaced
      <4>3. EntryIs'
        BY <2>1, <3>2 DEF EntryIs
      <4>4. "delete" \notin broken' => DbFollows'
        BY <2>1, <3>2, <4>2 DEF Told, DbFollows, PlacedApart, OnceByPath, RowsOf
      <4> QED
        BY <2>1, <4>2, <4>3, <4>4 DEF Told, ByName, NamedApart, OnceByName, CopiesFollow
    <3>3. CASE writer = "remove"
      <4>1. entry = dirs[k]
        BY <2>1, <3>1, <3>3 DEF Told, EntryIs, OnceByName, RowsOf
      <4>2. /\ RowsOf(dirs') = RowsOf(dirs) \ {entry}
            /\ OnceByName(dirs')
            /\ \A i \in DOMAIN dirs' : dirs'[i].name # entry.name
            /\ OnceByPath(dirs) => OnceByPath(dirs')
        BY <2>1, <3>1, <3>3, <4>1, Shortened
      <4>3. EntryIs'
        BY <2>1, <4>2 DEF EntryIs
      <4>4. entry \in RowsOf(dirs)
        BY <4>1 DEF RowsOf
      <4>5. ASSUME "delete" \notin broken' PROVE DbFollows'
        <5>1. DbFollows /\ db = RowsOf(dirs)
          BY <2>1, <3>3, <4>5 DEF Told, DbFollows
        <5>2. db = RowsOf(dirs') \cup {entry}
          BY <4>2, <4>4, <5>1
        <5>3. OnceByPath(dirs') /\ PlacedApart(db')
          BY <2>1, <4>2, <5>1 DEF DbFollows
        <5>4. writer' = "removed" /\ db' = db /\ entry' = entry
          BY <2>1, <3>3
        <5>5. RowsOf(dirs)' = RowsOf(dirs')
          BY DEF RowsOf
        <5> QED
          BY <5>2, <5>3, <5>4, <5>5 DEF DbFollows, OnceByPath
      <4> QED
        BY <2>1, <4>2, <4>3, <4>5 DEF Told, ByName, NamedApart, OnceByName, CopiesFollow
    <3> QED
      BY <3>1, <3>2, <3>3
  <2> QED
    BY <1>4, <2>2, <2>3 DEF StoreProjects
<1>5. ASSUME StoreDirs PROVE Told'
  BY <1>5 DEF StoreDirs, Told, ByName, EntryIs, DbFollows, CopiesFollow, NamedApart, PlacedApart,
          OnceByName, OnceByPath, RowsOf
<1>6. ASSUME DeleteProjectFile PROVE Told'
  <2>1. writer = "delete" /\ UNCHANGED <<dirs, projects, psnap, dsnap, served>>
    BY <1>6 DEF DeleteProjectFile
  <2>2. CASE /\ db' = {r \in db : r.name # entry.name}
             /\ writer' = "serve"
             /\ UNCHANGED <<entry, broken, faults>>
    <3>1. \A r \in RowsOf(dirs) : r.name # entry.name
      BY <2>1 DEF Told, EntryIs, RowsOf
    <3>2. "delete" \notin broken => db' = RowsOf(dirs)
      BY <2>1, <2>2, <3>1 DEF Told, DbFollows
    <3>3. "delete" \notin broken' => DbFollows'
      BY <2>1, <2>2, <3>2 DEF Told, DbFollows, PlacedApart, OnceByPath, RowsOf
    <3>4. ByName' /\ EntryIs' /\ CopiesFollow'
      BY <2>1, <2>2 DEF Told, ByName, NamedApart, OnceByName, EntryIs, CopiesFollow
    <3> QED
      BY <3>3, <3>4 DEF Told
  <2>3. CASE Fault("delete") /\ writer' = "idle" /\ entry' = None /\ UNCHANGED db
    <3>1. "delete" \in broken'
      BY <2>3 DEF Fault
    <3>2. ByName' /\ EntryIs' /\ CopiesFollow'
      BY <2>1, <2>3, <3>1 DEF Told, ByName, NamedApart, OnceByName, EntryIs, CopiesFollow
    <3> QED
      BY <3>1, <3>2 DEF Told
  <2> QED
    BY <1>6, <2>2, <2>3 DEF DeleteProjectFile
<1>7. ASSUME Serve PROVE Told'
  BY <1>7 DEF Serve, Told, ByName, EntryIs, DbFollows, CopiesFollow, NamedApart, PlacedApart,
          OnceByName, OnceByPath, RowsOf
<1>8. ASSUME StartWatcher \/ TakeSignal \/ TimerFires PROVE Told'
  BY <1>0, <1>8 DEF StartWatcher, TakeSignal, TimerFires
<1>9. ASSUME RestartWatcher PROVE Told'
  BY <1>0, <1>9 DEF RestartWatcher, Fault
<1>10. ASSUME Crash PROVE Told'
  <2>1. /\ dirs' \in Loaded(db) /\ db' = db
        /\ projects' = ProjectsOf(dirs')
        /\ psnap' = projects' /\ dsnap' = dirs' /\ served' = projects'
        /\ writer' = "idle" /\ broken' = broken \cap {"delete"}
    BY <1>10 DEF Crash, Fresh
  <2>2. /\ RowsOf(dirs') = db
        /\ \A i, j \in DOMAIN dirs' : i # j => dirs'[i] # dirs'[j]
        /\ \A i \in DOMAIN dirs' : dirs'[i] \in db
    <3>1. IsFiniteSet(db) /\ db \subseteq Directory
      BY DEF Typed, Lists
    <3>2. /\ {dirs'[i] : i \in DOMAIN dirs'} = db
          /\ \A i, j \in DOMAIN dirs' : i # j => dirs'[i] # dirs'[j]
      BY <2>1, <3>1, LoadedRows
    <3> QED
      BY <3>2 DEF RowsOf
  <2>3. ByName'
    BY <2>1, <2>2 DEF Told, ByName, NamedApart, OnceByName
  <2>4. "delete" \notin broken' => DbFollows'
    <3> SUFFICES ASSUME "delete" \notin broken' PROVE DbFollows'
      OBVIOUS
    <3>1. PlacedApart(db)
      BY <2>1 DEF Told, DbFollows
    <3>2. OnceByPath(dirs')
      BY <2>2, <3>1 DEF PlacedApart, OnceByPath
    <3> QED
      BY <2>1, <2>2, <3>1, <3>2 DEF DbFollows
  <2>5. EntryIs' /\ CopiesFollow'
    BY <2>1 DEF EntryIs, CopiesFollow
  <2> QED
    BY <2>3, <2>4, <2>5 DEF Told
<1>11. ASSUME UNCHANGED vars PROVE Told'
  BY <1>0, <1>11 DEF vars
<1> QED
  BY <1>1, <1>2, <1>3, <1>4, <1>5, <1>6, <1>7, <1>8, <1>9, <1>10, <1>11
     DEF Next, WriterStep, RestarterStep

LEMMA AlwaysTold == Spec => []Told
  BY AlwaysTyped, ToldInit, NextTold, PTL DEF Spec

\* Whatever names are asked for, and whatever operation is cut short, no two
\* projects share a name, and none is registered twice unless a row could not
\* be deleted.
THEOREM DistinctProjects == Spec => []ProjectsAreDistinct
<1>1. Typed /\ Told => ProjectsAreDistinct
  BY ProjectsTellDirs DEF Told, ByName, DbFollows, OnceByName, OnceByPath, ProjectsAreDistinct
<1> QED
  BY <1>1, AlwaysTyped, AlwaysTold, PTL

\* Between two operations the table, the copies for readers and the server's
\* list say the same, however the operations before ended.
THEOREM AgreeingLists == Spec => []ListsAgree
<1>1. Told => ListsAgree
  BY DEF Told, DbFollows, CopiesFollow, RowsOf, ListsAgree, Idle
<1> QED
  BY <1>1, AlwaysTold, PTL

-----------------------------------------------------------------------------
(* The restart of the watcher *)

\* A list of directories that the watcher does not follow has been replaced by
\* an operation that still has to signal, or its signal is not yet dealt with.
Due ==
    /\ broken \cap {"delete", "watch"} = {}
    /\ PathsOf(prepared) # PathsOf(dirs) \/ (started /\ watched # PathsOf(dirs))
    => token \/ restarter # "wait" \/ writer \in {"stored", "removed", "delete", "serve"}

LEMMA DueInit == Init => Due
  BY DEF Init, Due, PathsOf

LEMMA NextDue == Due /\ [Next]_vars => Due'
<1> SUFFICES ASSUME Due, [Next]_vars PROVE Due'
  OBVIOUS
<1> USE DEF lists, copies, writing, watcher, restart, bounds
<1>1. ASSUME NEW p \in Paths, NEW base \in Bases, NEW filter \in Filters, AddProject(p, base, filter)
      PROVE  Due'
  BY <1>1 DEF AddProject, BeginWrite, Idle, Fault, Due, PathsOf
<1>2. ASSUME NEW k \in 1..Cardinality(Paths), NEW filter \in Filters, EditProject(k, filter)
      PROVE  Due'
  BY <1>2 DEF EditProject, BeginWrite, Idle, Fault, Due, PathsOf
<1>3. ASSUME NEW k \in 1..Cardinality(Paths), RemoveProject(k) PROVE Due'
  BY <1>3 DEF RemoveProject, BeginWrite, Idle, Fault, Due, PathsOf
<1>4. ASSUME StoreProjects PROVE Due'
  BY <1>4 DEF StoreProjects, Due
<1>5. ASSUME StoreDirs PROVE Due'
  BY <1>5 DEF StoreDirs, Due
<1>6. ASSUME DeleteProjectFile PROVE Due'
  BY <1>6 DEF DeleteProjectFile, Fault, Due
<1>7. ASSUME Serve PROVE Due'
  BY <1>7 DEF Serve, Due
<1>8. ASSUME StartWatcher PROVE Due'
  BY <1>8 DEF StartWatcher, Idle, Due, PathsOf
<1>9. ASSUME TakeSignal \/ TimerFires PROVE Due'
  BY <1>9 DEF TakeSignal, TimerFires, Due
<1>10. ASSUME RestartWatcher PROVE Due'
  BY <1>10 DEF RestartWatcher, Fault, Due, PathsOf
<1>11. ASSUME Crash PROVE Due'
  BY <1>11 DEF Crash, Fresh, Due, PathsOf
<1>12. ASSUME UNCHANGED vars PROVE Due'
  BY <1>12 DEF vars, Due, PathsOf
<1> QED
  BY <1>1, <1>2, <1>3, <1>4, <1>5, <1>6, <1>7, <1>8, <1>9, <1>10, <1>11, <1>12
     DEF Next, WriterStep, RestarterStep

\* However signals coalesce in the channel and in the quiet period, a watcher
\* that was started and does not watch the current directories has a restart due.
THEOREM RestartIsDue == Spec => []RestartPending
<1>1. Due => RestartPending
  BY DEF Due, RestartPending, Idle
<1> QED
  BY <1>1, DueInit, NextDue, PTL DEF Spec

=============================================================================
