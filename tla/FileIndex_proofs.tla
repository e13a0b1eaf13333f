-------------------------- MODULE FileIndex_proofs --------------------------
(***************************************************************************)
(* What FileIndex promises for every set of files and contents, every      *)
(* batch size, and any number of edits, requests and faults: types, one    *)
(* version of a file, hashes that vouch for chunks, and passes that store  *)
(* what they saw.                                                          *)
(***************************************************************************)
EXTENDS FileIndex, FiniteSetTheorems, TLAPS

-----------------------------------------------------------------------------
(* The functions that entries are replaced with *)

LEMMA WithoutType ==
    ASSUME NEW f \in [Files -> Entry], NEW S
    PROVE  Without(f, S) \in [Files -> Entry]
  BY DEF Without, Entry

LEMMA WithType ==
    ASSUME NEW f \in [Files -> Entry], NEW g \in [Files -> Entry], NEW S
    PROVE  With(f, S, g) \in [Files -> Entry]
  BY DEF With

LEMMA NothingType == Nothing \in [Files -> Entry]
  BY DEF Nothing, Entry

\* A job that has ended leaves well-typed locals.
Locals ==
    /\ job \in {"none", "initial", "rebuild", "file"}
    /\ seen \in [Files -> Entry]
    /\ changed \subseteq Files /\ todo \subseteq Files
    /\ torn \in Files \cup {Absent}
    /\ attempt \in 0..(MaxAttempts - 1)
    /\ failed \in BOOLEAN

LEMMA FirstAttempt == 0 \in 0..(MaxAttempts - 1)
  BY AttemptsAssumption

LEMMA EndJobType == EndJob => Locals'
  BY NothingType, FirstAttempt DEF EndJob, Locals

LEMMA GiveUpType ==
    ASSUME TypeOK, GiveUp
    PROVE  Locals' /\ missed' \subseteq Files /\ pc' \in {"saveSym", "idle"}
<1>1. missed' \subseteq Files
  BY DEF GiveUp, TypeOK
<1>2. CASE job = "initial"
  BY <1>1, <1>2 DEF GiveUp, Locals, TypeOK
<1>3. CASE job # "initial"
  BY <1>1, <1>3, EndJobType DEF GiveUp
<1> QED
  BY <1>2, <1>3

LEMMA RetryType ==
    ASSUME TypeOK, Retry
    PROVE  Locals' /\ missed' \subseteq Files /\ pc' \in {"walk", "saveSym", "idle"}
<1>1. CASE job # "file" /\ attempt + 1 < MaxAttempts
  BY <1>1, AttemptsAssumption DEF Retry, Locals, TypeOK
<1>2. CASE ~(job # "file" /\ attempt + 1 < MaxAttempts)
  BY <1>2, GiveUpType DEF Retry
<1> QED
  BY <1>1, <1>2

\* What Index passes over is Absent to it.
LEMMA IndexedIs ==
    ASSUME TypeOK
    PROVE  /\ Indexed \in [Files -> Entry]
           /\ \A p \in Files : Indexed[p] = IF p \in ignored THEN Absent ELSE disk[p]
  BY DEF Indexed, Without, TypeOK, Entry

\* What a batch makes of the hashes and of the chunks.
LEMMA BatchType ==
    ASSUME TypeOK, NEW b
    PROVE  Claimed(b) \in [Files -> Entry] /\ Stored(b) \in [Files -> SUBSET Contents]
<1>1. \A p \in Files : HashOf(p) \in Entry /\ hash[p] \in Entry
  BY DEF TypeOK, HashOf, Entry
<1>2. \A p \in Files : ChunksOf(seen[p]) \subseteq Contents /\ chunks[p] \subseteq Contents
  BY DEF TypeOK, ChunksOf, Entry
<1>3. \A p \in Files : chunks[p] \cup ChunksOf(seen[p]) \in SUBSET Contents
  BY <1>2
<1> QED
  BY <1>1, <1>2, <1>3 DEF Claimed, Stored

-----------------------------------------------------------------------------
(* Types *)

\* Every reachable state has the types of the Go declarations and of the tables;
\* in particular the retries of indexDirectoryWithRetry never exceed their limit.
THEOREM TypeCorrect == Spec => []TypeOK
<1>1. Init => TypeOK
  <2> SUFFICES ASSUME Init PROVE TypeOK
    OBVIOUS
  <2>1. missed \subseteq Files
    BY DEF Init, On
  <2>2. chunks \in [Files -> SUBSET Contents]
    BY DEF Init
  <2>3. Locals
    BY NothingType, FirstAttempt DEF Init, Locals
  <2> QED
    BY <2>1, <2>2, <2>3, NothingType DEF Init, TypeOK, Locals
<1>2. TypeOK /\ [Next]_vars => TypeOK'
  <2> SUFFICES ASSUME TypeOK, [Next]_vars PROVE TypeOK'
    OBVIOUS
  <2> USE DEF store, derived, local, outside, bounds, Fault
  <2>1. CASE BeginInitial
    BY <2>1, WithoutType DEF BeginInitial, Forget, TypeOK, On
  <2>2. ASSUME NEW p \in Files, DeleteChunks(p) PROVE TypeOK'
    BY <2>2 DEF DeleteChunks, TypeOK
  <2>3. ASSUME NEW p \in Files, ReadFile(p) PROVE TypeOK'
    <3>1. CASE seen[p] = Absent
      BY <2>3, <3>1, WithoutType DEF ReadFile, TypeOK
    <3>2. CASE seen[p] # Absent /\ disk[p] = Absent
      BY <2>3, <3>2, WithoutType, EndJobType DEF ReadFile, TypeOK, Locals
    <3>3. CASE seen[p] # Absent /\ disk[p] # Absent
      BY <2>3, <3>3, WithoutType, WithType DEF ReadFile, TypeOK
    <3> QED
      BY <3>1, <3>2, <3>3
  <2>4. CASE DeleteHash
    BY <2>4 DEF DeleteHash, TypeOK, Entry
  <2>5. CASE DeleteFails
    <3>1. chunks' \in [Files -> SUBSET Contents] /\ hash' \in [Files -> Entry]
      BY <2>5 DEF DeleteFails, TypeOK, Entry
    <3>2. Locals' /\ missed' \subseteq Files
             /\ pc' \in {"idle", "purge", "stale"}
      BY <2>5, EndJobType DEF DeleteFails, Deleting, Locals, TypeOK
    <3> QED
      BY <2>5, <3>1, <3>2 DEF DeleteFails, TypeOK, Locals
  <2>6. CASE Purged
    BY <2>6 DEF Purged, TypeOK
  <2>7. CASE Walk
    BY <2>7, IndexedIs DEF Walk, ToDelete, On, TypeOK
  <2>8. CASE WalkFails
    BY <2>8, RetryType DEF WalkFails, TypeOK, Locals
  <2>9. CASE Rebuilt
    BY <2>9, WithType, WithoutType DEF Rebuilt, TypeOK
  <2>10. CASE EmbedFails
    BY <2>10, RetryType DEF EmbedFails, TypeOK, Locals
  <2>11. CASE AddChunks
    <3>1. PICK b \in Batches : hash' = Claimed(b) /\ chunks' = Stored(b) /\ todo' = todo \ b
      BY <2>11 DEF AddChunks
    <3>2. hash' \in [Files -> Entry] /\ chunks' \in [Files -> SUBSET Contents]
      BY <3>1, BatchType
    <3>3. todo' \subseteq Files
      BY <3>1 DEF TypeOK
    <3>4. /\ pc' = "hashes"
          /\ UNCHANGED <<dbHash, derived, job, seen, changed, torn, attempt, failed, outside, bounds>>
      BY <2>11 DEF AddChunks
    <3> QED
      BY <3>2, <3>3, <3>4 DEF TypeOK
  <2>12. CASE AddFails
    <3>1. PICK b \in Batches, some \in SUBSET Files :
              hash' = Claimed(b) /\ chunks' = Stored(some)
      BY <2>12 DEF AddFails, Batches, TypeOK
    <3>2. hash' \in [Files -> Entry] /\ chunks' \in [Files -> SUBSET Contents]
      BY <3>1, BatchType
    <3>3. /\ Retry /\ Fault("add")
          /\ UNCHANGED <<dbHash, derived, disk, ignored, started, watching, events, edits, requests>>
      BY <2>12 DEF AddFails
    <3> QED
      BY <3>2, <3>3, RetryType DEF TypeOK, Locals
  <2>13. CASE SaveHashes
    BY <2>13 DEF SaveHashes, TypeOK, HashOf, Entry
  <2>14. CASE SaveHashesFails
    BY <2>14, RetryType DEF SaveHashesFails, TypeOK, Locals
  <2>15. CASE SaveSymbols
    BY <2>15 DEF SaveSymbols, TypeOK
  <2>16. CASE SaveSymbolsFails
    BY <2>16, EndJobType DEF SaveSymbolsFails, TypeOK, Locals
  <2>17. CASE SaveGraph
    BY <2>17, EndJobType DEF SaveGraph, TypeOK, Locals
  <2>18. CASE BeginRebuild
    BY <2>18, WithoutType DEF BeginRebuild, Forget, TypeOK, On
  <2>19. CASE StartWatcher
    BY <2>19 DEF StartWatcher, TypeOK
  <2>20. CASE Crash
    <3>1. Locals' /\ events' \subseteq Files /\ missed' \subseteq Files
      BY <2>20, EndJobType DEF Crash
    <3>2. had' \subseteq Faults /\ faults' \in Nat
      BY <2>20 DEF Crash, TypeOK
    <3> QED
      BY <2>20, <3>1, <3>2 DEF Crash, TypeOK, Locals
  <2>21. ASSUME NEW p \in Files, Edit(p) PROVE TypeOK'
    BY <2>21 DEF Edit, Notice, TypeOK
  <2>22. ASSUME NEW p \in Files, BeginFile(p) PROVE TypeOK'
    BY <2>22, NothingType DEF BeginFile, ToDelete, TypeOK
  <2>23. ASSUME NEW p \in Files, FileVanishes(p) PROVE TypeOK'
    <3>1. disk' \in [Files -> Entry]
      BY <2>23 DEF FileVanishes, TypeOK, Entry
    <3>2. Locals' /\ missed' \subseteq Files /\ pc' \in {"saveSym", "idle"}
      BY <2>23, GiveUpType DEF FileVanishes
    <3>3. events' \subseteq Files /\ edits' \in Nat
      BY <2>23 DEF FileVanishes, TypeOK
    <3> QED
      BY <2>23, <3>1, <3>2, <3>3 DEF FileVanishes, TypeOK, Locals
  <2>24. CASE UNCHANGED vars
    BY <2>24 DEF vars, TypeOK
  <2> QED
    BY <2>1, <2>2, <2>3, <2>4, <2>5, <2>6, <2>7, <2>8, <2>9, <2>10, <2>11, <2>12, <2>13, <2>14,
       <2>15, <2>16, <2>17, <2>18, <2>19, <2>20, <2>21, <2>22, <2>23, <2>24 DEF Next, JobStep
<1> QED
  BY <1>1, <1>2, PTL DEF Spec

-----------------------------------------------------------------------------
(* The steps, for the proofs that go through all of them *)

\* Next, in the order of a job: how it begins, deletes, walks, embeds and ends, and
\* what happens outside of it.
LEMMA Steps ==
    ASSUME [Next]_vars
    PROVE  \/ BeginInitial \/ BeginRebuild \/ (\E p \in Files : BeginFile(p))
           \/ (\E p \in Files : DeleteChunks(p)) \/ DeleteHash \/ DeleteFails \/ Purged
           \/ Walk \/ WalkFails \/ Rebuilt \/ (\E p \in Files : ReadFile(p))
           \/ EmbedFails \/ AddChunks \/ AddFails \/ SaveHashes \/ SaveHashesFails
           \/ SaveSymbols \/ SaveSymbolsFails \/ SaveGraph
           \/ Crash \/ StartWatcher \/ (\E p \in Files : Edit(p) \/ FileVanishes(p))
           \/ UNCHANGED vars
  BY DEF Next, JobStep

-----------------------------------------------------------------------------
(* Where a job stands *)

\* Nothing is torn but during a deletion, and then it is a file that is still to
\* be deleted; only single-file jobs read, and
\* only passes walk; what is still to be deleted or embedded
\* is among what the job stores; and what a pass stores is what it saw.
Bookkeeping ==
    /\ ~Deleting => torn = Absent
    /\ torn # Absent => torn \in todo
    /\ pc = "read" => job = "file"
    /\ pc \in {"walk", "stale"} => job # "file"
    /\ job = "file" \/ pc \in {"stale", "embed", "hashes"} => todo \subseteq changed
    /\ job # "file" /\ pc \in {"stale", "embed", "hashes"} => changed \subseteq On(seen)

\* After a failure the next attempt, or nothing, follows.
LEMMA AfterFailure ==
    ASSUME TypeOK, Bookkeeping, ~Deleting, Retry \/ GiveUp
    PROVE  /\ torn' = Absent
           /\ pc' \in {"walk", "saveSym", "idle"}
           /\ job' = "file" => FALSE
           /\ pc' = "saveSym" => failed'
<1>1. torn = Absent
  BY DEF Bookkeeping
<1>2. CASE job # "file" /\ attempt + 1 < MaxAttempts /\ Retry
  BY <1>1, <1>2 DEF Retry
<1>3. CASE GiveUp
  BY <1>1, <1>3 DEF GiveUp, EndJob
<1> QED
  BY <1>2, <1>3 DEF Retry

LEMMA BookkeepingInductive == Spec => []Bookkeeping
<1>1. Init => Bookkeeping
  BY DEF Init, Bookkeeping
<1>2. TypeOK /\ Bookkeeping /\ [Next]_vars => Bookkeeping'
  <2> SUFFICES ASSUME TypeOK, Bookkeeping, [Next]_vars PROVE Bookkeeping'
    OBVIOUS
  <2> USE DEF Deleting, local
  <2>1. CASE BeginInitial
    BY <2>1 DEF BeginInitial, Bookkeeping
  <2>2. CASE BeginRebuild
    BY <2>2 DEF BeginRebuild, Bookkeeping
  <2>3. ASSUME NEW p \in Files, BeginFile(p) PROVE Bookkeeping'
    BY <2>3 DEF BeginFile, Bookkeeping, ToDelete
  <2>4. ASSUME NEW p \in Files, DeleteChunks(p) PROVE Bookkeeping'
    BY <2>4 DEF DeleteChunks, Bookkeeping, On
  <2>5. CASE DeleteHash
    BY <2>5 DEF DeleteHash, Bookkeeping, On
  <2>6. CASE DeleteFails
    BY <2>6 DEF DeleteFails, EndJob, Bookkeeping, On
  <2>7. CASE Purged
    BY <2>7 DEF Purged, Bookkeeping
  <2>8. CASE Walk
    BY <2>8 DEF Walk, ToDelete, Bookkeeping, On
  <2>9. CASE Rebuilt
    BY <2>9 DEF Rebuilt, Bookkeeping, On
  <2>10. ASSUME NEW p \in Files, ReadFile(p) PROVE Bookkeeping'
    BY <2>10 DEF ReadFile, EndJob, Bookkeeping
  <2>11. CASE WalkFails \/ EmbedFails \/ AddFails \/ SaveHashesFails
    <3>1. ~Deleting /\ Retry
      BY <2>11 DEF WalkFails, EmbedFails, AddFails, SaveHashesFails
    <3> QED
      BY <3>1, AfterFailure DEF Bookkeeping
  <2>12. CASE AddChunks
    BY <2>12 DEF AddChunks, Bookkeeping, On
  <2>13. CASE SaveHashes
    BY <2>13 DEF SaveHashes, Bookkeeping, On
  <2>14. CASE SaveSymbols
    BY <2>14 DEF SaveSymbols, Bookkeeping
  <2>15. CASE SaveSymbolsFails
    BY <2>15 DEF SaveSymbolsFails, EndJob, Bookkeeping
  <2>16. CASE SaveGraph
    BY <2>16 DEF SaveGraph, EndJob, Bookkeeping
  <2>17. CASE Crash
    BY <2>17 DEF Crash, EndJob, Bookkeeping
  <2>18. CASE StartWatcher
    BY <2>18 DEF StartWatcher, Bookkeeping, On
  <2>19. ASSUME NEW p \in Files, Edit(p) PROVE Bookkeeping'
    BY <2>19 DEF Edit, Bookkeeping, On
  <2>20. ASSUME NEW p \in Files, FileVanishes(p) PROVE Bookkeeping'
    <3>1. ~Deleting /\ GiveUp
      BY <2>20 DEF FileVanishes
    <3> QED
      BY <3>1, AfterFailure DEF Bookkeeping
  <2>21. CASE UNCHANGED vars
    BY <2>21 DEF vars, Bookkeeping, On
  <2> QED
    BY <2>1, <2>2, <2>3, <2>4, <2>5, <2>6, <2>7, <2>8, <2>9, <2>10, <2>11, <2>12, <2>13, <2>14,
       <2>15, <2>16, <2>17, <2>18, <2>19, <2>20, <2>21, Steps
<1> QED
  BY <1>1, <1>2, TypeCorrect, PTL DEF Spec

-----------------------------------------------------------------------------
(* Passes hash what they saw *)

\* What was embedded has the hash it was stored with, and what a pass skipped the
\* hash for which it did so.
Hashed ==
    /\ pc \in {"embed", "hashes"} =>
          \A p \in changed \ todo : HashOf(p) # Absent => hash[p] = HashOf(p)
    /\ job # "file" /\ pc \in {"stale", "embed", "hashes"} =>
          \A p \in On(seen) \ changed : hash[p] = seen[p]
    /\ PassHashesWhatItSaw

LEMMA HashedInductive == Spec => []Hashed
<1>1. Init => Hashed
  BY DEF Init, Hashed, PassHashesWhatItSaw, PassSucceeded
<1>2. TypeOK /\ Bookkeeping /\ Hashed /\ [Next]_vars => Hashed'
  <2> SUFFICES ASSUME TypeOK, Bookkeeping, Hashed, [Next]_vars PROVE Hashed'
    OBVIOUS
  <2> USE DEF local, derived, PassHashesWhatItSaw, PassSucceeded, Pass
  <2>1. CASE BeginInitial
    BY <2>1 DEF BeginInitial, Hashed
  <2>2. CASE BeginRebuild
    BY <2>2 DEF BeginRebuild, Hashed
  <2>3. ASSUME NEW p \in Files, BeginFile(p) PROVE Hashed'
    BY <2>3 DEF BeginFile, Hashed
  <2>4. ASSUME NEW p \in Files, DeleteChunks(p) PROVE Hashed'
    BY <2>4 DEF DeleteChunks, Deleting, Hashed, On
  <2>5. CASE DeleteHash
    BY <2>5 DEF DeleteHash, Deleting, Bookkeeping, Hashed, On, TypeOK
  <2>6. CASE DeleteFails
    BY <2>6 DEF DeleteFails, EndJob, Deleting, Bookkeeping, Hashed, On, TypeOK
  <2>7. CASE Purged
    BY <2>7 DEF Purged, Hashed
  <2>8. CASE Walk
    BY <2>8, IndexedIs DEF Walk, store, IsChanged, Hashed, On
  <2>9. CASE Rebuilt
    BY <2>9 DEF Rebuilt, store, Bookkeeping, Hashed, On
  <2>10. ASSUME NEW p \in Files, ReadFile(p) PROVE Hashed'
    BY <2>10 DEF ReadFile, EndJob, Bookkeeping, Hashed
  <2>11. CASE WalkFails \/ EmbedFails \/ AddFails \/ SaveHashesFails
    <3>1. ~Deleting /\ Retry
      BY <2>11 DEF WalkFails, EmbedFails, AddFails, SaveHashesFails, Deleting
    <3> QED
      BY <3>1, AfterFailure DEF Hashed
  <2>12. CASE AddChunks
    BY <2>12 DEF AddChunks, Batches, Claimed, HashOf, Bookkeeping, Hashed, On, TypeOK
  <2>13. CASE SaveHashes
    BY <2>13 DEF SaveHashes, HashOf, Bookkeeping, Hashed, On
  <2>14. CASE SaveSymbols
    BY <2>14 DEF SaveSymbols, Hashed
  <2>15. CASE SaveSymbolsFails
    BY <2>15 DEF SaveSymbolsFails, EndJob, Hashed
  <2>16. CASE SaveGraph
    BY <2>16 DEF SaveGraph, EndJob, Hashed
  <2>17. CASE Crash
    BY <2>17 DEF Crash, EndJob, Hashed
  <2>18. CASE StartWatcher
    BY <2>18 DEF StartWatcher, store, Hashed, On, HashOf
  <2>19. ASSUME NEW p \in Files, Edit(p) PROVE Hashed'
    BY <2>19 DEF Edit, store, Hashed, On, HashOf
  <2>20. ASSUME NEW p \in Files, FileVanishes(p) PROVE Hashed'
    <3>1. ~Deleting /\ GiveUp
      BY <2>20 DEF FileVanishes, Deleting
    <3> QED
      BY <3>1, AfterFailure DEF Hashed
  <2>21. CASE UNCHANGED vars
    BY <2>21 DEF vars, Hashed, On, HashOf
  <2> QED
    BY <2>1, <2>2, <2>3, <2>4, <2>5, <2>6, <2>7, <2>8, <2>9, <2>10, <2>11, <2>12, <2>13, <2>14,
       <2>15, <2>16, <2>17, <2>18, <2>19, <2>20, <2>21, Steps
<1> QED
  BY <1>1, <1>2, TypeCorrect, BookkeepingInductive, PTL DEF Spec

\* A pass that succeeds leaves on every file it saw the hash of what it saw,
\* whichever operations failed and were retried on the way.
THEOREM PassesHashWhatTheySaw == Spec => []PassHashesWhatItSaw
<1>1. Hashed => PassHashesWhatItSaw
  BY DEF Hashed
<1> QED
  BY <1>1, HashedInductive, PTL

-----------------------------------------------------------------------------
(* One version of a file *)

\* Nothing of a file is left in the store.
Cleared(S) == \A p \in S : chunks[p] = {} /\ hash[p] = Absent /\ dbHash[p] = Absent

\* While deletions succeed, what a job has deleted, and has not stored yet, is not
\* there: it may be added.
NoLeftovers ==
    NoneOf({"delete"}) =>
        /\ pc = "stale" \/ (pc = "purge" /\ job = "file") => Cleared(changed \ todo)
        /\ pc = "read" => Cleared(changed)
        /\ pc \in {"embed", "hashes"} => Cleared(todo)
        /\ torn # Absent => chunks[torn] = {}

\* What is said of NoneOf holds from the first such fault on.
LEMMA FaultsStay ==
    ASSUME [Next]_vars
    PROVE  had \subseteq had'
  BY DEF Next, JobStep, vars, bounds, Fault, BeginInitial, BeginRebuild, BeginFile, DeleteChunks,
         DeleteHash, DeleteFails, Purged, Walk, WalkFails, Rebuilt, ReadFile, EmbedFails,
         AddChunks, AddFails, SaveHashes, SaveHashesFails, SaveSymbols, SaveSymbolsFails,
         SaveGraph, Crash, StartWatcher, Edit, FileVanishes

LEMMA NoLeftoversInductive == Spec => []NoLeftovers
<1>1. Init => NoLeftovers
  BY DEF Init, NoLeftovers
<1>2. TypeOK /\ Bookkeeping /\ NoLeftovers /\ [Next]_vars => NoLeftovers'
  <2> SUFFICES ASSUME TypeOK, Bookkeeping, NoLeftovers, [Next]_vars, NoneOf({"delete"})'
               PROVE  NoLeftovers'
    BY DEF NoLeftovers
  <2>0. NoneOf({"delete"})
    BY FaultsStay DEF NoneOf
  <2> USE <2>0 DEF local, derived, Cleared
  <2>1. CASE BeginInitial
    BY <2>1 DEF BeginInitial, Bookkeeping, Deleting, NoLeftovers
  <2>2. CASE BeginRebuild
    BY <2>2 DEF BeginRebuild, Bookkeeping, Deleting, NoLeftovers
  <2>3. ASSUME NEW p \in Files, BeginFile(p) PROVE NoLeftovers'
    BY <2>3 DEF BeginFile, ToDelete, Bookkeeping, Deleting, NoLeftovers
  <2>4. ASSUME NEW p \in Files, DeleteChunks(p) PROVE NoLeftovers'
    BY <2>4 DEF DeleteChunks, Deleting, NoLeftovers, TypeOK
  <2>5. CASE DeleteHash
    BY <2>5 DEF DeleteHash, Deleting, NoLeftovers, TypeOK
  <2>6. CASE DeleteFails
    BY <2>6 DEF DeleteFails, Fault, NoneOf
  <2>7. CASE Purged
    BY <2>7 DEF Purged, store, NoLeftovers
  <2>8. CASE Walk
    BY <2>8 DEF Walk, store, ToDelete, Bookkeeping, Deleting, NoLeftovers
  <2>9. CASE Rebuilt
    BY <2>9 DEF Rebuilt, store, NoLeftovers
  <2>10. ASSUME NEW p \in Files, ReadFile(p) PROVE NoLeftovers'
    BY <2>10 DEF ReadFile, EndJob, store, Bookkeeping, Deleting, NoLeftovers
  <2>11. CASE WalkFails \/ EmbedFails \/ AddFails \/ SaveHashesFails
    <3>1. ~Deleting /\ Retry
      BY <2>11 DEF WalkFails, EmbedFails, AddFails, SaveHashesFails, Deleting
    <3> QED
      BY <3>1, AfterFailure DEF NoLeftovers
  <2>12. CASE AddChunks
    BY <2>12 DEF AddChunks, Batches, Claimed, Stored, Bookkeeping, Deleting, NoLeftovers, TypeOK
  <2>13. CASE SaveHashes
    BY <2>13 DEF SaveHashes, Bookkeeping, Deleting, NoLeftovers, TypeOK
  <2>14. CASE SaveSymbols
    BY <2>14 DEF SaveSymbols, Bookkeeping, Deleting, NoLeftovers
  <2>15. CASE SaveSymbolsFails
    BY <2>15 DEF SaveSymbolsFails, EndJob, Bookkeeping, Deleting, NoLeftovers
  <2>16. CASE SaveGraph
    BY <2>16 DEF SaveGraph, EndJob, NoLeftovers
  <2>17. CASE Crash
    BY <2>17 DEF Crash, EndJob, NoLeftovers
  <2>18. CASE StartWatcher
    BY <2>18 DEF StartWatcher, store, NoLeftovers
  <2>19. ASSUME NEW p \in Files, Edit(p) PROVE NoLeftovers'
    BY <2>19 DEF Edit, store, NoLeftovers
  <2>20. ASSUME NEW p \in Files, FileVanishes(p) PROVE NoLeftovers'
    <3>1. ~Deleting /\ GiveUp
      BY <2>20 DEF FileVanishes, Deleting
    <3> QED
      BY <3>1, AfterFailure DEF NoLeftovers
  <2>21. CASE UNCHANGED vars
    BY <2>21 DEF vars, NoLeftovers
  <2> QED
    BY <2>1, <2>2, <2>3, <2>4, <2>5, <2>6, <2>7, <2>8, <2>9, <2>10, <2>11, <2>12, <2>13, <2>14,
       <2>15, <2>16, <2>17, <2>18, <2>19, <2>20, <2>21, Steps
<1> QED
  BY <1>1, <1>2, TypeCorrect, BookkeepingInductive, PTL DEF Spec

\* SingleVersion without counting.
OneContent ==
    NoneOf({"delete"}) => \A p \in Files : chunks[p] = {} \/ \E c \in Contents : chunks[p] = {c}

\* A batch is added where nothing is left.
LEMMA StoredIsOne ==
    ASSUME TypeOK, Cleared(todo), NEW b \in SUBSET todo,
           NEW p \in Files, chunks[p] = {} \/ \E c \in Contents : chunks[p] = {c}
    PROVE  Stored(b)[p] = {} \/ \E c \in Contents : Stored(b)[p] = {c}
<1>1. CASE p \in b
  <2>1. chunks[p] = {}
    BY <1>1 DEF Cleared
  <2>2. Stored(b)[p] = ChunksOf(seen[p])
    BY <1>1, <2>1 DEF Stored
  <2>3. seen[p] \in Contents \/ seen[p] = Absent
    BY DEF TypeOK, Entry
  <2> QED
    BY <2>2, <2>3 DEF ChunksOf
<1>2. CASE p \notin b
  BY <1>2 DEF Stored
<1> QED
  BY <1>1, <1>2

LEMMA OneContentInductive == Spec => []OneContent
<1>1. Init => OneContent
  BY DEF Init, OneContent
<1>2. TypeOK /\ NoLeftovers /\ OneContent /\ [Next]_vars => OneContent'
  <2> SUFFICES ASSUME TypeOK, NoLeftovers, OneContent, [Next]_vars, NoneOf({"delete"})',
                      NEW p \in Files
               PROVE  chunks'[p] = {} \/ \E c \in Contents : chunks'[p] = {c}
    BY DEF OneContent
  <2>1. NoneOf({"delete"}) /\ (chunks[p] = {} \/ \E c \in Contents : chunks[p] = {c})
    BY FaultsStay DEF NoneOf, OneContent
  <2>2. CASE AddChunks \/ AddFails
    <3>1. PICK b \in SUBSET todo : chunks' = Stored(b)
      BY <2>2 DEF AddChunks, AddFails, Batches
    <3>2. Cleared(todo)
      BY <2>1, <2>2 DEF AddChunks, AddFails, NoLeftovers
    <3> QED
      BY <2>1, <3>1, <3>2, StoredIsOne
  <2>3. ASSUME NEW q \in Files, DeleteChunks(q)
        PROVE  chunks'[p] \in {chunks[p], {}}
    BY <2>3 DEF DeleteChunks, TypeOK
  <2>4. CASE DeleteFails
    BY <2>4 DEF DeleteFails, Fault, NoneOf
  <2>5. \/ AddChunks \/ AddFails \/ DeleteFails
        \/ \E q \in Files : DeleteChunks(q)
        \/ UNCHANGED chunks
    BY Steps DEF vars, store, BeginInitial, BeginRebuild, BeginFile, DeleteHash, Purged, Walk,
       WalkFails, Rebuilt, ReadFile, EmbedFails, SaveHashes, SaveHashesFails, SaveSymbols,
       SaveSymbolsFails, SaveGraph, Crash, StartWatcher, Edit, FileVanishes
  <2> QED
    BY <2>1, <2>2, <2>3, <2>4, <2>5
<1> QED
  BY <1>1, <1>2, TypeCorrect, NoLeftoversInductive, PTL DEF Spec

\* A search never returns an old and a new content of one file together, whatever
\* fails but deletions, and after every crash.
THEOREM OneVersionOfAFile == Spec => []SingleVersion
<1>1. OneContent => SingleVersion
  <2> SUFFICES ASSUME OneContent, NoneOf({"delete"}), NEW p \in Files
               PROVE  Cardinality(chunks[p]) <= 1
    BY DEF SingleVersion
  <2>1. CASE chunks[p] = {}
    BY <2>1, FS_EmptySet
  <2>2. ASSUME NEW c \in Contents, chunks[p] = {c} PROVE Cardinality(chunks[p]) <= 1
    BY <2>2, FS_Singleton
  <2> QED
    BY <2>1, <2>2 DEF OneContent
<1> QED
  BY <1>1, OneContentInductive, PTL

-----------------------------------------------------------------------------
(* Hashes vouch for chunks *)

\* A hash vouches for chunks that are there, while there is no crash and no error
\* of the collection: what fails otherwise is made up for by the next job.
THEOREM HashesVouchForChunks == Spec => []HashHasChunks
<1>1. Init => HashHasChunks
  BY DEF Init, HashHasChunks, Nothing
<1>2. TypeOK /\ Bookkeeping /\ Hashed /\ NoLeftovers /\ HashHasChunks /\ [Next]_vars
        => HashHasChunks'
  <2> SUFFICES ASSUME TypeOK, Bookkeeping, Hashed, NoLeftovers, HashHasChunks, [Next]_vars,
                      NoneOf({"crash", "add", "delete"})'
               PROVE  HashHasChunks'
    BY DEF HashHasChunks
  <2>0. NoneOf({"crash", "add", "delete"}) /\ NoneOf({"delete"})
    BY FaultsStay DEF NoneOf
  <2>1. ASSUME NEW p \in Files, DeleteChunks(p) PROVE HashHasChunks'
    <3>1. \A q \in Files : q # torn
      BY <2>1, AbsentAssumption DEF DeleteChunks
    <3>2. \A q \in Files \ {p} : chunks'[q] = chunks[q]
      BY <2>1 DEF DeleteChunks, TypeOK
    <3> QED
      BY <2>0, <2>1, <3>1, <3>2 DEF DeleteChunks, HashHasChunks
  <2>2. CASE DeleteHash
    BY <2>0, <2>2 DEF DeleteHash, HashHasChunks, TypeOK, Entry
  <2>3. CASE DeleteFails \/ AddFails \/ Crash
    BY <2>3 DEF DeleteFails, AddFails, Crash, Fault, NoneOf
  <2>4. CASE AddChunks
    <3>1. Cleared(todo)
      BY <2>0, <2>4 DEF AddChunks, NoLeftovers
    <3>2. PICK b \in SUBSET todo : hash' = Claimed(b) /\ chunks' = Stored(b)
      BY <2>4 DEF AddChunks, Batches
    <3>3. dbHash' = dbHash /\ torn' = Absent /\ torn = Absent
      BY <2>4 DEF AddChunks, Bookkeeping, Deleting
    <3>4. \A p \in Files : torn # p
      BY <3>3, AbsentAssumption
    <3>5. ASSUME NEW p \in Files, p \in b
          PROVE  /\ hash'[p] # Absent => hash'[p] \in chunks'[p]
                 /\ dbHash'[p] \in {hash'[p], Absent}
      BY <3>1, <3>2, <3>3, <3>5 DEF Cleared, Claimed, Stored, HashOf, ChunksOf
    <3>6. ASSUME NEW p \in Files, p \notin b
          PROVE  /\ hash'[p] # Absent => hash'[p] \in chunks'[p]
                 /\ dbHash'[p] \in {hash'[p], Absent}
      <4>1. hash'[p] = hash[p] /\ chunks'[p] = chunks[p]
        BY <3>2, <3>6 DEF Claimed, Stored
      <4> QED
        BY <2>0, <3>3, <3>4, <4>1 DEF HashHasChunks
    <3> QED
      BY <3>5, <3>6 DEF HashHasChunks
  <2>5. CASE SaveHashes
    <3>1. \A p \in changed \ todo : HashOf(p) # Absent => hash[p] = HashOf(p)
      BY <2>5 DEF SaveHashes, Hashed
    <3> QED
      BY <2>0, <2>5, <3>1 DEF SaveHashes, HashHasChunks, local, TypeOK
  <2>6. \/ DeleteFails \/ AddFails \/ Crash \/ AddChunks \/ SaveHashes \/ DeleteHash
        \/ \E p \in Files : DeleteChunks(p)
        \/ UNCHANGED store /\ torn' = torn
    <3>1. ~Deleting /\ (Retry \/ GiveUp) => torn' = torn
      BY AfterFailure DEF Bookkeeping
    <3>2. ~Deleting => torn = Absent
      BY DEF Bookkeeping
    <3> QED
      BY <3>1, <3>2, Steps DEF vars, store, local, Deleting, EndJob, BeginInitial, BeginRebuild,
         BeginFile, Purged, Walk, WalkFails, Rebuilt, ReadFile, EmbedFails, SaveHashesFails,
         SaveSymbols, SaveSymbolsFails, SaveGraph, StartWatcher, Edit, FileVanishes
  <2>7. CASE UNCHANGED store /\ torn' = torn
    BY <2>0, <2>7 DEF store, HashHasChunks
  <2> QED
    BY <2>1, <2>2, <2>3, <2>4, <2>5, <2>6, <2>7
<1> QED
  BY <1>1, <1>2, TypeCorrect, BookkeepingInductive, HashedInductive, NoLeftoversInductive, PTL
     DEF Spec

\* A pass that succeeds leaves of every file it saw just the chunks of what it saw.
THEOREM PassesIndexWhatTheySaw == Spec => []PassIndexesWhatItSaw
<1>1. /\ TypeOK /\ Bookkeeping /\ Hashed /\ OneContent /\ HashHasChunks
      => PassIndexesWhatItSaw
  <2> SUFFICES ASSUME TypeOK, Bookkeeping, Hashed, OneContent, HashHasChunks, PassSucceeded,
                      NoneOf({"crash", "add", "delete"}), NEW p \in On(seen)
               PROVE  chunks[p] = ChunksOf(seen[p])
    BY DEF PassIndexesWhatItSaw
  <2>1. p \in Files /\ seen[p] # Absent
    BY DEF On
  <2>2. hash[p] = seen[p]
    BY DEF Hashed, PassHashesWhatItSaw
  <2>3. torn = Absent /\ p # Absent
    BY <2>1, AbsentAssumption DEF PassSucceeded, Bookkeeping, Deleting
  <2>4. seen[p] \in chunks[p]
    BY <2>1, <2>2, <2>3 DEF HashHasChunks
  <2>5. NoneOf({"delete"})
    BY DEF NoneOf
  <2>6. chunks[p] = {seen[p]}
    BY <2>1, <2>4, <2>5 DEF OneContent
  <2> QED
    BY <2>1, <2>6 DEF ChunksOf
<1> QED
  BY <1>1, TypeCorrect, BookkeepingInductive, HashedInductive, OneContentInductive,
     HashesVouchForChunks, PTL

-----------------------------------------------------------------------------
(* No change is lost *)

\* What was added of a file is what was seen of it.
Added ==
    NoneOf({"delete"}) /\ pc \in {"embed", "hashes"} =>
        \A p \in changed \ todo : chunks[p] = ChunksOf(seen[p])

LEMMA AddedInductive == Spec => []Added
<1>1. Init => Added
  BY DEF Init, Added
<1>2. TypeOK /\ Bookkeeping /\ NoLeftovers /\ Added /\ [Next]_vars => Added'
  <2> SUFFICES ASSUME TypeOK, Bookkeeping, NoLeftovers, Added, [Next]_vars,
                      NoneOf({"delete"})', pc' \in {"embed", "hashes"},
                      NEW p \in changed' \ todo'
               PROVE  chunks'[p] = ChunksOf(seen'[p])
    BY DEF Added, ChunksOf
  <2>1. NoneOf({"delete"})
    BY FaultsStay DEF NoneOf
  <2>2. CASE AddChunks
    <3>1. PICK b \in SUBSET todo : chunks' = Stored(b) /\ todo' = todo \ b
      BY <2>2 DEF AddChunks, Batches
    <3>2. Cleared(todo) /\ seen' = seen /\ p \in Files /\ p \in changed
      BY <2>1, <2>2 DEF AddChunks, NoLeftovers, TypeOK
    <3>3. CASE p \in b
      BY <3>1, <3>2, <3>3 DEF Stored, Cleared
    <3>4. CASE p \notin b
      BY <2>1, <2>2, <3>1, <3>2, <3>4 DEF AddChunks, Stored, Added
    <3> QED
      BY <3>3, <3>4
  <2>3. CASE SaveHashes
    BY <2>1, <2>3 DEF SaveHashes, local, Added
  <2>4. CASE Rebuilt
    BY <2>4 DEF Rebuilt
  <2>5. ASSUME NEW q \in Files, ReadFile(q) PROVE FALSE
    BY <2>5 DEF ReadFile, EndJob, local
  <2>6. \/ AddChunks \/ SaveHashes \/ Rebuilt
        \/ \E q \in Files : ReadFile(q)
        \/ /\ UNCHANGED <<chunks, changed, todo, seen>>
           /\ pc \in {"embed", "hashes"}
    <3>1. ~Deleting /\ (Retry \/ GiveUp) => pc' \in {"walk", "saveSym", "idle"}
      BY AfterFailure
    <3> QED
      BY <3>1, Steps DEF vars, store, local, Deleting, BeginInitial, BeginRebuild, BeginFile,
         DeleteChunks, DeleteHash, DeleteFails, Purged, Walk, WalkFails, EmbedFails, AddFails,
         SaveHashesFails, SaveSymbols, SaveSymbolsFails, SaveGraph, Crash, StartWatcher, Edit,
         FileVanishes
  <2>7. CASE UNCHANGED <<chunks, changed, todo, seen>> /\ pc \in {"embed", "hashes"}
    BY <2>1, <2>7 DEF Added
  <2> QED
    BY <2>2, <2>3, <2>4, <2>5, <2>6, <2>7
<1> QED
  BY <1>1, <1>2, TypeCorrect, BookkeepingInductive, NoLeftoversInductive, PTL DEF Spec

\* What WatchedIsFresh becomes within a job.  Of a file without a change to come:
\* a pass keeps nothing if it is not on disk, and after the walk it has seen what is
\* there; a single-file job has seen what is there of its own file, and leaves the
\* others alone; when the writing is over the store agrees with the disk.
FileIsFresh(p) ==
    /\ pc \in {"idle", "saveSym", "saveGraph", "halted"} => Fresh(p)
    /\ job # "file" /\ pc \in {"purge", "walk"} =>
          /\ disk[p] = Absent => chunks[p] = {}
          /\ p \in ignored => Fresh(p)
    /\ job # "file" /\ pc \in {"stale", "embed", "hashes"} =>
          IF p \in ignored THEN seen[p] = Absent /\ Fresh(p)
          ELSE seen[p] = disk[p] /\ (disk[p] = Absent => chunks[p] = {})
    /\ job = "file" /\ pc \in {"purge", "read", "embed", "hashes"} =>
          IF p \in changed THEN seen[p] = disk[p] ELSE Fresh(p)

AllFresh ==
    NoneOf({"crash", "add", "delete"}) => \A p \in Files \ (events \cup missed) : FileIsFresh(p)

\* After a failure the walk comes again, or what the job was about is missed.
LEMMA FreshAfterFailure ==
    ASSUME TypeOK, Bookkeeping, pc \in {"walk", "embed", "hashes"}, Retry \/ GiveUp,
           NEW p \in Files, p \notin missed', FileIsFresh(p) \/ p \in missed,
           UNCHANGED <<disk, ignored, chunks>>
    PROVE  FileIsFresh(p)'
<1>1. CASE job # "file" /\ attempt + 1 < MaxAttempts /\ Retry
  BY <1>1 DEF Retry, FileIsFresh, Fresh, ChunksOf
<1>2. CASE GiveUp
  <2>1. job = "file" /\ p \notin changed /\ p \notin missed
    BY <1>2 DEF GiveUp
  <2>2. pc' = "idle" /\ job' = "none"
    BY <1>2, <2>1 DEF GiveUp, EndJob
  <2>3. Fresh(p)
    BY <2>1 DEF FileIsFresh, Bookkeeping
  <2> QED
    BY <2>2, <2>3 DEF FileIsFresh, Fresh, ChunksOf
<1> QED
  BY <1>1, <1>2 DEF Retry

\* A pass whose writing is over has stored of an unchanged file what it saw.
LEMMA UnchangedIsFresh ==
    ASSUME TypeOK, Bookkeeping, Hashed, OneContent, HashHasChunks,
           NoneOf({"crash", "add", "delete"}), torn = Absent,
           job # "file", pc \in {"stale", "hashes"}, NEW p \in On(seen) \ changed
    PROVE  chunks[p] = ChunksOf(seen[p])
<1>1. p \in Files /\ seen[p] # Absent /\ p # torn
  BY AbsentAssumption DEF On
<1>2. hash[p] = seen[p]
  BY DEF Hashed
<1>3. seen[p] \in chunks[p]
  BY <1>1, <1>2 DEF HashHasChunks
<1>4. NoneOf({"delete"})
  BY DEF NoneOf
<1>5. chunks[p] = {seen[p]}
  BY <1>1, <1>3, <1>4 DEF OneContent
<1> QED
  BY <1>1, <1>5 DEF ChunksOf

LEMMA FreshInductive == Spec => []AllFresh
<1>1. Init => AllFresh
  BY DEF Init, AllFresh, FileIsFresh, Fresh, ChunksOf, On
<1>2. /\ TypeOK /\ Bookkeeping /\ Hashed /\ NoLeftovers /\ OneContent /\ HashHasChunks
      /\ Added /\ AllFresh /\ [Next]_vars
      => AllFresh'
  <2> SUFFICES ASSUME TypeOK, Bookkeeping, Hashed, NoLeftovers, OneContent, HashHasChunks,
                      Added, AllFresh, [Next]_vars, NoneOf({"crash", "add", "delete"})',
                      NEW p \in Files, p \notin events', p \notin missed'
               PROVE  FileIsFresh(p)'
    BY DEF AllFresh
  <2>0. NoneOf({"crash", "add", "delete"}) /\ NoneOf({"delete"})
    BY FaultsStay DEF NoneOf
  <2>a. p \notin events \cup missed => FileIsFresh(p)
    BY <2>0 DEF AllFresh
  <2> USE <2>0, <2>a DEF local, derived, outside, FileIsFresh, Fresh, ChunksOf
  <2>1. CASE BeginInitial
    BY <2>1 DEF BeginInitial, store
  <2>2. CASE BeginRebuild
    BY <2>2 DEF BeginRebuild, store
  <2>3. ASSUME NEW q \in Files, BeginFile(q) PROVE FileIsFresh(p)'
    <3>1. job' = "file" /\ pc' = "purge" /\ changed' = {q}
      BY <2>3 DEF BeginFile
    <3>2. CASE p = q
      <4>1. seen'[p] = disk'[p]
        BY <2>3, <3>2 DEF BeginFile, Nothing
      <4> QED
        BY <3>1, <3>2, <4>1
    <3>3. CASE p # q
      <4>1. p \notin events \cup missed /\ pc = "idle" /\ UNCHANGED <<chunks, ignored, disk>>
        BY <2>3, <3>3 DEF BeginFile, store
      <4> QED
        BY <3>1, <3>3, <4>1
    <3> QED
      BY <3>2, <3>3
  <2>4. ASSUME NEW q \in Files, DeleteChunks(q) PROVE FileIsFresh(p)'
    BY <2>4 DEF DeleteChunks, Deleting, Bookkeeping, TypeOK
  <2>5. CASE DeleteHash
    BY <2>5 DEF DeleteHash, Deleting
  <2>6. CASE DeleteFails \/ AddFails \/ Crash
    BY <2>6 DEF DeleteFails, AddFails, Crash, Fault, NoneOf
  <2>7. CASE Purged
    BY <2>7 DEF Purged, store
  <2>8. CASE Walk
    BY <2>8, IndexedIs DEF Walk, store, On, Bookkeeping, AllFresh
  <2>9. CASE Rebuilt
    <3>1. p \notin events \cup missed /\ job # "file" /\ torn = Absent
      BY <2>9 DEF Rebuilt, Bookkeeping
    <3>2. CASE changed = {}
      <4>1. seen[p] # Absent => chunks[p] = ChunksOf(seen[p])
        BY <2>9, <3>1, <3>2, UnchangedIsFresh DEF Rebuilt, On
      <4> QED
        BY <2>9, <3>1, <3>2, <4>1 DEF Rebuilt, store
    <3>3. CASE changed # {}
      BY <2>9, <3>1, <3>3 DEF Rebuilt, store
    <3> QED
      BY <3>2, <3>3
  <2>10. ASSUME NEW q \in Files, ReadFile(q) PROVE FileIsFresh(p)'
    <3>1. Cleared(changed) /\ changed = {q} /\ job = "file"
      BY <2>10 DEF ReadFile, NoLeftovers, Bookkeeping
    <3> QED
      BY <2>10, <3>1 DEF ReadFile, EndJob, store, Cleared, TypeOK
  <2>11. CASE WalkFails \/ EmbedFails \/ SaveHashesFails
    <3>1. Retry /\ pc \in {"walk", "embed", "hashes"} /\ UNCHANGED <<disk, ignored, chunks, events>>
      BY <2>11 DEF WalkFails, EmbedFails, SaveHashesFails, store
    <3> QED
      BY <3>1, FreshAfterFailure
  <2>12. CASE AddChunks
    <3>1. PICK b \in SUBSET todo : chunks' = Stored(b)
      BY <2>12 DEF AddChunks, Batches
    <3>2. todo \subseteq changed /\ (job # "file" => changed \subseteq On(seen))
      BY <2>12 DEF AddChunks, Bookkeeping
    <3>3. p \notin b => chunks'[p] = chunks[p]
      BY <3>1 DEF Stored
    <3> QED
      BY <2>12, <3>2, <3>3 DEF AddChunks, On
  <2>13. CASE SaveHashes
    <3>1. p \notin events \cup missed /\ torn = Absent
      BY <2>13 DEF SaveHashes, Bookkeeping, Deleting
    <3>2. CASE todo # {}
      BY <2>13, <3>1, <3>2 DEF SaveHashes
    <3>3. CASE todo = {}
      <4>1. p \in changed => chunks[p] = ChunksOf(seen[p])
        BY <2>13, <3>3 DEF SaveHashes, Added
      <4>2. job # "file" /\ p \notin changed /\ seen[p] # Absent => chunks[p] = ChunksOf(seen[p])
        BY <2>13, <3>1, UnchangedIsFresh DEF SaveHashes, On
      <4> QED
        BY <2>13, <3>1, <3>3, <4>1, <4>2 DEF SaveHashes
    <3> QED
      BY <3>2, <3>3
  <2>14. CASE SaveSymbols
    BY <2>14 DEF SaveSymbols, store
  <2>15. CASE SaveSymbolsFails
    BY <2>15 DEF SaveSymbolsFails, EndJob, store
  <2>16. CASE SaveGraph
    BY <2>16 DEF SaveGraph, EndJob, store
  <2>17. CASE StartWatcher
    BY <2>17 DEF StartWatcher, store
  <2>18. ASSUME NEW q \in Files, Edit(q) PROVE FileIsFresh(p)'
    <3>1. p # q /\ p \notin events \cup missed
      BY <2>18 DEF Edit, Notice
    <3>2. disk'[p] = disk[p]
      BY <2>18, <3>1 DEF Edit, TypeOK
    <3> QED
      BY <2>18, <3>1, <3>2 DEF Edit, store
  <2>19. ASSUME NEW q \in Files, FileVanishes(q) PROVE FileIsFresh(p)'
    <3>1. missed' = Files
      BY <2>19 DEF FileVanishes, GiveUp, Bookkeeping
    <3> QED
      BY <3>1
  <2>20. CASE UNCHANGED vars
    BY <2>20 DEF vars
  <2> QED
    BY <2>1, <2>2, <2>3, <2>4, <2>5, <2>6, <2>7, <2>8, <2>9, <2>10, <2>11, <2>12, <2>13, <2>14,
       <2>15, <2>16, <2>17, <2>18, <2>19, <2>20, Steps
<1> QED
  BY <1>1, <1>2, TypeCorrect, BookkeepingInductive, HashedInductive, NoLeftoversInductive,
     OneContentInductive, HashesVouchForChunks, AddedInductive, PTL DEF Spec

\* Between jobs the store agrees with the disk on every file that has no watcher job
\* to come and was not changed without a watcher or by a job that gave up: an edit
\* during a job is never lost, wherever it falls.
THEOREM NoChangeIsLost == Spec => []WatchedIsFresh
<1>1. AllFresh => WatchedIsFresh
  BY DEF AllFresh, FileIsFresh, WatchedIsFresh
<1> QED
  BY <1>1, FreshInductive, PTL

-----------------------------------------------------------------------------
(* Symbols and call graph *)

Written == job # "file" /\ (pc \in {"embed", "hashes"} \/ (pc = "saveSym" /\ ~failed))

\* The symbols are those of the content that has the hash, except for files whose
\* deletion has begun; those of what a pass stores are written before it is embedded.
SymbolsFollow ==
    NoneOf({"crash", "delete"}) =>
        /\ \A p \in Files : hash[p] # Absent /\ (pc = "purge" => p \notin todo) => sym[p] = hash[p]
        /\ Written => \A p \in changed : sym[p] = seen[p]

LEMMA SymbolsFollowInductive == Spec => []SymbolsFollow
<1>1. Init => SymbolsFollow
  BY DEF Init, SymbolsFollow, Nothing, Written
<1>2. /\ TypeOK /\ Bookkeeping /\ Hashed /\ NoLeftovers /\ SymbolsFollow /\ [Next]_vars
      => SymbolsFollow'
  <2> SUFFICES ASSUME TypeOK, Bookkeeping, Hashed, NoLeftovers, SymbolsFollow, [Next]_vars,
                      NoneOf({"crash", "delete"})'
               PROVE  SymbolsFollow'
    BY DEF SymbolsFollow
  <2>0. NoneOf({"crash", "delete"}) /\ NoneOf({"delete"})
    BY FaultsStay DEF NoneOf
  <2> USE <2>0 DEF local, derived, Written
  <2>1. CASE BeginInitial
    BY <2>1 DEF BeginInitial, Forget, Without, store, SymbolsFollow, TypeOK
  <2>2. CASE BeginRebuild
    BY <2>2 DEF BeginRebuild, Forget, Without, store, SymbolsFollow, TypeOK
  <2>3. ASSUME NEW p \in Files, BeginFile(p) PROVE SymbolsFollow'
    BY <2>3 DEF BeginFile, store, SymbolsFollow
  <2>4. ASSUME NEW p \in Files, DeleteChunks(p) PROVE SymbolsFollow'
    BY <2>4 DEF DeleteChunks, Deleting, SymbolsFollow
  <2>5. CASE DeleteHash
    BY <2>5 DEF DeleteHash, Deleting, SymbolsFollow, TypeOK
  <2>6. CASE DeleteFails \/ Crash
    BY <2>6 DEF DeleteFails, Crash, Fault, NoneOf
  <2>7. CASE Purged
    BY <2>7 DEF Purged, store, SymbolsFollow
  <2>8. CASE Walk
    BY <2>8 DEF Walk, store, SymbolsFollow
  <2>9. CASE Rebuilt
    <3>1. \A p \in changed : hash[p] = Absent
      BY <2>9 DEF Rebuilt, NoLeftovers, Cleared
    <3>2. \A p \in Files : hash[p] # Absent => sym[p] = hash[p]
      BY <2>9 DEF Rebuilt, SymbolsFollow
    <3>3. \A p \in GraphOnly : hash[p] = seen[p]
      BY <2>9 DEF Rebuilt, GraphOnly, Bookkeeping, Hashed
    <3>4. \A p \in Files : hash'[p] = hash[p]
                           /\ sym'[p] = IF p \in changed \cup GraphOnly THEN seen[p] ELSE sym[p]
      BY <2>9 DEF Rebuilt, With, store
    <3>5. changed' = changed /\ seen' = seen /\ changed \subseteq Files
      BY <2>9 DEF Rebuilt, TypeOK
    <3> QED
      BY <3>1, <3>2, <3>3, <3>4, <3>5 DEF SymbolsFollow
  <2>10. ASSUME NEW p \in Files, ReadFile(p) PROVE SymbolsFollow'
    BY <2>10 DEF ReadFile, EndJob, With, Without, store, Bookkeeping, NoLeftovers, Cleared,
       SymbolsFollow, TypeOK
  <2>11. CASE WalkFails \/ EmbedFails \/ SaveHashesFails
    <3>1. Retry /\ ~Deleting /\ UNCHANGED <<hash, sym>>
      BY <2>11 DEF WalkFails, EmbedFails, SaveHashesFails, store, Deleting
    <3> QED
      BY <2>11, <3>1, AfterFailure DEF WalkFails, EmbedFails, SaveHashesFails, SymbolsFollow
  <2>12. CASE AddChunks \/ AddFails
    <3>1. PICK b \in SUBSET todo : hash' = Claimed(b)
      BY <2>12 DEF AddChunks, AddFails, Batches
    <3>2. todo \subseteq changed /\ changed \subseteq Files
      BY <2>12 DEF AddChunks, AddFails, Bookkeeping, TypeOK
    <3>3. \A p \in Files : hash'[p] # Absent => sym[p] = hash'[p]
      <4>1. pc = "embed"
        BY <2>12 DEF AddChunks, AddFails
      <4>2. ASSUME NEW p \in b, HashOf(p) # Absent PROVE sym[p] = HashOf(p)
        <5>1. job # "file" /\ HashOf(p) = seen[p]
          BY <4>2 DEF HashOf
        <5>2. p \in changed
          BY <3>1, <3>2
        <5> QED
          BY <4>1, <5>1, <5>2 DEF SymbolsFollow
      <4>3. \A p \in Files : hash[p] # Absent => sym[p] = hash[p]
        BY <4>1 DEF SymbolsFollow
      <4> QED
        BY <3>1, <4>2, <4>3 DEF Claimed
    <3>4. CASE AddChunks
      BY <3>3, <3>4 DEF AddChunks, SymbolsFollow
    <3>5. CASE AddFails
      <4>1. Retry /\ ~Deleting /\ sym' = sym
        BY <3>5 DEF AddFails, Deleting
      <4> QED
        BY <3>3, <4>1, AfterFailure DEF SymbolsFollow
    <3> QED
      BY <2>12, <3>4, <3>5
  <2>13. CASE SaveHashes
    BY <2>13 DEF SaveHashes, SymbolsFollow
  <2>14. CASE SaveSymbols
    BY <2>14 DEF SaveSymbols, store, SymbolsFollow
  <2>15. CASE SaveSymbolsFails
    BY <2>15 DEF SaveSymbolsFails, EndJob, store, SymbolsFollow
  <2>16. CASE SaveGraph
    BY <2>16 DEF SaveGraph, EndJob, store, SymbolsFollow
  <2>17. CASE StartWatcher
    BY <2>17 DEF StartWatcher, store, SymbolsFollow
  <2>18. ASSUME NEW p \in Files, Edit(p) PROVE SymbolsFollow'
    BY <2>18 DEF Edit, store, SymbolsFollow
  <2>19. ASSUME NEW p \in Files, FileVanishes(p) PROVE SymbolsFollow'
    <3>1. GiveUp /\ ~Deleting /\ pc = "walk" /\ UNCHANGED <<hash, sym>>
      BY <2>19 DEF FileVanishes, store, Deleting
    <3> QED
      BY <3>1, AfterFailure DEF SymbolsFollow
  <2>20. CASE UNCHANGED vars
    BY <2>20 DEF vars, SymbolsFollow
  <2> QED
    BY <2>1, <2>2, <2>3, <2>4, <2>5, <2>6, <2>7, <2>8, <2>9, <2>10, <2>11, <2>12, <2>13, <2>14,
       <2>15, <2>16, <2>17, <2>18, <2>19, <2>20, Steps
<1> QED
  BY <1>1, <1>2, TypeCorrect, BookkeepingInductive, HashedInductive, NoLeftoversInductive, PTL
     DEF Spec

\* A pass that succeeds leaves the symbols of what it saw.
THEOREM PassesKeepSymbols == Spec => []PassKeepsSymbols
<1>1. Hashed /\ SymbolsFollow => PassKeepsSymbols
  <2> SUFFICES ASSUME Hashed, SymbolsFollow, PassSucceeded, NoneOf({"crash", "delete"}),
                      NEW p \in On(seen)
               PROVE  sym[p] = seen[p]
    BY DEF PassKeepsSymbols
  <2>1. hash[p] = seen[p] /\ seen[p] # Absent /\ p \in Files
    BY DEF Hashed, PassHashesWhatItSaw, On
  <2> QED
    BY <2>1 DEF PassSucceeded, SymbolsFollow
<1> QED
  BY <1>1, HashedInductive, SymbolsFollowInductive, PTL

\* Once a pass has written the call graph, no file that it saw is missing there.
Covered == Written => \A p \in On(seen) : graph[p] # Absent

\* A pass that succeeds leaves no file out of the call graph, whatever was loaded,
\* saved or deleted before.
THEOREM PassesCoverTheGraph == Spec => []PassCoversGraph
<1>1. Init => Covered
  BY DEF Init, Covered, Written
<1>2. TypeOK /\ Bookkeeping /\ Covered /\ [Next]_vars => Covered'
  <2> SUFFICES ASSUME TypeOK, Bookkeeping, Covered, [Next]_vars, Written'
               PROVE  \A p \in On(seen)' : graph'[p] # Absent
    BY DEF Covered
  <2>1. CASE Rebuilt
    <3>1. \A p \in On(seen) \ (changed \cup GraphOnly) : graph[p] # Absent
      BY DEF GraphOnly
    <3>2. seen' = seen /\ graph' = With(graph, changed \cup GraphOnly, seen)
      BY <2>1 DEF Rebuilt
    <3> QED
      BY <3>1, <3>2 DEF With, On
  <2>2. ASSUME NEW q \in Files, ReadFile(q) PROVE FALSE
    BY <2>2 DEF ReadFile, Bookkeeping, Written, EndJob, local
  <2>3. \/ Rebuilt
        \/ \E q \in Files : ReadFile(q)
        \/ Written /\ UNCHANGED <<seen, graph>>
    <3>1. ~Deleting /\ (Retry \/ GiveUp) => ~Written'
      BY AfterFailure DEF Written
    <3> QED
      BY <3>1, Steps DEF Written, vars, local, derived, outside, Deleting, EndJob, BeginInitial,
         BeginRebuild, BeginFile, DeleteChunks, DeleteHash, DeleteFails, Purged, Walk, WalkFails,
         EmbedFails, AddChunks, AddFails, SaveHashes, SaveHashesFails, SaveSymbols,
         SaveSymbolsFails, SaveGraph, Crash, StartWatcher, Edit, FileVanishes
  <2> QED
    BY <2>1, <2>2, <2>3 DEF Covered, On
<1>3. Covered => PassCoversGraph
  BY DEF Covered, PassCoversGraph, PassSucceeded, Pass, Written
<1> QED
  BY <1>1, <1>2, <1>3, TypeCorrect, BookkeepingInductive, PTL DEF Spec

\* A pass that returns without error has stored chunks, symbols, hash and graph of
\* all that its last walk read, each through every fault that cannot part it from
\* the others.
THEOREM PassesStoreWhatTheySaw == Spec => []PassStoresWhatItSaw
<1>1. PassIndexesWhatItSaw /\ PassKeepsSymbols /\ PassHashesWhatItSaw /\ PassCoversGraph
        => PassStoresWhatItSaw
  BY DEF PassStoresWhatItSaw
<1> QED
  BY <1>1, PassesIndexWhatTheySaw, PassesKeepSymbols, PassesHashWhatTheySaw, PassesCoverTheGraph, PTL

=============================================================================
