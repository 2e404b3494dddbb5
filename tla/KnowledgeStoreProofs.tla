------------------------ MODULE KnowledgeStoreProofs ------------------------
(***************************************************************************)
(* Proofs about KnowledgeStore, for any documents, versions and batches    *)
(* and any number of crashes, exceptions and losses.  The inductive        *)
(* invariant says how far an operation has come: what it read, what it     *)
(* deleted, inserted and flushed, and why its documents may be repaired.   *)
(***************************************************************************)
EXTENDS KnowledgeStore, TLAPS

-----------------------------------------------------------------------------
(* The inductive invariant *)

\* Which operation may be at which step, and on which documents.
Control ==
    /\ step \in {"stat", "read", "check", "publish", "insert", "commit"} =>
           goal = "write"
    /\ step \in {"delete", "clear"} => goal # "none"
    /\ step = "mark" => goal = "delete"
    /\ step = "forget" => goal \in {"remove", "delete"}
    /\ step \in {"free", "sync"} => goal = "none" /\ work = {}
    /\ goal = "write" => \E d \in Docs : work = {d}
    /\ step \notin {"insert", "commit"} => next = 1
    /\ step = "sync" => sync = "holding"
    /\ sync # "none" => status = "running"
    /\ sync = "holding" => step # "free" /\ goal # "delete"

\* A deletion that was asked for marks its documents before it deletes.
Marked ==
    goal = "delete" =>
        /\ work \subseteq Known
        /\ step \in {"delete", "clear"} => work \subseteq pending

\* What is written was read from a file that had the recorded time before and
\* after.
Draft ==
    /\ \A d \in Docs : documents[d].mtime <= version[d]
    /\ \A d \in work : goal = "write" =>
        /\ step = "read" => mtime # 0 /\ mtime <= version[d]
        /\ step = "check" => mtime # 0 /\ mtime <= text /\ text <= version[d]
        /\ step \in {"delete", "clear", "publish", "insert", "commit"} =>
               mtime # 0 /\ text = mtime /\ mtime <= version[d]

EmptyIn(i, d) == \A n \in Numbers : i[d][n] = 0

WholeIn(i, d) ==
    \A n \in Numbers :
        i[d][n] = IF n <= documents[d].pieces THEN documents[d].mtime ELSE 0

SoundIn(i, d) ==
    \A n \in Numbers :
        i[d][n] # 0 => i[d][n] = documents[d].mtime /\ n <= documents[d].pieces

\* How far an operation is with the vectors of its documents.
Progress ==
    /\ dir # "ready" => index = NoVectors /\ stored = NoVectors
    /\ step \in {"clear", "publish", "insert", "commit"} => dir = "ready"
    /\ \A d \in work :
        /\ step \in {"clear", "publish", "forget"} => EmptyIn(index, d)
        /\ step \in {"publish", "forget"} => EmptyIn(stored, d)
        /\ step \in {"insert", "commit"} =>
               /\ d \in pending
               /\ documents[d] = [mtime |-> mtime, pieces |-> Pieces[text]]
        /\ step = "insert" => \A n \in Numbers :
               index[d][n] = IF n < next /\ n <= Pieces[text] THEN text ELSE 0
        /\ step = "commit" => WholeIn(index, d) /\ WholeIn(stored, d)

\* RecordedText, also of what survives a crash.
Sound == \A d \in Docs \ pending : SoundIn(index, d) /\ SoundIn(stored, d)

\* The next synchronisation writes or removes the document.
Stale(d) == documents[d].mtime < version[d] \/ d \in gone

\* Without losses, a document that may be incomplete is pending or stale.
Repairable ==
    OnlyFailures =>
        /\ dir # "ready" => Known = {}
        /\ \A d \in Known \ pending :
               Stale(d) \/ (WholeIn(index, d) /\ WholeIn(stored, d))
        /\ \A d \in (work \cap Known) \ pending :
               goal \in {"write", "remove"} => Stale(d)

\* What a synchronisation that still holds the lock has done.
Synced ==
    OnlyFailures /\ sync = "holding" =>
        /\ rebuild => todo = {}
        /\ \A d \in Known \ (todo \cup work) :
               d \notin pending /\ WholeIn(index, d)

IInv ==
    /\ TypeOK /\ Control /\ Marked /\ Draft
    /\ Progress /\ Sound /\ Repairable /\ Synced

-----------------------------------------------------------------------------
(* Every step preserves every part *)

\* The catalog is well typed: only recorded documents are pending.
LEMMA CatalogTypeStep == IInv /\ [Next]_vars => CatalogType'
<1> SUFFICES ASSUME IInv, [Next]_vars PROVE CatalogType'
  OBVIOUS
<1> USE StoreAssumption DEF IInv, TypeOK, vars, files, catalog, vectors, locals,
       syncing, troubled
<1>1. ASSUME NEW d \in Docs, Import(d) PROVE CatalogType'
  BY <1>1 DEF Import, CatalogType, Known
<1>2. ASSUME NEW d \in Docs, Stat(d) PROVE CatalogType'
  BY <1>2 DEF Stat, CatalogType, Known
<1>3. ASSUME NEW d \in Docs, ReadText(d) PROVE CatalogType'
  BY <1>3 DEF ReadText, CatalogType, Known
<1>4. ASSUME NEW d \in Docs, CheckText(d) PROVE CatalogType'
  BY <1>4 DEF CheckText, CatalogType, Known
<1>5. ASSUME DestroyOld PROVE CatalogType'
  BY <1>5 DEF DestroyOld, CatalogType, Known
<1>6. ASSUME DeleteVectors PROVE CatalogType'
  BY <1>6 DEF DeleteVectors, CatalogType, Known
<1>7. ASSUME DeleteRaises PROVE CatalogType'
  BY <1>7 DEF DeleteRaises, CatalogType, Known
<1>8. ASSUME FlushDeletion PROVE CatalogType'
  BY <1>8 DEF FlushDeletion, CatalogType, Known
<1>9. ASSUME NEW d \in Docs, Publish(d) PROVE CatalogType'
  BY <1>9 DEF Publish, CatalogType, IndexType, OperationType, Known, Record,
     NoRecord, Versions, Numbers, Control, Draft, Marked
<1>10. ASSUME NEW d \in Docs, Insert(d) PROVE CatalogType'
  BY <1>10 DEF Insert, CatalogType, Known
<1>11. ASSUME FlushInserts PROVE CatalogType'
  BY <1>11 DEF FlushInserts, CatalogType, Known
<1>12. ASSUME NEW d \in Docs, Commit(d) PROVE CatalogType'
  BY <1>12 DEF Commit, CatalogType, Known
<1>13. ASSUME NEW selected \in SUBSET Docs, Delete(selected) PROVE CatalogType'
  BY <1>13 DEF Delete, CatalogType, Known
<1>14. ASSUME Mark PROVE CatalogType'
  BY <1>14 DEF Mark, CatalogType, IndexType, OperationType, Known, Record,
     NoRecord, Versions, Numbers, Control, Draft, Marked
<1>15. ASSUME Forget PROVE CatalogType'
  BY <1>15 DEF Forget, PendingAfter, Done, NoLocals, CatalogType, Known, Record,
     NoRecord, OperationType, Versions
<1>16. ASSUME RequestSync PROVE CatalogType'
  BY <1>16 DEF RequestSync, CatalogType, Known
<1>17. ASSUME BeginSync PROVE CatalogType'
  BY <1>17 DEF BeginSync, CatalogType, Known
<1>18. ASSUME NEW d \in Docs, SyncDocument(d) PROVE CatalogType'
  BY <1>18 DEF SyncDocument, CatalogType, Known
<1>19. ASSUME EndSync PROVE CatalogType'
  BY <1>19 DEF EndSync, CatalogType, Known
<1>20. ASSUME NEW d \in Docs, Modify(d) PROVE CatalogType'
  <2>1. /\ version[d] < MaxVersion /\ version' = [version EXCEPT ![d] = @ + 1]
        /\ gone' \subseteq gone /\ documents' = documents /\ pending' = pending
    BY <1>20 DEF Modify
  <2>2. version' \in [Docs -> Versions]
    BY <2>1 DEF CatalogType, Versions
  <2> QED
    BY <2>1, <2>2 DEF CatalogType, Known
<1>21. ASSUME NEW d \in Docs, RemoveFile(d) PROVE CatalogType'
  BY <1>21 DEF RemoveFile, CatalogType, Known
<1>22. ASSUME NEW d \in Docs, ReturnFile(d) PROVE CatalogType'
  BY <1>22 DEF ReturnFile, CatalogType, Known
<1>23. ASSUME Fault PROVE CatalogType'
  BY <1>23 DEF Fault, CatalogType, Known
<1>24. ASSUME Crash PROVE CatalogType'
  BY <1>24 DEF Crash, CatalogType, Known
<1>25. ASSUME LoseIndex PROVE CatalogType'
  BY <1>25 DEF LoseIndex, CatalogType, Known
<1>26. CASE UNCHANGED vars
  BY <1>26 DEF CatalogType, Known
<1> QED
  BY <1>1, <1>2, <1>3, <1>4, <1>5, <1>6, <1>7, <1>8, <1>9, <1>10, <1>11, <1>12,
     <1>13, <1>14, <1>15, <1>16, <1>17, <1>18, <1>19, <1>20, <1>21, <1>22,
     <1>23, <1>24, <1>25, <1>26 DEF Next, Write, SyncStep, Request, World

\* The index is well typed.
LEMMA IndexTypeStep == IInv /\ [Next]_vars => IndexType'
<1> SUFFICES ASSUME IInv, [Next]_vars PROVE IndexType'
  OBVIOUS
<1> USE StoreAssumption DEF IInv, TypeOK, vars, files, catalog, vectors, locals,
       syncing, troubled
<1>1. ASSUME NEW d \in Docs, Import(d) PROVE IndexType'
  BY <1>1 DEF Import, IndexType
<1>2. ASSUME NEW d \in Docs, Stat(d) PROVE IndexType'
  BY <1>2 DEF Stat, IndexType
<1>3. ASSUME NEW d \in Docs, ReadText(d) PROVE IndexType'
  BY <1>3 DEF ReadText, IndexType
<1>4. ASSUME NEW d \in Docs, CheckText(d) PROVE IndexType'
  BY <1>4 DEF CheckText, IndexType
<1>5. ASSUME DestroyOld PROVE IndexType'
  BY <1>5 DEF DestroyOld, IndexType
<1>6. ASSUME DeleteVectors PROVE IndexType'
  <2>1. dir' = "ready" /\ stored' = stored
    BY <1>6 DEF DeleteVectors
  <2>2. Deleted(work) \in Index
    BY DEF Deleted, IndexType, Index, Numbers
  <2> QED
    BY <1>6, <2>1, <2>2 DEF DeleteVectors, IndexType
<1>7. ASSUME DeleteRaises PROVE IndexType'
  BY <1>7 DEF DeleteRaises, IndexType
<1>8. ASSUME FlushDeletion PROVE IndexType'
  BY <1>8 DEF FlushDeletion, Flushed, Goes, IndexType
<1>9. ASSUME NEW d \in Docs, Publish(d) PROVE IndexType'
  BY <1>9 DEF Publish, IndexType
<1>10. ASSUME NEW d \in Docs, Insert(d) PROVE IndexType'
  BY <1>10 DEF Insert, IndexType, CatalogType, OperationType, Index, NoVectors,
     Versions, Numbers
<1>11. ASSUME FlushInserts PROVE IndexType'
  BY <1>11 DEF FlushInserts, Flushed, Goes, IndexType
<1>12. ASSUME NEW d \in Docs, Commit(d) PROVE IndexType'
  BY <1>12 DEF Commit, IndexType
<1>13. ASSUME NEW selected \in SUBSET Docs, Delete(selected) PROVE IndexType'
  BY <1>13 DEF Delete, IndexType
<1>14. ASSUME Mark PROVE IndexType'
  BY <1>14 DEF Mark, IndexType
<1>15. ASSUME Forget PROVE IndexType'
  BY <1>15 DEF Forget, IndexType
<1>16. ASSUME RequestSync PROVE IndexType'
  BY <1>16 DEF RequestSync, IndexType
<1>17. ASSUME BeginSync PROVE IndexType'
  BY <1>17 DEF BeginSync, IndexType
<1>18. ASSUME NEW d \in Docs, SyncDocument(d) PROVE IndexType'
  BY <1>18 DEF SyncDocument, IndexType
<1>19. ASSUME EndSync PROVE IndexType'
  BY <1>19 DEF EndSync, IndexType
<1>20. ASSUME NEW d \in Docs, Modify(d) PROVE IndexType'
  BY <1>20 DEF Modify, IndexType
<1>21. ASSUME NEW d \in Docs, RemoveFile(d) PROVE IndexType'
  BY <1>21 DEF RemoveFile, IndexType
<1>22. ASSUME NEW d \in Docs, ReturnFile(d) PROVE IndexType'
  BY <1>22 DEF ReturnFile, IndexType
<1>23. ASSUME Fault PROVE IndexType'
  <2>1. ASSUME NEW some \in SUBSET work PROVE Deleted(some) \in Index
    BY DEF Deleted, IndexType, Index, Numbers
  <2> QED
    BY <1>23, <2>1 DEF Fault, Attempts, IndexType
<1>24. ASSUME Crash PROVE IndexType'
  BY <1>24 DEF Crash, Trouble, NoLocals, NoSync, Survivors, IndexType
<1>25. ASSUME LoseIndex PROVE IndexType'
  BY <1>25 DEF LoseIndex, IndexType, CatalogType, OperationType, Index,
     NoVectors, Versions, Numbers
<1>26. CASE UNCHANGED vars
  BY <1>26 DEF IndexType
<1> QED
  BY <1>1, <1>2, <1>3, <1>4, <1>5, <1>6, <1>7, <1>8, <1>9, <1>10, <1>11, <1>12,
     <1>13, <1>14, <1>15, <1>16, <1>17, <1>18, <1>19, <1>20, <1>21, <1>22,
     <1>23, <1>24, <1>25, <1>26 DEF Next, Write, SyncStep, Request, World

\* The operation and its locals are well typed.
LEMMA OperationTypeStep == IInv /\ [Next]_vars => OperationType'
<1> SUFFICES ASSUME IInv, [Next]_vars PROVE OperationType'
  OBVIOUS
<1> USE StoreAssumption DEF IInv, TypeOK, vars, files, catalog, vectors, locals,
       syncing, troubled
<1>1. ASSUME NEW d \in Docs, Import(d) PROVE OperationType'
  BY <1>1 DEF Import, StartWrite, UpToDate, OperationType, Steps
<1>2. ASSUME NEW d \in Docs, Stat(d) PROVE OperationType'
  BY <1>2 DEF Stat, Raise, NoLocals, NoSync, OperationType, CatalogType, Steps,
     Versions
<1>3. ASSUME NEW d \in Docs, ReadText(d) PROVE OperationType'
  BY <1>3 DEF ReadText, Raise, NoLocals, NoSync, OperationType, CatalogType,
     Steps, Versions
<1>4. ASSUME NEW d \in Docs, CheckText(d) PROVE OperationType'
  BY <1>4 DEF CheckText, Unchanged, Goes, Raise, NoLocals, NoSync,
     OperationType, Steps
<1>5. ASSUME DestroyOld PROVE OperationType'
  BY <1>5 DEF DestroyOld, OperationType, Steps
<1>6. ASSUME DeleteVectors PROVE OperationType'
  BY <1>6 DEF DeleteVectors, Deleted, Goes, OperationType, Steps
<1>7. ASSUME DeleteRaises PROVE OperationType'
  BY <1>7 DEF DeleteRaises, Raise, NoLocals, NoSync, OperationType, Steps
<1>8. ASSUME FlushDeletion PROVE OperationType'
  BY <1>8 DEF FlushDeletion, Flushed, Goes, OperationType, Steps
<1>9. ASSUME NEW d \in Docs, Publish(d) PROVE OperationType'
  BY <1>9 DEF Publish, Goes, OperationType, Steps
<1>10. ASSUME NEW d \in Docs, Insert(d) PROVE OperationType'
  BY <1>10 DEF Insert, OperationType, Steps
<1>11. ASSUME FlushInserts PROVE OperationType'
  BY <1>11 DEF FlushInserts, Flushed, Goes, OperationType, Steps
<1>12. ASSUME NEW d \in Docs, Commit(d) PROVE OperationType'
  BY <1>12 DEF Commit, Unchanged, Done, Raise, NoLocals, NoSync, OperationType,
     Steps
<1>13. ASSUME NEW selected \in SUBSET Docs, Delete(selected)
       PROVE  OperationType'
  BY <1>13 DEF Delete, OperationType, Steps
<1>14. ASSUME Mark PROVE OperationType'
  BY <1>14 DEF Mark, Goes, OperationType, Steps
<1>15. ASSUME Forget PROVE OperationType'
  BY <1>15 DEF Forget, PendingAfter, Done, NoLocals, OperationType, Steps
<1>16. ASSUME RequestSync PROVE OperationType'
  BY <1>16 DEF RequestSync, OperationType, Steps
<1>17. ASSUME BeginSync PROVE OperationType'
  BY <1>17 DEF BeginSync, OperationType, Steps
<1>18. ASSUME NEW d \in Docs, SyncDocument(d) PROVE OperationType'
  BY <1>18 DEF SyncDocument, StartWrite, Skips, UpToDate, OperationType, Steps
<1>19. ASSUME EndSync PROVE OperationType'
  BY <1>19 DEF EndSync, OperationType, Steps
<1>20. ASSUME NEW d \in Docs, Modify(d) PROVE OperationType'
  BY <1>20 DEF Modify, OperationType, Steps
<1>21. ASSUME NEW d \in Docs, RemoveFile(d) PROVE OperationType'
  BY <1>21 DEF RemoveFile, OperationType, Steps
<1>22. ASSUME NEW d \in Docs, ReturnFile(d) PROVE OperationType'
  BY <1>22 DEF ReturnFile, OperationType, Steps
<1>23. ASSUME Fault PROVE OperationType'
  BY <1>23 DEF Fault, Trouble, Raise, NoLocals, NoSync, OperationType, Steps
<1>24. ASSUME Crash PROVE OperationType'
  BY <1>24 DEF Crash, Trouble, NoLocals, NoSync, OperationType, Steps
<1>25. ASSUME LoseIndex PROVE OperationType'
  BY <1>25 DEF LoseIndex, OperationType, Steps
<1>26. CASE UNCHANGED vars
  BY <1>26 DEF OperationType, Steps
<1> QED
  BY <1>1, <1>2, <1>3, <1>4, <1>5, <1>6, <1>7, <1>8, <1>9, <1>10, <1>11, <1>12,
     <1>13, <1>14, <1>15, <1>16, <1>17, <1>18, <1>19, <1>20, <1>21, <1>22,
     <1>23, <1>24, <1>25, <1>26 DEF Next, Write, SyncStep, Request, World

\* The synchronisation's state is well typed.
LEMMA SyncTypeStep == IInv /\ [Next]_vars => SyncType'
<1> SUFFICES ASSUME IInv, [Next]_vars PROVE SyncType'
  OBVIOUS
<1> USE StoreAssumption DEF IInv, TypeOK, vars, files, catalog, vectors, locals,
       syncing, troubled
<1>1. ASSUME NEW d \in Docs, Import(d) PROVE SyncType'
  BY <1>1 DEF Import, SyncType
<1>2. ASSUME NEW d \in Docs, Stat(d) PROVE SyncType'
  BY <1>2 DEF Stat, Raise, NoLocals, NoSync, SyncType
<1>3. ASSUME NEW d \in Docs, ReadText(d) PROVE SyncType'
  BY <1>3 DEF ReadText, Raise, NoLocals, NoSync, SyncType
<1>4. ASSUME NEW d \in Docs, CheckText(d) PROVE SyncType'
  BY <1>4 DEF CheckText, Unchanged, Goes, Raise, NoLocals, NoSync, SyncType
<1>5. ASSUME DestroyOld PROVE SyncType'
  BY <1>5 DEF DestroyOld, SyncType
<1>6. ASSUME DeleteVectors PROVE SyncType'
  BY <1>6 DEF DeleteVectors, Deleted, Goes, SyncType
<1>7. ASSUME DeleteRaises PROVE SyncType'
  BY <1>7 DEF DeleteRaises, Raise, NoLocals, NoSync, SyncType
<1>8. ASSUME FlushDeletion PROVE SyncType'
  BY <1>8 DEF FlushDeletion, Flushed, Goes, SyncType
<1>9. ASSUME NEW d \in Docs, Publish(d) PROVE SyncType'
  BY <1>9 DEF Publish, Goes, SyncType
<1>10. ASSUME NEW d \in Docs, Insert(d) PROVE SyncType'
  BY <1>10 DEF Insert, SyncType
<1>11. ASSUME FlushInserts PROVE SyncType'
  BY <1>11 DEF FlushInserts, Flushed, Goes, SyncType
<1>12. ASSUME NEW d \in Docs, Commit(d) PROVE SyncType'
  BY <1>12 DEF Commit, Unchanged, Done, Raise, NoLocals, NoSync, SyncType
<1>13. ASSUME NEW selected \in SUBSET Docs, Delete(selected) PROVE SyncType'
  BY <1>13 DEF Delete, SyncType
<1>14. ASSUME Mark PROVE SyncType'
  BY <1>14 DEF Mark, Goes, SyncType
<1>15. ASSUME Forget PROVE SyncType'
  BY <1>15 DEF Forget, PendingAfter, Done, NoLocals, SyncType
<1>16. ASSUME RequestSync PROVE SyncType'
  BY <1>16 DEF RequestSync, SyncType
<1>17. ASSUME BeginSync PROVE SyncType'
  BY <1>17 DEF BeginSync, SyncType, Known
<1>18. ASSUME NEW d \in Docs, SyncDocument(d) PROVE SyncType'
  BY <1>18 DEF SyncDocument, SyncType
<1>19. ASSUME EndSync PROVE SyncType'
  BY <1>19 DEF EndSync, NoSync, SyncType
<1>20. ASSUME NEW d \in Docs, Modify(d) PROVE SyncType'
  BY <1>20 DEF Modify, SyncType
<1>21. ASSUME NEW d \in Docs, RemoveFile(d) PROVE SyncType'
  BY <1>21 DEF RemoveFile, SyncType
<1>22. ASSUME NEW d \in Docs, ReturnFile(d) PROVE SyncType'
  BY <1>22 DEF ReturnFile, Trouble, SyncType
<1>23. ASSUME Fault PROVE SyncType'
  <2>1. count' \in 0..MaxTroubles /\ seen' \subseteq Troubles
    BY <1>23 DEF Fault, Trouble, SyncType
  <2>2. status' \in {"error", status} /\ sync' \in {"none", sync}
    BY <1>23 DEF Fault, Raise, NoSync
  <2>3. todo' \in {{}, todo} /\ rebuild' \in {FALSE, rebuild}
    BY <1>23 DEF Fault, Raise, NoSync
  <2> QED
    BY <2>1, <2>2, <2>3 DEF SyncType
<1>24. ASSUME Crash PROVE SyncType'
  <2>1. count' \in 0..MaxTroubles /\ seen' \subseteq Troubles
    BY <1>24 DEF Crash, Trouble, SyncType
  <2> QED
    BY <1>24, <2>1 DEF Crash, NoSync, SyncType
<1>25. ASSUME LoseIndex PROVE SyncType'
  BY <1>25 DEF LoseIndex, Trouble, NoVectors, SyncType
<1>26. CASE UNCHANGED vars
  BY <1>26 DEF SyncType
<1> QED
  BY <1>1, <1>2, <1>3, <1>4, <1>5, <1>6, <1>7, <1>8, <1>9, <1>10, <1>11, <1>12,
     <1>13, <1>14, <1>15, <1>16, <1>17, <1>18, <1>19, <1>20, <1>21, <1>22,
     <1>23, <1>24, <1>25, <1>26 DEF Next, Write, SyncStep, Request, World

\* Every operation is where its code may be.
LEMMA ControlStep == IInv /\ [Next]_vars => Control'
<1> SUFFICES ASSUME IInv, [Next]_vars PROVE Control'
  OBVIOUS
<1> USE StoreAssumption DEF IInv, TypeOK, vars, files, catalog, vectors, locals,
       syncing, troubled
<1>1. ASSUME NEW d \in Docs, Import(d) PROVE Control'
  BY <1>1 DEF Import, StartWrite, UpToDate, Control
<1>2. ASSUME NEW d \in Docs, Stat(d) PROVE Control'
  BY <1>2 DEF Stat, Raise, NoLocals, NoSync, Control
<1>3. ASSUME NEW d \in Docs, ReadText(d) PROVE Control'
  BY <1>3 DEF ReadText, Raise, NoLocals, NoSync, Control
<1>4. ASSUME NEW d \in Docs, CheckText(d) PROVE Control'
  BY <1>4 DEF CheckText, Unchanged, Goes, Raise, NoLocals, NoSync, Control
<1>5. ASSUME DestroyOld PROVE Control'
  BY <1>5 DEF DestroyOld, Control
<1>6. ASSUME DeleteVectors PROVE Control'
  BY <1>6 DEF DeleteVectors, Deleted, Goes, Control
<1>7. ASSUME DeleteRaises PROVE Control'
  BY <1>7 DEF DeleteRaises, Raise, NoLocals, NoSync, Control
<1>8. ASSUME FlushDeletion PROVE Control'
  BY <1>8 DEF FlushDeletion, Flushed, Goes, Control, OperationType, SyncType
<1>9. ASSUME NEW d \in Docs, Publish(d) PROVE Control'
  BY <1>9 DEF Publish, Goes, Control
<1>10. ASSUME NEW d \in Docs, Insert(d) PROVE Control'
  BY <1>10 DEF Insert, Control
<1>11. ASSUME FlushInserts PROVE Control'
  BY <1>11 DEF FlushInserts, Flushed, Goes, Control
<1>12. ASSUME NEW d \in Docs, Commit(d) PROVE Control'
  BY <1>12 DEF Commit, Unchanged, Done, Raise, NoLocals, NoSync, Control
<1>13. ASSUME NEW selected \in SUBSET Docs, Delete(selected) PROVE Control'
  BY <1>13 DEF Delete, Control
<1>14. ASSUME Mark PROVE Control'
  BY <1>14 DEF Mark, Goes, Control
<1>15. ASSUME Forget PROVE Control'
  BY <1>15 DEF Forget, PendingAfter, Done, NoLocals, Control
<1>16. ASSUME RequestSync PROVE Control'
  BY <1>16 DEF RequestSync, Control
<1>17. ASSUME BeginSync PROVE Control'
  BY <1>17 DEF BeginSync, Control
<1>18. ASSUME NEW d \in Docs, SyncDocument(d) PROVE Control'
  BY <1>18 DEF SyncDocument, StartWrite, Skips, UpToDate, Control
<1>19. ASSUME EndSync PROVE Control'
  BY <1>19 DEF EndSync, NoSync, Control
<1>20. ASSUME NEW d \in Docs, Modify(d) PROVE Control'
  BY <1>20 DEF Modify, Control
<1>21. ASSUME NEW d \in Docs, RemoveFile(d) PROVE Control'
  BY <1>21 DEF RemoveFile, Control
<1>22. ASSUME NEW d \in Docs, ReturnFile(d) PROVE Control'
  BY <1>22 DEF ReturnFile, Control
<1>23. ASSUME Fault PROVE Control'
  BY <1>23 DEF Fault, Trouble, Raise, NoLocals, NoSync, Control
<1>24. ASSUME Crash PROVE Control'
  BY <1>24 DEF Crash, Trouble, NoLocals, NoSync, Control
<1>25. ASSUME LoseIndex PROVE Control'
  BY <1>25 DEF LoseIndex, Control
<1>26. CASE UNCHANGED vars
  BY <1>26 DEF Control
<1> QED
  BY <1>1, <1>2, <1>3, <1>4, <1>5, <1>6, <1>7, <1>8, <1>9, <1>10, <1>11, <1>12,
     <1>13, <1>14, <1>15, <1>16, <1>17, <1>18, <1>19, <1>20, <1>21, <1>22,
     <1>23, <1>24, <1>25, <1>26 DEF Next, Write, SyncStep, Request, World

\* delete_documents marks before it deletes.
LEMMA MarkedStep == IInv /\ [Next]_vars => Marked'
<1> SUFFICES ASSUME IInv, [Next]_vars PROVE Marked'
  OBVIOUS
<1> USE StoreAssumption DEF IInv, TypeOK, vars, files, catalog, vectors, locals,
       syncing, troubled
<1>1. ASSUME NEW d \in Docs, Import(d) PROVE Marked'
  BY <1>1 DEF Import, StartWrite, UpToDate, Marked, Known, Control
<1>2. ASSUME NEW d \in Docs, Stat(d) PROVE Marked'
  BY <1>2 DEF Stat, Raise, NoLocals, NoSync, Marked, Known, Control
<1>3. ASSUME NEW d \in Docs, ReadText(d) PROVE Marked'
  BY <1>3 DEF ReadText, Raise, NoLocals, NoSync, Marked, Known, Control
<1>4. ASSUME NEW d \in Docs, CheckText(d) PROVE Marked'
  BY <1>4 DEF CheckText, Unchanged, Goes, Raise, NoLocals, NoSync, Marked,
     Known, Control
<1>5. ASSUME DestroyOld PROVE Marked'
  BY <1>5 DEF DestroyOld, Marked, Known, Control
<1>6. ASSUME DeleteVectors PROVE Marked'
  BY <1>6 DEF DeleteVectors, Deleted, Goes, Marked, Known, Control
<1>7. ASSUME DeleteRaises PROVE Marked'
  BY <1>7 DEF DeleteRaises, Raise, NoLocals, NoSync, Marked, Known, Control
<1>8. ASSUME FlushDeletion PROVE Marked'
  BY <1>8 DEF FlushDeletion, Flushed, Goes, Marked, Known, Control
<1>9. ASSUME NEW d \in Docs, Publish(d) PROVE Marked'
  BY <1>9 DEF Publish, Goes, Marked, Known, Control
<1>10. ASSUME NEW d \in Docs, Insert(d) PROVE Marked'
  BY <1>10 DEF Insert, Marked, Known, Control
<1>11. ASSUME FlushInserts PROVE Marked'
  BY <1>11 DEF FlushInserts, Flushed, Goes, Marked, Known, Control
<1>12. ASSUME NEW d \in Docs, Commit(d) PROVE Marked'
  BY <1>12 DEF Commit, Unchanged, Done, Raise, NoLocals, NoSync, Marked, Known,
     Control
<1>13. ASSUME NEW selected \in SUBSET Docs, Delete(selected) PROVE Marked'
  BY <1>13 DEF Delete, Marked, Known, Control
<1>14. ASSUME Mark PROVE Marked'
  BY <1>14 DEF Mark, Goes, Marked, Known, Control
<1>15. ASSUME Forget PROVE Marked'
  BY <1>15 DEF Forget, PendingAfter, Done, NoLocals, Marked, Known, Control
<1>16. ASSUME RequestSync PROVE Marked'
  BY <1>16 DEF RequestSync, Marked, Known, Control
<1>17. ASSUME BeginSync PROVE Marked'
  BY <1>17 DEF BeginSync, Marked, Known, Control
<1>18. ASSUME NEW d \in Docs, SyncDocument(d) PROVE Marked'
  BY <1>18 DEF SyncDocument, StartWrite, Skips, UpToDate, Marked, Known, Control
<1>19. ASSUME EndSync PROVE Marked'
  BY <1>19 DEF EndSync, Marked, Known, Control
<1>20. ASSUME NEW d \in Docs, Modify(d) PROVE Marked'
  BY <1>20 DEF Modify, Marked, Known, Control
<1>21. ASSUME NEW d \in Docs, RemoveFile(d) PROVE Marked'
  BY <1>21 DEF RemoveFile, Marked, Known, Control
<1>22. ASSUME NEW d \in Docs, ReturnFile(d) PROVE Marked'
  BY <1>22 DEF ReturnFile, Marked, Known, Control
<1>23. ASSUME Fault PROVE Marked'
  BY <1>23 DEF Fault, Trouble, Raise, NoLocals, NoSync, Marked, Known, Control
<1>24. ASSUME Crash PROVE Marked'
  BY <1>24 DEF Crash, Trouble, NoLocals, NoSync, Marked, Known, Control
<1>25. ASSUME LoseIndex PROVE Marked'
  BY <1>25 DEF LoseIndex, Marked, Known, Control
<1>26. CASE UNCHANGED vars
  BY <1>26 DEF Marked, Known, Control
<1> QED
  BY <1>1, <1>2, <1>3, <1>4, <1>5, <1>6, <1>7, <1>8, <1>9, <1>10, <1>11, <1>12,
     <1>13, <1>14, <1>15, <1>16, <1>17, <1>18, <1>19, <1>20, <1>21, <1>22,
     <1>23, <1>24, <1>25, <1>26 DEF Next, Write, SyncStep, Request, World

\* _write_document writes what it read between two equal looks at the file.
LEMMA DraftStep == IInv /\ [Next]_vars => Draft'
<1> SUFFICES ASSUME IInv, [Next]_vars PROVE Draft'
  OBVIOUS
<1> USE StoreAssumption DEF IInv, TypeOK, vars, files, catalog, vectors, locals,
       syncing, troubled
<1>1. ASSUME NEW d \in Docs, Import(d) PROVE Draft'
  BY <1>1 DEF Import, StartWrite, UpToDate, Draft, Control
<1>2. ASSUME NEW d \in Docs, Stat(d) PROVE Draft'
  BY <1>2 DEF Stat, Raise, NoLocals, NoSync, Draft, Control, CatalogType,
     OperationType, Record, Versions, NoRecord
<1>3. ASSUME NEW d \in Docs, ReadText(d) PROVE Draft'
  BY <1>3 DEF ReadText, Raise, NoLocals, NoSync, Draft, Control, CatalogType,
     OperationType, Record, Versions, NoRecord
<1>4. ASSUME NEW d \in Docs, CheckText(d) PROVE Draft'
  BY <1>4 DEF CheckText, Unchanged, Goes, Raise, NoLocals, NoSync, Draft,
     Control, CatalogType, OperationType, Record, Versions, NoRecord
<1>5. ASSUME DestroyOld PROVE Draft'
  BY <1>5 DEF DestroyOld, Draft, Control
<1>6. ASSUME DeleteVectors PROVE Draft'
  BY <1>6 DEF DeleteVectors, Deleted, Goes, Draft, Control
<1>7. ASSUME DeleteRaises PROVE Draft'
  BY <1>7 DEF DeleteRaises, Raise, NoLocals, NoSync, Draft, Control
<1>8. ASSUME FlushDeletion PROVE Draft'
  BY <1>8 DEF FlushDeletion, Flushed, Goes, Draft, Control
<1>9. ASSUME NEW d \in Docs, Publish(d) PROVE Draft'
  BY <1>9 DEF Publish, Goes, Draft, Control
<1>10. ASSUME NEW d \in Docs, Insert(d) PROVE Draft'
  BY <1>10 DEF Insert, Draft, Control
<1>11. ASSUME FlushInserts PROVE Draft'
  BY <1>11 DEF FlushInserts, Flushed, Goes, Draft, Control
<1>12. ASSUME NEW d \in Docs, Commit(d) PROVE Draft'
  BY <1>12 DEF Commit, Unchanged, Done, Raise, NoLocals, NoSync, Draft, Control
<1>13. ASSUME NEW selected \in SUBSET Docs, Delete(selected) PROVE Draft'
  BY <1>13 DEF Delete, Draft, Control
<1>14. ASSUME Mark PROVE Draft'
  BY <1>14 DEF Mark, Goes, Draft, Control
<1>15. ASSUME Forget PROVE Draft'
  BY <1>15 DEF Forget, PendingAfter, Done, NoLocals, Draft, Control,
     CatalogType, OperationType, Record, Versions, NoRecord
<1>16. ASSUME RequestSync PROVE Draft'
  BY <1>16 DEF RequestSync, Draft, Control
<1>17. ASSUME BeginSync PROVE Draft'
  BY <1>17 DEF BeginSync, Draft, Control
<1>18. ASSUME NEW d \in Docs, SyncDocument(d) PROVE Draft'
  BY <1>18 DEF SyncDocument, StartWrite, Skips, UpToDate, Draft, Control
<1>19. ASSUME EndSync PROVE Draft'
  BY <1>19 DEF EndSync, Draft, Control
<1>20. ASSUME NEW d \in Docs, Modify(d) PROVE Draft'
  BY <1>20 DEF Modify, Draft, Control, CatalogType, OperationType, Record,
     Versions, NoRecord
<1>21. ASSUME NEW d \in Docs, RemoveFile(d) PROVE Draft'
  BY <1>21 DEF RemoveFile, Draft, Control
<1>22. ASSUME NEW d \in Docs, ReturnFile(d) PROVE Draft'
  BY <1>22 DEF ReturnFile, Draft, Control
<1>23. ASSUME Fault PROVE Draft'
  BY <1>23 DEF Fault, Trouble, Raise, NoLocals, NoSync, Draft, Control
<1>24. ASSUME Crash PROVE Draft'
  BY <1>24 DEF Crash, Draft, Control
<1>25. ASSUME LoseIndex PROVE Draft'
  BY <1>25 DEF LoseIndex, Draft, Control
<1>26. CASE UNCHANGED vars
  BY <1>26 DEF Draft, Control
<1> QED
  BY <1>1, <1>2, <1>3, <1>4, <1>5, <1>6, <1>7, <1>8, <1>9, <1>10, <1>11, <1>12,
     <1>13, <1>14, <1>15, <1>16, <1>17, <1>18, <1>19, <1>20, <1>21, <1>22,
     <1>23, <1>24, <1>25, <1>26 DEF Next, Write, SyncStep, Request, World

\* Every step leaves of the operation's vectors what the next one expects.
LEMMA ProgressStep == IInv /\ [Next]_vars => Progress'
<1> SUFFICES ASSUME IInv, [Next]_vars PROVE Progress'
  OBVIOUS
<1> USE StoreAssumption DEF IInv, TypeOK, vars, files, catalog, vectors, locals,
       syncing, troubled
<1>1. ASSUME NEW d \in Docs, Import(d) PROVE Progress'
  BY <1>1 DEF Import, StartWrite, UpToDate, Progress, EmptyIn, WholeIn,
     NoVectors
<1>2. ASSUME NEW d \in Docs, Stat(d) PROVE Progress'
  BY <1>2 DEF Stat, Raise, NoLocals, NoSync, Progress, EmptyIn, WholeIn,
     NoVectors
<1>3. ASSUME NEW d \in Docs, ReadText(d) PROVE Progress'
  BY <1>3 DEF ReadText, Raise, NoLocals, NoSync, Progress, EmptyIn, WholeIn,
     NoVectors
<1>4. ASSUME NEW d \in Docs, CheckText(d) PROVE Progress'
  BY <1>4 DEF CheckText, Unchanged, Goes, Raise, NoLocals, NoSync, Progress,
     EmptyIn, WholeIn, NoVectors
<1>5. ASSUME DestroyOld PROVE Progress'
  BY <1>5 DEF DestroyOld, Progress, EmptyIn, WholeIn, NoVectors
<1>6. ASSUME DeleteVectors PROVE Progress'
  BY <1>6 DEF DeleteVectors, Deleted, Goes, Progress, Control, Draft, IndexType,
     CatalogType, OperationType, Index, Record, EmptyIn, WholeIn, NoVectors,
     Versions, Numbers, NoRecord
<1>7. ASSUME DeleteRaises PROVE Progress'
  BY <1>7 DEF DeleteRaises, Raise, NoLocals, NoSync, Progress, EmptyIn, WholeIn,
     NoVectors
<1>8. ASSUME FlushDeletion PROVE Progress'
  BY <1>8 DEF FlushDeletion, Flushed, Goes, Progress, EmptyIn, WholeIn,
     NoVectors
<1>9. ASSUME NEW d \in Docs, Publish(d) PROVE Progress'
  <2>1. /\ dir' = dir /\ index' = index /\ stored' = stored
        /\ step' = "insert" /\ work = {d} /\ work' = work
        /\ mtime' = mtime /\ text' = text /\ next' = next
    BY <1>9 DEF Publish, Goes
  <2>2. d \in pending' /\ documents'[d] = [mtime |-> mtime, pieces |-> Pieces[text]]
    BY <1>9 DEF Publish, CatalogType
  <2>3. next = 1 /\ EmptyIn(index, d) /\ dir = "ready"
    BY <1>9 DEF Publish, Control, Progress
  <2> QED
    BY <2>1, <2>2, <2>3 DEF Progress, EmptyIn, Numbers
<1>10. ASSUME NEW d \in Docs, Insert(d) PROVE Progress'
  <2>1. /\ dir' = dir /\ stored' = stored /\ documents' = documents
        /\ pending' = pending /\ step = "insert" /\ step' = step
        /\ work = {d} /\ work' = work /\ mtime' = mtime /\ text' = text
        /\ next <= Pieces[text] /\ next' = next + 1
        /\ index' = [index EXCEPT ![d][next] = text]
    BY <1>10 DEF Insert
  <2>2. /\ dir = "ready" /\ d \in pending
        /\ documents[d] = [mtime |-> mtime, pieces |-> Pieces[text]]
        /\ \A n \in Numbers :
              index[d][n] = IF n < next /\ n <= Pieces[text] THEN text ELSE 0
    BY <2>1 DEF Progress
  <2>3. ASSUME NEW n \in Numbers
        PROVE  index'[d][n] = IF n < next' /\ n <= Pieces[text] THEN text ELSE 0
    BY <2>1, <2>2 DEF IndexType, Index, OperationType, Numbers
  <2> QED
    BY <2>1, <2>2, <2>3 DEF Progress
<1>11. ASSUME FlushInserts PROVE Progress'
  <2>1. /\ dir' = dir /\ documents' = documents /\ pending' = pending
        /\ step = "insert" /\ step' = "commit" /\ next > Pieces[text]
        /\ work' = work /\ mtime' = mtime /\ text' = text
        /\ index' = index /\ stored' = index
    BY <1>11 DEF FlushInserts, Flushed, Goes
  <2>2. dir = "ready" /\ goal = "write"
    BY <2>1 DEF Progress, Control
  <2>3. ASSUME NEW d \in work
        PROVE  /\ d \in pending
               /\ documents[d] = [mtime |-> mtime, pieces |-> Pieces[text]]
               /\ WholeIn(index, d)
    <3>1. /\ d \in pending
          /\ documents[d] = [mtime |-> mtime, pieces |-> Pieces[text]]
          /\ \A n \in Numbers :
                index[d][n] = IF n < next /\ n <= Pieces[text] THEN text ELSE 0
      BY <2>1 DEF Progress
    <3>2. mtime = text /\ text \in Versions
      BY <2>1, <2>2 DEF Draft, OperationType, Versions
    <3>3. Pieces[text] \in Nat /\ next \in Nat
      BY <3>2 DEF OperationType, Numbers
    <3> QED
      BY <2>1, <3>1, <3>2, <3>3 DEF WholeIn, Numbers
  <2> QED
    BY <2>1, <2>2, <2>3 DEF Progress, WholeIn
<1>12. ASSUME NEW d \in Docs, Commit(d) PROVE Progress'
  BY <1>12 DEF Commit, Unchanged, Done, Raise, NoLocals, NoSync, Progress,
     EmptyIn, WholeIn, NoVectors
<1>13. ASSUME NEW selected \in SUBSET Docs, Delete(selected) PROVE Progress'
  BY <1>13 DEF Delete, Progress, EmptyIn, WholeIn, NoVectors
<1>14. ASSUME Mark PROVE Progress'
  BY <1>14 DEF Mark, Goes, Progress, EmptyIn, WholeIn, NoVectors
<1>15. ASSUME Forget PROVE Progress'
  BY <1>15 DEF Forget, PendingAfter, Done, NoLocals, Progress, EmptyIn, WholeIn,
     NoVectors
<1>16. ASSUME RequestSync PROVE Progress'
  BY <1>16 DEF RequestSync, Progress, EmptyIn, WholeIn, NoVectors
<1>17. ASSUME BeginSync PROVE Progress'
  BY <1>17 DEF BeginSync, Progress, EmptyIn, WholeIn, NoVectors
<1>18. ASSUME NEW d \in Docs, SyncDocument(d) PROVE Progress'
  BY <1>18 DEF SyncDocument, StartWrite, Skips, UpToDate, Progress, EmptyIn,
     WholeIn, NoVectors
<1>19. ASSUME EndSync PROVE Progress'
  BY <1>19 DEF EndSync, Progress, EmptyIn, WholeIn, NoVectors
<1>20. ASSUME NEW d \in Docs, Modify(d) PROVE Progress'
  BY <1>20 DEF Modify, Progress, EmptyIn, WholeIn, NoVectors
<1>21. ASSUME NEW d \in Docs, RemoveFile(d) PROVE Progress'
  BY <1>21 DEF RemoveFile, Progress, EmptyIn, WholeIn, NoVectors
<1>22. ASSUME NEW d \in Docs, ReturnFile(d) PROVE Progress'
  BY <1>22 DEF ReturnFile, Progress, EmptyIn, WholeIn, NoVectors
<1>23. ASSUME Fault PROVE Progress'
  BY <1>23 DEF Fault, Trouble, Attempts, Deleted, Raise, NoLocals, NoSync,
     Progress, EmptyIn, WholeIn, NoVectors
<1>24. ASSUME Crash PROVE Progress'
  <2>1. dir' = dir /\ step' = "free" /\ work' = {} /\ stored' = index'
    BY <1>24 DEF Crash, NoLocals
  <2>2. ASSUME dir # "ready" PROVE index' = NoVectors
    <3>1. index = NoVectors /\ stored = NoVectors
      BY <2>2 DEF Progress
    <3>2. index' \in Index /\ \A d \in Docs, n \in Numbers : index'[d][n] = 0
      BY <1>24, <3>1 DEF Crash, Survivors, NoVectors
    <3> QED
      BY <3>2 DEF Index, NoVectors
  <2> QED
    BY <2>1, <2>2 DEF Progress
<1>25. ASSUME LoseIndex PROVE Progress'
  BY <1>25 DEF LoseIndex, Progress, EmptyIn, WholeIn, NoVectors
<1>26. CASE UNCHANGED vars
  BY <1>26 DEF Progress, EmptyIn, WholeIn, NoVectors
<1> QED
  BY <1>1, <1>2, <1>3, <1>4, <1>5, <1>6, <1>7, <1>8, <1>9, <1>10, <1>11, <1>12,
     <1>13, <1>14, <1>15, <1>16, <1>17, <1>18, <1>19, <1>20, <1>21, <1>22,
     <1>23, <1>24, <1>25, <1>26 DEF Next, Write, SyncStep, Request, World

\* No step leaves a text in the index that the catalog does not record.
LEMMA SoundStep == IInv /\ [Next]_vars => Sound'
<1> SUFFICES ASSUME IInv, [Next]_vars PROVE Sound'
  OBVIOUS
<1> USE StoreAssumption DEF IInv, TypeOK, vars, files, catalog, vectors, locals,
       syncing, troubled
<1>1. ASSUME NEW d \in Docs, Import(d) PROVE Sound'
  BY <1>1 DEF Import, Sound, SoundIn
<1>2. ASSUME NEW d \in Docs, Stat(d) PROVE Sound'
  BY <1>2 DEF Stat, Sound, SoundIn
<1>3. ASSUME NEW d \in Docs, ReadText(d) PROVE Sound'
  BY <1>3 DEF ReadText, Sound, SoundIn
<1>4. ASSUME NEW d \in Docs, CheckText(d) PROVE Sound'
  BY <1>4 DEF CheckText, Sound, SoundIn
<1>5. ASSUME DestroyOld PROVE Sound'
  BY <1>5 DEF DestroyOld, Sound, SoundIn
<1>6. ASSUME DeleteVectors PROVE Sound'
  BY <1>6 DEF DeleteVectors, Deleted, Goes, Sound, SoundIn
<1>7. ASSUME DeleteRaises PROVE Sound'
  BY <1>7 DEF DeleteRaises, Sound, SoundIn
<1>8. ASSUME FlushDeletion PROVE Sound'
  BY <1>8 DEF FlushDeletion, Flushed, Goes, Sound, SoundIn
<1>9. ASSUME NEW d \in Docs, Publish(d) PROVE Sound'
  BY <1>9 DEF Publish, Sound, SoundIn
<1>10. ASSUME NEW d \in Docs, Insert(d) PROVE Sound'
  <2>1. /\ documents' = documents /\ pending' = pending /\ stored' = stored
        /\ step = "insert" /\ work = {d}
        /\ index' = [index EXCEPT ![d][next] = text]
    BY <1>10 DEF Insert
  <2>2. d \in pending
    BY <2>1 DEF Progress
  <2>3. \A c \in Docs \ {d} : index'[c] = index[c]
    BY <2>1 DEF IndexType, Index
  <2> QED
    BY <2>1, <2>2, <2>3 DEF Sound, SoundIn
<1>11. ASSUME FlushInserts PROVE Sound'
  BY <1>11 DEF FlushInserts, Flushed, Goes, Sound, SoundIn
<1>12. ASSUME NEW d \in Docs, Commit(d) PROVE Sound'
  <2>1. /\ documents' = documents /\ index' = index /\ stored' = stored
        /\ step = "commit" /\ work = {d} /\ pending \ {d} \subseteq pending'
    BY <1>12 DEF Commit, Done
  <2>2. WholeIn(index, d) /\ WholeIn(stored, d)
    BY <2>1 DEF Progress
  <2> QED
    BY <2>1, <2>2 DEF Sound, SoundIn, WholeIn
<1>13. ASSUME NEW selected \in SUBSET Docs, Delete(selected) PROVE Sound'
  BY <1>13 DEF Delete, Sound, SoundIn
<1>14. ASSUME Mark PROVE Sound'
  BY <1>14 DEF Mark, Sound, SoundIn
<1>15. ASSUME Forget PROVE Sound'
  <2>1. /\ index' = index /\ stored' = stored
        /\ pending' = pending \ work
        /\ \A d \in Docs : documents'[d] = IF d \in work THEN NoRecord ELSE documents[d]
    BY <1>15 DEF Forget, PendingAfter
  <2>2. \A d \in work : EmptyIn(index, d) /\ EmptyIn(stored, d)
    BY <1>15 DEF Forget, Progress
  <2> QED
    BY <2>1, <2>2 DEF Sound, SoundIn, EmptyIn
<1>16. ASSUME RequestSync PROVE Sound'
  BY <1>16 DEF RequestSync, Sound, SoundIn
<1>17. ASSUME BeginSync PROVE Sound'
  BY <1>17 DEF BeginSync, Sound, SoundIn
<1>18. ASSUME NEW d \in Docs, SyncDocument(d) PROVE Sound'
  BY <1>18 DEF SyncDocument, Sound, SoundIn
<1>19. ASSUME EndSync PROVE Sound'
  BY <1>19 DEF EndSync, Sound, SoundIn
<1>20. ASSUME NEW d \in Docs, Modify(d) PROVE Sound'
  BY <1>20 DEF Modify, Sound, SoundIn
<1>21. ASSUME NEW d \in Docs, RemoveFile(d) PROVE Sound'
  BY <1>21 DEF RemoveFile, Sound, SoundIn
<1>22. ASSUME NEW d \in Docs, ReturnFile(d) PROVE Sound'
  BY <1>22 DEF ReturnFile, Sound, SoundIn
<1>23. ASSUME Fault PROVE Sound'
  <2>1. documents' = documents /\ pending' = pending /\ stored' = stored
    BY <1>23 DEF Fault
  <2>2. \A d \in Docs : index'[d] = index[d] \/ \A n \in Numbers : index'[d][n] = 0
    BY <1>23 DEF Fault, Attempts, Deleted
  <2> QED
    BY <2>1, <2>2 DEF Sound, SoundIn
<1>24. ASSUME Crash PROVE Sound'
  <2>1. documents' = documents /\ pending' = pending /\ stored' = index'
    BY <1>24 DEF Crash
  <2>2. \A d \in Docs, n \in Numbers : index'[d][n] \in {index[d][n], stored[d][n]}
    BY <1>24 DEF Crash, Survivors
  <2> QED
    BY <2>1, <2>2 DEF Sound, SoundIn
<1>25. ASSUME LoseIndex PROVE Sound'
  BY <1>25 DEF LoseIndex, Sound, SoundIn, EmptyIn, NoVectors, IndexType, Index
<1>26. CASE UNCHANGED vars
  BY <1>26 DEF Sound, SoundIn
<1> QED
  BY <1>1, <1>2, <1>3, <1>4, <1>5, <1>6, <1>7, <1>8, <1>9, <1>10, <1>11, <1>12,
     <1>13, <1>14, <1>15, <1>16, <1>17, <1>18, <1>19, <1>20, <1>21, <1>22,
     <1>23, <1>24, <1>25, <1>26 DEF Next, Write, SyncStep, Request, World

\* A document that may be incomplete is pending or stale.
LEMMA RepairableStep == IInv /\ [Next]_vars => Repairable'
<1> SUFFICES ASSUME IInv, [Next]_vars PROVE Repairable'
  OBVIOUS
<1> USE StoreAssumption DEF IInv, TypeOK, vars, files, catalog, vectors, locals,
       syncing, troubled
<1>1. ASSUME NEW d \in Docs, Import(d) PROVE Repairable'
  <2>1. /\ documents' = documents /\ pending' = pending
        /\ version' = version /\ gone' = gone /\ seen' = seen
        /\ dir' = dir /\ index' = index /\ stored' = stored
        /\ work' = {d} /\ goal' = "write"
    BY <1>1 DEF Import, StartWrite
  <2>2. d \in Known \ pending => documents[d].mtime < version[d]
    BY <1>1 DEF Import, UpToDate, Draft, CatalogType, Record, Versions
  <2> QED
    BY <2>1, <2>2 DEF Repairable, Stale, WholeIn, Known, OnlyFailures
<1>2. ASSUME NEW d \in Docs, Stat(d) PROVE Repairable'
  <2>1. /\ documents' = documents /\ pending' = pending
        /\ version' = version /\ gone' = gone /\ seen' = seen
        /\ dir' = dir /\ index' = index /\ stored' = stored
    BY <1>2 DEF Stat
  <2>2. work' = {} \/ (work' = work /\ goal' = goal)
    BY <1>2 DEF Stat, Raise, NoLocals
  <2> QED
    BY <2>1, <2>2 DEF Repairable, Stale, WholeIn, Known, OnlyFailures
<1>3. ASSUME NEW d \in Docs, ReadText(d) PROVE Repairable'
  <2>1. /\ documents' = documents /\ pending' = pending
        /\ version' = version /\ gone' = gone /\ seen' = seen
        /\ dir' = dir /\ index' = index /\ stored' = stored
    BY <1>3 DEF ReadText
  <2>2. work' = {} \/ (work' = work /\ goal' = goal)
    BY <1>3 DEF ReadText, Raise, NoLocals
  <2> QED
    BY <2>1, <2>2 DEF Repairable, Stale, WholeIn, Known, OnlyFailures
<1>4. ASSUME NEW d \in Docs, CheckText(d) PROVE Repairable'
  <2>1. /\ documents' = documents /\ pending' = pending
        /\ version' = version /\ gone' = gone /\ seen' = seen
        /\ dir' = dir /\ index' = index /\ stored' = stored
    BY <1>4 DEF CheckText
  <2>2. work' = {} \/ (work' = work /\ goal' = goal)
    BY <1>4 DEF CheckText, Goes, Raise, NoLocals
  <2> QED
    BY <2>1, <2>2 DEF Repairable, Stale, WholeIn, Known, OnlyFailures
<1>5. ASSUME DestroyOld PROVE Repairable'
  BY <1>5 DEF DestroyOld, Repairable, Stale, WholeIn, Known, OnlyFailures
<1>6. ASSUME DeleteVectors PROVE Repairable'
  BY <1>6 DEF DeleteVectors, Deleted, Goes, Repairable, Stale, WholeIn, EmptyIn,
     Known, OnlyFailures, Progress, Control, Marked, Draft, OperationType,
     CatalogType, IndexType, Record, NoRecord, Versions
<1>7. ASSUME DeleteRaises PROVE Repairable'
  BY <1>7 DEF DeleteRaises, Repairable, Stale, WholeIn, Known, OnlyFailures
<1>8. ASSUME FlushDeletion PROVE Repairable'
  <2>1. /\ documents' = documents /\ pending' = pending
        /\ version' = version /\ gone' = gone /\ seen' = seen
        /\ dir' = dir /\ index' = index /\ stored' = index
        /\ work' = work /\ goal' = goal
    BY <1>8 DEF FlushDeletion, Flushed, Goes
  <2> QED
    BY <2>1 DEF Repairable, Stale, WholeIn, Known, OnlyFailures
<1>9. ASSUME NEW d \in Docs, Publish(d) PROVE Repairable'
  <2>1. /\ version' = version /\ gone' = gone /\ seen' = seen
        /\ dir' = dir /\ index' = index /\ stored' = stored
        /\ work = {d} /\ work' = work /\ pending' = pending \cup {d}
        /\ \A c \in Docs \ {d} : documents'[c] = documents[c]
    BY <1>9 DEF Publish, Goes, CatalogType
  <2>2. dir = "ready"
    BY <1>9 DEF Publish, Progress
  <2> QED
    BY <2>1, <2>2 DEF Repairable, Stale, WholeIn, Known, OnlyFailures
<1>10. ASSUME NEW d \in Docs, Insert(d) PROVE Repairable'
  <2>1. /\ documents' = documents /\ pending' = pending
        /\ version' = version /\ gone' = gone /\ seen' = seen
        /\ dir' = dir /\ stored' = stored /\ step = "insert"
        /\ work = {d} /\ work' = work /\ goal' = goal
        /\ index' = [index EXCEPT ![d][next] = text]
    BY <1>10 DEF Insert
  <2>2. d \in pending
    BY <2>1 DEF Progress
  <2>3. \A c \in Docs \ {d} : index'[c] = index[c]
    BY <2>1 DEF IndexType, Index
  <2> QED
    BY <2>1, <2>2, <2>3 DEF Repairable, Stale, WholeIn, Known, OnlyFailures
<1>11. ASSUME FlushInserts PROVE Repairable'
  BY <1>11 DEF FlushInserts, Flushed, Goes, Repairable, Stale, WholeIn, Known,
     OnlyFailures
<1>12. ASSUME NEW d \in Docs, Commit(d) PROVE Repairable'
  <2>1. /\ documents' = documents /\ version' = version /\ gone' = gone
        /\ seen' = seen /\ dir' = dir /\ index' = index /\ stored' = stored
        /\ step = "commit" /\ work = {d} /\ work' = {}
        /\ pending \ {d} \subseteq pending'
    BY <1>12 DEF Commit, Done, Raise, NoLocals
  <2>2. WholeIn(index, d) /\ WholeIn(stored, d)
    BY <2>1 DEF Progress
  <2> QED
    BY <2>1, <2>2 DEF Repairable, Stale, WholeIn, Known, OnlyFailures
<1>13. ASSUME NEW selected \in SUBSET Docs, Delete(selected) PROVE Repairable'
  <2>1. /\ documents' = documents /\ pending' = pending
        /\ version' = version /\ gone' = gone /\ seen' = seen
        /\ dir' = dir /\ index' = index /\ stored' = stored
        /\ goal' = "delete"
    BY <1>13 DEF Delete
  <2> QED
    BY <2>1 DEF Repairable, Stale, WholeIn, Known, OnlyFailures
<1>14. ASSUME Mark PROVE Repairable'
  BY <1>14 DEF Mark, Goes, Repairable, Stale, WholeIn, Known, OnlyFailures
<1>15. ASSUME Forget PROVE Repairable'
  BY <1>15 DEF Forget, PendingAfter, Done, NoLocals, Repairable, Stale, WholeIn,
     EmptyIn, Known, OnlyFailures, Progress, Control, Marked, Draft,
     OperationType, CatalogType, IndexType, Record, NoRecord, Versions
<1>16. ASSUME RequestSync PROVE Repairable'
  BY <1>16 DEF RequestSync, Repairable, Stale, WholeIn, Known, OnlyFailures
<1>17. ASSUME BeginSync PROVE Repairable'
  BY <1>17 DEF BeginSync, Repairable, Stale, WholeIn, Known, OnlyFailures
<1>18. ASSUME NEW d \in Docs, SyncDocument(d) PROVE Repairable'
  <2>1. /\ documents' = documents /\ pending' = pending
        /\ version' = version /\ gone' = gone /\ seen' = seen
        /\ dir' = dir /\ index' = index /\ stored' = stored
    BY <1>18 DEF SyncDocument
  <2>2. \/ d \in gone /\ work' = {d}
        \/ d \notin gone /\ ~Skips(d) /\ work' = {d}
        \/ work' = work /\ goal' = goal
    BY <1>18 DEF SyncDocument, StartWrite
  <2>3. OnlyFailures => ~rebuild
    BY <1>18 DEF SyncDocument, Synced, Control
  <2>4. ~UpToDate(d) /\ d \in Known \ pending => documents[d].mtime < version[d]
    BY DEF UpToDate, Draft, CatalogType, Record, Versions
  <2> QED
  BY <2>1, <2>2, <2>3, <2>4 DEF Skips, Repairable, Stale, WholeIn, Known,
       OnlyFailures
<1>19. ASSUME EndSync PROVE Repairable'
  BY <1>19 DEF EndSync, Repairable, Stale, WholeIn, Known, OnlyFailures
<1>20. ASSUME NEW d \in Docs, Modify(d) PROVE Repairable'
  <2>1. /\ documents' = documents /\ pending' = pending /\ seen' = seen
        /\ dir' = dir /\ index' = index /\ stored' = stored
        /\ work' = work /\ goal' = goal
        /\ version' = [version EXCEPT ![d] = @ + 1] /\ gone' = gone \ {d}
    BY <1>20 DEF Modify
  <2>2. \A c \in Docs : Stale(c) => Stale(c)'
    BY <2>1 DEF Stale, Draft, CatalogType, Record, Versions
  <2> QED
    BY <2>1, <2>2 DEF Repairable, WholeIn, Known, OnlyFailures
<1>21. ASSUME NEW d \in Docs, RemoveFile(d) PROVE Repairable'
  <2>1. /\ documents' = documents /\ pending' = pending /\ seen' = seen
        /\ dir' = dir /\ index' = index /\ stored' = stored
        /\ work' = work /\ goal' = goal
        /\ version' = version /\ gone' = gone \cup {d}
    BY <1>21 DEF RemoveFile
  <2> QED
    BY <2>1 DEF Repairable, Stale, WholeIn, Known, OnlyFailures
<1>22. ASSUME NEW d \in Docs, ReturnFile(d) PROVE Repairable'
  BY <1>22 DEF ReturnFile, Trouble, Repairable, Stale, WholeIn, Known,
     OnlyFailures
<1>23. ASSUME Fault PROVE Repairable'
  <2>1. /\ documents' = documents /\ pending' = pending
        /\ version' = version /\ gone' = gone /\ seen \subseteq seen'
        /\ dir' = dir /\ stored' = stored /\ work' = {}
    BY <1>23 DEF Fault, Trouble, Raise, NoLocals
  <2>2. \A d \in Docs : index'[d] = index[d] \/ (d \in work /\ step = "delete")
    BY <1>23 DEF Fault, Attempts, Deleted
  <2>3. ASSUME OnlyFailures, step = "delete", NEW d \in (work \cap Known) \ pending
        PROVE  Stale(d)
    BY <2>3 DEF Repairable, Control, Marked, OperationType
  <2> QED
    BY <2>1, <2>2, <2>3 DEF Repairable, Stale, WholeIn, Known, OnlyFailures
<1>24. ASSUME Crash PROVE Repairable'
  <2>1. /\ documents' = documents /\ pending' = pending
        /\ version' = version /\ gone' = gone /\ seen \subseteq seen'
        /\ dir' = dir /\ stored' = index' /\ work' = {}
    BY <1>24 DEF Crash, Trouble, NoLocals
  <2>2. \A d \in Docs, n \in Numbers : index'[d][n] \in {index[d][n], stored[d][n]}
    BY <1>24 DEF Crash, Survivors
  <2>3. \A d \in Docs : WholeIn(index, d) /\ WholeIn(stored, d)
                           => WholeIn(index, d)' /\ WholeIn(stored, d)'
    BY <2>1, <2>2 DEF WholeIn
  <2> QED
    BY <2>1, <2>3 DEF Repairable, Stale, Known, OnlyFailures
<1>25. ASSUME LoseIndex PROVE Repairable'
  BY <1>25 DEF LoseIndex, Trouble, NoVectors, Repairable, Stale, WholeIn, Known,
     OnlyFailures
<1>26. CASE UNCHANGED vars
  BY <1>26 DEF Repairable, Stale, WholeIn, Known, OnlyFailures
<1> QED
  BY <1>1, <1>2, <1>3, <1>4, <1>5, <1>6, <1>7, <1>8, <1>9, <1>10, <1>11, <1>12,
     <1>13, <1>14, <1>15, <1>16, <1>17, <1>18, <1>19, <1>20, <1>21, <1>22,
     <1>23, <1>24, <1>25, <1>26 DEF Next, Write, SyncStep, Request, World

\* A synchronisation leaves what it has done whole.
LEMMA SyncedStep == IInv /\ [Next]_vars => Synced'
<1> SUFFICES ASSUME IInv, [Next]_vars PROVE Synced'
  OBVIOUS
<1> USE StoreAssumption DEF IInv, TypeOK, vars, files, catalog, vectors, locals,
       syncing, troubled
<1>1. ASSUME NEW d \in Docs, Import(d) PROVE Synced'
  BY <1>1 DEF Import, Synced, WholeIn, Known, OnlyFailures, Progress, Control
<1>2. ASSUME NEW d \in Docs, Stat(d) PROVE Synced'
  <2>1. /\ documents' = documents /\ pending' = pending /\ index' = index
        /\ seen' = seen
    BY <1>2 DEF Stat
  <2>2. sync' # "holding" \/ UNCHANGED <<sync, rebuild, todo, work>>
    BY <1>2 DEF Stat, Raise, NoSync
  <2> QED
    BY <2>1, <2>2 DEF Synced, WholeIn, Known, OnlyFailures
<1>3. ASSUME NEW d \in Docs, ReadText(d) PROVE Synced'
  <2>1. /\ documents' = documents /\ pending' = pending /\ index' = index
        /\ seen' = seen
    BY <1>3 DEF ReadText
  <2>2. sync' # "holding" \/ UNCHANGED <<sync, rebuild, todo, work>>
    BY <1>3 DEF ReadText, Raise, NoSync
  <2> QED
    BY <2>1, <2>2 DEF Synced, WholeIn, Known, OnlyFailures
<1>4. ASSUME NEW d \in Docs, CheckText(d) PROVE Synced'
  <2>1. /\ documents' = documents /\ pending' = pending /\ index' = index
        /\ seen' = seen
    BY <1>4 DEF CheckText
  <2>2. sync' # "holding" \/ UNCHANGED <<sync, rebuild, todo, work>>
    BY <1>4 DEF CheckText, Goes, Raise, NoSync
  <2> QED
    BY <2>1, <2>2 DEF Synced, WholeIn, Known, OnlyFailures
<1>5. ASSUME DestroyOld PROVE Synced'
  BY <1>5 DEF DestroyOld, Synced, WholeIn, Known, OnlyFailures
<1>6. ASSUME DeleteVectors PROVE Synced'
  BY <1>6 DEF DeleteVectors, Deleted, Goes, Synced, WholeIn, Known, OnlyFailures
<1>7. ASSUME DeleteRaises PROVE Synced'
  BY <1>7 DEF DeleteRaises, Raise, NoLocals, NoSync, Synced, WholeIn, Known,
     OnlyFailures
<1>8. ASSUME FlushDeletion PROVE Synced'
  <2>1. /\ documents' = documents /\ pending' = pending /\ index' = index
        /\ seen' = seen
        /\ UNCHANGED <<sync, rebuild, todo, work>>
    BY <1>8 DEF FlushDeletion, Goes
  <2> QED
    BY <2>1 DEF Synced, WholeIn, Known, OnlyFailures
<1>9. ASSUME NEW d \in Docs, Publish(d) PROVE Synced'
  <2>1. /\ seen' = seen /\ index' = index /\ pending' = pending \cup {d}
        /\ UNCHANGED <<sync, rebuild, todo, work>> /\ work = {d}
        /\ \A c \in Docs \ {d} : documents'[c] = documents[c]
    BY <1>9 DEF Publish, Goes, CatalogType
  <2> QED
    BY <2>1 DEF Synced, WholeIn, Known, OnlyFailures
<1>10. ASSUME NEW d \in Docs, Insert(d) PROVE Synced'
  <2>1. /\ documents' = documents /\ pending' = pending /\ seen' = seen
        /\ UNCHANGED <<sync, rebuild, todo, work>> /\ work = {d}
        /\ index' = [index EXCEPT ![d][next] = text]
    BY <1>10 DEF Insert
  <2>2. \A c \in Docs \ {d} : index'[c] = index[c]
    BY <2>1 DEF IndexType, Index
  <2> QED
    BY <2>1, <2>2 DEF Synced, WholeIn, Known, OnlyFailures
<1>11. ASSUME FlushInserts PROVE Synced'
  <2>1. /\ documents' = documents /\ pending' = pending /\ index' = index
        /\ seen' = seen
        /\ UNCHANGED <<sync, rebuild, todo, work>>
    BY <1>11 DEF FlushInserts, Goes
  <2> QED
    BY <2>1 DEF Synced, WholeIn, Known, OnlyFailures
<1>12. ASSUME NEW d \in Docs, Commit(d) PROVE Synced'
  <2>1. documents' = documents /\ index' = index /\ seen' = seen
        /\ step = "commit" /\ work = {d}
    BY <1>12 DEF Commit
  <2>2. CASE Unchanged(d)
    <3>1. pending' = pending \ {d} /\ UNCHANGED <<sync, rebuild, todo>>
      BY <1>12, <2>2 DEF Commit, Done
    <3>2. WholeIn(index, d)
      BY <2>1 DEF Progress
    <3> QED
      BY <2>1, <3>1, <3>2 DEF Synced, WholeIn, Known, OnlyFailures
  <2>3. CASE ~Unchanged(d)
    <3>1. sync' # "holding"
      BY <1>12, <2>3 DEF Commit, Raise, NoSync
    <3> QED
      BY <3>1 DEF Synced
  <2> QED
    BY <2>2, <2>3
<1>13. ASSUME NEW selected \in SUBSET Docs, Delete(selected) PROVE Synced'
  BY <1>13 DEF Delete, Synced, WholeIn, Known, OnlyFailures, Progress, Control
<1>14. ASSUME Mark PROVE Synced'
  BY <1>14 DEF Mark, Goes, Synced, WholeIn, Known, OnlyFailures
<1>15. ASSUME Forget PROVE Synced'
  BY <1>15 DEF Forget, PendingAfter, Done, NoLocals, Synced, Repairable, Stale,
     WholeIn, EmptyIn, Known, OnlyFailures, Progress, Control, Marked, Draft,
     OperationType, CatalogType, IndexType, Record, NoRecord, Versions
<1>16. ASSUME RequestSync PROVE Synced'
  BY <1>16 DEF RequestSync, Synced, WholeIn, Known, OnlyFailures
<1>17. ASSUME BeginSync PROVE Synced'
  BY <1>17 DEF BeginSync, Synced, Repairable, Stale, WholeIn, EmptyIn, Known,
     OnlyFailures, Progress, Control, Marked, Draft, OperationType,
     CatalogType, IndexType, Record, NoRecord, Versions
<1>18. ASSUME NEW d \in Docs, SyncDocument(d) PROVE Synced'
  <2>1. /\ documents' = documents /\ pending' = pending /\ index' = index
        /\ seen' = seen
        /\ UNCHANGED <<sync, rebuild>> /\ todo' = todo \ {d} /\ d \in todo
        /\ work = {}
    BY <1>18 DEF SyncDocument, Control
  <2>2. CASE work' = {d}
    BY <2>1, <2>2 DEF Synced, WholeIn, Known, OnlyFailures
  <2>3. CASE d \notin gone /\ Skips(d) /\ work' = work
    <3>1. d \in Known /\ OnlyFailures => d \notin pending /\ WholeIn(index, d)
  BY <2>3 DEF Skips, UpToDate, Repairable, Stale, Draft, CatalogType, Versions
    <3> QED
      BY <2>1, <2>3, <3>1 DEF Synced, WholeIn, Known, OnlyFailures
  <2> QED
    BY <1>18, <2>2, <2>3 DEF SyncDocument, StartWrite
<1>19. ASSUME EndSync PROVE Synced'
  BY <1>19 DEF EndSync, NoSync, Synced, WholeIn, Known, OnlyFailures
<1>20. ASSUME NEW d \in Docs, Modify(d) PROVE Synced'
  <2>1. /\ documents' = documents /\ pending' = pending /\ index' = index
        /\ seen' = seen
        /\ UNCHANGED <<sync, rebuild, todo, work>>
    BY <1>20 DEF Modify
  <2> QED
    BY <2>1 DEF Synced, WholeIn, Known, OnlyFailures
<1>21. ASSUME NEW d \in Docs, RemoveFile(d) PROVE Synced'
  <2>1. /\ documents' = documents /\ pending' = pending /\ index' = index
        /\ seen' = seen
        /\ UNCHANGED <<sync, rebuild, todo, work>>
    BY <1>21 DEF RemoveFile
  <2> QED
    BY <2>1 DEF Synced, WholeIn, Known, OnlyFailures
<1>22. ASSUME NEW d \in Docs, ReturnFile(d) PROVE Synced'
  BY <1>22 DEF ReturnFile, Trouble, Synced, WholeIn, Known, OnlyFailures
<1>23. ASSUME Fault PROVE Synced'
  BY <1>23 DEF Fault, Trouble, Attempts, Deleted, Raise, NoLocals, NoSync,
     Synced, WholeIn, Known, OnlyFailures
<1>24. ASSUME Crash PROVE Synced'
  BY <1>24 DEF Crash, Trouble, NoLocals, NoSync, Survivors, Synced, WholeIn,
     Known, OnlyFailures
<1>25. ASSUME LoseIndex PROVE Synced'
  BY <1>25 DEF LoseIndex, Trouble, NoVectors, Synced, WholeIn, Known,
     OnlyFailures
<1>26. CASE UNCHANGED vars
  BY <1>26 DEF Synced, WholeIn, Known, OnlyFailures
<1> QED
  BY <1>1, <1>2, <1>3, <1>4, <1>5, <1>6, <1>7, <1>8, <1>9, <1>10, <1>11, <1>12,
     <1>13, <1>14, <1>15, <1>16, <1>17, <1>18, <1>19, <1>20, <1>21, <1>22,
     <1>23, <1>24, <1>25, <1>26 DEF Next, Write, SyncStep, Request, World

-----------------------------------------------------------------------------
(* The theorems *)

\* The inductive invariant holds: it is true of an empty library, and every step
\* of store.py and of the world around it preserves it.
THEOREM Inductive == Spec => []IInv
<1>1. Init => IInv
  <2> SUFFICES ASSUME Init PROVE IInv
    OBVIOUS
  <2> USE StoreAssumption DEF Init
  <2>1. CatalogType
    BY DEF CatalogType, Known, Record, NoRecord, Versions
  <2>2. IndexType
    BY DEF IndexType, Index, NoVectors
  <2>3. OperationType
    BY DEF OperationType, Steps
  <2>4. SyncType
    <3>1. count \in 0..MaxTroubles /\ seen \subseteq Troubles /\ todo \subseteq Docs
      OBVIOUS
    <3>2. rebuild \in BOOLEAN
      OBVIOUS
    <3> QED
      BY <3>1, <3>2 DEF SyncType
  <2>5. Control /\ Marked /\ Draft
    BY DEF Control, Marked, Draft, NoRecord, Versions
  <2>6. Progress /\ Sound
    BY DEF Progress, Sound, SoundIn, NoVectors
  <2>7. Repairable /\ Synced
    BY DEF Repairable, Synced, Known, NoRecord
  <2> QED
    BY <2>1, <2>2, <2>3, <2>4, <2>5, <2>6, <2>7 DEF IInv, TypeOK
<1>2. IInv /\ [Next]_vars => IInv'
  BY CatalogTypeStep, IndexTypeStep, OperationTypeStep, SyncTypeStep,
     ControlStep,
     MarkedStep, DraftStep, ProgressStep, SoundStep, RepairableStep, SyncedStep
     DEF IInv, TypeOK
<1> QED
  BY <1>1, <1>2, PTL DEF Spec

\* Every state the store reaches is well typed; in particular only recorded
\* documents are pending (TypeOK, checked by the run store).
THEOREM TypeCorrect == Spec => []TypeOK
  BY Inductive, PTL DEF IInv

\* What can be found of a document is text of its recorded version, whatever
\* crashed, raised, changed or was lost (RecordedText).
THEOREM TextIsRecorded == Spec => []RecordedText
<1>1. IInv => RecordedText
  BY DEF IInv, Sound, SoundIn, RecordedText
<1> QED
  BY <1>1, Inductive, PTL

\* No crash and no exception leaves a document that import and sync take for
\* up to date and that is not whole in the index (NothingForgotten).
THEOREM FailuresRepairable == Spec => []NothingForgotten
<1>1. IInv => NothingForgotten
  <2> SUFFICES ASSUME IInv, OnlyFailures, NEW d \in Known \ gone, UpToDate(d)
               PROVE  Whole(d)
    BY DEF NothingForgotten, UpToDateIsWhole
  <2>1. version[d] \in Nat
    BY StoreAssumption DEF IInv, TypeOK, CatalogType, Known, Versions
  <2>2. ~Stale(d) /\ d \notin pending
    BY <2>1 DEF UpToDate, Stale
  <2> QED
    BY <2>2 DEF IInv, Repairable, WholeIn, Whole
<1> QED
  BY <1>1, Inductive, PTL

\* What a synchronisation has done is whole and not pending (SyncedAreWhole).
THEOREM SyncCompletes == Spec => []SyncedAreWhole
<1>1. IInv => SyncedAreWhole
  BY DEF IInv, Control, Synced, SyncedAreWhole, WholeIn, Whole
<1> QED
  BY <1>1, Inductive, PTL

=============================================================================
