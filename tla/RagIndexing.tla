----------------------------- MODULE RagIndexing ----------------------------
(***************************************************************************)
(* Indexing of uploaded documents: the index and delete routes, the        *)
(* background task that parses, chunks, embeds and stores a document, the  *)
(* Redis lock that keeps the tasks of one document apart, the progress key *)
(* clients watch, and the database below them.                             *)
(*                                                                         *)
(* Every session is one transaction: its writes are seen by the others at  *)
(* the commit, all at once, or never. An UPDATE or DELETE holds its rows   *)
(* until then and others wait for them (PostgreSQL, read committed).       *)
(***************************************************************************)
EXTENDS Naturals, FiniteSets

CONSTANTS
    Doc,          \* uploaded documents
    Deletable,    \* those a client may try to delete, as often as it likes
    Job,          \* POST .../index requests, each with the job it may create
    NoDoc, NoJob, Deleter,
    StoreWrites,  \* may the vector store's statements work (TRUE in the set),
                  \* may they raise (FALSE)? The code as it stands always raises:
                  \* pgvector_adapter.py imports neither insert nor delete
    Faults,       \* may parsing, embedding or a commit fail?
    Crashes,      \* may a worker die?
    SlowJobs      \* may a job outlive _RAG_INDEX_LOCK_TTL_SECONDS?

ASSUME RagAssumption ==
    /\ NoDoc \notin Doc /\ Deletable \subseteq Doc /\ Deleter \notin Job /\ NoJob \notin Job /\ NoJob # Deleter
    /\ StoreWrites \subseteq BOOLEAN /\ {Faults, Crashes, SlowJobs} \subseteq BOOLEAN

VARIABLES
    doc,    \* committed rag_documents rows, their files and committed chunks
    job,    \* committed status of each rag_ingestion_jobs row
    prog,   \* Redis rag:job:<id>
    lock,   \* Redis lock:jobs:rag:index:<doc>
    held,   \* who has updated the document's row and not ended its transaction
    req,    \* index_document requests
    task,   \* run_rag_index_job tasks
    del     \* delete_document requests, one at a time per document

vars == <<doc, job, prog, lock, held, req, task, del>>

----------------------------------------------------------------------------
DocRow   == [status : {"uploaded", "indexed", "deleted"}, deleted : BOOLEAN,
             file : BOOLEAN, chunks : SUBSET Job]
JobState == {"none", "pending", "completed"}
Progress == {"none", "pending", "running", "completed", "failed"}
RequestState == [pc : {"idle", "create", "schedule", "commit", "done"}, doc : Doc \cup {NoDoc}]
TaskPC   == {"none", "lock", "load", "update", "parse", "embed", "delete", "deleteRows",
             "insert", "finish", "commit", "release", "done"}
TaskSt   == [pc : TaskPC, seen : SUBSET Job, removed : SUBSET Job]
DelSt    == [pc : {"idle", "delete", "deleteRows", "update", "file", "commit"},
             seen : SUBSET Job, removed : SUBSET Job]

TypeOK ==
    /\ doc \in [Doc -> DocRow]
    /\ job \in [Job -> JobState]
    /\ prog \in [Job -> Progress]
    /\ lock \in [Doc -> BOOLEAN]
    /\ held \in [Doc -> Job \cup {Deleter, NoJob}]
    /\ req \in [Job -> RequestState]
    /\ task \in [Job -> TaskSt]
    /\ del \in [Doc -> DelSt]

TaskAt(pc) == [pc |-> pc, seen |-> {}, removed |-> {}]
NoDelete   == [pc |-> "idle", seen |-> {}, removed |-> {}]

Init ==
    /\ doc  = [d \in Doc |-> [status |-> "uploaded", deleted |-> FALSE, file |-> TRUE, chunks |-> {}]]
    /\ job  = [j \in Job |-> "none"]
    /\ prog = [j \in Job |-> "none"]
    /\ lock = [d \in Doc |-> FALSE]
    /\ held = [d \in Doc |-> NoJob]
    /\ req  = [j \in Job |-> [pc |-> "idle", doc |-> NoDoc]]
    /\ task = [j \in Job |-> TaskAt("none")]
    /\ del  = [d \in Doc |-> NoDelete]

----------------------------------------------------------------------------
\* POST /documents/{id}/index

\* A live document without an active job gets a new one.
ReceiveIndex(j) ==
    /\ req[j].pc = "idle"
    /\ \E d \in Doc :
         req' = [req EXCEPT ![j] =
            [pc  |-> IF doc[d].deleted \/ \E k \in Job : req[k].doc = d /\ job[k] = "pending"
                     THEN "done" ELSE "create",
             doc |-> d]]
    /\ UNCHANGED <<doc, job, prog, lock, held, task, del>>

\* The row is flushed, not committed; the progress key is written at once.
CreateJob(j) ==
    /\ req[j].pc = "create"
    /\ prog' = [prog EXCEPT ![j] = "pending"]
    /\ req' = [req EXCEPT ![j].pc = "schedule"]
    /\ UNCHANGED <<doc, job, lock, held, task, del>>

\* schedule_background, while the request's transaction is still open.
Schedule(j) ==
    /\ req[j].pc = "schedule"
    /\ task' = [task EXCEPT ![j] = TaskAt("lock")]
    /\ req' = [req EXCEPT ![j].pc = "commit"]
    /\ UNCHANGED <<doc, job, prog, lock, held, del>>

\* get_db commits when the route has returned.
CommitRequest(j) ==
    /\ req[j].pc = "commit"
    /\ job' \in {[job EXCEPT ![j] = "pending"]} \cup (IF Faults THEN {job} ELSE {})
    /\ req' = [req EXCEPT ![j].pc = "done"]
    /\ UNCHANGED <<doc, prog, lock, held, task, del>>

----------------------------------------------------------------------------
\* run_rag_index_job

\* SET NX EX; a duplicate returns without touching the lock.
\* Mutant: the early return lies inside the try block, whose finally releases.
TakeLockReleasing(j) ==
    LET d == req[j].doc IN
    /\ task[j].pc = "lock"
    /\ lock' = [lock EXCEPT ![d] = TRUE]
    /\ task' = [task EXCEPT ![j].pc = IF lock[d] THEN "release" ELSE "load"]
    /\ UNCHANGED <<doc, job, prog, held, req, del>>
TakeLock(j) ==
    LET d == req[j].doc IN
    /\ task[j].pc = "lock"
    /\ lock' = [lock EXCEPT ![d] = TRUE]
    /\ task' = [task EXCEPT ![j].pc = IF lock[d] THEN "done" ELSE "load"]
    /\ UNCHANGED <<doc, job, prog, held, req, del>>

\* A job row the request has not committed yet is not found: LookupError.
Load(j) ==
    /\ task[j].pc = "load"
    /\ IF doc[req[j].doc].deleted \/ job[j] = "none"
       THEN task' = [task EXCEPT ![j].pc = "release"] /\ UNCHANGED prog
       ELSE task' = [task EXCEPT ![j].pc = "update"] /\ prog' = [prog EXCEPT ![j] = "running"]
    /\ UNCHANGED <<doc, job, lock, held, req, del>>

\* UPDATE rag_documents SET status = 'parsing' WHERE id = ...
UpdateDocument(j) ==
    LET d == req[j].doc IN
    /\ task[j].pc = "update"
    /\ held[d] = NoJob
    /\ held' = [held EXCEPT ![d] = j]
    /\ task' = [task EXCEPT ![j].pc = "parse"]
    /\ UNCHANGED <<doc, job, prog, lock, req, del>>

\* The session_scope of the task ends in a rollback.
\* Mutant: the error is swallowed and the transaction stays open.
RollBackNever(j) ==
    /\ task' = [task EXCEPT ![j] = TaskAt("release")]
    /\ UNCHANGED held
RollBack(j) ==
    /\ held' = [d \in Doc |-> IF held[d] = j THEN NoJob ELSE held[d]]
    /\ task' = [task EXCEPT ![j] = TaskAt("release")]

\* The exception handler: FAILED is published, flushed and rolled back with
\* the rest when the handler raises again.
Fail(j) ==
    /\ prog' = [prog EXCEPT ![j] = "failed"]
    /\ RollBack(j)
    /\ UNCHANGED <<doc, job, lock, req, del>>

\* After a database error the handler's own flush raises first: nothing is
\* published.
DatabaseError(j) == RollBack(j) /\ UNCHANGED <<doc, job, prog, lock, req, del>>

Parse(j) ==
    /\ task[j].pc = "parse"
    /\ \/ /\ doc[req[j].doc].file
          /\ task' = [task EXCEPT ![j].pc = "embed"]
          /\ UNCHANGED <<doc, job, prog, lock, held, req, del>>
       \/ /\ Faults \/ ~doc[req[j].doc].file
          /\ Fail(j)

ChunkAndEmbed(j) ==
    /\ task[j].pc = "embed"
    /\ \/ /\ task' = [task EXCEPT ![j].pc = "delete"]
          /\ UNCHANGED <<doc, job, prog, lock, held, req, del>>
       \/ Faults /\ Fail(j)

\* DELETE FROM rag_chunks sees the rows committed when it starts ...
DeleteStart(j) ==
    /\ task[j].pc = "delete"
    /\ \/ /\ TRUE \in StoreWrites
          /\ task' = [task EXCEPT ![j].pc = "deleteRows", ![j].seen = doc[req[j].doc].chunks]
          /\ UNCHANGED <<doc, job, prog, lock, held, req, del>>
       \/ FALSE \in StoreWrites /\ Fail(j)

\* ... and waits for those another transaction has deleted.
JobsRemoved(d, j) == UNION {task[k].removed : k \in {k \in Job \ {j} : req[k].doc = d}}
DeleteRows(j) ==
    LET d == req[j].doc
        rows == task[j].seen \cap doc[d].chunks
    IN
    /\ task[j].pc = "deleteRows"
    /\ rows \cap (del[d].removed \cup JobsRemoved(d, j)) = {}
    /\ task' = [task EXCEPT ![j].pc = "insert", ![j].removed = rows]
    /\ UNCHANGED <<doc, job, prog, lock, held, req, del>>

Insert(j) ==
    /\ task[j].pc = "insert"
    /\ task' = [task EXCEPT ![j].pc = "finish"]
    /\ UNCHANGED <<doc, job, prog, lock, held, req, del>>

\* INDEXED and COMPLETED are flushed and published.
Finish(j) ==
    /\ task[j].pc = "finish"
    /\ prog' = [prog EXCEPT ![j] = "completed"]
    /\ task' = [task EXCEPT ![j].pc = "commit"]
    /\ UNCHANGED <<doc, job, lock, held, req, del>>

Commit(j) ==
    LET d == req[j].doc IN
    /\ task[j].pc = "commit"
    /\ \/ /\ doc' = [doc EXCEPT ![d].status = "indexed",
                                ![d].chunks = (@ \ task[j].removed) \cup {j}]
          /\ job' = [job EXCEPT ![j] = "completed"]
          /\ RollBack(j)     \* the transaction is over, its locks are gone
          /\ UNCHANGED <<prog, lock, req, del>>
       \/ Faults /\ DatabaseError(j)

\* finally: an unconditional DELETE of the lock key.
ReleaseLock(j) ==
    /\ task[j].pc = "release"
    /\ lock' = [lock EXCEPT ![req[j].doc] = FALSE]
    /\ task' = [task EXCEPT ![j].pc = "done"]
    /\ UNCHANGED <<doc, job, prog, held, req, del>>

----------------------------------------------------------------------------
\* DELETE /documents/{id}

ReceiveDelete(d) ==
    /\ d \in Deletable /\ del[d].pc = "idle"
    /\ ~doc[d].deleted
    /\ del' = [del EXCEPT ![d].pc = "delete"]
    /\ UNCHANGED <<doc, job, prog, lock, held, req, task>>

DelAbort(d) ==
    /\ held' = [held EXCEPT ![d] = IF @ = Deleter THEN NoJob ELSE @]
    /\ del' = [del EXCEPT ![d] = NoDelete]
    /\ UNCHANGED <<doc, job, prog, lock, req, task>>

DelStart(d) ==
    /\ del[d].pc = "delete"
    /\ \/ /\ TRUE \in StoreWrites
          /\ del' = [del EXCEPT ![d].pc = "deleteRows", ![d].seen = doc[d].chunks]
          /\ UNCHANGED <<doc, job, prog, lock, held, req, task>>
       \/ FALSE \in StoreWrites /\ DelAbort(d)

DelRows(d) ==
    LET rows == del[d].seen \cap doc[d].chunks IN
    /\ del[d].pc = "deleteRows"
    /\ rows \cap JobsRemoved(d, NoJob) = {}
    /\ del' = [del EXCEPT ![d].pc = "update", ![d].removed = rows]
    /\ UNCHANGED <<doc, job, prog, lock, held, req, task>>

\* UPDATE rag_documents SET deleted_at, status = 'deleted'
DelUpdate(d) ==
    /\ del[d].pc = "update"
    /\ held[d] = NoJob
    /\ held' = [held EXCEPT ![d] = Deleter]
    /\ del' = [del EXCEPT ![d].pc = "file"]
    /\ UNCHANGED <<doc, job, prog, lock, req, task>>

\* The file goes before the transaction is committed.
\* Mutant: the file stays.
DelFileKept(d) ==
    /\ del[d].pc = "file"
    /\ del' = [del EXCEPT ![d].pc = "commit"]
    /\ UNCHANGED <<doc, job, prog, lock, held, req, task>>
DelFile(d) ==
    /\ del[d].pc = "file"
    /\ doc' = [doc EXCEPT ![d].file = FALSE]
    /\ del' = [del EXCEPT ![d].pc = "commit"]
    /\ UNCHANGED <<job, prog, lock, held, req, task>>

DelCommit(d) ==
    /\ del[d].pc = "commit"
    /\ \/ /\ doc' = [doc EXCEPT ![d].status = "deleted", ![d].deleted = TRUE,
                                ![d].chunks = @ \ del[d].removed]
          /\ held' = [held EXCEPT ![d] = NoJob]
          /\ del' = [del EXCEPT ![d] = NoDelete]
          /\ UNCHANGED <<job, prog, lock, req, task>>
       \/ Faults /\ DelAbort(d)

----------------------------------------------------------------------------
\* The job holds the document's row and waits for chunks the deletion has
\* removed; the deletion waits for the row. PostgreSQL ends one of them.
BreakDeadlock(d, j) ==
    /\ req[j].doc = d /\ held[d] = j
    /\ task[j].pc = "deleteRows" /\ del[d].pc = "update"
    /\ task[j].seen \cap doc[d].chunks \cap del[d].removed # {}
    /\ DatabaseError(j) \/ DelAbort(d)

Working(j) == task[j].pc \notin {"none", "lock", "done"}
\* The lock's time to live runs out; unless SlowJobs, only after its holder
\* died.
ExpireLock(d) ==
    /\ lock[d]
    /\ SlowJobs \/ \A j \in Job : req[j].doc = d => ~Working(j)
    /\ lock' = [lock EXCEPT ![d] = FALSE]
    /\ UNCHANGED <<doc, job, prog, held, req, task, del>>

\* The worker that serves request j and runs its task dies: open
\* transactions are rolled back, Redis stays as it is.
Die(j) ==
    /\ Crashes
    /\ req[j].pc \in {"create", "schedule", "commit"} \/ task[j].pc \notin {"none", "done"}
    /\ req' = [req EXCEPT ![j].pc = "done"]
    /\ held' = [d \in Doc |-> IF held[d] = j THEN NoJob ELSE held[d]]
    /\ task' = [task EXCEPT ![j] = TaskAt("done")]
    /\ UNCHANGED <<doc, job, prog, lock, del>>

RequestStep(j) == CreateJob(j) \/ Schedule(j) \/ CommitRequest(j)
TaskStep(j) ==
    \/ TakeLock(j) \/ Load(j) \/ UpdateDocument(j) \/ Parse(j) \/ ChunkAndEmbed(j)
    \/ DeleteStart(j) \/ DeleteRows(j) \/ Insert(j) \/ Finish(j) \/ Commit(j)
    \/ ReleaseLock(j)
DelStep(d) == DelStart(d) \/ DelRows(d) \/ DelUpdate(d) \/ DelFile(d) \/ DelCommit(d)

Next ==
    \/ \E j \in Job : ReceiveIndex(j) \/ RequestStep(j) \/ TaskStep(j) \/ Die(j)
    \/ \E d \in Doc : ReceiveDelete(d) \/ DelStep(d) \/ ExpireLock(d)
    \/ \E d \in Doc, j \in Job : BreakDeadlock(d, j)

Spec == Init /\ [][Next]_vars

\* asyncio runs ready tasks, awaited commands return, PostgreSQL breaks
\* deadlocks, those who wait for a row queue up for it (so a job gets its
\* turn among any number of deletions).
FairSpec ==
    /\ Spec
    /\ \A j \in Job :
         /\ WF_vars(RequestStep(j)) /\ WF_vars(TaskStep(j))
         /\ SF_vars(UpdateDocument(j)) /\ SF_vars(DeleteRows(j))
    /\ \A d \in Doc : WF_vars(DelStep(d))
    /\ \A d \in Doc, j \in Job : WF_vars(BreakDeadlock(d, j))

----------------------------------------------------------------------------
(* Properties.                                                             *)

\* At most one task works on a document at a time: the lock is taken with NX
\* and a skipped duplicate leaves it alone (run_rag_index_job).
OneIndexer ==
    \A j, k \in Job : req[j].doc = req[k].doc /\ Working(j) /\ Working(k) => j = k

\* An indexed document has the chunks of one job, neither none nor two
\* generations of them, whatever was deleted, retried or rolled back
\* meanwhile (_run_index_job's delete and upsert, delete_document).
OneGeneration ==
    \A d \in Doc : doc[d].status = "indexed" => Cardinality(doc[d].chunks) = 1

\* A deleted document stays deleted: a job that was waiting for its row does
\* not turn it into an indexed one (soft_delete_document, delete_file and the
\* order of delete_document's statements).
DeletedForGood == \A d \in Doc : doc[d].deleted => doc[d].status = "deleted"

\* The lock of a document is given back however its job ends: while it is
\* held a task works on the document (run_rag_index_job's finally). Without
\* crashes; after one only the time to live of two hours frees it.
LockServed == \A d \in Doc : lock[d] => \E j \in Job : req[j].doc = d /\ Working(j)

\* Both at once: the lock says, no more and no less, that a task works on the
\* document (run_rag_index_job's acquire, early return and finally).
IndexingIsLocked == OneIndexer /\ LockServed

\* A deletion the client asked for ends, and no job waits for ever on its
\* rows: every cycle of row locks is the one PostgreSQL breaks.
TransactionsEnd ==
    /\ \A d \in Doc : []<>(del[d].pc = "idle")
    /\ \A j \in Job : []<>~Working(j)

Gone(d) == \E e \in Doc : d = e /\ doc[e].deleted

\* An accepted job is carried out, unless the document is deleted.
JobCompletes ==
    \A j \in Job :
        job[j] = "pending" ~> job[j] = "completed" \/ Gone(req[j].doc)
=============================================================================
