------------------------- MODULE RagIndexing_proofs -------------------------
(***************************************************************************)
(* The locks of the indexing, in Redis and on the rows, keep the document  *)
(* and its chunks consistent: for any number of documents, index requests  *)
(* and deletions, with any faults and crashes.                             *)
(***************************************************************************)
EXTENDS RagIndexing, FiniteSetTheorems, TLAPS

InRow    == {"parse", "embed", "delete", "deleteRows", "insert", "finish", "commit"}
Parsed   == InRow \ {"parse"}
Replaced == {"insert", "finish", "commit"}

\* A request that has not scheduled its task has none; a task has a document.
Requests ==
    \A j \in Job :
      /\ req[j].pc \in {"idle", "create", "schedule"} => task[j].pc = "none"
      /\ task[j].pc # "none" => req[j].doc \in Doc
      /\ req[j].pc # "idle" => req[j].doc \in Doc

\* From its first UPDATE to its end a transaction holds the document's row.
Rows ==
    /\ \A j \in Job : task[j].pc \in InRow => held[req[j].doc] = j
    /\ \A d \in Doc : del[d].pc \in {"file", "commit"} <=> held[d] = Deleter

\* A deletion takes the file before it commits, so that a job that finds the
\* file has a document that is not deleted, and stays so under its row lock.
Files ==
    /\ \A d \in Doc : doc[d].deleted => ~doc[d].file /\ doc[d].status = "deleted"
    /\ \A d \in Doc : del[d].pc = "commit" => ~doc[d].file
    /\ \A j \in Job : task[j].pc \in Parsed => ~doc[req[j].doc].deleted

\* Under the row lock the chunks a job saw and removed are all there are.
Chunks ==
    /\ \A j \in Job :
         /\ task[j].pc = "deleteRows" => task[j].seen = doc[req[j].doc].chunks
         /\ task[j].pc \in Replaced => task[j].removed = doc[req[j].doc].chunks
    /\ \A d \in Doc : doc[d].status = "indexed" => \E j \in Job : doc[d].chunks = {j}

Inv == TypeOK /\ Requests /\ Rows /\ Files /\ Chunks

----------------------------------------------------------------------------
\* The initial state.
LEMMA InvInitially == Init => Inv
<1> SUFFICES ASSUME Init PROVE Inv
  OBVIOUS
<1>1. TypeOK
  BY DEF Init, TypeOK, DocRow, JobState, Progress, RequestState, TaskSt, TaskPC, DelSt, TaskAt, NoDelete
<1>2. Requests /\ Rows /\ Files /\ Chunks
  BY RagAssumption DEF Init, Requests, Rows, Files, Chunks, InRow, Parsed, Replaced, TaskAt, NoDelete
<1>3. QED
  BY <1>1, <1>2 DEF Inv

\* The steps of an index request touch no row.
LEMMA RequestSteps ==
    ASSUME Inv, NEW j \in Job, ReceiveIndex(j) \/ RequestStep(j)
    PROVE  Inv'
<1>1. UNCHANGED <<doc, lock, held, del>>
  BY DEF ReceiveIndex, RequestStep, CreateJob, Schedule, CommitRequest
<1>2. /\ req' \in [Job -> RequestState] /\ \A k \in Job \ {j} : req'[k] = req[k]
      /\ req'[j].pc # "idle" /\ req'[j].doc \in Doc
      /\ req[j].pc # "idle" => req'[j].doc = req[j].doc
  BY SMTT(30) DEF ReceiveIndex, RequestStep, CreateJob, Schedule, CommitRequest, Inv, TypeOK, RequestState, Requests
<1>3. /\ task' \in [Job -> TaskSt] /\ \A k \in Job \ {j} : task'[k] = task[k]
      /\ task'[j] = task[j] \/ (task'[j].pc = "lock" /\ req'[j].pc = "commit")
      /\ task'[j] = task[j] => (req'[j].pc \in {"create", "schedule"} => req[j].pc \in {"idle", "create"})
  <2>1. CASE Schedule(j)
    BY <2>1 DEF Schedule, Inv, TypeOK, RequestState, TaskSt, TaskAt, TaskPC
  <2>2. CASE ReceiveIndex(j) \/ CreateJob(j) \/ CommitRequest(j)
    BY <2>2 DEF ReceiveIndex, CreateJob, CommitRequest, Inv, TypeOK, RequestState
  <2>3. QED
    BY <2>1, <2>2 DEF RequestStep
<1>4. job' \in [Job -> JobState] /\ prog' \in [Job -> Progress]
  BY DEF ReceiveIndex, RequestStep, CreateJob, Schedule, CommitRequest, Inv, TypeOK, JobState, Progress
<1>5. TypeOK'
  BY <1>1, <1>2, <1>3, <1>4 DEF Inv, TypeOK
<1>6. Requests'
  BY <1>2, <1>3 DEF Inv, Requests, TypeOK
<1>7. \A k \in Job : task'[k].pc \in InRow => task'[k] = task[k] /\ req'[k].doc = req[k].doc
  BY <1>2, <1>3 DEF Inv, Requests, InRow, TypeOK
<1>8. Rows' /\ Files' /\ Chunks'
  BY <1>1, <1>7 DEF Inv, Rows, Files, Chunks, InRow, Parsed, Replaced
<1>9. QED
  BY <1>5, <1>6, <1>8 DEF Inv

----------------------------------------------------------------------------
\* A task that goes on in its transaction, or outside of one.
LEMMA TaskMoves ==
    ASSUME Inv, NEW j \in Job, task[j].pc # "none",
           UNCHANGED <<doc, job, held, req, del>>,
           lock' \in [Doc -> BOOLEAN], prog' \in [Job -> Progress],
           task' \in [Job -> TaskSt], \A k \in Job \ {j} : task'[k] = task[k],
           task'[j].pc \in InRow => task[j].pc \in InRow,
           task'[j].pc \in Parsed => task[j].pc \in Parsed \/ doc[req[j].doc].file,
           task'[j].pc = "deleteRows" => task'[j].seen = doc[req[j].doc].chunks,
           task'[j].pc \in Replaced => task'[j].removed = doc[req[j].doc].chunks
    PROVE  Inv'
<1>1. TypeOK'
  BY DEF Inv, TypeOK
<1>2. Requests'
  BY DEF Inv, Requests
<1>3. Rows'
  BY DEF Inv, Rows
<1>4. Files'
  BY DEF Inv, Files, Requests
<1>5. Chunks'
  BY DEF Inv, Chunks
<1>6. QED
  BY <1>1, <1>2, <1>3, <1>4, <1>5 DEF Inv

\* A transaction of a task that ends without a commit gives its row back.
LEMMA TaskEnds ==
    ASSUME Inv, NEW j \in Job, NEW pc \in {"release", "done"}, req[j].pc # "idle",
           UNCHANGED <<doc, job, lock, del>>, prog' \in [Job -> Progress],
           held' = [d \in Doc |-> IF held[d] = j THEN NoJob ELSE held[d]],
           task' = [task EXCEPT ![j] = TaskAt(pc)],
           (req' = req /\ req[j].pc \notin {"create", "schedule"}) \/ req' = [req EXCEPT ![j].pc = "done"]
    PROVE  Inv'
<1>1. req' \in [Job -> RequestState] /\ \A k \in Job : req'[k].doc = req[k].doc /\ (k # j => req'[k] = req[k])
  BY DEF Inv, TypeOK, RequestState
<1>2. /\ task' \in [Job -> TaskSt] /\ \A k \in Job \ {j} : task'[k] = task[k]
      /\ task'[j].pc = pc
  BY DEF Inv, TypeOK, TaskSt, TaskAt, TaskPC
<1>3. TypeOK'
  BY <1>1, <1>2 DEF Inv, TypeOK
<1>4. Requests'
  <2>1. req'[j].pc \notin {"idle", "create", "schedule"} /\ req'[j].doc \in Doc
    BY ZenonT(40), <1>1 DEF Inv, TypeOK, RequestState, Requests
  <2>2. QED
    BY <1>1, <1>2, <2>1 DEF Inv, Requests
<1>5. \A k \in Job : task'[k].pc \in InRow => k # j /\ task[k] = task'[k]
  BY <1>2 DEF InRow
<1>6. Rows'
  <2>1. \A k \in Job : task[k].pc \in InRow => req[k].doc \in Doc
    BY DEF Inv, Requests, InRow
  <2>2. QED
    BY <1>1, <1>5, <2>1, RagAssumption DEF Inv, Rows, TypeOK
<1>7. Files' /\ Chunks'
  BY <1>1, <1>5 DEF Inv, Files, Chunks, InRow, Parsed, Replaced
<1>8. QED
  BY <1>3, <1>4, <1>6, <1>7 DEF Inv

\* The error exits of a task's transaction.
LEMMA TaskFails ==
    ASSUME Inv, NEW j \in Job, task[j].pc \notin {"none"}, Fail(j) \/ DatabaseError(j)
    PROVE  Inv'
<1>1. req[j].pc \notin {"idle", "create", "schedule"}
  BY DEF Inv, Requests
<1>2. prog' \in [Job -> Progress]
  BY DEF Inv, TypeOK, Fail, DatabaseError, Progress
<1>3. QED
  BY <1>1, <1>2, TaskEnds DEF Fail, DatabaseError, RollBack

\* The first UPDATE waits until nobody has the row.
LEMMA TakesRow == ASSUME Inv, NEW j \in Job, UpdateDocument(j) PROVE Inv'
<1> DEFINE d == req[j].doc
<1>1. d \in Doc /\ task[j].pc = "update" /\ held[d] = NoJob
  BY DEF UpdateDocument, Inv, Requests
<1>2. /\ held' \in [Doc -> Job \cup {Deleter, NoJob}]
      /\ held'[d] = j /\ \A e \in Doc \ {d} : held'[e] = held[e]
  BY <1>1 DEF UpdateDocument, Inv, TypeOK
<1>3. /\ task' \in [Job -> TaskSt] /\ task'[j].pc = "parse"
      /\ \A k \in Job \ {j} : task'[k] = task[k]
  BY DEF UpdateDocument, Inv, TypeOK, TaskSt, TaskPC
<1>4. TypeOK'
  BY <1>2, <1>3 DEF UpdateDocument, Inv, TypeOK
<1>5. Requests'
  BY <1>1, <1>3 DEF UpdateDocument, Inv, Requests
<1>6. Rows'
  <2>1. \A k \in Job \ {j} : task[k].pc \in InRow => req[k].doc # d
    BY <1>1, RagAssumption DEF Inv, Rows
  <2>2. \A k \in Job : task[k].pc \in InRow => req[k].doc \in Doc
    BY DEF Inv, Requests, InRow
  <2>3. \A k \in Job : task'[k].pc \in InRow => held'[req[k].doc] = k
    BY <1>1, <1>2, <1>3, <2>1, <2>2 DEF Inv, Rows
  <2>4. \A e \in Doc : del[e].pc \in {"file", "commit"} <=> held'[e] = Deleter
    BY <1>1, <1>2, RagAssumption DEF Inv, Rows
  <2>5. QED
    BY <2>3, <2>4 DEF UpdateDocument, Rows
<1>7. Files' /\ Chunks'
  BY <1>3 DEF UpdateDocument, Inv, Files, Chunks, Parsed, Replaced
<1>8. QED
  BY <1>4, <1>5, <1>6, <1>7 DEF Inv

\* A commit leaves the chunks of its job alone in a document that is there.
LEMMA Commits == ASSUME Inv, NEW j \in Job, Commit(j) PROVE Inv'
<1> DEFINE d == req[j].doc
<1>1. CASE DatabaseError(j)
  BY <1>1, TaskFails DEF Commit
<1>2. ASSUME doc' = [doc EXCEPT ![d].status = "indexed", ![d].chunks = (@ \ task[j].removed) \cup {j}],
             job' = [job EXCEPT ![j] = "completed"], RollBack(j),
             UNCHANGED <<prog, lock, req, del>>
      PROVE  Inv'
  <2>1. d \in Doc /\ req[j].pc \notin {"idle", "create", "schedule"} /\ held[d] = j
    BY DEF Commit, Inv, Requests, Rows, InRow
  <2>2. ~doc[d].deleted /\ task[j].removed = doc[d].chunks
    BY DEF Commit, Inv, Files, Chunks, Parsed, InRow, Replaced
  <2>3. /\ doc'[d].chunks = {j} /\ ~doc'[d].deleted /\ doc'[d].status = "indexed"
        /\ doc'[d].file = doc[d].file
        /\ \A e \in Doc \ {d} : doc'[e] = doc[e]
    BY <1>2, <2>1, <2>2 DEF Inv, TypeOK, DocRow
  <2>4. doc' \in [Doc -> DocRow] /\ job' \in [Job -> JobState]
    <3>1. doc' = [doc EXCEPT ![d] = [doc[d] EXCEPT !.status = "indexed",
                                                  !.chunks = (@ \ task[j].removed) \cup {j}]]
      BY <1>2, <2>1 DEF Inv, TypeOK, DocRow
    <3>2. doc[d] \in DocRow
      BY <2>1 DEF Inv, TypeOK
    <3>3. [doc[d] EXCEPT !.status = "indexed", !.chunks = (@ \ task[j].removed) \cup {j}] \in DocRow
      BY <3>2 DEF DocRow
    <3>4. doc' \in [Doc -> DocRow]
      BY <3>1, <3>3 DEF Inv, TypeOK
    <3>5. job' \in [Job -> JobState]
      BY <1>2 DEF Inv, TypeOK, JobState
    <3>6. QED
      BY <3>4, <3>5
  <2>5. /\ task' \in [Job -> TaskSt] /\ \A k \in Job \ {j} : task'[k] = task[k]
        /\ task'[j].pc = "release"
    BY <1>2 DEF RollBack, Inv, TypeOK, TaskSt, TaskAt, TaskPC
  <2>6. held' = [e \in Doc |-> IF held[e] = j THEN NoJob ELSE held[e]]
    BY <1>2 DEF RollBack
  <2>7. TypeOK'
    BY <1>2, <2>4, <2>5, <2>6 DEF Inv, TypeOK
  <2>8. Requests'
    BY <1>2, <2>1, <2>5 DEF Inv, Requests
  <2>9. \A k \in Job : task'[k].pc \in InRow =>
            k # j /\ task[k] = task'[k] /\ req[k].doc \in Doc /\ held[req[k].doc] = k
    BY <2>5 DEF InRow, Inv, Requests, Rows
  <2>10. Rows'
    BY <1>2, <2>6, <2>9, RagAssumption DEF Inv, Rows
  <2>11. \A k \in Job : task'[k].pc \in InRow => doc'[req[k].doc] = doc[req[k].doc]
    BY <2>1, <2>3, <2>9
  <2>12. Files'
    <3>1. \A e \in Doc : doc'[e].deleted => ~doc'[e].file /\ doc'[e].status = "deleted"
      <4> SUFFICES ASSUME NEW e \in Doc, doc'[e].deleted
                   PROVE  ~doc'[e].file /\ doc'[e].status = "deleted"
        OBVIOUS
      <4>1. e # d
        BY <2>3
      <4>2. QED
        BY <2>3, <4>1 DEF Inv, Files
    <3>2. ASSUME NEW k \in Job, task'[k].pc \in Parsed PROVE ~doc'[req'[k].doc].deleted
      <4>1. task'[k].pc \in InRow /\ req' = req
        BY <1>2, <3>2 DEF Parsed
      <4>2. task[k].pc \in Parsed /\ doc'[req[k].doc] = doc[req[k].doc]
        BY <2>9, <2>11, <3>2, <4>1
      <4>3. QED
        BY <4>1, <4>2 DEF Inv, Files
    <3>3. \A e \in Doc : del'[e].pc = "commit" => ~doc'[e].file
      BY <1>2, <2>3 DEF Inv, Files
    <3>4. QED
      BY <3>1, <3>2, <3>3 DEF Files
  <2>13. Chunks'
    <3>1. \A k \in Job :
            /\ task'[k].pc = "deleteRows" => task'[k].seen = doc'[req'[k].doc].chunks
            /\ task'[k].pc \in Replaced => task'[k].removed = doc'[req'[k].doc].chunks
      <4> SUFFICES ASSUME NEW k \in Job, task'[k].pc \in InRow
                   PROVE  /\ task'[k].pc = "deleteRows" => task'[k].seen = doc'[req'[k].doc].chunks
                          /\ task'[k].pc \in Replaced => task'[k].removed = doc'[req'[k].doc].chunks
        BY DEF InRow, Replaced
      <4>1. task'[k] = task[k] /\ doc'[req[k].doc] = doc[req[k].doc] /\ req' = req
        BY <1>2, <2>9, <2>11
      <4>2. QED
        BY <4>1 DEF Inv, Chunks
    <3>2. \A e \in Doc : doc'[e].status = "indexed" => \E k \in Job : doc'[e].chunks = {k}
      BY <2>3 DEF Inv, Chunks
    <3>3. QED
      BY <3>1, <3>2 DEF Chunks
  <2>14. QED
    BY <2>7, <2>8, <2>10, <2>12, <2>13 DEF Inv
<1>3. QED
  BY <1>1, <1>2 DEF Commit

\* Every step of a task.
LEMMA TaskSteps == ASSUME Inv, NEW j \in Job, TaskStep(j) PROVE Inv'
<1> DEFINE d == req[j].doc
<1>a. task[j].pc # "none" => d \in Doc
  BY DEF Inv, Requests
<1>b. task \in [Job -> TaskSt] /\ task[j] \in TaskSt
  BY DEF Inv, TypeOK
<1>c. prog \in [Job -> Progress] /\ lock \in [Doc -> BOOLEAN] /\ doc \in [Doc -> DocRow]
  BY DEF Inv, TypeOK
<1>1. CASE TakeLock(j)
  <2>1. /\ lock' \in [Doc -> BOOLEAN] /\ task' \in [Job -> TaskSt]
        /\ task'[j].pc \in {"done", "load"} /\ \A k \in Job \ {j} : task'[k] = task[k]
    BY <1>1, <1>b, <1>c DEF TakeLock, TaskSt, TaskPC
  <2>2. task[j].pc = "lock" /\ prog' = prog /\ UNCHANGED <<doc, job, held, req, del>>
    BY <1>1 DEF TakeLock
  <2>3. QED
    BY <2>1, <2>2, <1>c, TaskMoves DEF InRow, Parsed, Replaced
<1>2. CASE Load(j)
  <2>1. /\ prog' \in [Job -> Progress] /\ task' \in [Job -> TaskSt]
        /\ task'[j].pc \in {"release", "update"} /\ \A k \in Job \ {j} : task'[k] = task[k]
    BY <1>2, <1>b, <1>c DEF Load, TaskSt, TaskPC, Progress
  <2>2. task[j].pc = "load" /\ lock' = lock /\ UNCHANGED <<doc, job, held, req, del>>
    BY <1>2 DEF Load
  <2>3. QED
    BY <2>1, <2>2, <1>c, TaskMoves DEF InRow, Parsed, Replaced
<1>3. CASE UpdateDocument(j)
  BY <1>3, TakesRow
<1>4. CASE Parse(j)
  <2>1. task[j].pc = "parse"
    BY <1>4 DEF Parse
  <2>2. CASE Fail(j)
    BY <2>1, <2>2, TaskFails
  <2>3. CASE doc[d].file /\ task' = [task EXCEPT ![j].pc = "embed"] /\ UNCHANGED <<doc, job, prog, lock, held, req, del>>
    <3>1. task' \in [Job -> TaskSt] /\ task'[j].pc = "embed" /\ \A k \in Job \ {j} : task'[k] = task[k]
      BY <2>3, <1>b DEF TaskSt, TaskPC
    <3>2. QED
      BY <2>1, <2>3, <3>1, <1>c, TaskMoves DEF InRow, Replaced
  <2>4. QED
    BY <1>4, <2>2, <2>3 DEF Parse
<1>5. CASE ChunkAndEmbed(j)
  <2>1. task[j].pc = "embed"
    BY <1>5 DEF ChunkAndEmbed
  <2>2. CASE Fail(j)
    BY <2>1, <2>2, TaskFails
  <2>3. CASE task' = [task EXCEPT ![j].pc = "delete"] /\ UNCHANGED <<doc, job, prog, lock, held, req, del>>
    <3>1. task' \in [Job -> TaskSt] /\ task'[j].pc = "delete" /\ \A k \in Job \ {j} : task'[k] = task[k]
      BY <2>3, <1>b DEF TaskSt, TaskPC
    <3>2. QED
      BY <2>1, <2>3, <3>1, <1>c, TaskMoves DEF InRow, Parsed, Replaced
  <2>4. QED
    BY <1>5, <2>2, <2>3 DEF ChunkAndEmbed
<1>6. CASE DeleteStart(j)
  <2>1. task[j].pc = "delete" /\ d \in Doc
    BY <1>6, <1>a DEF DeleteStart
  <2>2. CASE Fail(j)
    BY <2>1, <2>2, TaskFails
  <2>3. CASE /\ task' = [task EXCEPT ![j].pc = "deleteRows", ![j].seen = doc[d].chunks]
             /\ UNCHANGED <<doc, job, prog, lock, held, req, del>>
    <3>1. doc[d].chunks \in SUBSET Job
      BY <2>1, <1>c DEF DocRow
    <3>2. task' = [task EXCEPT ![j] = [task[j] EXCEPT !.pc = "deleteRows", !.seen = doc[d].chunks]]
      BY <2>3, <1>b DEF TaskSt
    <3>3. /\ task' \in [Job -> TaskSt] /\ task'[j].pc = "deleteRows" /\ task'[j].seen = doc[d].chunks
          /\ \A k \in Job \ {j} : task'[k] = task[k]
      BY <3>1, <3>2, <1>b DEF TaskSt, TaskPC
    <3>4. QED
      BY <2>1, <2>3, <3>3, <1>c, TaskMoves DEF InRow, Parsed, Replaced
  <2>4. QED
    BY <1>6, <2>2, <2>3 DEF DeleteStart
<1>7. CASE DeleteRows(j)
  <2>1. task[j].pc = "deleteRows" /\ d \in Doc
    BY <1>7, <1>a DEF DeleteRows
  <2>2. task[j].seen \cap doc[d].chunks = doc[d].chunks /\ doc[d].chunks \in SUBSET Job
    BY <2>1, <1>c DEF Inv, Chunks, DocRow
  <2>3. task' = [task EXCEPT ![j] = [task[j] EXCEPT !.pc = "insert", !.removed = doc[d].chunks]]
    BY <1>7, <2>2, <1>b DEF DeleteRows, TaskSt
  <2>4. /\ task' \in [Job -> TaskSt] /\ task'[j].pc = "insert" /\ task'[j].removed = doc[d].chunks
        /\ \A k \in Job \ {j} : task'[k] = task[k]
    BY <2>2, <2>3, <1>b DEF TaskSt, TaskPC
  <2>5. UNCHANGED <<doc, job, prog, lock, held, req, del>>
    BY <1>7 DEF DeleteRows
  <2>6. QED
    BY <2>1, <2>4, <2>5, <1>c, TaskMoves DEF InRow, Parsed
<1>8. CASE Insert(j) \/ Finish(j)
  <2>1. /\ task' \in [Job -> TaskSt] /\ task'[j].pc \in {"finish", "commit"}
        /\ task'[j].removed = task[j].removed
        /\ \A k \in Job \ {j} : task'[k] = task[k]
    BY <1>8, <1>b DEF Insert, Finish, TaskSt, TaskPC
  <2>2. prog' \in [Job -> Progress] /\ lock' = lock /\ UNCHANGED <<doc, job, held, req, del>>
    BY <1>8, <1>c DEF Insert, Finish, Progress
  <2>3. task[j].pc \in {"insert", "finish"}
    BY <1>8 DEF Insert, Finish
  <2>4. task[j].removed = doc[d].chunks
    BY <2>3 DEF Inv, Chunks, Replaced
  <2>5. QED
    BY <1>c, <2>1, <2>2, <2>3, <2>4, TaskMoves DEF InRow, Parsed
<1>9. CASE Commit(j)
  BY <1>9, Commits
<1>10. CASE ReleaseLock(j)
  <2>1. /\ lock' \in [Doc -> BOOLEAN] /\ task' \in [Job -> TaskSt]
        /\ task'[j].pc = "done" /\ \A k \in Job \ {j} : task'[k] = task[k]
    BY <1>10, <1>b, <1>c DEF ReleaseLock, TaskSt, TaskPC
  <2>2. task[j].pc = "release" /\ prog' = prog /\ UNCHANGED <<doc, job, held, req, del>>
    BY <1>10 DEF ReleaseLock
  <2>3. QED
    BY <2>1, <2>2, <1>c, TaskMoves DEF InRow, Parsed, Replaced
<1>11. QED
  BY <1>1, <1>2, <1>3, <1>4, <1>5, <1>6, <1>7, <1>8, <1>9, <1>10 DEF TaskStep

----------------------------------------------------------------------------
\* A deletion that goes on: it takes the row last, and the file under it.
LEMMA DeletionMoves ==
    ASSUME Inv, NEW d \in Doc,
           UNCHANGED <<job, prog, lock, req, task>>,
           doc' \in [Doc -> DocRow], \A e \in Doc \ {d} : doc'[e] = doc[e],
           doc'[d].chunks = doc[d].chunks, doc'[d].status = doc[d].status,
           doc'[d].deleted = doc[d].deleted, doc'[d].file => doc[d].file,
           held' \in [Doc -> Job \cup {Deleter, NoJob}], \A e \in Doc \ {d} : held'[e] = held[e],
           held'[d] = held[d] \/ (held[d] \in {Deleter, NoJob} /\ held'[d] \in {Deleter, NoJob}),
           del' \in [Doc -> DelSt], \A e \in Doc \ {d} : del'[e] = del[e],
           del'[d].pc \in {"file", "commit"} <=> held'[d] = Deleter,
           del'[d].pc = "commit" => ~doc'[d].file
    PROVE  Inv'
<1>1. TypeOK'
  BY DEF Inv, TypeOK
<1>2. Requests'
  BY DEF Inv, Requests
<1>3. Rows'
  <2>1. \A j \in Job : task[j].pc \in InRow => req[j].doc \in Doc /\ held[req[j].doc] = j
    BY DEF Inv, Requests, Rows, InRow
  <2>2. \A j \in Job : task[j].pc \in InRow => held'[req[j].doc] = j
    BY <2>1, RagAssumption
  <2>3. \A e \in Doc : del'[e].pc \in {"file", "commit"} <=> held'[e] = Deleter
    BY DEF Inv, Rows
  <2>4. QED
    BY <2>2, <2>3 DEF Rows
<1>4. Files'
  <2>1. \A j \in Job : task[j].pc \in Parsed => req[j].doc \in Doc
    BY DEF Inv, Requests, InRow, Parsed
  <2>2. \A e \in Doc : /\ doc'[e].deleted = doc[e].deleted /\ doc'[e].status = doc[e].status
                       /\ doc'[e].file => doc[e].file
    OBVIOUS
  <2>3. QED
    BY <2>1, <2>2 DEF Inv, Files
<1>5. Chunks'
  <2>1. \A j \in Job : task[j].pc \in Replaced \cup {"deleteRows"} => req[j].doc \in Doc
    BY DEF Inv, Requests, Replaced
  <2>2. \A e \in Doc : doc'[e].chunks = doc[e].chunks /\ doc'[e].status = doc[e].status
    OBVIOUS
  <2>3. QED
    BY <2>1, <2>2 DEF Inv, Chunks
<1>6. QED
  BY <1>1, <1>2, <1>3, <1>4, <1>5 DEF Inv

\* A deletion that is rolled back.
LEMMA DeletionAborts == ASSUME Inv, NEW d \in Doc, DelAbort(d) PROVE Inv'
<1>1. held \in [Doc -> Job \cup {Deleter, NoJob}] /\ doc \in [Doc -> DocRow] /\ del \in [Doc -> DelSt]
  BY DEF Inv, TypeOK
<1>2. /\ held' \in [Doc -> Job \cup {Deleter, NoJob}] /\ \A e \in Doc \ {d} : held'[e] = held[e]
      /\ held'[d] = IF held[d] = Deleter THEN NoJob ELSE held[d]
  BY <1>1 DEF DelAbort
<1>3. del' \in [Doc -> DelSt] /\ \A e \in Doc \ {d} : del'[e] = del[e]
  BY <1>1 DEF DelAbort, DelSt, NoDelete
<1>4. del'[d].pc = "idle" /\ held'[d] # Deleter
  BY <1>1, <1>2, RagAssumption DEF DelAbort, NoDelete
<1>5. held'[d] = held[d] \/ (held[d] \in {Deleter, NoJob} /\ held'[d] \in {Deleter, NoJob})
  BY <1>2
<1>6. UNCHANGED <<doc, job, prog, lock, req, task>>
  BY DEF DelAbort
<1>7. QED
  BY <1>1, <1>2, <1>3, <1>4, <1>5, <1>6, DeletionMoves

\* A deletion commits under the row lock: no task is at work on the row, and
\* the row is no longer an indexed one.
LEMMA DeletionCommits == ASSUME Inv, NEW d \in Doc, DelCommit(d) PROVE Inv'
<1>1. CASE DelAbort(d)
  BY <1>1, DeletionAborts
<1>2. ASSUME doc' = [doc EXCEPT ![d].status = "deleted", ![d].deleted = TRUE,
                                ![d].chunks = @ \ del[d].removed],
             held' = [held EXCEPT ![d] = NoJob],
             del' = [del EXCEPT ![d] = NoDelete],
             UNCHANGED <<job, prog, lock, req, task>>
      PROVE  Inv'
  <2>1. held[d] = Deleter /\ ~doc[d].file
    BY DEF DelCommit, Inv, Rows, Files
  <2>2. /\ doc \in [Doc -> DocRow] /\ doc[d] \in DocRow /\ del \in [Doc -> DelSt]
        /\ held \in [Doc -> Job \cup {Deleter, NoJob}]
    BY DEF Inv, TypeOK
  <2>3. doc' = [doc EXCEPT ![d] = [doc[d] EXCEPT !.status = "deleted", !.deleted = TRUE,
                                                !.chunks = @ \ del[d].removed]]
    BY <1>2, <2>2 DEF DocRow
  <2>4. [doc[d] EXCEPT !.status = "deleted", !.deleted = TRUE, !.chunks = @ \ del[d].removed] \in DocRow
    BY <2>2 DEF DocRow
  <2>5. /\ doc' \in [Doc -> DocRow] /\ \A e \in Doc \ {d} : doc'[e] = doc[e]
        /\ doc'[d].status = "deleted" /\ doc'[d].file = doc[d].file
    BY <2>2, <2>3, <2>4 DEF DocRow
  <2>6. /\ del' \in [Doc -> DelSt] /\ \A e \in Doc \ {d} : del'[e] = del[e]
        /\ del'[d].pc = "idle"
    BY <1>2, <2>2 DEF DelSt, NoDelete
  <2>7. /\ held' \in [Doc -> Job \cup {Deleter, NoJob}] /\ \A e \in Doc \ {d} : held'[e] = held[e]
        /\ held'[d] = NoJob
    BY <1>2, <2>2
  <2>8. TypeOK'
    BY <1>2, <2>5, <2>6, <2>7 DEF Inv, TypeOK
  <2>9. Requests'
    BY <1>2 DEF Inv, Requests
  <2>10. \A j \in Job : task[j].pc \in InRow =>
            req[j].doc \in Doc \ {d} /\ held[req[j].doc] = j
    BY <2>1, RagAssumption DEF Inv, Requests, Rows, InRow
  <2>11. Rows'
    <3>1. \A j \in Job : task'[j].pc \in InRow => held'[req'[j].doc] = j
      BY <1>2, <2>7, <2>10
    <3>2. \A e \in Doc : del'[e].pc \in {"file", "commit"} <=> held'[e] = Deleter
      BY <2>6, <2>7, RagAssumption DEF Inv, Rows
    <3>3. QED
      BY <3>1, <3>2 DEF Rows
  <2>12. \A j \in Job : task[j].pc \in InRow => doc'[req[j].doc] = doc[req[j].doc]
    BY <2>5, <2>10
  <2>13. Files'
    <3>1. \A e \in Doc : doc'[e].deleted => ~doc'[e].file /\ doc'[e].status = "deleted"
      BY <2>1, <2>5 DEF Inv, Files
    <3>2. \A e \in Doc : del'[e].pc = "commit" => ~doc'[e].file
      BY <2>5, <2>6 DEF Inv, Files
    <3>3. \A j \in Job : task'[j].pc \in Parsed => ~doc'[req'[j].doc].deleted
      BY <1>2, <2>12 DEF Inv, Files, Parsed
    <3>4. QED
      BY <3>1, <3>2, <3>3 DEF Files
  <2>14. Chunks'
    <3>1. \A j \in Job :
            /\ task'[j].pc = "deleteRows" => task'[j].seen = doc'[req'[j].doc].chunks
            /\ task'[j].pc \in Replaced => task'[j].removed = doc'[req'[j].doc].chunks
      BY <1>2, <2>12 DEF Inv, Chunks, InRow, Replaced
    <3>2. \A e \in Doc : doc'[e].status = "indexed" => \E j \in Job : doc'[e].chunks = {j}
      BY <2>5 DEF Inv, Chunks
    <3>3. QED
      BY <3>1, <3>2 DEF Chunks
  <2>15. QED
    BY <2>8, <2>9, <2>11, <2>13, <2>14 DEF Inv
<1>3. QED
  BY <1>1, <1>2 DEF DelCommit

\* Every step of a deletion.
LEMMA DeletionSteps == ASSUME Inv, NEW d \in Doc, ReceiveDelete(d) \/ DelStep(d) PROVE Inv'
<1>1. /\ held \in [Doc -> Job \cup {Deleter, NoJob}] /\ doc \in [Doc -> DocRow] /\ doc[d] \in DocRow
      /\ del \in [Doc -> DelSt] /\ del[d] \in DelSt /\ doc[d].chunks \in SUBSET Job
  BY DEF Inv, TypeOK, DocRow
<1>2. del[d].pc \in {"file", "commit"} <=> held[d] = Deleter
  BY DEF Inv, Rows
<1>3. ASSUME UNCHANGED <<doc, job, prog, lock, held, req, task>>,
             del' \in [Doc -> DelSt], \A e \in Doc \ {d} : del'[e] = del[e],
             del[d].pc \notin {"file", "commit"}, del'[d].pc \notin {"file", "commit"}
      PROVE  Inv'
  <2>1. held'[d] # Deleter /\ held' = held /\ doc' = doc
    BY <1>2, <1>3
  <2>2. QED
    BY <1>1, <1>3, <2>1, DeletionMoves
<1>4. CASE ReceiveDelete(d)
  <2>1. del' \in [Doc -> DelSt] /\ del'[d].pc = "delete" /\ \A e \in Doc \ {d} : del'[e] = del[e]
    BY <1>1, <1>4 DEF ReceiveDelete, DelSt
  <2>2. QED
    BY <1>3, <1>4, <2>1 DEF ReceiveDelete
<1>5. CASE DelStart(d)
  <2>1. CASE DelAbort(d)
    BY <2>1, DeletionAborts
  <2>2. CASE /\ del' = [del EXCEPT ![d].pc = "deleteRows", ![d].seen = doc[d].chunks]
             /\ UNCHANGED <<doc, job, prog, lock, held, req, task>>
    <3>1. del' = [del EXCEPT ![d] = [del[d] EXCEPT !.pc = "deleteRows", !.seen = doc[d].chunks]]
      BY <1>1, <2>2 DEF DelSt
    <3>2. del' \in [Doc -> DelSt] /\ del'[d].pc = "deleteRows" /\ \A e \in Doc \ {d} : del'[e] = del[e]
      BY <1>1, <3>1 DEF DelSt
    <3>3. QED
      BY <1>3, <1>5, <2>2, <3>2 DEF DelStart
  <2>3. QED
    BY <1>5, <2>1, <2>2 DEF DelStart
<1>6. CASE DelRows(d)
  <2> DEFINE rows == del[d].seen \cap doc[d].chunks
  <2>1. del' = [del EXCEPT ![d] = [del[d] EXCEPT !.pc = "update", !.removed = rows]] /\ rows \in SUBSET Job
    BY <1>1, <1>6 DEF DelRows, DelSt
  <2> HIDE DEF rows
  <2>2. del' \in [Doc -> DelSt] /\ del'[d].pc = "update" /\ \A e \in Doc \ {d} : del'[e] = del[e]
    BY <1>1, <2>1 DEF DelSt
  <2>3. QED
    BY <1>3, <1>6, <2>2 DEF DelRows
<1>7. CASE DelUpdate(d)
  <2>1. del' \in [Doc -> DelSt] /\ del'[d].pc = "file" /\ \A e \in Doc \ {d} : del'[e] = del[e]
    BY <1>1, <1>7 DEF DelUpdate, DelSt
  <2>2. /\ held' \in [Doc -> Job \cup {Deleter, NoJob}] /\ \A e \in Doc \ {d} : held'[e] = held[e]
        /\ held[d] = NoJob /\ held'[d] = Deleter
    BY <1>1, <1>7 DEF DelUpdate
  <2>3. UNCHANGED <<doc, job, prog, lock, req, task>>
    BY <1>7 DEF DelUpdate
  <2>4. QED
    BY <1>1, <2>1, <2>2, <2>3, DeletionMoves
<1>8. CASE DelFile(d)
  <2>1. del' \in [Doc -> DelSt] /\ del'[d].pc = "commit" /\ \A e \in Doc \ {d} : del'[e] = del[e]
    BY <1>1, <1>8 DEF DelFile, DelSt
  <2>2. /\ doc' \in [Doc -> DocRow] /\ \A e \in Doc \ {d} : doc'[e] = doc[e]
        /\ doc'[d].chunks = doc[d].chunks /\ doc'[d].status = doc[d].status
        /\ doc'[d].deleted = doc[d].deleted /\ ~doc'[d].file
    BY <1>1, <1>8 DEF DelFile, DocRow
  <2>3. held' = held /\ held'[d] = Deleter /\ UNCHANGED <<job, prog, lock, req, task>>
    BY <1>2, <1>8 DEF DelFile
  <2>4. QED
    BY <1>1, <2>1, <2>2, <2>3, DeletionMoves
<1>9. CASE DelCommit(d)
  BY <1>9, DeletionCommits
<1>10. QED
  BY <1>4, <1>5, <1>6, <1>7, <1>8, <1>9 DEF DelStep

----------------------------------------------------------------------------
\* The invariant is inductive.
LEMMA InvStep == Inv /\ [Next]_vars => Inv'
<1> SUFFICES ASSUME Inv, [Next]_vars PROVE Inv'
  OBVIOUS
<1>1. ASSUME NEW j \in Job, ReceiveIndex(j) \/ RequestStep(j) PROVE Inv'
  BY <1>1, RequestSteps
<1>2. ASSUME NEW j \in Job, TaskStep(j) PROVE Inv'
  BY <1>2, TaskSteps
<1>3. ASSUME NEW j \in Job, Die(j) PROVE Inv'
  <2>1. req[j].pc # "idle" /\ prog' \in [Job -> Progress]
    BY <1>3 DEF Die, Inv, Requests, TypeOK
  <2>2. QED
    BY <1>3, <2>1, TaskEnds DEF Die
<1>4. ASSUME NEW d \in Doc, ReceiveDelete(d) \/ DelStep(d) PROVE Inv'
  BY <1>4, DeletionSteps
<1>5. ASSUME NEW d \in Doc, ExpireLock(d) PROVE Inv'
  <2>1. lock' \in [Doc -> BOOLEAN] /\ UNCHANGED <<doc, job, prog, held, req, task, del>>
    BY <1>5 DEF ExpireLock, Inv, TypeOK
  <2>2. QED
    BY <2>1 DEF Inv, TypeOK, Requests, Rows, Files, Chunks
<1>6. ASSUME NEW d \in Doc, NEW j \in Job, BreakDeadlock(d, j) PROVE Inv'
  BY <1>6, TaskFails, DeletionAborts DEF BreakDeadlock
<1>7. CASE UNCHANGED vars
  BY <1>7 DEF vars, Inv, TypeOK, Requests, Rows, Files, Chunks
<1>8. QED
  BY <1>1, <1>2, <1>3, <1>4, <1>5, <1>6, <1>7 DEF Next

\* The invariant implies types and consistency of the documents.
LEMMA InvSuffices == Inv => TypeOK /\ OneGeneration /\ DeletedForGood
<1>1. Inv => OneGeneration
  BY FS_Singleton DEF Inv, Chunks, OneGeneration
<1>2. Inv => DeletedForGood
  BY DEF Inv, Files, DeletedForGood
<1>3. QED
  BY <1>1, <1>2 DEF Inv

\* Every variable keeps its type (RagIndexing.tla's TypeOK).
THEOREM TypeCorrect == Spec => []TypeOK
  BY InvSuffices, InvInitially, InvStep, PTL DEF Spec

\* An indexed document has the chunks of one job, and a deleted one is never
\* an indexed one, with any number of jobs and deletions at once and whatever
\* is rolled back (_run_index_job, delete_document).
THEOREM DocumentsStayConsistent == Spec => [](OneGeneration /\ DeletedForGood)
  BY InvSuffices, InvInitially, InvStep, PTL DEF Spec

----------------------------------------------------------------------------
\* The job lock. Who works holds it, unless a job outlives its time to live.
LockedWork == \A j \in Job : Working(j) => lock[req[j].doc]

\* What the steps that are not about the lock do to who works on what.
WorkUnchanged ==
    /\ UNCHANGED lock
    /\ \A k \in Job : /\ Working(k)' <=> Working(k)
                      /\ Working(k) => req'[k].doc = req[k].doc

\* Which steps touch the document locks and who works under them.
LEMMA MostStepsLeaveTheLock ==
    ASSUME Inv, [Next]_vars
    PROVE  \/ \E j \in Job : TakeLock(j) \/ ReleaseLock(j) \/ Die(j)
           \/ \E d \in Doc : ExpireLock(d)
           \/ WorkUnchanged
<1>1. task \in [Job -> TaskSt] /\ req \in [Job -> RequestState]
  BY DEF Inv, TypeOK
<1>2. ASSUME NEW j \in Job, ReceiveIndex(j) \/ RequestStep(j) PROVE WorkUnchanged
  <2>1. UNCHANGED lock
    BY <1>2 DEF ReceiveIndex, RequestStep, CreateJob, Schedule, CommitRequest
  <2>2. CASE Schedule(j)
    <3>1. ~Working(j) /\ task'[j].pc = "lock" /\ \A k \in Job \ {j} : task'[k] = task[k]
      BY <1>1, <2>2 DEF Schedule, Inv, Requests, Working, TaskAt
    <3>2. \A k \in Job : req'[k].doc = req[k].doc
      BY <1>1, <2>2 DEF Schedule, RequestState
    <3>3. QED
      BY <2>1, <3>1, <3>2 DEF WorkUnchanged, Working
  <2>3. CASE ReceiveIndex(j)
    <3>1. ~Working(j) /\ UNCHANGED task
      BY <2>3 DEF ReceiveIndex, Inv, Requests, Working
    <3>2. \A k \in Job \ {j} : req'[k] = req[k]
      BY <1>1, <2>3 DEF ReceiveIndex
    <3>3. QED
      BY <2>1, <3>1, <3>2 DEF WorkUnchanged, Working
  <2>4. CASE CreateJob(j) \/ CommitRequest(j)
    BY <1>1, <2>1, <2>4 DEF CreateJob, CommitRequest, RequestState, WorkUnchanged, Working
  <2>5. QED
    BY <1>2, <2>2, <2>3, <2>4 DEF RequestStep
<1>3. ASSUME NEW j \in Job, UNCHANGED <<lock, req>>, Working(j), task'[j].pc \notin {"none", "lock", "done"},
             \A k \in Job \ {j} : task'[k] = task[k]
      PROVE  WorkUnchanged
  BY <1>3 DEF WorkUnchanged, Working
<1>4. ASSUME NEW j \in Job, TaskStep(j) PROVE TakeLock(j) \/ ReleaseLock(j) \/ WorkUnchanged
  <2>1. CASE Load(j) \/ UpdateDocument(j) \/ DeleteRows(j) \/ Insert(j) \/ Finish(j)
    <3>1. UNCHANGED <<lock, req>> /\ Working(j)
      BY <2>1 DEF Load, UpdateDocument, DeleteRows, Insert, Finish, Working
    <3>2. /\ task'[j].pc \notin {"none", "lock", "done"}
          /\ \A k \in Job \ {j} : task'[k] = task[k]
      BY <1>1, <2>1 DEF Load, UpdateDocument, DeleteRows, Insert, Finish, TaskSt
    <3>3. QED
      BY <1>3, <3>1, <3>2
  <2>2. CASE Parse(j) \/ ChunkAndEmbed(j) \/ DeleteStart(j) \/ Commit(j)
    <3>1. UNCHANGED <<lock, req>> /\ Working(j)
      BY <2>2 DEF Parse, ChunkAndEmbed, DeleteStart, Commit, Fail, DatabaseError, Working
    <3>2. /\ task'[j].pc \notin {"none", "lock", "done"}
          /\ \A k \in Job \ {j} : task'[k] = task[k]
      <4>1. CASE RollBack(j)
        BY <1>1, <4>1 DEF RollBack, TaskAt
      <4>2. CASE \E pc \in {"embed", "delete"} : task' = [task EXCEPT ![j].pc = pc]
        BY <1>1, <4>2 DEF TaskSt
      <4>3. CASE task' = [task EXCEPT ![j].pc = "deleteRows", ![j].seen = doc[req[j].doc].chunks]
        BY <1>1, <4>3 DEF TaskSt
      <4>4. QED
        BY <2>2, <4>1, <4>2, <4>3 DEF Parse, ChunkAndEmbed, DeleteStart, Commit, Fail, DatabaseError
    <3>3. QED
      BY <1>3, <3>1, <3>2
  <2>3. QED
    BY <1>4, <2>1, <2>2 DEF TaskStep
<1>5. ASSUME NEW d \in Doc, ReceiveDelete(d) \/ DelStep(d) PROVE WorkUnchanged
  <2>1. UNCHANGED <<lock, req, task>>
    BY <1>5 DEF ReceiveDelete, DelStep, DelStart, DelAbort, DelRows, DelUpdate, DelFile, DelCommit
  <2>2. QED
    BY <2>1 DEF WorkUnchanged, Working
<1>6. ASSUME NEW d \in Doc, NEW j \in Job, BreakDeadlock(d, j) PROVE WorkUnchanged
  <2>1. CASE DelAbort(d)
    BY <2>1 DEF DelAbort, WorkUnchanged, Working
  <2>2. CASE DatabaseError(j)
    <3>1. UNCHANGED <<lock, req>> /\ Working(j)
      BY <1>6, <2>2 DEF BreakDeadlock, DatabaseError, Working
    <3>2. task'[j].pc = "release" /\ \A k \in Job \ {j} : task'[k] = task[k]
      BY <1>1, <2>2 DEF DatabaseError, RollBack, TaskAt
    <3>3. QED
      BY <1>3, <3>1, <3>2
  <2>3. QED
    BY <1>6, <2>1, <2>2 DEF BreakDeadlock
<1>7. CASE UNCHANGED vars
  BY <1>7 DEF vars, WorkUnchanged, Working
<1>8. QED
  BY <1>2, <1>4, <1>5, <1>6, <1>7 DEF Next

\* Who works holds the lock, and so works alone.
LEMMA OneIndexerStep ==
    ASSUME ~SlowJobs, Inv, LockedWork, OneIndexer, [Next]_vars
    PROVE  LockedWork' /\ OneIndexer'
<1>1. /\ task \in [Job -> TaskSt] /\ req \in [Job -> RequestState] /\ lock \in [Doc -> BOOLEAN]
      /\ \A j \in Job : task[j].pc # "none" => req[j].doc \in Doc
  BY DEF Inv, TypeOK, Requests
<1>2. ASSUME NEW j \in Job, TakeLock(j) PROVE LockedWork' /\ OneIndexer'
  <2>1. /\ req' = req /\ req[j].doc \in Doc /\ lock' = [lock EXCEPT ![req[j].doc] = TRUE]
        /\ \A k \in Job \ {j} : task'[k] = task[k]
        /\ Working(j)' => ~lock[req[j].doc]
    BY <1>1, <1>2 DEF TakeLock, Working, TaskSt
  <2>2. \A k \in Job : Working(k)' => lock'[req'[k].doc]
    BY <1>1, <2>1 DEF LockedWork, Working
  <2>3. ASSUME NEW k \in Job, NEW l \in Job, k # l, Working(k)', Working(l)' PROVE req'[k].doc # req'[l].doc
    BY <1>1, <2>1, <2>3 DEF LockedWork, OneIndexer, Working
  <2>4. QED
    BY <2>2, <2>3 DEF LockedWork, OneIndexer
<1>3. ASSUME NEW j \in Job, ReleaseLock(j) PROVE LockedWork' /\ OneIndexer'
  <2>1. /\ req' = req /\ req[j].doc \in Doc /\ lock' = [lock EXCEPT ![req[j].doc] = FALSE]
        /\ \A k \in Job \ {j} : task'[k] = task[k]
        /\ Working(j) /\ ~Working(j)'
    BY <1>1, <1>3 DEF ReleaseLock, Working, TaskSt
  <2>2. \A k \in Job : Working(k)' => k # j /\ Working(k) /\ req[k].doc # req[j].doc
    BY <2>1 DEF OneIndexer, Working
  <2>3. \A k \in Job : Working(k)' => lock'[req'[k].doc]
    BY <1>1, <2>1, <2>2 DEF LockedWork, Working
  <2>4. QED
    BY <2>1, <2>2, <2>3 DEF LockedWork, OneIndexer
<1>4. ASSUME NEW j \in Job, Die(j) PROVE LockedWork' /\ OneIndexer'
  <2>1. /\ lock' = lock /\ \A k \in Job : req'[k].doc = req[k].doc
        /\ \A k \in Job \ {j} : task'[k] = task[k]
        /\ ~Working(j)'
    BY <1>1, <1>4 DEF Die, Working, TaskAt, RequestState
  <2>2. QED
    BY <2>1 DEF LockedWork, OneIndexer, Working
<1>5. ASSUME NEW d \in Doc, ExpireLock(d) PROVE LockedWork' /\ OneIndexer'
  <2>1. /\ UNCHANGED <<req, task>> /\ lock' = [lock EXCEPT ![d] = FALSE]
        /\ \A j \in Job : Working(j) => req[j].doc # d
    BY <1>5 DEF ExpireLock
  <2>2. QED
    BY <1>1, <2>1 DEF LockedWork, OneIndexer, Working
<1>6. CASE WorkUnchanged
  BY <1>6 DEF WorkUnchanged, LockedWork, OneIndexer
<1>7. QED
  BY <1>2, <1>3, <1>4, <1>5, <1>6, MostStepsLeaveTheLock

\* A lock that is held is held for a task that works.
LEMMA LockServedStep ==
    ASSUME ~Crashes, Inv, LockServed, [Next]_vars
    PROVE  LockServed'
<1>1. /\ task \in [Job -> TaskSt] /\ req \in [Job -> RequestState] /\ lock \in [Doc -> BOOLEAN]
      /\ \A j \in Job : task[j].pc # "none" => req[j].doc \in Doc
  BY DEF Inv, TypeOK, Requests
<1> SUFFICES ASSUME NEW d \in Doc, lock'[d]
             PROVE  \E j \in Job : req'[j].doc = d /\ Working(j)'
  BY DEF LockServed
<1>2. ASSUME NEW j \in Job, TakeLock(j) PROVE \E k \in Job : req'[k].doc = d /\ Working(k)'
  <2>1. /\ req' = req /\ \A k \in Job \ {j} : task'[k] = task[k]
        /\ ~Working(j) /\ (~Working(j)' => lock[req[j].doc])
        /\ req[j].doc # d => lock'[d] = lock[d]
    <3>1. /\ req' = req /\ \A k \in Job \ {j} : task'[k] = task[k]
          /\ ~Working(j) /\ (req[j].doc # d => lock'[d] = lock[d])
      BY <1>1, <1>2 DEF TakeLock, Working
    <3>2. ~lock[req[j].doc] => task'[j].pc = "load"
      BY <1>1, <1>2 DEF TakeLock, TaskSt
    <3>3. QED
      BY <3>1, <3>2 DEF Working
  <2>2. CASE Working(j)' /\ req[j].doc = d
    BY <2>1, <2>2
  <2>3. CASE lock[d]
    BY <2>1, <2>3 DEF LockServed, Working
  <2>4. QED
    BY <2>1, <2>2, <2>3
<1>3. ASSUME NEW j \in Job, ReleaseLock(j) PROVE \E k \in Job : req'[k].doc = d /\ Working(k)'
  <2>1. /\ req' = req /\ req[j].doc # d /\ lock[d]
        /\ \A k \in Job \ {j} : task'[k] = task[k]
    BY <1>1, <1>3 DEF ReleaseLock
  <2>2. QED
    BY <2>1 DEF LockServed, Working
<1>4. ASSUME NEW e \in Doc, ExpireLock(e) PROVE \E k \in Job : req'[k].doc = d /\ Working(k)'
  <2>1. lock[d] /\ UNCHANGED <<req, task>>
    BY <1>1, <1>4 DEF ExpireLock
  <2>2. QED
    BY <2>1 DEF LockServed, Working
<1>5. CASE WorkUnchanged
  BY <1>5 DEF WorkUnchanged, LockServed
<1>6. QED
  BY <1>2, <1>3, <1>4, <1>5, MostStepsLeaveTheLock DEF Die

\* While no worker dies and no job outlives the lock's time to live, the lock
\* says exactly that one task works on the document (run_rag_index_job).
THEOREM IndexingStaysLocked ==
    ASSUME ~SlowJobs, ~Crashes
    PROVE  Spec => []IndexingIsLocked
<1> DEFINE I == Inv /\ LockedWork /\ OneIndexer /\ LockServed
<1>1. Init => I
  <2>1. Init => LockedWork /\ OneIndexer /\ LockServed
    BY DEF Init, TaskAt, LockedWork, OneIndexer, LockServed, Working
  <2>2. QED
    BY <2>1, InvInitially
<1>2. I /\ [Next]_vars => I'
  BY InvStep, OneIndexerStep, LockServedStep
<1>3. I => IndexingIsLocked
  BY DEF IndexingIsLocked
<1>4. QED
  <2> HIDE DEF I
  <2>1. QED
    BY <1>1, <1>2, <1>3, PTL DEF Spec

\* Crashes or not: never two tasks on one document.
THEOREM OneIndexerHolds == ASSUME ~SlowJobs PROVE Spec => []OneIndexer
<1> DEFINE I == Inv /\ LockedWork /\ OneIndexer
<1>1. Init => I
  <2>1. Init => LockedWork /\ OneIndexer
    BY DEF Init, TaskAt, LockedWork, OneIndexer, Working
  <2>2. QED
    BY <2>1, InvInitially
<1>2. I /\ [Next]_vars => I'
  BY InvStep, OneIndexerStep
<1>3. QED
  <2> HIDE DEF I
  <2>1. I => OneIndexer
    BY DEF I
  <2>2. QED
    BY <1>1, <1>2, <2>1, PTL DEF Spec
=============================================================================
