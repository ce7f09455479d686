-------------------------- MODULE ExportJobs_proofs --------------------------
(***************************************************************************)
(* Theorems about the exports of a statement, for every set of jobs,       *)
(* formats, workers and transactions and every number of deliveries.       *)
(***************************************************************************)
EXTENDS ExportJobs, FiniteSetTheorems, TLAPS

-----------------------------------------------------------------------------
(* Sessions.                                                               *)

LEMMA PendingType == Pending \in Columns
  BY DEF Pending, Columns, JobStatus

LEMMA CommitType ==
  ASSUME TypeOK, NEW w \in Worker, NEW new \in Columns, pc[w] # "idle",
         Commit(w, new)
  PROVE  job' \in [Job -> Columns]
  <1>1. task[w] \in Job /\ job[task[w]] \in Columns /\ copy[w] \in Columns
    BY DEF TypeOK
  <1>2. Flushed(w, new) \in Columns
    BY <1>1 DEF Flushed, Written, Columns
  <1> QED
    BY <1>2 DEF Commit, TypeOK

LEMMA StopType ==
  ASSUME TypeOK, NEW w \in Worker, Stop(w)
  PROVE  /\ pc' \in [Worker -> WorkerState]
         /\ task' \in [Worker -> Job \cup {NoJob}]
         /\ \A v \in Worker : pc'[v] # "idle" => task'[v] \in Job
         /\ copy' \in [Worker -> Columns]
         /\ seen' \in [Worker -> StatementStatus]
  BY PendingType DEF Stop, TypeOK, WorkerState, StatementStatus

LEMMA NewCopyType ==
  ASSUME NEW old \in Columns
  PROVE  /\ \A st \in JobStatus : [old EXCEPT !.status = st] \in Columns
         /\ \A st \in JobStatus, e \in {"null", "future", "past"} :
               [old EXCEPT !.status = st, !.expires = e] \in Columns
  BY DEF Columns

-----------------------------------------------------------------------------
(* Type correctness.                                                       *)

LEMMA TypeInit == Init => TypeOK
  <1> SUFFICES ASSUME Init PROVE TypeOK
    OBVIOUS
  <1>1. /\ fmt \in [Job -> Format]
        /\ job \in [Job -> Columns]
        /\ copy \in [Worker -> Columns]
    BY PendingType DEF Init
  <1>2. /\ stored \in BOOLEAN /\ patched \in BOOLEAN
        /\ status \in StatementStatus
        /\ seen \in [Worker -> StatementStatus]
        /\ request \in [Job -> RequestState]
        /\ deletion \in DeletionState
        /\ found \in [Job -> Job \cup {NoJob}]
        /\ queue \in [Job -> Nat]
        /\ sent \in [Job -> Nat]
    BY DEF Init, RequestState, DeletionState, StatementStatus
  <1>3. /\ pc \in [Worker -> WorkerState]
        /\ task \in [Worker -> Job \cup {NoJob}]
        /\ \A w \in Worker : pc[w] # "idle" => task[w] \in Job
    BY DEF Init, WorkerState
  <1>4. /\ ignored \subseteq Row /\ served \subseteq Row
        /\ live \subseteq Job /\ file \subseteq Job /\ removing \subseteq Job
        /\ doomed \subseteq Job /\ doubled \subseteq Job /\ lost \subseteq Job
        /\ stray \subseteq Job /\ raced \subseteq Format /\ refused \subseteq Format
    BY DEF Init
  <1> QED
    BY <1>1, <1>2, <1>3, <1>4 DEF TypeOK

LEMMA TypeRequest ==
  ASSUME TypeOK, NEW j \in Job,
         Lookup(j) \/ RequestStep(j) \/ CreateFails(j) \/ Redeliver(j)
  PROVE  TypeOK'
  <1> USE DEF TypeOK, statementVars, requestVars, jobVars, brokerVars,
              workerVars, historyVars, RequestState
  <1>1. CASE Lookup(j)
    BY <1>1 DEF Lookup
  <1>2. CASE CreateExport(j)
    <2>1. \A k \in Job : [job[k] EXCEPT !.status = "FAILED"] \in Columns
      BY NewCopyType DEF JobStatus
    <2>2. job' \in [Job -> Columns]
      BY <1>2, <2>1 DEF CreateExport
    <2> QED
      BY <1>2, <2>2 DEF CreateExport
  <1>3. CASE CreateFindsNoRow(j)
    BY <1>3 DEF CreateFindsNoRow
  <1>4. CASE Enqueue(j)
    BY <1>4 DEF Enqueue
  <1>5. CASE CreateFails(j)
    BY <1>5 DEF CreateFails
  <1>6. CASE Redeliver(j)
    BY <1>6 DEF Redeliver
  <1> QED
    BY <1>1, <1>2, <1>3, <1>4, <1>5, <1>6 DEF RequestStep

LEMMA TypeOther ==
  ASSUME TypeOK,
         \/ \E j \in Job : Expire(j) \/ Wipe(j) \/ Download(j) \/ DeleteExport(j)
                           \/ DeleteExportCommit(j) \/ DeleteExportFails(j)
         \/ \E f \in Format : AnswerExisting(f) \/ LookupFails(f)
         \/ StatementStep
  PROVE  TypeOK'
  <1> USE DEF TypeOK, statementVars, requestVars, jobVars, brokerVars,
              workerVars, historyVars, DeletionState
  <1>1. ASSUME NEW j \in Job, Expire(j) PROVE TypeOK'
    <2>1. [job[j] EXCEPT !.expires = "past"] \in Columns
      BY DEF Columns
    <2> QED
      BY <1>1, <2>1 DEF Expire
  <1>2. ASSUME NEW j \in Job, Wipe(j) \/ Download(j) PROVE TypeOK'
    BY <1>2 DEF Wipe, Download
  <1>3. ASSUME NEW j \in Job, DeleteExport(j) PROVE TypeOK'
    BY <1>3 DEF DeleteExport
  <1>4. ASSUME NEW j \in Job, DeleteExportCommit(j) \/ DeleteExportFails(j) PROVE TypeOK'
    BY <1>4 DEF DeleteExportCommit, DeleteExportFails
  <1>5. ASSUME NEW f \in Format, AnswerExisting(f) \/ LookupFails(f) PROVE TypeOK'
    BY <1>5 DEF AnswerExisting, LookupFails, vars
  <1>6. CASE DeleteStatement
    BY <1>6 DEF DeleteStatement
  <1>7. CASE DeleteStatementCommit \/ Unlink \/ DeleteStatementFails
    BY <1>7 DEF DeleteStatementCommit, Unlink, DeleteStatementFails
  <1>8. ASSUME NEW c \in PatchChoice, PatchStatus(c) PROVE TypeOK'
    BY <1>8, PatchAssumption DEF PatchStatus
  <1>9. ASSUME NEW n \in Row, NEW b \in BOOLEAN, SetIgnored(n, b) PROVE TypeOK'
    BY <1>9 DEF SetIgnored
  <1> QED
    BY <1>1, <1>2, <1>3, <1>4, <1>5, <1>6, <1>7, <1>8, <1>9 DEF StatementStep

LEMMA TypeReceive ==
  ASSUME TypeOK, NEW w \in Worker, NEW j \in Job, Receive(w, j)
  PROVE  TypeOK'
  <1> USE DEF Receive, statementVars, requestVars, jobVars, workerVars
  <1>1. queue' \in [Job -> Nat]
    BY DEF TypeOK
  <1>2. CASE j \in live /\ job[j].status # "READY"
    <2>1. \E next \in WorkerState : pc' = [pc EXCEPT ![w] = next]
      BY <1>2 DEF WorkerState
    <2>2. /\ task' = [task EXCEPT ![w] = j]
          /\ copy' = [copy EXCEPT ![w] = job[j]]
          /\ seen' = [seen EXCEPT ![w] = status]
          /\ doubled' \subseteq doubled \cup {j}
      BY <1>2
    <2> QED
      BY <1>1, <2>1, <2>2 DEF TypeOK
  <1>3. CASE ~(j \in live /\ job[j].status # "READY")
    BY <1>1, <1>3 DEF TypeOK
  <1> QED
    BY <1>2, <1>3

LEMMA TypeRun ==
  ASSUME TypeOK, NEW w \in Worker, RunStep(w) \/ WorkerCrash(w)
  PROVE  TypeOK'
  <1> USE DEF statementVars, requestVars, jobVars, brokerVars, historyVars
  <1>1. pc[w] # "idle" /\ task[w] \in Job /\ copy[w] \in Columns
    BY DEF TypeOK, RunStep, WorkerCrash, ReuseFile, StartRender, WriteFile,
           RenderFails, FinishExport, RunFindsNoRow
  <1>2. MarkExported(w) => status' \in StatementStatus
    BY DEF MarkExported, StatementStatus, TypeOK
  <1>3. CASE ReuseFile(w)
    <2> DEFINE e == IF copy[w].expires = "null" THEN "future" ELSE copy[w].expires
               new == [copy[w] EXCEPT !.status = "READY", !.expires = e]
    <2>1. new \in Columns
      <3>1. e \in {"null", "future", "past"} /\ "READY" \in JobStatus
        BY <1>1 DEF Columns, JobStatus
      <3> QED
        BY <1>1, <3>1, NewCopyType
    <2>2. Commit(w, new)
      BY <1>1, <1>3 DEF ReuseFile, Columns
    <2> HIDE DEF new, e
    <2> QED
      BY <1>1, <1>2, <1>3, <2>1, <2>2, CommitType, StopType DEF ReuseFile, TypeOK
  <1>4. CASE StartRender(w)
    <2> DEFINE new == [copy[w] EXCEPT !.status = "RUNNING"]
    <2>1. new \in Columns
      BY <1>1, NewCopyType DEF JobStatus
    <2>2. Commit(w, new) /\ copy' = [copy EXCEPT ![w] = new]
      BY <1>4 DEF StartRender
    <2> HIDE DEF new
    <2> QED
      BY <1>1, <1>4, <2>1, <2>2, CommitType DEF StartRender, TypeOK, WorkerState
  <1>5. CASE WriteFile(w)
    BY <1>1, <1>5 DEF WriteFile, TypeOK, WorkerState
  <1>6. CASE RenderFails(w)
    <2> DEFINE new == [copy[w] EXCEPT !.status = "FAILED"]
    <2>1. new \in Columns
      BY <1>1, NewCopyType DEF JobStatus
    <2>2. Commit(w, new)
      BY <1>6 DEF RenderFails
    <2> HIDE DEF new
    <2> QED
      BY <1>1, <1>6, <2>1, <2>2, CommitType, StopType DEF RenderFails, TypeOK
  <1>7. CASE FinishExport(w)
    <2>1. [status |-> "READY", path |-> TRUE, expires |-> "future"] \in Columns
      BY DEF Columns, JobStatus
    <2>2. job' \in [Job -> Columns]
      BY <1>1, <1>7, <2>1 DEF FinishExport, TypeOK
    <2> QED
      BY <1>1, <1>2, <1>7, <2>2, StopType DEF FinishExport, TypeOK
  <1>8. CASE RunFindsNoRow(w)
    BY <1>8, StopType DEF RunFindsNoRow, TypeOK
  <1>9. CASE WorkerCrash(w)
    BY <1>1, <1>9, StopType DEF WorkerCrash, TypeOK
  <1> QED
    BY <1>3, <1>4, <1>5, <1>6, <1>7, <1>8, <1>9 DEF RunStep

LEMMA TypeStep == TypeOK /\ [Next]_vars => TypeOK'
  <1> SUFFICES ASSUME TypeOK, [Next]_vars PROVE TypeOK'
    OBVIOUS
  <1>1. CASE UNCHANGED vars
    BY <1>1 DEF TypeOK, vars, statementVars, requestVars, jobVars, brokerVars,
                workerVars, historyVars
  <1>2. ASSUME NEW j \in Job, JobStep(j) PROVE TypeOK'
    BY <1>2, TypeRequest, TypeOther DEF JobStep
  <1>3. ASSUME NEW w \in Worker, NEW j \in Job, Receive(w, j) PROVE TypeOK'
    BY <1>3, TypeReceive
  <1>4. ASSUME NEW w \in Worker, RunStep(w) \/ WorkerCrash(w) PROVE TypeOK'
    BY <1>4, TypeRun
  <1>5. CASE StatementStep \/ \E f \in Format : AnswerExisting(f) \/ LookupFails(f)
    BY <1>5, TypeOther
  <1> QED
    BY <1>1, <1>2, <1>3, <1>4, <1>5 DEF Next

(* Every variable keeps its type.                                          *)
THEOREM TypeCorrect == Spec => []TypeOK
  <1> QED
    BY TypeInit, TypeStep, PTL DEF Spec

-----------------------------------------------------------------------------
(* What the steps of a run do: to its session, to the job it works on, to  *)
(* the status of the statement and to the files.                           *)

LEMMA RunFrame ==
  ASSUME TypeOK, NEW w \in Worker, RunStep(w) \/ WorkerCrash(w)
  PROVE  /\ pc[w] # "idle" /\ task[w] \in Job
         /\ UNCHANGED <<stored, ignored, deletion, doomed, fmt, request, found, live,
                        removing, queue, sent, patched, doubled, raced, refused, served>>
         /\ \A v \in Worker \ {w} : /\ pc'[v] = pc[v] /\ task'[v] = task[v]
                                    /\ copy'[v] = copy[v] /\ seen'[v] = seen[v]
         /\ pc'[w] = "idle" \/ (task'[w] = task[w] /\ seen'[w] = seen[w])
  <1> USE DEF statementVars, requestVars, jobVars, brokerVars, workerVars, historyVars
  <1>1. pc[w] # "idle"
    BY DEF RunStep, WorkerCrash, ReuseFile, StartRender, WriteFile,
           RenderFails, FinishExport, RunFindsNoRow
  <1>2. task[w] \in Job
    BY <1>1 DEF TypeOK
  <1>3. UNCHANGED <<stored, ignored, deletion, doomed, fmt, request, found, live,
                    removing, queue, sent, patched, doubled, raced, refused, served>>
    BY DEF RunStep, WorkerCrash, ReuseFile, StartRender, WriteFile,
           RenderFails, FinishExport, RunFindsNoRow
  <1>4. Stop(w) => /\ \A v \in Worker \ {w} : /\ pc'[v] = pc[v] /\ task'[v] = task[v]
                                              /\ copy'[v] = copy[v] /\ seen'[v] = seen[v]
                   /\ pc'[w] = "idle"
    BY DEF Stop, TypeOK
  <1>5. CASE StartRender(w) \/ WriteFile(w)
    <2>1. /\ \A v \in Worker \ {w} : /\ pc'[v] = pc[v] /\ task'[v] = task[v]
                                     /\ copy'[v] = copy[v] /\ seen'[v] = seen[v]
          /\ task'[w] = task[w] /\ seen'[w] = seen[w]
      BY <1>5 DEF StartRender, WriteFile, TypeOK
    <2> QED
      BY <1>1, <1>2, <1>3, <2>1
  <1>6. CASE ReuseFile(w) \/ RenderFails(w) \/ FinishExport(w) \/ RunFindsNoRow(w)
             \/ WorkerCrash(w)
    <2>1. Stop(w)
      BY <1>6 DEF ReuseFile, RenderFails, FinishExport, RunFindsNoRow, WorkerCrash
    <2> QED
      BY <1>1, <1>2, <1>3, <1>4, <2>1
  <1> QED
    BY <1>5, <1>6 DEF RunStep

LEMMA RunKeepsWork ==
  ASSUME TypeOK, NEW w \in Worker, RunStep(w) \/ WorkerCrash(w),
         NEW v \in Worker, NEW k \in Job, WorksOn(v, k)'
  PROVE  WorksOn(v, k)
  BY RunFrame DEF WorksOn

(* A commit changes no column but those of the copy, and needs the row.    *)
LEMMA CommitEffect ==
  ASSUME TypeOK, NEW w \in Worker, pc[w] # "idle", NEW new \in Columns,
         new.path = copy[w].path, Commit(w, new)
  PROVE  /\ \A k \in Job : k # task[w] \/ k \notin live => job'[k] = job[k]
         /\ \A k \in Job : job'[k].path = job[k].path
         /\ job'[task[w]].status \in {job[task[w]].status, new.status}
         /\ job' # job => task[w] \in live
  <1>1. task[w] \in Job /\ job \in [Job -> Columns]
    BY DEF TypeOK
  <1>2. CASE new = copy[w]
    BY <1>1, <1>2 DEF Commit
  <1>3. CASE new # copy[w]
    <2>1. task[w] \in live /\ job' = [job EXCEPT ![task[w]] = Flushed(w, new)]
      BY <1>3 DEF Commit
    <2>2. /\ Flushed(w, new).path = job[task[w]].path
          /\ Flushed(w, new).status \in {job[task[w]].status, new.status}
      BY DEF Flushed, Written
    <2> QED
      BY <1>1, <2>1, <2>2
  <1> QED
    BY <1>2, <1>3

(* The job a run works on.                                                 *)
LEMMA RunJob ==
  ASSUME TypeOK, NEW w \in Worker, RunStep(w) \/ WorkerCrash(w)
  PROVE  /\ \A k \in Job : k # task[w] \/ k \notin live => job'[k] = job[k]
         /\ \A k \in Job : job[k].path => job'[k].path
         /\ \A k \in Job : job'[k].status = "READY" =>
               \/ job[k].status = "READY"
               \/ /\ k = task[w] /\ k \in live
                  /\ \/ pc[w] = "reuse"
                     \/ pc[w] = "written" /\ job'[k].path
                  /\ MarkExported(w)
         /\ \A k \in Job : job'[k].expires = job[k].expires \/ k = task[w]
  <1> USE DEF statementVars, requestVars, jobVars, brokerVars, workerVars, historyVars
  <1>0. pc[w] # "idle" /\ task[w] \in Job /\ copy[w] \in Columns /\ job \in [Job -> Columns]
    BY RunFrame DEF TypeOK
  <1>1. CASE ReuseFile(w)
    <2> DEFINE e == IF copy[w].expires = "null" THEN "future" ELSE copy[w].expires
               new == [copy[w] EXCEPT !.status = "READY", !.expires = e]
    <2>1. new \in Columns
      <3>1. e \in {"null", "future", "past"} /\ "READY" \in JobStatus
        BY <1>0 DEF Columns, JobStatus
      <3> QED
        BY <1>0, <3>1, NewCopyType
    <2>2. new.path = copy[w].path /\ new.status = "READY"
      BY <1>0 DEF Columns
    <2>3. Commit(w, new) /\ pc[w] = "reuse" /\ MarkExported(w)
      BY <1>0, <1>1 DEF ReuseFile, Columns
    <2> HIDE DEF new, e
    <2>4. /\ \A k \in Job : k # task[w] \/ k \notin live => job'[k] = job[k]
          /\ \A k \in Job : job'[k].path = job[k].path
          /\ job' # job => task[w] \in live
      BY <1>0, <2>1, <2>2, <2>3, CommitEffect
    <2> QED
      BY <2>3, <2>4
  <1>2. CASE StartRender(w)
    <2> DEFINE new == [copy[w] EXCEPT !.status = "RUNNING"]
    <2>1. new \in Columns /\ new.path = copy[w].path /\ new.status = "RUNNING"
      <3>1. new \in Columns
        BY <1>0, NewCopyType DEF JobStatus
      <3> QED
        BY <1>0, <3>1 DEF Columns
    <2>2. Commit(w, new)
      BY <1>2 DEF StartRender
    <2> HIDE DEF new
    <2>3. /\ \A k \in Job : k # task[w] \/ k \notin live => job'[k] = job[k]
          /\ \A k \in Job : job'[k].path = job[k].path
          /\ job'[task[w]].status \in {job[task[w]].status, "RUNNING"}
      BY <1>0, <2>1, <2>2, CommitEffect
    <2> QED
      BY <2>3
  <1>3. CASE RenderFails(w)
    <2> DEFINE new == [copy[w] EXCEPT !.status = "FAILED"]
    <2>1. new \in Columns /\ new.path = copy[w].path /\ new.status = "FAILED"
      <3>1. new \in Columns
        BY <1>0, NewCopyType DEF JobStatus
      <3> QED
        BY <1>0, <3>1 DEF Columns
    <2>2. Commit(w, new)
      BY <1>3 DEF RenderFails
    <2> HIDE DEF new
    <2>3. /\ \A k \in Job : k # task[w] \/ k \notin live => job'[k] = job[k]
          /\ \A k \in Job : job'[k].path = job[k].path
          /\ job'[task[w]].status \in {job[task[w]].status, "FAILED"}
      BY <1>0, <2>1, <2>2, CommitEffect
    <2> QED
      BY <2>3
  <1>4. CASE FinishExport(w)
    BY <1>0, <1>4 DEF FinishExport
  <1>5. CASE WriteFile(w) \/ RunFindsNoRow(w) \/ WorkerCrash(w)
    BY <1>5 DEF WriteFile, RunFindsNoRow, WorkerCrash
  <1> QED
    BY <1>1, <1>2, <1>3, <1>4, <1>5 DEF RunStep

(* The files, the copies and the status.                                   *)
LEMMA RunFiles ==
  ASSUME TypeOK, NEW w \in Worker, RunStep(w) \/ WorkerCrash(w)
  PROVE  /\ file \subseteq file' /\ stray \subseteq stray'
         /\ lost' \subseteq lost /\ lost \subseteq lost' \cup file'
         /\ file' # file => task'[w] = task[w] /\ pc'[w] = "written" /\ file' = file \cup {task[w]}
         /\ pc'[w] = "written" => task[w] \in file'
         /\ pc'[w] # "reuse" /\ (pc'[w] # "idle" => copy'[w].path = copy[w].path)
         /\ status' = status \/ MarkExported(w)
  <1> USE DEF statementVars, requestVars, jobVars, brokerVars, workerVars, historyVars
  <1>0. pc[w] # "idle" /\ task[w] \in Job /\ copy[w] \in Columns
    BY RunFrame DEF TypeOK
  <1>1. CASE StartRender(w)
    BY <1>0, <1>1 DEF StartRender, TypeOK, Columns
  <1>2. CASE WriteFile(w)
    BY <1>0, <1>2 DEF WriteFile, TypeOK
  <1>3. CASE ReuseFile(w) \/ RenderFails(w) \/ FinishExport(w) \/ RunFindsNoRow(w)
             \/ WorkerCrash(w)
    <2>1. pc'[w] = "idle"
      BY <1>3 DEF ReuseFile, RenderFails, FinishExport, RunFindsNoRow, WorkerCrash, Stop, TypeOK
    <2> QED
      BY <1>3, <2>1 DEF ReuseFile, RenderFails, FinishExport, RunFindsNoRow, WorkerCrash
  <1> QED
    BY <1>1, <1>2, <1>3 DEF RunStep

-----------------------------------------------------------------------------
(* Jobs exist after their request is committed and before their deletion.  *)

LEMMA WorkFrame ==
  ASSUME UNCHANGED workerVars, NEW v, NEW k
  PROVE  WorksOn(v, k)' <=> WorksOn(v, k)
  BY DEF workerVars, WorksOn

(* A message starts at most one run, of a job whose row is there.          *)
LEMMA ReceiveFrame ==
  ASSUME TypeOK, NEW w \in Worker, NEW j \in Job, Receive(w, j)
  PROVE  /\ queue[j] > 0 /\ queue' = [queue EXCEPT ![j] = @ - 1]
         /\ UNCHANGED <<stored, status, ignored, deletion, doomed, fmt, request,
                        found, live, job, removing, file, sent, served, patched,
                        raced, refused, lost, stray>>
         /\ \/ /\ UNCHANGED <<pc, task, copy, seen, doubled>>
            \/ /\ j \in live /\ job[j].status # "READY" /\ pc[w] = "idle"
               /\ task'[w] = j /\ copy'[w] = job[j] /\ seen'[w] = status
               /\ pc'[w] = IF job[j].path /\ j \in file THEN "reuse" ELSE "start"
               /\ \A v \in Worker \ {w} : /\ pc'[v] = pc[v] /\ task'[v] = task[v]
                                          /\ copy'[v] = copy[v] /\ seen'[v] = seen[v]
               /\ doubled \subseteq doubled'
               /\ (\E v \in Worker : WorksOn(v, j)) => j \in doubled'
  BY DEF Receive, TypeOK, statementVars, requestVars, jobVars, workerVars

LEMMA RowInit == Init => RowInv
  BY DEF Init, RowInv, WorksOn

LEMMA RowRequest ==
  ASSUME TypeOK, RowInv, NEW j \in Job,
         Lookup(j) \/ RequestStep(j) \/ CreateFails(j) \/ Redeliver(j)
  PROVE  RowInv'
  <1> USE DEF statementVars, requestVars, jobVars, brokerVars, historyVars
  <1>0. \A v \in Worker, k \in Job : WorksOn(v, k)' <=> WorksOn(v, k)
    BY WorkFrame DEF Lookup, RequestStep, CreateExport, CreateFindsNoRow, Enqueue,
                     CreateFails, Redeliver
  <1>1. CASE Lookup(j)
    BY <1>0, <1>1 DEF Lookup, RowInv, TypeOK
  <1>2. CASE CreateExport(j)
    <2>1. \A k \in Job : request[k] \in {"new", "inserting"} => job'[k] = job[k]
      BY <1>2, NoJobAssumption DEF CreateExport, RowInv, TypeOK
    <2>2. \A k \in Job \ {j} : /\ request'[k] = request[k] /\ found'[k] = found[k]
                               /\ k \in live' <=> k \in live
      BY <1>2 DEF CreateExport, TypeOK
    <2>3. request'[j] = "enqueue" /\ found'[j] = NoJob /\ stored' /\ stored
      BY <1>2 DEF CreateExport, TypeOK
    <2>4. UNCHANGED <<deletion, removing, queue, sent>>
      BY <1>2 DEF CreateExport
    <2>5. /\ ~stored' => live' = {}
          /\ deletion' \in {"unlinking", "done"} => ~stored'
      BY <2>3, <2>4 DEF RowInv
    <2>6. ASSUME NEW k \in Job, request'[k] \in {"new", "inserting"}
          PROVE  /\ job'[k] = Pending /\ k \notin live' /\ k \notin removing'
                 /\ queue'[k] = 0 /\ sent'[k] = 0
                 /\ \A v \in Worker : ~WorksOn(v, k)'
      <3>1. k # j
        BY <2>3, <2>6
      <3>2. request[k] \in {"new", "inserting"}
        BY <2>2, <2>6, <3>1
      <3> QED
        BY <1>0, <2>1, <2>2, <2>4, <3>1, <3>2 DEF RowInv
    <2>7. \A k \in Job : request'[k] # "inserting" => found'[k] = NoJob
      BY <2>2, <2>3 DEF RowInv
    <2> QED
      BY <2>5, <2>6, <2>7 DEF RowInv
  <1>3. CASE CreateFindsNoRow(j) \/ CreateFails(j)
    BY <1>0, <1>3 DEF CreateFindsNoRow, CreateFails, RowInv, TypeOK
  <1>4. CASE Enqueue(j)
    BY <1>0, <1>4 DEF Enqueue, RowInv, TypeOK
  <1>5. CASE Redeliver(j)
    <2>1. request[j] \notin {"new", "inserting"}
      BY <1>5 DEF Redeliver, RowInv
    <2> QED
      BY <1>0, <1>5, <2>1 DEF Redeliver, RowInv, TypeOK
  <1> QED
    BY <1>1, <1>2, <1>3, <1>4, <1>5 DEF RequestStep

LEMMA RowOther ==
  ASSUME TypeOK, RowInv,
         \/ \E j \in Job : Expire(j) \/ Wipe(j) \/ Download(j) \/ DeleteExport(j)
                           \/ DeleteExportCommit(j) \/ DeleteExportFails(j)
         \/ \E f \in Format : AnswerExisting(f) \/ LookupFails(f)
         \/ StatementStep
  PROVE  RowInv'
  <1> USE DEF statementVars, requestVars, jobVars, brokerVars, historyVars
  <1>0. \A v \in Worker, k \in Job : WorksOn(v, k)' <=> WorksOn(v, k)
    BY WorkFrame DEF Expire, Wipe, Download, DeleteExport, DeleteExportCommit,
                     DeleteExportFails, AnswerExisting, LookupFails, StatementStep,
                     DeleteStatement, DeleteStatementCommit, Unlink,
                     DeleteStatementFails, PatchStatus, SetIgnored, vars
  <1>1. ASSUME NEW j \in Job, Expire(j) PROVE RowInv'
    BY <1>0, <1>1 DEF Expire, RowInv, TypeOK
  <1>2. ASSUME NEW j \in Job, \/ Wipe(j) \/ Download(j) \/ DeleteExport(j)
                              \/ DeleteExportCommit(j) \/ DeleteExportFails(j)
        PROVE RowInv'
    BY <1>0, <1>2 DEF Wipe, Download, DeleteExport, DeleteExportCommit,
                      DeleteExportFails, RowInv
  <1>3. ASSUME NEW f \in Format, AnswerExisting(f) \/ LookupFails(f) PROVE RowInv'
    BY <1>0, <1>3 DEF AnswerExisting, LookupFails, RowInv, vars
  <1>4. CASE StatementStep
    BY <1>0, <1>4 DEF StatementStep, DeleteStatement, DeleteStatementCommit, Unlink,
                      DeleteStatementFails, PatchStatus, SetIgnored, RowInv
  <1> QED
    BY <1>1, <1>2, <1>3, <1>4

LEMMA RowWorker ==
  ASSUME TypeOK, RowInv, NEW w \in Worker,
         (\E j \in Job : Receive(w, j)) \/ RunStep(w) \/ WorkerCrash(w)
  PROVE  RowInv'
  <1>1. ASSUME NEW j \in Job, Receive(w, j) PROVE RowInv'
    <2>1. request[j] \notin {"new", "inserting"} /\ (\A k \in Job \ {j} : queue'[k] = queue[k])
      BY <1>1, ReceiveFrame DEF RowInv, TypeOK
    <2>2. \A v \in Worker, k \in Job \ {j} : WorksOn(v, k)' => WorksOn(v, k)
      BY <1>1, ReceiveFrame DEF WorksOn
    <2> QED
      BY <1>1, <2>1, <2>2, ReceiveFrame DEF RowInv
  <1>2. CASE RunStep(w) \/ WorkerCrash(w)
    BY <1>2, RunFrame, RunKeepsWork, RunJob DEF RowInv
  <1> QED
    BY <1>1, <1>2

LEMMA RowStep == TypeOK /\ RowInv /\ [Next]_vars => RowInv'
  <1> SUFFICES ASSUME TypeOK, RowInv, [Next]_vars PROVE RowInv'
    OBVIOUS
  <1>1. CASE UNCHANGED vars
    BY <1>1, WorkFrame DEF RowInv, vars, statementVars, requestVars, jobVars, brokerVars
  <1>2. ASSUME NEW j \in Job, JobStep(j) PROVE RowInv'
    BY <1>2, RowRequest, RowOther DEF JobStep
  <1>3. ASSUME NEW w \in Worker, (\E j \in Job : Receive(w, j)) \/ RunStep(w) \/ WorkerCrash(w)
        PROVE RowInv'
    BY <1>3, RowWorker
  <1>4. CASE StatementStep \/ \E f \in Format : AnswerExisting(f) \/ LookupFails(f)
    BY <1>4, RowOther
  <1> QED
    BY <1>1, <1>2, <1>3, <1>4 DEF Next

-----------------------------------------------------------------------------
(* What the steps of requests, of the user, of time and of the disk do.    *)

(* A step of Next that is not a worker's.                                  *)
OtherStep ==
    \/ \E j \in Job : JobStep(j)
    \/ \E f \in Format : AnswerExisting(f) \/ LookupFails(f)
    \/ StatementStep

LEMMA OtherWorker == OtherStep => UNCHANGED workerVars /\ doubled' = doubled
  BY DEF OtherStep, JobStep, Lookup, RequestStep, CreateExport, CreateFindsNoRow, Enqueue,
         CreateFails, Redeliver, Expire, Wipe, Download, DeleteExport, DeleteExportCommit,
         DeleteExportFails, AnswerExisting, LookupFails, StatementStep,
         DeleteStatement, DeleteStatementCommit, Unlink,
         DeleteStatementFails, PatchStatus, SetIgnored, vars, workerVars, historyVars

(* A job only becomes FAILED or expires.                                   *)
LEMMA OtherJob ==
  ASSUME TypeOK, OtherStep, NEW k \in Job
  PROVE  /\ job'[k].path = job[k].path
         /\ job'[k].status = "READY" => job[k].status = "READY"
         /\ job'[k].expires = "future" => job[k].expires = "future"
  <1> USE DEF jobVars, vars
  <1>1. ASSUME NEW j \in Job, CreateExport(j) PROVE job'[k] \in {job[k], [job[k] EXCEPT !.status = "FAILED"]}
    BY <1>1 DEF CreateExport
  <1>2. ASSUME NEW j \in Job, Expire(j) PROVE job'[k] \in {job[k], [job[k] EXCEPT !.expires = "past"]}
    BY <1>2 DEF Expire, TypeOK
  <1>3. ASSUME NEW j \in Job, JobStep(j), ~CreateExport(j), ~Expire(j) PROVE job' = job
    BY <1>3 DEF JobStep, Lookup, RequestStep, CreateFindsNoRow, Enqueue, CreateFails,
                Redeliver, Wipe, Download, DeleteExport, DeleteExportCommit, DeleteExportFails
  <1>4. ASSUME StatementStep \/ \E f \in Format : AnswerExisting(f) \/ LookupFails(f)
        PROVE  job' = job
    BY <1>4 DEF AnswerExisting, LookupFails, StatementStep, DeleteStatement,
                DeleteStatementCommit, Unlink, DeleteStatementFails, PatchStatus, SetIgnored
  <1> DEFINE Changed == {job[k], [job[k] EXCEPT !.status = "FAILED"],
                         [job[k] EXCEPT !.expires = "past"]}
  <1>5. job'[k] \in Changed
    <2>1. ASSUME NEW j \in Job, JobStep(j) PROVE job'[k] \in Changed
      <3>1. CASE CreateExport(j)
        BY <1>1, <3>1
      <3>2. CASE Expire(j)
        BY <1>2, <3>2
      <3>3. CASE ~CreateExport(j) /\ ~Expire(j)
        BY <1>3, <2>1, <3>3
      <3> QED
        BY <3>1, <3>2, <3>3
    <2>2. CASE StatementStep \/ \E f \in Format : AnswerExisting(f) \/ LookupFails(f)
      BY <1>4, <2>2
    <2> HIDE DEF Changed
    <2> QED
      BY <2>1, <2>2 DEF OtherStep
  <1>6. job[k] \in Columns
    BY DEF TypeOK
  <1> QED
    BY <1>5, <1>6 DEF Columns

(* Rows appear with their request and go with their statement.             *)
LEMMA OtherRows ==
  ASSUME TypeOK, RowInv, OtherStep
  PROVE  /\ \A k \in live' \ live : request[k] = "inserting"
         /\ live' # {} => stored' = stored
         /\ patched' \/ status' = status
         /\ patched => patched'
  <1> USE DEF statementVars, jobVars, historyVars, vars
  <1>1. ASSUME NEW j \in Job, CreateExport(j) \/ DeleteExportCommit(j)
        PROVE /\ \A k \in live' \ live : request[k] = "inserting"
              /\ stored' = stored /\ status' = status /\ patched' = patched
    BY <1>1 DEF CreateExport, DeleteExportCommit
  <1>2. ASSUME NEW j \in Job, JobStep(j), ~CreateExport(j), ~DeleteExportCommit(j)
        PROVE live' = live /\ stored' = stored /\ status' = status /\ patched' = patched
    BY <1>2 DEF JobStep, Lookup, RequestStep, CreateFindsNoRow, Enqueue, CreateFails,
                Redeliver, Expire, Wipe, Download, DeleteExport, DeleteExportFails
  <1>3. ASSUME NEW f \in Format, AnswerExisting(f) \/ LookupFails(f)
        PROVE live' = live /\ stored' = stored /\ status' = status /\ patched' = patched
    BY <1>3 DEF AnswerExisting, LookupFails
  <1>4. CASE StatementStep
    BY <1>4 DEF StatementStep, DeleteStatement, DeleteStatementCommit, Unlink,
                DeleteStatementFails, PatchStatus, SetIgnored
  <1> QED
    BY <1>1, <1>2, <1>3, <1>4 DEF OtherStep

(* A file that was there or is missed is so after the step, except that a  *)
(* request forgets the lost file of the job it marks FAILED.               *)
LEMMA OtherFiles ==
  ASSUME TypeOK, RowInv, OtherStep
  PROVE  /\ file' \subseteq file
         /\ \A k \in live' : k \in file \cup lost =>
               \/ k \in file' \cup lost'
               \/ job'[k].status = "FAILED" /\ \A w \in Worker : ~WorksOn(w, k)
  <1> USE DEF statementVars, jobVars, historyVars, vars
  <1>1. ASSUME NEW j \in Job, CreateExport(j)
        PROVE /\ file' = file
              /\ \A k \in lost \ lost' :
                    job'[k].status = "FAILED" /\ \A w \in Worker : ~WorksOn(w, k)
    BY <1>1 DEF CreateExport, TypeOK, Columns
  <1>2. ASSUME NEW j \in Job, Wipe(j) \/ DeleteExport(j)
        PROVE file' \subseteq file /\ file \cup lost \subseteq file' \cup lost'
    BY <1>2 DEF Wipe, DeleteExport
  <1>3. ASSUME NEW j \in Job, JobStep(j), ~CreateExport(j), ~Wipe(j), ~DeleteExport(j)
        PROVE file' = file /\ lost' = lost
    BY <1>3 DEF JobStep, Lookup, RequestStep, CreateFindsNoRow, Enqueue, CreateFails,
                Redeliver, Expire, Download, DeleteExportCommit, DeleteExportFails
  <1>4. ASSUME NEW f \in Format, AnswerExisting(f) \/ LookupFails(f)
        PROVE file' = file /\ lost' = lost
    BY <1>4 DEF AnswerExisting, LookupFails
  <1>5. CASE Unlink
    <2>1. live' = {}
      BY <1>5 DEF Unlink, RowInv
    <2> QED
      BY <1>5, <2>1 DEF Unlink
  <1>6. ASSUME StatementStep, ~Unlink PROVE file' = file /\ lost' = lost
    BY <1>6 DEF StatementStep, DeleteStatement, DeleteStatementCommit,
                DeleteStatementFails, PatchStatus, SetIgnored
  <1> QED
    BY <1>1, <1>2, <1>3, <1>4, <1>5, <1>6 DEF OtherStep

LEMMA NextCases ==
  ASSUME [Next]_vars
  PROVE  \/ UNCHANGED vars
         \/ OtherStep
         \/ \E w \in Worker : \/ \E j \in Job : Receive(w, j)
                              \/ RunStep(w) \/ WorkerCrash(w)
  BY DEF Next, OtherStep

-----------------------------------------------------------------------------
(* A READY job has its file, and the statement is EXPORTED.                *)

ReadyInv == SessionInv /\ ReadyHasFile /\ ReadyMeansExported

LEMMA ReadyInit == Init => ReadyInv
  BY DEF Init, ReadyInv, SessionInv, ReadyHasFile, ReadyMeansExported

LEMMA ReadyOther ==
  ASSUME TypeOK, RowInv, ReadyInv, OtherStep
  PROVE  ReadyInv'
  <1>1. /\ pc' = pc /\ task' = task /\ copy' = copy /\ seen' = seen
        /\ patched' \/ (~patched /\ status' = status)
    BY OtherWorker, OtherRows DEF workerVars
  <1>2. SessionInv'
    <2> SUFFICES ASSUME NEW w \in Worker, pc[w] # "idle"
                 PROVE  /\ copy[w].path => job'[task[w]].path
                        /\ pc[w] = "reuse" => copy[w].path
                        /\ pc[w] \in {"reuse", "written"} /\ task[w] \in live' =>
                               task[w] \in file' \cup lost'
                        /\ ~patched' /\ seen[w] = "EXPORTED" => status' = "EXPORTED"
      BY <1>1 DEF SessionInv
    <2>1. task[w] \in Job /\ WorksOn(w, task[w])
      BY DEF TypeOK, WorksOn
    <2>2. task[w] \in live' => task[w] \in live
      BY <2>1, OtherRows DEF RowInv
    <2> QED
      BY <1>1, <2>1, <2>2, OtherJob, OtherFiles DEF ReadyInv, SessionInv
  <1>3. ASSUME NEW k \in live', job'[k].status = "READY"
        PROVE  k \in live /\ job[k].status = "READY"
    <2>1. k \in Job /\ job[k].status = "READY"
      BY <1>3, TypeStep, OtherJob DEF Next, OtherStep, TypeOK
    <2>2. request[k] # "inserting"
      BY <2>1 DEF RowInv, Pending
    <2> QED
      BY <2>1, <2>2, OtherRows
  <1>4. live \subseteq Job
    BY DEF TypeOK
  <1>5. ReadyHasFile'
    BY <1>3, <1>4, OtherJob, OtherFiles DEF ReadyInv, ReadyHasFile
  <1>6. ReadyMeansExported'
    BY <1>1, <1>3, OtherRows DEF ReadyInv, ReadyMeansExported
  <1> QED
    BY <1>2, <1>5, <1>6 DEF ReadyInv

LEMMA ReadyReceive ==
  ASSUME TypeOK, ReadyInv, NEW w \in Worker, NEW j \in Job, Receive(w, j)
  PROVE  ReadyInv'
  <1>1. UNCHANGED <<stored, status, live, job, file, patched, lost>>
    BY ReceiveFrame
  <1>2. CASE UNCHANGED <<pc, task, copy, seen>>
    BY <1>1, <1>2 DEF ReadyInv, SessionInv, ReadyHasFile, ReadyMeansExported
  <1>3. CASE /\ task'[w] = j /\ copy'[w] = job[j] /\ seen'[w] = status
             /\ pc'[w] = IF job[j].path /\ j \in file THEN "reuse" ELSE "start"
             /\ \A v \in Worker \ {w} : /\ pc'[v] = pc[v] /\ task'[v] = task[v]
                                        /\ copy'[v] = copy[v] /\ seen'[v] = seen[v]
    BY <1>1, <1>3 DEF ReadyInv, SessionInv, ReadyHasFile, ReadyMeansExported
  <1> QED
    BY <1>2, <1>3, ReceiveFrame

LEMMA ReadyRun ==
  ASSUME TypeOK, RowInv, ReadyInv, NEW w \in Worker, RunStep(w) \/ WorkerCrash(w)
  PROVE  ReadyInv'
  <1>1. /\ pc[w] # "idle" /\ task[w] \in Job /\ live \subseteq Job
        /\ UNCHANGED <<stored, live, patched>>
    BY RunFrame DEF TypeOK
  <1>2. status' = status \/ status' = "EXPORTED"
    BY RunFiles DEF MarkExported
  <1>3. SessionInv'
    <2> SUFFICES ASSUME NEW v \in Worker, pc'[v] # "idle"
                 PROVE  /\ copy'[v].path => job'[task'[v]].path
                        /\ pc'[v] = "reuse" => copy'[v].path
                        /\ pc'[v] \in {"reuse", "written"} /\ task'[v] \in live' =>
                               task'[v] \in file' \cup lost'
                        /\ ~patched' /\ seen'[v] = "EXPORTED" => status' = "EXPORTED"
      BY DEF SessionInv
    <2>1. \A k \in Job : job[k].path => job'[k].path
      BY RunJob
    <2>2. file \cup lost \subseteq file' \cup lost'
      BY RunFiles
    <2>3. CASE v = w
      <3>1. task'[w] = task[w] /\ seen'[w] = seen[w] /\ copy'[w].path = copy[w].path
        BY <2>3, RunFrame, RunFiles
      <3>2. pc'[w] # "reuse" /\ (pc'[w] = "written" => task[w] \in file')
        BY RunFiles
      <3> QED
        BY <1>1, <1>2, <2>1, <2>3, <3>1, <3>2 DEF ReadyInv, SessionInv
    <2>4. CASE v # w
      <3>1. /\ pc'[v] = pc[v] /\ task'[v] = task[v] /\ copy'[v] = copy[v] /\ seen'[v] = seen[v]
            /\ task[v] \in Job
        BY <2>4, RunFrame DEF TypeOK
      <3> QED
        BY <1>1, <1>2, <2>1, <2>2, <3>1 DEF ReadyInv, SessionInv
    <2> QED
      BY <2>3, <2>4
  <1>4. ASSUME NEW k \in live, job'[k].status = "READY"
        PROVE  /\ job'[k].path /\ k \in file' \cup lost'
               /\ ~patched => stored /\ status' = "EXPORTED"
    <2>1. CASE job[k].status = "READY"
      BY <1>1, <1>2, <2>1, RunJob, RunFiles DEF ReadyInv, ReadyHasFile, ReadyMeansExported
    <2>2. CASE job[k].status # "READY"
      <3>1. /\ k = task[w] /\ MarkExported(w)
            /\ pc[w] = "reuse" \/ (pc[w] = "written" /\ job'[k].path)
        BY <1>1, <1>4, <2>2, RunJob
      <3>2. job'[k].path
        BY <1>1, <3>1, RunJob DEF ReadyInv, SessionInv
      <3>3. k \in file' \cup lost'
        BY <1>1, <3>1, RunFiles DEF ReadyInv, SessionInv
      <3>4. ~patched => status' = "EXPORTED"
        BY <1>1, <3>1 DEF ReadyInv, SessionInv, MarkExported
      <3> QED
        BY <3>2, <3>3, <3>4 DEF RowInv
    <2> QED
      BY <2>1, <2>2
  <1> QED
    BY <1>1, <1>3, <1>4 DEF ReadyInv, ReadyHasFile, ReadyMeansExported

LEMMA ReadyStep == TypeOK /\ RowInv /\ ReadyInv /\ [Next]_vars => ReadyInv'
  <1> SUFFICES ASSUME TypeOK, RowInv, ReadyInv, [Next]_vars PROVE ReadyInv'
    OBVIOUS
  <1>1. CASE UNCHANGED vars
    BY <1>1 DEF ReadyInv, SessionInv, ReadyHasFile, ReadyMeansExported, vars,
                statementVars, requestVars, jobVars, workerVars, historyVars
  <1>2. CASE OtherStep
    BY <1>2, ReadyOther
  <1>3. ASSUME NEW w \in Worker, NEW j \in Job, Receive(w, j) PROVE ReadyInv'
    BY <1>3, ReadyReceive
  <1>4. ASSUME NEW w \in Worker, RunStep(w) \/ WorkerCrash(w) PROVE ReadyInv'
    BY <1>4, ReadyRun
  <1> QED
    BY <1>1, <1>2, <1>3, <1>4, NextCases

(* A READY job has its file unless the disk lost it, whatever crashes,     *)
(* redeliveries and overlapping runs there were.                           *)
THEOREM ReadyHasFileCorrect == Spec => []ReadyHasFile
  <1>1. Init => TypeOK /\ RowInv /\ ReadyInv
    BY TypeInit, RowInit, ReadyInit
  <1>2. TypeOK /\ RowInv /\ ReadyInv /\ [Next]_vars => TypeOK' /\ RowInv' /\ ReadyInv'
    BY TypeStep, RowStep, ReadyStep
  <1>3. ReadyInv => ReadyHasFile
    BY DEF ReadyInv
  <1> QED
    BY <1>1, <1>2, <1>3, PTL DEF Spec

(* The statement of a READY export is EXPORTED until the user changes it.  *)
THEOREM ReadyMeansExportedCorrect == Spec => []ReadyMeansExported
  <1>1. Init => TypeOK /\ RowInv /\ ReadyInv
    BY TypeInit, RowInit, ReadyInit
  <1>2. TypeOK /\ RowInv /\ ReadyInv /\ [Next]_vars => TypeOK' /\ RowInv' /\ ReadyInv'
    BY TypeStep, RowStep, ReadyStep
  <1>3. ReadyInv => ReadyMeansExported
    BY DEF ReadyInv
  <1> QED
    BY <1>1, <1>2, <1>3, PTL DEF Spec

-----------------------------------------------------------------------------
(* No file is left behind.                                                 *)

FilesInv == DeletionInv /\ ExportFilesAreOwned

LEMMA FilesInit == Init => FilesInv
  BY DEF Init, FilesInv, DeletionInv, ExportFilesAreOwned, Outstanding, WorksOn

LEMMA SameOutstanding ==
  ASSUME request' = request, queue' = queue, UNCHANGED workerVars, NEW k
  PROVE  Outstanding(k)' <=> Outstanding(k)
  BY DEF Outstanding, WorksOn, workerVars

(* Only a lookup and a late redelivery put a job back on its way.          *)
LEMMA RequestOutstanding ==
  ASSUME TypeOK, NEW j \in Job,
         Lookup(j) \/ RequestStep(j) \/ CreateFails(j) \/ Redeliver(j),
         NEW k \in Job, Outstanding(k)'
  PROVE  Outstanding(k) \/ (k = j /\ (Lookup(j) \/ Redeliver(j)))
  <1> USE DEF requestVars, brokerVars, workerVars, Outstanding, WorksOn, TypeOK
  <1>1. CASE Lookup(j)
    BY <1>1 DEF Lookup
  <1>2. CASE RequestStep(j)
    BY <1>2 DEF RequestStep, CreateExport, CreateFindsNoRow, Enqueue
  <1>3. CASE CreateFails(j)
    BY <1>3 DEF CreateFails
  <1>4. CASE Redeliver(j)
    BY <1>4 DEF Redeliver
  <1> QED
    BY <1>1, <1>2, <1>3, <1>4

LEMMA FilesRequest ==
  ASSUME TypeOK, RowInv, FilesInv, NEW j \in Job,
         Lookup(j) \/ RequestStep(j) \/ CreateFails(j) \/ Redeliver(j)
  PROVE  FilesInv'
  <1> USE DEF statementVars, requestVars, jobVars, brokerVars, historyVars
  <1>1. UNCHANGED <<file, removing, deletion, doomed>> /\ UNCHANGED workerVars
    BY DEF Lookup, RequestStep, CreateExport, CreateFindsNoRow, Enqueue, CreateFails, Redeliver
  <1>2. \A k \in Job : job'[k].path = job[k].path
    BY OtherJob DEF OtherStep, JobStep
  <1>3. /\ live \subseteq live' /\ live' \subseteq live \cup {j}
        /\ live' # live => Outstanding(j)
    BY DEF Lookup, RequestStep, CreateExport, CreateFindsNoRow, Enqueue, CreateFails,
           Redeliver, Outstanding
  <1>4. /\ stray \subseteq stray'
        /\ Lookup(j) \/ Redeliver(j) => j \in stray' \/ (j \notin removing /\ deletion = "none")
    BY DEF Lookup, RequestStep, CreateExport, CreateFindsNoRow, Enqueue, CreateFails, Redeliver, RowInv
  <1>5. DeletionInv'
    <2> SUFFICES ASSUME NEW k \in Job, k \notin stray'
                 PROVE  /\ k \in removing \/ deletion # "none" => ~Outstanding(k)'
                        /\ k \notin live' => \A w \in Worker : ~WorksOn(w, k)
                        /\ k \in removing /\ k \in live' => k \notin file
                        /\ deletion = "begun" /\ k \in live' /\ job'[k].path => k \in doomed
      BY <1>1, WorkFrame DEF DeletionInv
    <2>1. Outstanding(k)' => Outstanding(k) \/ (k = j /\ (Lookup(j) \/ Redeliver(j)))
      BY RequestOutstanding
    <2>2. k \notin stray
      BY <1>4
    <2>3. k \in live' \ live => k \notin removing /\ deletion = "none"
      BY <1>3, <2>2 DEF FilesInv, DeletionInv
    <2> QED
      BY <1>2, <1>3, <1>4, <2>1, <2>2, <2>3 DEF FilesInv, DeletionInv
  <1>6. ExportFilesAreOwned'
    BY <1>1, <1>2, <1>3, <1>4 DEF FilesInv, ExportFilesAreOwned, workerVars, TypeOK
  <1> QED
    BY <1>5, <1>6 DEF FilesInv

LEMMA FilesUser ==
  ASSUME TypeOK, RowInv, FilesInv, NEW j \in Job,
         \/ Expire(j) \/ Wipe(j) \/ Download(j) \/ DeleteExport(j)
         \/ DeleteExportCommit(j) \/ DeleteExportFails(j)
  PROVE  FilesInv'
  <1> USE DEF statementVars, requestVars, jobVars, brokerVars, historyVars
  <1>1. /\ UNCHANGED <<stored, request, queue, deletion, doomed>> /\ UNCHANGED workerVars
        /\ stray \subseteq stray'
    BY DEF Expire, Wipe, Download, DeleteExport, DeleteExportCommit, DeleteExportFails
  <1>2. \A k \in Job : job'[k].path = job[k].path
    BY OtherJob DEF OtherStep, JobStep
  <1>3. \A k \in Job : Outstanding(k)' <=> Outstanding(k)
    BY <1>1, SameOutstanding
  <1>4. \A k \in Job, w \in Worker : WorksOn(w, k)' <=> WorksOn(w, k)
    BY <1>1, WorkFrame
  <1>5. CASE Expire(j) \/ Wipe(j) \/ Download(j) \/ DeleteExportFails(j)
    <2>1. live' = live /\ file' \subseteq file /\ removing' \subseteq removing
      BY <1>5 DEF Expire, Wipe, Download, DeleteExportFails
    <2>2. DeletionInv'
      BY <1>1, <1>2, <1>3, <1>4, <2>1 DEF FilesInv, DeletionInv
    <2>3. ExportFilesAreOwned'
      BY <1>1, <1>2, <2>1 DEF FilesInv, ExportFilesAreOwned, workerVars, TypeOK
    <2> QED
      BY <2>2, <2>3 DEF FilesInv
  <1>6. CASE DeleteExport(j)
    <2>1. /\ j \in live /\ live' = live /\ removing' = removing \cup {j}
          /\ file' = IF job[j].path THEN file \ {j} ELSE file
          /\ Outstanding(j) => j \in stray'
      BY <1>6 DEF DeleteExport
    <2>2. j \in file' => j \in stray'
      BY <1>1, <2>1 DEF FilesInv, ExportFilesAreOwned, RowInv, Outstanding, WorksOn
    <2>3. DeletionInv'
      BY <1>1, <1>2, <1>3, <1>4, <2>1, <2>2 DEF FilesInv, DeletionInv
    <2>4. ExportFilesAreOwned'
      BY <1>1, <1>2, <2>1, <2>2 DEF FilesInv, ExportFilesAreOwned, workerVars, TypeOK
    <2> QED
      BY <2>3, <2>4 DEF FilesInv
  <1>7. CASE DeleteExportCommit(j)
    <2>1. /\ j \in removing /\ live' = live \ {j} /\ removing' = removing \ {j}
          /\ file' = file /\ stray' = stray
      BY <1>7 DEF DeleteExportCommit
    <2>2. DeletionInv'
      BY <1>1, <1>2, <1>3, <1>4, <2>1 DEF FilesInv, DeletionInv, Outstanding
    <2>3. ExportFilesAreOwned'
      BY <1>1, <1>2, <2>1 DEF FilesInv, ExportFilesAreOwned, DeletionInv, workerVars, TypeOK
    <2> QED
      BY <2>2, <2>3 DEF FilesInv
  <1> QED
    BY <1>5, <1>6, <1>7

LEMMA FilesStatement ==
  ASSUME TypeOK, RowInv, FilesInv,
         StatementStep \/ \E f \in Format : AnswerExisting(f) \/ LookupFails(f)
  PROVE  FilesInv'
  <1> USE DEF statementVars, requestVars, jobVars, brokerVars, historyVars
  <1>1. /\ UNCHANGED <<request, queue, job, removing>> /\ UNCHANGED workerVars
        /\ stray \subseteq stray'
    BY DEF StatementStep, AnswerExisting, LookupFails, DeleteStatement, DeleteStatementCommit,
           Unlink, DeleteStatementFails, PatchStatus, SetIgnored, vars
  <1>2. \A k \in Job : Outstanding(k)' <=> Outstanding(k)
    BY <1>1, SameOutstanding
  <1>3. \A k \in Job, w \in Worker : WorksOn(w, k)' <=> WorksOn(w, k)
    BY <1>1, WorkFrame
  <1>4. CASE DeleteStatement
    <2>1. /\ deletion = "none" /\ deletion' = "begun" /\ UNCHANGED <<live, file>>
          /\ doomed' = {j \in live : job[j].path}
          /\ stray' = stray \cup {j \in Job : Outstanding(j)}
      BY <1>4 DEF DeleteStatement
    <2>2. DeletionInv'
      BY <1>1, <1>2, <1>3, <2>1 DEF FilesInv, DeletionInv
    <2>3. ExportFilesAreOwned'
      BY <1>1, <2>1 DEF FilesInv, ExportFilesAreOwned, workerVars
    <2> QED
      BY <2>2, <2>3 DEF FilesInv
  <1>5. CASE DeleteStatementCommit
    <2>1. /\ deletion = "begun" /\ deletion' = "unlinking" /\ live' = {}
          /\ UNCHANGED <<doomed, file, stray>>
      BY <1>5 DEF DeleteStatementCommit
    <2>2. DeletionInv'
      BY <1>1, <1>2, <1>3, <2>1 DEF FilesInv, DeletionInv, Outstanding
    <2>3. ExportFilesAreOwned'
      BY <1>1, <2>1 DEF FilesInv, ExportFilesAreOwned, DeletionInv, workerVars, TypeOK
    <2> QED
      BY <2>2, <2>3 DEF FilesInv
  <1>6. CASE Unlink
    <2>1. /\ deletion = "unlinking" /\ deletion' = "done" /\ file' = file \ doomed
          /\ UNCHANGED <<doomed, live, stray>>
      BY <1>6 DEF Unlink
    <2>2. DeletionInv'
      BY <1>1, <1>2, <1>3, <2>1 DEF FilesInv, DeletionInv
    <2>3. ExportFilesAreOwned'
      BY <1>1, <2>1 DEF FilesInv, ExportFilesAreOwned, workerVars
    <2> QED
      BY <2>2, <2>3 DEF FilesInv
  <1>7. CASE DeleteStatementFails
    <2>1. /\ UNCHANGED <<doomed, live, file>>
          /\ \/ deletion = "begun" /\ deletion' = "none" /\ stray' = stray
             \/ deletion = "unlinking" /\ deletion' = "done" /\ stray' = stray \cup doomed
      BY <1>7 DEF DeleteStatementFails
    <2>2. DeletionInv'
      BY <1>1, <1>2, <1>3, <2>1 DEF FilesInv, DeletionInv
    <2>3. ExportFilesAreOwned'
      BY <1>1, <2>1 DEF FilesInv, ExportFilesAreOwned, workerVars
    <2> QED
      BY <2>2, <2>3 DEF FilesInv
  <1>8. ASSUME \/ \E c \in PatchChoice : PatchStatus(c)
               \/ \E n \in Row, b \in BOOLEAN : SetIgnored(n, b)
               \/ \E f \in Format : AnswerExisting(f) \/ LookupFails(f)
        PROVE  FilesInv'
    <2>1. UNCHANGED <<deletion, doomed, live, file, stray>>
      BY <1>8 DEF PatchStatus, SetIgnored, AnswerExisting, LookupFails, vars
    <2>2. DeletionInv'
      BY <1>1, <1>2, <1>3, <2>1 DEF FilesInv, DeletionInv
    <2>3. ExportFilesAreOwned'
      BY <1>1, <2>1 DEF FilesInv, ExportFilesAreOwned, workerVars
    <2> QED
      BY <2>2, <2>3 DEF FilesInv
  <1> QED
    BY <1>4, <1>5, <1>6, <1>7, <1>8 DEF StatementStep

LEMMA FilesReceive ==
  ASSUME TypeOK, FilesInv, NEW w \in Worker, NEW j \in Job, Receive(w, j)
  PROVE  FilesInv'
  <1>1. /\ queue[j] > 0 /\ queue' = [queue EXCEPT ![j] = @ - 1]
        /\ UNCHANGED <<deletion, doomed, request, live, job, removing, file, stray>>
    BY ReceiveFrame
  <1>2. \A v \in Worker, k \in Job : WorksOn(v, k)' => WorksOn(v, k) \/ (k = j /\ j \in live)
    BY ReceiveFrame DEF WorksOn
  <1>3. \A v \in Worker : pc[v] = "written" => pc'[v] = pc[v] /\ task'[v] = task[v]
    BY ReceiveFrame
  <1>4. \A k \in Job : Outstanding(k)' => Outstanding(k)
    BY <1>1, <1>2 DEF Outstanding, TypeOK
  <1>5. DeletionInv'
    BY <1>1, <1>2, <1>4 DEF FilesInv, DeletionInv
  <1>6. ExportFilesAreOwned'
    BY <1>1, <1>3 DEF FilesInv, ExportFilesAreOwned
  <1> QED
    BY <1>5, <1>6 DEF FilesInv

(* The run that wrote a file ends with the path in the row, with the row   *)
(* gone, or with the death of its worker.                                  *)
LEMMA RunEnds ==
  ASSUME TypeOK, NEW w \in Worker, RunStep(w) \/ WorkerCrash(w), pc[w] = "written"
  PROVE  \/ task[w] \in stray'
         \/ task[w] \in live /\ job'[task[w]].path
         \/ task[w] \notin live
  <1>1. CASE FinishExport(w)
    BY <1>1, RunFrame DEF FinishExport, TypeOK
  <1>2. CASE RunFindsNoRow(w) \/ WorkerCrash(w)
    BY <1>2 DEF RunFindsNoRow, WorkerCrash
  <1> QED
    BY <1>1, <1>2 DEF RunStep, ReuseFile, StartRender, WriteFile, RenderFails

LEMMA FilesRun ==
  ASSUME TypeOK, FilesInv, NEW w \in Worker, RunStep(w) \/ WorkerCrash(w)
  PROVE  FilesInv'
  <1>1. /\ pc[w] # "idle" /\ task[w] \in Job
        /\ UNCHANGED <<deletion, doomed, request, live, removing, queue>>
        /\ \A v \in Worker \ {w} : pc'[v] = pc[v] /\ task'[v] = task[v]
    BY RunFrame
  <1>2. /\ stray \subseteq stray' /\ file' \subseteq file \cup {task[w]}
        /\ file' # file => task'[w] = task[w] /\ pc'[w] = "written"
    BY RunFiles
  <1>3. Outstanding(task[w])
    BY <1>1 DEF Outstanding, WorksOn
  <1>4. \A k \in Job : Outstanding(k)' => Outstanding(k)
    BY <1>1, RunKeepsWork DEF Outstanding
  <1>5. \A k \in Job : /\ job[k].path => job'[k].path
                       /\ job'[k].path => job[k].path \/ k = task[w]
    BY RunJob
  <1>6. DeletionInv'
    BY <1>1, <1>2, <1>3, <1>4, <1>5, RunKeepsWork DEF FilesInv, DeletionInv
  <1>7. ASSUME NEW k \in Job, k \in file' \ stray'
        PROVE  \/ k \in live' /\ job'[k].path
               \/ \E v \in Worker : task'[v] = k /\ pc'[v] = "written"
               \/ deletion' = "unlinking" /\ k \in doomed'
    <2>1. CASE k \notin file
      BY <1>2, <1>7, <2>1
    <2>2. CASE k \in file /\ k = task[w] /\ pc[w] = "written"
      <3>1. k \in live
        BY <1>1, <1>2, <1>7, <2>2 DEF FilesInv, DeletionInv, WorksOn
      <3> QED
        BY <1>1, <1>7, <2>2, <3>1, RunEnds
    <2>3. CASE k \in file /\ ~(k = task[w] /\ pc[w] = "written")
      BY <1>1, <1>2, <1>5, <1>7, <2>3 DEF FilesInv, ExportFilesAreOwned
    <2> QED
      BY <2>1, <2>2, <2>3
  <1>8. file' \subseteq Job
    BY <1>1, <1>2 DEF TypeOK
  <1> QED
    BY <1>6, <1>7, <1>8 DEF FilesInv, ExportFilesAreOwned

LEMMA FilesStep == TypeOK /\ RowInv /\ FilesInv /\ [Next]_vars => FilesInv'
  <1> SUFFICES ASSUME TypeOK, RowInv, FilesInv, [Next]_vars PROVE FilesInv'
    OBVIOUS
  <1>1. CASE UNCHANGED vars
    BY <1>1 DEF FilesInv, DeletionInv, ExportFilesAreOwned, Outstanding, WorksOn, vars,
                statementVars, requestVars, jobVars, brokerVars, workerVars, historyVars
  <1>2. ASSUME NEW j \in Job, JobStep(j) PROVE FilesInv'
    BY <1>2, FilesRequest, FilesUser DEF JobStep
  <1>3. CASE StatementStep \/ \E f \in Format : AnswerExisting(f) \/ LookupFails(f)
    BY <1>3, FilesStatement
  <1>4. ASSUME NEW w \in Worker, NEW j \in Job, Receive(w, j) PROVE FilesInv'
    BY <1>4, FilesReceive
  <1>5. ASSUME NEW w \in Worker, RunStep(w) \/ WorkerCrash(w) PROVE FilesInv'
    BY <1>5, FilesRun
  <1> QED
    BY <1>1, <1>2, <1>3, <1>4, <1>5 DEF Next

(* No export file is left without an owner, unless a process dies or a     *)
(* deletion overlaps the making of the file.                               *)
THEOREM ExportFilesAreOwnedCorrect == Spec => []ExportFilesAreOwned
  <1>1. Init => TypeOK /\ RowInv /\ FilesInv
    BY TypeInit, RowInit, FilesInit
  <1>2. TypeOK /\ RowInv /\ FilesInv /\ [Next]_vars => TypeOK' /\ RowInv' /\ FilesInv'
    BY TypeStep, RowStep, FilesStep
  <1>3. FilesInv => ExportFilesAreOwned
    BY DEF FilesInv
  <1> QED
    BY <1>1, <1>2, <1>3, PTL DEF Spec

-----------------------------------------------------------------------------
(* The run of a READY job has ended.                                       *)

LEMMA SerialInit == Init => SerialInv
  BY DEF Init, SerialInv, WorksOn

(* A run that makes its job READY ends.                                    *)
LEMMA RunReadyEnds ==
  ASSUME TypeOK, NEW w \in Worker, RunStep(w) \/ WorkerCrash(w), NEW k \in Job,
         job'[k].status = "READY", job[k].status # "READY"
  PROVE  pc'[w] = "idle"
  <1>1. CASE StartRender(w) \/ WriteFile(w)
    <2>1. pc[w] \in {"start", "rendering"}
      BY <1>1 DEF StartRender, WriteFile
    <2> QED
      BY <2>1, RunJob
  <1>2. CASE ReuseFile(w) \/ RenderFails(w) \/ FinishExport(w) \/ RunFindsNoRow(w)
             \/ WorkerCrash(w)
    BY <1>2 DEF ReuseFile, RenderFails, FinishExport, RunFindsNoRow, WorkerCrash, Stop, TypeOK
  <1> QED
    BY <1>1, <1>2 DEF RunStep

LEMMA SerialStep == TypeOK /\ SerialInv /\ [Next]_vars => SerialInv'
  <1> SUFFICES ASSUME TypeOK, SerialInv, [Next]_vars PROVE SerialInv'
    OBVIOUS
  <1>1. CASE UNCHANGED vars
    BY <1>1 DEF SerialInv, WorksOn, vars, jobVars, workerVars, historyVars
  <1>2. CASE OtherStep
    <2>1. \A v \in Worker, k \in Job : WorksOn(v, k)' <=> WorksOn(v, k)
      BY <1>2, OtherWorker, WorkFrame
    <2> QED
      BY <1>2, <2>1, OtherWorker, OtherJob DEF SerialInv
  <1>3. ASSUME NEW w \in Worker, NEW j \in Job, Receive(w, j) PROVE SerialInv'
    <2>1. job' = job
      BY <1>3, ReceiveFrame
    <2>2. CASE UNCHANGED <<pc, task, copy, seen, doubled>>
      BY <2>1, <2>2 DEF SerialInv, WorksOn
    <2>3. CASE ~UNCHANGED <<pc, task, copy, seen, doubled>>
      <3>1. /\ job[j].status # "READY" /\ task'[w] = j
            /\ \A v \in Worker \ {w} : pc'[v] = pc[v] /\ task'[v] = task[v]
            /\ doubled \subseteq doubled'
            /\ (\E v \in Worker : WorksOn(v, j)) => j \in doubled'
        BY <1>3, <2>3, ReceiveFrame
      <3> QED
        BY <2>1, <3>1 DEF SerialInv, WorksOn
    <2> QED
      BY <2>2, <2>3
  <1>4. ASSUME NEW w \in Worker, RunStep(w) \/ WorkerCrash(w) PROVE SerialInv'
    <2> SUFFICES ASSUME NEW k \in Job \ doubled', NEW v \in Worker, WorksOn(v, k)'
                 PROVE  /\ job'[k].status # "READY"
                        /\ \A u \in Worker : WorksOn(u, k)' => u = v
      BY DEF SerialInv
    <2>1. k \notin doubled /\ WorksOn(v, k)
      BY <1>4, RunFrame, RunKeepsWork
    <2>2. \A u \in Worker : WorksOn(u, k) => u = v
      BY <2>1 DEF SerialInv
    <2>3. job'[k].status # "READY"
      <3> SUFFICES ASSUME job'[k].status = "READY" PROVE FALSE
        OBVIOUS
      <3>1. job[k].status # "READY"
        BY <2>1 DEF SerialInv
      <3>2. k = task[w]
        BY <1>4, <3>1, RunJob
      <3>3. WorksOn(w, k) /\ pc'[w] = "idle"
        BY <1>4, <3>1, <3>2, RunFrame, RunReadyEnds DEF WorksOn
      <3> QED
        BY <2>2, <3>3 DEF WorksOn
    <2> QED
      BY <1>4, <2>2, <2>3, RunKeepsWork
  <1> QED
    BY <1>1, <1>2, <1>3, <1>4, NextCases

LEMMA ReadyStaysStep ==
  ASSUME TypeOK, SerialInv, [Next]_vars
  PROVE  [\A j \in live :
            job[j].status = "READY" /\ j \notin doubled
            => \/ j \notin live'
               \/ job'[j].status = "READY"
               \/ \E k \in Job : found[k] = j /\ CreateExport(k)]_vars
  <1> SUFFICES ASSUME ~UNCHANGED vars, NEW j \in live, job[j].status = "READY", j \notin doubled,
                      ~ \E k \in Job : found[k] = j /\ CreateExport(k)
               PROVE  job'[j].status = "READY"
    OBVIOUS
  <1>0. j \in Job /\ job[j] \in Columns
    BY DEF TypeOK
  <1>1. CASE OtherStep
    <2>1. ASSUME NEW k \in Job, CreateExport(k) PROVE job'[j] = job[j]
      BY <1>0, <2>1 DEF CreateExport
    <2>2. ASSUME NEW k \in Job, Expire(k) PROVE job'[j].status = job[j].status
      BY <1>0, <2>2 DEF Expire, TypeOK, Columns
    <2>3. ASSUME NEW k \in Job, JobStep(k), ~CreateExport(k), ~Expire(k) PROVE job' = job
      BY <2>3 DEF JobStep, Lookup, RequestStep, CreateFindsNoRow, Enqueue, CreateFails,
                  Redeliver, Wipe, Download, DeleteExport, DeleteExportCommit,
                  DeleteExportFails, jobVars
    <2>4. ASSUME StatementStep \/ \E f \in Format : AnswerExisting(f) \/ LookupFails(f)
          PROVE  job' = job
      BY <2>4 DEF AnswerExisting, LookupFails, StatementStep, DeleteStatement,
                  DeleteStatementCommit, Unlink, DeleteStatementFails, PatchStatus,
                  SetIgnored, jobVars, vars
    <2> QED
      BY <1>1, <2>1, <2>2, <2>3, <2>4 DEF OtherStep
  <1>2. ASSUME NEW w \in Worker, NEW k \in Job, Receive(w, k) PROVE job' = job
    BY <1>2, ReceiveFrame
  <1>3. ASSUME NEW w \in Worker, RunStep(w) \/ WorkerCrash(w) PROVE job'[j] = job[j]
    <2>1. j # task[w]
      BY <1>0, <1>3, RunFrame DEF SerialInv, WorksOn
    <2> QED
      BY <1>0, <1>3, <2>1, RunJob
  <1> QED
    BY <1>1, <1>2, <1>3, NextCases

(* No delivery of its task, retry or late failure makes a READY job        *)
(* anything else, unless two of its runs overlap.                          *)
THEOREM ReadyStaysCorrect == Spec => ReadyStays
  <1>1. Init => TypeOK /\ SerialInv
    BY TypeInit, SerialInit
  <1>2. TypeOK /\ SerialInv /\ [Next]_vars => TypeOK' /\ SerialInv'
    BY TypeStep, SerialStep
  <1> QED
    BY <1>1, <1>2, ReadyStaysStep, PTL DEF Spec, ReadyStays

-----------------------------------------------------------------------------
(* Requests that wait for each other leave one export of each format.      *)

LEMMA RequestInit == Init => RequestInv
  BY DEF Init, RequestInv, Outstanding, Current, WorksOn

(* No export becomes ready but by a run.                                   *)
LEMMA OtherCurrent ==
  ASSUME TypeOK, RowInv, OtherStep
  PROVE  fmt' = fmt /\ \A f, k : k \in Current(f)' => k \in Current(f)
  <1>1. fmt' = fmt
    BY DEF OtherStep, JobStep, Lookup, RequestStep, CreateExport, CreateFindsNoRow, Enqueue,
           CreateFails, Redeliver, Expire, Wipe, Download, DeleteExport, DeleteExportCommit,
           DeleteExportFails, AnswerExisting, LookupFails, StatementStep,
           DeleteStatement, DeleteStatementCommit, Unlink,
           DeleteStatementFails, PatchStatus, SetIgnored, vars
  <1>2. ASSUME NEW f, NEW k, k \in Current(f)' PROVE k \in Current(f)
    <2>1. /\ k \in live' /\ fmt[k] = f /\ job'[k].status = "READY" /\ job'[k].expires = "future"
          /\ k \in Job
      BY <1>1, <1>2, TypeStep DEF Current, Next, OtherStep, TypeOK
    <2>2. job[k].status = "READY" /\ job[k].expires = "future"
      BY <2>1, OtherJob
    <2>3. k \in live
      BY <2>1, <2>2, OtherRows DEF RowInv, Pending
    <2> QED
      BY <2>1, <2>2, <2>3 DEF Current
  <1> QED
    BY <1>1, <1>2

(* A step that puts no job on its way and makes no export ready.           *)
LEMMA RequestQuiet ==
  ASSUME RequestInv, fmt' = fmt, raced' = raced, refused' = refused,
         \A f, k : k \in Current(f)' => k \in Current(f),
         \A k \in Job : Outstanding(k)' => Outstanding(k) /\ found'[k] = found[k]
  PROVE  RequestInv'
  BY DEF RequestInv

LEMMA RequestJob ==
  ASSUME TypeOK, RowInv, RequestInv, NEW j \in Job,
         Lookup(j) \/ RequestStep(j) \/ CreateFails(j) \/ Redeliver(j)
  PROVE  RequestInv'
  <1> USE DEF requestVars, jobVars, brokerVars, historyVars
  <1>1. fmt' = fmt /\ \A f, k : k \in Current(f)' => k \in Current(f)
    BY OtherCurrent DEF OtherStep, JobStep
  <1>2. UNCHANGED workerVars
    BY DEF Lookup, RequestStep, CreateExport, CreateFindsNoRow, Enqueue, CreateFails, Redeliver
  <1>3. \A v \in Worker, k \in Job : WorksOn(v, k)' <=> WorksOn(v, k)
    BY <1>2, WorkFrame
  <1>4. \A k \in Job \ {j} : /\ Outstanding(k)' <=> Outstanding(k)
                             /\ found'[k] = found[k]
    BY <1>3 DEF Lookup, RequestStep, CreateExport, CreateFindsNoRow, Enqueue, CreateFails,
                Redeliver, Outstanding, TypeOK
  <1>5. CASE Lookup(j)
    <2>1. /\ refused' = refused /\ raced \subseteq raced'
          /\ fmt[j] \notin raced' => \A k \in Job : fmt[k] = fmt[j] => ~Outstanding(k)
          /\ \A k \in Current(fmt[j]) : found'[j] = k
      BY <1>5 DEF Lookup, TypeOK
    <2> QED
      BY <1>1, <1>4, <2>1 DEF RequestInv
  <1>6. CASE CreateExport(j)
    <2>1. Outstanding(j) /\ raced' = raced /\ refused' = refused
      BY <1>6 DEF CreateExport, Outstanding
    <2>2. \A f, k : k \in Job /\ found[j] = k => k \notin Current(f)'
      BY <1>6 DEF CreateExport, TypeOK, Columns, Current
    <2> QED
      BY <1>1, <1>4, <2>1, <2>2 DEF RequestInv
  <1>7. CASE CreateFindsNoRow(j) \/ CreateFails(j) \/ Enqueue(j)
    <2>1. raced' = raced /\ refused' = refused
      BY <1>7 DEF CreateFindsNoRow, CreateFails, Enqueue
    <2>2. Outstanding(j)' => Outstanding(j) /\ found'[j] = found[j]
      BY <1>3, <1>7 DEF CreateFindsNoRow, CreateFails, Enqueue, RowInv, Outstanding, TypeOK
    <2> QED
      BY <1>1, <1>4, <2>1, <2>2, RequestQuiet
  <1>8. CASE Redeliver(j)
    <2>1. /\ refused' = refused /\ raced \subseteq raced'
          /\ fmt[j] \notin raced' => \A k \in Job \ {j} : fmt[k] = fmt[j] => request[k] = "new"
          /\ found' = found
      BY <1>8 DEF Redeliver
    <2>2. \A k \in Job : request[k] = "new" => ~Outstanding(k) /\ \A f : k \notin Current(f)
      BY DEF RowInv, Outstanding, Current
    <2> QED
      BY <1>1, <1>4, <2>1, <2>2 DEF RequestInv
  <1> QED
    BY <1>5, <1>6, <1>7, <1>8 DEF RequestStep

(* A lookup that fails has seen two exports of its format.                 *)
LEMMA CurrentIsOne ==
  ASSUME TypeOK, RequestInv, NEW f \in Format \ raced
  PROVE  Cardinality(Current(f)) \in {0, 1}
  <1>1. \A j, k \in Current(f) : j = k
    BY DEF RequestInv, Current, TypeOK
  <1>2. CASE Current(f) = {}
    BY <1>2, FS_EmptySet
  <1>3. ASSUME NEW k \in Current(f) PROVE Cardinality(Current(f)) = 1
    <2>1. Current(f) = {k}
      BY <1>1
    <2> QED
      BY <2>1, FS_Singleton
  <1> QED
    BY <1>2, <1>3

LEMMA RequestOther ==
  ASSUME TypeOK, RowInv, RequestInv,
         \/ \E j \in Job : Expire(j) \/ Wipe(j) \/ Download(j) \/ DeleteExport(j)
                           \/ DeleteExportCommit(j) \/ DeleteExportFails(j)
         \/ \E f \in Format : AnswerExisting(f) \/ LookupFails(f)
         \/ StatementStep
  PROVE  RequestInv'
  <1> USE DEF requestVars, jobVars, brokerVars, historyVars, vars
  <1>1. fmt' = fmt /\ \A f, k : k \in Current(f)' => k \in Current(f)
    BY OtherCurrent DEF OtherStep, JobStep
  <1>2. UNCHANGED <<request, found, queue, raced>> /\ UNCHANGED workerVars
    BY DEF Expire, Wipe, Download, DeleteExport, DeleteExportCommit, DeleteExportFails,
           AnswerExisting, LookupFails, StatementStep, DeleteStatement, DeleteStatementCommit,
           Unlink, DeleteStatementFails, PatchStatus, SetIgnored
  <1>3. refused' \subseteq refused \cup raced
    <2>1. ASSUME NEW f \in Format, LookupFails(f) PROVE refused' \subseteq refused \cup raced
      <3>1. f \in raced
        BY <2>1, CurrentIsOne DEF LookupFails
      <3> QED
        BY <2>1, <3>1 DEF LookupFails
    <2>2. ASSUME NEW f \in Format, AnswerExisting(f) PROVE refused' = refused
      BY <2>2 DEF AnswerExisting
    <2>3. ASSUME NEW j \in Job, \/ Expire(j) \/ Wipe(j) \/ Download(j) \/ DeleteExport(j)
                                \/ DeleteExportCommit(j) \/ DeleteExportFails(j)
          PROVE  refused' = refused
      BY <2>3 DEF Expire, Wipe, Download, DeleteExport, DeleteExportCommit, DeleteExportFails
    <2>4. ASSUME StatementStep PROVE refused' = refused
      BY <2>4 DEF StatementStep, DeleteStatement, DeleteStatementCommit,
                  Unlink, DeleteStatementFails, PatchStatus, SetIgnored
    <2> QED
      BY <2>1, <2>2, <2>3, <2>4
  <1>4. \A k \in Job : Outstanding(k)' <=> Outstanding(k)
    BY <1>2, SameOutstanding
  <1> QED
    BY <1>1, <1>2, <1>3, <1>4 DEF RequestInv

LEMMA RequestReceive ==
  ASSUME TypeOK, RequestInv, NEW w \in Worker, NEW j \in Job, Receive(w, j)
  PROVE  RequestInv'
  <1>1. /\ queue[j] > 0 /\ queue' = [queue EXCEPT ![j] = @ - 1]
        /\ UNCHANGED <<fmt, request, found, live, job, raced, refused>>
    BY ReceiveFrame
  <1>2. \A v \in Worker, k \in Job : WorksOn(v, k)' => WorksOn(v, k) \/ k = j
    BY ReceiveFrame DEF WorksOn
  <1>3. \A k \in Job : Outstanding(k)' => Outstanding(k)
    BY <1>1, <1>2 DEF Outstanding, TypeOK
  <1>4. \A f, k : k \in Current(f)' => k \in Current(f)
    BY <1>1 DEF Current
  <1> QED
    BY <1>1, <1>3, <1>4, RequestQuiet

(* An export that becomes ready was the only job of its format on its way, *)
(* and its request has marked the export it replaces.                      *)
LEMMA RequestRun ==
  ASSUME TypeOK, RowInv, RequestInv, NEW w \in Worker, RunStep(w) \/ WorkerCrash(w)
  PROVE  RequestInv'
  <1>1. /\ task[w] \in Job /\ WorksOn(w, task[w])
        /\ UNCHANGED <<fmt, request, found, live, queue, raced, refused>>
    BY RunFrame DEF WorksOn
  <1>2. Outstanding(task[w]) /\ found[task[w]] = NoJob
    BY <1>1 DEF Outstanding, RowInv
  <1>3. \A k \in Job : Outstanding(k)' => Outstanding(k)
    BY <1>1, RunKeepsWork DEF Outstanding
  <1>4. \A f, k : k \in Current(f)' => k \in Job /\ (k \in Current(f) \/ k = task[w])
    BY <1>1, RunJob DEF Current, TypeOK
  <1> QED
    BY <1>1, <1>2, <1>3, <1>4, NoJobAssumption DEF RequestInv

LEMMA RequestStepInv == TypeOK /\ RowInv /\ RequestInv /\ [Next]_vars => RequestInv'
  <1> SUFFICES ASSUME TypeOK, RowInv, RequestInv, [Next]_vars PROVE RequestInv'
    OBVIOUS
  <1>1. CASE UNCHANGED vars
    BY <1>1 DEF RequestInv, Outstanding, Current, WorksOn, vars, requestVars, jobVars,
                brokerVars, workerVars, historyVars
  <1>2. ASSUME NEW j \in Job, JobStep(j) PROVE RequestInv'
    BY <1>2, RequestJob, RequestOther DEF JobStep
  <1>3. CASE StatementStep \/ \E f \in Format : AnswerExisting(f) \/ LookupFails(f)
    BY <1>3, RequestOther
  <1>4. ASSUME NEW w \in Worker, NEW j \in Job, Receive(w, j) PROVE RequestInv'
    BY <1>4, RequestReceive
  <1>5. ASSUME NEW w \in Worker, RunStep(w) \/ WorkerCrash(w) PROVE RequestInv'
    BY <1>5, RequestRun
  <1> QED
    BY <1>1, <1>2, <1>3, <1>4, <1>5 DEF Next

(* Without overlap there is one export of a format to reuse, and no        *)
(* request for it fails.                                                   *)
THEOREM SerialExportsCorrect == Spec => []SerialExportsDoNotDuplicate
  <1>1. Init => TypeOK /\ RowInv /\ RequestInv
    BY TypeInit, RowInit, RequestInit
  <1>2. TypeOK /\ RowInv /\ RequestInv /\ [Next]_vars => TypeOK' /\ RowInv' /\ RequestInv'
    BY TypeStep, RowStep, RequestStepInv
  <1>3. TypeOK /\ RequestInv => SerialExportsDoNotDuplicate
    BY CurrentIsOne DEF SerialExportsDoNotDuplicate, RequestInv
  <1> QED
    BY <1>1, <1>2, <1>3, PTL DEF Spec

-----------------------------------------------------------------------------
(* A job is decided or somebody is at work on it.                          *)

SettleInv == CopyInv /\ UnsettledIsOutstanding

LEMMA SettleInit == Init => SettleInv
  BY DEF Init, SettleInv, CopyInv, UnsettledIsOutstanding

(* A commit that changes the status of the copy gives it to the row.       *)
LEMMA CommitDecides ==
  ASSUME TypeOK, NEW w \in Worker, pc[w] # "idle", NEW new \in Columns,
         new.status # copy[w].status, Commit(w, new)
  PROVE  job'[task[w]].status = new.status
  <1>1. task[w] \in Job /\ job \in [Job -> Columns]
    BY DEF TypeOK
  <1>2. job' = [job EXCEPT ![task[w]] = Flushed(w, new)]
    BY DEF Commit
  <1>3. Flushed(w, new).status = new.status
    BY DEF Flushed, Written
  <1> QED
    BY <1>1, <1>2, <1>3

(* A run that ends by itself leaves its job READY or FAILED, or deleted.   *)
LEMMA RunDecides ==
  ASSUME TypeOK, CopyInv, NEW w \in Worker, RunStep(w)
  PROVE  \/ pc'[w] # "idle" /\ task'[w] = task[w]
         \/ task[w] \notin live
         \/ job'[task[w]].status \in {"READY", "FAILED"}
  <1>0. pc[w] # "idle" /\ task[w] \in Job /\ copy[w] \in Columns /\ job \in [Job -> Columns]
    BY RunFrame DEF TypeOK
  <1>1. CASE ReuseFile(w)
    <2> DEFINE e == IF copy[w].expires = "null" THEN "future" ELSE copy[w].expires
               new == [copy[w] EXCEPT !.status = "READY", !.expires = e]
    <2>1. new \in Columns
      <3>1. e \in {"null", "future", "past"} /\ "READY" \in JobStatus
        BY <1>0 DEF Columns, JobStatus
      <3> QED
        BY <1>0, <3>1, NewCopyType
    <2>2. new.status = "READY" /\ copy[w].status # "READY" /\ Commit(w, new)
      BY <1>0, <1>1 DEF ReuseFile, Columns, CopyInv
    <2> HIDE DEF new
    <2> QED
      BY <1>0, <2>1, <2>2, CommitDecides
  <1>2. CASE RenderFails(w)
    <2> DEFINE new == [copy[w] EXCEPT !.status = "FAILED"]
    <2>1. new \in Columns
      BY <1>0, NewCopyType DEF JobStatus
    <2>2. new.status = "FAILED" /\ copy[w].status # "FAILED" /\ Commit(w, new)
      BY <1>0, <1>2 DEF RenderFails, Columns, CopyInv
    <2> HIDE DEF new
    <2> QED
      BY <1>0, <2>1, <2>2, CommitDecides
  <1>3. CASE FinishExport(w)
    BY <1>0, <1>3 DEF FinishExport
  <1>4. CASE RunFindsNoRow(w)
    BY <1>4 DEF RunFindsNoRow
  <1>5. CASE StartRender(w) \/ WriteFile(w)
    BY <1>5 DEF StartRender, WriteFile, TypeOK
  <1> QED
    BY <1>1, <1>2, <1>3, <1>4, <1>5 DEF RunStep

LEMMA CopyStep == TypeOK /\ CopyInv /\ [Next]_vars => CopyInv'
  <1> SUFFICES ASSUME TypeOK, CopyInv, [Next]_vars PROVE CopyInv'
    OBVIOUS
  <1>1. CASE UNCHANGED vars \/ OtherStep
    BY <1>1, OtherWorker DEF CopyInv, vars, workerVars
  <1>2. ASSUME NEW w \in Worker, NEW j \in Job, Receive(w, j) PROVE CopyInv'
    BY <1>2, ReceiveFrame DEF CopyInv
  <1>3. ASSUME NEW w \in Worker, RunStep(w) \/ WorkerCrash(w) PROVE CopyInv'
    <2>1. /\ pc'[w] \notin {"start", "reuse"}
          /\ pc'[w] = "rendering" => copy'[w].status = "RUNNING"
      <3>1. CASE StartRender(w)
        BY <3>1 DEF StartRender, TypeOK, Columns
      <3>2. CASE WriteFile(w)
        BY <3>2 DEF WriteFile, TypeOK
      <3>3. CASE ReuseFile(w) \/ RenderFails(w) \/ FinishExport(w) \/ RunFindsNoRow(w)
                 \/ WorkerCrash(w)
        BY <3>3 DEF ReuseFile, RenderFails, FinishExport, RunFindsNoRow, WorkerCrash, Stop, TypeOK
      <3> QED
        BY <1>3, <3>1, <3>2, <3>3 DEF RunStep
    <2>2. \A v \in Worker \ {w} : pc'[v] = pc[v] /\ copy'[v] = copy[v]
      BY <1>3, RunFrame
    <2> QED
      BY <2>1, <2>2 DEF CopyInv
  <1> QED
    BY <1>1, <1>2, <1>3, NextCases

(* Without failures no step of a request takes a job off its way, and a    *)
(* row that appears is one whose message comes next.                       *)
LEMMA OtherKeepsOutstanding ==
  ASSUME TypeOK, ~MayFail, OtherStep, NEW k \in Job,
         k \in live' \ live \/ (k \in live /\ request[k] # "inserting" /\ Outstanding(k))
  PROVE  Outstanding(k)'
  <1> USE DEF requestVars, jobVars, brokerVars
  <1>1. \A v \in Worker : WorksOn(v, k)' <=> WorksOn(v, k)
    BY OtherWorker, WorkFrame
  <1>2. ASSUME NEW j \in Job, Lookup(j) PROVE Outstanding(k)'
    BY <1>1, <1>2 DEF Lookup, Outstanding, TypeOK
  <1>3. ASSUME NEW j \in Job, CreateExport(j) PROVE Outstanding(k)'
    BY <1>1, <1>3 DEF CreateExport, Outstanding, TypeOK
  <1>4. ASSUME NEW j \in Job, CreateFindsNoRow(j) PROVE Outstanding(k)'
    BY <1>1, <1>4 DEF CreateFindsNoRow, Outstanding, TypeOK
  <1>5. ASSUME NEW j \in Job, Enqueue(j) PROVE Outstanding(k)'
    BY <1>1, <1>5 DEF Enqueue, Outstanding, TypeOK
  <1>6. ASSUME NEW j \in Job, Redeliver(j) PROVE Outstanding(k)'
    BY <1>1, <1>6 DEF Redeliver, Outstanding, TypeOK
  <1>7. ASSUME NEW j \in Job,
               Expire(j) \/ Download(j) \/ DeleteExport(j) \/ DeleteExportCommit(j)
        PROVE  Outstanding(k)'
    <2>1. request' = request /\ queue' = queue /\ live' \subseteq live
      BY <1>7 DEF Expire, Download, DeleteExport, DeleteExportCommit
    <2> QED
      BY <1>1, <2>1 DEF Outstanding
  <1>8. CASE StatementStep \/ \E f \in Format : AnswerExisting(f) \/ LookupFails(f)
    <2>1. request' = request /\ queue' = queue /\ live' \subseteq live
      BY <1>8 DEF StatementStep, DeleteStatement, DeleteStatementCommit, Unlink,
                  DeleteStatementFails, PatchStatus, SetIgnored, AnswerExisting, LookupFails, vars
    <2> QED
      BY <1>1, <2>1 DEF Outstanding
  <1> QED
    BY <1>2, <1>3, <1>4, <1>5, <1>6, <1>7, <1>8
       DEF OtherStep, JobStep, RequestStep, CreateFails, Wipe, DeleteExportFails

(* The steps of others change the status of a job to FAILED or not at all. *)
LEMMA OtherStatus ==
  ASSUME TypeOK, OtherStep, NEW k \in Job
  PROVE  job'[k].status \in {job[k].status, "FAILED"}
  <1> USE DEF jobVars, vars
  <1>0. job[k] \in Columns
    BY DEF TypeOK
  <1>1. ASSUME NEW j \in Job, CreateExport(j) PROVE job'[k].status \in {job[k].status, "FAILED"}
    BY <1>0, <1>1 DEF CreateExport, Columns
  <1>2. ASSUME NEW j \in Job, Expire(j) PROVE job'[k].status = job[k].status
    BY <1>0, <1>2 DEF Expire, TypeOK, Columns
  <1>3. ASSUME NEW j \in Job, JobStep(j), ~CreateExport(j), ~Expire(j) PROVE job' = job
    BY <1>3 DEF JobStep, Lookup, RequestStep, CreateFindsNoRow, Enqueue, CreateFails,
                Redeliver, Wipe, Download, DeleteExport, DeleteExportCommit, DeleteExportFails
  <1>4. ASSUME StatementStep \/ \E f \in Format : AnswerExisting(f) \/ LookupFails(f)
        PROVE  job' = job
    BY <1>4 DEF AnswerExisting, LookupFails, StatementStep, DeleteStatement,
                DeleteStatementCommit, Unlink, DeleteStatementFails, PatchStatus, SetIgnored
  <1> QED
    BY <1>1, <1>2, <1>3, <1>4 DEF OtherStep

LEMMA SettleStep == TypeOK /\ RowInv /\ SettleInv /\ [Next]_vars => SettleInv'
  <1> SUFFICES ASSUME TypeOK, RowInv, SettleInv, [Next]_vars PROVE SettleInv'
    OBVIOUS
  <1>0. CopyInv'
    BY CopyStep DEF SettleInv
  <1> SUFFICES ASSUME ~MayFail, NEW k \in Job, k \in live',
                      job'[k].status \notin {"READY", "FAILED"}
               PROVE  Outstanding(k)'
    <2>1. TypeOK'
      BY TypeStep
    <2> QED
      BY <1>0, <2>1 DEF SettleInv, UnsettledIsOutstanding, TypeOK
  <1>1. CASE UNCHANGED vars
    BY <1>1, SameOutstanding DEF SettleInv, UnsettledIsOutstanding, vars, requestVars, jobVars, brokerVars
  <1>2. CASE OtherStep
    <2>1. k \in live => job[k].status \notin {"READY", "FAILED"} /\ request[k] # "inserting"
      BY <1>2, OtherStatus DEF RowInv
    <2>2. k \in live => Outstanding(k)
      BY <2>1 DEF SettleInv, UnsettledIsOutstanding
    <2> QED
      BY <1>2, <2>1, <2>2, OtherKeepsOutstanding
  <1>3. ASSUME NEW w \in Worker, NEW j \in Job, Receive(w, j) PROVE Outstanding(k)'
    <2>1. /\ queue[j] > 0 /\ queue' = [queue EXCEPT ![j] = @ - 1]
          /\ UNCHANGED <<request, live, job>>
      BY <1>3, ReceiveFrame
    <2>2. Outstanding(k)
      BY <2>1 DEF SettleInv, UnsettledIsOutstanding
    <2>3. CASE k = j
      <3>1. WorksOn(w, j)'
        BY <1>3, <2>1, <2>3 DEF Receive, WorksOn, TypeOK
      <3> QED
        BY <2>3, <3>1 DEF Outstanding
    <2>4. CASE k # j
      <3>1. queue'[k] = queue[k]
        BY <2>1, <2>4 DEF TypeOK
      <3>2. \A v \in Worker : WorksOn(v, k) => WorksOn(v, k)'
        BY <1>3, ReceiveFrame DEF WorksOn
      <3> QED
        BY <2>1, <2>2, <3>1, <3>2 DEF Outstanding
    <2> QED
      BY <2>3, <2>4
  <1>4. ASSUME NEW w \in Worker, RunStep(w) PROVE Outstanding(k)'
    <2>1. UNCHANGED <<request, live, queue>> /\ \A v \in Worker \ {w} : WorksOn(v, k) => WorksOn(v, k)'
      BY <1>4, RunFrame DEF WorksOn
    <2>2. CASE k = task[w]
      <3>1. pc'[w] # "idle" /\ task'[w] = task[w]
        BY <1>4, <2>1, <2>2, RunDecides DEF SettleInv
      <3> QED
        BY <2>2, <3>1 DEF Outstanding, WorksOn
    <2>3. CASE k # task[w]
      <3>1. job'[k] = job[k]
        BY <1>4, <2>3, RunJob
      <3>2. Outstanding(k)
        BY <2>1, <3>1 DEF SettleInv, UnsettledIsOutstanding
      <3> QED
        BY <2>1, <2>3, <3>2 DEF Outstanding, WorksOn
    <2> QED
      BY <2>2, <2>3
  <1>5. ASSUME NEW w \in Worker, WorkerCrash(w) PROVE FALSE
    BY <1>5 DEF WorkerCrash
  <1> QED
    BY <1>1, <1>2, <1>3, <1>4, <1>5, NextCases

(* Without crashes no job is left PENDING or RUNNING with no request,      *)
(* message or run to decide it, however deliveries overlap: what is left   *)
(* of EveryExportSettles is that requests, messages and runs go on.        *)
THEOREM UnsettledIsOutstandingCorrect == Spec => []UnsettledIsOutstanding
  <1>1. Init => TypeOK /\ RowInv /\ SettleInv
    BY TypeInit, RowInit, SettleInit
  <1>2. TypeOK /\ RowInv /\ SettleInv /\ [Next]_vars => TypeOK' /\ RowInv' /\ SettleInv'
    BY TypeStep, RowStep, SettleStep
  <1>3. SettleInv => UnsettledIsOutstanding
    BY DEF SettleInv
  <1> QED
    BY <1>1, <1>2, <1>3, PTL DEF Spec

(* The whole inductive invariant.                                          *)
THEOREM IInvCorrect == Spec => []IInv
  <1>1. Init => IInv
    BY TypeInit, RowInit, ReadyInit, SerialInit, RequestInit, FilesInit, SettleInit
       DEF IInv, ReadyInv, FilesInv, SettleInv
  <1>2. IInv /\ [Next]_vars => IInv'
    BY TypeStep, RowStep, ReadyStep, SerialStep, RequestStepInv, FilesStep, SettleStep
       DEF IInv, ReadyInv, FilesInv, SettleInv
  <1> QED
    BY <1>1, <1>2, PTL DEF Spec
=============================================================================
