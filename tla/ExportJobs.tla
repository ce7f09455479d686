----------------------------- MODULE ExportJobs -----------------------------
(***************************************************************************)
(* The exports of one statement: the request that reuses a finished export *)
(* or creates a job, the download and the deletion of an export            *)
(* (statements/export_router.py), the task that renders the file           *)
(* (export_statement_job, statements/processing.py), and what the user may *)
(* do to the statement meanwhile (statements/router.py).  Statements share *)
(* no export state, so one is enough.                                      *)
(*                                                                         *)
(* A step is one database commit, one group of reads, or one file          *)
(* operation of one process.  As in StatementParsing, a session keeps the  *)
(* rows it loaded and an UPDATE holds the columns whose value in the       *)
(* session changed.                                                        *)
(***************************************************************************)
EXTENDS Integers, FiniteSets

CONSTANTS
    Job,            \* export ids, one for each request that creates a job
    Format,         \* export formats
    Worker,         \* Celery worker processes
    Row,            \* transactions of the statement
    NoJob,          \* "no job": what an idle worker works on
    PatchChoice,    \* statuses the user sets through PATCH .../status
    MaxDeliveries,  \* bound: deliveries of one task, duplicates included
    MayFail         \* BOOLEAN: processes crash, a disk is wiped, a commit fails

StatementStatus == {"UPLOADED", "PARSING", "OCR", "READY_FOR_REVIEW",
                    "REVIEWED", "EXPORTED", "FAILED", "PARSE_ERROR"}
READY_STATUSES == {"READY_FOR_REVIEW", "REVIEWED", "EXPORTED"}
JobStatus == {"PENDING", "RUNNING", "READY", "FAILED"}

ASSUME NoJobAssumption == NoJob \notin Job
ASSUME PatchAssumption == PatchChoice \subseteq StatementStatus
ASSUME BoundAssumption == MaxDeliveries \in Nat \ {0} /\ MayFail \in BOOLEAN

(* The columns of an export job: path says that file_path is set (the name *)
(* of the file is determined by the job), expires is expires_at.           *)
Columns == [status : JobStatus, path : BOOLEAN,
            expires : {"null", "future", "past"}]
Pending == [status |-> "PENDING", path |-> FALSE, expires |-> "null"]

VARIABLES
    stored,     \* the statement row exists
    status,     \* its status column
    ignored,    \* transactions the user marked as ignored
    fmt,        \* the format each request asks for
    request,    \* progress of each request that may create a job
    found,      \* the READY job whose file is missing, found by the request
    live,       \* jobs whose database row exists
    job,        \* columns of the job rows
    file,       \* jobs whose export file is on disk
    removing,   \* jobs a delete request is about to delete
    deletion,   \* progress of the deletion of the statement
    doomed,     \* jobs whose file the deletion of the statement removes
    queue,      \* messages of each job's task waiting in the broker
    sent,       \* messages of each job's task ever put in the broker
    pc,         \* what each worker is about to do
    task,       \* the job each worker works on
    copy,       \* the session's copy of the job row
    seen,       \* the session's copy of the statement's status
    served,     \* the transactions in the last download
    patched,    \* history: the user has set the statement's status
    doubled,    \* history: jobs whose runs overlapped
    raced,      \* history: formats with requests or tasks that overlapped
    refused,    \* history: formats for which a request could not be answered
    lost,       \* history: jobs whose file was removed and not yet missed
    stray       \* history: jobs whose file the rows may not know of

statementVars == <<stored, status, ignored, deletion, doomed>>
requestVars   == <<request, found>>
jobVars       == <<live, job, removing>>
brokerVars    == <<queue, sent>>
workerVars    == <<pc, task, copy, seen>>
historyVars   == <<patched, doubled, raced, refused, lost, stray>>
vars == <<statementVars, fmt, requestVars, jobVars, file, brokerVars,
          workerVars, served, historyVars>>

RequestState == {"new", "inserting", "enqueue", "done", "error"}
DeletionState == {"none", "begun", "unlinking", "done"}
WorkerState == {"idle", "reuse", "start", "rendering", "written"}

TypeOK ==
    /\ stored \in BOOLEAN
    /\ status \in StatementStatus
    /\ ignored \subseteq Row
    /\ fmt \in [Job -> Format]
    /\ request \in [Job -> RequestState]
    /\ found \in [Job -> Job \cup {NoJob}]
    /\ live \subseteq Job
    /\ job \in [Job -> Columns]
    /\ file \subseteq Job
    /\ removing \subseteq Job
    /\ deletion \in DeletionState
    /\ doomed \subseteq Job
    /\ queue \in [Job -> Nat]
    /\ sent \in [Job -> Nat]
    /\ pc \in [Worker -> WorkerState]
    /\ task \in [Worker -> Job \cup {NoJob}]
    /\ \A w \in Worker : pc[w] # "idle" => task[w] \in Job
    /\ copy \in [Worker -> Columns]
    /\ seen \in [Worker -> StatementStatus]
    /\ served \subseteq Row
    /\ patched \in BOOLEAN
    /\ doubled \subseteq Job
    /\ raced \subseteq Format
    /\ refused \subseteq Format
    /\ lost \subseteq Job
    /\ stray \subseteq Job

Init ==
    /\ stored = TRUE
    /\ status = "READY_FOR_REVIEW"
    /\ ignored = {}
    /\ fmt \in [Job -> Format]
    /\ request = [j \in Job |-> "new"]
    /\ found = [j \in Job |-> NoJob]
    /\ live = {}
    /\ job = [j \in Job |-> Pending]
    /\ file = {}
    /\ removing = {}
    /\ deletion = "none"
    /\ doomed = {}
    /\ queue = [j \in Job |-> 0]
    /\ sent = [j \in Job |-> 0]
    /\ pc = [w \in Worker |-> "idle"]
    /\ task = [w \in Worker |-> NoJob]
    /\ copy = [w \in Worker |-> Pending]
    /\ seen = [w \in Worker |-> "READY_FOR_REVIEW"]
    /\ served = {}
    /\ patched = FALSE
    /\ doubled = {}
    /\ raced = {}
    /\ refused = {}
    /\ lost = {}
    /\ stray = {}

WorksOn(w, j) == pc[w] # "idle" /\ task[w] = j

(* A request, a message or a run of job j is on its way.                   *)
Outstanding(j) ==
    \/ request[j] \in {"inserting", "enqueue"}
    \/ queue[j] > 0
    \/ \E w \in Worker : WorksOn(w, j)

(* The exports of format f that can be downloaded.                         *)
Current(f) == {j \in live : fmt[j] = f /\ job[j].status = "READY" /\ job[j].expires = "future"}

-----------------------------------------------------------------------------
(* Sessions of the export task.                                            *)

Stop(w) ==
    /\ pc' = [pc EXCEPT ![w] = "idle"]
    /\ task' = [task EXCEPT ![w] = NoJob]
    /\ copy' = [copy EXCEPT ![w] = Pending]
    /\ seen' = [seen EXCEPT ![w] = "READY_FOR_REVIEW"]

(* The job row after a flush of the copy "new": each column on its own.    *)
Written(new, old, row) == IF new = old THEN row ELSE new
Flushed(w, new) ==
    LET old == copy[w]
        row == job[task[w]]
    IN  [status |-> Written(new.status, old.status, row.status),
         path |-> Written(new.path, old.path, row.path),
         expires |-> Written(new.expires, old.expires, row.expires)]

(* A commit of the copy; one without a change does not look for the row.   *)
Commit(w, new) ==
    IF new = copy[w]
    THEN UNCHANGED job
    ELSE /\ task[w] \in live
         /\ job' = [job EXCEPT ![task[w]] = Flushed(w, new)]

(* stmt.status = "EXPORTED" in the same commit.                            *)
MarkExported(w) == status' = IF seen[w] = "EXPORTED" THEN status ELSE "EXPORTED"

-----------------------------------------------------------------------------
(* Mutations: plausible bugs, each in place of one action below, that show *)
(* which property notices them.                                            *)

(* The job whose file is missing is not marked FAILED.                     *)
CreateExportKeepsFound(j) ==
    /\ request[j] = "inserting"
    /\ stored
    /\ request' = [request EXCEPT ![j] = "enqueue"]
    /\ found' = [found EXCEPT ![j] = NoJob]
    /\ live' = live \cup {j}
    /\ UNCHANGED <<statementVars, fmt, job, removing, file, brokerVars, workerVars,
                   served, historyVars>>

(* A retry trusts the file_path of the row.                                *)
ReceiveTrustsPath(w, j) ==
    /\ pc[w] = "idle"
    /\ queue[j] > 0
    /\ queue' = [queue EXCEPT ![j] = @ - 1]
    /\ IF j \in live /\ job[j].status # "READY"
       THEN /\ pc' = [pc EXCEPT ![w] = IF job[j].path THEN "reuse" ELSE "start"]
            /\ task' = [task EXCEPT ![w] = j]
            /\ copy' = [copy EXCEPT ![w] = job[j]]
            /\ seen' = [seen EXCEPT ![w] = status]
            /\ doubled' = IF \E v \in Worker : WorksOn(v, j) THEN doubled \cup {j} ELSE doubled
       ELSE UNCHANGED <<workerVars, doubled>>
    /\ UNCHANGED <<statementVars, fmt, requestVars, jobVars, file, sent, served,
                   patched, refused, raced, lost, stray>>

(* A retry renders a READY export again.                                   *)
ReceiveAgain(w, j) ==
    /\ pc[w] = "idle"
    /\ queue[j] > 0
    /\ queue' = [queue EXCEPT ![j] = @ - 1]
    /\ IF j \in live
       THEN /\ pc' = [pc EXCEPT ![w] = "start"]
            /\ task' = [task EXCEPT ![w] = j]
            /\ copy' = [copy EXCEPT ![w] = job[j]]
            /\ seen' = [seen EXCEPT ![w] = status]
            /\ doubled' = IF \E v \in Worker : WorksOn(v, j) THEN doubled \cup {j} ELSE doubled
       ELSE UNCHANGED <<workerVars, doubled>>
    /\ UNCHANGED <<statementVars, fmt, requestVars, jobVars, file, sent, served,
                   patched, refused, raced, lost, stray>>

(* The failure is logged and not committed.                                *)
RenderFailsSilently(w) ==
    /\ pc[w] = "rendering"
    /\ Stop(w)
    /\ UNCHANGED <<statementVars, fmt, requestVars, jobVars, file, brokerVars,
                   served, historyVars>>

(* A status that is not one of the job's.                                  *)
RenderFailsUnknownStatus(w) ==
    /\ pc[w] = "rendering"
    /\ Commit(w, [copy[w] EXCEPT !.status = "ERROR"])
    /\ Stop(w)
    /\ UNCHANGED <<statementVars, fmt, requestVars, live, removing, file,
                   brokerVars, served, historyVars>>

(* The status of the statement is left for a later commit.                 *)
FinishExportOnly(w) ==
    /\ pc[w] = "written"
    /\ task[w] \in live
    /\ job' = [job EXCEPT ![task[w]] =
                  [status |-> "READY", path |-> TRUE, expires |-> "future"]]
    /\ Stop(w)
    /\ UNCHANGED <<statementVars, fmt, requestVars, live, removing, file,
                   brokerVars, served, historyVars>>

(* Only the uploaded file is removed with the statement.                   *)
DeleteStatementKeepsExports ==
    /\ stored
    /\ deletion = "none"
    /\ deletion' = "begun"
    /\ stray' = stray \cup {j \in Job : Outstanding(j)}
    /\ UNCHANGED <<stored, status, ignored, doomed, fmt, requestVars, jobVars, file,
                   brokerVars, workerVars, served, patched, refused, doubled, raced, lost>>

-----------------------------------------------------------------------------
(* The request for an export.                                              *)

CanAsk == stored /\ status \in READY_STATUSES

(* The answer is an export that is ready: nothing changes.                 *)
AnswerExisting(f) ==
    /\ CanAsk
    /\ \E k \in file : Current(f) = {k}
    /\ UNCHANGED vars

(* Several are ready: scalar_one_or_none raises MultipleResultsFound.      *)
LookupFails(f) ==
    /\ CanAsk
    /\ Cardinality(Current(f)) > 1
    /\ refused' = refused \cup {f}
    /\ UNCHANGED <<statementVars, fmt, requestVars, jobVars, file, brokerVars,
                   workerVars, served, patched, doubled, raced, lost, stray>>

(* No export is ready, or one is and its file is missing.                  *)
Lookup(j) ==
    /\ request[j] = "new"
    /\ CanAsk
    /\ \/ Current(fmt[j]) = {} /\ UNCHANGED found
       \/ \E k \in Job \ file : Current(fmt[j]) = {k} /\ found' = [found EXCEPT ![j] = k]
    /\ request' = [request EXCEPT ![j] = "inserting"]
    /\ raced' = IF \E k \in Job : fmt[k] = fmt[j] /\ Outstanding(k)
                THEN raced \cup {fmt[j]} ELSE raced
    /\ stray' = IF deletion # "none" THEN stray \cup {j} ELSE stray
    /\ UNCHANGED <<statementVars, fmt, jobVars, file, brokerVars, workerVars,
                   served, patched, refused, doubled, lost>>

(* The new job and the FAILED mark of the one found, in one transaction.   *)
CreateExport(j) ==
    /\ request[j] = "inserting"
    /\ stored
    /\ found[j] = NoJob \/ found[j] \in live
    /\ request' = [request EXCEPT ![j] = "enqueue"]
    /\ found' = [found EXCEPT ![j] = NoJob]
    /\ live' = live \cup {j}
    /\ job' = [k \in Job |-> IF k = found[j] THEN [job[k] EXCEPT !.status = "FAILED"] ELSE job[k]]
    /\ lost' = {k \in lost : k = found[j] => \E w \in Worker : WorksOn(w, k)}
    /\ UNCHANGED <<statementVars, fmt, removing, file, brokerVars, workerVars,
                   served, patched, refused, doubled, raced, stray>>

(* The statement or the job found is gone: the transaction is rolled back. *)
CreateFindsNoRow(j) ==
    /\ request[j] = "inserting"
    /\ ~stored \/ (found[j] # NoJob /\ found[j] \notin live)
    /\ request' = [request EXCEPT ![j] = "error"]
    /\ found' = [found EXCEPT ![j] = NoJob]
    /\ UNCHANGED <<statementVars, fmt, jobVars, file, brokerVars, workerVars,
                   served, historyVars>>

(* export_statement_task.delay(...), after the commit.                     *)
Enqueue(j) ==
    /\ request[j] = "enqueue"
    /\ request' = [request EXCEPT ![j] = "done"]
    /\ queue' = [queue EXCEPT ![j] = @ + 1]
    /\ sent' = [sent EXCEPT ![j] = @ + 1]
    /\ UNCHANGED <<statementVars, fmt, found, jobVars, file, workerVars,
                   served, historyVars>>

(* The process dies, or the commit or delay() raises: a job that was       *)
(* committed stays PENDING without a task.                                 *)
CreateFails(j) ==
    /\ MayFail
    /\ request[j] \in {"inserting", "enqueue"}
    /\ request' = [request EXCEPT ![j] = "error"]
    /\ found' = [found EXCEPT ![j] = NoJob]
    /\ UNCHANGED <<statementVars, fmt, jobVars, file, brokerVars, workerVars,
                   served, historyVars>>

(* The broker delivers a message once more.                                *)
Redeliver(j) ==
    /\ sent[j] \in 1..(MaxDeliveries - 1)
    /\ queue' = [queue EXCEPT ![j] = @ + 1]
    /\ sent' = [sent EXCEPT ![j] = @ + 1]
    /\ raced' = IF \E k \in Job \ {j} : fmt[k] = fmt[j] /\ request[k] # "new"
                THEN raced \cup {fmt[j]} ELSE raced
    /\ stray' = IF j \in removing \/ deletion # "none" THEN stray \cup {j} ELSE stray
    /\ UNCHANGED <<statementVars, fmt, requestVars, jobVars, file, workerVars,
                   served, patched, refused, doubled, lost>>

-----------------------------------------------------------------------------
(* The export task.                                                        *)

(* The task loads the job and the statement.  A READY job, or a row that   *)
(* is gone, ends the run; a file that is there already is reused.          *)
Receive(w, j) ==
    /\ pc[w] = "idle"
    /\ queue[j] > 0
    /\ queue' = [queue EXCEPT ![j] = @ - 1]
    /\ IF j \in live /\ job[j].status # "READY"
       THEN /\ pc' = [pc EXCEPT ![w] = IF job[j].path /\ j \in file THEN "reuse" ELSE "start"]
            /\ task' = [task EXCEPT ![w] = j]
            /\ copy' = [copy EXCEPT ![w] = job[j]]
            /\ seen' = [seen EXCEPT ![w] = status]
            /\ doubled' = IF \E v \in Worker : WorksOn(v, j) THEN doubled \cup {j} ELSE doubled
       ELSE UNCHANGED <<workerVars, doubled>>
    /\ UNCHANGED <<statementVars, fmt, requestVars, jobVars, file, sent, served,
                   patched, refused, raced, lost, stray>>

(* The file of an earlier run: the job becomes READY again.                *)
ReuseFile(w) ==
    /\ pc[w] = "reuse"
    /\ Commit(w, [copy[w] EXCEPT !.status = "READY",
                                 !.expires = IF @ = "null" THEN "future" ELSE @])
    /\ MarkExported(w)
    /\ Stop(w)
    /\ UNCHANGED <<stored, ignored, deletion, doomed, fmt, requestVars, live,
                   removing, file, brokerVars, served, historyVars>>

StartRender(w) ==
    LET new == [copy[w] EXCEPT !.status = "RUNNING"]
    IN  /\ pc[w] = "start"
        /\ Commit(w, new)
        /\ pc' = [pc EXCEPT ![w] = "rendering"]
        /\ copy' = [copy EXCEPT ![w] = new]
        /\ UNCHANGED <<statementVars, fmt, requestVars, live, removing, file,
                       brokerVars, task, seen, served, historyVars>>

(* The content is built from the transactions and written to disk.         *)
WriteFile(w) ==
    /\ pc[w] = "rendering"
    /\ pc' = [pc EXCEPT ![w] = "written"]
    /\ file' = file \cup {task[w]}
    /\ lost' = lost \ {task[w]}
    /\ UNCHANGED <<statementVars, fmt, requestVars, jobVars, brokerVars, task,
                   copy, seen, served, patched, refused, doubled, raced, stray>>

RenderFails(w) ==
    /\ pc[w] = "rendering"
    /\ Commit(w, [copy[w] EXCEPT !.status = "FAILED"])
    /\ Stop(w)
    /\ UNCHANGED <<statementVars, fmt, requestVars, live, removing, file,
                   brokerVars, served, historyVars>>

FinishExport(w) ==
    /\ pc[w] = "written"
    /\ task[w] \in live
    /\ job' = [job EXCEPT ![task[w]] =
                  [status |-> "READY", path |-> TRUE, expires |-> "future"]]
    /\ MarkExported(w)
    /\ Stop(w)
    /\ UNCHANGED <<stored, ignored, deletion, doomed, fmt, requestVars, live,
                   removing, file, brokerVars, served, historyVars>>

(* An UPDATE of the session finds no row: StaleDataError ends the run.     *)
RunFindsNoRow(w) ==
    /\ pc[w] # "idle"
    /\ pc[w] = "start" => copy[w].status # "RUNNING"
    /\ task[w] \notin live
    /\ Stop(w)
    /\ UNCHANGED <<statementVars, fmt, requestVars, jobVars, file, brokerVars,
                   served, historyVars>>

(* The worker is killed; its message is acknowledged already.              *)
WorkerCrash(w) ==
    /\ MayFail
    /\ pc[w] # "idle"
    /\ stray' = IF pc[w] = "written" THEN stray \cup {task[w]} ELSE stray
    /\ Stop(w)
    /\ UNCHANGED <<statementVars, fmt, requestVars, jobVars, file, brokerVars,
                   served, patched, refused, doubled, raced, lost>>

-----------------------------------------------------------------------------
(* Time and the disk.                                                      *)

(* EXPORT_TTL_HOURS pass.                                                  *)
Expire(j) ==
    /\ j \in live
    /\ job[j].expires = "future"
    /\ job' = [job EXCEPT ![j].expires = "past"]
    /\ UNCHANGED <<statementVars, fmt, requestVars, live, removing, file,
                   brokerVars, workerVars, served, historyVars>>

(* A container restart takes the file away.                                *)
Wipe(j) ==
    /\ MayFail
    /\ j \in file
    /\ file' = file \ {j}
    /\ lost' = lost \cup {j}
    /\ UNCHANGED <<statementVars, fmt, requestVars, jobVars, brokerVars,
                   workerVars, served, patched, refused, doubled, raced, stray>>

-----------------------------------------------------------------------------
(* The user's other requests.                                              *)

(* The answer is built from the transactions, not read from the file; no   *)
(* transaction is left out.                                                *)
Download(j) ==
    /\ j \in live
    /\ job[j].status = "READY"
    /\ job[j].expires # "past"
    /\ served' = Row
    /\ UNCHANGED <<statementVars, fmt, requestVars, jobVars, file, brokerVars,
                   workerVars, historyVars>>

(* The file is removed before the row is deleted.                          *)
DeleteExport(j) ==
    /\ j \in live
    /\ removing' = removing \cup {j}
    /\ file' = IF job[j].path THEN file \ {j} ELSE file
    /\ lost' = IF job[j].path THEN lost \cup {j} ELSE lost
    /\ stray' = IF Outstanding(j) THEN stray \cup {j} ELSE stray
    /\ UNCHANGED <<statementVars, fmt, requestVars, live, job, brokerVars,
                   workerVars, served, patched, refused, doubled, raced>>

DeleteExportCommit(j) ==
    /\ j \in removing
    /\ removing' = removing \ {j}
    /\ live' = live \ {j}
    /\ UNCHANGED <<statementVars, fmt, requestVars, job, file, brokerVars,
                   workerVars, served, historyVars>>

DeleteExportFails(j) ==
    /\ MayFail
    /\ j \in removing
    /\ removing' = removing \ {j}
    /\ UNCHANGED <<statementVars, fmt, requestVars, live, job, file, brokerVars,
                   workerVars, served, historyVars>>

(* The deletion of the statement first collects the files to remove.       *)
DeleteStatement ==
    /\ stored
    /\ deletion = "none"
    /\ deletion' = "begun"
    /\ doomed' = {j \in live : job[j].path}
    /\ stray' = stray \cup {j \in Job : Outstanding(j)}
    /\ UNCHANGED <<stored, status, ignored, fmt, requestVars, jobVars, file,
                   brokerVars, workerVars, served, patched, refused, doubled, raced, lost>>

(* The statement, and its jobs with it.                                    *)
DeleteStatementCommit ==
    /\ deletion = "begun"
    /\ deletion' = "unlinking"
    /\ stored' = FALSE
    /\ live' = {}
    /\ UNCHANGED <<status, ignored, doomed, fmt, requestVars, job, removing,
                   file, brokerVars, workerVars, served, historyVars>>

Unlink ==
    /\ deletion = "unlinking"
    /\ deletion' = "done"
    /\ file' = file \ doomed
    /\ UNCHANGED <<stored, status, ignored, doomed, fmt, requestVars, jobVars,
                   brokerVars, workerVars, served, historyVars>>

(* The process dies: before the commit nothing has happened, after it the  *)
(* files stay.                                                             *)
DeleteStatementFails ==
    /\ MayFail
    /\ deletion \in {"begun", "unlinking"}
    /\ deletion' = IF deletion = "begun" THEN "none" ELSE "done"
    /\ stray' = IF deletion = "begun" THEN stray ELSE stray \cup doomed
    /\ UNCHANGED <<stored, status, ignored, doomed, fmt, requestVars, jobVars,
                   file, brokerVars, workerVars, served, patched, refused, doubled, raced, lost>>

PatchStatus(c) ==
    /\ stored
    /\ status' = c
    /\ patched' = TRUE
    /\ UNCHANGED <<stored, ignored, deletion, doomed, fmt, requestVars, jobVars,
                   file, brokerVars, workerVars, served, doubled, refused, raced, lost, stray>>

(* PUT .../transactions/{id} with is_ignored.                              *)
SetIgnored(n, b) ==
    /\ stored
    /\ ignored' = IF b THEN ignored \cup {n} ELSE ignored \ {n}
    /\ UNCHANGED <<stored, status, deletion, doomed, fmt, requestVars, jobVars,
                   file, brokerVars, workerVars, served, historyVars>>

-----------------------------------------------------------------------------
RequestStep(j) == CreateExport(j) \/ CreateFindsNoRow(j) \/ Enqueue(j)

RunStep(w) ==
    \/ ReuseFile(w)
    \/ StartRender(w)
    \/ WriteFile(w)
    \/ RenderFails(w)
    \/ FinishExport(w)
    \/ RunFindsNoRow(w)

JobStep(j) ==
    \/ Lookup(j)
    \/ RequestStep(j)
    \/ CreateFails(j)
    \/ Redeliver(j)
    \/ Expire(j)
    \/ Wipe(j)
    \/ Download(j)
    \/ DeleteExport(j)
    \/ DeleteExportCommit(j)
    \/ DeleteExportFails(j)

StatementStep ==
    \/ DeleteStatement
    \/ DeleteStatementCommit
    \/ Unlink
    \/ DeleteStatementFails
    \/ \E c \in PatchChoice : PatchStatus(c)
    \/ \E n \in Row, b \in BOOLEAN : SetIgnored(n, b)

Next ==
    \/ \E j \in Job : JobStep(j)
    \/ \E w \in Worker : \/ \E j \in Job : Receive(w, j)
                          \/ RunStep(w)
                          \/ WorkerCrash(w)
    \/ \E f \in Format : AnswerExisting(f) \/ LookupFails(f)
    \/ StatementStep

Spec == Init /\ [][Next]_vars

(* A request that has begun and a run go on to their end, a worker takes   *)
(* the next message, a deletion that has begun is finished.                *)
Fairness ==
    /\ \A j \in Job : WF_vars(RequestStep(j)) /\ WF_vars(DeleteExportCommit(j))
    /\ WF_vars(DeleteStatementCommit) /\ WF_vars(Unlink)
    /\ \A w \in Worker :
          /\ WF_vars(\E j \in Job : Receive(w, j))
          /\ WF_vars(RunStep(w))

FairSpec == Spec /\ Fairness
-----------------------------------------------------------------------------
(* Properties.                                                             *)

(* A READY job has its file, unless the disk was wiped or a delete request *)
(* removed it: no crash, duplicate or reuse makes a job READY too early.   *)
ReadyHasFile ==
    \A j \in live : job[j].status = "READY" => job[j].path /\ (j \in file \/ j \in lost)

(* Unless the user has set it otherwise, the status of a statement with a  *)
(* READY export is EXPORTED, whatever happened to the other exports.       *)
ReadyMeansExported ==
    ~patched => \A j \in live : job[j].status = "READY" => stored /\ status = "EXPORTED"

(* Requests that wait for each other's jobs, without late redeliveries,    *)
(* leave one export of each format to reuse, and the next request does not *)
(* fail: through crashes, lost files, expiry and deletion.                 *)
SerialExportsDoNotDuplicate ==
    \A f \in Format \ raced : f \notin refused /\ Cardinality(Current(f)) <= 1

(* An export file belongs to a job that knows it, or a run of that job or  *)
(* the removal of the file is under way: nothing is left on the disk,      *)
(* unless a process died or a deletion overlapped the making of the file.  *)
ExportFilesAreOwned ==
    \A j \in file \ stray :
        \/ j \in live /\ job[j].path
        \/ \E w \in Worker : task[w] = j /\ pc[w] = "written"
        \/ deletion = "unlinking" /\ j \in doomed

(* A job that is READY stays so through any later delivery of its task     *)
(* (the idempotent retry, processing.py 391-403), unless two of its runs   *)
(* overlap: only a request that misses the file, or a deletion, ends it.   *)
ReadyStays ==
    [][\A j \in live :
          job[j].status = "READY" /\ j \notin doubled
          => \/ j \notin live'
             \/ job'[j].status = "READY"
             \/ \E k \in Job : found[k] = j /\ CreateExport(k)]_vars

(* Without crashes every job that was created ends READY or FAILED, or is  *)
(* deleted, however its deliveries overlap.                                *)
EveryExportSettles ==
    \A j \in Job : j \in live ~> j \notin live \/ job[j].status \in {"READY", "FAILED"}

(* The safety side of EveryExportSettles: without crashes a job that is    *)
(* neither READY nor FAILED still has a request, a message or a run that   *)
(* will decide it, so nothing that happens leaves it PENDING or RUNNING    *)
(* with nobody at work on it.                                              *)
UnsettledIsOutstanding ==
    ~MayFail => \A j \in live : job[j].status \in {"READY", "FAILED"} \/ Outstanding(j)

(* "Idempotent exports: re-export does not duplicate" (the product         *)
(* document), and the query of create_export expects no more than one.     *)
OneReadyExport == \A f \in Format : Cardinality(Current(f)) <= 1

(* "Transactions flagged as ignored are excluded from the exported         *)
(* spreadsheets and Tally XML": what a download hands out has none.        *)
DownloadsExcludeIgnored ==
    [][\A j \in Job : Download(j) => served' \cap ignored = {}]_vars
-----------------------------------------------------------------------------
(* The inductive invariant behind the safety properties.                   *)

(* The job of a request that has not been committed does not exist, nor    *)
(* does any job of a deleted statement; only a request that is about to    *)
(* commit remembers a job to mark FAILED.                                  *)
RowInv ==
    /\ ~stored => live = {}
    /\ deletion \in {"unlinking", "done"} => ~stored
    /\ \A j \in Job :
          /\ request[j] \in {"new", "inserting"} =>
                /\ job[j] = Pending
                /\ j \notin live
                /\ j \notin removing
                /\ queue[j] = 0 /\ sent[j] = 0
                /\ \A w \in Worker : ~WorksOn(w, j)
          /\ request[j] # "inserting" => found[j] = NoJob

(* What a session knows of its rows stays true: a path is never taken back,*)
(* a file it has seen or written is there or known to be lost, and without *)
(* a user's status change EXPORTED stays.                                  *)
SessionInv ==
    \A w \in Worker :
        pc[w] # "idle" =>
            /\ copy[w].path => job[task[w]].path
            /\ pc[w] = "reuse" => copy[w].path
            /\ pc[w] \in {"reuse", "written"} /\ task[w] \in live =>
                   task[w] \in file \cup lost
            /\ ~patched /\ seen[w] = "EXPORTED" => status = "EXPORTED"

(* What a run is about to write is a change of its copy, so that the last  *)
(* commit of a run that finds its row decides the job.                     *)
CopyInv ==
    \A w \in Worker :
        /\ pc[w] \in {"start", "reuse"} => copy[w].status # "READY"
        /\ pc[w] = "rendering" => copy[w].status = "RUNNING"

(* Without overlap a job has one run, and the run of a READY job has ended.*)
SerialInv ==
    \A j \in Job \ doubled, w \in Worker :
        WorksOn(w, j) =>
            /\ job[j].status # "READY"
            /\ \A v \in Worker : WorksOn(v, j) => v = w

(* Without overlapping requests one job of a format is on its way, and the *)
(* only other export that is ready is the one it is going to replace.      *)
RequestInv ==
    /\ refused \subseteq raced
    /\ \A j, k \in Job :
          fmt[j] = fmt[k] /\ fmt[j] \notin raced /\ j # k =>
              /\ Outstanding(j) => /\ ~Outstanding(k)
                                   /\ k \in Current(fmt[j]) => found[j] = k
              /\ ~(j \in Current(fmt[j]) /\ k \in Current(fmt[j]))

(* A deletion knows of every file it has to remove, except those of jobs   *)
(* it overlaps with.                                                       *)
DeletionInv ==
    \A j \in Job \ stray :
        /\ j \in removing \/ deletion # "none" => ~Outstanding(j)
        /\ j \notin live => \A w \in Worker : ~WorksOn(w, j)
        /\ j \in removing /\ j \in live => j \notin file
        /\ deletion = "begun" /\ j \in live /\ job[j].path => j \in doomed

IInv ==
    /\ TypeOK
    /\ RowInv
    /\ SessionInv
    /\ CopyInv
    /\ SerialInv
    /\ RequestInv
    /\ DeletionInv
    /\ ReadyHasFile
    /\ ReadyMeansExported
    /\ ExportFilesAreOwned
    /\ UnsettledIsOutstanding
=============================================================================
