-------------------------- MODULE StatementParsing --------------------------
(***************************************************************************)
(* The import pipeline: the upload handler (statements/router.py), the     *)
(* parse task delivered by Celery (statements/tasks.py), the job body that *)
(* runs it (process_statement_job and the automatic enrichment it ends     *)
(* with, statements/processing.py), and the user's requests on a stored    *)
(* statement: a status change, an enrichment job, the deletion.            *)
(*                                                                         *)
(* A step is one database commit, or one lock acquisition, of one process. *)
(* A job keeps the statement row it loaded in its session (expire_on_      *)
(* commit=False) and never reloads it: "snap" is that copy, and a commit   *)
(* writes the whole metadata JSON from the copy, and the status column     *)
(* only when the copy's value changed.                                     *)
(***************************************************************************)
EXTENDS Integers, FiniteSets

CONSTANTS
    Statement,      \* statement ids that may be uploaded
    Worker,         \* Celery worker processes
    RowNo,          \* transaction row numbers
    Reading,        \* the row-number sets a parse of the file can return
    NoStatement,    \* "no statement": what an idle worker works on
    PatchChoice,    \* statuses the user sets through PATCH .../status
    MaxDeliveries,  \* bound: deliveries of one parse task, duplicates included;
                    \* with 1 no message at all is delivered twice
    MaxEnrichments, \* bound: enrichment jobs the users start, for any statement
    MayFail         \* BOOLEAN: processes crash and the broker can be down

FileType == {"pdf", "sheet"}
Status == {"UPLOADED", "PARSING", "OCR", "READY_FOR_REVIEW", "REVIEWED",
           "EXPORTED", "FAILED", "PARSE_ERROR"}
InFlight == {"UPLOADED", "PARSING", "OCR"}
NoCount == -1   \* the metadata has no row_count key

(* The job records of the metadata, by what tells them apart: "parser" and *)
(* "ocr" are STARTED records, "ready", "reused" and "warned" COMPLETED     *)
(* ones, "reused" with the detail of an idempotent retry and "warned" with *)
(* that of a parse that found no rows.  Of an enrichment, "loading" is     *)
(* STARTED, "done" COMPLETED; the record carries the id of its job, 0 for  *)
(* the automatic one of the parse task, i for the i-th one of the user.    *)
ParseJob == {"none", "parser", "ocr", "ready", "reused", "warned", "failed"}
LlmJob == [job : Nat, status : {"none", "loading", "done"}]
NoLlm == [job |-> 0, status |-> "none"]
Done(j) == [job |-> j, status |-> "done"]
Loading(j) == [job |-> j, status |-> "loading"]

(* Two readings of one file (a retry may use another OCR engine) share a   *)
(* row number, so the unique constraint (statement_id, row_number) tells   *)
(* that a statement already has rows.                                      *)
ASSUME ReadingAssumption ==
    /\ Reading \subseteq SUBSET RowNo
    /\ \A R, Q \in Reading : R \cap Q # {}
ASSUME RowNoAssumption == IsFiniteSet(RowNo)
ASSUME NoStatementAssumption == NoStatement \notin Statement
ASSUME PatchAssumption == PatchChoice \subseteq Status
ASSUME BoundAssumption == /\ MaxDeliveries \in Nat \ {0} /\ MaxEnrichments \in Nat
                          /\ MayFail \in BOOLEAN

(* The columns of a statement the pipeline reads or writes: parse and llm  *)
(* are metadata.jobs.parse and metadata.jobs.llm, the one slot of all      *)
(* enrichment jobs (the id of the automatic one is the same in every run   *)
(* of a parse task), count is metadata.row_count.                          *)
Columns == [type : FileType, status : Status, parse : ParseJob,
            llm : LlmJob, count : Int]
Blank == [type |-> "pdf", status |-> "UPLOADED", parse |-> "none",
          llm |-> NoLlm, count |-> NoCount]

VARIABLES
    live,       \* statements whose database row is committed
    stmt,       \* columns of the statement row
    rows,       \* rows[s][n]: the run that inserted row n of s, 0 if absent
    file,       \* statements whose uploaded file is on disk
    unlinking,  \* statements whose row is gone and whose file is to be removed
    handler,    \* progress of the upload request
    queue,      \* parse-task messages waiting in the broker
    sent,       \* parse-task messages ever put in the broker
    runs,       \* executions of the parse task started so far
    asked,      \* the enrichment jobs the user has started, by their ids
    waiting,    \* those whose message waits in the broker
    pc,         \* what each worker is about to do
    task,       \* the statement each worker works on
    job,        \* the enrichment job each worker runs; 0: a parse task
    run,        \* the number of the execution of the parse task
    snap,       \* the session's copy of the statement row, per worker
    reading,    \* the OCR result each worker is about to save
    patched,    \* history: the user has set the status of the statement
    raced       \* history: two jobs, or a job and a status change, overlapped

diskVars   == <<file, unlinking>>
brokerVars == <<queue, sent, runs, asked, waiting>>
workerVars == <<pc, task, job, run, snap, reading>>
historyVars == <<patched, raced>>
vars == <<live, stmt, rows, diskVars, handler, brokerVars, workerVars, historyVars>>

HandlerState == {"new", "checking", "enqueue", "done", "refused"}
WorkerState == {"idle", "loaded", "fresh", "reuse", "parsing", "ocr", "enrich",
                "select", "enriching"}

TypeOK ==
    /\ live \subseteq Statement
    /\ stmt \in [Statement -> Columns]
    /\ rows \in [Statement -> [RowNo -> Nat]]
    /\ file \subseteq Statement
    /\ unlinking \subseteq Statement
    /\ handler \in [Statement -> HandlerState]
    /\ queue \in [Statement -> Nat]
    /\ sent \in [Statement -> Nat]
    /\ runs \in [Statement -> Nat]
    /\ asked \in [Statement -> SUBSET (Nat \ {0})]
    /\ waiting \in [Statement -> SUBSET (Nat \ {0})]
    /\ pc \in [Worker -> WorkerState]
    /\ task \in [Worker -> Statement \cup {NoStatement}]
    /\ \A w \in Worker : pc[w] # "idle" => task[w] \in Statement
    /\ job \in [Worker -> Nat] /\ run \in [Worker -> Nat]
    /\ snap \in [Worker -> Columns]
    /\ reading \in [Worker -> SUBSET RowNo]
    /\ patched \in [Statement -> BOOLEAN]
    /\ raced \in [Statement -> BOOLEAN]

Init ==
    /\ live = {}
    /\ stmt = [s \in Statement |-> Blank]
    /\ rows = [s \in Statement |-> [n \in RowNo |-> 0]]
    /\ file = {}
    /\ unlinking = {}
    /\ handler = [s \in Statement |-> "new"]
    /\ queue = [s \in Statement |-> 0]
    /\ sent = [s \in Statement |-> 0]
    /\ runs = [s \in Statement |-> 0]
    /\ asked = [s \in Statement |-> {}] /\ waiting = [s \in Statement |-> {}]
    /\ pc = [w \in Worker |-> "idle"]
    /\ task = [w \in Worker |-> NoStatement]
    /\ job = [w \in Worker |-> 0] /\ run = [w \in Worker |-> 0]
    /\ snap = [w \in Worker |-> Blank]
    /\ reading = [w \in Worker |-> {}]
    /\ patched = [s \in Statement |-> FALSE]
    /\ raced = [s \in Statement |-> FALSE]

(* The rows of s that are in the database.                                 *)
Saved(s) == {n \in RowNo : rows[s][n] # 0}

WorksOn(w, s) == pc[w] # "idle" /\ task[w] = s

(* The enrichment leaves its second metadata update uncommitted while the  *)
(* language model answers, and holds the lock of the statement row.        *)
Locked(s) == \E w \in Worker : pc[w] = "enriching" /\ task[w] = s

Writable(s) == s \in live /\ ~Locked(s)

-----------------------------------------------------------------------------
(* Sessions.  Stop ends a run: the session is closed, and the copy of the  *)
(* row is gone with it.                                                    *)

Stop(w) ==
    /\ pc' = [pc EXCEPT ![w] = "idle"]
    /\ task' = [task EXCEPT ![w] = NoStatement]
    /\ job' = [job EXCEPT ![w] = 0] /\ run' = [run EXCEPT ![w] = 0]
    /\ snap' = [snap EXCEPT ![w] = Blank]
    /\ reading' = [reading EXCEPT ![w] = {}]

GoOn(w, next, new) ==
    /\ pc' = [pc EXCEPT ![w] = next]
    /\ snap' = [snap EXCEPT ![w] = new]
    /\ UNCHANGED <<task, job, run>>

(* The UPDATE a flush of the copy "new" emits.  A column is written only   *)
(* if its value in the session changed, the metadata as one column.        *)
Flushed(w, new) ==
    LET old == snap[w]
        row == stmt[task[w]]
        meta == IF <<new.parse, new.llm, new.count>> = <<old.parse, old.llm, old.count>>
                THEN row ELSE new
    IN  [meta EXCEPT !.type = row.type,
                     !.status = IF new.status = old.status THEN row.status ELSE new.status]

(* A commit of the copy.  Without a change there is no UPDATE, and so no   *)
(* wait for the row's lock and no error when the row is gone.              *)
Commit(w, new) ==
    IF new = snap[w]
    THEN UNCHANGED stmt
    ELSE /\ Writable(task[w])
         /\ stmt' = [stmt EXCEPT ![task[w]] = Flushed(w, new)]

-----------------------------------------------------------------------------
(* Mutations: plausible bugs, each in place of one action below, that show *)
(* which property notices them.                                            *)

(* The refused upload's row is committed instead of deleted.               *)
UploadRejectKeepsRow(s) ==
    /\ handler[s] = "checking"
    /\ stmt[s].type = "pdf"
    /\ handler' = [handler EXCEPT ![s] = "refused"]
    /\ live' = live \cup {s}
    /\ unlinking' = unlinking \cup {s}
    /\ UNCHANGED <<stmt, rows, file, brokerVars, workerVars, historyVars>>

(* The refused upload's file is forgotten.                                 *)
UploadRejectKeepsFile(s) ==
    /\ handler[s] = "checking"
    /\ stmt[s].type = "pdf"
    /\ handler' = [handler EXCEPT ![s] = "refused"]
    /\ stmt' = [stmt EXCEPT ![s] = Blank]
    /\ UNCHANGED <<live, rows, diskVars, brokerVars, workerVars, historyVars>>

(* No cascade from the statement to its transactions.                      *)
DeleteWithoutCascade(s) ==
    /\ Writable(s)
    /\ live' = live \ {s}
    /\ stmt' = [stmt EXCEPT ![s] = Blank]
    /\ unlinking' = unlinking \cup {s}
    /\ UNCHANGED <<rows, file, handler, brokerVars, workerVars, historyVars>>

(* The job does not look for rows of an earlier run.                       *)
FindRowsNever(w) ==
    /\ pc[w] = "loaded"
    /\ pc' = [pc EXCEPT ![w] = "fresh"]
    /\ UNCHANGED <<live, stmt, rows, diskVars, handler, brokerVars,
                   task, job, run, snap, reading, historyVars>>

(* The reuse sets the status whatever it was.                              *)
ReuseAlwaysReady(w) ==
    LET new == [snap[w] EXCEPT !.status = "READY_FOR_REVIEW", !.parse = "reused"]
    IN  /\ pc[w] = "reuse"
        /\ Commit(w, new)
        /\ GoOn(w, "enrich", new)
        /\ UNCHANGED <<live, rows, diskVars, handler, brokerVars, reading, historyVars>>

(* The new job record replaces the records of all jobs.                    *)
ReuseDropsJobs(w) ==
    LET new == [snap[w] EXCEPT
                  !.status = IF @ \in InFlight THEN "READY_FOR_REVIEW" ELSE @,
                  !.parse = "reused", !.llm = NoLlm]
    IN  /\ pc[w] = "reuse"
        /\ Commit(w, new)
        /\ GoOn(w, "enrich", new)
        /\ UNCHANGED <<live, rows, diskVars, handler, brokerVars, reading, historyVars>>

(* A status that the API does not know.                                    *)
ParseFailsUnknownStatus(w) ==
    /\ pc[w] = "parsing"
    /\ Commit(w, [snap[w] EXCEPT !.status = "ERROR", !.parse = "failed"])
    /\ Stop(w)
    /\ UNCHANGED <<live, rows, diskVars, handler, brokerVars, historyVars>>

(* The parser metadata is merged before the OCR status is committed.       *)
ParseByOcrCountsEarly(w) ==
    /\ pc[w] = "parsing"
    /\ snap[w].type = "pdf"
    /\ \E R \in Reading :
          LET new == [snap[w] EXCEPT !.status = "OCR", !.parse = "ocr",
                                     !.count = Cardinality(R)]
          IN  /\ reading' = [reading EXCEPT ![w] = R]
              /\ Commit(w, new)
              /\ GoOn(w, "ocr", new)
    /\ UNCHANGED <<live, rows, diskVars, handler, brokerVars, historyVars>>

(* The job ends with the OCR status.                                       *)
ParseByOcrEnds(w) ==
    /\ pc[w] = "parsing"
    /\ snap[w].type = "pdf"
    /\ Commit(w, [snap[w] EXCEPT !.status = "OCR", !.parse = "ocr"])
    /\ Stop(w)
    /\ UNCHANGED <<live, rows, diskVars, handler, brokerVars, historyVars>>

(* No unique constraint on (statement_id, row_number).                     *)
SaveRowsAnyway(w, R) ==
    LET s == task[w]
        new == [snap[w] EXCEPT !.status = "READY_FOR_REVIEW", !.parse = "ready",
                               !.count = Cardinality(R)]
    IN  /\ pc[w] = "parsing" \/ (pc[w] = "ocr" /\ R = reading[w])
        /\ Commit(w, new)
        /\ rows' = [rows EXCEPT ![s] = [n \in RowNo |-> IF n \in R THEN run[w] ELSE @[n]]]
        /\ GoOn(w, "enrich", new)
        /\ reading' = [reading EXCEPT ![w] = {}]
        /\ UNCHANGED <<live, diskVars, handler, brokerVars, historyVars>>

(* A commit per row, and the job dies after the first one.                 *)
SaveRowsOneByOne(w, R) ==
    /\ pc[w] = "parsing" \/ (pc[w] = "ocr" /\ R = reading[w])
    /\ task[w] \in live
    /\ R \cap Saved(task[w]) = {}
    /\ \E n \in R : rows' = [rows EXCEPT ![task[w]][n] = run[w]]
    /\ Stop(w)
    /\ UNCHANGED <<live, stmt, diskVars, handler, brokerVars, historyVars>>

-----------------------------------------------------------------------------
(* The upload request and the broker.                                      *)

(* The row is flushed (uncommitted), the scanned bytes are written to disk,*)
(* and the status becomes PARSING.                                         *)
UploadBegin(s, t) ==
    /\ handler[s] = "new"
    /\ handler' = [handler EXCEPT ![s] = "checking"]
    /\ file' = file \cup {s}
    /\ stmt' = [stmt EXCEPT ![s].type = t, ![s].status = "PARSING"]
    /\ UNCHANGED <<live, rows, unlinking, brokerVars, workerVars, historyVars>>

(* The PDF needs a password the request does not carry: the row is deleted *)
(* and committed first, the file is removed afterwards.                    *)
UploadReject(s) ==
    /\ handler[s] = "checking"
    /\ stmt[s].type = "pdf"
    /\ handler' = [handler EXCEPT ![s] = "refused"]
    /\ stmt' = [stmt EXCEPT ![s] = Blank]
    /\ unlinking' = unlinking \cup {s}
    /\ UNCHANGED <<live, rows, file, brokerVars, workerVars, historyVars>>

UploadCommit(s) ==
    /\ handler[s] = "checking"
    /\ handler' = [handler EXCEPT ![s] = "enqueue"]
    /\ live' = live \cup {s}
    /\ UNCHANGED <<stmt, rows, diskVars, brokerVars, workerVars, historyVars>>

(* process_statement_task.delay(...), after the commit.                    *)
UploadEnqueue(s) ==
    /\ handler[s] = "enqueue"
    /\ handler' = [handler EXCEPT ![s] = "done"]
    /\ queue' = [queue EXCEPT ![s] = @ + 1]
    /\ sent' = [sent EXCEPT ![s] = @ + 1]
    /\ UNCHANGED <<live, stmt, rows, diskVars, runs, asked, waiting, workerVars, historyVars>>

(* The API process dies, or the commit or delay() raises: an uncommitted   *)
(* row is rolled back, a committed one stays without a task.               *)
UploadFails(s) ==
    /\ MayFail
    /\ handler[s] \in {"checking", "enqueue"}
    /\ handler' = [handler EXCEPT ![s] = IF @ = "checking" THEN "refused" ELSE "done"]
    /\ stmt' = IF s \in live THEN stmt ELSE [stmt EXCEPT ![s] = Blank]
    /\ UNCHANGED <<live, rows, diskVars, brokerVars, workerVars, historyVars>>

(* The broker delivers a message once more: one that a busy worker has     *)
(* prefetched returns to the queue when its visibility timeout ends.       *)
Redeliver(s) ==
    /\ sent[s] \in 1..(MaxDeliveries - 1)
    /\ queue' = [queue EXCEPT ![s] = @ + 1]
    /\ sent' = [sent EXCEPT ![s] = @ + 1]
    /\ UNCHANGED <<live, stmt, rows, diskVars, handler, runs, asked, waiting,
                   workerVars, historyVars>>

RedeliverEnrichment(s) ==
    /\ MaxDeliveries > 1
    /\ \E i \in asked[s] : waiting' = [waiting EXCEPT ![s] = @ \cup {i}]
    /\ UNCHANGED <<live, stmt, rows, diskVars, handler, queue, sent, runs, asked,
                   workerVars, historyVars>>

-----------------------------------------------------------------------------
(* The user's requests on a stored statement.                              *)

(* POST .../transactions/enrich: enrich_transactions_task.delay(...).      *)
RequestEnrichment(s) ==
    /\ s \in live
    /\ \E i \in 1..MaxEnrichments :
          /\ \A t \in Statement : i \notin asked[t]
          /\ asked' = [asked EXCEPT ![s] = @ \cup {i}]
          /\ waiting' = [waiting EXCEPT ![s] = @ \cup {i}]
    /\ UNCHANGED <<live, stmt, rows, diskVars, handler, queue, sent, runs,
                   workerVars, historyVars>>

PatchStatus(s, c) ==
    /\ Writable(s)
    /\ stmt' = [stmt EXCEPT ![s].status = c]
    /\ patched' = [patched EXCEPT ![s] = TRUE]
    /\ raced' = [raced EXCEPT ![s] = @ \/ \E w \in Worker : WorksOn(w, s)]
    /\ UNCHANGED <<live, rows, diskVars, handler, brokerVars, workerVars>>

(* The row goes, its transactions go with it (ON DELETE CASCADE), commit;  *)
(* the file is removed after the commit.                                   *)
DeleteStatement(s) ==
    /\ Writable(s)
    /\ live' = live \ {s}
    /\ stmt' = [stmt EXCEPT ![s] = Blank]
    /\ rows' = [rows EXCEPT ![s] = [n \in RowNo |-> 0]]
    /\ unlinking' = unlinking \cup {s}
    /\ UNCHANGED <<file, handler, brokerVars, workerVars, historyVars>>

Unlink(s) ==
    /\ s \in unlinking
    /\ unlinking' = unlinking \ {s}
    /\ file' = file \ {s}
    /\ UNCHANGED <<live, stmt, rows, handler, brokerVars, workerVars, historyVars>>

(* The process dies between the commit and the removal of the file.        *)
UnlinkFails(s) ==
    /\ MayFail
    /\ s \in unlinking
    /\ unlinking' = unlinking \ {s}
    /\ UNCHANGED <<live, stmt, rows, file, handler, brokerVars, workerVars, historyVars>>
-----------------------------------------------------------------------------
(* The parse job.                                                          *)

(* A worker acknowledges a message and loads the statement; when there is  *)
(* none the run ends ("missing").                                          *)
Receive(w, s) ==
    /\ pc[w] = "idle"
    /\ queue[s] > 0
    /\ queue' = [queue EXCEPT ![s] = @ - 1]
    /\ runs' = [runs EXCEPT ![s] = @ + 1]
    /\ IF s \in live
       THEN /\ pc' = [pc EXCEPT ![w] = "loaded"]
            /\ task' = [task EXCEPT ![w] = s]
            /\ job' = [job EXCEPT ![w] = 0]
            /\ run' = [run EXCEPT ![w] = runs[s] + 1]
            /\ snap' = [snap EXCEPT ![w] = stmt[s]]
            /\ raced' = [raced EXCEPT ![s] = @ \/ \E v \in Worker : WorksOn(v, s)]
       ELSE UNCHANGED <<pc, task, job, run, snap, raced>>
    /\ UNCHANGED <<live, stmt, rows, diskVars, handler, sent, asked, waiting,
                   reading, patched>>

(* Does the statement have transactions already?                           *)
FindRows(w) ==
    /\ pc[w] = "loaded"
    /\ pc' = [pc EXCEPT ![w] = IF Saved(task[w]) = {} THEN "fresh" ELSE "reuse"]
    /\ UNCHANGED <<live, stmt, rows, diskVars, handler, brokerVars,
                   task, job, run, snap, reading, historyVars>>

(* It has: the retry reuses them.                                          *)
Reuse(w) ==
    LET new == [snap[w] EXCEPT
                  !.status = IF @ \in InFlight THEN "READY_FOR_REVIEW" ELSE @,
                  !.parse = "reused"]
    IN  /\ pc[w] = "reuse"
        /\ Commit(w, new)
        /\ GoOn(w, "enrich", new)
        /\ UNCHANGED <<live, rows, diskVars, handler, brokerVars, reading, historyVars>>

(* It has none: the job is recorded as started and the file is parsed.     *)
StartParse(w) ==
    LET new == [snap[w] EXCEPT !.parse = "parser"]
    IN  /\ pc[w] = "fresh"
        /\ Commit(w, new)
        /\ GoOn(w, "parsing", new)
        /\ UNCHANGED <<live, rows, diskVars, handler, brokerVars, reading, historyVars>>

(* Password, unreadable PDF, or any unexpected error of the parser.        *)
ParseFails(w) ==
    /\ pc[w] = "parsing"
    /\ Commit(w, [snap[w] EXCEPT !.status = "FAILED", !.parse = "failed"])
    /\ Stop(w)
    /\ UNCHANGED <<live, rows, diskVars, handler, brokerVars, historyVars>>

(* StatementParserError: the file holds no transaction rows the parser     *)
(* understands.  A PDF is left for manual review, another file fails.      *)
ParseFindsNothing(w) ==
    LET pdf == snap[w].type = "pdf"
    IN  /\ pc[w] = "parsing"
        /\ Commit(w, [snap[w] EXCEPT
                        !.status = IF pdf THEN "READY_FOR_REVIEW" ELSE "FAILED",
                        !.parse = IF pdf THEN "warned" ELSE "failed",
                        !.count = 0])
        /\ Stop(w)
        /\ UNCHANGED <<live, rows, diskVars, handler, brokerVars, historyVars>>

(* The rows came from OCR: the status OCR is committed before the rows.    *)
ParseByOcr(w) ==
    LET new == [snap[w] EXCEPT !.status = "OCR", !.parse = "ocr"]
    IN  /\ pc[w] = "parsing"
        /\ snap[w].type = "pdf"
        /\ \E R \in Reading : reading' = [reading EXCEPT ![w] = R]
        /\ Commit(w, new)
        /\ GoOn(w, "ocr", new)
        /\ UNCHANGED <<live, rows, diskVars, handler, brokerVars, historyVars>>

(* The rows, the merged parser metadata, the status and the job record in  *)
(* one transaction.                                                        *)
SaveRows(w, R) ==
    LET s == task[w]
        new == [snap[w] EXCEPT !.status = "READY_FOR_REVIEW", !.parse = "ready",
                               !.count = Cardinality(R)]
    IN  /\ pc[w] = "parsing" \/ (pc[w] = "ocr" /\ R = reading[w])
        /\ R \cap Saved(s) = {}
        /\ Commit(w, new)
        /\ rows' = [rows EXCEPT ![s] = [n \in RowNo |-> IF n \in R THEN run[w] ELSE @[n]]]
        /\ GoOn(w, "enrich", new)
        /\ reading' = [reading EXCEPT ![w] = {}]
        /\ UNCHANGED <<live, diskVars, handler, brokerVars, historyVars>>

(* The unique constraint refuses a row: IntegrityError leaves the job, the *)
(* session rolls back.                                                     *)
SaveConflicts(w, R) ==
    /\ pc[w] = "parsing" \/ (pc[w] = "ocr" /\ R = reading[w])
    /\ ~Locked(task[w])
    /\ R \cap Saved(task[w]) # {}
    /\ Stop(w)
    /\ UNCHANGED <<live, stmt, rows, diskVars, handler, brokerVars, historyVars>>

(* An UPDATE of the session finds no row: StaleDataError leaves the job.   *)
WriteFindsNoRow(w) ==
    /\ pc[w] \in WorkerState \ {"idle", "loaded", "enriching"}
    /\ task[w] \notin live
    /\ Stop(w)
    /\ UNCHANGED <<live, stmt, rows, diskVars, handler, brokerVars, historyVars>>

-----------------------------------------------------------------------------
(* The enrichment: the automatic one at the end of a parse, in the same    *)
(* session, or a job of the user, which a worker receives and loads the    *)
(* statement for, like a parse task.                                       *)
ReceiveEnrichment(w, s) ==
    /\ pc[w] = "idle"
    /\ \E i \in waiting[s] :
          /\ waiting' = [waiting EXCEPT ![s] = @ \ {i}]
          /\ IF s \in live
             THEN /\ pc' = [pc EXCEPT ![w] = "enrich"]
                  /\ task' = [task EXCEPT ![w] = s]
                  /\ job' = [job EXCEPT ![w] = i]
                  /\ snap' = [snap EXCEPT ![w] = stmt[s]]
                  /\ raced' = [raced EXCEPT ![s] = @ \/ \E v \in Worker : WorksOn(v, s)]
             ELSE UNCHANGED <<pc, task, job, snap, raced>>
    /\ UNCHANGED <<live, stmt, rows, diskVars, handler, queue, sent, runs, asked,
                   run, reading, patched>>

(* The copy says that this very job was done: nothing to do.               *)
EnrichSkip(w) ==
    /\ pc[w] = "enrich"
    /\ snap[w].llm = Done(job[w])
    /\ Stop(w)
    /\ UNCHANGED <<live, stmt, rows, diskVars, handler, brokerVars, historyVars>>

EnrichStart(w) ==
    LET new == [snap[w] EXCEPT !.llm = Loading(job[w])]
    IN  /\ pc[w] = "enrich"
        /\ snap[w].llm # Done(job[w])
        /\ Commit(w, new)
        /\ GoOn(w, "select", new)
        /\ UNCHANGED <<live, rows, diskVars, handler, brokerVars, reading, historyVars>>

(* The flush of the "enriching" stage: an uncommitted UPDATE of the row.   *)
EnrichLock(w) ==
    /\ pc[w] = "select"
    /\ Writable(task[w])
    /\ pc' = [pc EXCEPT ![w] = "enriching"]
    /\ UNCHANGED <<live, stmt, rows, diskVars, handler, brokerVars,
                   task, job, run, snap, reading, historyVars>>

EnrichCommit(w) ==
    /\ pc[w] = "enriching"
    /\ stmt' = [stmt EXCEPT ![task[w]] = Flushed(w, [snap[w] EXCEPT !.llm = Done(job[w])])]
    /\ Stop(w)
    /\ UNCHANGED <<live, rows, diskVars, handler, brokerVars, historyVars>>

(* An exception of the enrichment rolls its transaction back.              *)
EnrichFails(w) ==
    /\ pc[w] = "enriching"
    /\ Stop(w)
    /\ UNCHANGED <<live, stmt, rows, diskVars, handler, brokerVars, historyVars>>

(* The worker process is killed; the message is acknowledged already.      *)
WorkerCrash(w) ==
    /\ MayFail
    /\ pc[w] # "idle"
    /\ Stop(w)
    /\ UNCHANGED <<live, stmt, rows, diskVars, handler, brokerVars, historyVars>>

-----------------------------------------------------------------------------
UploadStep(s) ==
    \/ \E t \in FileType : UploadBegin(s, t)
    \/ UploadReject(s)
    \/ UploadCommit(s)
    \/ UploadEnqueue(s)

UserStep(s) ==
    \/ \E c \in PatchChoice : PatchStatus(s, c)
    \/ RequestEnrichment(s)
    \/ DeleteStatement(s)

(* What a worker that is not killed does next.                             *)
JobStep(w) ==
    \/ FindRows(w)
    \/ Reuse(w)
    \/ StartParse(w)
    \/ ParseFails(w)
    \/ ParseFindsNothing(w)
    \/ ParseByOcr(w)
    \/ \E R \in Reading : SaveRows(w, R) \/ SaveConflicts(w, R)
    \/ WriteFindsNoRow(w)
    \/ EnrichSkip(w)
    \/ EnrichStart(w)
    \/ EnrichLock(w)
    \/ EnrichCommit(w)
    \/ EnrichFails(w)

Next ==
    \/ \E s \in Statement : \/ UploadStep(s)
                             \/ UploadFails(s)
                             \/ Redeliver(s) \/ RedeliverEnrichment(s)
                             \/ UserStep(s)
                             \/ Unlink(s)
                             \/ UnlinkFails(s)
    \/ \E w \in Worker : \/ \E s \in Statement : Receive(w, s) \/ ReceiveEnrichment(w, s)
                          \/ JobStep(w)
                          \/ WorkerCrash(w)

Spec == Init /\ [][Next]_vars

(* A request handler runs to its end, a worker takes the next message and  *)
(* runs its job to the end; a user need not do anything.                   *)
Fairness ==
    /\ \A s \in Statement :
          /\ WF_vars(handler[s] # "new" /\ UploadStep(s))
          /\ WF_vars(Unlink(s))
    /\ \A w \in Worker :
          /\ WF_vars(\E s \in Statement : Receive(w, s) \/ ReceiveEnrichment(w, s))
          /\ WF_vars(JobStep(w))

FairSpec == Spec /\ Fairness
-----------------------------------------------------------------------------
(* Properties.                                                             *)

(* However often the parse task is delivered, however its runs overlap or  *)
(* crash, the rows of a statement are one whole reading of the file, and   *)
(* one run inserted all of them (processing.py 95-122 and 213-217, and the *)
(* unique constraint of models.py 132-134).                                *)
RowsAreOneReading ==
    \A s \in Statement :
        \/ Saved(s) = {}
        \/ /\ Saved(s) \in Reading
           /\ \A m, n \in Saved(s) : rows[s][m] = rows[s][n]

(* A run that goes on after its statement was deleted leaves no rows.      *)
NoOrphanRows == \A s \in Statement \ live : Saved(s) = {}

(* A stored statement has its file: the file is written before the row is  *)
(* committed and removed only after the row is gone, whatever fails between*)
(* (router.py 364-404 and 936-945).                                        *)
FileOutlivesRow == live \subseteq file

(* The row count of the metadata, which every session writes back from its *)
(* own copy, never counts rows that the statement does not have.           *)
CountNeverOverclaims ==
    \A s \in live : stmt[s].count \in {NoCount, 0, Cardinality(Saved(s))}

(* A retry never spoils what an earlier run achieved: once rows are saved, *)
(* and as long as no two runs overlapped and the user set no status, the   *)
(* statement is ready for review, its parse job is completed and the row   *)
(* count is right, through crashes and any number of later deliveries.     *)
SavedIsReady ==
    \A s \in live :
        Saved(s) # {} /\ ~raced[s] /\ ~patched[s] =>
            /\ stmt[s].status = "READY_FOR_REVIEW"
            /\ stmt[s].parse \in {"ready", "reused"}
            /\ stmt[s].count = Cardinality(Saved(s))

(* A statement with rows that a user marked REVIEWED, EXPORTED or FAILED   *)
(* keeps that mark through later deliveries of its parse task              *)
(* (processing.py 97): only the user, or the deletion, changes it.         *)
ReviewKept ==
    [][\A s \in Statement :
          s \in live /\ Saved(s) # {} /\ ~raced[s] /\ stmt[s].status \notin InFlight
          => \/ s \notin live'
             \/ stmt'[s].status = stmt[s].status
             \/ \E c \in PatchChoice : PatchStatus(s, c)]_vars

(* The record that an enrichment job was done is what keeps a redelivery   *)
(* of it from paying for the language model again (processing.py 295):     *)
(* unless jobs overlapped, only the deletion or the start of a job with    *)
(* another id, which takes the one slot over (316), loses it.              *)
EnrichmentRemembered ==
    [][\A s \in Statement :
          s \in live /\ ~raced[s] /\ stmt[s].llm.status = "done"
          => \/ s \notin live'
             \/ stmt'[s].llm = stmt[s].llm
             \/ \E w \in Worker : /\ EnrichStart(w) /\ task[w] = s
                                  /\ job[w] # stmt[s].llm.job]_vars

(* The pipeline implements the abstract life of a statement.               *)
Phase(s) ==
    IF s \in live THEN "stored"
    ELSE IF handler[s] \in {"enqueue", "done"} THEN "removed" ELSE "absent"
Lifecycle == INSTANCE StatementLifecycle WITH
                phase <- [s \in Statement |-> Phase(s)],
                saved <- [s \in Statement |-> Saved(s)]
ImplementsLifecycle == Lifecycle!Spec

(* No message of the parse task of s waits and no worker runs it.          *)
AtRest(s) == queue[s] = 0 /\ \A w \in Worker : ~(WorksOn(w, s) /\ job[w] = 0)

(* Without crashes and duplicates every stored statement is settled: its   *)
(* status leaves the stages of the pipeline, and its parse job ends, unless*)
(* an enrichment that overlapped the parse wrote back an old job record.   *)
Settled(s) ==
    \/ s \notin live
    \/ /\ stmt[s].status \notin InFlight
       /\ raced[s] \/ stmt[s].parse \notin {"none", "parser", "ocr"}
EveryUploadSettles == \A s \in Statement : s \in live ~> Settled(s)

(* The safety side of EveryUploadSettles: without crashes, and as long as  *)
(* no two runs overlapped and the user set no status, a statement that is  *)
(* not settled has its upload handler about to enqueue the task, a message *)
(* of the task or a run that will settle it.                               *)
UnsettledIsDriven ==
    ~MayFail => \A s \in live :
        ~raced[s] /\ ~patched[s] =>
            Settled(s) \/ handler[s] = "enqueue" \/ ~AtRest(s)

(* A file on disk ends up belonging to a stored statement or is removed.   *)
FilesAreOwned == \A s \in Statement : s \in file ~> s \in live \/ s \notin file

(* The safety side of FilesAreOwned: without crashes a file belongs to a   *)
(* stored statement or to a request that will store or remove it.          *)
FilesAreClaimed ==
    ~MayFail => \A s \in file : s \in live \/ s \in unlinking \/ handler[s] = "checking"

(* What the code and the product document call an idempotent retry: when   *)
(* everything has come to rest, a statement whose rows were imported is    *)
(* ready for review however often its task was delivered.                  *)
RetryIsIdempotent ==
    \A s \in live : AtRest(s) /\ Saved(s) # {} /\ ~patched[s]
                      => stmt[s].status = "READY_FOR_REVIEW"
-----------------------------------------------------------------------------
(* The inductive invariant behind the safety properties.                   *)

(* A stored statement has its file, nobody is about to remove it, and the  *)
(* upload request is past its commit; before it there is no job metadata.  *)
UploadInv ==
    \A s \in Statement :
        /\ s \in live => /\ s \in file
                         /\ s \notin unlinking
                         /\ handler[s] \in {"enqueue", "done"}
        /\ s \notin live => /\ stmt[s].parse = "none"
                            /\ stmt[s].llm = NoLlm
                            /\ stmt[s].count = NoCount
        /\ handler[s] \in {"new", "checking"} => s \notin unlinking
        /\ handler[s] = "checking" => s \in file

(* The row lock keeps the row in place.                                    *)
LockInv == \A w \in Worker : pc[w] = "enriching" => task[w] \in live

(* What each session knows: its copy never overclaims either.              *)
SessionInv ==
    \A w \in Worker :
        pc[w] # "idle" =>
            /\ handler[task[w]] \in {"enqueue", "done"}
            /\ job[w] = 0 => run[w] # 0
            /\ job[w] # 0 => pc[w] \in {"enrich", "select", "enriching"}
            /\ pc[w] = "parsing" => snap[w].parse = "parser"
            /\ pc[w] = "ocr" => snap[w].parse = "ocr" /\ reading[w] \in Reading
            /\ pc[w] \in {"select", "enriching"} => snap[w].llm = Loading(job[w])
            /\ task[w] \in live =>
                   snap[w].count \in {NoCount, 0, Cardinality(Saved(task[w]))}

RowsInv == RowsAreOneReading /\ NoOrphanRows /\ CountNeverOverclaims

(* Without overlapping runs there is one session, its copy is the row, and *)
(* where it stands in the job tells whether there are rows.                *)
SerialInv ==
    \A s \in live :
        ~raced[s] =>
            \A w \in Worker :
                WorksOn(w, s) =>
                    /\ \A v \in Worker : WorksOn(v, s) => v = w
                    /\ snap[w] = stmt[s]
                    /\ pc[w] \in {"fresh", "parsing", "ocr"} => Saved(s) = {}
                    /\ pc[w] \in {"reuse", "enrich", "select", "enriching"} /\ job[w] = 0
                       => Saved(s) # {}

IInv ==
    /\ TypeOK
    /\ UploadInv
    /\ LockInv
    /\ SessionInv
    /\ RowsInv
    /\ SerialInv
    /\ SavedIsReady
    /\ UnsettledIsDriven
    /\ FilesAreClaimed
=============================================================================
