--------------------------- MODULE StatementWatch ---------------------------
(***************************************************************************)
(* How a user follows a statement: the progress record of its parse job in *)
(* Redis (core/job_progress.py), the answer of GET /jobs over it and the   *)
(* Celery result (jobs_router.py), and the WebSocket watchers of the API   *)
(* processes, which a PATCH of the status broadcasts to (websocket.py).    *)
(* The manager of a process knows that process's connections only, and a   *)
(* worker has none.                                                        *)
(***************************************************************************)
EXTENDS Naturals, FiniteSets

CONSTANTS
    Statement,      \* statements (each with one parse job)
    Process,        \* API processes
    Watcher,        \* WebSocket connections
    Edit,           \* PATCH /status requests
    UserStatus,     \* the statuses users set
    Nil,
    MaxLost         \* bound: records Redis does not take

VARIABLES
    status,     \* committed status of each statement, or "deleted"
    job,        \* its parse task: where it is, and how it ends
    progress,   \* its progress record, Nil when there is none
    lost,       \* records Redis did not take
    conn,       \* each connection
    edit,       \* each PATCH /status request
    excused     \* history: connections a status change could not reach

watchVars == <<status, job, progress, lost, conn, edit, excused>>

Unused == [pc |-> "unused", on |-> Nil, at |-> Nil, new |-> Nil, members |-> {}, sent |-> {}]
WatchInit ==
    /\ status = [s \in Statement |-> Nil]
    /\ job = [s \in Statement |-> [pc |-> "none", end |-> Nil]]
    /\ progress = [s \in Statement |-> Nil] /\ lost = 0
    /\ conn = [w \in Watcher |-> [pc |-> "off", on |-> Nil, at |-> Nil, shown |-> Nil]]
    /\ edit = [e \in Edit |-> Unused]
    /\ excused = {}

-----------------------------------------------------------------------------
(* The job and its record.                                                 *)
Following == UNCHANGED <<conn, edit>>
Working(s) == job[s].pc \in {"parser", "ocr", "parsed", "enrich"}
Exists(s) == status[s] \notin {Nil, "deleted"}
(* Redis may be away: the write is swallowed.                              *)
Progress(s, new) ==
    \/ progress' = [progress EXCEPT ![s] = new] /\ UNCHANGED lost
    \/ lost < MaxLost /\ lost' = lost + 1 /\ UNCHANGED progress
Job(s, pc, end) == job' = [job EXCEPT ![s] = [pc |-> pc, end |-> end]]

RegisteredLate == {w \in Watcher : conn[w].pc = "on"}  \* mutant: after the initial status
Registered == {w \in Watcher : conn[w].pc \in {"read", "send", "on"}}
Informed == {w \in Watcher : conn[w].pc \in {"send", "on"}}
WatchersOf(s) == {w \in Registered : conn[w].on = s}

Pending(e) == edit[e].pc \in {"notify", "send"}
(* The connections a change misses: those told before, unless they are in  *)
(* the process x that broadcasts it.                                       *)
Missed(s, x) == {w \in WatchersOf(s) \cap Informed : conn[w].at # x}

(* A worker commits a status: the broadcast of its process reaches nobody. *)
WorkerCommits(s, new) ==
    /\ status' = [status EXCEPT ![s] = new]
    /\ excused' = excused \cup Missed(s, Nil)

Submit(s) == job[s].pc = "none" /\ Job(s, "queued", Nil)
WritePending(s) == Progress(s, "PENDING")

JobStarts(s) ==
    /\ job[s].pc = "queued" /\ Exists(s)
    /\ Job(s, "parser", Nil) /\ Progress(s, "STARTED")
    /\ Following /\ UNCHANGED <<status, excused>>
(* The statement was deleted first: a record without it, and a task that   *)
(* Celery counts as successful.                                            *)
JobMissing(s) ==
    /\ job[s].pc = "queued" /\ ~Exists(s)
    /\ Job(s, "SUCCESS", "missing") /\ Progress(s, "missing")
    /\ Following /\ UNCHANGED <<status, excused>>
JobOcr(s) ==
    /\ job[s].pc = "parser" /\ Exists(s)
    /\ Job(s, "ocr", Nil) /\ Progress(s, "STARTED") /\ WorkerCommits(s, "OCR")
    /\ Following

(* Committed: parsed, nothing extracted from a PDF, or failed.             *)
Ends == {"COMPLETED", "READY_FOR_REVIEW", "FAILED"}
Outcome(end) == IF end = "FAILED" THEN "FAILED" ELSE "READY_FOR_REVIEW"
JobCommits(s) ==
    \E end \in Ends :
        /\ IF end = "COMPLETED" THEN job[s].pc \in {"parser", "ocr"} ELSE job[s].pc = "parser"
        /\ Exists(s)
        /\ Job(s, "parsed", end)
        /\ WorkerCommits(s, Outcome(end))
        /\ Following /\ UNCHANGED <<progress, lost>>
JobRecords(s) ==
    /\ job[s].pc = "parsed"
    /\ Job(s, IF job[s].end = "COMPLETED" THEN "enrich" ELSE "SUCCESS", job[s].end)
    /\ Progress(s, job[s].end)
    /\ Following /\ UNCHANGED <<status, excused>>
JobReturns(s) ==
    /\ job[s].pc = "enrich" /\ Job(s, "SUCCESS", job[s].end)
    /\ Following /\ UNCHANGED <<status, progress, lost, excused>>
(* The database fails, the statement is gone at an update of its row, or   *)
(* the automatic enrichment fails.                                         *)
JobRaises(s) ==
    /\ Working(s) \/ job[s].pc = "queued"
    /\ Job(s, "FAILURE", job[s].end)
    /\ Following /\ UNCHANGED <<status, progress, lost, excused>>

Result(s) == CASE job[s].pc \in {"none", "queued"} -> "PENDING"
               [] Working(s) -> "STARTED"
               [] OTHER -> job[s].pc
OverruleFailure(result, recorded) ==          \* mutant: success is not looked at
    IF result = "FAILURE" THEN "FAILED" ELSE recorded
OverruleReady(result, recorded) ==            \* mutant: ready() for successful()
    IF result \in {"SUCCESS", "FAILURE"} THEN "COMPLETED" ELSE recorded
(* GET /jobs/{job_id}: 404 without a record or a result, and with a record *)
(* of a statement that is gone.                                            *)
Overrule(result, recorded) ==
    CASE result = "FAILURE" -> "FAILED"
      [] result = "SUCCESS" /\ recorded \notin {"COMPLETED", "READY"} -> "COMPLETED"
      [] OTHER -> recorded
Recorded(s) == CASE progress[s] = Nil -> Result(s)
                 [] progress[s] = "missing" -> "FAILED"
                 [] OTHER -> progress[s]
Answer(s) ==
    IF \/ progress[s] = Nil /\ Result(s) = "PENDING"
       \/ progress[s] \notin {Nil, "missing"} /\ ~Exists(s)
    THEN "404" ELSE Overrule(Result(s), Recorded(s))

-----------------------------------------------------------------------------
(* A connection: registered, then told the status it reads: "shown", which *)
(* reaches the user after what is broadcast in between.                    *)
JobIdle == UNCHANGED <<job, progress, lost>>
Connect(w) ==
    \E s \in Statement, x \in Process :
        /\ conn[w].pc = "off" /\ status[s] # Nil
        /\ conn' = [conn EXCEPT ![w].pc = "read", ![w].on = s, ![w].at = x]
        /\ JobIdle /\ UNCHANGED <<status, edit, excused>>
ReadInitial(w) ==
    /\ conn[w].pc = "read" /\ Exists(conn[w].on)
    /\ conn' = [conn EXCEPT ![w].pc = "send", ![w].shown = status[conn[w].on]]
    /\ JobIdle /\ UNCHANGED <<status, edit, excused>>
NothingToRead(w) ==
    /\ conn[w].pc = "read" /\ ~Exists(conn[w].on)
    /\ conn' = [conn EXCEPT ![w].pc = "on"]
    /\ JobIdle /\ UNCHANGED <<status, edit, excused>>
SendInitial(w) ==
    /\ conn[w].pc = "send"
    /\ conn' = [conn EXCEPT ![w].pc = "on"]
    /\ JobIdle /\ UNCHANGED <<status, edit, excused>>
Disconnect(w) ==
    /\ w \in Registered
    /\ conn' = [conn EXCEPT ![w] = [pc |-> "closed", on |-> Nil, at |-> Nil, shown |-> Nil]]
    /\ excused' = excused \ {w}
    /\ JobIdle /\ UNCHANGED <<status, edit>>

-----------------------------------------------------------------------------
(* PATCH /status: commit, then broadcast to the live set of connections.   *)
Local(e) == {w \in WatchersOf(edit[e].on) : conn[w].at = edit[e].at}

ChangeStatus(e) ==
    \E s \in Statement, x \in Process, new \in UserStatus :
        /\ edit[e].pc = "unused" /\ Exists(s)
        /\ status' = [status EXCEPT ![s] = new]
        /\ edit' = [edit EXCEPT ![e].pc = "notify", ![e].on = s, ![e].at = x, ![e].new = new]
        /\ excused' = excused \cup Missed(s, x)
        /\ JobIdle /\ UNCHANGED conn
Over(e) == [edit EXCEPT ![e] = [Unused EXCEPT !.pc = "over"]]
Broadcast(e) ==
    /\ edit[e].pc = "notify"
    /\ edit' = IF Local(e) = {} THEN Over(e)
               ELSE [edit EXCEPT ![e].pc = "send", ![e].members = Local(e)]
    /\ JobIdle /\ UNCHANGED <<status, conn, excused>>

(* Iterating a set whose size changed raises: the rest is not told.        *)
Intact(e) ==
    /\ Cardinality(Local(e)) = Cardinality(edit[e].members)
    /\ Local(e) \cap edit[e].members # {}
SendTo(e) ==
    \E w \in Local(e) \ edit[e].sent :
        /\ edit[e].pc = "send" /\ Intact(e)
        /\ edit' = [edit EXCEPT ![e].sent = @ \cup {w}]
        /\ conn' = IF conn[w].pc = "on" THEN [conn EXCEPT ![w].shown = edit[e].new] ELSE conn
        /\ excused' = IF conn[w].pc = "on" /\ edit[e].new = status[edit[e].on]
                      THEN excused \ {w} ELSE excused \cup ({w} \cap Informed)
        /\ JobIdle /\ UNCHANGED status
BroadcastEnds(e) ==
    /\ edit[e].pc = "send" /\ Intact(e) /\ Local(e) \subseteq edit[e].sent
    /\ edit' = Over(e)
    /\ JobIdle /\ UNCHANGED <<status, conn, excused>>
BroadcastRaises(e) ==
    /\ edit[e].pc = "send" /\ ~Intact(e)
    /\ edit' = Over(e)
    /\ excused' = excused \cup ((Local(e) \ edit[e].sent) \cap Informed)
    /\ JobIdle /\ UNCHANGED <<status, conn>>

(* DELETE /statements, of which nobody is told.                            *)
Delete(s) ==
    /\ Exists(s)
    /\ status' = [status EXCEPT ![s] = "deleted"]
    /\ JobIdle /\ UNCHANGED <<conn, edit, excused>>

JobStep(s) == JobStarts(s) \/ JobMissing(s) \/ JobOcr(s) \/ JobCommits(s) \/ JobRecords(s) \/ JobReturns(s) \/ JobRaises(s)
ConnStep(w) == Connect(w) \/ ReadInitial(w) \/ NothingToRead(w) \/ SendInitial(w) \/ Disconnect(w)
EditStep(e) == ChangeStatus(e) \/ Broadcast(e) \/ SendTo(e) \/ BroadcastEnds(e) \/ BroadcastRaises(e)
=============================================================================
